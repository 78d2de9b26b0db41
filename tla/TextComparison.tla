--------------------------- MODULE TextComparison ---------------------------
(***************************************************************************)
(* The comparison of two texts by the main agent, from the materials that  *)
(* are frozen at the acceptance (domain/main_agent.py), over the blocks of *)
(* capabilities/text_compare.py and the check of the delivery that is made *)
(* before it is stored (application/run_execution.py), to what the page    *)
(* reads of them (main-delivery-readers.ts).                               *)
(*                                                                         *)
(* A text is a sequence of characters: letters, line feeds and carriage    *)
(* returns.  Python's difflib is modelled by what it documents.            *)
(***************************************************************************)
EXTENDS Naturals, SequencesExt, FiniteSetsExt

CONSTANTS
    Letters,    \* characters of a line
    MaxLines,   \* MAX_MATERIAL_LINES
    MaxBlocks   \* MAX_DIFF_BLOCKS

VARIABLES
    form,        \* the form of the composer
    materials,   \* the two texts as they were frozen
    comparison   \* what became of the request

comparisonVars == <<form, materials, comparison>>

Sides == {"text_a", "text_b"}
NoMaterial == [given |-> FALSE, text |-> <<>>]

-----------------------------------------------------------------------------
(* The materials *)

\* Mutant: each of the two characters of a pair becomes a line break.
NormalizedApart(text) == [i \in DOMAIN text |-> IF text[i] = "CR" THEN "LF" ELSE text[i]]

\* normalize_material_text: one kind of line break.
Normalized(text) ==
    FoldLeft(LAMBDA n, i : IF text[i] = "LF" /\ i > 1 /\ text[i - 1] = "CR" THEN n
                           ELSE Append(n, IF text[i] = "CR" THEN "LF" ELSE text[i]),
             <<>>, [i \in DOMAIN text |-> i])

\* _material_lines: an empty text has no line, and the last line may be empty.
LinesOf(text) ==
    IF text = <<>> THEN <<>>
    ELSE FoldLeft(LAMBDA lines, c : IF c = "LF" THEN Append(lines, <<>>)
                                    ELSE [lines EXCEPT ![Len(lines)] = Append(@, c)],
                  << <<>> >>, text)

\* "\n".join
Quote(lines) ==
    FoldLeft(LAMBDA q, i : IF i = 1 THEN lines[1] ELSE q \o <<"LF">> \o lines[i],
             <<>>, [i \in DOMAIN lines |-> i])

\* validate_material_text
Accepted(text) == Len(LinesOf(Normalized(text))) <= MaxLines

-----------------------------------------------------------------------------
(* The blocks *)

Spans(lo, hi) == {s \in (lo .. hi) \X (lo .. hi) : s[1] < s[2]}

\* SequenceMatcher.find_longest_match: of the longest common runs of lines the first in a,
\* then the first in b.  [at, at + size) in a, and where it begins in b.
CommonRuns(a, b, alo, ahi, blo, bhi) ==
    {r \in {[at |-> s[1], size |-> s[2] - s[1], bt |-> j] : s \in Spans(alo, ahi), j \in blo .. bhi} :
        /\ r.bt + r.size <= bhi
        /\ \A k \in 0 .. r.size - 1 : a[r.at + k] = b[r.bt + k]}
Longest(runs) ==
    CHOOSE r \in runs : \A q \in runs :
        \/ r.size > q.size
        \/ r.size = q.size /\ r.at < q.at
        \/ r.size = q.size /\ r.at = q.at /\ r.bt <= q.bt

\* SequenceMatcher.get_matching_blocks
RECURSIVE Matches(_, _, _, _, _, _)
Matches(a, b, alo, ahi, blo, bhi) ==
    LET runs == CommonRuns(a, b, alo, ahi, blo, bhi)
        m == Longest(runs)
    IN IF runs = {} THEN <<>>
       ELSE Matches(a, b, alo, m.at, blo, m.bt) \o <<m>>
              \o Matches(a, b, m.at + m.size, ahi, m.bt + m.size, bhi)

NoSide == [start |-> 0, end |-> 0, lines |-> <<>>, quote |-> <<>>]

\* The lines from lo to before hi, by numbers that begin with 1.
SideOf(lines, lo, hi) ==
    IF lo = hi THEN NoSide
    ELSE [start |-> lo, end |-> hi - 1, lines |-> SubSeq(lines, lo, hi - 1),
          quote |-> Quote(SubSeq(lines, lo, hi - 1))]

\* The tag of an opcode that is not "equal", and the kind of its block.
KindOf(alo, ahi, blo, bhi) ==
    IF alo = ahi THEN "added" ELSE IF blo = bhi THEN "deleted" ELSE "modified"

\* _block
Block(a, b, alo, ahi, blo, bhi) ==
    [kind |-> KindOf(alo, ahi, blo, bhi), a |-> SideOf(a, alo, ahi), b |-> SideOf(b, blo, bhi)]

\* get_opcodes: between two matches lies a difference, unless nothing lies between.
Blocks(a, b) ==
    LET ms == Matches(a, b, 1, Len(a) + 1, 1, Len(b) + 1)
                \o <<[at |-> Len(a) + 1, size |-> 0, bt |-> Len(b) + 1]>>
        AEnd(i) == IF i = 0 THEN 1 ELSE ms[i].at + ms[i].size
        BEnd(i) == IF i = 0 THEN 1 ELSE ms[i].bt + ms[i].size
        Gap(i) == Block(a, b, AEnd(i - 1), ms[i].at, BEnd(i - 1), ms[i].bt)
    IN FoldLeft(LAMBDA bs, i :
                  IF AEnd(i - 1) = ms[i].at /\ BEnd(i - 1) = ms[i].bt THEN bs ELSE Append(bs, Gap(i)),
                <<>>, [i \in DOMAIN ms |-> i])

\* _validate_block_side
SideFits(s, present) ==
    IF ~present THEN s = NoSide
    ELSE /\ s.start >= 1 /\ s.end >= s.start
         /\ Len(s.lines) = s.end - s.start + 1
         /\ \A i \in DOMAIN s.lines : ToSet(s.lines[i]) \subseteq Letters
         /\ s.quote = Quote(s.lines)

\* TextDiffBlockV1._validate_sides
BlockFits(block) ==
    /\ SideFits(block.a, block.kind \in {"deleted", "modified"})
    /\ SideFits(block.b, block.kind \in {"added", "modified"})

\* _validate_block_order: ascending, without an overlap.
InOrder(sides) ==
    LET present == SelectSeq(sides, LAMBDA s : s # NoSide)
    IN \A i \in 2 .. Len(present) : present[i].start > present[i - 1].end

NoDelivery == [kind |-> "none", status |-> "none", blocks |-> <<>>, missing |-> {}]

\* TextComparisonV1._validate_comparison
ComparisonFits(c) ==
    /\ (c.status = "no_difference") <=> (c.blocks = <<>>)
    /\ \A i \in DOMAIN c.blocks : BlockFits(c.blocks[i])
    /\ InOrder([i \in DOMAIN c.blocks |-> c.blocks[i].a])
    /\ InOrder([i \in DOMAIN c.blocks |-> c.blocks[i].b])

\* Mutant: what is more than the limit is cut off.
ComparedCut(a, b) ==
    LET all == Blocks(LinesOf(Normalized(a)), LinesOf(Normalized(b)))
        blocks == SubSeq(all, 1, Min({MaxBlocks, Len(all)}))
    IN [NoDelivery EXCEPT !.kind = "comparison", !.blocks = blocks,
            !.status = IF blocks = <<>> THEN "no_difference" ELSE "has_difference"]

\* compare_materials: more blocks than the limit are an error.
Compared(a, b) ==
    LET blocks == Blocks(LinesOf(Normalized(a)), LinesOf(Normalized(b)))
    IN IF Len(blocks) > MaxBlocks THEN NoDelivery
       ELSE [NoDelivery EXCEPT !.kind = "comparison", !.blocks = blocks,
                !.status = IF blocks = <<>> THEN "no_difference" ELSE "has_difference"]

-----------------------------------------------------------------------------
(* The composer *)

\* Mutant: a text that is left empty is not sent.
SentFilled(side) ==
    IF form.given[side] /\ form.text[side] # <<>> THEN [given |-> TRUE, text |-> form.text[side]]
    ELSE NoMaterial
\* An empty text that is ticked is a text, one that is not ticked is none.
Sent(side) == IF form.given[side] THEN [given |-> TRUE, text |-> form.text[side]] ELSE NoMaterial

NoComparison == [state |-> "none", asked |-> [s \in Sides |-> FALSE], delivery |-> NoDelivery]

Tick(side) ==
    /\ form' = [form EXCEPT !.given[side] = ~@]
    /\ UNCHANGED <<materials, comparison>>

\* After a question was accepted its texts stay in the form, ticked, for the next one.
AskAgain ==
    /\ ~form.query
    /\ form' = [form EXCEPT !.query = TRUE]
    /\ UNCHANGED <<materials, comparison>>

\* MainAgentComposer.submit, and MainInputV1 behind it: a text of too many lines is refused
\* before anything is written, else what was sent is frozen.
Submit ==
    /\ form.query /\ comparison.state # "running"
    /\ LET sent == [s \in Sides |-> Sent(s)]
           accepted == \A s \in Sides : sent[s].given => Accepted(sent[s].text)
       IN /\ materials' = IF accepted THEN sent ELSE materials
          /\ comparison' = [NoComparison EXCEPT !.state = IF accepted THEN "running" ELSE "refused",
                                                !.asked = form.given]
          /\ form' = [form EXCEPT !.query = ~accepted]

-----------------------------------------------------------------------------
(* The Run *)

MissingSides == {s \in Sides : ~materials[s].given}
ComparedMaterials == Compared(materials["text_a"].text, materials["text_b"].text)

\* What an executor may hand over: the comparison of its materials, the one of the materials
\* the other way round, one without its first block, or a question for materials.
Handed ==
    LET whole == ComparedMaterials
        part == [whole EXCEPT !.blocks = IF @ = <<>> THEN @ ELSE Tail(@)]
        swapped == Compared(materials["text_b"].text, materials["text_a"].text)
    IN (IF MissingSides = {} THEN {d \in {whole, part, swapped} : d # NoDelivery /\ ComparisonFits(d)}
        ELSE {})
         \cup {[NoDelivery EXCEPT !.kind = "needs_input", !.missing = m] : m \in SUBSET Sides \ {{}}}

\* Mutant: a comparison is accepted by its status.
ValidByStatus(d) ==
    \/ d.kind = "needs_input" /\ d.missing = MissingSides
    \/ d.kind = "comparison" /\ MissingSides = {} /\ d.status = ComparedMaterials.status
\* validate_main_delivery: the comparison is computed once more.
Valid(d) ==
    \/ d.kind = "needs_input" /\ d.missing = MissingSides
    \/ d.kind = "comparison" /\ MissingSides = {} /\ d = ComparedMaterials

\* The delivery that is handed over, or none.
Complete ==
    /\ comparison.state = "running"
    /\ \/ \E d \in Handed :
            comparison' = IF Valid(d) THEN [comparison EXCEPT !.state = "succeeded", !.delivery = d]
                          ELSE [comparison EXCEPT !.state = "failed"]
       \/ comparison' = [comparison EXCEPT !.state = "failed"]
    /\ UNCHANGED <<form, materials>>

-----------------------------------------------------------------------------
(* The page *)

\* read_line_range
RangeReads(side) == side = NoSide \/ side.start \in 1 .. side.end

\* read_diff_block: what is shown of a block are its ranges and quotes.
ReadBlock(block) ==
    [kind |-> block.kind,
     a |-> [start |-> block.a.start, end |-> block.a.end, quote |-> block.a.quote],
     b |-> [start |-> block.b.start, end |-> block.b.end, quote |-> block.b.quote]]

\* read_comparison: a block that cannot be read closes all of them.
ReadComparison(d) ==
    IF \A i \in DOMAIN d.blocks : RangeReads(d.blocks[i].a) /\ RangeReads(d.blocks[i].b)
    THEN [ok |-> TRUE, blocks |-> [i \in DOMAIN d.blocks |-> ReadBlock(d.blocks[i])]]
    ELSE [ok |-> FALSE, blocks |-> <<>>]

-----------------------------------------------------------------------------
(* What a comparison tells *)

\* The lines of the other text, from those of one and the blocks: the lines between two
\* blocks are taken over, and where a block lies is told by whichever side it has.
Patched(lines, blocks, Own(_), Other(_)) ==
    LET step(done, block) ==
          LET before == IF Own(block) # NoSide THEN Own(block).start - done.at
                        ELSE Other(block).start - 1 - Len(done.out)
          IN [at |-> done.at + before + Len(Own(block).lines),
              out |-> done.out \o SubSeq(lines, done.at, done.at + before - 1) \o Other(block).lines]
        end == FoldLeft(step, [at |-> 1, out |-> <<>>], blocks)
    IN end.out \o SubSeq(lines, end.at, Len(lines))

\* A text with its line breaks written one way, whatever the code makes of them.
AsRead(text) ==
    LET read(r, c) ==
          [return |-> c = "CR",
           out |-> CASE c = "LF" /\ r.return -> r.out
                     [] c \in {"CR", "LF"} -> Append(r.out, "LF")
                     [] OTHER -> Append(r.out, c)]
    IN FoldLeft(read, [return |-> FALSE, out |-> <<>>], text).out

(* A request that succeeded was for the texts that were ticked, empty ones *)
(* too: it asks for exactly those that were not, or it compares all that   *)
(* was sent.  The texts are called equal only if they are up to the way    *)
(* line breaks are written; the blocks turn one text into the other, both  *)
(* ways, and none of them holds a line that both texts have there; the     *)
(* page reads each of them.                                                *)
ComparisonsAreExact ==
    LET d == comparison.delivery
        a == AsRead(materials["text_a"].text)
        b == AsRead(materials["text_b"].text)
        A(block) == block.a
        B(block) == block.b
    IN comparison.state = "succeeded" =>
         /\ d.missing = {s \in Sides : ~comparison.asked[s]}
         /\ d.kind = IF d.missing = {} THEN "comparison" ELSE "needs_input"
         /\ d.missing = {} =>
              /\ ComparisonFits(d)
              /\ (d.status = "no_difference") <=> (a = b)
              /\ Patched(LinesOf(a), d.blocks, A, B) = LinesOf(b)
              /\ Patched(LinesOf(b), d.blocks, B, A) = LinesOf(a)
              /\ \A i \in DOMAIN d.blocks :
                   ToSet(d.blocks[i].a.lines) \cap ToSet(d.blocks[i].b.lines) = {}
              /\ ReadComparison(d).ok
              /\ Len(ReadComparison(d).blocks) = Len(d.blocks)

-----------------------------------------------------------------------------

\* Texts of at most MaxLines lines and one of a line more, each line break written one way.
TextsBy(breaks) ==
    LET Lines == {<<>>} \cup {<<c>> : c \in Letters}
        joined(lines, brk) == FoldLeft(LAMBDA t, i : IF i = 1 THEN lines[1] ELSE t \o brk \o lines[i],
                                       <<>>, [i \in DOMAIN lines |-> i])
    IN {joined(lines, brk) : lines \in UNION {[1 .. n -> Lines] : n \in 0 .. MaxLines}, brk \in breaks}
         \cup {joined([i \in 1 .. MaxLines + 1 |-> <<>>], brk) : brk \in breaks}

ComparisonStart == materials = [s \in Sides |-> NoMaterial] /\ comparison = NoComparison

ComparisonInit ==
    /\ \E a \in TextsBy({<<"LF">>}), b \in TextsBy({<<"LF">>, <<"CR">>, <<"CR", "LF">>}) :
          form = [query |-> TRUE, given |-> [s \in Sides |-> FALSE],
                  text |-> [s \in Sides |-> IF s = "text_a" THEN a ELSE b]]
    /\ ComparisonStart

ComparisonNext == (\E side \in Sides : Tick(side)) \/ AskAgain \/ Submit \/ Complete
=============================================================================
