------------------------- MODULE KnowledgeReadings --------------------------
(***************************************************************************)
(* Listing, searching and reading the managed Markdown directory:          *)
(* knowledge/reader.py, application/knowledge.py and the three routes.     *)
(*                                                                         *)
(* All readings go through one worker thread, in the order they were       *)
(* asked; who waits longer than the timeout is answered 503, and the job   *)
(* it asked for is done all the same.  A search is two jobs.  Files come,  *)
(* change and go while a job reads them one by one.                        *)
(*                                                                         *)
(* A text is a sequence of symbols, "#" of them never part of a keyword.   *)
(* Every text has a heading, the title; titles are numbers: their order.   *)
(* A link to a file leads where it always leads; it has no text of its own *)
(* and shows its document under the document's name.                       *)
(***************************************************************************)
EXTENDS Integers, Sequences, FiniteSets, SequencesExt

CONSTANTS
    Paths,        \* relative paths as naturals: their order
    Details,      \* bound: the paths whose text is asked for
    Askers,       \* requests
    HitLimit,     \* limit of a search
    MaxChanges    \* bound: changes of the directory

ASSUME KnowledgeAssumption ==
    /\ Paths \subseteq Nat /\ IsFiniteSet(Paths) /\ Details \subseteq Paths
    /\ IsFiniteSet(Askers) /\ HitLimit \in Nat \ {0} /\ MaxChanges \in Nat

VARIABLES
    directory,   \* whether the directory is there
    file,        \* file[p]: what is at a path
    nature,      \* nature[p]: what kind of name it is
    leads,       \* leads[p]: what the name resolves to, itself where it is no link
    asked,       \* asked[r]: a request
    jobs,        \* the jobs of the worker; it is at the first of them
    changes      \* changes of the directory so far

knowledgeVars == <<directory, file, nature, leads, asked, jobs, changes>>

-----------------------------------------------------------------------------
(* Values *)

\* a plain name, one with a hidden part, one with a backslash or a control character, and
\* one the walk does not collect: no Markdown name, or one below a linked directory
Natures == {"plain", "hidden", "odd", "other"}
Outside == -1    \* where a link goes that leads out of the directory

DocumentText(title, body, secret) == [title |-> title, body |-> body, secret |-> secret]
NoText == DocumentText(0, <<>>, FALSE)
Keyword == <<"a", "a">>
KeywordTitle == 3    \* the title that has the keyword in it
DocumentTexts ==
    {DocumentText(1, <<"a", "a", "a", "a">>, FALSE), DocumentText(2, <<"a", "a", "a", "a">>, FALSE),
     DocumentText(KeywordTitle, <<"#">>, FALSE), DocumentText(1, <<"#", "a">>, FALSE),
     DocumentText(1, <<"a", "a">>, TRUE)}

JobOf(id, for, kind) ==
    [id |-> id, for |-> for, kind |-> kind, begun |-> FALSE, todo |-> <<>>, found |-> <<>>, steady |-> {}]

RequestAt(pc, kind, path, job, answer) ==
    [pc |-> pc, kind |-> kind, path |-> path, job |-> job, answer |-> answer]
NothingYet == [status |-> "none", items |-> <<>>, steady |-> {}]

KnowledgeInit ==
    /\ directory \in BOOLEAN
    /\ file \in [Paths -> IF directory THEN DocumentTexts \cup {NoText} ELSE {NoText}]
    /\ nature \in [Paths -> Natures]
    /\ leads \in [Paths -> Paths \cup {Outside}]
    /\ \A p \in Paths : /\ leads[p] # Outside => leads[leads[p]] = leads[p]
                        /\ leads[p] # p => file[p] = NoText
    /\ asked = [r \in Askers |-> RequestAt("none", "none", 0, 0, NothingYet)]
    /\ jobs = <<>> /\ changes = 0

-----------------------------------------------------------------------------
(* The rules of the reader *)

\* what is read under a name: a link is followed
TextAt(p) == IF leads[p] = Outside THEN NoText ELSE file[leads[p]]

\* Mutant: hidden is what has a hidden name, wherever it leads.
CandidateByName(p) ==
    TextAt(p) # NoText /\ nature[p] \notin {"other", "hidden"} /\ leads[p] # Outside
\* is_markdown, has_hidden_part and the resolved path: the suffix is that of the name
\* itself, all else is asked of what it leads to
Candidate(p) ==
    TextAt(p) # NoText /\ nature[p] # "other" /\ leads[p] # Outside /\ nature[leads[p]] # "hidden"

\* sorted by the resolved names; of the names of one document the walk's order stays
WalkedBefore(p, q) == leads[p] < leads[q] \/ (leads[p] = leads[q] /\ p < q)

\* the first n of S in an order
FirstBy(S, before(_, _), n) ==
    LET place(x) == Cardinality({y \in S : before(y, x)}) + 1
        all == Cardinality(S)
    IN [i \in 1 .. (IF all < n THEN all ELSE n) |-> CHOOSE x \in S : place(x) = i]

\* collect_docs: a document once for each name that leads to it
Collected ==
    LET found == {p \in Paths : Candidate(p)} IN FirstBy(found, WalkedBefore, Cardinality(found))

\* an empty text and one with a key in it are passed over
Readable(text) == text # NoText /\ ~text.secret

OccursAt(body, i) == i + Len(Keyword) - 1 <= Len(body) /\ SubSeq(body, i, i + Len(Keyword) - 1) = Keyword

\* Mutant: the search goes on one symbol further.
HitsOverlapping(body) == Cardinality({i \in DOMAIN body : OccursAt(body, i)})
\* find_snippets takes the next occurrence and goes on behind it
Hits(body) ==
    LET count[i \in 1 .. Len(body) + 1] ==
          IF i > Len(body) THEN 0
          ELSE IF OccursAt(body, i) THEN 1 + count[i + Len(Keyword)]
          ELSE count[i + 1]
    IN IF body = <<>> THEN 0 ELSE count[1]

\* what is shown is the resolved name; "from" is the name the walk came by
HitOf(p, text) ==
    [from |-> p, path |-> leads[p], title |-> text.title, title_hit |-> text.title = KeywordTitle,
     count |-> Hits(text.body)]

\* Mutant: counts before titles that match.
BetterByCount(a, b) ==
    \/ a.count > b.count
    \/ a.count = b.count /\ a.title_hit /\ ~b.title_hit
    \/ /\ a.count = b.count /\ a.title_hit = b.title_hit
       /\ \/ a.title < b.title
          \/ a.title = b.title /\ a.path < b.path
          \/ a.title = b.title /\ a.path = b.path /\ a.from < b.from
\* a match in the title first, then the count, then the title; what is left stays as collected
Better(a, b) ==
    \/ a.title_hit /\ ~b.title_hit
    \/ a.title_hit = b.title_hit /\ a.count > b.count
    \/ /\ a.title_hit = b.title_hit /\ a.count = b.count
       /\ \/ a.title < b.title
          \/ a.title = b.title /\ a.path < b.path
          \/ a.title = b.title /\ a.path = b.path /\ a.from < b.from

\* match_docs and search_documents
Ranked(found) ==
    FirstBy({h \in Range(found) : h.title_hit \/ h.count > 0}, Better, HitLimit)

\* Mutant: a hidden document is read by who knows its name.
ReadableHidden(p) ==
    /\ directory /\ nature[p] # "odd" /\ leads[p] # Outside
    /\ nature[leads[p]] # "other" /\ Readable(TextAt(p))
\* read_document refuses odd names first, and then looks at what the name leads to
ReadablePath(p) ==
    /\ directory /\ nature[p] # "odd" /\ leads[p] # Outside
    /\ nature[leads[p]] \notin {"other", "hidden"} /\ Readable(TextAt(p))

-----------------------------------------------------------------------------
(* The requests *)

Waits(r) == asked[r].pc \in {"first", "second"}

\* the root is looked up, and the first job handed to the worker
Ask(r, kind, path) ==
    /\ asked[r].pc = "none"
    /\ LET id == 2 * Cardinality({q \in Askers : asked[q].job > 0}) + 1
       IN IF ~directory
            THEN /\ asked' = [asked EXCEPT ![r] = RequestAt("answered", kind, path, 0,
                                                    [NothingYet EXCEPT !.status = "not_configured"])]
                 /\ UNCHANGED jobs
            ELSE /\ asked' = [asked EXCEPT ![r] = RequestAt("first", kind, path, id, NothingYet)]
                 /\ jobs' = Append(jobs, JobOf(id, r, IF kind = "read" THEN "read" ELSE "survey"))
    /\ UNCHANGED <<directory, file, nature, leads, changes>>

\* KnowledgeTimeoutError, answered 503
TimesOut(r) ==
    /\ Waits(r)
    /\ asked' = [asked EXCEPT ![r] = [@ EXCEPT !.pc = "answered", !.answer.status = "timeout"]]
    /\ UNCHANGED <<directory, file, nature, leads, jobs, changes>>

-----------------------------------------------------------------------------
(* The worker *)

JobBegins ==
    /\ jobs # <<>> /\ ~Head(jobs).begun
    /\ jobs' = [jobs EXCEPT ![1] = [@ EXCEPT !.begun = TRUE,
          !.todo = IF Head(jobs).kind = "read" THEN <<>> ELSE Collected,
          !.steady = {HitOf(p, TextAt(p)) : p \in {q \in Paths : Candidate(q) /\ Readable(TextAt(q))}}]]
    /\ UNCHANGED <<directory, file, nature, leads, asked, changes>>

\* read_limited of the next document; one that is gone reads like an empty one
JobReads ==
    /\ jobs # <<>> /\ Head(jobs).begun /\ Head(jobs).todo # <<>>
    /\ LET job == Head(jobs)
           p == Head(job.todo)
       IN jobs' = [jobs EXCEPT ![1] = [job EXCEPT !.todo = Tail(@),
            !.found = IF Readable(TextAt(p)) THEN Append(@, HitOf(p, TextAt(p))) ELSE @]]
    /\ UNCHANGED <<directory, file, nature, leads, asked, changes>>

AnsweredWith(request, status, items, steady) ==
    [request EXCEPT !.pc = "answered", !.answer = [status |-> status, items |-> items, steady |-> steady]]

\* future.result: only who still waits for this job takes its result
Fits(job) == Waits(job.for) /\ asked[job.for].job = job.id

JobEnds ==
    /\ jobs # <<>> /\ Head(jobs).begun /\ Head(jobs).todo = <<>>
    /\ LET job == Head(jobs)
           r == job.for
           hits == Ranked(job.found)
       IN IF ~Fits(job) THEN jobs' = Tail(jobs) /\ UNCHANGED asked
          ELSE IF job.kind = "read"
            THEN /\ jobs' = Tail(jobs)
                 /\ asked' = [asked EXCEPT ![r] = IF ReadablePath(@.path)
                        THEN AnsweredWith(@, "ok", <<HitOf(@.path, TextAt(@.path))>>, {})
                        ELSE AnsweredWith(@, "not_found", <<>>, {})]
          ELSE IF job.kind = "survey" /\ asked[r].kind = "list"
            THEN /\ jobs' = Tail(jobs)
                 /\ asked' = [asked EXCEPT ![r] =
                        AnsweredWith(@, IF job.found = <<>> THEN "empty" ELSE "ok", job.found, job.steady)]
          ELSE IF job.kind = "survey" /\ job.found = <<>>
            THEN /\ jobs' = Tail(jobs)
                 /\ asked' = [asked EXCEPT ![r] = AnsweredWith(@, "empty", <<>>, job.steady)]
          ELSE IF job.kind = "survey"
            THEN /\ jobs' = Append(Tail(jobs), JobOf(job.id + 1, r, "search"))
                 /\ asked' = [asked EXCEPT ![r] = [@ EXCEPT !.pc = "second", !.job = job.id + 1]]
          ELSE /\ jobs' = Tail(jobs)
               /\ asked' = [asked EXCEPT ![r] =
                      AnsweredWith(@, IF hits = <<>> THEN "no_match" ELSE "ok", hits, job.steady)]
    /\ UNCHANGED <<directory, file, nature, leads, changes>>

-----------------------------------------------------------------------------
(* The directory *)

\* a file that changes was not steady for the job that reads it
Unsteady(ps) == jobs' = IF jobs = <<>> THEN <<>> ELSE [jobs EXCEPT ![1].steady = {h \in @ : h.path \notin ps}]

FileChanges(p) ==
    /\ directory /\ leads[p] = p
    /\ changes < MaxChanges /\ changes' = changes + 1
    /\ \E text \in (DocumentTexts \cup {NoText}) \ {file[p]} : file' = [file EXCEPT ![p] = text]
    /\ Unsteady({p})
    /\ UNCHANGED <<directory, nature, leads, asked>>

DirectoryGoes ==
    /\ directory /\ changes < MaxChanges /\ changes' = changes + 1
    /\ directory' = FALSE
    /\ file' = [p \in Paths |-> NoText]
    /\ Unsteady(Paths)
    /\ UNCHANGED <<nature, leads, asked>>

KnowledgeNext ==
    \/ \E r \in Askers :
         \/ TimesOut(r) \/ Ask(r, "list", 0) \/ Ask(r, "search", 0)
         \/ \E p \in Details : Ask(r, "read", p)
    \/ JobBegins \/ JobReads \/ JobEnds
    \/ DirectoryGoes \/ \E p \in Paths : FileChanges(p)

KnowledgeSpec == KnowledgeInit /\ [][KnowledgeNext]_knowledgeVars

-----------------------------------------------------------------------------
(* What is answered *)

\* occurrences that do not overlap, all in body
Disjoint(body) ==
    {S \in SUBSET {i \in DOMAIN body : OccursAt(body, i)} :
        \A i, j \in S : i < j => i + Len(Keyword) <= j}

\* The count of a document is the most occurrences that do not overlap.
CountsAreMaximal ==
    \A n \in 0 .. 6 : \A body \in [1 .. n -> {"a", "#"}] :
        /\ \E S \in Disjoint(body) : Cardinality(S) = Hits(body)
        /\ \A S \in Disjoint(body) : Cardinality(S) <= Hits(body)

ShownPaths(r) == {asked[r].answer.items[i].path : i \in DOMAIN asked[r].answer.items}
Surveyed(r) == asked[r].answer.status \in {"ok", "empty", "no_match"}

\* a is worth at least what b is
NotWorse(a, b) ==
    /\ b.title_hit => a.title_hit
    /\ a.title_hit = b.title_hit => a.count >= b.count
    /\ a.title_hit = b.title_hit /\ a.count = b.count => a.title <= b.title

\* An answer says what it holds: a document once for each name that leads to it, none that
\* is hidden or outside, and the hits in the order of their worth.
AnswersAreSound(r) ==
    LET items == asked[r].answer.items
    IN /\ asked[r].answer.status = "ok" <=> items # <<>>
       /\ \A i, j \in DOMAIN items : items[i].from = items[j].from => i = j
       /\ \A h \in Range(items) : leads[h.from] = h.path /\ h.path \in Paths /\ nature[h.path] # "hidden"
       /\ asked[r].kind = "search" => \A i, j \in DOMAIN items : i < j => NotWorse(items[i], items[j])

\* A document that stayed as it is while the answer was put together is listed, and found
\* by a search that matches it, unless the search is full of hits as good as it.
NothingSteadyIsMissed(r) ==
    LET items == asked[r].answer.items
    IN \A h \in asked[r].answer.steady :
         \/ h \in Range(items)
         \/ /\ asked[r].kind = "search"
            /\ \/ ~h.title_hit /\ h.count = 0
               \/ Len(items) = HitLimit /\ \A i \in DOMAIN items : NotWorse(items[i], h)

\* In a directory that nobody changes, a name can be read if what it leads to is listed: a
\* link by its own name too, but no name the rule for paths refuses and no document that
\* has a name of another kind, which only a link lists.
ListedIsReadable(r, q) ==
    changes = 0 /\ asked[r].kind = "list" /\ Surveyed(r) /\ asked[q].kind = "read"
        /\ asked[q].answer.status \in {"ok", "not_found"} =>
      LET p == asked[q].path
      IN asked[q].answer.status = "ok" <=>
           leads[p] \in ShownPaths(r) /\ nature[p] # "odd" /\ nature[leads[p]] # "other"

(* Whatever is asked for together, given up and changed in the meantime,   *)
(* the answers of list, search and detail are sound, miss no document that *)
(* stayed as it is, and agree with each other; the hits of a document are  *)
(* counted without overlap.                                                *)
SearchesAreTrue ==
    /\ CountsAreMaximal
    /\ \A r \in Askers : AnswersAreSound(r) /\ NothingSteadyIsMissed(r)
    /\ \A r, q \in Askers : ListedIsReadable(r, q)
=============================================================================
