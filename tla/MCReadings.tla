----------------------------- MODULE MCReadings -----------------------------
(***************************************************************************)
(* One run for all that is read: a behaviour is about one kind of reading, *)
(* and what belongs to the others stays as it is at the beginning.  The    *)
(* kinds share no state in the code that is modelled here.                 *)
(***************************************************************************)
EXTENDS PagedLists, HistoryExports, MonitorReadings, KnowledgeReadings, MainContext

CONSTANTS Posts, Runs, Changes, Keys, Texts, Letters, MaxLines, MaxBlocks

VARIABLES kind, timeline, stamp, writer, run, keys, change, form, materials, comparison

Talk == INSTANCE ConversationTurns WITH Apart <- TRUE
Compare == INSTANCE TextComparison

talkVars == <<timeline, stamp, writer, run, keys, change>>
compareVars == <<form, materials, comparison>>

Kinds == {"lists", "audit_export", "session_export", "saves", "overview", "knowledge", "turns",
          "comparison", "context"}

ListsRest == list = "documents" /\ parent = FALSE /\ table = {} /\ ListsInit
ExportsRest == audited = {} /\ ExportsInit
\* no service is left, so that no history is asked for in the states of the other kinds
MonitorRest ==
    /\ now = 1 /\ registry = {} /\ overview = NoOverview
    /\ sampled = [s \in Watched |-> {}] /\ settings = [s \in Watched |-> RowAbsent]
    /\ saving = [q \in Saves |-> Unsent(CHOOSE s \in Watched : TRUE)]
CompareRest ==
    /\ form = [query |-> TRUE, given |-> [s \in Compare!Sides |-> FALSE],
               text |-> [s \in Compare!Sides |-> <<>>]]
    /\ Compare!ComparisonStart
\* bound: at most one link, and only the least name may be not plain: hidden, or odd or of
\* another kind beside a link within the directory
FewLinks ==
    /\ Cardinality({p \in Paths : leads[p] # p}) <= 1
    /\ \A p \in Paths : nature[p] # "plain" =>
         /\ \A q \in Paths : p <= q
         /\ nature[p] = "hidden" \/ \E q \in Paths : leads[q] \notin {q, Outside}
KnowledgeRest ==
    /\ directory = FALSE /\ nature = [p \in Paths |-> "plain"] /\ leads = [p \in Paths |-> p]
    /\ KnowledgeInit

Init ==
    /\ kind \in Kinds
    /\ IF kind = "lists" THEN ListsInit ELSE ListsRest
    /\ IF kind = "audit_export" THEN ExportsInit ELSE ExportsRest
    /\ IF kind \in {"saves", "overview"} THEN MonitorInit ELSE MonitorRest
    /\ IF kind = "knowledge" THEN KnowledgeInit /\ FewLinks ELSE KnowledgeRest
    /\ Talk!TimelineInit
    /\ IF kind = "comparison" THEN Compare!ComparisonInit ELSE CompareRest
    /\ ContextInit

Next ==
    /\ UNCHANGED kind
    /\ \/ kind = "lists" /\ ListsNext
       \/ kind # "lists" /\ UNCHANGED listVars
    /\ \/ kind = "audit_export" /\ ExportsNext
       \/ kind = "session_export" /\ DocumentNext
       \/ kind \notin {"audit_export", "session_export"} /\ UNCHANGED exportVars
    /\ \/ kind = "saves" /\ SavingNext
       \/ kind = "overview" /\ ReadingNext
       \/ kind \notin {"saves", "overview"} /\ UNCHANGED monitorVars
    /\ \/ kind = "knowledge" /\ KnowledgeNext
       \/ kind # "knowledge" /\ UNCHANGED knowledgeVars
    /\ \/ kind = "turns" /\ Talk!TimelineNext
       \/ kind # "turns" /\ UNCHANGED talkVars
    /\ \/ kind = "comparison" /\ Compare!ComparisonNext
       \/ kind # "comparison" /\ UNCHANGED compareVars
    /\ \/ kind = "context" /\ ContextNext
       \/ kind # "context" /\ UNCHANGED contextVars

readingVars == <<kind, listVars, exportVars, monitorVars, knowledgeVars, talkVars,
                 compareVars, contextVars>>

Spec == Init /\ [][Next]_readingVars

\* Questions to the reader, posts and Runs are interchangeable; keys of rows, paths and
\* services are not.
Symmetry ==
    UNION {Permutations(S) : S \in {Askers, Posts, Runs}}

(* The turns of ConversationTurns, the comparisons of TextComparison and   *)
(* the contexts of MainContext: every listed Run is shown once, with its   *)
(* own answer and under its own question, in the order of time; what it    *)
(* was given to compare is compared exactly; and what it was told of the   *)
(* conversation is the newest of it.                                       *)
TurnsAreHonest ==
    /\ kind = "turns" => Talk!TurnsAreHonest
    /\ kind = "comparison" => Compare!ComparisonsAreExact
    /\ kind = "context" => ContextsAreRecent
=============================================================================
