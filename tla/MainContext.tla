----------------------------- MODULE MainContext -----------------------------
(***************************************************************************)
(* What a Run of the main agent knows of the conversation before it: the   *)
(* messages that _select_main_context (application/services.py) freezes    *)
(* into its input at the acceptance, while older Runs still end and the    *)
(* messages are edited and deleted.                                        *)
(***************************************************************************)
EXTENDS Naturals, SequencesExt, FiniteSetsExt

CONSTANTS
    MaxTalks,     \* bound on the Runs of the session
    MaxRewrites,   \* bound on edits, deletions and damaged rows
    MaxMessages,  \* MAX_CONTEXT_MESSAGES
    MaxRecent,    \* MAX_CONTEXT_MESSAGES * 4, the newest Runs that are looked at
    MaxLength,    \* MAX_CONTEXT_CODEPOINTS
    AnswerSizes   \* the length of an answer; a question is of length 1

ASSUME ContextAssumption ==
    /\ MaxMessages \in Nat /\ MaxRecent \in Nat /\ MaxLength \in Nat
    /\ AnswerSizes \subseteq Nat

VARIABLES
    said,      \* the messages in the order of time
    talks,     \* the Runs in the order of their creation
    rewrites    \* edits, deletions and damaged rows so far

contextVars == <<said, talks, rewrites>>

Saying(of, role, size) ==
    [of |-> of, role |-> role, size |-> size, words |-> "plain", archived |-> FALSE]

\* A Run of the kind: its context, and the Run it repeats, 0 when it was created.
TalkOf(kind, context, source) ==
    [kind |-> kind, pc |-> "running", delivery |-> "none", context |-> context, source |-> source]

-----------------------------------------------------------------------------
(* The selection *)

\* Where the question and the answer of a Run are among the messages, 0 for none.
At(of, role) ==
    LET at == {i \in DOMAIN said : said[i].of = of /\ said[i].role = role /\ ~said[i].archived}
    IN IF at = {} THEN 0 ELSE Min(at)

\* Mutant: the question may be deleted.
UsableAnswered(r) ==
    /\ talks[r].kind = "main_agent" /\ talks[r].pc = "succeeded"
    /\ talks[r].delivery = "answer"
    /\ At(r, "assistant") # 0

\* A Run that was answered by a delivery that can be read.
Usable(r) ==
    /\ talks[r].kind = "main_agent" /\ talks[r].pc = "succeeded"
    /\ talks[r].delivery = "answer"
    /\ At(r, "user") # 0 /\ At(r, "assistant") # 0

\* The messages of the newest usable Runs, as long as they are fewer than twice the limit.
Candidates ==
    LET window == {r \in DOMAIN talks : r + MaxRecent > Len(talks)}
        newest == {r \in window : Usable(r)
                     /\ 2 * Cardinality({s \in window : s > r /\ Usable(s)}) < 2 * MaxMessages}
    IN {i \in DOMAIN said : said[i].of \in newest /\ i = At(said[i].of, said[i].role)}

\* The code points of messages.
Length(at) == Cardinality(UNION {{i} \X (1 .. said[i].size) : i \in at})

\* What is taken of the candidates among the newest messages, from the newest on.
NothingTaken == [at |-> <<>>, length |-> 0]
Taking(taken, i) == [at |-> <<i>> \o taken.at, length |-> taken.length + said[i].size]
HasRoom(taken, i) == Len(taken.at) < MaxMessages /\ taken.length + said[i].size <= MaxLength

\* Mutant: the selection ends with the first message that does not fit.
SelectedToFirst ==
    LET taken[k \in 0 .. Len(said)] ==
          IF k = 0 THEN NothingTaken
          ELSE LET i == Len(said) + 1 - k
               IN IF /\ i \in Candidates /\ HasRoom(taken[k - 1], i)
                     /\ \A j \in Candidates : j > i => j \in ToSet(taken[k - 1].at)
                    THEN Taking(taken[k - 1], i) ELSE taken[k - 1]
    IN taken[Len(said)].at

\* The newest candidates that fit into what is left, in the order of time: one that does not
\* fit is skipped.
Selected ==
    LET taken[k \in 0 .. Len(said)] ==
          IF k = 0 THEN NothingTaken
          ELSE LET i == Len(said) + 1 - k
               IN IF i \in Candidates /\ HasRoom(taken[k - 1], i)
                    THEN Taking(taken[k - 1], i) ELSE taken[k - 1]
    IN taken[Len(said)].at

\* The context as it is stored.
Context ==
    LET order == Selected
    IN [k \in DOMAIN order |-> [of |-> said[order[k]].of, role |-> said[order[k]].role,
                                size |-> said[order[k]].size, words |-> said[order[k]].words]]

-----------------------------------------------------------------------------
(* The Runs *)

Accepted(talk) ==
    /\ Len(talks) < MaxTalks
    /\ talks' = Append(talks, talk)
    /\ said' = Append(said, Saying(Len(talks) + 1, "user", 1))
    /\ UNCHANGED rewrites

\* create_run: a context that looks like a credential refuses the question.
AskMain ==
    LET context == Context
    IN /\ \A i \in DOMAIN context : context[i].words # "secret"
       /\ Accepted(TalkOf("main_agent", context, 0))

AskDiagnosis == Accepted(TalkOf("diagnosis", <<>>, 0))

\* Mutant: a rerun chooses its context anew.
AskedAgainNow(r) ==
    /\ talks[r].pc # "running"
    /\ Accepted(TalkOf(talks[r].kind,
                       IF talks[r].kind = "main_agent" THEN Context ELSE <<>>, r))
\* rerun_run: the frozen input is copied, its context with it.
AskedAgain(r) ==
    /\ talks[r].pc # "running"
    /\ Accepted(TalkOf(talks[r].kind, talks[r].context, r))

\* succeed_main_agent_run, succeed_run: the answer takes its time as it commits.  "answer"
\* stands for what is asked back too.
Succeeds(r, delivery, size) ==
    /\ talks[r].pc = "running"
    /\ delivery \in (IF talks[r].kind = "main_agent" THEN {"answer", "comparison"}
                     ELSE {"report"})
    /\ talks' = [talks EXCEPT ![r].pc = "succeeded", ![r].delivery = delivery]
    /\ said' = Append(said, Saying(r, "assistant", size))
    /\ UNCHANGED rewrites

\* A Run that fails or is cancelled says nothing.
EndsSilently(r) ==
    /\ talks[r].pc = "running"
    /\ talks' = [talks EXCEPT ![r].pc = "ended"]
    /\ UNCHANGED <<said, rewrites>>

Rewritten ==
    /\ rewrites < MaxRewrites
    /\ rewrites' = rewrites + 1

\* edit_message and archive_message of a question.  An edit is not searched for credentials.
RewriteQuestion(r, words) ==
    /\ At(r, "user") # 0
    /\ said' = [said EXCEPT ![At(r, "user")].words = words]
    /\ UNCHANGED talks /\ Rewritten
DeleteQuestion(r) ==
    /\ At(r, "user") # 0
    /\ said' = [said EXCEPT ![At(r, "user")].archived = TRUE]
    /\ UNCHANGED talks /\ Rewritten

\* A stored delivery that can no longer be read.
DeliveryIsDamaged(r) ==
    /\ talks[r].delivery = "answer"
    /\ talks' = [talks EXCEPT ![r].delivery = "unreadable"]
    /\ UNCHANGED said /\ Rewritten

ContextInit == said = <<>> /\ talks = <<>> /\ rewrites = 0

ContextNext ==
    \/ AskMain \/ AskDiagnosis
    \/ \E r \in DOMAIN talks :
         \/ AskedAgain(r) \/ EndsSilently(r) \/ DeleteQuestion(r) \/ DeliveryIsDamaged(r)
         \/ \E words \in {"edited", "secret"} : RewriteQuestion(r, words)
         \/ \E delivery \in {"answer", "comparison", "report"}, size \in AnswerSizes :
              Succeeds(r, delivery, size)

-----------------------------------------------------------------------------
(* What a context is *)

Eligible == {i \in DOMAIN said : ~said[i].archived /\ Usable(said[i].of)
                                   /\ At(said[i].of, "user") # 0}

\* The usable Runs that are newer than the one of a message.
NewerTalks(i) == {r \in DOMAIN talks : r > said[i].of /\ Usable(r)}

(* The context a question would be given holds messages of answered Runs   *)
(* that are still there, each once and in the order of time, no more than  *)
(* the limits allow, the newest first: a newer message is left out for an  *)
(* older one only if it did not fit beside the still newer ones, if as     *)
(* many newer Runs as there may be messages were answered before it, or    *)
(* if so many Runs of any kind came after its own that it is not looked    *)
(* at.  What a Run was given stays what it was, for its reruns too: words  *)
(* of Runs before it and no credential.                                    *)
ContextsAreRecent ==
    LET order == Selected
        at == ToSet(order)
        later(i) == {j \in at : j > i}
    IN /\ at \subseteq Eligible
       /\ \A k, l \in DOMAIN order : k < l => order[k] < order[l]
       /\ Cardinality(at) <= MaxMessages /\ Length(at) <= MaxLength
       /\ \A i \in Eligible \ at :
            \/ Length(later(i)) + said[i].size > MaxLength
            \/ Cardinality(later(i)) = MaxMessages
            \/ Cardinality(NewerTalks(i)) >= MaxMessages
            \/ Len(talks) - said[i].of >= MaxRecent
       /\ \A r \in DOMAIN talks :
            LET context == talks[r].context
            IN /\ \A i \in DOMAIN context :
                    /\ context[i].of < r /\ context[i].words # "secret"
                    /\ talks[context[i].of].kind = "main_agent"
                    /\ \E j \in DOMAIN said :
                         /\ said[j].of = context[i].of /\ said[j].role = context[i].role
                         /\ said[j].size = context[i].size
               /\ talks[r].source # 0 => context = talks[talks[r].source].context

ContextSpec == ContextInit /\ [][ContextNext]_contextVars
=============================================================================
