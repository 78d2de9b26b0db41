-------------------------- MODULE MessageTimeline ---------------------------
(***************************************************************************)
(* The messages of one session: plain messages with their replies, Runs    *)
(* with their input message and their answer, and the edits and deletions  *)
(* that change what was said while Runs still wait to read it.  From       *)
(* plain_message_writer.py, message_editing_writer.py, the message         *)
(* repository and the parts of application/services.py that write and read *)
(* messages.                                                               *)
(*                                                                         *)
(* The idempotency races of acceptance are in RunLifecycle: here a Run is  *)
(* accepted in one step.  What is split is the time a writer takes and the *)
(* commit that shows its messages, and an edit's read and its UPDATE.      *)
(***************************************************************************)
EXTENDS Naturals, Sequences, SequencesExt

CONSTANTS
    Posts,      \* plain messages that may be sent
    Runs,       \* Runs that may be accepted, created or rerun
    Changes,      \* PATCH and DELETE requests on a message
    Keys,       \* Idempotency-Key header values of reruns
    Texts,      \* what a person may write
    Apart       \* no two writers take times less than two microseconds apart

ASSUME ApartAssumption == Apart \in BOOLEAN
ASSUME SendersAssumption == Posts \cap Runs = {}

VARIABLES
    timeline,   \* the MessageRecord rows in the order of (created_at, id)
    stamp,      \* the latest time taken
    writer,     \* writer[p]: the time a plain message took before its commit
    run,        \* run[r]: a Run and what it was asked and executed
    keys,       \* the rerun keys: [key, of, text, run]
    change        \* edit[e]: where an edit is

timelineVars == <<timeline, stamp, writer, run, keys, change>>

-----------------------------------------------------------------------------
(* Values *)

Message == [by : Posts \cup Runs, role : {"user", "assistant"}, at : Nat,
            text : Texts \cup {"reply"}, archived : BOOLEAN]

\* A main_agent Run has a snapshot of its input, a diagnosis Run only the message.
RunPcs == {"absent", "queued", "running", "ended"}
RunOf(pc, frozen, asked, got) == [pc |-> pc, frozen |-> frozen, asked |-> asked, got |-> got]

ChangePcs == {"idle", "updating", "done", "not_found"}
ChangeOf(pc, target, text) == [pc |-> pc, target |-> target, text |-> text]

TimelineTypeOK ==
    /\ timeline \in Seq(Message)
    /\ \A i, j \in 1 .. Len(timeline) : i < j => timeline[i].at <= timeline[j].at
    /\ stamp \in Nat
    /\ writer \in [Posts -> Nat]
    /\ run \in [Runs -> [pc : RunPcs, frozen : BOOLEAN,
                         asked : Texts \cup {"none"}, got : Texts \cup {"none"}]]
    /\ keys \subseteq [key : Keys, of : Runs, text : Texts, run : Runs]
    /\ change \in [Changes -> [pc : ChangePcs, target : Posts \cup Runs \cup {"none"},
                               text : Texts \cup {"none"}]]

TimelineInit ==
    /\ timeline = <<>>
    /\ stamp = 0
    /\ writer = [p \in Posts |-> 0]
    /\ run = [r \in Runs |-> RunOf("absent", FALSE, "none", "none")]
    /\ keys = {}
    /\ change = [e \in Changes |-> ChangeOf("idle", "none", "none")]

-----------------------------------------------------------------------------
(* The message repository *)

\* A clock that is not Apart may give two writers the same microsecond, or the
\* one between a message and its reply.
TakeTime == stamp' \in IF Apart THEN {stamp + 2} ELSE {stamp, stamp + 1, stamp + 2}

\* Mutant: messages are listed as they were inserted.
AddLast(line, message) == {Append(line, message)}

\* Adding a message: before those of a later time, anywhere among those of its
\* own time, as the random ids are ordered.
AddTo(line, message) ==
    {InsertAt(line, i, message) : i \in
       {i \in 1 .. Len(line) + 1 :
          /\ \A j \in 1 .. i - 1 : line[j].at <= message.at
          /\ \A j \in i .. Len(line) : line[j].at >= message.at}}

Said(by, role, at, text) ==
    [by |-> by, role |-> role, at |-> at, text |-> text, archived |-> FALSE]

\* Where the user message of a sender is, 0 when it has none.
AskedAt(by) ==
    LET at == {i \in 1 .. Len(timeline) : timeline[i].by = by /\ timeline[i].role = "user"}
    IN IF at = {} THEN 0 ELSE Min(at)

TextOf(by) == timeline[AskedAt(by)].text

-----------------------------------------------------------------------------
(* Plain messages *)

SendPlain(p) ==
    /\ writer[p] = 0
    /\ AskedAt(p) = 0
    /\ TakeTime
    /\ writer' = [writer EXCEPT ![p] = stamp']
    /\ UNCHANGED <<timeline, run, keys, change>>

\* The message and, one microsecond later, its reply.
CommitPlain(p, text) ==
    /\ writer[p] # 0
    /\ \E line \in AddTo(timeline, Said(p, "user", writer[p], text)) :
         timeline' \in AddTo(line, Said(p, "assistant", writer[p] + 1, "reply"))
    /\ writer' = [writer EXCEPT ![p] = 0]
    /\ UNCHANGED <<stamp, run, keys, change>>

-----------------------------------------------------------------------------
(* Runs *)

\* Acceptance: the input message and the queued Run.
AcceptRun(r, frozen, text) ==
    /\ run[r].pc = "absent"
    /\ TakeTime
    /\ timeline' \in AddTo(timeline, Said(r, "user", stamp', text))
    /\ run' = [run EXCEPT ![r] = RunOf("queued", frozen, text, "none")]
    /\ UNCHANGED <<writer, change>>

CreateRun(r, frozen, text) == AcceptRun(r, frozen, text) /\ UNCHANGED keys

\* Mutant: both kinds read the message.
InputOfMessage(r) == TextOf(r)

\* What the claim hands to the executor, and what a rerun asks again: the
\* snapshot of a main_agent Run, the message of a diagnosis Run, deleted or not.
InputOf(r) == IF run[r].frozen THEN run[r].asked ELSE TextOf(r)

Claim(r) ==
    /\ run[r].pc = "queued"
    /\ run' = [run EXCEPT ![r] = RunOf("running", run[r].frozen, run[r].asked, InputOf(r))]
    /\ UNCHANGED <<timeline, stamp, writer, keys, change>>

\* A Run that is answered takes its time as it commits.
Answer(r) ==
    /\ run[r].pc = "running"
    /\ TakeTime
    /\ timeline' \in AddTo(timeline, Said(r, "assistant", stamp', "reply"))
    /\ run' = [run EXCEPT ![r] = RunOf("ended", run[r].frozen, run[r].asked, run[r].got)]
    /\ UNCHANGED <<writer, keys, change>>

\* A Run that fails or is cancelled has no answer.
EndSilently(r) ==
    /\ run[r].pc \in {"queued", "running"}
    /\ run' = [run EXCEPT ![r] = RunOf("ended", run[r].frozen, run[r].asked, run[r].got)]
    /\ UNCHANGED <<timeline, stamp, writer, keys, change>>

\* A rerun of an ended Run under a key that was not used yet.  The fingerprint
\* that is stored with the key covers the Run and its input as it reads now.
Rerun(r, of, key) ==
    /\ run[of].pc = "ended"
    /\ \A k \in keys : k.key # key
    /\ AcceptRun(r, run[of].frozen, InputOf(of))
    /\ keys' = keys \cup {[key |-> key, of |-> of, text |-> InputOf(of), run |-> r]}

\* The answer to the same rerun request sent again.
ReplayOf(of, key) ==
    LET k == CHOOSE k \in keys : k.key = key
    IN IF k.of = of /\ k.text = InputOf(of) THEN "replayed" ELSE "key_reused"

-----------------------------------------------------------------------------
(* Edits *)

\* edit_message: the message is read, then updated if it is still there.
ReadToEdit(e, by, text) ==
    /\ change[e].pc = "idle"
    /\ AskedAt(by) # 0
    /\ change' = [change EXCEPT ![e] =
                  IF timeline[AskedAt(by)].archived THEN ChangeOf("not_found", "none", "none")
                  ELSE ChangeOf("updating", by, text)]
    /\ UNCHANGED <<timeline, stamp, writer, run, keys>>

\* Mutant: the UPDATE is not conditional.
UpdateAnyContent(e) ==
    LET i == AskedAt(change[e].target)
    IN /\ change[e].pc = "updating"
       /\ timeline' = [timeline EXCEPT ![i].text = change[e].text]
       /\ change' = [change EXCEPT ![e] = ChangeOf("done", "none", "none")]
       /\ UNCHANGED <<stamp, writer, run, keys>>

\* update_content.
UpdateContent(e) ==
    LET i == AskedAt(change[e].target)
    IN /\ change[e].pc = "updating"
       /\ IF timeline[i].archived
            THEN change' = [change EXCEPT ![e] = ChangeOf("not_found", "none", "none")]
                 /\ UNCHANGED timeline
            ELSE change' = [change EXCEPT ![e] = ChangeOf("done", "none", "none")]
                 /\ timeline' = [timeline EXCEPT ![i].text = change[e].text]
       /\ UNCHANGED <<stamp, writer, run, keys>>

\* Mutant: the scan does not stop at the next question.
PairedReplyAnywhere(i) ==
    LET after == {j \in i + 1 .. Len(timeline) :
                    /\ ~timeline[j].archived
                    /\ timeline[j].role = "assistant" /\ timeline[j].by \in Posts}
    IN IF after = {} THEN {} ELSE {Min(after)}

\* Mutant: the answer of a Run counts as a reply.
PairedReplyOfRun(i) ==
    LET after == {j \in i + 1 .. Len(timeline) : ~timeline[j].archived}
    IN {j \in after : j = Min(after) /\ timeline[j].role = "assistant"}

\* _paired_plain_reply: the first message left after i that is not the answer
\* of a Run, if it is a reply; a question ends the scan.
PairedReply(i) ==
    LET after == {j \in i + 1 .. Len(timeline) :
                    /\ ~timeline[j].archived
                    /\ timeline[j].role = "user" \/ timeline[j].by \in Posts}
    IN {j \in after : j = Min(after) /\ timeline[j].role = "assistant"}

\* archive_message: the message and its paired reply, once.  The UPDATE of the
\* message holds its row until the commit, so two deletions take turns.
ArchiveMessage(e, by) ==
    LET i == AskedAt(by)
        gone == {i} \cup PairedReply(i)
    IN /\ change[e].pc = "idle"
       /\ i # 0
       /\ change' = [change EXCEPT ![e] = ChangeOf("done", "none", "none")]
       /\ timeline' = IF timeline[i].archived THEN timeline
                      ELSE [j \in 1 .. Len(timeline) |->
                              IF j \in gone THEN [timeline[j] EXCEPT !.archived = TRUE]
                              ELSE timeline[j]]
       /\ UNCHANGED <<stamp, writer, run, keys>>

-----------------------------------------------------------------------------
TimelineNext ==
    \/ \E p \in Posts : SendPlain(p) \/ \E text \in Texts : CommitPlain(p, text)
    \/ \E r \in Runs, frozen \in BOOLEAN, text \in Texts : CreateRun(r, frozen, text)
    \/ \E r \in Runs : Claim(r) \/ Answer(r) \/ EndSilently(r)
    \/ \E r, of \in Runs, key \in Keys : Rerun(r, of, key)
    \/ \E e \in Changes, by \in Posts \cup Runs :
         ArchiveMessage(e, by) \/ \E text \in Texts : ReadToEdit(e, by, text)
    \/ \E e \in Changes : UpdateContent(e)

TimelineSpec == TimelineInit /\ [][TimelineNext]_timelineVars
-----------------------------------------------------------------------------
(* Properties *)

Archived(by, role) ==
    \E i \in 1 .. Len(timeline) :
        timeline[i].by = by /\ timeline[i].role = role /\ timeline[i].archived

\* A deletion takes a plain message and its own reply together, whatever was
\* sent, answered, edited and deleted around them; with writers that are not
\* Apart the scan finds another reply, or none.
PairsGoTogether == \A p \in Posts : Archived(p, "user") <=> Archived(p, "assistant")

\* The answer of a Run is never deleted, next to whatever messages it stands.
AnswersStay == \A r \in Runs : ~Archived(r, "assistant")

\* A deletion takes what belongs together and nothing else.
DeletionsTakePairs ==
    /\ TimelineTypeOK
    /\ PairsGoTogether
    /\ AnswersStay

\* A deleted message keeps the words it was deleted with: an edit that read it
\* before finds it gone.
DeletedWordsStay ==
    [][\A by \in Posts \cup Runs : Archived(by, "user") => TextOf(by)' = TextOf(by)]_timelineVars

\* A main_agent Run, and every rerun of it, executes what was asked, however
\* its message is edited before it is claimed or rerun.
SnapshotsAreExecuted ==
    /\ \A r \in Runs : run[r].frozen /\ run[r].got # "none" => run[r].got = run[r].asked
    /\ \A k \in keys : run[k.of].frozen => run[k.run].asked = run[k.of].asked

\* The rerun request that created a Run can be sent again under its key, until
\* the message of a diagnosis Run is edited: the fingerprint is rebuilt from the
\* text as it reads at the retry.
RerunsCanBeReplayed ==
    \A k \in keys :
        ReplayOf(k.of, k.key) = "replayed"
        \/ (~run[k.of].frozen /\ TextOf(k.of) # run[k.run].asked)

\* A Run, its reruns and the retries of their requests stand for one question,
\* except where the code reads the text again.
RunsRepeatTheirQuestion ==
    /\ SnapshotsAreExecuted
    /\ RerunsCanBeReplayed
=============================================================================
