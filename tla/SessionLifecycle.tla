-------------------------- MODULE SessionLifecycle --------------------------
(***************************************************************************)
(* One session between the people who rename, archive and restore it and   *)
(* the work that only touches it: SessionApplicationService and            *)
(* _touch_session of application/services.py, plain_message_writer.py and  *)
(* the session repository.                                                 *)
(*                                                                         *)
(* A rename or an archive reads the row, decides, reads it again in save   *)
(* and flushes the columns that differ from that second read: three        *)
(* moments between which other transactions commit.  A restore and a touch *)
(* are conditional UPDATEs and one step.                                   *)
(***************************************************************************)
EXTENDS Naturals

CONSTANTS
    Edits,      \* PATCH and DELETE requests on the session
    Works,      \* plain messages and Runs sent to the session
    Titles,     \* titles a rename may carry
    OldTitle,   \* the title the session was created with
    Serial,     \* the session is edited from one place, one request at a time
    MaxTime     \* bound of the clock

ASSUME TitlesAssumption == "none" \notin Titles /\ OldTitle \notin Titles /\ OldTitle # "none"
ASSUME SerialAssumption == Serial \in BOOLEAN
ASSUME TimeAssumption == MaxTime \in Nat \ {0}

VARIABLES
    row,     \* the SessionRecord
    edit,    \* edit[e]: where an editing request is
    work,    \* work[w]: where a plain message or a Run is
    clock,   \* the current time
    asked    \* the title and the status the last successful edit asked for

vars == <<row, edit, work, clock, asked>>

-----------------------------------------------------------------------------
(* Values *)

Time == 1 .. MaxTime
NoTime == 0          \* NULL in archived_at
Status == {"active", "archived"}
Row == [title : Titles \cup {OldTitle}, status : Status,
        archived_at : Time \cup {NoTime}, updated_at : Time]

\* UpdateSessionRequest: a title, a status or both.
Command == [title : Titles \cup {"none"}, status : Status \cup {"none"}]
             \ {[title |-> "none", status |-> "none"]}
NoCommand == [title |-> "none", status |-> "none"]

EditPcs == {"idle", "restoring", "confirming", "reading", "saving", "flushing", "done", "refused"}
WorkPcs == {"idle", "reading", "inserting", "running", "ending", "done", "refused"}

TypeOK ==
    /\ row \in Row
    /\ edit \in [Edits -> [pc : EditPcs, cmd : Command \cup {NoCommand}, now : Time,
                           new : Row, old : Row]]
    /\ work \in [Works -> [pc : WorkPcs, now : Time, was : Row]]
    /\ clock \in Time
    /\ asked \in [title : Titles \cup {OldTitle}, status : Status]

\* create_session.
NewRow == [title |-> OldTitle, status |-> "active", archived_at |-> NoTime, updated_at |-> 1]

\* A request with the time it took, the row it will save and the row it compares with.
Hold(pc, cmd, now, new, old) == [pc |-> pc, cmd |-> cmd, now |-> now, new |-> new, old |-> old]
EditAt(pc) == Hold(pc, NoCommand, 1, NewRow, NewRow)
WorkAt(pc, now, was) == [pc |-> pc, now |-> now, was |-> was]

Init ==
    /\ row = NewRow
    /\ clock = 1
    /\ edit = [e \in Edits |-> EditAt("idle")]
    /\ work = [w \in Works |-> WorkAt("idle", 1, NewRow)]
    /\ asked = [title |-> OldTitle, status |-> "active"]

\* The case expression of touch_updated_at and restore.
Later(a, b) == IF a < b THEN b ELSE a

Tick ==
    /\ clock < MaxTime
    /\ clock' = clock + 1
    /\ UNCHANGED <<row, edit, work, asked>>

-----------------------------------------------------------------------------
(* The repository *)

\* Mutant: restore forgets to clear archived_at.
RestoredKeepsStamp(r, now) ==
    [r EXCEPT !.status = "active", !.updated_at = Later(@, now)]

\* restore, on a row that is archived.
Restored(r, now) ==
    [r EXCEPT !.status = "active", !.archived_at = NoTime, !.updated_at = Later(@, now)]

\* Mutant: the touch before touch_updated_at: save of the whole row as read.
TouchedWhole(r, now, was) == [was EXCEPT !.updated_at = now]

\* Mutant: one column, but no comparison.
TouchedLast(r, now, was) == [r EXCEPT !.updated_at = now]

\* touch_updated_at: one column, never backwards; was is what the caller read.
Touched(r, now, was) == [r EXCEPT !.updated_at = Later(@, now)]

\* The columns save assigns, those that differ from the row it has just read.
Flushed(r, new, old) ==
    LET Column(mine, read, theirs) == IF mine # read THEN mine ELSE theirs
    IN [title |-> Column(new.title, old.title, r.title),
        status |-> Column(new.status, old.status, r.status),
        archived_at |-> Column(new.archived_at, old.archived_at, r.archived_at),
        updated_at |-> Column(new.updated_at, old.updated_at, r.updated_at)]

-----------------------------------------------------------------------------
(* update_session *)

Busy(e) == edit[e].pc \in {"restoring", "confirming", "reading", "saving", "flushing"}

\* PATCH with any command; DELETE is the command that archives.
Send(e, cmd) ==
    /\ edit[e].pc = "idle"
    /\ Serial => \A d \in Edits : ~Busy(d)
    /\ LET pc == IF cmd.status = "active" /\ cmd.title = "none" THEN "restoring" ELSE "reading"
       IN edit' = [edit EXCEPT ![e] = Hold(pc, cmd, clock, NewRow, NewRow)]
    /\ UNCHANGED <<row, work, clock, asked>>

\* The edit e is answered with success.
Succeed(e) ==
    LET cmd == edit[e].cmd
    IN /\ edit' = [edit EXCEPT ![e] = EditAt("done")]
       /\ asked' = [title  |-> IF cmd.title = "none" THEN asked.title ELSE cmd.title,
                    status |-> IF cmd.status = "none" THEN asked.status ELSE cmd.status]

Refuse(e) == edit' = [edit EXCEPT ![e] = EditAt("refused")] /\ UNCHANGED asked

\* The conditional UPDATE of restore; the row it wrote is read back before the
\* commit, so it cannot change in between.  A row it did not match may.
Restore(e) ==
    /\ edit[e].pc = "restoring"
    /\ IF row.status = "archived"
         THEN row' = Restored(row, edit[e].now) /\ Succeed(e)
         ELSE /\ edit' = [edit EXCEPT ![e] = Hold("confirming", edit[e].cmd, 1, NewRow, NewRow)]
              /\ UNCHANGED <<row, asked>>
    /\ UNCHANGED <<work, clock>>

Confirm(e) ==
    /\ edit[e].pc = "confirming"
    /\ IF row.status = "active" THEN Succeed(e) ELSE Refuse(e)
    /\ UNCHANGED <<row, work, clock>>

\* Mutant: the title of a command without one is saved.
EditedTitleless(cmd, r, now) ==
    [title |-> cmd.title,
     status |-> IF cmd.status = "archived" THEN "archived" ELSE r.status,
     archived_at |-> IF cmd.status = "archived" /\ r.archived_at = NoTime THEN now ELSE r.archived_at,
     updated_at |-> now]

\* The copy of the row r that the command asks to be saved.
Edited(cmd, r, now) ==
    [title |-> IF cmd.title = "none" THEN r.title ELSE cmd.title,
     status |-> IF cmd.status = "archived" THEN "archived" ELSE r.status,
     archived_at |-> IF cmd.status = "archived" /\ r.archived_at = NoTime THEN now ELSE r.archived_at,
     updated_at |-> now]

\* The first read and the decisions.
Read(e) ==
    LET cmd == edit[e].cmd
    IN /\ edit[e].pc = "reading"
       /\ IF cmd.status = "active" /\ row.status = "archived" THEN Refuse(e)
          ELSE IF cmd.title = "none" /\ row.status = "archived" THEN Succeed(e)
          ELSE edit' = [edit EXCEPT ![e] = Hold("saving", cmd, 1, Edited(cmd, row, clock), NewRow)]
               /\ UNCHANGED asked
       /\ UNCHANGED <<row, work, clock>>

\* save reads the row again: the identity map has let the first record go.
ReadAgain(e) ==
    /\ edit[e].pc = "saving"
    /\ edit' = [edit EXCEPT ![e] = Hold("flushing", edit[e].cmd, 1, edit[e].new, row)]
    /\ UNCHANGED <<row, work, clock, asked>>

Flush(e) ==
    /\ edit[e].pc = "flushing"
    /\ row' = Flushed(row, edit[e].new, edit[e].old)
    /\ Succeed(e)
    /\ UNCHANGED <<work, clock>>

-----------------------------------------------------------------------------
(* Work in the session *)

Arrive(w) ==
    /\ work[w].pc = "idle"
    /\ work' = [work EXCEPT ![w] = WorkAt("reading", 1, NewRow)]
    /\ UNCHANGED <<row, edit, clock, asked>>

\* Mutant: an archived session is not looked at.
AdmitAll(w) ==
    /\ work[w].pc = "reading"
    /\ work' = [work EXCEPT ![w] = WorkAt("inserting", clock, row)]
    /\ UNCHANGED <<row, edit, clock, asked>>

\* The session is read and an archived one refuses; the time is taken.
Admit(w) ==
    /\ work[w].pc = "reading"
    /\ work' = [work EXCEPT ![w] = IF row.status = "archived" THEN WorkAt("refused", 1, NewRow)
                                   ELSE WorkAt("inserting", clock, row)]
    /\ UNCHANGED <<row, edit, clock, asked>>

\* The rows are inserted and the session touched.  A message is done, a Run
\* goes on in its background task.
Insert(w) ==
    /\ work[w].pc = "inserting"
    /\ row' = Touched(row, work[w].now, work[w].was)
    /\ \E pc \in {"done", "running"} : work' = [work EXCEPT ![w] = WorkAt(pc, work[w].now, NewRow)]
    /\ UNCHANGED <<edit, clock, asked>>

\* The Run ends, or is cancelled: the time is taken, then the row is locked.
End(w) ==
    /\ work[w].pc = "running"
    /\ work' = [work EXCEPT ![w] = WorkAt("ending", clock, row)]
    /\ UNCHANGED <<row, edit, clock, asked>>

TouchAtEnd(w) ==
    /\ work[w].pc = "ending"
    /\ row' = Touched(row, work[w].now, work[w].was)
    /\ work' = [work EXCEPT ![w] = WorkAt("done", work[w].now, NewRow)]
    /\ UNCHANGED <<edit, clock, asked>>

-----------------------------------------------------------------------------
EditStep(e) ==
    \/ \E cmd \in Command : Send(e, cmd)
    \/ Restore(e) \/ Confirm(e) \/ Read(e) \/ ReadAgain(e) \/ Flush(e)

WorkStep(w) == Arrive(w) \/ Admit(w) \/ Insert(w) \/ End(w) \/ TouchAtEnd(w)

Next ==
    \/ Tick
    \/ \E e \in Edits : EditStep(e)
    \/ \E w \in Works : WorkStep(w)

Spec == Init /\ [][Next]_vars
-----------------------------------------------------------------------------
(* Properties *)

\* Edited from one place, the session is what the last successful edit asked
\* for, whatever Runs and messages were under way with an older copy of the
\* row: only the touch of a single column makes that so.
EditsStick == Serial => row.title = asked.title /\ row.status = asked.status

\* Edited from one place, archived_at is set exactly while the session is
\* archived.
ArchivedAtTellsStatus == Serial => (row.archived_at # NoTime <=> row.status = "archived")

\* One editor sees its last word, title, status and time of archival together,
\* among all the stale copies that Runs and messages write back.
LastEditShows ==
    /\ TypeOK
    /\ EditsStick
    /\ ArchivedAtTellsStatus

\* However late the transaction of a Run or a message commits, it does not take
\* the time of the last activity back; only save does.
OnlyASaveGoesBack ==
    [][row'.updated_at < row.updated_at =>
         \E e \in Edits : edit[e].pc = "flushing" /\ edit'[e].pc = "done"]_vars

=============================================================================
