--------------------------- MODULE SessionProofs ----------------------------
(***************************************************************************)
(* A session and its messages, for any number of edits, Runs, messages,    *)
(* texts and clock ticks: a session that is edited from one place keeps    *)
(* what its edits asked for, a deletion takes what belongs together, a Run *)
(* repeats the question it was asked, and knows the newest of what was     *)
(* said before it.                                                         *)
(*                                                                         *)
(* The row of the session is SessionLifecycle, its messages are            *)
(* MessageTimeline, which has clocks, edits and Runs of its own, and what  *)
(* a Run is told of them is MainContext.                                   *)
(***************************************************************************)
EXTENDS SessionLifecycle, MessageTimeline, MainContext, Integers, FiniteSetTheorems, SequenceTheorems,
        WellFoundedInduction, TLAPS

USE DEF NoTime, Time, Status

-----------------------------------------------------------------------------
(* Types *)

EditRec == [pc : EditPcs, cmd : Command \cup {NoCommand}, now : Time, new : Row, old : Row]
WorkRec == [pc : WorkPcs, now : Time, was : Row]

LEMMA NewRowIsRow == NewRow \in Row
  BY TimeAssumption DEF NewRow, Row

LEMMA HoldType ==
    ASSUME NEW pc \in EditPcs, NEW cmd \in Command \cup {NoCommand}, NEW now \in Time,
           NEW new \in Row, NEW old \in Row
    PROVE  Hold(pc, cmd, now, new, old) \in EditRec
  BY DEF Hold, EditRec

LEMMA WorkAtType ==
    ASSUME NEW pc \in WorkPcs, NEW now \in Time, NEW was \in Row
    PROVE  WorkAt(pc, now, was) \in WorkRec
  BY DEF WorkAt, WorkRec

LEMMA EditAtType == \A pc \in EditPcs : EditAt(pc) \in EditRec
  BY NewRowIsRow, HoldType, TimeAssumption DEF EditAt

\* What the repository writes is a row.
LEMMA WritesAreRows ==
    ASSUME NEW r \in Row, NEW new \in Row, NEW old \in Row, NEW now \in Time
    PROVE  /\ Restored(r, now) \in Row
           /\ Touched(r, now, old) \in Row
           /\ Flushed(r, new, old) \in Row
  BY TimeAssumption DEF Row, Restored, Touched, Flushed, Later

\* TypeOK with the records named.
LEMMA TypeParts ==
    TypeOK <=> /\ row \in Row
               /\ edit \in [Edits -> EditRec]
               /\ work \in [Works -> WorkRec]
               /\ clock \in Time
               /\ asked \in [title : Titles \cup {OldTitle}, status : Status]
  BY DEF TypeOK, EditRec, WorkRec

LEMMA TypeCorrectInit == Init => TypeOK
<1> SUFFICES ASSUME Init PROVE TypeOK
  OBVIOUS
<1>1. edit \in [Edits -> EditRec]
  BY EditAtType DEF Init, EditPcs
<1>2. work \in [Works -> WorkRec]
  BY NewRowIsRow, WorkAtType, TimeAssumption DEF Init, WorkPcs
<1>3. clock \in Time /\ asked \in [title : Titles \cup {OldTitle}, status : Status]
  BY TimeAssumption DEF Init
<1> QED
  BY <1>1, <1>2, <1>3, NewRowIsRow, TypeParts DEF Init

\* Every step keeps the types.
LEMMA TypeCorrectStep == TypeOK /\ [Next]_vars => TypeOK'
<1> SUFFICES ASSUME TypeOK, [Next]_vars PROVE TypeOK'
  OBVIOUS
<1>a. /\ row \in Row
      /\ edit \in [Edits -> EditRec]
      /\ work \in [Works -> WorkRec]
      /\ clock \in Time
      /\ asked \in [title : Titles \cup {OldTitle}, status : Status]
  BY TypeParts
<1>b. ASSUME row' \in Row, edit' \in [Edits -> EditRec], work' \in [Works -> WorkRec],
             clock' \in Time, asked' \in [title : Titles \cup {OldTitle}, status : Status]
      PROVE  TypeOK'
  BY <1>b, TypeParts DEF TypeOK, EditRec, WorkRec
<1>c. 1 \in Time
  BY TimeAssumption
<1>1. CASE Tick
  BY <1>1, <1>a, <1>b, TimeAssumption DEF Tick
<1>2. ASSUME NEW e \in Edits, EditStep(e) PROVE TypeOK'
  <2>1. edit[e].cmd \in Command \cup {NoCommand} /\ edit[e].now \in Time
        /\ edit[e].new \in Row /\ edit[e].old \in Row
    BY <1>a DEF EditRec
  <2>2. edit[e].cmd.title \in Titles \cup {"none"} /\ edit[e].cmd.status \in Status \cup {"none"}
    BY <2>1 DEF Command, NoCommand
  <2>3. ASSUME NEW r \in EditRec, edit' = [edit EXCEPT ![e] = r], asked' = asked,
               row' \in Row, UNCHANGED <<work, clock>>
        PROVE  TypeOK'
    BY <1>a, <1>b, <2>3
  <2>4. ASSUME Succeed(e), row' \in Row, UNCHANGED <<work, clock>> PROVE TypeOK'
    <3>1. edit' \in [Edits -> EditRec]
      BY <1>a, <2>4, EditAtType DEF Succeed, EditPcs
    <3>2. asked' \in [title : Titles \cup {OldTitle}, status : Status]
      BY <1>a, <2>2, <2>4 DEF Succeed
    <3> QED
      BY <1>a, <1>b, <2>4, <3>1, <3>2
  <2>5. ASSUME Refuse(e), row' \in Row, UNCHANGED <<work, clock>> PROVE TypeOK'
    BY <2>3, <2>5, EditAtType DEF Refuse, EditPcs
  <2>6. ASSUME NEW cmd \in Command, Send(e, cmd) PROVE TypeOK'
    <3>1. PICK pc \in {"restoring", "reading"} :
            edit' = [edit EXCEPT ![e] = Hold(pc, cmd, clock, NewRow, NewRow)]
      BY <2>6 DEF Send
    <3>2. Hold(pc, cmd, clock, NewRow, NewRow) \in EditRec
      BY <1>a, NewRowIsRow, HoldType DEF EditPcs
    <3> QED
      BY <1>a, <2>3, <2>6, <3>1, <3>2 DEF Send
  <2>7. CASE Restore(e)
    <3>1. Restored(row, edit[e].now) \in Row
      BY <1>a, <2>1, WritesAreRows
    <3>2. Hold("confirming", edit[e].cmd, 1, NewRow, NewRow) \in EditRec
      BY <1>c, <2>1, NewRowIsRow, HoldType DEF EditPcs
    <3>3. CASE row.status = "archived"
      BY <2>4, <2>7, <3>1, <3>3 DEF Restore
    <3>4. CASE row.status # "archived"
      BY <1>a, <2>3, <2>7, <3>2, <3>4 DEF Restore
    <3> QED
      BY <3>3, <3>4
  <2>8. CASE Confirm(e)
    BY <1>a, <2>4, <2>5, <2>8 DEF Confirm
  <2>9. CASE Read(e)
    <3> DEFINE cmd == edit[e].cmd
               new == Edited(cmd, row, clock)
    <3>1. new \in Row
      BY <1>a, <2>2 DEF Row, Edited
    <3>2. Hold("saving", cmd, 1, new, NewRow) \in EditRec
      BY <1>c, <2>1, <3>1, NewRowIsRow, HoldType DEF EditPcs
    <3>3. CASE edit' = [edit EXCEPT ![e] = Hold("saving", cmd, 1, new, NewRow)] /\ UNCHANGED asked
      BY <1>a, <2>3, <2>9, <3>2, <3>3 DEF Read
    <3> QED
      BY <1>a, <2>4, <2>5, <2>9, <3>3 DEF Read
  <2>10. CASE ReadAgain(e)
    <3>1. Hold("flushing", edit[e].cmd, 1, edit[e].new, row) \in EditRec
      BY <1>a, <1>c, <2>1, HoldType DEF EditPcs
    <3> QED
      BY <1>a, <2>3, <2>10, <3>1 DEF ReadAgain
  <2>11. CASE Flush(e)
    <3>1. row' \in Row
      BY <1>a, <2>1, <2>11, WritesAreRows DEF Flush
    <3> QED
      BY <2>4, <2>11, <3>1 DEF Flush
  <2> QED
    BY <1>2, <2>6, <2>7, <2>8, <2>9, <2>10, <2>11 DEF EditStep
<1>3. ASSUME NEW w \in Works, WorkStep(w) PROVE TypeOK'
  <2>1. work[w].now \in Time /\ work[w].was \in Row
    BY <1>a DEF WorkRec
  <2>2. \A pc \in WorkPcs : WorkAt(pc, 1, NewRow) \in WorkRec /\ WorkAt(pc, clock, row) \in WorkRec
                            /\ WorkAt(pc, work[w].now, NewRow) \in WorkRec
    BY <1>a, <1>c, <2>1, NewRowIsRow, WorkAtType
  <2>3. ASSUME NEW r \in WorkRec, work' = [work EXCEPT ![w] = r],
               row' \in Row, UNCHANGED <<edit, clock, asked>>
        PROVE  TypeOK'
    BY <1>a, <1>b, <2>3
  <2>4. Touched(row, work[w].now, work[w].was) \in Row
    BY <1>a, <2>1, WritesAreRows
  <2>5. CASE Arrive(w)
    BY <1>a, <2>2, <2>3, <2>5 DEF Arrive, WorkPcs
  <2>6. CASE Admit(w)
    BY <1>a, <2>2, <2>3, <2>6 DEF Admit, WorkPcs
  <2>7. CASE Insert(w)
    BY <2>2, <2>3, <2>4, <2>7 DEF Insert, WorkPcs
  <2>8. CASE End(w)
    BY <1>a, <2>2, <2>3, <2>8 DEF End, WorkPcs
  <2>9. CASE TouchAtEnd(w)
    BY <2>2, <2>3, <2>4, <2>9 DEF TouchAtEnd, WorkPcs
  <2> QED
    BY <1>3, <2>5, <2>6, <2>7, <2>8, <2>9 DEF WorkStep
<1>4. CASE UNCHANGED vars
  BY <1>4 DEF vars, TypeOK
<1> QED
  BY <1>1, <1>2, <1>3, <1>4 DEF Next

\* Every reachable state is well typed.
THEOREM SessionTypeCorrect == Spec => []TypeOK
  BY TypeCorrectInit, TypeCorrectStep, PTL DEF Spec

-----------------------------------------------------------------------------
(* Edited from one place *)

SameLifecycle(r, q) == r.title = q.title /\ r.status = q.status /\ r.archived_at = q.archived_at

\* What an edit with the record x is about to save is what its command asks
\* for, on top of what was asked before.
Faithful(x) ==
    /\ x.new.title = IF x.cmd.title = "none" THEN asked.title ELSE x.cmd.title
    /\ x.new.status = IF x.cmd.status = "none" THEN asked.status ELSE x.cmd.status
    /\ x.new.archived_at # NoTime <=> x.new.status = "archived"

\* An edit holds what it should: the right command, a faithful row to save, and
\* a copy to compare with that nobody has changed since.
Holds(x) ==
    /\ x.pc \in {"restoring", "confirming"} => x.cmd.title = "none" /\ x.cmd.status = "active"
    /\ x.pc = "reading" => x.cmd.title # "none" \/ x.cmd.status = "archived"
    /\ x.pc \in {"saving", "flushing"} => Faithful(x)
    /\ x.pc = "flushing" => SameLifecycle(x.old, row)

OneEdit == \A d, e \in Edits : Busy(d) /\ Busy(e) => d = e
RowIsAsked == row.title = asked.title /\ row.status = asked.status
                /\ (row.archived_at # NoTime <=> row.status = "archived")

\* The invariant: with one edit at a time nobody else writes what an edit holds.
SerialInv == Serial => OneEdit /\ RowIsAsked /\ \A e \in Edits : Holds(edit[e])

\* A touch leaves the life cycle alone.
LEMMA TouchKeepsLifecycle == \A now, was : SameLifecycle(Touched(row, now, was), row)
  BY DEF SameLifecycle, Touched

LEMMA RestPcs ==
    /\ \A pc : EditAt(pc).pc = pc
    /\ \A pc, cmd, now, new, old :
         LET x == Hold(pc, cmd, now, new, old)
         IN x.pc = pc /\ x.cmd = cmd /\ x.new = new /\ x.old = old
  BY DEF EditAt, Hold

LEMMA SerialInvInit == Init => SerialInv
  BY RestPcs DEF Init, SerialInv, OneEdit, RowIsAsked, Holds, Busy, NewRow

\* Steps that write nothing but the last activity.
LEMMA LifecycleUntouched ==
    ASSUME SerialInv, TypeOK, TypeOK', SameLifecycle(row', row), UNCHANGED <<edit, asked>>
    PROVE  SerialInv'
  BY DEF SerialInv, OneEdit, RowIsAsked, Holds, Faithful, SameLifecycle, Busy

\* An edit that moves on without writing the row.
LEMMA EditMoves ==
    ASSUME SerialInv, TypeOK, NEW e \in Edits, NEW x \in EditRec,
           edit' = [edit EXCEPT ![e] = x], UNCHANGED <<row, asked>>,
           Serial => Holds(x) /\ (Busy(e) \/ \A d \in Edits : ~Busy(d))
    PROVE  SerialInv'
<1> SUFFICES ASSUME Serial PROVE OneEdit' /\ RowIsAsked' /\ \A d \in Edits : Holds(edit[d])'
  BY DEF SerialInv
<1>1. edit'[e] = x /\ \A d \in Edits \ {e} : edit'[d] = edit[d]
  BY TypeParts
<1>2. OneEdit'
  BY <1>1 DEF SerialInv, OneEdit, Busy
<1>3. RowIsAsked'
  BY DEF SerialInv, RowIsAsked
<1>4. Holds(x)'
  BY DEF Holds, Faithful
<1> QED
  BY <1>1, <1>2, <1>3 DEF SerialInv, Holds, Faithful

\* An edit that ends: nobody else is under way.
LEMMA EditEnds ==
    ASSUME SerialInv, TypeOK, NEW e \in Edits, Busy(e), NEW pc \in {"done", "refused"},
           edit' = [edit EXCEPT ![e] = EditAt(pc)], Serial => RowIsAsked'
    PROVE  SerialInv'
<1> SUFFICES ASSUME Serial PROVE OneEdit' /\ \A d \in Edits : Holds(edit[d])'
  BY DEF SerialInv
<1>1. edit'[e].pc = pc /\ \A d \in Edits \ {e} : edit'[d] = edit[d]
  BY TypeParts, RestPcs
<1>2. \A d \in Edits \ {e} : ~Busy(d)
  BY DEF SerialInv, OneEdit
<1>3. \A d \in Edits : edit'[d].pc \notin {"restoring", "confirming", "reading", "saving", "flushing"}
  BY <1>1, <1>2 DEF Busy
<1> QED
  BY <1>3 DEF OneEdit, Holds, Busy

LEMMA SerialInvStep == TypeOK /\ TypeOK' /\ SerialInv /\ [Next]_vars => SerialInv'
<1> SUFFICES ASSUME TypeOK, TypeOK', SerialInv, [Next]_vars PROVE SerialInv'
  OBVIOUS
<1>1. CASE Tick
  BY <1>1, LifecycleUntouched DEF Tick, SameLifecycle
<1>2. ASSUME NEW w \in Works, WorkStep(w) PROVE SerialInv'
  <2>1. SameLifecycle(row', row) /\ UNCHANGED <<edit, asked>>
    BY <1>2, TouchKeepsLifecycle
    DEF WorkStep, Arrive, Admit, Insert, End, TouchAtEnd, SameLifecycle
  <2> QED
    BY <2>1, LifecycleUntouched
<1>3. ASSUME NEW e \in Edits, EditStep(e) PROVE SerialInv'
  <2>1. edit[e] \in EditRec
    BY TypeParts
  <2>2. /\ edit[e].cmd.title \in Titles \cup {"none"}
        /\ edit[e].cmd.status \in Status \cup {"none"}
    BY <2>1 DEF EditRec, Command, NoCommand
  <2>3. ASSUME NEW pc \in EditPcs, NEW cmd, NEW now, NEW new, NEW old,
               edit' = [edit EXCEPT ![e] = Hold(pc, cmd, now, new, old)],
               UNCHANGED <<row, asked>>,
               Serial => Holds(Hold(pc, cmd, now, new, old)),
               Serial => Busy(e) \/ \A d \in Edits : ~Busy(d)
        PROVE  SerialInv'
    <3>1. edit'[e] = Hold(pc, cmd, now, new, old)
      BY <2>3, TypeParts
    <3>2. Hold(pc, cmd, now, new, old) \in EditRec
      BY <3>1 DEF TypeOK, EditRec
    <3> QED
      BY <2>3, <3>2, EditMoves
  <2>4. ASSUME Busy(e), Succeed(e),
               Serial => /\ row'.title = IF edit[e].cmd.title = "none" THEN asked.title
                                         ELSE edit[e].cmd.title
                         /\ row'.status = IF edit[e].cmd.status = "none" THEN asked.status
                                          ELSE edit[e].cmd.status
                         /\ row'.archived_at # NoTime <=> row'.status = "archived"
        PROVE  SerialInv'
    <3>1. Serial => RowIsAsked'
      BY <2>4 DEF Succeed, RowIsAsked
    <3> QED
      BY <2>4, <3>1, EditEnds DEF Succeed
  <2>5. ASSUME Busy(e), Refuse(e), UNCHANGED row PROVE SerialInv'
    <3>1. Serial => RowIsAsked'
      BY <2>5 DEF Refuse, RowIsAsked, SerialInv
    <3> QED
      BY <2>5, <3>1, EditEnds DEF Refuse
  <2>6. ASSUME NEW cmd \in Command, Send(e, cmd) PROVE SerialInv'
    <3>1. PICK pc \in {"restoring", "reading"} :
            /\ edit' = [edit EXCEPT ![e] = Hold(pc, cmd, clock, NewRow, NewRow)]
            /\ pc = IF cmd.status = "active" /\ cmd.title = "none" THEN "restoring" ELSE "reading"
      BY <2>6 DEF Send
    <3>2. Holds(Hold(pc, cmd, clock, NewRow, NewRow))
      BY <3>1, RestPcs DEF Holds, Command, NoCommand
    <3>3. pc \in EditPcs /\ UNCHANGED <<row, asked>> /\ (Serial => \A d \in Edits : ~Busy(d))
      BY <2>6 DEF Send, EditPcs
    <3>4. edit' = [edit EXCEPT ![e] = Hold(pc, cmd, clock, NewRow, NewRow)]
      BY <3>1
    <3> QED
      BY <2>3, <3>2, <3>3, <3>4
  <2>7. CASE Restore(e)
    <3>1. Busy(e) /\ (Serial => edit[e].cmd.title = "none" /\ edit[e].cmd.status = "active")
      BY <2>7 DEF Restore, Busy, SerialInv, Holds
    <3>2. CASE row.status = "archived"
      <4>1. row' = Restored(row, edit[e].now) /\ Succeed(e)
        BY <2>7, <3>2 DEF Restore
      <4>2. row'.title = row.title /\ row'.status = "active" /\ row'.archived_at = NoTime
        BY <4>1 DEF Restored, TypeOK, Row
      <4> QED
        BY <2>4, <3>1, <4>1, <4>2 DEF SerialInv, RowIsAsked
    <3>3. CASE row.status # "archived"
      <4>1. Serial => Holds(Hold("confirming", edit[e].cmd, 1, NewRow, NewRow))
        BY <3>1, RestPcs DEF Holds
      <4> QED
        BY <2>3, <2>7, <3>1, <3>3, <4>1 DEF Restore, EditPcs
    <3> QED
      BY <3>2, <3>3
  <2>8. CASE Confirm(e)
    <3>1. Busy(e) /\ (Serial => edit[e].cmd.title = "none" /\ edit[e].cmd.status = "active")
      BY <2>8 DEF Confirm, Busy, SerialInv, Holds
    <3> QED
      BY <2>4, <2>5, <2>8, <3>1 DEF Confirm, SerialInv, RowIsAsked
  <2>9. CASE Read(e)
    <3> DEFINE cmd == edit[e].cmd
               new == Edited(cmd, row, clock)
    <3>1. Busy(e) /\ (Serial => cmd.title # "none" \/ cmd.status = "archived")
      BY <2>9 DEF Read, Busy, SerialInv, Holds
    <3>2. CASE Refuse(e) /\ UNCHANGED row
      BY <2>5, <3>1, <3>2
    <3>3. CASE cmd.title = "none" /\ row.status = "archived" /\ Succeed(e) /\ UNCHANGED row
      BY <2>4, <3>1, <3>3 DEF SerialInv, RowIsAsked
    <3>4. CASE /\ edit' = [edit EXCEPT ![e] = Hold("saving", cmd, 1, new, NewRow)]
               /\ ~(cmd.status = "active" /\ row.status = "archived")
               /\ UNCHANGED <<row, asked>>
      <4>1. Serial => /\ new.title = IF cmd.title = "none" THEN asked.title ELSE cmd.title
                      /\ new.status = IF cmd.status = "none" THEN asked.status ELSE cmd.status
        BY <2>2, <3>4 DEF SerialInv, RowIsAsked, TypeOK, Row, Edited
      <4>2. Serial => (new.archived_at # NoTime <=> new.status = "archived")
        BY <2>2, <3>4, TimeAssumption DEF SerialInv, RowIsAsked, TypeOK, Row, Edited
      <4> HIDE DEF new
      <4>3. Serial => Holds(Hold("saving", cmd, 1, new, NewRow))
        BY <4>1, <4>2, RestPcs DEF Holds, Faithful
      <4> QED
        BY <2>3, <3>1, <3>4, <4>3 DEF EditPcs
    <3> QED
      BY <2>9, <3>2, <3>3, <3>4 DEF Read
  <2>10. CASE ReadAgain(e)
    <3>1. Busy(e) /\ (Serial => Faithful(edit[e]))
      BY <2>10 DEF ReadAgain, Busy, SerialInv, Holds
    <3>2. Serial => Holds(Hold("flushing", edit[e].cmd, 1, edit[e].new, row))
      BY <3>1, RestPcs DEF Holds, Faithful, SameLifecycle
    <3> QED
      BY <2>3, <2>10, <3>1, <3>2 DEF ReadAgain, EditPcs
  <2>11. CASE Flush(e)
    <3>1. Busy(e) /\ (Serial => Faithful(edit[e]) /\ SameLifecycle(edit[e].old, row))
      BY <2>11 DEF Flush, Busy, SerialInv, Holds
    <3>2. Serial => SameLifecycle(row', edit[e].new)
      BY <2>11, <3>1 DEF Flush, Flushed, SameLifecycle
    <3> QED
      BY <2>4, <2>11, <3>1, <3>2 DEF Flush, Faithful, SameLifecycle
  <2> QED
    BY <1>3, <2>6, <2>7, <2>8, <2>9, <2>10, <2>11 DEF EditStep
<1>4. CASE UNCHANGED vars
  BY <1>4, LifecycleUntouched DEF vars, SameLifecycle
<1> QED
  BY <1>1, <1>2, <1>3, <1>4 DEF Next

LEMMA SerialInvHolds == Spec => []SerialInv
  BY TypeCorrectInit, TypeCorrectStep, SerialInvInit, SerialInvStep, PTL DEF Spec

\* A session edited from one place is what the last successful edit asked for,
\* however many Runs and messages hold older copies of its row.
THEOREM SerialEditsStick == Spec => []EditsStick
<1>1. SerialInv => EditsStick
  BY DEF SerialInv, RowIsAsked, EditsStick
<1> QED
  BY <1>1, SerialInvHolds, PTL

\* A session edited from one place has a time of archival exactly while it is
\* archived.
THEOREM SerialArchivedAt == Spec => []ArchivedAtTellsStatus
<1>1. SerialInv => ArchivedAtTellsStatus
  BY DEF SerialInv, RowIsAsked, ArchivedAtTellsStatus
<1> QED
  BY <1>1, SerialInvHolds, PTL

\* However many Runs and messages write stale copies back, one editor sees its
\* last title, status and time of archival, and every row stays well typed.
THEOREM LastEditAlwaysShows == Spec => []LastEditShows
<1>1. TypeOK /\ EditsStick /\ ArchivedAtTellsStatus => LastEditShows
  BY DEF LastEditShows
<1> QED
  BY <1>1, SessionTypeCorrect, SerialEditsStick, SerialArchivedAt, PTL

\* A row written with a time that is not earlier than its own.
LEMMA TouchesGoForward ==
    ASSUME TypeOK, NEW now \in Time, NEW was
    PROVE  /\ ~(Restored(row, now).updated_at < row.updated_at)
           /\ ~(Touched(row, now, was).updated_at < row.updated_at)
  BY TimeAssumption DEF TypeOK, Row, Restored, Touched, Later

\* Only save takes the time of the last activity back: whatever Runs, messages
\* and restores commit late, their conditional UPDATE keeps the later time.
THEOREM ActivityGoesBackOnlyBySave == Spec => OnlyASaveGoesBack
<1>1. TypeOK /\ [Next]_vars =>
        [row'.updated_at < row.updated_at =>
           \E e \in Edits : edit[e].pc = "flushing" /\ edit'[e].pc = "done"]_vars
  <2> SUFFICES ASSUME TypeOK, Next, row'.updated_at < row.updated_at
               PROVE  \E e \in Edits : edit[e].pc = "flushing" /\ edit'[e].pc = "done"
    OBVIOUS
  <2>1. row' # row
    BY TimeAssumption DEF TypeOK, Row
  <2>2. ~Tick /\ \A e \in Edits, cmd \in Command : ~Send(e, cmd)
    BY <2>1 DEF Tick, Send
  <2>3. \A e \in Edits : ~Confirm(e) /\ ~Read(e) /\ ~ReadAgain(e)
    BY <2>1 DEF Confirm, Read, ReadAgain
  <2>4. \A w \in Works : ~Arrive(w) /\ ~Admit(w) /\ ~End(w)
    BY <2>1 DEF Arrive, Admit, End
  <2>5. ASSUME NEW e \in Edits, Restore(e) PROVE FALSE
    <3>1. row' = Restored(row, edit[e].now) /\ edit[e].now \in Time
      BY <2>1, <2>5, TypeParts DEF Restore, EditRec
    <3> QED
      BY <3>1, TouchesGoForward
  <2>6. ASSUME NEW w \in Works, Insert(w) \/ TouchAtEnd(w) PROVE FALSE
    <3>1. row' = Touched(row, work[w].now, work[w].was) /\ work[w].now \in Time
      BY <2>6, TypeParts DEF Insert, TouchAtEnd, WorkRec
    <3> QED
      BY <3>1, TouchesGoForward
  <2>7. PICK e \in Edits : Flush(e)
    BY <2>2, <2>3, <2>4, <2>5, <2>6 DEF Next, EditStep, WorkStep
  <2> QED
    BY <2>7, TypeParts, RestPcs DEF Flush, Succeed
<1> QED
  BY <1>1, SessionTypeCorrect, PTL DEF Spec, OnlyASaveGoesBack

-----------------------------------------------------------------------------
(* Inserting a row *)

Rows(line) == {line[i] : i \in 1 .. Len(line)}

\* A sender has one question and one answer.
OneOfEach(line) ==
    \A i, j \in 1 .. Len(line) : line[i].by = line[j].by /\ line[i].role = line[j].role => i = j

InOrder(line) == \A i, j \in 1 .. Len(line) : i < j => line[i].at <= line[j].at

\* What AddTo gives: the row in its place, the others as they were.
LEMMA AddedAt ==
    ASSUME NEW line \in Seq(Message), NEW m \in Message,
           NEW longer \in AddTo(line, m)
    PROVE  \E k \in 1 .. Len(line) + 1 :
             /\ longer \in Seq(Message) /\ Len(longer) = Len(line) + 1 /\ longer[k] = m
             /\ \A j \in 1 .. k - 1 : longer[j] = line[j] /\ line[j].at <= m.at
             /\ \A j \in k + 1 .. Len(line) + 1 :
                  longer[j] = line[j - 1] /\ m.at <= line[j - 1].at
<1>1. PICK k \in 1 .. Len(line) + 1 :
        /\ longer = InsertAt(line, k, m)
        /\ \A j \in 1 .. k - 1 : line[j].at <= m.at
        /\ \A j \in k .. Len(line) : line[j].at >= m.at
  BY DEF AddTo
<1> DEFINE before == SubSeq(line, 1, k - 1)  after == SubSeq(line, k, Len(line))
<1>2. /\ before \in Seq(Message) /\ Len(before) = k - 1
      /\ \A j \in 1 .. k - 1 : before[j] = line[j]
  <2>1. \A i \in 1 .. k - 1 : line[i] \in Message
    OBVIOUS
  <2>2. k - 1 \in Int /\ 1 \in Int /\ Len(line) \in Nat
    OBVIOUS
  <2> QED
    BY <2>1, <2>2, SubSeqProperties
<1>3. /\ after \in Seq(Message) /\ Len(after) = Len(line) - k + 1
      /\ \A j \in 1 .. Len(line) - k + 1 : after[j] = line[k + j - 1]
  <2>1. \A i \in k .. Len(line) : line[i] \in Message
    OBVIOUS
  <2>2. k \in Int /\ Len(line) \in Nat
    OBVIOUS
  <2> QED
    BY <2>1, <2>2, SubSeqProperties
<1>4. longer = before \o <<m>> \o after
  BY <1>1 DEF InsertAt
<1>5. /\ <<m>> \in Seq(Message) /\ Len(<<m>>) = 1 /\ <<m>>[1] = m
  OBVIOUS
<1> HIDE DEF before, after
<1>6. /\ before \o <<m>> \in Seq(Message) /\ Len(before \o <<m>>) = k
      /\ (before \o <<m>>)[k] = m
      /\ \A j \in 1 .. k - 1 : (before \o <<m>>)[j] = before[j]
  BY <1>2, <1>5, ConcatProperties
<1>7. /\ longer \in Seq(Message) /\ Len(longer) = Len(line) + 1
      /\ \A j \in 1 .. k : longer[j] = (before \o <<m>>)[j]
      /\ \A j \in k + 1 .. Len(line) + 1 : longer[j] = after[j - k]
  <2> DEFINE start == before \o <<m>>
  <2>1. start \in Seq(Message) /\ Len(start) = k
    BY <1>6
  <2> HIDE DEF start
  <2>2. longer = start \o after
    BY <1>4 DEF start
  <2>3. /\ longer \in Seq(Message) /\ Len(longer) = k + Len(after)
        /\ \A j \in 1 .. k + Len(after) :
             longer[j] = IF j <= k THEN start[j] ELSE after[j - k]
    BY <1>3, <2>1, <2>2, ConcatProperties
  <2>4. Len(after) = Len(line) - k + 1 /\ Len(line) \in Nat
    BY <1>3
  <2>5. \A j \in 1 .. k : longer[j] = start[j]
    BY <2>3, <2>4
  <2>6. \A j \in k + 1 .. Len(line) + 1 : longer[j] = after[j - k]
    BY <2>3, <2>4
  <2>7. Len(longer) = Len(line) + 1
    BY <2>3, <2>4
  <2> QED
    BY <2>3, <2>5, <2>6, <2>7 DEF start
<1>8. \A j \in 1 .. k - 1 : longer[j] = line[j]
  BY <1>2, <1>6, <1>7
<1>9. \A j \in k + 1 .. Len(line) + 1 : longer[j] = line[j - 1]
  <2> SUFFICES ASSUME NEW j \in k + 1 .. Len(line) + 1 PROVE longer[j] = line[j - 1]
    OBVIOUS
  <2>1. /\ j - k \in 1 .. Len(line) - k + 1 /\ k + (j - k) - 1 = j - 1
    BY Len(line) \in Nat
  <2>2. longer[j] = after[j - k]
    BY <1>7
  <2>3. after[j - k] = line[k + (j - k) - 1]
    BY <1>3, <2>1
  <2> QED
    BY <2>1, <2>2, <2>3
<1>10. \A j \in k + 1 .. Len(line) + 1 : m.at <= line[j - 1].at
  <2> SUFFICES ASSUME NEW j \in k + 1 .. Len(line) + 1 PROVE m.at <= line[j - 1].at
    OBVIOUS
  <2>1. j - 1 \in k .. Len(line) /\ line[j - 1].at >= m.at
    BY <1>1
  <2>2. line[j - 1] \in Message
    BY <2>1
  <2>3. line[j - 1].at \in Nat /\ m.at \in Nat
    BY <2>2 DEF Message
  <2> QED
    BY <2>1, <2>3
<1>11. longer[k] = m
  <2>1. k \in 1 .. k
    OBVIOUS
  <2> QED
    BY <1>6, <1>7, <2>1
<1>12. \A j \in 1 .. k - 1 : longer[j] = line[j] /\ line[j].at <= m.at
  BY <1>1, <1>8
<1>13. \A j \in k + 1 .. Len(line) + 1 : longer[j] = line[j - 1] /\ m.at <= line[j - 1].at
  BY <1>9, <1>10
<1>14. longer \in Seq(Message) /\ Len(longer) = Len(line) + 1
  BY <1>7
<1> QED
  BY <1>11, <1>12, <1>13, <1>14

\* No row is lost.
LEMMA RowsKept ==
    ASSUME NEW line \in Seq(Message), NEW m \in Message, NEW longer \in AddTo(line, m)
    PROVE  Rows(line) \subseteq Rows(longer)
<1>1. PICK k \in 1 .. Len(line) + 1 :
        /\ longer \in Seq(Message) /\ Len(longer) = Len(line) + 1 /\ longer[k] = m
        /\ \A j \in 1 .. k - 1 : longer[j] = line[j] /\ line[j].at <= m.at
        /\ \A j \in k + 1 .. Len(line) + 1 : longer[j] = line[j - 1] /\ m.at <= line[j - 1].at
  BY AddedAt
<1>2. Len(line) \in Nat
  OBVIOUS
<1>3. ASSUME NEW x \in Rows(line) PROVE x \in Rows(longer)
  <2>1. PICK i \in 1 .. Len(line) : x = line[i]
    BY DEF Rows
  <2>2. CASE i < k
    <3>1. i \in 1 .. k - 1 /\ i \in 1 .. Len(longer)
      BY <1>1, <1>2, <2>2
    <3> QED
      BY <1>1, <2>1, <3>1 DEF Rows
  <2>3. CASE i >= k
    <3>1. i + 1 \in k + 1 .. Len(line) + 1 /\ i + 1 \in 1 .. Len(longer) /\ (i + 1) - 1 = i
      BY <1>1, <1>2, <2>3
    <3> QED
      BY <1>1, <2>1, <3>1 DEF Rows
  <2> QED
    BY <1>1, <1>2, <2>2, <2>3
<1> QED
  BY <1>3

\* The rows afterwards, still in order and one of each.
LEMMA AddedRows ==
    ASSUME NEW line \in Seq(Message), InOrder(line), OneOfEach(line),
           NEW m \in Message, NEW longer \in AddTo(line, m),
           \A x \in Rows(line) : x.by # m.by \/ x.role # m.role
    PROVE  /\ longer \in Seq(Message) /\ InOrder(longer) /\ OneOfEach(longer)
           /\ Rows(longer) = Rows(line) \cup {m}
<1>1. PICK k \in 1 .. Len(line) + 1 :
        /\ longer \in Seq(Message) /\ Len(longer) = Len(line) + 1 /\ longer[k] = m
        /\ \A j \in 1 .. k - 1 : longer[j] = line[j] /\ line[j].at <= m.at
        /\ \A j \in k + 1 .. Len(line) + 1 : longer[j] = line[j - 1] /\ m.at <= line[j - 1].at
  BY ONLY AddedAt, line \in Seq(Message), m \in Message, longer \in AddTo(line, m)
<1>2. Len(line) \in Nat /\ \A j \in 1 .. Len(line) : line[j] \in Message /\ line[j] \in Rows(line)
  BY DEF Rows
<1>3. \A j \in 1 .. Len(line) : line[j].at \in Nat
  BY <1>2 DEF Message
<1>4. InOrder(longer)
  <2> SUFFICES ASSUME NEW i \in 1 .. Len(longer), NEW j \in 1 .. Len(longer), i < j
               PROVE  longer[i].at <= longer[j].at
    BY DEF InOrder
  <2>1. CASE i < k /\ j < k
    BY <1>1, <1>2, <2>1 DEF InOrder
  <2>2. CASE i < k /\ j = k
    BY <1>1, <1>2, <2>2
  <2>3. CASE i < k /\ j > k
    <3>1. longer[i] = line[i] /\ longer[j] = line[j - 1]
      BY <1>1, <1>2, <2>3
    <3>2. i \in 1 .. Len(line) /\ j - 1 \in 1 .. Len(line) /\ i <= j - 1
      BY <1>1, <1>2, <2>3
    <3>3. i < j - 1 => line[i].at <= line[j - 1].at
      BY <3>2 DEF InOrder
    <3> QED
      BY <1>1, <1>3, <2>3, <3>1, <3>2, <3>3
  <2>4. CASE i = k /\ j > k
    <3>1. j \in k + 1 .. Len(line) + 1
      BY <1>1, <1>2, <2>4
    <3> QED
      BY <1>1, <2>4, <3>1
  <2>5. CASE i > k
    <3>1. longer[i] = line[i - 1] /\ longer[j] = line[j - 1]
      BY <1>1, <1>2, <2>5
    <3>2. i - 1 \in 1 .. Len(line) /\ j - 1 \in 1 .. Len(line) /\ i - 1 < j - 1
      BY <1>1, <1>2, <2>5
    <3> QED
      BY <3>1, <3>2 DEF InOrder
  <2> QED
    BY <1>1, <1>2, <2>1, <2>2, <2>3, <2>4, <2>5
<1>5. \A j \in 1 .. Len(longer) \ {k} :
        \E i \in 1 .. Len(line) : longer[j] = line[i] /\ (i = IF j < k THEN j ELSE j - 1)
  <2> SUFFICES ASSUME NEW j \in 1 .. Len(longer) \ {k}
               PROVE  \E i \in 1 .. Len(line) : longer[j] = line[i] /\ (i = IF j < k THEN j ELSE j - 1)
    OBVIOUS
  <2>1. CASE j < k
    BY <1>1, <1>2, <2>1
  <2>2. CASE j > k
    <3>1. j \in k + 1 .. Len(line) + 1 /\ j - 1 \in 1 .. Len(line)
      BY <1>1, <1>2, <2>2
    <3> QED
      BY <1>1, <2>2, <3>1
  <2> QED
    BY <1>1, <1>2, <2>1, <2>2
<1>6. OneOfEach(longer)
  <2> SUFFICES ASSUME NEW i \in 1 .. Len(longer), NEW j \in 1 .. Len(longer),
                      longer[i].by = longer[j].by, longer[i].role = longer[j].role
               PROVE  i = j
    BY DEF OneOfEach
  <2>1. CASE i # k /\ j # k
    <3>1. PICK a \in 1 .. Len(line) : longer[i] = line[a] /\ (a = IF i < k THEN i ELSE i - 1)
      BY <1>5, <2>1
    <3>2. PICK b \in 1 .. Len(line) : longer[j] = line[b] /\ (b = IF j < k THEN j ELSE j - 1)
      BY <1>5, <2>1
    <3>3. a = b
      BY <3>1, <3>2 DEF OneOfEach
    <3> QED
      BY <1>1, <1>2, <2>1, <3>1, <3>2, <3>3
  <2>2. CASE i = k /\ j # k
    <3>1. longer[j] \in Rows(line)
      BY <1>2, <1>5, <2>2
    <3> QED
      BY <1>1, <2>2, <3>1
  <2>3. CASE i # k /\ j = k
    <3>1. longer[i] \in Rows(line)
      BY <1>2, <1>5, <2>3
    <3> QED
      BY <1>1, <2>3, <3>1
  <2> QED
    BY <2>1, <2>2, <2>3
<1>7. ASSUME NEW x \in Rows(longer) PROVE x \in Rows(line) \cup {m}
  <2>1. PICK j \in 1 .. Len(longer) : x = longer[j]
    BY DEF Rows
  <2> QED
    BY <1>1, <1>2, <1>5, <2>1
<1>8. m \in Rows(longer)
  BY <1>1, <1>2 DEF Rows
<1>9. Rows(line) \subseteq Rows(longer)
  BY RowsKept
<1> QED
  BY <1>1, <1>4, <1>6, <1>7, <1>8, <1>9

-----------------------------------------------------------------------------
(* The invariant of the messages *)

Asking(by) == \E x \in Rows(timeline) : x.by = by /\ x.role = "user"

\* Who has written may have: a Run that is answered has ended, a plain message
\* is no longer with its writer.
RowsFit ==
    /\ OneOfEach(timeline)
    /\ \A x \in Rows(timeline) :
         /\ x.role = "user" => x.text \in Texts
         /\ x.by \in Runs => run[x.by].pc # "absent"
         /\ x.by \in Runs /\ x.role = "assistant" => run[x.by].pc = "ended" /\ ~x.archived
         /\ x.by \in Posts => writer[x.by] = 0

\* A plain message and its reply come together, the reply one microsecond later.
RepliesFit ==
    \A x \in Rows(timeline) : x.by \in Posts =>
        /\ \E y \in Rows(timeline) : y.by = x.by /\ y.role # x.role
        /\ \A y \in Rows(timeline) :
             y.by = x.by /\ x.role = "user" /\ y.role = "assistant" => y.at = x.at + 1

\* What a Run or an edit is about is there to be read.
ReadersFit ==
    /\ \A r \in Runs : run[r].pc # "absent" => run[r].asked \in Texts /\ Asking(r)
    /\ \A e \in Changes : change[e].pc = "updating" =>
         change[e].target \in Posts \cup Runs /\ change[e].text \in Texts /\ Asking(change[e].target)

\* Rerun keys are unique and name what was asked again.
QuestionsFit ==
    /\ \A r \in Runs : run[r].frozen /\ run[r].got # "none" => run[r].got = run[r].asked
    /\ \A k \in keys :
         /\ run[k.of].pc = "ended" /\ run[k.run].pc # "absent"
         /\ k.text = run[k.run].asked
         /\ run[k.of].frozen => k.text = run[k.of].asked
    /\ \A k, l \in keys : k.key = l.key => k = l

\* The time of a row that its writer took from the clock, not one after it.
Stamped(x) == x.by \in Runs \/ x.role = "user"
Far(a, b) == a + 2 <= b \/ b + 2 <= a

\* With clocks that keep writers apart a plain message and its reply have no
\* other row between them, and are deleted together.
TimesFit == Apart =>
    /\ \A x \in Rows(timeline) : Stamped(x) => x.at <= stamp
    /\ \A p \in Posts : writer[p] <= stamp
    /\ \A x, y \in Rows(timeline) : Stamped(x) /\ Stamped(y) /\ x.by # y.by => Far(x.at, y.at)
    /\ \A p \in Posts, x \in Rows(timeline) : writer[p] # 0 /\ Stamped(x) => Far(writer[p], x.at)
    /\ \A p, q \in Posts : p # q /\ writer[p] # 0 /\ writer[q] # 0 => Far(writer[p], writer[q])
    /\ \A x, y \in Rows(timeline) : x.by \in Posts /\ y.by = x.by => (x.archived <=> y.archived)

TimelineInv ==
    TimelineTypeOK /\ RowsFit /\ RepliesFit /\ ReadersFit /\ QuestionsFit /\ TimesFit

-----------------------------------------------------------------------------
(* Reading the rows *)

RunRec == [pc : RunPcs, frozen : BOOLEAN, asked : Texts \cup {"none"}, got : Texts \cup {"none"}]
KeyRec == [key : Keys, of : Runs, text : Texts, run : Runs]
ChangeRec == [pc : ChangePcs, target : Posts \cup Runs \cup {"none"}, text : Texts \cup {"none"}]

LEMMA LineTypes ==
    TimelineTypeOK <=> /\ timeline \in Seq(Message) /\ InOrder(timeline)
                       /\ stamp \in Nat /\ writer \in [Posts -> Nat]
                       /\ run \in [Runs -> RunRec] /\ keys \subseteq KeyRec
                       /\ change \in [Changes -> ChangeRec]
  BY DEF TimelineTypeOK, InOrder, RunRec, KeyRec, ChangeRec

LEMMA LeastOf ==
    ASSUME NEW S \in SUBSET Nat, S # {}
    PROVE  Min(S) \in S /\ \A y \in S : Min(S) <= y
<1> DEFINE less == OpToRel(<, Nat)
<1>1. less = {ss \in Nat \X Nat : ss[1] < ss[2]}
  BY DEF OpToRel
<1>2. IsWellFoundedOn(less, Nat)
  BY NatLessThanWellFounded
<1> HIDE DEF less
<1>3. PICK x \in S : \A y \in S : <<y, x>> \notin less
  BY <1>2, WFMin
<1>4. \A y \in S : x <= y
  <2> TAKE y \in S
  <2>1. x \in Nat /\ y \in Nat /\ ~(y < x)
    BY <1>1, <1>3
  <2> QED
    BY <2>1
<1> QED
  BY <1>4 DEF Min

LEMMA RowsAreMessages ==
    ASSUME TimelineTypeOK, NEW x \in Rows(timeline)
    PROVE  /\ x \in Message /\ x.by \in Posts \cup Runs /\ x.role \in {"user", "assistant"}
           /\ x.at \in Nat /\ x.text \in Texts \cup {"reply"} /\ x.archived \in BOOLEAN
<1>1. x \in Message
  BY LineTypes DEF Rows
<1> QED
  BY <1>1 DEF Message

LEMMA LineLength == TimelineTypeOK => Len(timeline) \in Nat
  BY LineTypes

\* AskedAt finds the one question of a sender, wherever it stands.
LEMMA AskedIs ==
    ASSUME TimelineTypeOK, OneOfEach(timeline), NEW i \in 1 .. Len(timeline),
           timeline[i].role = "user"
    PROVE  AskedAt(timeline[i].by) = i
<1> DEFINE at == {j \in 1 .. Len(timeline) : timeline[j].by = timeline[i].by /\ timeline[j].role = "user"}
<1>1. at = {i}
  BY DEF OneOfEach
<1>2. at # {} /\ at \subseteq Nat
  BY LineLength
<1>3. Min(at) \in at
  BY <1>2, LeastOf
<1> QED
  BY <1>1, <1>3 DEF AskedAt

LEMMA AskedRow ==
    ASSUME TimelineTypeOK, OneOfEach(timeline), NEW x \in Rows(timeline), x.role = "user"
    PROVE  /\ AskedAt(x.by) \in 1 .. Len(timeline) /\ AskedAt(x.by) # 0
           /\ timeline[AskedAt(x.by)] = x /\ TextOf(x.by) = x.text
<1>1. PICK i \in 1 .. Len(timeline) : x = timeline[i]
  BY DEF Rows
<1>2. AskedAt(x.by) = i
  BY <1>1, AskedIs
<1> QED
  BY <1>1, <1>2, LineLength DEF TextOf

LEMMA AskedAtAll ==
    ASSUME TimelineTypeOK, OneOfEach(timeline), NEW by
    PROVE  \/ AskedAt(by) = 0 /\ ~Asking(by)
           \/ /\ AskedAt(by) \in 1 .. Len(timeline) /\ AskedAt(by) # 0 /\ Asking(by)
              /\ timeline[AskedAt(by)] \in Rows(timeline)
              /\ timeline[AskedAt(by)].by = by /\ timeline[AskedAt(by)].role = "user"
<1>1. CASE Asking(by)
  <2>1. PICK x \in Rows(timeline) : x.by = by /\ x.role = "user"
    BY <1>1 DEF Asking
  <2> QED
    BY <1>1, <2>1, AskedRow
<1>2. CASE ~Asking(by)
  <2>1. {i \in 1 .. Len(timeline) : timeline[i].by = by /\ timeline[i].role = "user"} = {}
    BY <1>2 DEF Asking, Rows
  <2> QED
    BY <1>2, <2>1 DEF AskedAt
<1> QED
  BY <1>1, <1>2

\* Another row: what AddTo does to a timeline that has none of its sender and role.
LEMMA AnotherRow ==
    ASSUME TimelineTypeOK, OneOfEach(timeline), NEW m \in Message,
           timeline' \in AddTo(timeline, m),
           \A x \in Rows(timeline) : x.by # m.by \/ x.role # m.role
    PROVE  /\ timeline' \in Seq(Message) /\ InOrder(timeline') /\ OneOfEach(timeline')
           /\ Rows(timeline') = Rows(timeline) \cup {m}
<1>1. timeline \in Seq(Message) /\ InOrder(timeline)
  BY LineTypes
<1> QED
  BY <1>1, AddedRows

LEMMA SaidIs ==
    \A by \in Posts \cup Runs, role \in {"user", "assistant"}, at \in Nat, text \in Texts \cup {"reply"} :
      /\ Said(by, role, at, text) \in Message
      /\ Said(by, role, at, text).by = by /\ Said(by, role, at, text).role = role
      /\ Said(by, role, at, text).at = at /\ Said(by, role, at, text).text = text
      /\ Said(by, role, at, text).archived = FALSE
  BY DEF Said, Message

-----------------------------------------------------------------------------
(* Steps that leave the rows alone *)

LEMMA TimeTaken ==
    ASSUME TimelineTypeOK, TakeTime
    PROVE  stamp' \in Nat /\ stamp <= stamp' /\ (Apart => stamp' = stamp + 2)
  BY LineTypes DEF TakeTime

LEMMA NobodyAsked ==
    ASSUME TimelineInv, NEW p \in Posts, AskedAt(p) = 0
    PROVE  \A x \in Rows(timeline) : x.by # p
<1> SUFFICES ASSUME NEW x \in Rows(timeline), x.by = p PROVE FALSE
  OBVIOUS
<1>1. ~Asking(p)
  BY AskedAtAll DEF TimelineInv, RowsFit
<1>2. x.role = "assistant"
  BY <1>1, RowsAreMessages DEF TimelineInv, Asking
<1>3. PICK y \in Rows(timeline) : y.by = x.by /\ y.role # x.role
  BY DEF TimelineInv, RepliesFit
<1> QED
  BY <1>1, <1>2, <1>3, RowsAreMessages DEF TimelineInv, Asking

LEMMA SendPlainStep ==
    ASSUME TimelineInv, NEW p \in Posts, SendPlain(p)
    PROVE  TimelineInv'
<1>1. /\ writer' = [writer EXCEPT ![p] = stamp']
      /\ UNCHANGED <<timeline, run, keys, change>>
      /\ writer[p] = 0 /\ AskedAt(p) = 0
  BY DEF SendPlain
<1>2. stamp' \in Nat /\ stamp <= stamp' /\ (Apart => stamp' = stamp + 2) /\ stamp \in Nat
  BY TimeTaken, LineTypes DEF TimelineInv, SendPlain
<1>3. \A x \in Rows(timeline) : x.by # p
  BY <1>1, NobodyAsked
<1>4. /\ writer \in [Posts -> Nat] /\ writer' \in [Posts -> Nat] /\ writer'[p] = stamp'
      /\ \A q \in Posts \ {p} : writer'[q] = writer[q]
  BY <1>1, <1>2, LineTypes DEF TimelineInv
<1>5. TimelineTypeOK'
  BY <1>1, <1>2, <1>4, LineTypes DEF TimelineInv, TimelineTypeOK
<1>6. RowsFit'
  BY <1>1, <1>3, <1>4 DEF TimelineInv, RowsFit
<1>7. RepliesFit' /\ ReadersFit' /\ QuestionsFit'
  BY <1>1 DEF TimelineInv, RepliesFit, ReadersFit, QuestionsFit, Asking
<1>8. ASSUME Apart PROVE /\ \A x \in Rows(timeline) : Stamped(x) => x.at <= stamp'
                         /\ \A q \in Posts : writer'[q] <= stamp'
                         /\ \A q \in Posts, x \in Rows(timeline) :
                              writer'[q] # 0 /\ Stamped(x) => Far(writer'[q], x.at)
                         /\ \A q, o \in Posts : q # o /\ writer'[q] # 0 /\ writer'[o] # 0
                              => Far(writer'[q], writer'[o])
  <2>1. \A x \in Rows(timeline) : x.at \in Nat
    BY RowsAreMessages DEF TimelineInv
  <2>2. \A x \in Rows(timeline) : Stamped(x) => x.at <= stamp /\ x.at + 2 <= stamp'
    BY <1>2, <1>8, <2>1 DEF TimelineInv, TimesFit
  <2>3. \A q \in Posts : writer[q] <= stamp /\ writer[q] + 2 <= stamp'
    BY <1>2, <1>4, <1>8 DEF TimelineInv, TimesFit
  <2>4. \A x \in Rows(timeline) : Stamped(x) => x.at <= stamp'
    BY <1>2, <2>1, <2>2
  <2>5. \A q \in Posts : writer'[q] <= stamp'
    BY <1>2, <1>4, <2>3
  <2>6. \A q \in Posts, x \in Rows(timeline) : writer'[q] # 0 /\ Stamped(x) => Far(writer'[q], x.at)
    BY <1>4, <1>8, <2>2 DEF TimelineInv, TimesFit, Far
  <2>7. \A q, o \in Posts : q # o /\ writer'[q] # 0 /\ writer'[o] # 0 => Far(writer'[q], writer'[o])
    BY <1>4, <1>8, <2>3 DEF TimelineInv, TimesFit, Far
  <2> QED
    BY <2>4, <2>5, <2>6, <2>7
<1>9. TimesFit'
  BY <1>1, <1>8 DEF TimelineInv, TimesFit
<1> QED
  BY <1>5, <1>6, <1>7, <1>9 DEF TimelineInv

\* A Run that moves on as it is: it keeps its question.
LEMMA RunMoves ==
    ASSUME TimelineInv, NEW r \in Runs, NEW pc \in {"running", "ended"}, NEW got \in Texts \cup {"none"},
           run[r].pc \in {"queued", "running"},
           run[r].frozen /\ got # "none" => got = run[r].asked,
           run' = [run EXCEPT ![r] = RunOf(pc, run[r].frozen, run[r].asked, got)]
    PROVE  /\ run' \in [Runs -> RunRec]
           /\ run'[r].pc = pc /\ run'[r].got = got
           /\ \A q \in Runs \ {r} : run'[q] = run[q]
           /\ \A q \in Runs : /\ run'[q].asked = run[q].asked /\ run'[q].frozen = run[q].frozen
                              /\ run[q].pc # "absent" <=> run'[q].pc # "absent"
                              /\ run[q].pc = "ended" => run'[q].pc = "ended"
           /\ UNCHANGED keys => QuestionsFit'
<1>1. run \in [Runs -> RunRec] /\ run[r] \in RunRec
  BY LineTypes DEF TimelineInv
<1> DEFINE new == RunOf(pc, run[r].frozen, run[r].asked, got)
<1>2. /\ new \in RunRec /\ new.pc = pc /\ new.got = got
      /\ new.asked = run[r].asked /\ new.frozen = run[r].frozen
  BY <1>1 DEF RunOf, RunRec, RunPcs
<1>3. run' = [run EXCEPT ![r] = new]
  OBVIOUS
<1> HIDE DEF new
<1>4. /\ run' \in [Runs -> RunRec] /\ run'[r] = new
      /\ \A q \in Runs \ {r} : run'[q] = run[q]
  BY <1>1, <1>2, <1>3
<1>5. \A q \in Runs : /\ run'[q].asked = run[q].asked /\ run'[q].frozen = run[q].frozen
                      /\ run[q].pc # "absent" <=> run'[q].pc # "absent"
                      /\ run[q].pc = "ended" => run'[q].pc = "ended"
  BY <1>2, <1>4
<1>6. ASSUME UNCHANGED keys PROVE QuestionsFit'
  <2>1. \A k \in keys : k.of \in Runs /\ k.run \in Runs
    BY LineTypes DEF TimelineInv, KeyRec
  <2>2. \A q \in Runs : run'[q].frozen /\ run'[q].got # "none" => run'[q].got = run'[q].asked
    BY <1>2, <1>4 DEF TimelineInv, QuestionsFit
  <2>3. \A k \in keys :
          /\ run'[k.of].pc = "ended" /\ run'[k.run].pc # "absent"
          /\ k.text = run'[k.run].asked
          /\ run'[k.of].frozen => k.text = run'[k.of].asked
    BY <1>5, <2>1 DEF TimelineInv, QuestionsFit
  <2> QED
    BY <1>6, <2>2, <2>3 DEF TimelineInv, QuestionsFit
<1> QED
  BY <1>2, <1>4, <1>5, <1>6

\* What a claim hands over and a rerun asks again is a person's text.
LEMMA InputIs ==
    ASSUME TimelineInv, NEW r \in Runs, run[r].pc # "absent"
    PROVE  InputOf(r) \in Texts
<1>1. run[r].asked \in Texts
  BY DEF TimelineInv, ReadersFit
<1>2. PICK x \in Rows(timeline) : x.by = r /\ x.role = "user"
  BY DEF TimelineInv, ReadersFit, Asking
<1>3. TextOf(r) = x.text /\ x.text \in Texts
  BY <1>2, AskedRow DEF TimelineInv, RowsFit
<1> QED
  BY <1>1, <1>3 DEF InputOf

LEMMA RunOnly ==
    ASSUME TimelineInv, NEW r \in Runs, NEW pc \in {"running", "ended"}, NEW got \in Texts \cup {"none"},
           run[r].pc \in {"queued", "running"},
           run[r].frozen /\ got # "none" => got = run[r].asked,
           run' = [run EXCEPT ![r] = RunOf(pc, run[r].frozen, run[r].asked, got)],
           UNCHANGED <<timeline, stamp, writer, keys, change>>
    PROVE  TimelineInv'
<1>1. /\ run' \in [Runs -> RunRec] /\ QuestionsFit'
      /\ \A q \in Runs : /\ run'[q].asked = run[q].asked
                         /\ run[q].pc # "absent" <=> run'[q].pc # "absent"
                         /\ run[q].pc = "ended" => run'[q].pc = "ended"
  BY RunMoves
<1>2. TimelineTypeOK'
  BY <1>1, LineTypes DEF TimelineInv, TimelineTypeOK, RunRec
<1>3. RowsFit'
  BY <1>1 DEF TimelineInv, RowsFit
<1>4. RepliesFit' /\ ReadersFit' /\ TimesFit'
  BY <1>1 DEF TimelineInv, RepliesFit, ReadersFit, TimesFit, Asking
<1> QED
  BY <1>1, <1>2, <1>3, <1>4 DEF TimelineInv

LEMMA ClaimStep ==
    ASSUME TimelineInv, NEW r \in Runs, Claim(r)
    PROVE  TimelineInv'
<1>1. InputOf(r) \in Texts
  BY InputIs DEF Claim
<1>2. run[r].frozen => InputOf(r) = run[r].asked
  BY DEF InputOf
<1> QED
  BY <1>1, <1>2, RunOnly DEF Claim

LEMMA EndSilentlyStep ==
    ASSUME TimelineInv, NEW r \in Runs, EndSilently(r)
    PROVE  TimelineInv'
<1>1. run[r] \in RunRec
  BY LineTypes DEF TimelineInv
<1>2. run[r].got \in Texts \cup {"none"}
  BY <1>1 DEF RunRec
<1>3. run[r].frozen /\ run[r].got # "none" => run[r].got = run[r].asked
  BY DEF TimelineInv, QuestionsFit
<1> QED
  BY <1>2, <1>3, RunOnly DEF EndSilently

-----------------------------------------------------------------------------
(* Steps that add rows *)

LEMMA CommitPlainStep ==
    ASSUME TimelineInv, NEW p \in Posts, NEW text \in Texts,
           CommitPlain(p, text)
    PROVE  TimelineInv'
<1> DEFINE at == writer[p]
           u == Said(p, "user", at, text)
           v == Said(p, "assistant", at + 1, "reply")
<1>1. /\ at \in Nat /\ at + 1 \in Nat /\ at # 0
      /\ writer \in [Posts -> Nat] /\ timeline \in Seq(Message)
  BY LineTypes DEF TimelineInv, CommitPlain
<1>2. /\ u \in Message /\ v \in Message /\ u # v
      /\ u.by = p /\ u.role = "user" /\ u.at = at /\ u.text = text /\ u.archived = FALSE
      /\ v.by = p /\ v.role = "assistant" /\ v.at = at + 1 /\ v.archived = FALSE
  <2>1. p \in Posts \cup Runs /\ text \in Texts \cup {"reply"}
    OBVIOUS
  <2>2. /\ u \in Message
        /\ u.by = p /\ u.role = "user" /\ u.at = at /\ u.text = text /\ u.archived = FALSE
    BY <1>1, <2>1, SaidIs
  <2>3. /\ v \in Message
        /\ v.by = p /\ v.role = "assistant" /\ v.at = at + 1 /\ v.archived = FALSE
    BY <1>1, <2>1, SaidIs
  <2> HIDE DEF u, v
  <2> QED
    BY <2>2, <2>3
<1>3. PICK line \in AddTo(timeline, u) : timeline' \in AddTo(line, v)
  BY DEF CommitPlain
<1>4. UNCHANGED <<stamp, run, keys, change>> /\ writer' = [writer EXCEPT ![p] = 0]
  BY DEF CommitPlain
<1> HIDE DEF u, v
<1>5. \A x \in Rows(timeline) : x.by # p
  BY <1>1 DEF TimelineInv, RowsFit
<1>6. InOrder(timeline) /\ OneOfEach(timeline)
  BY LineTypes DEF TimelineInv, RowsFit
<1>7. /\ line \in Seq(Message) /\ InOrder(line) /\ OneOfEach(line)
      /\ Rows(line) = Rows(timeline) \cup {u}
  BY <1>1, <1>2, <1>3, <1>5, <1>6, AddedRows
<1>8. \A x \in Rows(line) : x.by # v.by \/ x.role # v.role
  BY <1>2, <1>5, <1>7
<1>9. /\ timeline' \in Seq(Message) /\ InOrder(timeline') /\ OneOfEach(timeline')
      /\ Rows(timeline') = (Rows(timeline) \cup {u}) \cup {v}
  BY <1>2, <1>3, <1>7, <1>8, AddedRows
<1>10. /\ writer' \in [Posts -> Nat] /\ writer'[p] = 0
       /\ \A q \in Posts \ {p} : writer'[q] = writer[q]
  BY <1>1, <1>4
<1>11. TimelineTypeOK'
  BY <1>4, <1>9, <1>10, LineTypes DEF TimelineInv, TimelineTypeOK, InOrder
<1>12. \A x \in Rows(timeline') : x \in Rows(timeline) \/ x = u \/ x = v
  BY <1>9
<1>13. RowsFit'
  BY <1>2, <1>4, <1>5, <1>9, <1>10, <1>12, SendersAssumption DEF TimelineInv, RowsFit
<1>14. RepliesFit'
  <2> SUFFICES ASSUME NEW x \in Rows(timeline'), x.by \in Posts
               PROVE  /\ \E y \in Rows(timeline') : y.by = x.by /\ y.role # x.role
                      /\ \A y \in Rows(timeline') :
                           y.by = x.by /\ x.role = "user" /\ y.role = "assistant" => y.at = x.at + 1
    BY DEF RepliesFit
  <2>1. CASE x \in Rows(timeline)
    BY <1>2, <1>5, <1>9, <2>1 DEF TimelineInv, RepliesFit
  <2>2. CASE x = u \/ x = v
    BY <1>2, <1>5, <1>9, <2>2
  <2> QED
    BY <1>12, <2>1, <2>2
<1>15. ReadersFit'
  BY <1>4, <1>9 DEF TimelineInv, ReadersFit, Asking
<1>16. QuestionsFit'
  BY <1>4 DEF TimelineInv, QuestionsFit
<1>17. ASSUME Apart PROVE /\ \A x \in Rows(timeline') : Stamped(x) => x.at <= stamp
                          /\ \A q \in Posts : writer'[q] <= stamp
    <2>1. at <= stamp /\ 0 <= stamp
      BY <1>1, <1>17, LineTypes DEF TimelineInv, TimesFit
    <2>2. ~Stamped(v)
      BY <1>2, SendersAssumption DEF Stamped
    <2> QED
      BY <1>2, <1>10, <1>12, <1>17, <2>1, <2>2 DEF TimelineInv, TimesFit
<1>18. ASSUME Apart, NEW x \in Rows(timeline'), NEW y \in Rows(timeline'),
              Stamped(x), Stamped(y), x.by # y.by
       PROVE  Far(x.at, y.at)
  <2>1. x # v /\ y # v
    BY <1>2, <1>18, SendersAssumption DEF Stamped
  <2>2. \A z \in Rows(timeline) : Stamped(z) => Far(at, z.at)
    BY <1>1, <1>18 DEF TimelineInv, TimesFit
  <2>3. CASE x \in Rows(timeline) /\ y \in Rows(timeline)
    BY <1>18, <2>3 DEF TimelineInv, TimesFit
  <2>4. CASE x = u /\ y \in Rows(timeline)
    BY <1>2, <1>18, <2>2, <2>4
  <2>5. CASE x \in Rows(timeline) /\ y = u
    BY <1>2, <1>18, <2>2, <2>5 DEF Far
  <2> QED
    BY <1>12, <1>18, <2>1, <2>3, <2>4, <2>5
<1>19. ASSUME Apart, NEW q \in Posts, writer'[q] # 0
       PROVE  /\ \A x \in Rows(timeline') : Stamped(x) => Far(writer'[q], x.at)
              /\ \A o \in Posts : q # o /\ writer'[o] # 0 => Far(writer'[q], writer'[o])
  <2>1. q # p /\ writer'[q] = writer[q]
    BY <1>10, <1>19
  <2>2. Far(writer[q], at)
    BY <1>1, <1>19, <2>1 DEF TimelineInv, TimesFit
  <2>3. ~Stamped(v)
    BY <1>2, SendersAssumption DEF Stamped
  <2> QED
    BY <1>2, <1>10, <1>12, <1>19, <2>1, <2>2, <2>3 DEF TimelineInv, TimesFit
<1>20. ASSUME Apart, NEW x \in Rows(timeline'), NEW y \in Rows(timeline'),
              x.by \in Posts, y.by = x.by
       PROVE  x.archived <=> y.archived
  <2>1. CASE x \in Rows(timeline)
    <3>1. y \in Rows(timeline)
      BY <1>2, <1>5, <1>12, <1>20, <2>1
    <3> QED
      BY <1>20, <2>1, <3>1 DEF TimelineInv, TimesFit
  <2>2. CASE x \notin Rows(timeline)
    BY <1>2, <1>5, <1>12, <1>20, <2>2
  <2> QED
    BY <2>1, <2>2
<1>21. TimesFit'
  BY <1>4, <1>17, <1>18, <1>19, <1>20 DEF TimesFit
<1> QED
  BY <1>11, <1>13, <1>14, <1>15, <1>16, <1>21 DEF TimelineInv

\* A row of a Run, with the latest time there is.
LEMMA RunRow ==
    ASSUME TimelineInv, NEW r \in Runs, NEW role \in {"user", "assistant"},
           NEW text \in Texts \cup {"reply"}, TakeTime,
           timeline' \in AddTo(timeline, Said(r, role, stamp', text)),
           \A x \in Rows(timeline) : x.by # r \/ x.role # role,
           UNCHANGED writer
    PROVE  /\ timeline' \in Seq(Message) /\ InOrder(timeline') /\ OneOfEach(timeline')
           /\ stamp' \in Nat
           /\ \E m : /\ Rows(timeline') = Rows(timeline) \cup {m}
                     /\ m.by = r /\ m.role = role /\ m.text = text /\ ~m.archived
           /\ RepliesFit' /\ TimesFit'
<1> DEFINE m == Said(r, role, stamp', text)
<1>1. stamp' \in Nat /\ stamp <= stamp' /\ (Apart => stamp' = stamp + 2) /\ stamp \in Nat
  BY TimeTaken, LineTypes DEF TimelineInv
<1>2. /\ m \in Message
      /\ m.by = r /\ m.role = role /\ m.at = stamp' /\ m.text = text /\ m.archived = FALSE
  <2>1. r \in Posts \cup Runs
    OBVIOUS
  <2> QED
    BY <1>1, <2>1, SaidIs
<1>3. timeline' \in AddTo(timeline, m)
  OBVIOUS
<1> HIDE DEF m
<1>4. /\ timeline' \in Seq(Message) /\ InOrder(timeline') /\ OneOfEach(timeline')
      /\ Rows(timeline') = Rows(timeline) \cup {m}
  BY <1>2, <1>3, AnotherRow DEF TimelineInv, RowsFit
<1>5. m.by \notin Posts
  BY <1>2, SendersAssumption
<1>6. RepliesFit'
  BY <1>4, <1>5 DEF TimelineInv, RepliesFit
<1>7. ASSUME Apart
      PROVE  /\ \A x \in Rows(timeline) : Stamped(x) => x.at \in Nat /\ x.at <= stamp /\ x.at + 2 <= stamp'
             /\ \A p \in Posts : writer[p] <= stamp /\ writer[p] \in Nat /\ writer[p] + 2 <= stamp'
  <2>1. \A x \in Rows(timeline) : x.at \in Nat
    BY RowsAreMessages DEF TimelineInv
  <2>2. \A p \in Posts : writer[p] \in Nat
    BY LineTypes DEF TimelineInv
  <2> QED
    BY <1>1, <1>7, <2>1, <2>2 DEF TimelineInv, TimesFit
<1>8. ASSUME Apart PROVE /\ \A x \in Rows(timeline') : Stamped(x) => x.at <= stamp'
                         /\ \A p \in Posts : writer'[p] <= stamp'
  <2>1. \A x \in Rows(timeline) : Stamped(x) => x.at <= stamp'
    BY <1>1, <1>7, <1>8
  <2> QED
    BY <1>1, <1>2, <1>4, <1>7, <1>8, <2>1
<1>9. ASSUME Apart, NEW x \in Rows(timeline'), NEW y \in Rows(timeline'),
             Stamped(x), Stamped(y), x.by # y.by
      PROVE  Far(x.at, y.at)
  <2>1. CASE x \in Rows(timeline) /\ y \in Rows(timeline)
    BY <1>9, <2>1 DEF TimelineInv, TimesFit
  <2>2. CASE x = m /\ y \in Rows(timeline)
    BY <1>2, <1>7, <1>9, <2>2 DEF Far
  <2>3. CASE x \in Rows(timeline) /\ y = m
    BY <1>2, <1>7, <1>9, <2>3 DEF Far
  <2> QED
    BY <1>4, <1>9, <2>1, <2>2, <2>3
<1>10. ASSUME Apart, NEW p \in Posts, NEW x \in Rows(timeline'), writer'[p] # 0, Stamped(x)
       PROVE  Far(writer'[p], x.at)
  <2>1. CASE x \in Rows(timeline)
    BY <1>10, <2>1 DEF TimelineInv, TimesFit
  <2>2. CASE x = m
    BY <1>2, <1>7, <1>10, <2>2 DEF Far
  <2> QED
    BY <1>4, <2>1, <2>2
<1>11. TimesFit'
  BY <1>4, <1>5, <1>8, <1>9, <1>10 DEF TimelineInv, TimesFit
<1> QED
  BY <1>1, <1>2, <1>4, <1>6, <1>11

LEMMA AnswerStep ==
    ASSUME TimelineInv, NEW r \in Runs, Answer(r)
    PROVE  TimelineInv'
<1>1. /\ run[r].pc = "running" /\ TakeTime
      /\ timeline' \in AddTo(timeline, Said(r, "assistant", stamp', "reply"))
      /\ run' = [run EXCEPT ![r] = RunOf("ended", run[r].frozen, run[r].asked, run[r].got)]
      /\ UNCHANGED <<writer, keys, change>>
  BY DEF Answer
<1>2. \A x \in Rows(timeline) : x.by # r \/ x.role # "assistant"
  BY <1>1 DEF TimelineInv, RowsFit
<1>3. PICK m : /\ timeline' \in Seq(Message) /\ InOrder(timeline') /\ OneOfEach(timeline')
               /\ stamp' \in Nat
               /\ Rows(timeline') = Rows(timeline) \cup {m}
               /\ m.by = r /\ m.role = "assistant" /\ m.text = "reply" /\ ~m.archived
               /\ RepliesFit' /\ TimesFit'
  BY <1>1, <1>2, RunRow
<1>4. run[r] \in RunRec
  BY LineTypes DEF TimelineInv
<1>5. /\ run[r].got \in Texts \cup {"none"}
      /\ run[r].frozen /\ run[r].got # "none" => run[r].got = run[r].asked
  BY <1>4 DEF TimelineInv, QuestionsFit, RunRec
<1>6. /\ run' \in [Runs -> RunRec] /\ run'[r].pc = "ended" /\ QuestionsFit'
      /\ \A q \in Runs : /\ run'[q].asked = run[q].asked
                         /\ run[q].pc # "absent" <=> run'[q].pc # "absent"
                         /\ run[q].pc = "ended" => run'[q].pc = "ended"
  BY <1>1, <1>5, RunMoves
<1>7. TimelineTypeOK'
  BY <1>1, <1>3, <1>6, LineTypes DEF TimelineInv, TimelineTypeOK, InOrder, RunRec
<1>8. RowsFit'
  <2>1. \A x \in Rows(timeline') : x \in Rows(timeline) \/ x = m
    BY <1>3
  <2>2. m.by \notin Posts
    BY <1>3, SendersAssumption
  <2>3. \A x \in Rows(timeline) :
          /\ x.role = "user" => x.text \in Texts
          /\ x.by \in Runs => run'[x.by].pc # "absent"
          /\ x.by \in Runs /\ x.role = "assistant" => run'[x.by].pc = "ended" /\ ~x.archived
          /\ x.by \in Posts => writer'[x.by] = 0
    BY <1>1, <1>6 DEF TimelineInv, RowsFit
  <2> QED
    BY <1>3, <1>6, <2>1, <2>2, <2>3 DEF RowsFit
<1>9. ReadersFit'
  <2>1. \A by : Asking(by) => Asking(by)'
    BY <1>3 DEF Asking
  <2> QED
    BY <1>1, <1>6, <2>1 DEF TimelineInv, ReadersFit
<1> QED
  BY <1>3, <1>6, <1>7, <1>8, <1>9 DEF TimelineInv

LEMMA AcceptRunStep ==
    ASSUME TimelineInv, NEW r \in Runs, NEW frozen \in BOOLEAN,
           NEW text \in Texts, AcceptRun(r, frozen, text), keys' \subseteq KeyRec,
           \A k \in keys' \ keys : /\ run[k.of].pc = "ended" /\ k.run = r /\ k.text = text
                                   /\ run[k.of].frozen => k.text = run[k.of].asked,
           keys \subseteq keys', \A k, l \in keys' : k.key = l.key => k = l
    PROVE  TimelineInv'
<1>1. /\ run[r].pc = "absent" /\ TakeTime
      /\ timeline' \in AddTo(timeline, Said(r, "user", stamp', text))
      /\ run' = [run EXCEPT ![r] = RunOf("queued", frozen, text, "none")]
      /\ UNCHANGED <<writer, change>>
  BY DEF AcceptRun
<1>2. \A x \in Rows(timeline) : x.by # r
  BY <1>1 DEF TimelineInv, RowsFit
<1>3. PICK m : /\ timeline' \in Seq(Message) /\ InOrder(timeline') /\ OneOfEach(timeline')
               /\ stamp' \in Nat
               /\ Rows(timeline') = Rows(timeline) \cup {m}
               /\ m.by = r /\ m.role = "user" /\ m.text = text /\ ~m.archived
               /\ RepliesFit' /\ TimesFit'
  BY <1>1, <1>2, RunRow
<1> DEFINE new == RunOf("queued", frozen, text, "none")
<1>4. /\ new \in RunRec /\ new.pc = "queued" /\ new.got = "none"
      /\ new.asked = text /\ new.frozen = frozen
  BY DEF RunOf, RunRec, RunPcs
<1>5. run' = [run EXCEPT ![r] = new]
  BY <1>1
<1> HIDE DEF new
<1>6. /\ run' \in [Runs -> RunRec] /\ run'[r] = new
      /\ \A q \in Runs \ {r} : run'[q] = run[q]
  BY <1>4, <1>5, LineTypes DEF TimelineInv
<1>7. TimelineTypeOK'
  BY <1>1, <1>3, <1>6, LineTypes DEF TimelineInv, TimelineTypeOK, InOrder, RunRec, KeyRec
<1>8. RowsFit'
  <2>1. \A x \in Rows(timeline') : x \in Rows(timeline) \/ x = m
    BY <1>3
  <2>2. m.by \notin Posts
    BY <1>3, SendersAssumption
  <2>3. \A x \in Rows(timeline) :
          /\ x.role = "user" => x.text \in Texts
          /\ x.by \in Runs => run'[x.by].pc # "absent"
          /\ x.by \in Runs /\ x.role = "assistant" => run'[x.by].pc = "ended" /\ ~x.archived
          /\ x.by \in Posts => writer'[x.by] = 0
    BY <1>1, <1>2, <1>6 DEF TimelineInv, RowsFit
  <2> QED
    BY <1>3, <1>4, <1>6, <2>1, <2>2, <2>3 DEF RowsFit
<1>9. ReadersFit'
  <2>1. \A by : Asking(by) => Asking(by)'
    BY <1>3 DEF Asking
  <2>2. Asking(r)'
    BY <1>3 DEF Asking
  <2>3. \A q \in Runs : run'[q].pc # "absent" => run'[q].asked \in Texts /\ Asking(q)'
    BY <1>4, <1>6, <2>1, <2>2 DEF TimelineInv, ReadersFit
  <2> QED
    BY <1>1, <2>1, <2>3 DEF TimelineInv, ReadersFit
<1>10. QuestionsFit'
  <2>1. \A k \in keys : k.of \in Runs /\ k.run \in Runs
    BY LineTypes DEF TimelineInv, KeyRec
  <2>2. \A q \in Runs : run'[q].frozen /\ run'[q].got # "none" => run'[q].got = run'[q].asked
    BY <1>4, <1>6 DEF TimelineInv, QuestionsFit
  <2>3. ASSUME NEW k \in keys
        PROVE  /\ run'[k.of].pc = "ended" /\ run'[k.run].pc # "absent"
               /\ k.text = run'[k.run].asked
               /\ run'[k.of].frozen => k.text = run'[k.of].asked
    <3>1. k.of # r /\ k.run # r
      BY <1>1 DEF TimelineInv, QuestionsFit
    <3> QED
      BY <1>6, <2>1, <3>1 DEF TimelineInv, QuestionsFit
  <2>4. ASSUME NEW k \in keys' \ keys
        PROVE  /\ run'[k.of].pc = "ended" /\ run'[k.run].pc # "absent"
               /\ k.text = run'[k.run].asked
               /\ run'[k.of].frozen => k.text = run'[k.of].asked
    <3>1. k.of \in Runs /\ k.of # r
      BY <1>1 DEF KeyRec
    <3> QED
      BY <1>4, <1>6, <3>1
  <2> QED
    BY <2>2, <2>3, <2>4 DEF QuestionsFit
<1> QED
  BY <1>3, <1>7, <1>8, <1>9, <1>10 DEF TimelineInv

LEMMA CreateRunStep ==
    ASSUME TimelineInv, NEW r \in Runs, NEW frozen \in BOOLEAN,
           NEW text \in Texts, CreateRun(r, frozen, text)
    PROVE  TimelineInv'
  BY AcceptRunStep, LineTypes DEF TimelineInv, CreateRun, QuestionsFit

LEMMA RerunStep ==
    ASSUME TimelineInv, NEW r \in Runs, NEW of \in Runs, NEW key \in Keys,
           Rerun(r, of, key)
    PROVE  TimelineInv'
<1> DEFINE text == InputOf(of)
           new == [key |-> key, of |-> of, text |-> text, run |-> r]
<1>1. /\ run[of].pc = "ended" /\ \A k \in keys : k.key # key
      /\ AcceptRun(r, run[of].frozen, text)
      /\ keys' = keys \cup {new}
  BY DEF Rerun
<1>2. text \in Texts
  BY <1>1, InputIs
<1>3. run[of].frozen => text = run[of].asked
  BY DEF InputOf
<1> HIDE DEF text
<1>4. new \in KeyRec /\ new.key = key /\ new.of = of /\ new.text = text /\ new.run = r
  BY <1>2 DEF KeyRec
<1> HIDE DEF new
<1>5. run[of].frozen \in BOOLEAN
  <2>1. run[of] \in RunRec
    BY LineTypes DEF TimelineInv
  <2> QED
    BY <2>1 DEF RunRec
<1>6. keys' \subseteq KeyRec /\ keys \subseteq keys' /\ \A k, l \in keys' : k.key = l.key => k = l
  BY <1>1, <1>4, LineTypes DEF TimelineInv, QuestionsFit
<1>7. \A k \in keys' \ keys : /\ run[k.of].pc = "ended" /\ k.run = r /\ k.text = text
                              /\ run[k.of].frozen => k.text = run[k.of].asked
  BY <1>1, <1>3, <1>4
<1> QED
  BY <1>1, <1>2, <1>5, <1>6, <1>7, AcceptRunStep

-----------------------------------------------------------------------------
(* Steps of edits and deletions *)

\* Rows that keep their sender, role and time.
LEMMA RowsRewritten ==
    ASSUME TimelineInv, timeline' \in Seq(Message), Len(timeline') = Len(timeline),
           \A j \in 1 .. Len(timeline) :
             /\ timeline'[j].by = timeline[j].by /\ timeline'[j].role = timeline[j].role
             /\ timeline'[j].at = timeline[j].at
             /\ timeline[j].role = "user" => timeline'[j].text \in Texts
             /\ timeline[j].by \in Runs /\ timeline[j].role = "assistant" => ~timeline'[j].archived,
           Apart => \A i, j \in 1 .. Len(timeline) :
             timeline[i].by \in Posts /\ timeline[j].by = timeline[i].by
               => (timeline'[i].archived <=> timeline'[j].archived),
           UNCHANGED <<stamp, writer, run, keys>>,
           change' \in [Changes -> ChangeRec],
           \A e \in Changes : change'[e].pc = "updating" =>
             change'[e].target \in Posts \cup Runs /\ change'[e].text \in Texts
               /\ Asking(change'[e].target)
    PROVE  TimelineInv'
<1>1. timeline \in Seq(Message) /\ InOrder(timeline) /\ OneOfEach(timeline)
  BY LineTypes DEF TimelineInv, RowsFit
<1>2. InOrder(timeline') /\ OneOfEach(timeline')
  BY <1>1 DEF InOrder, OneOfEach
<1>3. TimelineTypeOK'
  BY <1>2, LineTypes DEF TimelineInv, TimelineTypeOK, InOrder, ChangeRec
<1>4. ASSUME NEW x \in Rows(timeline')
      PROVE  \E j \in 1 .. Len(timeline) :
               /\ x = timeline'[j] /\ timeline[j] \in Rows(timeline)
               /\ x.by = timeline[j].by /\ x.role = timeline[j].role /\ x.at = timeline[j].at
  BY <1>4 DEF Rows
<1>5. ASSUME NEW x \in Rows(timeline)
      PROVE  \E y \in Rows(timeline') : y.by = x.by /\ y.role = x.role /\ y.at = x.at
  BY <1>5 DEF Rows
<1>6. \A by : Asking(by) => Asking(by)'
  <2> SUFFICES ASSUME NEW by, Asking(by) PROVE Asking(by)'
    OBVIOUS
  <2>1. PICK x \in Rows(timeline) : x.by = by /\ x.role = "user"
    BY DEF Asking
  <2> QED
    BY <1>5, <2>1 DEF Asking
<1>7. RowsFit'
  <2> SUFFICES ASSUME NEW x \in Rows(timeline')
               PROVE  /\ x.role = "user" => x.text \in Texts
                      /\ x.by \in Runs => run[x.by].pc # "absent"
                      /\ x.by \in Runs /\ x.role = "assistant" => run[x.by].pc = "ended" /\ ~x.archived
                      /\ x.by \in Posts => writer[x.by] = 0
    BY <1>2 DEF RowsFit
  <2>1. PICK j \in 1 .. Len(timeline) :
               /\ x = timeline'[j] /\ timeline[j] \in Rows(timeline)
               /\ x.by = timeline[j].by /\ x.role = timeline[j].role /\ x.at = timeline[j].at
    BY <1>4
  <2> QED
    BY <2>1 DEF TimelineInv, RowsFit
<1>8. RepliesFit'
  <2> SUFFICES ASSUME NEW x \in Rows(timeline'), x.by \in Posts
               PROVE  /\ \E y \in Rows(timeline') : y.by = x.by /\ y.role # x.role
                      /\ \A y \in Rows(timeline') :
                           y.by = x.by /\ x.role = "user" /\ y.role = "assistant" => y.at = x.at + 1
    BY DEF RepliesFit
  <2>1. PICK j \in 1 .. Len(timeline) :
               /\ x = timeline'[j] /\ timeline[j] \in Rows(timeline)
               /\ x.by = timeline[j].by /\ x.role = timeline[j].role /\ x.at = timeline[j].at
    BY <1>4
  <2>2. PICK y \in Rows(timeline) : y.by = timeline[j].by /\ y.role # timeline[j].role
    BY <2>1 DEF TimelineInv, RepliesFit
  <2>3. \E z \in Rows(timeline') : z.by = x.by /\ z.role # x.role
    BY <1>5, <2>1, <2>2
  <2>4. ASSUME NEW z \in Rows(timeline'), z.by = x.by, x.role = "user", z.role = "assistant"
        PROVE  z.at = x.at + 1
    <3>1. PICK k \in 1 .. Len(timeline) :
               /\ z = timeline'[k] /\ timeline[k] \in Rows(timeline)
               /\ z.by = timeline[k].by /\ z.role = timeline[k].role /\ z.at = timeline[k].at
      BY <1>4
    <3> QED
      BY <2>1, <2>4, <3>1 DEF TimelineInv, RepliesFit
  <2> QED
    BY <2>3, <2>4
<1>9. ReadersFit'
  BY <1>6 DEF TimelineInv, ReadersFit
<1>10. QuestionsFit'
  BY DEF TimelineInv, QuestionsFit
<1>11. ASSUME Apart, NEW x \in Rows(timeline'), NEW y \in Rows(timeline')
       PROVE  /\ Stamped(x) => x.at <= stamp
              /\ Stamped(x) /\ Stamped(y) /\ x.by # y.by => Far(x.at, y.at)
              /\ \A p \in Posts : writer[p] # 0 /\ Stamped(x) => Far(writer[p], x.at)
              /\ x.by \in Posts /\ y.by = x.by => (x.archived <=> y.archived)
  <2>1. PICK i \in 1 .. Len(timeline) :
               /\ x = timeline'[i] /\ timeline[i] \in Rows(timeline)
               /\ x.by = timeline[i].by /\ x.role = timeline[i].role /\ x.at = timeline[i].at
    BY <1>4
  <2>2. PICK j \in 1 .. Len(timeline) :
               /\ y = timeline'[j] /\ timeline[j] \in Rows(timeline)
               /\ y.by = timeline[j].by /\ y.role = timeline[j].role /\ y.at = timeline[j].at
    BY <1>4
  <2> QED
    BY <1>11, <2>1, <2>2 DEF TimelineInv, TimesFit, Stamped
<1>12. TimesFit'
  BY <1>11 DEF TimelineInv, TimesFit
<1> QED
  BY <1>3, <1>7, <1>8, <1>9, <1>10, <1>12 DEF TimelineInv

LEMMA ChangeIs ==
    \A pc \in ChangePcs, target \in Posts \cup Runs \cup {"none"}, text \in Texts \cup {"none"} :
      /\ ChangeOf(pc, target, text) \in ChangeRec
      /\ ChangeOf(pc, target, text).pc = pc /\ ChangeOf(pc, target, text).target = target
      /\ ChangeOf(pc, target, text).text = text
  BY DEF ChangeOf, ChangeRec

\* An edit that goes on to a state that is in order.
LEMMA ChangeMoves ==
    ASSUME TimelineInv, NEW e \in Changes, NEW new \in ChangeRec, change' = [change EXCEPT ![e] = new],
           new.pc = "updating" => new.target \in Posts \cup Runs /\ new.text \in Texts /\ Asking(new.target)
    PROVE  /\ change' \in [Changes -> ChangeRec]
           /\ \A d \in Changes : change'[d].pc = "updating" =>
                change'[d].target \in Posts \cup Runs /\ change'[d].text \in Texts
                  /\ Asking(change'[d].target)
<1>1. /\ change' \in [Changes -> ChangeRec] /\ change'[e] = new
      /\ \A d \in Changes \ {e} : change'[d] = change[d]
  BY LineTypes DEF TimelineInv
<1> QED
  BY <1>1 DEF TimelineInv, ReadersFit

LEMMA RowFacts ==
    ASSUME TimelineInv, NEW j \in 1 .. Len(timeline)
    PROVE  /\ timeline[j] \in Rows(timeline) /\ timeline[j] \in Message
           /\ timeline[j].by \in Posts \cup Runs /\ timeline[j].role \in {"user", "assistant"}
           /\ timeline[j].at \in Nat
           /\ timeline[j].role = "user" => timeline[j].text \in Texts
           /\ timeline[j].by \in Runs /\ timeline[j].role = "assistant" => ~timeline[j].archived
<1>1. timeline[j] \in Rows(timeline)
  BY DEF Rows
<1> QED
  BY <1>1, RowsAreMessages DEF TimelineInv, RowsFit

LEMMA PairedRows ==
    ASSUME TimelineInv, Apart, NEW i \in 1 .. Len(timeline), NEW j \in 1 .. Len(timeline),
           timeline[i].by \in Posts, timeline[j].by = timeline[i].by
    PROVE  timeline[i].archived <=> timeline[j].archived
  BY RowFacts DEF TimelineInv, TimesFit

\* A step that only moves an edit.
LEMMA ChangeOnly ==
    ASSUME TimelineInv, NEW e \in Changes, NEW new \in ChangeRec, change' = [change EXCEPT ![e] = new],
           new.pc = "updating" => new.target \in Posts \cup Runs /\ new.text \in Texts /\ Asking(new.target),
           UNCHANGED <<timeline, stamp, writer, run, keys>>
    PROVE  TimelineInv'
<1>1. timeline \in Seq(Message)
  BY LineTypes DEF TimelineInv
<1>2. timeline' = timeline
  OBVIOUS
<1> QED
  BY <1>1, <1>2, ChangeMoves, RowFacts, PairedRows, RowsRewritten

LEMMA ReadToEditStep ==
    ASSUME TimelineInv, NEW e \in Changes, NEW by \in Posts \cup Runs, NEW text \in Texts,
           ReadToEdit(e, by, text)
    PROVE  TimelineInv'
<1> DEFINE new == IF timeline[AskedAt(by)].archived THEN ChangeOf("not_found", "none", "none")
                  ELSE ChangeOf("updating", by, text)
<1>1. change' = [change EXCEPT ![e] = new] /\ UNCHANGED <<timeline, stamp, writer, run, keys>>
  BY DEF ReadToEdit
<1>2. Asking(by)
  BY AskedAtAll DEF TimelineInv, RowsFit, ReadToEdit
<1>3. new \in ChangeRec
  BY ChangeIs DEF ChangePcs
<1>4. new.pc = "updating" => new.target \in Posts \cup Runs /\ new.text \in Texts /\ Asking(new.target)
  BY <1>2, ChangeIs DEF ChangePcs
<1> HIDE DEF new
<1> QED
  BY <1>1, <1>3, <1>4, ChangeOnly

LEMMA UpdateContentStep ==
    ASSUME TimelineInv, NEW e \in Changes, UpdateContent(e)
    PROVE  TimelineInv'
<1> DEFINE i == AskedAt(change[e].target)
           gone == ChangeOf("not_found", "none", "none")
           done == ChangeOf("done", "none", "none")
<1>1. /\ change[e].target \in Posts \cup Runs /\ change[e].text \in Texts
      /\ Asking(change[e].target)
  BY DEF TimelineInv, ReadersFit, UpdateContent
<1>2. i \in 1 .. Len(timeline) /\ timeline[i].role = "user"
  BY <1>1, AskedAtAll DEF TimelineInv, RowsFit
<1>3. gone \in ChangeRec /\ done \in ChangeRec /\ gone.pc # "updating" /\ done.pc # "updating"
  BY ChangeIs DEF ChangePcs
<1>4. \/ timeline' = timeline /\ change' = [change EXCEPT ![e] = gone]
      \/ /\ timeline' = [timeline EXCEPT ![i].text = change[e].text]
         /\ change' = [change EXCEPT ![e] = done]
  BY DEF UpdateContent
<1>5. UNCHANGED <<stamp, writer, run, keys>>
  BY DEF UpdateContent
<1> HIDE DEF i, gone, done
<1>6. CASE timeline' = timeline /\ change' = [change EXCEPT ![e] = gone]
  BY <1>3, <1>5, <1>6, ChangeOnly
<1>7. CASE /\ timeline' = [timeline EXCEPT ![i].text = change[e].text]
           /\ change' = [change EXCEPT ![e] = done]
  <2> DEFINE m == [timeline[i] EXCEPT !.text = change[e].text]
  <2>1. timeline[i] \in Message /\ timeline \in Seq(Message)
    BY <1>2, RowFacts, LineTypes DEF TimelineInv
  <2>2. /\ m \in Message /\ m.by = timeline[i].by /\ m.role = timeline[i].role
        /\ m.at = timeline[i].at /\ m.archived = timeline[i].archived /\ m.text = change[e].text
    BY <1>1, <2>1 DEF Message
  <2>3. timeline' = [timeline EXCEPT ![i] = m]
    BY <1>7
  <2> HIDE DEF m
  <2>4. /\ timeline' \in Seq(Message) /\ Len(timeline') = Len(timeline)
        /\ \A j \in 1 .. Len(timeline) : timeline'[j] = IF j = i THEN m ELSE timeline[j]
    BY <1>2, <2>1, <2>2, <2>3, ExceptSeq
  <2>5. \A j \in 1 .. Len(timeline) :
          /\ timeline'[j].by = timeline[j].by /\ timeline'[j].role = timeline[j].role
          /\ timeline'[j].at = timeline[j].at /\ timeline'[j].archived = timeline[j].archived
          /\ timeline[j].role = "user" => timeline'[j].text \in Texts
    BY <1>1, <2>2, <2>4, RowFacts
  <2>6. \A j \in 1 .. Len(timeline) :
          timeline[j].by \in Runs /\ timeline[j].role = "assistant" => ~timeline'[j].archived
    BY <2>5, RowFacts
  <2>7. Apart => \A k, j \in 1 .. Len(timeline) :
             timeline[k].by \in Posts /\ timeline[j].by = timeline[k].by
               => (timeline'[k].archived <=> timeline'[j].archived)
    BY <2>5, PairedRows
  <2> QED
    BY <1>3, <1>5, <1>7, <2>4, <2>5, <2>6, <2>7, ChangeMoves, RowsRewritten
<1> QED
  BY <1>4, <1>6, <1>7

\* The candidates of the scan after a question.
After(i) == {j \in i + 1 .. Len(timeline) :
               /\ ~timeline[j].archived
               /\ timeline[j].role = "user" \/ timeline[j].by \in Posts}

LEMMA ScanIs ==
    ASSUME TimelineTypeOK, NEW i \in 1 .. Len(timeline)
    PROVE  PairedReply(i) =
             {j \in After(i) : j = Min(After(i)) /\ timeline[j].role = "assistant"}
  BY DEF PairedReply, After

LEMMA ScanFacts ==
    ASSUME TimelineInv, NEW i \in 1 .. Len(timeline), NEW j \in PairedReply(i)
    PROVE  /\ j \in 1 .. Len(timeline) /\ i < j /\ j \in After(i)
           /\ timeline[j].role = "assistant" /\ timeline[j].by \in Posts /\ ~timeline[j].archived
           /\ \A k \in After(i) : j <= k
<1>1. Len(timeline) \in Nat
  BY LineLength DEF TimelineInv
<1>2. After(i) \in SUBSET Nat
  BY <1>1 DEF After
<1>3. j \in After(i) /\ j = Min(After(i)) /\ timeline[j].role = "assistant"
  BY ScanIs DEF TimelineInv
<1>4. \A k \in After(i) : j <= k
  BY <1>2, <1>3, LeastOf
<1> QED
  BY <1>1, <1>3, <1>4 DEF After

\* Where the two rows of a plain message are, and what lies between them.
LEMMA PartnerOf ==
    ASSUME TimelineInv, NEW i \in 1 .. Len(timeline), timeline[i].by \in Posts
    PROVE  \E j \in 1 .. Len(timeline) :
             /\ timeline[j].by = timeline[i].by /\ timeline[j].role # timeline[i].role
             /\ timeline[i].role = "user" => timeline[j].at = timeline[i].at + 1
             /\ timeline[i].role = "assistant" => timeline[i].at = timeline[j].at + 1
<1>1. timeline[i] \in Rows(timeline)
  BY RowFacts
<1>2. PICK y \in Rows(timeline) : y.by = timeline[i].by /\ y.role # timeline[i].role
  BY <1>1 DEF TimelineInv, RepliesFit
<1>3. PICK j \in 1 .. Len(timeline) : y = timeline[j]
  BY DEF Rows
<1>4. timeline[i].role = "user" => timeline[j].role = "assistant"
  BY <1>2, <1>3, RowFacts
<1>5. timeline[i].role = "assistant" => timeline[j].role = "user"
  BY <1>2, <1>3, RowFacts
<1> QED
  BY <1>1, <1>2, <1>3, <1>4, <1>5, RowFacts DEF TimelineInv, RepliesFit

LEMMA FarRows ==
    ASSUME TimelineInv, Apart, NEW i \in 1 .. Len(timeline), NEW j \in 1 .. Len(timeline),
           Stamped(timeline[i]), Stamped(timeline[j]), timeline[i].by # timeline[j].by
    PROVE  timeline[i].at + 2 <= timeline[j].at \/ timeline[j].at + 2 <= timeline[i].at
  BY RowFacts DEF TimelineInv, TimesFit, Far

LEMMA EarlierFirst ==
    ASSUME TimelineInv, NEW i \in 1 .. Len(timeline), NEW j \in 1 .. Len(timeline),
           timeline[i].at < timeline[j].at
    PROVE  i < j
<1>1. Len(timeline) \in Nat
  BY LineLength DEF TimelineInv
<1>2. timeline[i].at \in Nat /\ timeline[j].at \in Nat
  BY RowFacts
<1>3. ~(j < i)
  BY <1>2, LineTypes DEF TimelineInv, InOrder
<1>4. i # j
  BY <1>2
<1> QED
  BY <1>1, <1>3, <1>4

\* The reply that goes with the question of somebody else is never found.
LEMMA OnlyTheOwnReply ==
    ASSUME TimelineInv, Apart, NEW i \in 1 .. Len(timeline), timeline[i].role = "user",
           NEW j \in PairedReply(i)
    PROVE  timeline[j].by = timeline[i].by
<1> SUFFICES ASSUME timeline[j].by # timeline[i].by PROVE FALSE
  OBVIOUS
<1>1. /\ j \in 1 .. Len(timeline) /\ i < j
      /\ timeline[j].role = "assistant" /\ timeline[j].by \in Posts /\ ~timeline[j].archived
      /\ \A k \in After(i) : j <= k
  BY ScanFacts
<1>2. PICK u \in 1 .. Len(timeline) :
        /\ timeline[u].by = timeline[j].by /\ timeline[u].role # timeline[j].role
        /\ timeline[j].at = timeline[u].at + 1
  BY <1>1, PartnerOf
<1>3. timeline[u].role = "user" /\ ~timeline[u].archived
  BY <1>1, <1>2, RowFacts, PairedRows
<1>4. timeline[i].at \in Nat /\ timeline[j].at \in Nat /\ timeline[u].at \in Nat
  BY <1>1, RowFacts
<1>5. timeline[i].at <= timeline[j].at
  BY <1>1, LineTypes DEF TimelineInv, InOrder
<1>6. timeline[i].at + 2 <= timeline[u].at \/ timeline[u].at + 2 <= timeline[i].at
  BY <1>1, <1>2, <1>3, FarRows DEF Stamped
<1>7. timeline[i].at < timeline[u].at /\ timeline[u].at < timeline[j].at
  BY <1>2, <1>4, <1>5, <1>6
<1>8. i < u /\ u < j
  BY <1>1, <1>7, EarlierFirst
<1>9. u \in After(i)
  BY <1>3, <1>8 DEF After
<1> QED
  BY <1>1, <1>8, <1>9

\* The reply of a plain message is found.
LEMMA TheOwnReply ==
    ASSUME TimelineInv, Apart, NEW i \in 1 .. Len(timeline), timeline[i].role = "user",
           timeline[i].by \in Posts, ~timeline[i].archived, NEW r \in 1 .. Len(timeline),
           timeline[r].by = timeline[i].by, timeline[r].role = "assistant"
    PROVE  r \in PairedReply(i)
<1>1. timeline[r].at = timeline[i].at + 1
  BY RowFacts DEF TimelineInv, RepliesFit
<1>2. timeline[i].at \in Nat /\ timeline[r].at \in Nat
  BY RowFacts
<1>3. i < r
  BY <1>1, <1>2, EarlierFirst
<1>4. ~timeline[r].archived
  BY PairedRows
<1>5. Len(timeline) \in Nat
  BY LineLength DEF TimelineInv
<1>6. r \in After(i)
  BY <1>3, <1>4, <1>5 DEF After
<1>7. ASSUME NEW j \in After(i) PROVE r <= j
  <2> SUFFICES ASSUME j < r PROVE FALSE
    BY <1>5, <1>7 DEF After
  <2>1. j \in 1 .. Len(timeline) /\ i < j /\ (timeline[j].role = "user" \/ timeline[j].by \in Posts)
    BY <1>5, <1>7 DEF After
  <2>2. timeline[j].at \in Nat /\ timeline[i].at <= timeline[j].at /\ timeline[j].at <= timeline[r].at
    BY <2>1, RowFacts, LineTypes DEF TimelineInv, InOrder
  <2>3. timeline[j].by # timeline[i].by
    <3>1. OneOfEach(timeline) /\ timeline[j].role \in {"user", "assistant"}
      BY <2>1, RowFacts DEF TimelineInv, RowsFit
    <3> QED
      BY <1>5, <2>1, <3>1 DEF OneOfEach
  <2>4. CASE timeline[j].role = "user"
    <3>1. timeline[i].at + 2 <= timeline[j].at \/ timeline[j].at + 2 <= timeline[i].at
      BY <2>1, <2>3, <2>4, FarRows DEF Stamped
    <3> QED
      BY <1>1, <1>2, <2>2, <3>1
  <2>5. CASE timeline[j].role = "assistant"
    <3>1. PICK u \in 1 .. Len(timeline) :
            /\ timeline[u].by = timeline[j].by /\ timeline[u].role # timeline[j].role
            /\ timeline[j].at = timeline[u].at + 1
      BY <2>1, <2>5, PartnerOf
    <3>2. timeline[u].role = "user" /\ timeline[u].at \in Nat
      BY <2>5, <3>1, RowFacts
    <3>3. timeline[i].at + 2 <= timeline[u].at \/ timeline[u].at + 2 <= timeline[i].at
      BY <2>3, <3>1, <3>2, FarRows DEF Stamped
    <3> QED
      BY <1>1, <1>2, <2>2, <3>1, <3>2, <3>3
  <2> QED
    BY <2>1, <2>4, <2>5, RowFacts
<1>8. r = Min(After(i))
  <2>1. After(i) \in SUBSET Nat
    BY <1>5 DEF After
  <2>2. Min(After(i)) \in After(i) /\ Min(After(i)) <= r
    BY <1>6, <2>1, LeastOf
  <2> QED
    BY <1>6, <1>7, <2>1, <2>2
<1> QED
  BY <1>6, <1>8, ScanIs DEF TimelineInv

LEMMA ArchiveMessageStep ==
    ASSUME TimelineInv, NEW e \in Changes, NEW by \in Posts \cup Runs,
           ArchiveMessage(e, by)
    PROVE  TimelineInv'
<1> DEFINE i == AskedAt(by)
           gone == {i} \cup PairedReply(i)
           done == ChangeOf("done", "none", "none")
<1>1. i \in 1 .. Len(timeline) /\ timeline[i].role = "user" /\ timeline[i].by = by
  BY AskedAtAll DEF TimelineInv, RowsFit, ArchiveMessage
<1>2. done \in ChangeRec /\ done.pc # "updating"
  BY ChangeIs DEF ChangePcs
<1>3. /\ change' = [change EXCEPT ![e] = done]
      /\ timeline' = IF timeline[i].archived THEN timeline
                     ELSE [j \in 1 .. Len(timeline) |->
                             IF j \in gone THEN [timeline[j] EXCEPT !.archived = TRUE]
                             ELSE timeline[j]]
      /\ UNCHANGED <<stamp, writer, run, keys>>
  BY DEF ArchiveMessage
<1> HIDE DEF i, gone, done
<1>4. CASE timeline[i].archived
  BY <1>2, <1>3, <1>4, ChangeOnly
<1>5. CASE ~timeline[i].archived
  <2>1. timeline \in Seq(Message) /\ Len(timeline) \in Nat
    BY LineTypes DEF TimelineInv
  <2>2. ASSUME NEW j \in 1 .. Len(timeline)
        PROVE  LET m == [timeline[j] EXCEPT !.archived = TRUE]
               IN /\ m \in Message /\ m.by = timeline[j].by /\ m.role = timeline[j].role
                  /\ m.at = timeline[j].at /\ m.text = timeline[j].text /\ m.archived = TRUE
    BY <2>2, RowFacts DEF Message
  <2>3. timeline' = [j \in 1 .. Len(timeline) |->
                       IF j \in gone THEN [timeline[j] EXCEPT !.archived = TRUE] ELSE timeline[j]]
    BY <1>3, <1>5
  <2>4. \A j \in 1 .. Len(timeline) :
          timeline'[j] = IF j \in gone THEN [timeline[j] EXCEPT !.archived = TRUE] ELSE timeline[j]
    BY <2>3
  <2>5. timeline' \in [1 .. Len(timeline) -> Message]
    BY <2>2, <2>3, RowFacts
  <2>6. timeline' \in Seq(Message) /\ Len(timeline') = Len(timeline)
    BY <2>1, <2>5
  <2>7. \A j \in 1 .. Len(timeline) :
          /\ timeline'[j].by = timeline[j].by /\ timeline'[j].role = timeline[j].role
          /\ timeline'[j].at = timeline[j].at /\ timeline'[j].text = timeline[j].text
          /\ timeline'[j].archived = (timeline[j].archived \/ j \in gone)
    <3> SUFFICES ASSUME NEW j \in 1 .. Len(timeline)
                 PROVE  /\ timeline'[j].by = timeline[j].by /\ timeline'[j].role = timeline[j].role
                        /\ timeline'[j].at = timeline[j].at /\ timeline'[j].text = timeline[j].text
                        /\ timeline'[j].archived = (timeline[j].archived \/ j \in gone)
      OBVIOUS
    <3>1. CASE j \in gone
      <4>1. timeline'[j] = [timeline[j] EXCEPT !.archived = TRUE]
        BY <2>4, <3>1
      <4> QED
        BY <2>2, <3>1, <4>1
    <3>2. CASE j \notin gone
      <4>1. timeline'[j] = timeline[j]
        BY <2>4, <3>2
      <4>2. timeline[j].archived \in BOOLEAN
        BY <2>2, RowFacts DEF Message
      <4> QED
        BY <3>2, <4>1, <4>2
    <3> QED
      BY <3>1, <3>2
  <2>8. \A j \in gone : j = i \/ (timeline[j].by \in Posts /\ timeline[j].role = "assistant")
    BY <1>1, ScanFacts DEF gone
  <2>9. \A j \in 1 .. Len(timeline) :
          timeline[j].by \in Runs /\ timeline[j].role = "assistant" => ~timeline'[j].archived
    BY <1>1, <2>7, <2>8, RowFacts, SendersAssumption
  <2>10. \A j \in 1 .. Len(timeline) : timeline[j].role = "user" => timeline'[j].text \in Texts
    BY <2>7, RowFacts
  <2>11. ASSUME Apart, NEW k \in 1 .. Len(timeline), NEW j \in 1 .. Len(timeline),
                timeline[k].by \in Posts, timeline[j].by = timeline[k].by, k \in gone
         PROVE  j \in gone
    <3>1. timeline[k].by = timeline[i].by
      BY <1>1, <2>11, OnlyTheOwnReply DEF gone
    <3>2. CASE timeline[j].role = "user"
      BY <1>1, <2>11, <3>1, <3>2 DEF gone, TimelineInv, RowsFit, OneOfEach
    <3>3. CASE timeline[j].role = "assistant"
      BY <1>1, <1>5, <2>11, <3>1, <3>3, TheOwnReply DEF gone
    <3> QED
      BY <3>2, <3>3, RowFacts
  <2>12. Apart => \A k, j \in 1 .. Len(timeline) :
             timeline[k].by \in Posts /\ timeline[j].by = timeline[k].by
               => (timeline'[k].archived <=> timeline'[j].archived)
    BY <2>7, <2>11, PairedRows
  <2> QED
    BY <1>2, <1>3, <2>6, <2>7, <2>9, <2>10, <2>12, ChangeMoves, RowsRewritten
<1> QED
  BY <1>4, <1>5

-----------------------------------------------------------------------------
(* Theorems *)

LEMMA TimelineInvInit == TimelineInit => TimelineInv
<1> SUFFICES ASSUME TimelineInit PROVE TimelineInv
  OBVIOUS
<1>1. /\ timeline = <<>> /\ stamp = 0 /\ writer = [p \in Posts |-> 0] /\ keys = {}
      /\ run = [r \in Runs |-> RunOf("absent", FALSE, "none", "none")]
      /\ change = [e \in Changes |-> ChangeOf("idle", "none", "none")]
  BY DEF TimelineInit
<1>2. timeline \in Seq(Message) /\ Len(timeline) = 0 /\ Rows(timeline) = {}
  BY <1>1 DEF Rows
<1>3. /\ run \in [Runs -> RunRec]
      /\ \A r \in Runs : run[r].pc = "absent" /\ run[r].got = "none"
  BY <1>1 DEF RunOf, RunRec, RunPcs
<1>4. change \in [Changes -> ChangeRec] /\ \A e \in Changes : change[e].pc = "idle"
  <2>1. ChangeOf("idle", "none", "none") \in ChangeRec /\ ChangeOf("idle", "none", "none").pc = "idle"
    BY ChangeIs DEF ChangePcs
  <2> QED
    BY <1>1, <2>1
<1>5. TimelineTypeOK
  <2>1. InOrder(timeline)
    BY <1>2 DEF InOrder
  <2>2. stamp \in Nat /\ writer \in [Posts -> Nat] /\ keys \subseteq KeyRec
    BY <1>1
  <2> QED
    BY <1>2, <1>3, <1>4, <2>1, <2>2, LineTypes
<1>6. RowsFit /\ RepliesFit
  BY <1>2 DEF RowsFit, RepliesFit, OneOfEach
<1>7. ReadersFit /\ QuestionsFit
  BY <1>1, <1>3, <1>4 DEF ReadersFit, QuestionsFit
<1>8. TimesFit
  BY <1>1, <1>2 DEF TimesFit
<1> QED
  BY <1>5, <1>6, <1>7, <1>8 DEF TimelineInv

LEMMA TimelineInvStep ==
    ASSUME TimelineInv, [TimelineNext]_timelineVars
    PROVE  TimelineInv'
<1>1. CASE TimelineNext
  BY <1>1, SendPlainStep, CommitPlainStep, CreateRunStep, ClaimStep, AnswerStep, EndSilentlyStep,
     RerunStep, ArchiveMessageStep, ReadToEditStep, UpdateContentStep DEF TimelineNext
<1>2. CASE UNCHANGED timelineVars
  BY <1>2, LineTypes DEF timelineVars, TimelineInv, RowsFit, RepliesFit, ReadersFit, QuestionsFit,
     TimesFit, Asking, TimelineTypeOK
<1> QED
  BY <1>1, <1>2

LEMMA TimelineInvHolds == TimelineSpec => []TimelineInv
<1>1. TimelineInv /\ [TimelineNext]_timelineVars => TimelineInv'
  BY TimelineInvStep
<1> QED
  BY <1>1, TimelineInvInit, PTL DEF TimelineSpec

\* Whatever is sent, answered, edited and deleted around them, a deletion takes a
\* plain message and its own reply together and never the answer of a Run, as long
\* as no two writers take their times within the same two microseconds.
THEOREM DeletionsAlwaysTakePairs ==
    ASSUME Apart
    PROVE  TimelineSpec => []DeletionsTakePairs
<1>1. TimelineInv => DeletionsTakePairs
  <2> SUFFICES ASSUME TimelineInv PROVE PairsGoTogether /\ AnswersStay
    BY DEF TimelineInv, DeletionsTakePairs
  <2>1. ASSUME NEW p \in Posts PROVE Archived(p, "user") <=> Archived(p, "assistant")
    <3>1. ASSUME NEW i \in 1 .. Len(timeline), timeline[i].by = p, timeline[i].archived
          PROVE  \E j \in 1 .. Len(timeline) :
                   timeline[j].by = p /\ timeline[j].role # timeline[i].role /\ timeline[j].archived
      <4>1. PICK j \in 1 .. Len(timeline) :
              timeline[j].by = timeline[i].by /\ timeline[j].role # timeline[i].role
        BY <3>1, PartnerOf
      <4> QED
        BY <3>1, <4>1, PairedRows
    <3>2. Archived(p, "user") => Archived(p, "assistant")
      BY <3>1, RowFacts DEF Archived
    <3>3. Archived(p, "assistant") => Archived(p, "user")
      BY <3>1, RowFacts DEF Archived
    <3> QED
      BY <3>2, <3>3
  <2>2. \A r \in Runs : ~Archived(r, "assistant")
    BY RowFacts DEF Archived
  <2> QED
    BY <2>1, <2>2 DEF PairsGoTogether, AnswersStay
<1> QED
  BY <1>1, TimelineInvHolds, PTL

\* Of the answer no Run loses, nothing is asked of the clocks.
THEOREM AnswersAlwaysStay == TimelineSpec => []AnswersStay
<1>1. TimelineInv => AnswersStay
  BY RowFacts DEF Archived, AnswersStay
<1> QED
  BY <1>1, TimelineInvHolds, PTL

\* However its message is edited before the claim or a rerun, a main_agent Run and
\* its reruns execute what was asked, and the request of a rerun can be sent again
\* until the message of a diagnosis Run is edited.
THEOREM RunsAlwaysRepeatTheirQuestion == TimelineSpec => []RunsRepeatTheirQuestion
<1>1. TimelineInv => RunsRepeatTheirQuestion
  <2> SUFFICES ASSUME TimelineInv
               PROVE  SnapshotsAreExecuted /\ RerunsCanBeReplayed
    BY DEF RunsRepeatTheirQuestion
  <2>1. SnapshotsAreExecuted
    BY DEF TimelineInv, QuestionsFit, SnapshotsAreExecuted
  <2>2. ASSUME NEW k \in keys
        PROVE  \/ ReplayOf(k.of, k.key) = "replayed"
               \/ ~run[k.of].frozen /\ TextOf(k.of) # run[k.run].asked
    <3>1. (CHOOSE l \in keys : l.key = k.key) = k
      BY DEF TimelineInv, QuestionsFit
    <3>2. /\ k.text = run[k.run].asked
          /\ run[k.of].frozen => k.text = run[k.of].asked
      BY DEF TimelineInv, QuestionsFit
    <3>3. CASE run[k.of].frozen
      BY <3>1, <3>2, <3>3 DEF ReplayOf, InputOf
    <3>4. CASE ~run[k.of].frozen
      BY <3>1, <3>2, <3>4 DEF ReplayOf, InputOf
    <3> QED
      BY <3>3, <3>4
  <2> QED
    BY <2>1, <2>2 DEF RerunsCanBeReplayed
<1> QED
  BY <1>1, TimelineInvHolds, PTL

\* What a step leaves of the question of a sender.
Keeps(i) == \E x \in Rows(timeline') :
                x.by = timeline[i].by /\ x.role = timeline[i].role /\ x.text = timeline[i].text

LEMMA CommitPlainKeeps ==
    ASSUME TimelineInv, NEW p \in Posts, NEW text \in Texts, CommitPlain(p, text)
    PROVE  Rows(timeline) \subseteq Rows(timeline')
<1>1. timeline \in Seq(Message) /\ writer[p] \in Nat /\ writer[p] + 1 \in Nat
  BY LineTypes DEF TimelineInv
<1> DEFINE u == Said(p, "user", writer[p], text)
           v == Said(p, "assistant", writer[p] + 1, "reply")
<1>2. p \in Posts \cup Runs /\ text \in Texts \cup {"reply"}
  OBVIOUS
<1>3. u \in Message
  BY <1>1, <1>2, SaidIs
<1>4. v \in Message
  BY <1>1, <1>2, SaidIs
<1>5. PICK line \in AddTo(timeline, u) : timeline' \in AddTo(line, v)
  BY DEF CommitPlain
<1> HIDE DEF u, v
<1>6. line \in Seq(Message)
  BY <1>1, <1>3, AddedAt
<1>7. Rows(timeline) \subseteq Rows(line)
  BY <1>1, <1>3, RowsKept
<1>8. Rows(line) \subseteq Rows(timeline')
  BY <1>4, <1>5, <1>6, RowsKept
<1> QED
  BY <1>7, <1>8

LEMMA AcceptRunKeeps ==
    ASSUME TimelineInv, NEW r \in Runs, NEW frozen \in BOOLEAN, NEW text \in Texts,
           AcceptRun(r, frozen, text)
    PROVE  Rows(timeline) \subseteq Rows(timeline')
<1>1. timeline \in Seq(Message) /\ stamp' \in Nat
  BY TimeTaken, LineTypes DEF TimelineInv, AcceptRun
<1>2. r \in Posts \cup Runs /\ text \in Texts \cup {"reply"}
  OBVIOUS
<1>3. Said(r, "user", stamp', text) \in Message
  BY <1>1, <1>2, SaidIs
<1> QED
  BY <1>1, <1>3, RowsKept DEF AcceptRun

LEMMA AnswerKeeps ==
    ASSUME TimelineInv, NEW r \in Runs, Answer(r)
    PROVE  Rows(timeline) \subseteq Rows(timeline')
<1>1. timeline \in Seq(Message) /\ stamp' \in Nat
  BY TimeTaken, LineTypes DEF TimelineInv, Answer
<1>2. r \in Posts \cup Runs /\ "reply" \in Texts \cup {"reply"}
  OBVIOUS
<1>3. Said(r, "assistant", stamp', "reply") \in Message
  BY <1>1, <1>2, SaidIs
<1> QED
  BY <1>1, <1>3, RowsKept DEF Answer

LEMMA UpdateContentKeeps ==
    ASSUME TimelineInv, NEW e \in Changes, UpdateContent(e),
           NEW i \in 1 .. Len(timeline), timeline[i].archived
    PROVE  Keeps(i)
<1>1. timeline \in Seq(Message)
  BY LineTypes DEF TimelineInv
<1> DEFINE t == AskedAt(change[e].target)
<1>2. \/ timeline' = timeline
      \/ timeline' = [timeline EXCEPT ![t].text = change[e].text] /\ ~timeline[t].archived
  BY DEF UpdateContent
<1>3. timeline'[i] = timeline[i] /\ Len(timeline') = Len(timeline)
  BY <1>1, <1>2
<1> QED
  BY <1>3 DEF Keeps, Rows

LEMMA ArchiveMessageKeeps ==
    ASSUME TimelineInv, NEW e \in Changes, NEW by \in Posts \cup Runs, ArchiveMessage(e, by),
           NEW i \in 1 .. Len(timeline)
    PROVE  Keeps(i)
<1>1. timeline[i] \in Message /\ Len(timeline) \in Nat
  BY RowFacts, LineLength DEF TimelineInv
<1>2. \/ timeline' = timeline
      \/ \E gone : timeline' = [j \in 1 .. Len(timeline) |->
                                  IF j \in gone THEN [timeline[j] EXCEPT !.archived = TRUE]
                                  ELSE timeline[j]]
  BY DEF ArchiveMessage
<1>3. CASE timeline' = timeline
  BY <1>3 DEF Keeps, Rows
<1>4. ASSUME NEW gone, timeline' = [j \in 1 .. Len(timeline) |->
                                  IF j \in gone THEN [timeline[j] EXCEPT !.archived = TRUE]
                                  ELSE timeline[j]]
      PROVE  Keeps(i)
  <2>1. Len(timeline') = Len(timeline)
    BY <1>1, <1>4
  <2>2. timeline'[i] = IF i \in gone THEN [timeline[i] EXCEPT !.archived = TRUE] ELSE timeline[i]
    BY <1>4
  <2>3. /\ timeline'[i].by = timeline[i].by /\ timeline'[i].role = timeline[i].role
        /\ timeline'[i].text = timeline[i].text
    BY <1>1, <2>2 DEF Message
  <2> QED
    BY <2>1, <2>3 DEF Keeps, Rows
<1> QED
  BY <1>2, <1>3, <1>4

\* The words a message was deleted with stay, whatever an edit that read it before
\* still wants to write.
THEOREM DeletedWordsAlwaysStay == TimelineSpec => DeletedWordsStay
<1>1. TimelineInv =>
        \A x \in Rows(timeline) : x.role = "user" => TextOf(x.by) = x.text
  BY AskedRow DEF TimelineInv, RowsFit
<1>2. (TimelineInv =>
         \A x \in Rows(timeline) : x.role = "user" => TextOf(x.by) = x.text)'
  BY <1>1, PTL
<1>3. TimelineInv /\ TimelineInv' /\ [TimelineNext]_timelineVars =>
        [\A by \in Posts \cup Runs :
           Archived(by, "user") => TextOf(by)' = TextOf(by)]_timelineVars
  <2> SUFFICES ASSUME TimelineInv, TimelineInv', TimelineNext, NEW by \in Posts \cup Runs,
                      Archived(by, "user")
               PROVE  TextOf(by)' = TextOf(by)
    OBVIOUS
  <2>1. PICK i \in 1 .. Len(timeline) :
          timeline[i].by = by /\ timeline[i].role = "user" /\ timeline[i].archived
    BY DEF Archived
  <2>2. timeline[i] \in Rows(timeline) /\ AskedAt(by) = i /\ TextOf(by) = timeline[i].text
    BY <2>1, RowFacts, AskedIs DEF TimelineInv, RowsFit, TextOf
  <2>3. Keeps(i)
    <3>1. CASE Rows(timeline) \subseteq Rows(timeline')
      BY <2>1, <2>2, <3>1 DEF Keeps
    <3>2. CASE \E p \in Posts, text \in Texts : CommitPlain(p, text)
      BY <3>1, <3>2, CommitPlainKeeps
    <3>3. CASE \E r \in Runs, frozen \in BOOLEAN, text \in Texts : AcceptRun(r, frozen, text)
      BY <3>1, <3>3, AcceptRunKeeps
    <3>4. CASE \E r \in Runs : Answer(r)
      BY <3>1, <3>4, AnswerKeeps
    <3>5. CASE \E e \in Changes : UpdateContent(e)
      BY <2>1, <3>5, UpdateContentKeeps
    <3>6. CASE \E e \in Changes, o \in Posts \cup Runs : ArchiveMessage(e, o)
      BY <2>1, <3>6, ArchiveMessageKeeps
    <3>7. CASE UNCHANGED timeline
      BY <2>1, <2>2, <3>7 DEF Keeps
    <3>8. ASSUME NEW r \in Runs, NEW of \in Runs, NEW key \in Keys, Rerun(r, of, key)
          PROVE  \E frozen \in BOOLEAN, text \in Texts : AcceptRun(r, frozen, text)
      <4>1. run[of] \in RunRec /\ InputOf(of) \in Texts
        BY <3>8, InputIs, LineTypes DEF TimelineInv, Rerun
      <4> QED
        BY <3>8, <4>1 DEF Rerun, RunRec
    <3> QED
      BY <3>2, <3>3, <3>4, <3>5, <3>6, <3>7, <3>8 DEF TimelineNext, SendPlain, CreateRun,
         Claim, EndSilently, ReadToEdit
  <2> QED
    <3>1. PICK x \in Rows(timeline') : x.by = by /\ x.role = "user" /\ x.text = timeline[i].text
      BY <2>1, <2>3 DEF Keeps
    <3>2. TextOf(by)' = x.text
      BY <1>2, <3>1
    <3> QED
      BY <2>2, <3>1, <3>2
<1> QED
  BY <1>3, TimelineInvHolds, PTL DEF TimelineSpec, DeletedWordsStay

-----------------------------------------------------------------------------
(* The selection of the context *)

Codes(S) == UNION {{i} \X (1 .. said[i].size) : i \in S}

LEMMA LengthAdds ==
    ASSUME NEW S, NEW i, i \notin S, IsFiniteSet(Codes(S)), said[i].size \in Nat
    PROVE  /\ IsFiniteSet(Codes(S \cup {i}))
           /\ Length(S) \in Nat /\ Length(S \cup {i}) = Length(S) + said[i].size
<1> DEFINE new == {i} \X (1 .. said[i].size)
<1>1. Codes(S \cup {i}) = Codes(S) \cup new
  BY DEF Codes
<1>2. Codes(S) \cap new = {}
  BY DEF Codes
<1>3. IsFiniteSet(new) /\ Cardinality(new) = said[i].size
  <2>1. IsFiniteSet({i}) /\ Cardinality({i}) = 1
    BY FS_Singleton
  <2>2. IsFiniteSet(1 .. said[i].size) /\ Cardinality(1 .. said[i].size) = said[i].size
    <3> DEFINE m == said[i].size
    <3>1. 1 \in Int /\ m \in Int /\ (IF 1 > m THEN 0 ELSE m - 1 + 1) = m
      OBVIOUS
    <3> HIDE DEF m
    <3>2. IsFiniteSet(1 .. m) /\ Cardinality(1 .. m) = IF 1 > m THEN 0 ELSE m - 1 + 1
      BY <3>1, FS_Interval
    <3> QED BY <3>1, <3>2 DEF m
  <2> DEFINE one == {i}
             codes == 1 .. said[i].size
  <2>3. IsFiniteSet(one \X codes) /\ Cardinality(one \X codes) = 1 * said[i].size
    <3>1. IsFiniteSet(one) /\ Cardinality(one) = 1
      BY <2>1
    <3>2. IsFiniteSet(codes) /\ Cardinality(codes) = said[i].size
      BY <2>2
    <3> HIDE DEF one, codes
    <3> QED BY <3>1, <3>2, FS_Product
  <2> QED BY <2>3
<1>4. /\ IsFiniteSet(Codes(S) \cup new)
      /\ Cardinality(Codes(S) \cup new) = Cardinality(Codes(S)) + Cardinality(new) - 0
  BY <1>2, <1>3, FS_Union, FS_EmptySet
<1>5. Cardinality(Codes(S)) \in Nat
  BY FS_CardinalityType
<1> QED BY <1>1, <1>3, <1>4, <1>5 DEF Length, Codes

\* The newest k of n messages have been looked at.
LeftOut(at, i) ==
    \/ Length({j \in at : j > i}) + said[i].size > MaxLength
    \/ Cardinality({j \in at : j > i}) = MaxMessages

Gathered(C, n, t, k) ==
    LET at == ToSet(t.at)
    IN /\ t.at \in Seq(C) /\ \A i \in at : i > n - k
       /\ \A a, b \in DOMAIN t.at : a < b => t.at[a] < t.at[b]
       /\ IsFiniteSet(at) /\ Cardinality(at) = Len(t.at) /\ Len(t.at) <= MaxMessages
       /\ IsFiniteSet(Codes(at)) /\ t.length = Length(at) /\ t.length <= MaxLength
       /\ \A i \in C : i > n - k /\ i \notin at => LeftOut(at, i)

Sized(n) == n \in Nat /\ \A i \in 1 .. n : said[i].size \in Nat

LEMMA NothingGathered ==
    ASSUME NEW n, Sized(n), NEW C \in SUBSET (1 .. n)
    PROVE  Gathered(C, n, NothingTaken, 0)
<1>1. ToSet(<<>>) = {} /\ <<>> \in Seq(C) /\ Len(<<>>) = 0
  BY DEF ToSet
<1>2. IsFiniteSet({}) /\ Cardinality({}) = 0
  BY FS_EmptySet
<1>3. Codes({}) = {} /\ Length({}) = 0
  BY <1>2 DEF Codes, Length
<1>4. \A i \in C : ~(i > n - 0)
  BY DEF Sized
<1>5. NothingTaken.at = <<>> /\ NothingTaken.length = 0 /\ DOMAIN <<>> = {}
  BY DEF NothingTaken
<1>6. \A a, b \in DOMAIN <<>> : <<>>[a] < <<>>[b]
  BY <1>5
<1>7. 0 <= MaxMessages /\ 0 <= MaxLength
  BY ContextAssumption
<1> QED BY <1>1, <1>2, <1>3, <1>4, <1>5, <1>6, <1>7 DEF Gathered

LEMMA OneIsTaken ==
    ASSUME NEW n, Sized(n), NEW C \in SUBSET (1 .. n), NEW t, NEW k \in 0 .. n, k < n,
           Gathered(C, n, t, k), n - k \in C, HasRoom(t, n - k)
    PROVE  Gathered(C, n, Taking(t, n - k), k + 1)
<1> DEFINE i == n - k
           at == ToSet(t.at)
           s == <<i>> \o t.at
<1>1. /\ t.at \in Seq(C) /\ \A j \in at : j > i
      /\ \A a, b \in DOMAIN t.at : a < b => t.at[a] < t.at[b]
      /\ IsFiniteSet(at) /\ Cardinality(at) = Len(t.at) /\ Len(t.at) <= MaxMessages
      /\ IsFiniteSet(Codes(at)) /\ t.length = Length(at) /\ t.length <= MaxLength
      /\ \A j \in C : j > i /\ j \notin at => LeftOut(at, j)
  BY DEF Gathered
<1>2. /\ n \in Nat /\ i \in 1 .. n /\ i \in Nat /\ said[i].size \in Nat /\ Len(t.at) \in Nat
      /\ C \subseteq Nat /\ n - (k + 1) = i - 1
  BY <1>1 DEF Sized
<1>3. /\ s \in Seq(C) /\ Len(s) = Len(t.at) + 1 /\ s[1] = i
      /\ \A a \in 2 .. Len(t.at) + 1 : s[a] = t.at[a - 1]
  <2>1. <<i>> \in Seq(C) /\ Len(<<i>>) = 1
    OBVIOUS
  <2> QED BY <1>1, <1>2, <2>1, ConcatProperties
<1>4. /\ \A a \in 1 .. Len(t.at) : t.at[a] \in at /\ t.at[a] \in C
      /\ \A x \in at : \E a \in 1 .. Len(t.at) : x = t.at[a]
  <2>1. DOMAIN t.at = 1 .. Len(t.at) /\ \A a \in 1 .. Len(t.at) : t.at[a] \in C
    BY <1>1
  <2> QED BY <2>1 DEF ToSet
<1>5. ToSet(s) = at \cup {i}
  <2>1. \A x \in ToSet(s) : x \in at \cup {i}
    <3> SUFFICES ASSUME NEW a \in 1 .. Len(t.at) + 1 PROVE s[a] \in at \cup {i}
      BY <1>3 DEF ToSet
    <3>1. CASE a = 1
      BY <1>3, <3>1
    <3>2. CASE a # 1
      <4>1. a \in 2 .. Len(t.at) + 1 /\ a - 1 \in 1 .. Len(t.at)
        BY <1>2, <3>2
      <4> QED BY <1>3, <1>4, <4>1
    <3> QED BY <3>1, <3>2
  <2>2. \A x \in at : x \in ToSet(s)
    <3> SUFFICES ASSUME NEW a \in 1 .. Len(t.at) PROVE t.at[a] \in ToSet(s)
      BY <1>4
    <3>1. a + 1 \in 2 .. Len(t.at) + 1 /\ (a + 1) - 1 = a /\ a + 1 \in DOMAIN s
      BY <1>2, <1>3
    <3>2. s[a + 1] = t.at[a]
      BY <1>3, <3>1
    <3> QED BY <3>1, <3>2 DEF ToSet
  <2>3. i \in ToSet(s)
    <3>1. 1 \in DOMAIN s
      BY <1>2, <1>3
    <3> QED BY <1>3, <3>1 DEF ToSet
  <2> QED BY <2>1, <2>2, <2>3
<1>6. i \notin at /\ at \subseteq Nat
  <2>1. at \subseteq C
    BY <1>4
  <2>2. ~(i > i)
    BY <1>2
  <2> HIDE DEF at, i
  <2> QED BY <1>1, <1>2, <2>1, <2>2
<1>7. \A a, b \in DOMAIN s : a < b => s[a] < s[b]
  <2> SUFFICES ASSUME NEW a \in 1 .. Len(t.at) + 1, NEW b \in 1 .. Len(t.at) + 1, a < b
               PROVE  s[a] < s[b]
    BY <1>3
  <2>1. b \in 2 .. Len(t.at) + 1 /\ b - 1 \in 1 .. Len(t.at) /\ s[b] = t.at[b - 1]
    BY <1>2, <1>3
  <2>2. CASE a = 1
    BY <1>1, <1>2, <1>3, <1>4, <1>6, <2>1, <2>2
  <2>3. CASE a # 1
    <3>1. /\ a \in 2 .. Len(t.at) + 1 /\ a - 1 \in 1 .. Len(t.at) /\ s[a] = t.at[a - 1]
          /\ a - 1 < b - 1 /\ DOMAIN t.at = 1 .. Len(t.at)
      BY <1>1, <1>2, <1>3, <2>3
    <3> QED BY <1>1, <2>1, <3>1
  <2> QED BY <2>2, <2>3
<1>8. /\ IsFiniteSet(at \cup {i}) /\ Cardinality(at \cup {i}) = Len(s)
      /\ IsFiniteSet(Codes(at \cup {i})) /\ Length(at \cup {i}) = t.length + said[i].size
  <2>1. IsFiniteSet(at \cup {i}) /\ Cardinality(at \cup {i}) = Len(t.at) + 1
    <3> HIDE DEF at, i
    <3> QED BY <1>1, <1>6, FS_AddElement
  <2>2. IsFiniteSet(Codes(at \cup {i})) /\ Length(at \cup {i}) = Length(at) + said[i].size
    <3> HIDE DEF at, i
    <3> QED BY <1>1, <1>2, <1>6, LengthAdds
  <2> QED BY <1>1, <1>3, <2>1, <2>2
<1>9. Len(t.at) < MaxMessages /\ t.length + said[i].size <= MaxLength
  BY DEF HasRoom
<1>10. ASSUME NEW j \in C, j > i - 1, j \notin at \cup {i}
       PROVE  LeftOut(at \cup {i}, j)
  <2>1. j > i
    BY <1>2, <1>10
  <2>2. {x \in at \cup {i} : x > j} = {x \in at : x > j}
    BY <1>2, <2>1
  <2> QED BY <1>1, <1>10, <2>1, <2>2 DEF LeftOut
<1>11. \A j \in at \cup {i} : j > i - 1
  BY <1>1, <1>2, <1>6
<1>12. Taking(t, i).at = s /\ Taking(t, i).length = t.length + said[i].size
  BY DEF Taking
<1> HIDE DEF s, at, i
<1>13. /\ Taking(t, i).at \in Seq(C) /\ \A j \in ToSet(Taking(t, i).at) : j > n - (k + 1)
       /\ \A a, b \in DOMAIN s : a < b => s[a] < s[b]
       /\ Len(s) <= MaxMessages
  BY <1>1, <1>2, <1>3, <1>5, <1>7, <1>9, <1>11, <1>12, ContextAssumption
<1> QED BY <1>2, <1>3, <1>5, <1>7, <1>8, <1>9, <1>10, <1>12, <1>13 DEF Gathered, i

LEMMA OneIsLeft ==
    ASSUME NEW n, Sized(n), NEW C \in SUBSET (1 .. n), NEW t, NEW k \in 0 .. n, k < n,
           Gathered(C, n, t, k), ~(n - k \in C /\ HasRoom(t, n - k))
    PROVE  Gathered(C, n, t, k + 1)
<1> DEFINE i == n - k
           at == ToSet(t.at)
<1>1. /\ t.at \in Seq(C) /\ \A j \in at : j > i
      /\ \A a, b \in DOMAIN t.at : a < b => t.at[a] < t.at[b]
      /\ IsFiniteSet(at) /\ Cardinality(at) = Len(t.at) /\ Len(t.at) <= MaxMessages
      /\ IsFiniteSet(Codes(at)) /\ t.length = Length(at) /\ t.length <= MaxLength
      /\ \A j \in C : j > i /\ j \notin at => LeftOut(at, j)
  BY DEF Gathered
<1>2. /\ n \in Nat /\ i \in 1 .. n /\ i \in Nat /\ said[i].size \in Nat /\ Len(t.at) \in Nat
      /\ C \subseteq Nat /\ n - (k + 1) = i - 1 /\ at \subseteq Nat
  <2>1. DOMAIN t.at = 1 .. Len(t.at) /\ \A a \in 1 .. Len(t.at) : t.at[a] \in C
    BY <1>1
  <2>2. at \subseteq C
    BY <2>1 DEF ToSet
  <2>3. /\ n \in Nat /\ i \in 1 .. n /\ i \in Nat /\ said[i].size \in Nat
        /\ C \subseteq Nat /\ n - (k + 1) = i - 1
    BY DEF Sized
  <2>4. Len(t.at) \in Nat
    BY <1>1
  <2> HIDE DEF at, i
  <2> QED BY <2>2, <2>3, <2>4
<1>3. Length(at) \in Nat
  BY <1>1, FS_CardinalityType DEF Length, Codes
<1>4. i \in C => LeftOut(at, i)
  <2>1. {j \in at : j > i} = at
    BY <1>1
  <2>2. i \in C => ~(Len(t.at) < MaxMessages) \/ ~(t.length + said[i].size <= MaxLength)
    BY DEF HasRoom
  <2> HIDE DEF at, i
  <2>3. i \in C => Length(at) + said[i].size > MaxLength \/ Cardinality(at) = MaxMessages
    BY <1>1, <1>2, <1>3, <2>2, ContextAssumption
  <2> QED BY <2>1, <2>3 DEF LeftOut
<1>5. \A j \in Nat : j > i - 1 <=> j = i \/ j > i
  <2> HIDE DEF i
  <2> QED BY <1>2
<1>6. (\A j \in C : j > i - 1 => j = i \/ j > i) /\ (\A j \in at : j > i - 1)
  <2> HIDE DEF at, i
  <2> QED BY <1>1, <1>2, <1>5
<1> HIDE DEF i
<1> QED BY <1>1, <1>2, <1>4, <1>6 DEF Gathered

-----------------------------------------------------------------------------
(* The selection goes on to its end *)

Looked(C, n, t, k) ==
    LET i == n + 1 - k IN IF i \in C /\ HasRoom(t, i) THEN Taking(t, i) ELSE t

LEMMA OneLookedAt ==
    ASSUME NEW n, Sized(n), NEW C \in SUBSET (1 .. n), NEW t, NEW k \in 1 .. n,
           Gathered(C, n, t, k - 1)
    PROVE  Gathered(C, n, Looked(C, n, t, k), k)
<1>1. n \in Nat /\ k - 1 \in 0 .. n /\ k - 1 < n /\ (k - 1) + 1 = k /\ n - (k - 1) = n + 1 - k
  BY DEF Sized
<1> DEFINE l == k - 1
<1>2. l \in 0 .. n /\ l < n /\ l + 1 = k /\ n - l = n + 1 - k /\ Gathered(C, n, t, l)
  BY <1>1
<1> HIDE DEF l
<1>3. CASE n - l \in C /\ HasRoom(t, n - l)
  BY <1>2, <1>3, OneIsTaken DEF Looked
<1>4. CASE ~(n - l \in C /\ HasRoom(t, n - l))
  BY <1>2, <1>4, OneIsLeft DEF Looked
<1> QED BY <1>3, <1>4

TakesTo(f, C, n, m) ==
    f = [k \in 0 .. m |-> IF k = 0 THEN NothingTaken ELSE Looked(C, n, f[k - 1], k)]

LEMMA TakesParts ==
    ASSUME NEW f, NEW C, NEW n, NEW m \in Nat, TakesTo(f, C, n, m)
    PROVE  /\ DOMAIN f = 0 .. m /\ f[0] = NothingTaken
           /\ \A k \in 1 .. m : f[k] = Looked(C, n, f[k - 1], k)
<1> DEFINE g == [k \in 0 .. m |-> IF k = 0 THEN NothingTaken ELSE Looked(C, n, f[k - 1], k)]
<1>1. f = g
  BY DEF TakesTo
<1>2. /\ DOMAIN g = 0 .. m /\ g[0] = NothingTaken
      /\ \A k \in 1 .. m : g[k] = Looked(C, n, f[k - 1], k)
  OBVIOUS
<1> HIDE DEF g
<1> QED BY <1>1, <1>2

LEMMA TakingGoesOn ==
    ASSUME NEW C, NEW n \in Nat
    PROVE  \E f : TakesTo(f, C, n, n)
<1> DEFINE short == {m \in Nat : ~\E f : TakesTo(f, C, n, m)}
<1>1. short = {}
  <2> SUFFICES ASSUME short # {} PROVE FALSE
    OBVIOUS
  <2> DEFINE m == Min(short)
  <2>1. m \in short /\ \A y \in short : m <= y
    BY LeastOf
  <2> HIDE DEF m
  <2>2. m \in Nat
    BY <2>1
  <2>3. CASE m = 0
    <3> DEFINE f == [k \in 0 .. 0 |-> NothingTaken]
    <3>1. TakesTo(f, C, n, 0)
      BY DEF TakesTo
    <3> QED BY <2>1, <2>3, <3>1
  <2>4. CASE m # 0
    <3>1. m - 1 \in Nat /\ ~(m <= m - 1)
      BY <2>2, <2>4
    <3>2. PICK g : TakesTo(g, C, n, m - 1)
      BY <2>1, <3>1
    <3> DEFINE f == [k \in 0 .. m |-> IF k = m THEN Looked(C, n, g[m - 1], m) ELSE g[k]]
    <3>3. /\ g[0] = NothingTaken
          /\ \A k \in 1 .. m - 1 : g[k] = Looked(C, n, g[k - 1], k)
      BY <3>1, <3>2, TakesParts
    <3>4. ASSUME NEW k \in 0 .. m
          PROVE  f[k] = IF k = 0 THEN NothingTaken ELSE Looked(C, n, f[k - 1], k)
      <4>1. CASE k = 0
        BY <2>2, <2>4, <3>3, <4>1
      <4>2. CASE k # 0 /\ k # m
        <5>1. k \in 1 .. m - 1 /\ k - 1 \in 0 .. m /\ k - 1 # m
          BY <2>2, <4>2
        <5>2. f[k] = g[k] /\ f[k - 1] = g[k - 1]
          BY <4>2, <5>1
        <5> HIDE DEF f
        <5> QED BY <3>3, <4>2, <5>1, <5>2
      <4>3. CASE k # 0 /\ k = m
        <5>1. m - 1 \in 0 .. m /\ m - 1 # m
          BY <2>2, <2>4
        <5>2. f[k] = Looked(C, n, g[m - 1], m) /\ f[m - 1] = g[m - 1]
          BY <4>3, <5>1
        <5> HIDE DEF f
        <5> QED BY <4>3, <5>2
      <4> QED BY <4>1, <4>2, <4>3
    <3>5. TakesTo(f, C, n, m)
      <4>1. f = [k \in 0 .. m |-> f[k]]
        OBVIOUS
      <4> HIDE DEF f
      <4> QED BY <3>4, <4>1 DEF TakesTo
    <3> QED BY <2>1, <3>5
  <2> QED BY <2>3, <2>4
<1> QED BY <1>1

LEMMA SelectionEnds ==
    ASSUME Sized(Len(said)), Candidates \in SUBSET (1 .. Len(said))
    PROVE  \E t : Selected = t.at /\ Gathered(Candidates, Len(said), t, Len(said))
<1> DEFINE n == Len(said)
           C == Candidates
           taken == CHOOSE f : TakesTo(f, C, n, n)
<1>1. n \in Nat
  BY DEF Sized
<1>2. TakesTo(taken, C, n, n)
  BY <1>1, TakingGoesOn
<1>3. Selected = taken[n].at
  BY DEF Selected, TakesTo, Looked
<1> HIDE DEF taken, C, n
<1>4. /\ taken[0] = NothingTaken
      /\ \A k \in 1 .. n : taken[k] = Looked(C, n, taken[k - 1], k)
  BY <1>1, <1>2, TakesParts
<1> DEFINE bad == {k \in 0 .. n : ~Gathered(C, n, taken[k], k)}
<1>5. Sized(n) /\ C \in SUBSET (1 .. n)
  BY DEF n, C
<1>6. bad = {}
  <2> SUFFICES ASSUME bad # {} PROVE FALSE
    OBVIOUS
  <2> DEFINE k == Min(bad)
  <2>1. k \in bad /\ \A y \in bad : k <= y
    BY <1>1, LeastOf
  <2> HIDE DEF k
  <2>2. k \in 0 .. n /\ ~Gathered(C, n, taken[k], k)
    BY <2>1
  <2>3. k # 0
    BY <1>4, <1>5, <2>2, NothingGathered
  <2>4. k \in 1 .. n /\ k - 1 \in 0 .. n /\ ~(k <= k - 1)
    BY <1>1, <2>2, <2>3
  <2>5. Gathered(C, n, taken[k - 1], k - 1)
    BY <2>1, <2>4
  <2>6. Gathered(C, n, Looked(C, n, taken[k - 1], k), k)
    BY <1>5, <2>4, <2>5, OneLookedAt
  <2> QED BY <1>4, <2>2, <2>4, <2>6
<1>7. Gathered(C, n, taken[n], n)
  BY <1>1, <1>6
<1> QED BY <1>3, <1>7 DEF n, C

-----------------------------------------------------------------------------
(* Runs and messages *)

Word == {"plain", "edited", "secret"}
Speaker == {"user", "assistant"}
Spoke == [of : Nat \ {0}, role : Speaker, size : Nat, words : Word, archived : BOOLEAN]
Item == [of : Nat \ {0}, role : Speaker, size : Nat, words : Word]
Talk == [kind : {"main_agent", "diagnosis"}, pc : {"running", "succeeded", "ended"},
         delivery : {"none", "answer", "comparison", "report", "unreadable"},
         context : Seq(Item), source : Nat]

\* c is of a Run before r of the conversation.
Recalled(T, S, r, c) ==
    /\ c.of \in 1 .. r - 1 /\ c.words # "secret" /\ T[c.of].kind = "main_agent"
    /\ \E j \in DOMAIN S : S[j].of = c.of /\ S[j].role = c.role /\ S[j].size = c.size

Informed(T, S, r) ==
    /\ \A i \in DOMAIN T[r].context : Recalled(T, S, r, T[r].context[i])
    /\ T[r].source \in 0 .. r - 1
    /\ T[r].source # 0 => T[r].context = T[T[r].source].context

\* Each Run has one question, and one answer once it has ended.
Spoken(T, S) ==
    /\ \A i \in DOMAIN S : S[i].of \in DOMAIN T
    /\ \A i \in DOMAIN S : S[i].role = "assistant" => T[S[i].of].pc # "running"
    /\ \A i, j \in DOMAIN S : S[i].of = S[j].of /\ S[i].role = S[j].role => i = j

Recorded(T, S) ==
    /\ T \in Seq(Talk) /\ S \in Seq(Spoke) /\ Spoken(T, S)
    /\ \A r \in DOMAIN T : Informed(T, S, r)

ContextInv == Recorded(talks, said)

\* What stays: how a Run was asked, and who said how much.
Stays(T, S, U, V) ==
    /\ Len(T) <= Len(U) /\ Len(S) <= Len(V)
    /\ \A r \in 1 .. Len(T) : U[r].kind = T[r].kind /\ U[r].context = T[r].context
                                /\ U[r].source = T[r].source
    /\ \A i \in 1 .. Len(S) : V[i].of = S[i].of /\ V[i].role = S[i].role /\ V[i].size = S[i].size

LEMMA RecalledStays ==
    ASSUME NEW T, NEW S, NEW U \in Seq(Talk), NEW V \in Seq(Spoke), Recorded(T, S),
           Stays(T, S, U, V), NEW r \in 1 .. Len(T) + 1, NEW c, Recalled(T, S, r, c)
    PROVE  Recalled(U, V, r, c)
<1>1. Len(T) \in Nat /\ Len(S) \in Nat /\ Len(U) \in Nat /\ Len(V) \in Nat /\ DOMAIN S = 1 .. Len(S)
      /\ DOMAIN V = 1 .. Len(V)
  BY DEF Recorded
<1>2. c.of \in 1 .. Len(T)
  BY <1>1 DEF Recalled
<1>3. PICK j \in 1 .. Len(S) : S[j].of = c.of /\ S[j].role = c.role /\ S[j].size = c.size
  BY <1>1 DEF Recalled
<1>4. j \in DOMAIN V /\ V[j].of = c.of /\ V[j].role = c.role /\ V[j].size = c.size
  BY <1>1, <1>3 DEF Stays
<1>5. U[c.of].kind = T[c.of].kind
  BY <1>2 DEF Stays
<1> QED BY <1>4, <1>5 DEF Recalled

LEMMA InformedStays ==
    ASSUME NEW T, NEW S, NEW U \in Seq(Talk), NEW V \in Seq(Spoke), Recorded(T, S),
           Stays(T, S, U, V), NEW r \in DOMAIN T
    PROVE  Informed(U, V, r)
<1>1. Len(T) \in Nat /\ DOMAIN T = 1 .. Len(T) /\ r \in 1 .. Len(T) /\ r \in 1 .. Len(T) + 1
      /\ Informed(T, S, r)
  BY DEF Recorded
<1>2. U[r].context = T[r].context /\ U[r].source = T[r].source
  BY <1>1 DEF Stays
<1>3. T[r].source # 0 => U[T[r].source].context = T[T[r].source].context
  <2>1. T[r].source # 0 => T[r].source \in 1 .. Len(T)
    BY <1>1 DEF Informed
  <2> QED BY <2>1 DEF Stays
<1>4. \A i \in DOMAIN T[r].context : Recalled(U, V, r, T[r].context[i])
  BY <1>1, RecalledStays DEF Informed
<1> QED BY <1>1, <1>2, <1>3, <1>4 DEF Informed

-----------------------------------------------------------------------------
(* The selection is what it should be *)

LEMMA SaidParts ==
    ASSUME ContextInv
    PROVE  /\ Len(said) \in Nat /\ DOMAIN said = 1 .. Len(said) /\ Sized(Len(said))
           /\ Len(talks) \in Nat /\ DOMAIN talks = 1 .. Len(talks)
           /\ \A i \in DOMAIN said : said[i] \in Spoke /\ said[i].of \in DOMAIN talks
           /\ \A r \in DOMAIN talks : talks[r] \in Talk
<1>1. /\ said \in Seq(Spoke) /\ talks \in Seq(Talk)
      /\ \A i \in DOMAIN said : said[i].of \in DOMAIN talks
  BY DEF ContextInv, Recorded, Spoken
<1>2. /\ Len(said) \in Nat /\ DOMAIN said = 1 .. Len(said) /\ Len(talks) \in Nat
      /\ DOMAIN talks = 1 .. Len(talks)
      /\ \A i \in DOMAIN said : said[i] \in Spoke
      /\ \A r \in DOMAIN talks : talks[r] \in Talk
  BY <1>1
<1>3. \A i \in DOMAIN said : said[i].size \in Nat
  BY <1>2 DEF Spoke
<1> QED BY <1>1, <1>2, <1>3 DEF Sized

LEMMA AtIs ==
    ASSUME ContextInv, NEW of, NEW role
    PROVE  /\ At(of, role) # 0 => /\ At(of, role) \in DOMAIN said
                                  /\ said[At(of, role)].of = of /\ said[At(of, role)].role = role
                                  /\ ~said[At(of, role)].archived
           /\ \A i \in DOMAIN said : said[i].of = of /\ said[i].role = role /\ ~said[i].archived
                                       => At(of, role) = i
<1> DEFINE at == {i \in DOMAIN said : said[i].of = of /\ said[i].role = role /\ ~said[i].archived}
<1>1. at \in SUBSET Nat
  BY SaidParts
<1>2. at # {} => Min(at) \in at
  BY <1>1, LeastOf
<1>3. At(of, role) = IF at = {} THEN 0 ELSE Min(at)
  BY DEF At
<1>4. At(of, role) # 0 => At(of, role) \in at
  BY <1>2, <1>3
<1>5. ASSUME NEW i \in at PROVE At(of, role) = i
  <2>1. Min(at) \in at /\ At(of, role) = Min(at)
    BY <1>2, <1>3, <1>5
  <2> QED BY <1>5, <2>1 DEF ContextInv, Recorded, Spoken
<1> QED BY <1>4, <1>5

LEMMA CandidatesAre ==
    ASSUME ContextInv
    PROVE  Candidates \in SUBSET (1 .. Len(said)) /\ Candidates \subseteq Eligible
<1>1. Candidates \subseteq DOMAIN said
  BY DEF Candidates
<1>2. ASSUME NEW i \in Candidates PROVE i \in Eligible
  <2>1. i \in DOMAIN said /\ Usable(said[i].of) /\ i = At(said[i].of, said[i].role)
    BY DEF Candidates
  <2>2. i # 0
    BY <2>1, SaidParts
  <2>3. ~said[i].archived
    BY <2>1, <2>2, AtIs
  <2> QED BY <2>1, <2>3 DEF Eligible, Usable
<1> QED BY <1>1, <1>2, SaidParts

\* A message that is eligible and no candidate is too old.
LEMMA OthersAreOld ==
    ASSUME ContextInv, NEW i \in Eligible, i \notin Candidates
    PROVE  Cardinality(NewerTalks(i)) >= MaxMessages \/ Len(talks) - said[i].of >= MaxRecent
<1> DEFINE r == said[i].of
           window == {x \in DOMAIN talks : x + MaxRecent > Len(talks)}
           newer == {s \in window : s > r /\ Usable(s)}
<1>1. i \in DOMAIN said /\ Usable(r) /\ ~said[i].archived
  BY DEF Eligible
<1>2. r \in DOMAIN talks /\ Len(talks) \in Nat /\ DOMAIN talks = 1 .. Len(talks) /\ r \in Nat
  BY <1>1, SaidParts
<1>3. i = At(r, said[i].role)
  BY <1>1, AtIs
<1>4. ~(r \in window /\ 2 * Cardinality(newer) < 2 * MaxMessages)
  BY <1>1, <1>3 DEF Candidates
<1>5. r \notin window => Len(talks) - r >= MaxRecent
  BY <1>2, ContextAssumption
<1>6. ~(2 * Cardinality(newer) < 2 * MaxMessages) => Cardinality(NewerTalks(i)) >= MaxMessages
  <2>1. IsFiniteSet(NewerTalks(i))
    <3>1. IsFiniteSet(1 .. Len(talks))
      BY <1>2, FS_Interval
    <3>2. NewerTalks(i) \in SUBSET (1 .. Len(talks))
      BY <1>2 DEF NewerTalks
    <3> QED BY <3>1, <3>2, FS_Subset
  <2>2. newer \in SUBSET NewerTalks(i)
    BY DEF NewerTalks
  <2> HIDE DEF newer
  <2>3. Cardinality(newer) <= Cardinality(NewerTalks(i)) /\ IsFiniteSet(newer)
    BY <2>1, <2>2, FS_Subset
  <2>4. Cardinality(newer) \in Nat /\ Cardinality(NewerTalks(i)) \in Nat
    BY <2>1, <2>3, FS_CardinalityType
  <2> QED BY <2>3, <2>4, ContextAssumption
<1> QED BY <1>4, <1>5, <1>6

LEMMA SelectionParts ==
    ASSUME ContextInv
    PROVE  /\ Selected \in Seq(Eligible)
           /\ \A k, l \in DOMAIN Selected : k < l => Selected[k] < Selected[l]
           /\ Cardinality(ToSet(Selected)) <= MaxMessages /\ Length(ToSet(Selected)) <= MaxLength
           /\ \A i \in Eligible \ ToSet(Selected) :
                \/ LeftOut(ToSet(Selected), i)
                \/ Cardinality(NewerTalks(i)) >= MaxMessages
                \/ Len(talks) - said[i].of >= MaxRecent
<1> DEFINE n == Len(said)
<1>1. PICK t : Selected = t.at /\ Gathered(Candidates, n, t, n)
  BY SaidParts, CandidatesAre, SelectionEnds
<1>2. /\ t.at \in Seq(Candidates)
      /\ \A a, b \in DOMAIN t.at : a < b => t.at[a] < t.at[b]
      /\ Cardinality(ToSet(t.at)) = Len(t.at) /\ Len(t.at) <= MaxMessages
      /\ Length(ToSet(t.at)) <= MaxLength
      /\ \A i \in Candidates : i > n - n /\ i \notin ToSet(t.at) => LeftOut(ToSet(t.at), i)
  BY <1>1 DEF Gathered
<1>3. t.at \in Seq(Eligible)
  BY <1>2, CandidatesAre
<1>4. \A i \in Candidates : i > n - n
  BY SaidParts, CandidatesAre
<1>5. \A i \in Candidates : i \notin ToSet(t.at) => LeftOut(ToSet(t.at), i)
  BY <1>2, <1>4
<1> QED BY <1>1, <1>2, <1>3, <1>5, OthersAreOld

LEMMA RecentNow == ContextInv => ContextsAreRecent
<1> SUFFICES ASSUME ContextInv PROVE ContextsAreRecent
  OBVIOUS
<1>1. ToSet(Selected) \subseteq Eligible
  BY SelectionParts DEF ToSet
<1>2. ASSUME NEW r \in DOMAIN talks, NEW i \in DOMAIN talks[r].context
      PROVE  /\ talks[r].context[i].of < r /\ talks[r].context[i].words # "secret"
             /\ talks[talks[r].context[i].of].kind = "main_agent"
             /\ \E j \in DOMAIN said :
                  /\ said[j].of = talks[r].context[i].of /\ said[j].role = talks[r].context[i].role
                  /\ said[j].size = talks[r].context[i].size
  <2>1. Recalled(talks, said, r, talks[r].context[i]) /\ r \in Nat
    BY <1>2, SaidParts DEF ContextInv, Recorded, Informed
  <2> QED BY <2>1 DEF Recalled
<1>3. \A r \in DOMAIN talks : talks[r].source # 0
                                => talks[r].context = talks[talks[r].source].context
  BY DEF ContextInv, Recorded, Informed
<1> QED BY <1>1, <1>2, <1>3, SelectionParts DEF ContextsAreRecent, LeftOut

-----------------------------------------------------------------------------
(* The steps *)

\* A Run is accepted with its question.
LEMMA AcceptedKeeps ==
    ASSUME ContextInv, NEW talk \in Talk, Accepted(talk), talk.source \in 0 .. Len(talks),
           \A i \in DOMAIN talk.context : Recalled(talks, said, Len(talks) + 1, talk.context[i]),
           talk.source # 0 => talk.context = talks[talk.source].context
    PROVE  ContextInv'
<1> DEFINE n == Len(talks)
           m == Len(said)
           question == Saying(n + 1, "user", 1)
<1>0. n = Len(talks) /\ m = Len(said)
  OBVIOUS
<1>1. /\ n \in Nat /\ DOMAIN talks = 1 .. n /\ m \in Nat /\ DOMAIN said = 1 .. m
      /\ talks \in Seq(Talk) /\ said \in Seq(Spoke) /\ Spoken(talks, said)
      /\ Recorded(talks, said)
  BY SaidParts DEF ContextInv, Recorded
<1>2. talks' = Append(talks, talk) /\ said' = Append(said, question)
  BY DEF Accepted
<1>3. question \in Spoke /\ question.of = n + 1 /\ question.role = "user"
  BY <1>1 DEF Saying, Spoke, Speaker, Word
<1>4. /\ talks' \in Seq(Talk) /\ DOMAIN talks' = 1 .. n + 1 /\ Len(talks') = n + 1
      /\ talks'[n + 1] = talk /\ \A r \in 1 .. n : talks'[r] = talks[r]
  BY <1>1, <1>2, AppendProperties
<1>5. /\ said' \in Seq(Spoke) /\ DOMAIN said' = 1 .. m + 1 /\ Len(said') = m + 1
      /\ said'[m + 1] = question /\ \A i \in 1 .. m : said'[i] = said[i]
  BY <1>1, <1>2, <1>3, AppendProperties
<1> HIDE DEF question, n, m
<1>6. \A i \in 1 .. m : said[i].of \in 1 .. n /\ said[i].of # n + 1
  BY <1>1 DEF Spoken
<1>7. Spoken(talks', said')
  <2>1. \A i \in 1 .. m + 1 : i \in 1 .. m \/ i = m + 1
    BY <1>1
  <2>2. \A i \in DOMAIN said' : said'[i].of \in DOMAIN talks'
    BY <1>1, <1>3, <1>4, <1>5, <1>6, <2>1
  <2>3. ASSUME NEW i \in DOMAIN said', said'[i].role = "assistant"
        PROVE  talks'[said'[i].of].pc # "running"
    <3>1. i \in 1 .. m /\ said'[i] = said[i]
      BY <1>3, <1>5, <2>1, <2>3
    <3> QED BY <1>1, <1>4, <1>6, <2>3, <3>1 DEF Spoken
  <2>4. ASSUME NEW i \in DOMAIN said', NEW j \in DOMAIN said',
               said'[i].of = said'[j].of, said'[i].role = said'[j].role
        PROVE  i = j
    <3>1. (i \in 1 .. m \/ i = m + 1) /\ (j \in 1 .. m \/ j = m + 1)
      BY <1>5, <2>1
    <3>2. CASE i \in 1 .. m /\ j \in 1 .. m
      BY <1>1, <1>5, <2>4, <3>2 DEF Spoken
    <3>3. CASE i = m + 1 \/ j = m + 1
      BY <1>3, <1>5, <1>6, <2>4, <3>1, <3>3
    <3> QED BY <3>1, <3>2, <3>3
  <2> QED BY <2>2, <2>3, <2>4 DEF Spoken
<1>8. Stays(talks, said, talks', said')
  <2>1. n <= n + 1 /\ m <= m + 1
    BY <1>1
  <2>2. /\ \A r \in 1 .. n : /\ talks'[r].kind = talks[r].kind
                             /\ talks'[r].context = talks[r].context
                             /\ talks'[r].source = talks[r].source
        /\ \A i \in 1 .. m : /\ said'[i].of = said[i].of /\ said'[i].role = said[i].role
                             /\ said'[i].size = said[i].size
    BY <1>4, <1>5
  <2> QED BY <1>0, <1>4, <1>5, <2>1, <2>2 DEF Stays
<1>9. \A r \in 1 .. n : Informed(talks', said', r)
  BY <1>1, <1>4, <1>5, <1>8, InformedStays
<1>10. Informed(talks', said', n + 1)
  <2>1. n + 1 \in 1 .. Len(talks) + 1
    BY <1>1 DEF n
  <2>2. \A i \in DOMAIN talk.context : Recalled(talks', said', n + 1, talk.context[i])
    BY <1>1, <1>4, <1>5, <1>8, <2>1, RecalledStays DEF n
  <2>3. talk.source \in 0 .. (n + 1) - 1
    BY <1>1 DEF n
  <2>4. talk.source # 0 => talk.context = talks'[talk.source].context
    <3>1. talk.source # 0 => talk.source \in 1 .. n
      BY <1>1 DEF n
    <3> QED BY <1>4, <3>1
  <2> QED BY <1>4, <2>2, <2>3, <2>4 DEF Informed
<1>11. \A r \in 1 .. n + 1 : r \in 1 .. n \/ r = n + 1
  BY <1>1
<1> QED BY <1>4, <1>5, <1>7, <1>9, <1>10, <1>11 DEF ContextInv, Recorded

LEMMA TalkIs ==
    ASSUME NEW kind \in {"main_agent", "diagnosis"}, NEW context \in Seq(Item), NEW source \in Nat
    PROVE  /\ TalkOf(kind, context, source) \in Talk
           /\ TalkOf(kind, context, source).context = context
           /\ TalkOf(kind, context, source).source = source
  BY DEF TalkOf, Talk

LEMMA AskMainKeeps == ContextInv /\ AskMain => ContextInv'
<1> SUFFICES ASSUME ContextInv, AskMain PROVE ContextInv'
  OBVIOUS
<1> DEFINE order == Selected
           n == Len(talks)
<1>1. /\ order \in Seq(Eligible) /\ Len(order) \in Nat /\ DOMAIN order = 1 .. Len(order)
      /\ \A k \in 1 .. Len(order) : order[k] \in Eligible
  BY SelectionParts
<1>2. /\ Context = [k \in DOMAIN order |-> [of |-> said[order[k]].of, role |-> said[order[k]].role,
                                size |-> said[order[k]].size, words |-> said[order[k]].words]]
      /\ \A k \in DOMAIN Context : Context[k].words # "secret"
      /\ Accepted(TalkOf("main_agent", Context, 0))
  BY DEF AskMain, Context
<1> HIDE DEF order
<1>3. ASSUME NEW k \in 1 .. Len(order)
      PROVE  /\ Context[k] \in Item /\ Recalled(talks, said, n + 1, Context[k])
  <2> DEFINE i == order[k]
             c == Context[k]
  <2>1. c = [of |-> said[i].of, role |-> said[i].role, size |-> said[i].size,
             words |-> said[i].words] /\ c.words # "secret"
    BY <1>1, <1>2
  <2>2. i \in DOMAIN said /\ Usable(said[i].of)
    BY <1>1 DEF Eligible
  <2>3. said[i] \in Spoke /\ said[i].of \in 1 .. n /\ n \in Nat
    BY <2>2, SaidParts
  <2> HIDE DEF i, c
  <2>4. c \in Item
    BY <2>1, <2>3 DEF Spoke, Item
  <2>5. c.of \in 1 .. (n + 1) - 1 /\ talks[c.of].kind = "main_agent"
    BY <2>1, <2>2, <2>3 DEF Usable
  <2> QED BY <2>1, <2>2, <2>4, <2>5 DEF Recalled, c
<1>4. Context \in Seq(Item) /\ DOMAIN Context = 1 .. Len(order)
  <2>1. DOMAIN Context = 1 .. Len(order)
    BY <1>1, <1>2
  <2>2. Context = [k \in 1 .. Len(order) |-> Context[k]]
    BY <1>1, <1>2
  <2>3. Context \in [1 .. Len(order) -> Item]
    BY <1>3, <2>2
  <2> QED BY <1>1, <2>1, <2>3
<1>5. n \in Nat /\ 0 \in 0 .. n
  BY SaidParts
<1> DEFINE talk == TalkOf("main_agent", Context, 0)
<1>6. talk \in Talk /\ talk.context = Context /\ talk.source = 0
  BY <1>4, TalkIs
<1> HIDE DEF talk
<1>7. Accepted(talk)
  BY <1>2 DEF talk
<1> QED BY <1>3, <1>4, <1>5, <1>6, <1>7, AcceptedKeeps

LEMMA AskDiagnosisKeeps == ContextInv /\ AskDiagnosis => ContextInv'
<1> SUFFICES ASSUME ContextInv, AskDiagnosis PROVE ContextInv'
  OBVIOUS
<1> DEFINE talk == TalkOf("diagnosis", <<>>, 0)
<1>1. <<>> \in Seq(Item) /\ DOMAIN <<>> = {}
  OBVIOUS
<1>2. talk \in Talk /\ talk.context = <<>> /\ talk.source = 0
  BY <1>1, TalkIs
<1>3. Accepted(talk)
  BY DEF AskDiagnosis
<1>4. 0 \in 0 .. Len(talks)
  BY SaidParts
<1> HIDE DEF talk
<1> QED BY <1>1, <1>2, <1>3, <1>4, AcceptedKeeps

LEMMA AskedAgainKeeps ==
    ASSUME ContextInv, NEW r \in DOMAIN talks, AskedAgain(r)
    PROVE  ContextInv'
<1> DEFINE talk == TalkOf(talks[r].kind, talks[r].context, r)
           n == Len(talks)
<1>1. n \in Nat /\ r \in 1 .. n /\ r \in Nat /\ talks[r] \in Talk
  BY SaidParts
<1>2. talk \in Talk /\ talk.context = talks[r].context /\ talk.source = r
  <2>1. talks[r].kind \in {"main_agent", "diagnosis"} /\ talks[r].context \in Seq(Item)
    BY <1>1 DEF Talk
  <2> QED BY <1>1, <2>1, TalkIs
<1>3. Accepted(talk)
  BY DEF AskedAgain
<1>4. \A i \in DOMAIN talks[r].context : Recalled(talks, said, n + 1, talks[r].context[i])
  <2>1. \A i \in DOMAIN talks[r].context : Recalled(talks, said, r, talks[r].context[i])
    BY DEF ContextInv, Recorded, Informed
  <2>2. \A x : x \in 1 .. r - 1 => x \in 1 .. (n + 1) - 1
    BY <1>1
  <2> QED BY <2>1, <2>2 DEF Recalled
<1> HIDE DEF talk
<1>5. r \in 0 .. n
  BY <1>1
<1> QED BY <1>2, <1>3, <1>4, <1>5, AcceptedKeeps

\* A Run that changes otherwise than in what it was asked.
TalkMoves(T, U, r) ==
    /\ U \in Seq(Talk) /\ Len(U) = Len(T)
    /\ \A x \in 1 .. Len(T) : x # r => U[x] = T[x]
    /\ U[r].kind = T[r].kind /\ U[r].context = T[r].context /\ U[r].source = T[r].source
    /\ T[r].pc # "running" => U[r].pc # "running"

LEMMA MovedStays ==
    ASSUME ContextInv, NEW U, NEW r \in DOMAIN talks, TalkMoves(talks, U, r),
           NEW V \in Seq(Spoke), Len(said) <= Len(V), Spoken(U, V),
           \A i \in 1 .. Len(said) : /\ V[i].of = said[i].of /\ V[i].role = said[i].role
                                     /\ V[i].size = said[i].size
    PROVE  Recorded(U, V)
<1>1. Len(talks) \in Nat /\ DOMAIN talks = 1 .. Len(talks) /\ U \in Seq(Talk) /\ Len(U) = Len(talks)
      /\ DOMAIN U = DOMAIN talks /\ Recorded(talks, said)
  BY SaidParts DEF TalkMoves, ContextInv
<1>2. Stays(talks, said, U, V)
  <2>1. \A x \in 1 .. Len(talks) : U[x].kind = talks[x].kind /\ U[x].context = talks[x].context
                                     /\ U[x].source = talks[x].source
    BY DEF TalkMoves
  <2> QED BY <1>1, <2>1 DEF Stays
<1>3. \A x \in DOMAIN U : Informed(U, V, x)
  BY <1>1, <1>2, InformedStays
<1> QED BY <1>1, <1>3 DEF Recorded

LEMMA TalkMoved ==
    ASSUME ContextInv, NEW r \in DOMAIN talks, NEW pc \in {"running", "succeeded", "ended"},
           NEW delivery \in {"none", "answer", "comparison", "report", "unreadable"},
           talks[r].pc # "running" => pc # "running",
           talks' = [talks EXCEPT ![r].pc = pc, ![r].delivery = delivery]
    PROVE  /\ TalkMoves(talks, talks', r) /\ talks'[r].pc = pc
           /\ \A x \in DOMAIN talks : talks[x].pc # "running" => talks'[x].pc # "running"
<1>1. talks \in Seq(Talk) /\ talks[r] \in Talk /\ Len(talks) \in Nat /\ DOMAIN talks = 1 .. Len(talks)
  BY SaidParts DEF ContextInv, Recorded
<1> DEFINE moved == [talks[r] EXCEPT !.pc = pc, !.delivery = delivery]
<1>2. /\ moved \in Talk /\ moved.kind = talks[r].kind /\ moved.context = talks[r].context
      /\ moved.source = talks[r].source /\ moved.pc = pc
  BY <1>1 DEF Talk
<1>3. talks' = [talks EXCEPT ![r] = moved]
  OBVIOUS
<1> HIDE DEF moved
<1>4. /\ talks' \in Seq(Talk) /\ Len(talks') = Len(talks) /\ talks'[r] = moved
      /\ \A x \in 1 .. Len(talks) : x # r => talks'[x] = talks[x]
  <2>1. r \in 1 .. Len(talks)
    BY <1>1
  <2>2. talks' \in Seq(Talk) /\ Len(talks') = Len(talks)
    <3>1. /\ [talks EXCEPT ![r] = moved] \in Seq(Talk)
          /\ Len([talks EXCEPT ![r] = moved]) = Len(talks)
      BY <1>1, <1>2, <2>1, ExceptSeq
    <3> QED BY <1>3, <3>1
  <2>3. talks'[r] = moved /\ \A x \in 1 .. Len(talks) : x # r => talks'[x] = talks[x]
    BY <1>1, <1>3, <2>1
  <2> QED BY <2>2, <2>3
<1>5. \A x \in DOMAIN talks : talks[x].pc # "running" => talks'[x].pc # "running"
  BY <1>1, <1>2, <1>4
<1> QED BY <1>1, <1>2, <1>4, <1>5 DEF TalkMoves

LEMMA SucceedsKeeps ==
    ASSUME ContextInv, NEW r \in DOMAIN talks,
           NEW delivery \in {"answer", "comparison", "report"}, NEW size \in AnswerSizes,
           Succeeds(r, delivery, size)
    PROVE  ContextInv'
<1> DEFINE m == Len(said)
           answer == Saying(r, "assistant", size)
<1>1. /\ talks[r].pc = "running" /\ said' = Append(said, answer)
      /\ talks' = [talks EXCEPT ![r].pc = "succeeded", ![r].delivery = delivery]
  BY DEF Succeeds
<1>2. /\ TalkMoves(talks, talks', r) /\ talks'[r].pc = "succeeded"
      /\ \A x \in DOMAIN talks : talks[x].pc # "running" => talks'[x].pc # "running"
  <2>1. /\ "succeeded" \in {"running", "succeeded", "ended"}
        /\ delivery \in {"none", "answer", "comparison", "report", "unreadable"}
        /\ (talks[r].pc # "running" => "succeeded" # "running")
    OBVIOUS
  <2> QED BY <1>1, <2>1, TalkMoved
<1>3. /\ m \in Nat /\ DOMAIN said = 1 .. m /\ said \in Seq(Spoke) /\ Spoken(talks, said)
      /\ Len(talks) \in Nat /\ DOMAIN talks = 1 .. Len(talks) /\ r \in Nat \ {0}
  BY SaidParts DEF ContextInv, Recorded
<1>4. answer \in Spoke /\ answer.of = r /\ answer.role = "assistant"
  BY <1>3, ContextAssumption DEF Saying, Spoke, Speaker, Word
<1> HIDE DEF answer, m
<1>5. /\ said' \in Seq(Spoke) /\ DOMAIN said' = 1 .. m + 1 /\ Len(said') = m + 1
      /\ said'[m + 1] = answer /\ \A i \in 1 .. m : said'[i] = said[i]
  BY <1>1, <1>3, <1>4, AppendProperties DEF m
<1>6. \A i \in 1 .. m + 1 : i \in 1 .. m \/ i = m + 1
  BY <1>3
<1>7. DOMAIN talks' = DOMAIN talks
  BY <1>2, <1>3 DEF TalkMoves
<1>8. \A i \in 1 .. m : ~(said[i].of = r /\ said[i].role = "assistant")
  BY <1>1, <1>3 DEF Spoken
<1>9. Spoken(talks', said')
  <2>1. \A i \in DOMAIN said' : said'[i].of \in DOMAIN talks'
    BY <1>3, <1>4, <1>5, <1>6, <1>7 DEF Spoken
  <2>2. ASSUME NEW i \in DOMAIN said', said'[i].role = "assistant"
        PROVE  talks'[said'[i].of].pc # "running"
    <3>1. CASE i = m + 1
      BY <1>2, <1>4, <1>5, <3>1
    <3>2. CASE i \in 1 .. m
      BY <1>2, <1>3, <1>5, <2>2, <3>2 DEF Spoken
    <3> QED BY <1>5, <1>6, <3>1, <3>2
  <2>3. ASSUME NEW i \in DOMAIN said', NEW j \in DOMAIN said',
               said'[i].of = said'[j].of, said'[i].role = said'[j].role
        PROVE  i = j
    <3>1. (i \in 1 .. m \/ i = m + 1) /\ (j \in 1 .. m \/ j = m + 1)
      BY <1>5, <1>6
    <3>2. CASE i \in 1 .. m /\ j \in 1 .. m
      BY <1>3, <1>5, <2>3, <3>2 DEF Spoken
    <3>3. CASE i = m + 1 \/ j = m + 1
      BY <1>4, <1>5, <1>8, <2>3, <3>1, <3>3
    <3> QED BY <3>1, <3>2, <3>3
  <2> QED BY <2>1, <2>2, <2>3 DEF Spoken
<1>10. Len(said) <= Len(said') /\ \A i \in 1 .. Len(said) : said'[i] = said[i]
  BY <1>3, <1>5 DEF m
<1> QED BY <1>2, <1>5, <1>9, <1>10, MovedStays DEF ContextInv

\* The messages stay, or one of them is written anew.
SameSayings(S, V) ==
    /\ V \in Seq(Spoke) /\ Len(V) = Len(S)
    /\ \A i \in 1 .. Len(S) : V[i].of = S[i].of /\ V[i].role = S[i].role /\ V[i].size = S[i].size

LEMMA SpokenStays ==
    ASSUME ContextInv, NEW U, NEW V, SameSayings(said, V), DOMAIN U = DOMAIN talks,
           \A x \in DOMAIN talks : talks[x].pc # "running" => U[x].pc # "running"
    PROVE  Spoken(U, V)
<1>1. /\ Len(said) \in Nat /\ DOMAIN said = 1 .. Len(said) /\ Spoken(talks, said)
  BY SaidParts DEF ContextInv, Recorded
<1>2. DOMAIN V = DOMAIN said
  BY <1>1 DEF SameSayings
<1>3. \A i \in DOMAIN said : V[i].of = said[i].of /\ V[i].role = said[i].role
  BY <1>1 DEF SameSayings
<1> QED BY <1>1, <1>2, <1>3 DEF Spoken

LEMMA TalkOnlyMoves ==
    ASSUME ContextInv, NEW r \in DOMAIN talks, said' = said, TalkMoves(talks, talks', r),
           \A x \in DOMAIN talks : talks[x].pc # "running" => talks'[x].pc # "running"
    PROVE  ContextInv'
<1>1. said \in Seq(Spoke) /\ Len(said) \in Nat /\ Len(talks) \in Nat /\ DOMAIN talks = 1 .. Len(talks)
  BY SaidParts DEF ContextInv, Recorded
<1>2. SameSayings(said, said') /\ DOMAIN talks' = DOMAIN talks
  BY <1>1 DEF SameSayings, TalkMoves
<1>3. Spoken(talks', said')
  BY <1>2, SpokenStays
<1>4. Recorded(talks', said)
  BY <1>1, <1>3, MovedStays
<1> QED BY <1>4 DEF ContextInv

LEMMA EndsSilentlyKeeps ==
    ASSUME ContextInv, NEW r \in DOMAIN talks, EndsSilently(r)
    PROVE  ContextInv'
<1>1. talks[r] \in Talk
  BY SaidParts
<1> DEFINE delivery == talks[r].delivery
<1>2. /\ delivery \in {"none", "answer", "comparison", "report", "unreadable"}
      /\ talks' = [talks EXCEPT ![r].pc = "ended", ![r].delivery = delivery]
      /\ said' = said
  BY <1>1 DEF EndsSilently, Talk
<1> HIDE DEF delivery
<1>3. "ended" \in {"running", "succeeded", "ended"} /\ "ended" # "running"
  OBVIOUS
<1>4. /\ TalkMoves(talks, talks', r)
      /\ \A x \in DOMAIN talks : talks[x].pc # "running" => talks'[x].pc # "running"
  BY <1>2, <1>3, TalkMoved
<1> QED BY <1>2, <1>4, TalkOnlyMoves

LEMMA DeliveryIsDamagedKeeps ==
    ASSUME ContextInv, NEW r \in DOMAIN talks, DeliveryIsDamaged(r)
    PROVE  ContextInv'
<1>1. talks[r] \in Talk
  BY SaidParts
<1> DEFINE pc == talks[r].pc
<1>2. /\ pc \in {"running", "succeeded", "ended"} /\ (talks[r].pc # "running" => pc # "running")
      /\ talks' = [talks EXCEPT ![r].pc = pc, ![r].delivery = "unreadable"]
      /\ said' = said
  BY <1>1 DEF DeliveryIsDamaged, Talk
<1> HIDE DEF pc
<1>3. "unreadable" \in {"none", "answer", "comparison", "report", "unreadable"}
  OBVIOUS
<1>4. /\ TalkMoves(talks, talks', r)
      /\ \A x \in DOMAIN talks : talks[x].pc # "running" => talks'[x].pc # "running"
  BY <1>2, <1>3, TalkMoved
<1> QED BY <1>2, <1>4, TalkOnlyMoves

LEMMA RewritingKeeps ==
    ASSUME ContextInv, talks' = talks, NEW i \in DOMAIN said, NEW message \in Spoke,
           message.of = said[i].of, message.role = said[i].role, message.size = said[i].size,
           said' = [said EXCEPT ![i] = message]
    PROVE  ContextInv'
<1>1. /\ said \in Seq(Spoke) /\ Len(said) \in Nat /\ DOMAIN said = 1 .. Len(said)
      /\ talks \in Seq(Talk) /\ Recorded(talks, said)
  BY SaidParts DEF ContextInv, Recorded
<1>2. SameSayings(said, said')
  <2>1. /\ said' \in Seq(Spoke) /\ Len(said') = Len(said) /\ said'[i] = message
        /\ \A j \in 1 .. Len(said) : j # i => said'[j] = said[j]
    BY <1>1, ExceptSeq
  <2> QED BY <2>1 DEF SameSayings
<1>3. Spoken(talks, said')
  BY <1>2, SpokenStays
<1>4. Stays(talks, said, talks, said')
  BY <1>1, <1>2 DEF Stays, SameSayings
<1>5. said' \in Seq(Spoke)
  BY <1>2 DEF SameSayings
<1>6. \A r \in DOMAIN talks : Informed(talks, said', r)
  BY <1>1, <1>4, <1>5, InformedStays
<1> QED BY <1>1, <1>3, <1>5, <1>6 DEF ContextInv, Recorded

LEMMA RewriteQuestionKeeps ==
    ASSUME ContextInv, NEW r, NEW words \in {"edited", "secret"}, RewriteQuestion(r, words)
    PROVE  ContextInv'
<1> DEFINE i == At(r, "user")
           message == [said[i] EXCEPT !.words = words]
<1>1. i # 0 /\ talks' = talks /\ said' = [said EXCEPT ![i] = message]
  BY DEF RewriteQuestion
<1>2. i \in DOMAIN said /\ said[i] \in Spoke
  BY <1>1, AtIs, SaidParts
<1> HIDE DEF i
<1>3. /\ message \in Spoke /\ message.of = said[i].of /\ message.role = said[i].role
      /\ message.size = said[i].size
  BY <1>2 DEF Spoke, Word
<1> HIDE DEF message
<1> QED BY <1>1, <1>2, <1>3, RewritingKeeps

LEMMA DeleteQuestionKeeps ==
    ASSUME ContextInv, NEW r, DeleteQuestion(r)
    PROVE  ContextInv'
<1> DEFINE i == At(r, "user")
           message == [said[i] EXCEPT !.archived = TRUE]
<1>1. i # 0 /\ talks' = talks /\ said' = [said EXCEPT ![i] = message]
  BY DEF DeleteQuestion
<1>2. i \in DOMAIN said /\ said[i] \in Spoke
  BY <1>1, AtIs, SaidParts
<1> HIDE DEF i
<1>3. /\ message \in Spoke /\ message.of = said[i].of /\ message.role = said[i].role
      /\ message.size = said[i].size
  BY <1>2 DEF Spoke
<1> HIDE DEF message
<1> QED BY <1>1, <1>2, <1>3, RewritingKeeps

LEMMA ContextInvInit == ContextInit => ContextInv
<1> SUFFICES ASSUME ContextInit PROVE ContextInv
  OBVIOUS
<1>1. talks = <<>> /\ said = <<>> /\ DOMAIN talks = {} /\ DOMAIN said = {}
  BY DEF ContextInit
<1>2. talks \in Seq(Talk) /\ said \in Seq(Spoke)
  BY <1>1
<1> QED BY <1>1, <1>2 DEF ContextInv, Recorded, Spoken

LEMMA ContextInvStep == ContextInv /\ [ContextNext]_contextVars => ContextInv'
<1> SUFFICES ASSUME ContextInv, [ContextNext]_contextVars PROVE ContextInv'
  OBVIOUS
<1>1. CASE AskMain
  BY <1>1, AskMainKeeps
<1>2. CASE AskDiagnosis
  BY <1>2, AskDiagnosisKeeps
<1>3. ASSUME NEW r \in DOMAIN talks,
             AskedAgain(r) \/ EndsSilently(r) \/ DeleteQuestion(r) \/ DeliveryIsDamaged(r)
      PROVE  ContextInv'
  BY <1>3, AskedAgainKeeps, EndsSilentlyKeeps, DeleteQuestionKeeps, DeliveryIsDamagedKeeps
<1>4. ASSUME NEW r \in DOMAIN talks, NEW words \in {"edited", "secret"}, RewriteQuestion(r, words)
      PROVE  ContextInv'
  BY <1>4, RewriteQuestionKeeps
<1>5. ASSUME NEW r \in DOMAIN talks, NEW delivery \in {"answer", "comparison", "report"},
             NEW size \in AnswerSizes, Succeeds(r, delivery, size)
      PROVE  ContextInv'
  BY <1>5, SucceedsKeeps
<1>6. CASE UNCHANGED contextVars
  <2>1. talks' = talks /\ said' = said
    BY <1>6 DEF contextVars
  <2> QED BY <2>1 DEF ContextInv
<1> QED BY <1>1, <1>2, <1>3, <1>4, <1>5, <1>6 DEF ContextNext

THEOREM ContextInvHolds == ContextSpec => []ContextInv
<1> QED BY ContextInvInit, ContextInvStep, PTL DEF ContextSpec

\* The context of every Run is the newest that there was to tell.
THEOREM ContextsAlwaysRecent == ContextSpec => []ContextsAreRecent
<1> QED BY ContextInvHolds, RecentNow, PTL
=============================================================================
