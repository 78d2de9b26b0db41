--------------------------- MODULE ExecutorItems ---------------------------
(***************************************************************************)
(* What an executor of a Run yields and the guard of its stream reads: the *)
(* events, results, deliveries and failures of                             *)
(* application/run_execution.py, each with a label and a step.             *)
(***************************************************************************)
VARIABLE out    \* the items the executor has yielded and the guard has not read

Item(type, label, step) == [type |-> type, label |-> label, step |-> step]
Eof == Item("eof", "", 0)
=============================================================================
