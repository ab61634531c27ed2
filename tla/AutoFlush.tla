------------------------------ MODULE AutoFlush ------------------------------
(***************************************************************************)
(* What the auto-flush of a binds command promises                         *)
(* (cmd/binds/flush_manager.go), without its channels and its timer.       *)
(* Marks are received, exports are attempted, the manager stops.  Writes   *)
(* are numbered; a mark for write w asks that the JSONL file hold w.       *)
(***************************************************************************)
EXTENDS Naturals

CONSTANT MaxWrites  \* bound on the number of writes

VARIABLES
  received,   \* newest write a mark was received for
  attempted,  \* newest write an export has read
  file,       \* newest write the JSONL file holds
  running     \* the manager has not stopped

vars == <<received, attempted, file, running>>

Writes == 0..MaxWrites

Init == received = 0 /\ attempted = 0 /\ file = 0 /\ running = TRUE

Receive ==
  /\ running
  /\ \E w \in Writes : w > received /\ received' = w
  /\ UNCHANGED <<attempted, file, running>>

(* An export reads the whole database, so at least every write that was    *)
(* marked; it may fail, and is not repeated then.                          *)
Attempt ==
  /\ running
  /\ \E w \in Writes :
       /\ w >= received /\ w >= attempted
       /\ attempted' = w
       /\ file' \in {file, w}
  /\ UNCHANGED <<received, running>>

(* The manager stops only when no received mark is waiting.                *)
Stop ==
  /\ running /\ received <= attempted
  /\ running' = FALSE
  /\ UNCHANGED <<received, attempted, file>>

Next == Receive \/ Attempt \/ Stop

Spec == Init /\ [][Next]_vars

(* A received mark does not wait for ever.                                 *)
CatchUp == received > attempted /\ Attempt

FairSpec == Spec /\ WF_vars(CatchUp)
=============================================================================
