---------------------------- MODULE MCFlushManager ----------------------------
(***************************************************************************)
(* Instances of FlushManager for TLC: the main goroutine of a command, and *)
(* one more goroutine.                                                     *)
(***************************************************************************)
EXTENDS FlushManager

CONSTANTS main, worker

TwoClients == {main, worker}

(* The refinement: what the event loop promises is AutoFlush.              *)
Promise == INSTANCE AutoFlush WITH
  received <- seen, attempted <- covered, file <- json,
  running <- loop # "exited"

(* The event loop implements AutoFlush, its fairness included: a received  *)
(* mark is exported, and none is pending when the goroutine ends.          *)
ImplementsAutoFlush == Promise!FairSpec
=============================================================================
