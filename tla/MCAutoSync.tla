------------------------------ MODULE MCAutoSync ------------------------------
(***************************************************************************)
(* Instances of AutoSync for TLC.                                          *)
(***************************************************************************)
EXTENDS AutoSync, TLC

CONSTANTS p, q, a, b

OneProcess == {p}
TwoProcesses == {p, q}
OneIssue == {a}
TwoIssues == {a, b}
JustA == {a}

(* Which of two processes does what makes no difference. *)
SameProcesses == Permutations(TwoProcesses)
=============================================================================
