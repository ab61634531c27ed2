------------------------------- MODULE MCGitSync ------------------------------
(***************************************************************************)
(* Instances of GitSync for TLC: a clone that runs plain `binds sync`, and *)
(* one that pulls and pushes in two commands.                              *)
(***************************************************************************)
EXTENDS GitSync, TLC

CONSTANTS c1, c2, a, b

PullThenPush == (c1 :> {"sync"}) @@ (c2 :> {"pull", "push"})
AllSync == (c1 :> {"sync"}) @@ (c2 :> {"sync"})
=============================================================================
