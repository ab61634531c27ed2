---------------------------- MODULE MCIssueStore ----------------------------
(***************************************************************************)
(* Three issues, one of them a convoy, and two commands at a time.         *)
(***************************************************************************)
EXTENDS IssueStore, TLC

CONSTANTS i1, i2, convoy, alice, bob

Pairs == {{d, e} : d \in [from: Issues, to: Issues, type: {"parent-child", "tracks"}],
                 e \in Dependency}
Symmetry == Permutations({i1, i2}) \cup Permutations({alice, bob})
=============================================================================
