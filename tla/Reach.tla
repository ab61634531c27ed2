---------------------------------- MODULE Reach --------------------------------
(***************************************************************************)
(* The recursive queries of internal/storage/sqlite (WITH RECURSIVE ...    *)
(* depth < n, and the breadth-first search of the cascade) as one operator *)
(* on a set of pairs.                                                      *)
(***************************************************************************)
EXTENDS Naturals

(* The elements of X, and those that a pair of R leads to from one of them.*)
Step(X, R) == X \cup {r[2] : r \in {q \in R : q[1] \in X}}

(* What is reached from S over at most n pairs of R.                       *)
Spread(S, R, n) ==
  LET Within[k \in 0..n] == IF k = 0 THEN S ELSE Step(Within[k-1], R)
  IN  Within[n]
=============================================================================
