----------------------------- MODULE MCCoordServer ----------------------------
(***************************************************************************)
(* An instance of CoordServer for TLC: the patterns src/* and src/a.go.    *)
(***************************************************************************)
EXTENDS CoordServer

CONSTANTS c1, c2, me, x, dir, file

DirAndFile == {<<dir, dir>>, <<dir, file>>, <<file, file>>}
=============================================================================
