----------------------------- MODULE MCImportRules -----------------------------
(* Clones, references and titles for the model checker.                       *)
EXTENDS ImportRules

CONSTANTS a, b, r, t1, t2
================================================================================
