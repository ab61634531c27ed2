-------------------------------- MODULE Replica -------------------------------
(***************************************************************************)
(* What a clone is to its user and to the other clones: one set of issues, *)
(* in which an issue says what was last written, here or elsewhere.  No    *)
(* database, no file, no import and no flush: those of AutoSync are to be  *)
(* invisible, with every crash and failure in them.                        *)
(*                                                                         *)
(* The content of an issue is named by the time it was written.            *)
(***************************************************************************)
EXTENDS Naturals

CONSTANT Issues

VARIABLES
  issue,   \* what the issues say
  inbox    \* what other clones have pushed and git has not brought yet

vars == <<issue, inbox>>

Content == [edit : Nat, dead : BOOLEAN]

Nothing == [edit |-> 0, dead |-> FALSE]

Init ==
  /\ issue \in [Issues -> {Nothing, [edit |-> 1, dead |-> FALSE]}]
  /\ inbox = [i \in Issues |-> Nothing]

(* A command writes one live issue, or a new one.                          *)
Write(i) ==
  LET new == issue'[i] IN
    /\ new \in Content /\ new.edit > issue[i].edit /\ ~new.dead /\ ~issue[i].dead
    /\ issue' = [issue EXCEPT ![i] = new]
    /\ UNCHANGED inbox

(* Another clone writes one, or deletes one that somebody has.             *)
Arrive(i) ==
  LET new == inbox'[i] IN
    /\ new \in Content /\ new.edit > issue[i].edit /\ new.edit > inbox[i].edit
    /\ ~issue[i].dead /\ ~inbox[i].dead
    /\ new.dead => issue[i] # Nothing \/ inbox[i] # Nothing
    /\ inbox' = [inbox EXCEPT ![i] = new]
    /\ UNCHANGED issue

(* git brings everything at once.  New issues are taken; where the clone   *)
(* has the issue too, the one with the later updated_at is, which for what *)
(* the clone has may be the time of its import: an edit that was pulled    *)
(* never replaces a later one, but may be passed over for an earlier one.  *)
Pull ==
  /\ \E S \in SUBSET {i \in Issues : inbox[i] # Nothing} :
       /\ \A i \in Issues \ S : inbox[i] # Nothing => issue[i] # Nothing
       /\ \A i \in S : inbox[i].edit > issue[i].edit /\ ~issue[i].dead
       /\ issue' = [i \in Issues |-> IF i \in S THEN inbox[i] ELSE issue[i]]
  /\ inbox' = [i \in Issues |-> Nothing]

Next ==
  \/ Pull
  \/ \E i \in Issues : Write(i) \/ Arrive(i)

Spec == Init /\ [][Next]_vars
=============================================================================
