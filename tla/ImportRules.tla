----------------------------- MODULE ImportRules -----------------------------
(***************************************************************************)
(* How the importer matches the lines of the file with the issues of the   *)
(* database (upsertIssuesTx and handleRenameTx in                          *)
(* internal/importer/importer.go): by external reference, then by content  *)
(* hash, then by ID.  Clones change their databases with commands and pass *)
(* the file on through git.                                                *)
(*                                                                         *)
(* An import is one transaction.  It reads the issues once (before) and    *)
(* takes line after line against what it read, while the rows change under *)
(* it.  A line is one action; no other action happens during an import,    *)
(* which takes the write lock and reads its file once.                     *)
(*                                                                         *)
(* Data: a content is a title, which stands for all the fields that are    *)
(* compared and hashed, at most one external reference, and whether the    *)
(* issue is a tombstone.  The hash of a content is the content; a row      *)
(* keeps the hash that was stored with it.  IDs are numbers, in the order  *)
(* of the file's lines, and no ID is given twice.                          *)
(*                                                                         *)
(* Left out: prefixes, hierarchical IDs, dry runs, deletion markers, the   *)
(* protection of local exports, two lines with one ID, and the labels,     *)
(* comments and dependencies of an issue.                                  *)
(***************************************************************************)
EXTENDS Naturals, FiniteSets, FiniteSetsExt, Functions

CONSTANTS
  Clones,
  Ids,       \* issue IDs
  Refs,      \* external references
  Titles,    \* what the other fields of an issue can be
  MaxTime,   \* bound on the clock for commands ...
  MaxClock   \* ... and for imports

ASSUME ImportRulesAssumption ==
  /\ Ids \subseteq Nat /\ IsFiniteSet(Ids)
  /\ MaxTime \in Nat /\ MaxClock \in Nat

VARIABLES
  clock,
  db,        \* per clone: its issues, with tombstones
  used,      \* the IDs that were given
  file,      \* the lines that the clones exchange
  seen,      \* per clone: the file it imported or exported last
  importer,  \* the clone that is importing, if any
  todo,      \* the IDs of the lines to come
  before,    \* the issues as they were read: dbByHash, dbByExternalRef, dbByID
  byID,      \* the keys of dbByID, from which renamed issues are taken away
  hashes,    \* seenHashes
  newIssues  \* the IDs of the lines to insert at the end

batch == <<importer, todo, before, byID, hashes, newIssues>>
vars == <<clock, db, used, file, seen, batch>>

Row(what, at) == [what |-> what, at |-> at, hash |-> what]
Put(f, i, r) == [j \in DOMAIN f \cup {i} |-> IF j = i THEN r ELSE f[j]]
Drop(f, i) == Restrict(f, DOMAIN f \ {i})
Lines(rows) == [i \in DOMAIN rows |-> [what |-> rows[i].what, at |-> rows[i].at]]
Empty == [i \in {} |-> 0]

(* The unique index on external_ref; it counts tombstones, too.            *)
RefFree(rows, i, ref) ==
  ref = {} \/ \A j \in DOMAIN rows \ {i} : rows[j].what.ref # ref

Init ==
  /\ clock = 0 /\ used = {} /\ file = Empty
  /\ db = [c \in Clones |-> Empty] /\ seen = [c \in Clones |-> Empty]
  /\ importer = {} /\ todo = {} /\ before = Empty /\ byID = {} /\ hashes = {}
  /\ newIssues = {}

-----------------------------------------------------------------------------
(* Commands.                                                               *)
Command ==
  /\ importer = {} /\ clock < MaxTime /\ clock' = clock + 1
  /\ UNCHANGED <<file, seen, batch>>

Create(c, i) ==
  /\ Command /\ i \notin used /\ used' = used \cup {i}
  /\ \E t \in Titles, ref \in {{}} \cup {{r} : r \in Refs} :
       /\ RefFree(db[c], i, ref)
       /\ db' = [db EXCEPT ![c] = Put(@, i,
                   Row([title |-> t, ref |-> ref, dead |-> FALSE], clock'))]

Live(c, i) == i \in DOMAIN db[c] /\ ~db[c][i].what.dead

Edit(c, i) ==
  /\ Command /\ Live(c, i) /\ UNCHANGED used
  /\ \E t \in Titles \ {db[c][i].what.title} :
       db' = [db EXCEPT ![c][i] = Row([@.what EXCEPT !.title = t], clock')]

(* CreateTombstone leaves the stored hash as it is.                        *)
Delete(c, i) ==
  /\ Command /\ Live(c, i) /\ UNCHANGED used
  /\ db' = [db EXCEPT ![c][i] = [@ EXCEPT !.what.dead = TRUE, !.at = clock']]

(* The rename command finds tombstones, too.                               *)
RenameTo(c, i, j) ==
  /\ Command /\ i \in DOMAIN db[c] /\ j \notin used /\ used' = used \cup {j}
  /\ db' = [db EXCEPT ![c] = Drop(Put(@, j, [@[i] EXCEPT !.at = clock']), i)]

(* git lets a clone replace only the file that it has.                     *)
Export(c) ==
  /\ importer = {} /\ seen[c] = file /\ Lines(db[c]) # file
  /\ file' = Lines(db[c]) /\ seen' = [seen EXCEPT ![c] = file']
  /\ UNCHANGED <<clock, db, used, batch>>

-----------------------------------------------------------------------------
(* An import.                                                              *)

(* Two live lines have one reference: the import is refused.               *)
DuplicateRefs ==
  \E i, j \in DOMAIN file :
    /\ i # j /\ file[i].what.ref = file[j].what.ref /\ file[i].what.ref # {}
    /\ ~file[i].what.dead /\ ~file[j].what.dead

(* The maps are read once, inside the transaction.                         *)
BeginImport(c) ==
  /\ importer = {} /\ clock < MaxClock /\ clock' = clock + 1
  /\ ~DuplicateRefs
  /\ importer' = {c} /\ todo' = DOMAIN file
  /\ before' = db[c] /\ byID' = DOMAIN db[c] /\ hashes' = {} /\ newIssues' = {}
  /\ UNCHANGED <<db, used, file, seen>>

Id == Min(todo)
Line == file[Id]

(* Faulty: the times are not compared.                                     *)
NewerOrNot(e) == TRUE
Newer(e) == Line.at > before[e].at

(* Faulty: the issues are read without the tombstones.                     *)
ByLiveRef ==
  {e \in DOMAIN before : /\ Line.what.ref # {} /\ before[e].what.ref = Line.what.ref
                         /\ ~before[e].what.dead}

ByRef == {e \in DOMAIN before : Line.what.ref # {} /\ before[e].what.ref = Line.what.ref}

ByHash == {e \in DOMAIN before : before[e].hash = Line.what}

Skipped == Line.what \in hashes \/ (Id \in byID /\ before[Id].what.dead)

TakeLine(c) ==
  /\ importer = {c} /\ todo # {}
  /\ todo' = todo \ {Id} /\ hashes' = hashes \cup {Line.what}
  /\ UNCHANGED <<clock, used, file, seen, importer, before>>

Skip(c) ==
  /\ TakeLine(c) /\ Skipped
  /\ UNCHANGED <<db, byID, newIssues>>

(* UpdateIssue: it fails if there is no such row any more; the row gets    *)
(* the time of the import, not the line's.                                 *)
Update(c, e) ==
  /\ e \in DOMAIN db[c] /\ RefFree(db[c], e, Line.what.ref)
  /\ db' = [db EXCEPT ![c][e] = Row(Line.what, clock)]

(* Newer and different from what was read.                                 *)
UpdateIfNewer(c, e) ==
  IF Newer(e) /\ before[e].what # Line.what THEN Update(c, e) ELSE UNCHANGED db

MatchRef(c) ==
  /\ TakeLine(c) /\ ~Skipped
  /\ \E e \in ByRef : UpdateIfNewer(c, e)
  /\ UNCHANGED <<byID, newIssues>>

(* handleRenameTx.                                                         *)
RenameIsComplete(c, e) ==
  /\ Id \in DOMAIN db[c] /\ db[c][Id].what = Line.what
  /\ db' = [db EXCEPT ![c] = Drop(@, e)]
  /\ byID' = byID \ (DOMAIN db[c] \cap {e})

OtherContentUnderId(c, e) ==
  /\ Id \in DOMAIN db[c] /\ db[c][Id].what # Line.what
  /\ IF Newer(e) THEN Update(c, e) ELSE UNCHANGED db
  /\ UNCHANGED byID

ImportRename(c, e) ==
  /\ Id \notin DOMAIN db[c] /\ e \in DOMAIN db[c]
  /\ RefFree(Drop(db[c], e), Id, Line.what.ref)
  /\ db' = [db EXCEPT ![c] = Put(Drop(@, e), Id, Row(Line.what, Line.at))]
  /\ byID' = byID \ {e}

MatchHash(c) ==
  /\ TakeLine(c) /\ ~Skipped /\ ByRef = {} /\ UNCHANGED newIssues
  /\ \E e \in ByHash :
       \/ e = Id /\ UNCHANGED <<db, byID>>
       \/ e # Id /\ (\/ RenameIsComplete(c, e)
                     \/ OtherContentUnderId(c, e)
                     \/ ImportRename(c, e))

MatchID(c) ==
  /\ TakeLine(c) /\ ~Skipped /\ ByRef = {} /\ ByHash = {} /\ Id \in byID
  /\ UpdateIfNewer(c, Id)
  /\ UNCHANGED <<byID, newIssues>>

New(c) ==
  /\ TakeLine(c) /\ ~Skipped /\ ByRef = {} /\ ByHash = {} /\ Id \notin byID
  /\ newIssues' = newIssues \cup {Id}
  /\ UNCHANGED <<db, byID>>

(* CreateIssueImport, for all new issues.                                  *)
Inserted(c) == [i \in DOMAIN db[c] \cup newIssues |->
  IF i \in newIssues THEN Row(file[i].what, file[i].at) ELSE db[c][i]]

Insert(c) ==
  /\ importer = {c} /\ todo = {} /\ newIssues # {}
  /\ newIssues \cap DOMAIN db[c] = {}
  /\ \A i \in newIssues : RefFree(Inserted(c), i, file[i].what.ref)
  /\ db' = [db EXCEPT ![c] = Inserted(c)] /\ newIssues' = {}
  /\ UNCHANGED <<clock, used, file, seen, importer, todo, before, byID, hashes>>

(* Faulty: the keys outlive what was read.                                 *)
CommitKeepsKeys(c) ==
  /\ importer = {c} /\ todo = {} /\ newIssues = {}
  /\ seen' = [seen EXCEPT ![c] = file]
  /\ importer' = {} /\ before' = Empty /\ hashes' = {}
  /\ UNCHANGED <<clock, db, used, file, todo, byID, newIssues>>

Commit(c) ==
  /\ importer = {c} /\ todo = {} /\ newIssues = {}
  /\ seen' = [seen EXCEPT ![c] = file]
  /\ importer' = {} /\ before' = Empty /\ byID' = {} /\ hashes' = {}
  /\ UNCHANGED <<clock, db, used, file, todo, newIssues>>

(* What an import does.  A line that none of the actions takes is one at   *)
(* which the importer returns an error.                                    *)
Import(c) ==
  \/ Skip(c) \/ MatchRef(c) \/ MatchHash(c) \/ MatchID(c) \/ New(c)
  \/ Insert(c) \/ Commit(c)

Next ==
  \E c \in Clones :
    \/ \E i \in Ids :
         \/ Create(c, i) \/ Edit(c, i) \/ Delete(c, i)
         \/ \E j \in Ids : RenameTo(c, i, j)
    \/ Export(c)
    \/ BeginImport(c)
    \/ Import(c)

Spec == Init /\ [][Next]_vars

-----------------------------------------------------------------------------
Contents == [title : Titles, ref : SUBSET Refs, dead : BOOLEAN]

(* The types, and the unique index on external references.                 *)
TypeOK ==
  /\ clock \in Nat /\ used \subseteq Ids
  /\ importer \subseteq Clones /\ todo \subseteq DOMAIN file
  /\ byID \subseteq DOMAIN before /\ newIssues \subseteq DOMAIN file \ todo
  /\ \A c \in Clones :
       /\ DOMAIN db[c] \subseteq used
       /\ \A i \in DOMAIN db[c] :
            /\ db[c][i].what \in Contents
            /\ db[c][i].at \in 1..clock
            /\ RefFree(db[c], i, db[c][i].what.ref)

Done(c) == importer = {c} /\ todo = {} /\ newIssues = {}

(* The guards of the import.  A row can be updated, or be renamed to the   *)
(* line's ID: it is there, and the line's reference is free for it.        *)
CanUpdate(c, e) == e \in DOMAIN db[c] /\ RefFree(db[c], e, Line.what.ref)

CanRename(c, e) == e \in DOMAIN db[c] /\ RefFree(Drop(db[c], e), Id, Line.what.ref)

Passes(c) ==
  /\ todo # {} /\ ~Skipped =>
       /\ \A e \in ByRef : CanUpdate(c, e)
       /\ ByRef = {} => \A e \in ByHash \ {Id} :
            IF Id \in DOMAIN db[c] THEN CanUpdate(c, e) ELSE CanRename(c, e)
       /\ ByRef = {} /\ ByHash = {} /\ Id \in byID => CanUpdate(c, Id)
  /\ newIssues \cap DOMAIN db[c] = {}
  /\ \A i \in newIssues : RefFree(Inserted(c), i, file[i].what.ref)

(* An import that is not refused at its start goes through: no update      *)
(* misses its row, no insertion meets an ID or a reference that is taken,  *)
(* although every line is matched with issues as they were read and not as *)
(* the lines before it left them, whichever way it is matched and whether  *)
(* or not it is newer.  This is ENABLED Import(c), in terms of the guards. *)
(* (upsertIssuesTx: deletedID is taken out of dbByID, tombstones are read  *)
(* along.)                                                                 *)
NeverFails == \A c \in importer : Passes(c)

(* An import takes nothing back.  An issue the clone had is as it was, or  *)
(* has the content of a line that is newer than it was, or its content is  *)
(* now under the ID of another line that has it: a line that is older than *)
(* the issue never replaces it, and no issue goes without its content      *)
(* being imported under another ID.  (upsertIssuesTx, handleRenameTx.)     *)
NothingUndone == \A c \in importer : Done(c) =>
  \A i \in DOMAIN before :
    \/ /\ i \in DOMAIN db[c]
       /\ \/ db[c][i].what = before[i].what
          \/ \E j \in DOMAIN file : /\ file[j].what = db[c][i].what
                                    /\ file[j].at > before[i].at
    \/ \E j \in (DOMAIN file \cap DOMAIN db[c]) \ {i} :
         file[j].what = before[i].hash /\ db[c][j].what = before[i].hash

(* An import brings no deleted issue back.  (importer.go, "Never resurrect *)
(* over tombstones.")  It does: a line with another ID and the reference   *)
(* of a deleted issue is an update of it.                                  *)
NeverResurrects == \A c \in importer : Done(c) =>
  \A i \in DOMAIN before : before[i].what.dead => ~Live(c, i)
=============================================================================
