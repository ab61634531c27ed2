--------------------------- MODULE ImportRulesProofs ---------------------------
(***************************************************************************)
(* An import loses nothing, for any issues, references, clones and times.  *)
(***************************************************************************)
EXTENDS ImportRules, ReachProofs, TLAPS

-----------------------------------------------------------------------------
(* Tables of issues.                                                       *)

Rows == [what : Contents, at : Nat, hash : Contents]

(* A stored hash is that of the content, or of what the issue was before   *)
(* it was deleted.                                                         *)
Hashed(row) ==
  row.hash.ref = row.what.ref /\ (row.what.dead \/ row.hash = row.what)

GoodRow(row, now) == row \in Rows /\ row.at \in 1..now /\ Hashed(row)

(* The rows are good, and no two have one reference.                       *)
GoodTable(rows, now) ==
  /\ DOMAIN rows \subseteq Ids
  /\ \A i \in DOMAIN rows : GoodRow(rows[i], now) /\ RefFree(rows, i, rows[i].what.ref)

LEMMA PutIs ==
  ASSUME NEW f, NEW i, NEW r
  PROVE  /\ DOMAIN Put(f, i, r) = DOMAIN f \cup {i}
         /\ Put(f, i, r)[i] = r
         /\ \A j \in DOMAIN f \ {i} : Put(f, i, r)[j] = f[j]
BY DEF Put

LEMMA DropIs ==
  ASSUME NEW f, NEW i
  PROVE  /\ DOMAIN Drop(f, i) = DOMAIN f \ {i}
         /\ \A j \in DOMAIN f \ {i} : Drop(f, i)[j] = f[j]
BY DEF Drop, Restrict

LEMMA RowIsGood ==
  ASSUME NEW what \in Contents, NEW now \in Nat, NEW at \in 1..now
  PROVE  GoodRow(Row(what, at), now) /\ Row(what, at).what = what /\ Row(what, at).at = at
                                     /\ Row(what, at).hash = what
BY DEF GoodRow, Row, Rows, Hashed

(* A table stays good when a row comes or changes whose reference is free, *)
(* when one goes, and with time.                                           *)
LEMMA GoodWith ==
  ASSUME NEW f, NEW g, NEW now \in Nat, GoodTable(f, now), NEW i \in Ids,
         DOMAIN g = DOMAIN f \cup {i}, \A j \in DOMAIN f \ {i} : g[j] = f[j],
         GoodRow(g[i], now), RefFree(f, i, g[i].what.ref)
  PROVE  GoodTable(g, now)
<1>1. ASSUME NEW j \in DOMAIN g PROVE GoodRow(g[j], now) /\ RefFree(g, j, g[j].what.ref)
  <2>1. CASE j = i
    BY <2>1 DEF RefFree
  <2>2. CASE j # i
    <3>1. j \in DOMAIN f /\ g[j] = f[j]
      BY <2>2
    <3>2. GoodRow(f[j], now) /\ RefFree(f, j, f[j].what.ref)
      BY <3>1 DEF GoodTable
    <3>3. f[j].what.ref = {} \/ f[j].what.ref # g[i].what.ref
      BY <2>2, <3>1 DEF RefFree
    <3> QED BY <3>1, <3>2, <3>3 DEF RefFree
  <2> QED BY <2>1, <2>2
<1> QED BY <1>1 DEF GoodTable

LEMMA GoodWithout ==
  ASSUME NEW f, NEW now \in Nat, GoodTable(f, now), NEW i
  PROVE  GoodTable(Drop(f, i), now)
<1> DEFINE g == Drop(f, i)
<1>1. DOMAIN g = DOMAIN f \ {i} /\ \A j \in DOMAIN f \ {i} : g[j] = f[j]
  BY DropIs
<1> HIDE DEF g
<1>2. GoodTable(g, now)
  BY <1>1 DEF GoodTable, RefFree
<1> QED BY <1>2 DEF g

LEMMA GoodLater ==
  ASSUME NEW f, NEW now \in Nat, NEW later \in Nat, now <= later, GoodTable(f, now)
  PROVE  GoodTable(f, later)
BY DEF GoodTable, GoodRow

LEMMA EmptyIs == DOMAIN Empty = {} /\ \A now : GoodTable(Empty, now)
BY DEF Empty, GoodTable

-----------------------------------------------------------------------------
(* The types, and the unique index.                                        *)

Databases ==
  /\ clock \in Nat /\ used \subseteq Ids
  /\ DOMAIN db = Clones
  /\ \A c \in Clones : GoodTable(db[c], clock) /\ DOMAIN db[c] \subseteq used

GoodFile ==
  /\ DOMAIN file \subseteq used
  /\ \A i \in DOMAIN file :
       /\ file[i].what \in Contents /\ file[i].at \in 1..clock
       /\ RefFree(file, i, file[i].what.ref)

Batch ==
  /\ importer \subseteq Clones /\ \A c, d \in importer : c = d
  /\ GoodTable(before, clock)
  /\ todo \subseteq DOMAIN file /\ byID \subseteq DOMAIN before
  /\ newIssues \subseteq DOMAIN file \ todo
  /\ importer = {} => todo = {} /\ newIssues = {}

Sound == Databases /\ GoodFile /\ Batch

LEMMA SoundTypes == Sound => TypeOK
BY DEF Sound, Databases, Batch, TypeOK, GoodTable, GoodRow, Rows

LEMMA SoundInit == Init => Sound
BY EmptyIs, ImportRulesAssumption DEF Init, Sound, Databases, GoodFile, Batch

(* The line that an import takes is one of those to come.                  *)
LEMMA LineIs ==
  ASSUME Sound, todo # {}
  PROVE  /\ Id \in todo /\ Id \in DOMAIN file /\ Id \in Ids /\ Id \in used
         /\ Line = file[Id] /\ Line.what \in Contents /\ Line.at \in 1..clock
<1>1. todo \subseteq Nat /\ todo \subseteq DOMAIN file /\ todo \subseteq used /\ used \subseteq Ids
  BY ImportRulesAssumption DEF Sound, Databases, GoodFile, Batch
<1>2. \E n \in todo : \A m \in todo : n <= m
  BY <1>1, LeastNumber
<1>3. Id \in todo
  BY <1>2 DEF Id, Min
<1> QED BY <1>1, <1>3 DEF Line, Sound, GoodFile

(* One clone's table changes, and stays good.                              *)
LEMMA TableStep ==
  ASSUME Databases, NEW c \in Clones, NEW g, db' = [db EXCEPT ![c] = g],
         clock' \in Nat, clock <= clock', used \subseteq used', used' \subseteq Ids,
         GoodTable(g, clock'), DOMAIN g \subseteq used'
  PROVE  Databases'
<1>1. \A d \in Clones : db'[d] = IF d = c THEN g ELSE db[d]
  BY DEF Databases
<1>2. \A d \in Clones : GoodTable(db[d], clock') /\ DOMAIN db[d] \subseteq used'
  BY GoodLater DEF Databases
<1> QED BY <1>1, <1>2 DEF Databases

(* ... and the file and the batch stand still, or the clock runs on.       *)
LEMMA RestStep ==
  ASSUME Sound, UNCHANGED <<file, batch>>, clock' \in Nat, clock <= clock', used \subseteq used'
  PROVE  GoodFile' /\ Batch'
<1>1. GoodTable(before, clock')
  BY GoodLater DEF Sound, Databases, Batch
<1>2. \A i \in DOMAIN file : file[i].at \in 1..clock'
  BY DEF Sound, GoodFile, Databases
<1> QED BY <1>1, <1>2 DEF Sound, GoodFile, Batch, batch

LEMMA CommandTick ==
  ASSUME Sound, Command
  PROVE  /\ clock \in Nat /\ clock' \in Nat /\ clock <= clock' /\ clock' \in 1..clock'
         /\ UNCHANGED <<file, batch>>
BY DEF Sound, Databases, Command, batch

LEMMA TitleRef ==
  ASSUME NEW t \in Titles, NEW ref \in {{}} \cup {{r} : r \in Refs}
  PROVE  [title |-> t, ref |-> ref, dead |-> FALSE] \in Contents
BY DEF Contents

LEMMA CreateStep ==
  ASSUME Sound, NEW c \in Clones, NEW i \in Ids, Create(c, i)
  PROVE  Sound'
<1>1. PICK t \in Titles, ref \in {{}} \cup {{r} : r \in Refs} :
        /\ RefFree(db[c], i, ref)
        /\ db' = [db EXCEPT ![c] = Put(@, i, Row([title |-> t, ref |-> ref, dead |-> FALSE], clock'))]
  BY DEF Create
<1> DEFINE what == [title |-> t, ref |-> ref, dead |-> FALSE]
           row == Row(what, clock')
           g == Put(db[c], i, row)
<1>2. Command /\ used' = used \cup {i}
  BY DEF Create
<1>3. what \in Contents /\ what.ref = ref
  BY TitleRef
<1> HIDE DEF what
<1>4. GoodRow(row, clock') /\ row.what = what
  BY <1>2, <1>3, CommandTick, RowIsGood
<1> HIDE DEF row
<1>5. DOMAIN g = DOMAIN db[c] \cup {i} /\ g[i] = row /\ \A j \in DOMAIN db[c] \ {i} : g[j] = db[c][j]
  BY DEF Put
<1>6. db' = [db EXCEPT ![c] = g]
  BY <1>1 DEF what, row
<1> HIDE DEF g
<1>7. GoodTable(db[c], clock') /\ DOMAIN db[c] \subseteq used /\ used \subseteq Ids
  BY <1>2, CommandTick, GoodLater DEF Sound, Databases
<1>8. GoodTable(g, clock')
  BY <1>1, <1>2, <1>3, <1>4, <1>5, <1>7, CommandTick, GoodWith
<1>9. Databases'
  BY <1>2, <1>5, <1>6, <1>7, <1>8, CommandTick, TableStep DEF Sound, Databases
<1> QED BY <1>2, <1>9, CommandTick, RestStep DEF Sound, Databases

(* A command that changes a row but not its reference.                     *)
LEMMA RowStep ==
  ASSUME Sound, NEW c \in Clones, NEW i \in DOMAIN db[c], NEW row, Command, UNCHANGED used,
         db' = [db EXCEPT ![c] = [db[c] EXCEPT ![i] = row]],
         GoodRow(row, clock'), row.what.ref = db[c][i].what.ref
  PROVE  Sound'
<1> DEFINE g == [db[c] EXCEPT ![i] = row]
<1>1. DOMAIN g = DOMAIN db[c] \cup {i} /\ g[i] = row /\ \A j \in DOMAIN db[c] \ {i} : g[j] = db[c][j]
  OBVIOUS
<1>2. db' = [db EXCEPT ![c] = g]
  OBVIOUS
<1> HIDE DEF g
<1>3. GoodTable(db[c], clock') /\ DOMAIN db[c] \subseteq used /\ used \subseteq Ids
  BY CommandTick, GoodLater DEF Sound, Databases
<1>4. RefFree(db[c], i, g[i].what.ref) /\ i \in Ids
  BY <1>1, <1>3 DEF GoodTable
<1>5. GoodTable(g, clock')
  BY <1>1, <1>3, <1>4, CommandTick, GoodWith
<1>6. Databases'
  BY <1>1, <1>2, <1>3, <1>5, CommandTick, TableStep, ZenonT(60) DEF Sound, Databases
<1> QED BY <1>6, CommandTick, RestStep DEF Sound, Databases

LEMMA EditStep ==
  ASSUME Sound, NEW c \in Clones, NEW i \in Ids, Edit(c, i)
  PROVE  Sound'
<1>1. PICK t \in Titles \ {db[c][i].what.title} :
        db' = [db EXCEPT ![c][i] = Row([@.what EXCEPT !.title = t], clock')]
  BY DEF Edit
<1> DEFINE what == [db[c][i].what EXCEPT !.title = t]
           row == Row(what, clock')
<1>2. Command /\ UNCHANGED used /\ i \in DOMAIN db[c]
  BY DEF Edit, Live
<1>3. db[c][i].what \in Contents
  BY <1>2 DEF Sound, Databases, GoodTable, GoodRow, Rows
<1>4. what \in Contents /\ what.ref = db[c][i].what.ref
  BY <1>3 DEF Contents
<1>5. db' = [db EXCEPT ![c] = [db[c] EXCEPT ![i] = row]]
  BY <1>1
<1> HIDE DEF what
<1>6. GoodRow(row, clock') /\ row.what = what
  BY <1>2, <1>4, CommandTick, RowIsGood
<1> HIDE DEF row
<1> QED BY <1>2, <1>4, <1>5, <1>6, RowStep

LEMMA DeleteStep ==
  ASSUME Sound, NEW c \in Clones, NEW i \in Ids, Delete(c, i)
  PROVE  Sound'
<1> DEFINE row == [db[c][i] EXCEPT !.what.dead = TRUE, !.at = clock']
<1>1. Command /\ UNCHANGED used /\ i \in DOMAIN db[c]
  BY DEF Delete, Live
<1>2. db' = [db EXCEPT ![c] = [db[c] EXCEPT ![i] = row]]
  BY DEF Delete
<1>3. GoodRow(db[c][i], clock)
  BY <1>1 DEF Sound, Databases, GoodTable
<1>4. GoodRow(row, clock') /\ row.what.ref = db[c][i].what.ref
  BY <1>1, <1>3, CommandTick DEF GoodRow, Rows, Contents, Hashed
<1> HIDE DEF row
<1> QED BY <1>1, <1>2, <1>4, RowStep

LEMMA RenameToStep ==
  ASSUME Sound, NEW c \in Clones, NEW i \in Ids, NEW j \in Ids, RenameTo(c, i, j)
  PROVE  Sound'
<1> DEFINE row == [db[c][i] EXCEPT !.at = clock']
           f == Drop(db[c], i)
           h == Put(db[c], j, row)
           g == Drop(h, i)
<1>1. Command /\ i \in DOMAIN db[c] /\ j \notin used /\ used' = used \cup {j}
  BY DEF RenameTo
<1>2. db' = [db EXCEPT ![c] = g]
  BY DEF RenameTo
<1>3. GoodRow(db[c][i], clock) /\ RefFree(db[c], i, db[c][i].what.ref) /\ DOMAIN db[c] \subseteq used
      /\ used \subseteq Ids
  BY <1>1 DEF Sound, Databases, GoodTable
<1>4. GoodRow(row, clock') /\ row.what = db[c][i].what
  BY <1>1, <1>3, CommandTick DEF GoodRow, Rows, Hashed
<1> HIDE DEF row
<1>5. GoodTable(f, clock')
  BY <1>1, CommandTick, GoodLater, GoodWithout DEF Sound, Databases
<1>6. DOMAIN f = DOMAIN db[c] \ {i} /\ \A k \in DOMAIN db[c] \ {i} : f[k] = db[c][k]
  BY DropIs
<1>7. DOMAIN h = DOMAIN db[c] \cup {j} /\ h[j] = row /\ \A k \in DOMAIN db[c] \ {j} : h[k] = db[c][k]
  BY DEF Put
<1> HIDE DEF f, h
<1>8. DOMAIN g = DOMAIN h \ {i} /\ \A k \in DOMAIN h \ {i} : g[k] = h[k]
  BY DropIs
<1> HIDE DEF g
<1>9. i # j
  BY <1>1, <1>3
<1>10. DOMAIN g = DOMAIN f \cup {j} /\ g[j] = row /\ \A k \in DOMAIN f \ {j} : g[k] = f[k]
  BY <1>6, <1>7, <1>8, <1>9
<1>11. RefFree(f, j, row.what.ref)
  BY <1>3, <1>4, <1>6 DEF RefFree
<1>12. GoodTable(g, clock')
  BY <1>1, <1>4, <1>5, <1>10, <1>11, CommandTick, GoodWith
<1>13. DOMAIN g \subseteq used' /\ used \subseteq used' /\ used' \subseteq Ids
  BY <1>1, <1>3, <1>6, <1>10
<1>14. Databases'
  BY <1>1, <1>2, <1>12, <1>13, CommandTick, TableStep DEF Sound, Databases
<1> QED BY <1>1, <1>13, <1>14, CommandTick, RestStep DEF Sound, Databases

LEMMA ExportStep ==
  ASSUME Sound, NEW c \in Clones, Export(c)
  PROVE  Sound'
<1>1. importer = {} /\ UNCHANGED <<clock, db, used, batch>> /\ file' = Lines(db[c])
  BY DEF Export
<1>2. Databases'
  BY <1>1 DEF Sound, Databases
<1>3. /\ DOMAIN file' = DOMAIN db[c]
      /\ \A i \in DOMAIN db[c] : file'[i].what = db[c][i].what /\ file'[i].at = db[c][i].at
  BY <1>1 DEF Lines
<1>4. GoodFile'
  BY <1>1, <1>3 DEF Sound, Databases, GoodFile, GoodTable, GoodRow, Rows, RefFree
<1>5. Batch'
  BY <1>1 DEF Sound, Batch, batch
<1> QED BY <1>2, <1>4, <1>5 DEF Sound

LEMMA BeginStep ==
  ASSUME Sound, NEW c \in Clones, BeginImport(c)
  PROVE  Sound'
<1>1. clock' = clock + 1 /\ clock' \in Nat /\ UNCHANGED <<db, used, file>>
  BY DEF BeginImport, Sound, Databases
<1>2. \A d \in Clones : GoodTable(db[d], clock')
  BY <1>1, GoodLater DEF Sound, Databases
<1>3. Databases'
  BY <1>1, <1>2 DEF Sound, Databases
<1>4. GoodFile'
  BY <1>1 DEF Sound, Databases, GoodFile
<1>5. Batch'
  BY <1>1, <1>2 DEF BeginImport, Batch
<1> QED BY <1>3, <1>4, <1>5 DEF Sound

LEMMA TableNow ==
  ASSUME Sound, NEW c \in Clones, NEW g, db' = [db EXCEPT ![c] = g], UNCHANGED <<clock, used>>,
         GoodTable(g, clock), DOMAIN g \subseteq used
  PROVE  Databases' /\ db'[c] = g
<1>1. \A d \in Clones : db'[d] = IF d = c THEN g ELSE db[d]
  BY DEF Sound, Databases
<1> QED BY <1>1 DEF Sound, Databases

(* What a line does to the clone's table, and that the table stays good.   *)
LEMMA UpdateIs ==
  ASSUME Sound, todo # {}, NEW c \in Clones, NEW e, Update(c, e), UNCHANGED <<clock, used>>
  PROVE  /\ e \in DOMAIN db[c] /\ DOMAIN db'[c] = DOMAIN db[c]
         /\ db'[c][e].what = Line.what
         /\ \A i \in DOMAIN db[c] \ {e} : db'[c][i] = db[c][i]
         /\ Databases'
<1> DEFINE row == Row(Line.what, clock)
           g == [db[c] EXCEPT ![e] = row]
<1>1. e \in DOMAIN db[c] /\ RefFree(db[c], e, Line.what.ref) /\ db' = [db EXCEPT ![c] = g]
  BY DEF Update
<1>2. clock \in Nat /\ clock \in 1..clock /\ Line.what \in Contents
  BY LineIs DEF Sound, Databases
<1>3. GoodRow(row, clock) /\ row.what = Line.what
  BY <1>2, RowIsGood
<1> HIDE DEF row
<1>4. DOMAIN g = DOMAIN db[c] \cup {e} /\ g[e] = row /\ \A j \in DOMAIN db[c] \ {e} : g[j] = db[c][j]
  BY <1>1
<1> HIDE DEF g
<1>5. GoodTable(db[c], clock) /\ e \in Ids /\ DOMAIN db[c] \subseteq used /\ used \subseteq Ids
  BY <1>1 DEF Sound, Databases, GoodTable
<1>6. GoodTable(g, clock)
  BY <1>1, <1>2, <1>3, <1>4, <1>5, GoodWith
<1>7. Databases' /\ db'[c] = g
  BY <1>1, <1>2, <1>4, <1>5, <1>6, TableNow, ZenonT(60)
<1> QED BY <1>1, <1>3, <1>4, <1>7

LEMMA ImportRenameIs ==
  ASSUME Sound, todo # {}, NEW c \in Clones, NEW e, ImportRename(c, e), UNCHANGED <<clock, used>>
  PROVE  /\ Id \notin DOMAIN db[c] /\ e \in DOMAIN db[c]
         /\ DOMAIN db'[c] = (DOMAIN db[c] \ {e}) \cup {Id}
         /\ db'[c][Id].what = Line.what
         /\ \A i \in DOMAIN db[c] \ {e} : db'[c][i] = db[c][i]
         /\ Databases'
<1> DEFINE row == Row(Line.what, Line.at)
           f == Drop(db[c], e)
           g == Put(f, Id, row)
<1>1. /\ Id \notin DOMAIN db[c] /\ e \in DOMAIN db[c] /\ RefFree(f, Id, Line.what.ref)
      /\ db' = [db EXCEPT ![c] = g]
  BY DEF ImportRename
<1>2. clock \in Nat /\ Line.at \in 1..clock /\ Line.what \in Contents /\ Id \in Ids /\ Id \in used
  BY LineIs DEF Sound, Databases
<1>3. GoodRow(row, clock) /\ row.what = Line.what
  BY <1>2, RowIsGood
<1> HIDE DEF row
<1>4. DOMAIN f = DOMAIN db[c] \ {e} /\ \A i \in DOMAIN db[c] \ {e} : f[i] = db[c][i]
  BY DropIs
<1>5. GoodTable(f, clock) /\ DOMAIN db[c] \subseteq used /\ used \subseteq Ids
  BY <1>2, GoodWithout DEF Sound, Databases
<1> HIDE DEF f
<1>6. DOMAIN g = DOMAIN f \cup {Id} /\ g[Id] = row /\ \A j \in DOMAIN f \ {Id} : g[j] = f[j]
  BY DEF Put
<1> HIDE DEF g
<1>7. GoodTable(g, clock)
  BY <1>1, <1>2, <1>3, <1>5, <1>6, GoodWith
<1>8. DOMAIN g \subseteq used
  BY <1>2, <1>4, <1>5, <1>6
<1>9. Databases' /\ db'[c] = g
  BY <1>1, <1>2, <1>5, <1>7, <1>8, TableNow
<1> QED BY <1>1, <1>3, <1>4, <1>6, <1>9

LEMMA DropLineIs ==
  ASSUME Sound, NEW c \in Clones, NEW e, db' = [db EXCEPT ![c] = Drop(@, e)], UNCHANGED <<clock, used>>
  PROVE  /\ DOMAIN db'[c] = DOMAIN db[c] \ {e}
         /\ \A i \in DOMAIN db[c] \ {e} : db'[c][i] = db[c][i]
         /\ Databases'
<1> DEFINE g == Drop(db[c], e)
<1>1. db' = [db EXCEPT ![c] = g]
  OBVIOUS
<1>2. DOMAIN g = DOMAIN db[c] \ {e} /\ \A i \in DOMAIN db[c] \ {e} : g[i] = db[c][i]
  BY DropIs
<1>3. clock \in Nat /\ DOMAIN db[c] \subseteq used /\ used \subseteq Ids
  BY DEF Sound, Databases
<1>4. GoodTable(g, clock)
  BY <1>3, GoodWithout DEF Sound, Databases
<1> HIDE DEF g
<1>5. Databases' /\ db'[c] = g
  BY <1>1, <1>2, <1>3, <1>4, TableNow
<1> QED BY <1>2, <1>5

LEMMA LineRest ==
  ASSUME Sound, NEW c, TakeLine(c), byID' \subseteq byID, newIssues' \subseteq newIssues \cup {Id}
  PROVE  GoodFile' /\ Batch'
<1>1. todo # {} /\ todo' = todo \ {Id} /\ importer # {} /\ UNCHANGED <<clock, used, file, importer, before>>
  BY DEF TakeLine
<1>2. Id \in DOMAIN file
  BY <1>1, LineIs
<1> QED BY <1>1, <1>2 DEF Sound, GoodFile, Batch

LEMMA LineStep ==
  ASSUME Sound, NEW c \in Clones,
         Skip(c) \/ MatchRef(c) \/ MatchHash(c) \/ MatchID(c) \/ New(c)
  PROVE  Sound'
<1>1. TakeLine(c) /\ todo # {} /\ UNCHANGED <<clock, used>>
  BY DEF Skip, MatchRef, MatchHash, MatchID, New, TakeLine
<1>2. byID' \subseteq byID /\ newIssues' \subseteq newIssues \cup {Id}
  BY DEF Skip, MatchRef, MatchHash, MatchID, New, RenameIsComplete, OtherContentUnderId, ImportRename
<1>3. Databases'
  <2>1. CASE UNCHANGED db
    BY <1>1, <2>1 DEF Sound, Databases
  <2>2. ASSUME NEW e, Update(c, e) PROVE Databases'
    BY <1>1, <2>2, UpdateIs
  <2>3. ASSUME NEW e, ImportRename(c, e) PROVE Databases'
    BY <1>1, <2>3, ImportRenameIs
  <2>4. ASSUME NEW e, db' = [db EXCEPT ![c] = Drop(@, e)] PROVE Databases'
    BY <1>1, <2>4, DropLineIs
  <2> QED
    BY <2>1, <2>2, <2>3, <2>4
       DEF Skip, MatchRef, MatchHash, MatchID, New, UpdateIfNewer, RenameIsComplete,
           OtherContentUnderId
<1> QED BY <1>1, <1>2, <1>3, LineRest DEF Sound

LEMMA InsertStep ==
  ASSUME Sound, NEW c \in Clones, Insert(c)
  PROVE  /\ Sound'
         /\ DOMAIN db'[c] = DOMAIN db[c] \cup newIssues
         /\ \A i \in DOMAIN db[c] : db'[c][i] = db[c][i]
<1> DEFINE g == Inserted(c)
<1>1. /\ newIssues \cap DOMAIN db[c] = {} /\ \A i \in newIssues : RefFree(g, i, file[i].what.ref)
      /\ db' = [db EXCEPT ![c] = g] /\ newIssues' = {}
      /\ UNCHANGED <<clock, used, file, importer, todo, before, byID>>
  BY DEF Insert
<1>2. \A i \in newIssues : i \in DOMAIN file /\ i \in used /\ file[i].what \in Contents
                           /\ file[i].at \in 1..clock
  BY DEF Sound, GoodFile, Batch
<1>3. clock \in Nat /\ used \subseteq Ids /\ GoodTable(db[c], clock) /\ DOMAIN db[c] \subseteq used
  BY DEF Sound, Databases
<1>4. DOMAIN g = DOMAIN db[c] \cup newIssues
      /\ \A i \in DOMAIN g : g[i] = IF i \in newIssues THEN Row(file[i].what, file[i].at) ELSE db[c][i]
  BY DEF Inserted
<1> HIDE DEF g
<1>5. \A i \in newIssues : GoodRow(g[i], clock) /\ g[i].what = file[i].what
  BY <1>2, <1>3, <1>4, RowIsGood
<1>6. ASSUME NEW i \in DOMAIN g PROVE GoodRow(g[i], clock) /\ RefFree(g, i, g[i].what.ref)
  <2>1. CASE i \in newIssues
    BY <1>1, <1>5, <2>1
  <2>2. CASE i \notin newIssues
    <3>1. i \in DOMAIN db[c] /\ g[i] = db[c][i]
      BY <1>4, <2>2
    <3>2. GoodRow(db[c][i], clock) /\ RefFree(db[c], i, db[c][i].what.ref)
      BY <1>3, <3>1 DEF GoodTable
    <3>3. \A j \in newIssues : g[j].what.ref # g[i].what.ref \/ g[i].what.ref = {}
      BY <1>1, <1>4, <1>5, <2>2 DEF RefFree
    <3> QED BY <1>4, <3>1, <3>2, <3>3 DEF RefFree
  <2> QED BY <2>1, <2>2
<1>7. GoodTable(g, clock) /\ DOMAIN g \subseteq used
  BY <1>2, <1>3, <1>4, <1>6 DEF GoodTable
<1>8. Databases' /\ db'[c] = g
  BY <1>1, <1>7, TableNow
<1>9. GoodFile' /\ Batch'
  BY <1>1 DEF Sound, GoodFile, Batch
<1> QED BY <1>1, <1>4, <1>8, <1>9 DEF Sound

LEMMA SoundStep == Sound /\ [Next]_vars => Sound'
<1> SUFFICES ASSUME Sound, [Next]_vars PROVE Sound'
  OBVIOUS
<1>1. CASE UNCHANGED vars
  BY <1>1 DEF vars, batch, Sound, Databases, GoodFile, Batch
<1>2. ASSUME NEW c \in Clones, Commit(c) PROVE Sound'
  <2>1. UNCHANGED <<clock, db, used, file, todo, newIssues>>
        /\ importer' = {} /\ before' = Empty /\ byID' = {} /\ todo = {} /\ newIssues = {}
    BY <1>2 DEF Commit
  <2> QED BY <2>1, EmptyIs DEF Sound, Databases, GoodFile, Batch
<1> QED
  BY <1>1, <1>2, CreateStep, EditStep, DeleteStep, RenameToStep, ExportStep, BeginStep, LineStep,
     InsertStep
     DEF Next, Import

(* The types, and the unique index on external references, for any issues, *)
(* clones and times: no command and no import, whatever the file, gives    *)
(* two issues one reference.                                               *)
THEOREM TypeCorrect == Spec => []TypeOK
<1>1. Spec => []Sound
  BY SoundInit, SoundStep, PTL DEF Spec
<1> QED BY <1>1, SoundTypes, PTL

-----------------------------------------------------------------------------
(* An import takes nothing back.                                           *)

(* As in NothingUndone: the issue has its content or that of a newer line. *)
Kept(c, i) ==
  /\ i \in DOMAIN db[c]
  /\ \/ db[c][i].what = before[i].what
     \/ \E j \in DOMAIN file : file[j].what = db[c][i].what /\ file[j].at > before[i].at

(* No line to come matches the issue i, if it is one, as it was: neither   *)
(* by its hash, which the import has seen, nor by its reference.           *)
Settled(i) == i \in DOMAIN before => before[i].hash \in hashes /\ before[i].what.ref = {}

(* Its content is under another ID, where nothing will replace it.         *)
Moved(c, i) ==
  \E j \in (DOMAIN file \cap DOMAIN db[c]) \ {i} :
    /\ file[j].what = before[i].hash /\ db[c][j].what = before[i].hash
    /\ j \notin todo /\ Settled(j)

Importing(c) ==
  /\ \A i \in DOMAIN before : Kept(c, i) \/ Moved(c, i)
  /\ \A i \in DOMAIN before \ DOMAIN db[c] : Settled(i)
  /\ \A i \in todo \cap DOMAIN before \cap DOMAIN db[c] :
       i \in byID /\ (db[c][i].what = before[i].what \/ db[c][i].what \in hashes)

Careful == \A c \in importer : Importing(c)

LEMMA BeforeIsGood ==
  ASSUME Sound, NEW e \in DOMAIN before
  PROVE  Hashed(before[e]) /\ before[e] \in Rows
BY DEF Sound, Batch, GoodTable, GoodRow

(* What was matched by its hash has no reference, or it would have been    *)
(* matched by that, and was not matched before.                            *)
LEMMA ByHashIs ==
  ASSUME Sound, ~Skipped, ByRef = {}, NEW e \in ByHash
  PROVE  /\ e \in DOMAIN before /\ before[e].hash = Line.what /\ Line.what.ref = {}
         /\ before[e].what.ref = {} /\ Line.what \notin hashes /\ ~Settled(e)
<1>1. e \in DOMAIN before /\ before[e].hash = Line.what
  BY DEF ByHash
<1>2. before[e].what.ref = Line.what.ref
  BY <1>1, BeforeIsGood DEF Hashed
<1>3. Line.what.ref = {}
  BY <1>1, <1>2 DEF ByRef
<1> QED BY <1>1, <1>2, <1>3 DEF Skipped, Settled

LEMMA SameStep ==
  ASSUME Sound, NEW c \in importer, TakeLine(c), Importing(c), UNCHANGED <<db, byID>>
  PROVE  Importing(c)'
<1>1. todo' \subseteq todo /\ hashes \subseteq hashes' /\ UNCHANGED <<file, before>>
  BY DEF TakeLine
<1>2. \A i : Settled(i) => Settled(i)'
  BY <1>1 DEF Settled
<1>3. \A i \in DOMAIN before : Kept(c, i) \/ Moved(c, i) => Kept(c, i)' \/ Moved(c, i)'
  BY <1>1, <1>2 DEF Kept, Moved
<1> QED BY <1>1, <1>2, <1>3 DEF Importing

LEMMA UpdateStep ==
  ASSUME Sound, NEW c \in importer, TakeLine(c), Importing(c), UNCHANGED byID,
         NEW e \in DOMAIN before, Newer(e), Update(c, e), ~Settled(e) \/ e = Id
  PROVE  Importing(c)'
<1>0. c \in Clones /\ todo # {} /\ Id \in todo /\ Line = file[Id] /\ Id \in DOMAIN file
  BY LineIs DEF TakeLine, Sound, Batch
<1>1. todo' \subseteq todo /\ hashes' = hashes \cup {Line.what} /\ UNCHANGED <<file, before, clock, used>>
  BY DEF TakeLine
<1>2. \A i : Settled(i) => Settled(i)'
  BY <1>1 DEF Settled
<1>3. /\ e \in DOMAIN db[c] /\ DOMAIN db'[c] = DOMAIN db[c]
      /\ db'[c][e].what = Line.what
      /\ \A i \in DOMAIN db[c] \ {e} : db'[c][i] = db[c][i]
  BY <1>0, <1>1, UpdateIs
<1>4. Kept(c, e)'
  BY <1>0, <1>1, <1>3 DEF Kept, Newer
<1>5. ASSUME NEW i \in DOMAIN before \ {e}, Kept(c, i) PROVE Kept(c, i)'
  BY <1>1, <1>3, <1>5 DEF Kept
<1>6. ASSUME NEW i \in DOMAIN before, Moved(c, i) PROVE Moved(c, i)'
  <2>1. PICK j \in (DOMAIN file \cap DOMAIN db[c]) \ {i} :
          /\ file[j].what = before[i].hash /\ db[c][j].what = before[i].hash
          /\ j \notin todo /\ Settled(j)
    BY <1>6 DEF Moved
  <2>2. j # e
    BY <1>0, <2>1
  <2> QED BY <1>1, <1>2, <1>3, <2>1, <2>2 DEF Moved
<1> QED BY <1>1, <1>2, <1>3, <1>4, <1>5, <1>6 DEF Importing

(* An issue goes whose content is now under the ID of the line.            *)
LEMMA MovedStep ==
  ASSUME Sound, NEW c \in importer, TakeLine(c), ~Skipped, Importing(c),
         NEW e \in ByHash, ByRef = {}, e # Id,
         DOMAIN db'[c] = (DOMAIN db[c] \ {e}) \cup {Id}, db'[c][Id].what = Line.what,
         \A i \in DOMAIN db[c] \ {e, Id} : db'[c][i] = db[c][i],
         Id \in DOMAIN db[c] => db'[c][Id] = db[c][Id],
         byID \ {e} \subseteq byID'
  PROVE  Importing(c)'
<1>0. PICK n \in todo : n = Id /\ Line = file[n] /\ n \in DOMAIN file
  BY LineIs DEF TakeLine
<1>1. todo' = todo \ {n} /\ hashes' = hashes \cup {Line.what} /\ UNCHANGED <<file, before>>
  BY <1>0 DEF TakeLine
<1>2. \A i : Settled(i) => Settled(i)'
  BY <1>1 DEF Settled
<1>3. /\ e \in DOMAIN before /\ before[e].hash = Line.what /\ Line.what.ref = {}
      /\ before[e].what.ref = {} /\ Line.what \notin hashes /\ ~Settled(e)
  BY ByHashIs
<1>4. Settled(e)'
  BY <1>1, <1>3 DEF Settled
<1>5. Settled(n)'
  <2>1. CASE n \notin DOMAIN before
    BY <1>1, <2>1 DEF Settled
  <2>2. CASE n \in DOMAIN before /\ n \notin DOMAIN db[c]
    BY <1>2, <2>2 DEF Importing
  <2>3. CASE n \in DOMAIN before /\ n \in DOMAIN db[c]
    <3>1. db[c][n].what = Line.what
      BY <1>0, <2>3
    <3>2. before[n].what = Line.what /\ n \in byID
      BY <1>0, <1>3, <2>3, <3>1 DEF Importing
    <3>3. ~before[n].what.dead
      BY <1>0, <2>3, <3>2 DEF Skipped
    <3>4. before[n].hash = Line.what
      BY <2>3, <3>2, <3>3, BeforeIsGood DEF Hashed
    <3> QED BY <1>1, <1>3, <3>2, <3>4 DEF Settled
  <2> QED BY <2>1, <2>2, <2>3
<1>6. Moved(c, e)'
  BY <1>0, <1>1, <1>3, <1>5 DEF Moved
<1>7. ASSUME NEW i \in DOMAIN before, i # e, Kept(c, i) PROVE Kept(c, i)'
  BY <1>0, <1>1, <1>7 DEF Kept
<1>8. ASSUME NEW i \in DOMAIN before, Moved(c, i) PROVE Moved(c, i)'
  <2>1. PICK j \in (DOMAIN file \cap DOMAIN db[c]) \ {i} :
          /\ file[j].what = before[i].hash /\ db[c][j].what = before[i].hash
          /\ j \notin todo /\ Settled(j)
    BY <1>8 DEF Moved
  <2>2. j # e /\ j # n
    BY <1>0, <1>3, <2>1
  <2>3. j \in DOMAIN db'[c] /\ db'[c][j] = db[c][j]
    BY <1>0, <2>1, <2>2
  <2> QED BY <1>1, <1>2, <2>1, <2>3 DEF Moved
<1>9. \A i \in DOMAIN before : Kept(c, i)' \/ Moved(c, i)'
  BY <1>6, <1>7, <1>8 DEF Importing
<1>10. \A i \in DOMAIN before \ DOMAIN db'[c] : Settled(i)'
  BY <1>2, <1>4 DEF Importing
<1>11. ASSUME NEW i \in todo' \cap DOMAIN before \cap DOMAIN db'[c]
       PROVE  i \in byID' /\ (db'[c][i].what = before[i].what \/ db'[c][i].what \in hashes')
  <2>1. i # n /\ i \in todo /\ i \in DOMAIN db[c] \ {e}
    BY <1>0, <1>1, <1>11
  <2> QED BY <1>0, <1>1, <2>1 DEF Importing
<1> QED BY <1>1, <1>9, <1>10, <1>11 DEF Importing

(* What the four ways to treat a line do to the table.                     *)
LEMMA MatchRefStep ==
  ASSUME Sound, NEW c \in importer, Importing(c), MatchRef(c)
  PROVE  Importing(c)'
<1>1. TakeLine(c) /\ UNCHANGED byID
  BY DEF MatchRef
<1>2. PICK e \in ByRef : UpdateIfNewer(c, e)
  BY DEF MatchRef
<1>3. e \in DOMAIN before /\ ~Settled(e)
  BY DEF ByRef, Settled
<1>4. CASE UNCHANGED db
  BY <1>1, <1>4, SameStep
<1>5. CASE Newer(e) /\ Update(c, e)
  BY <1>1, <1>3, <1>5, UpdateStep
<1> QED BY <1>2, <1>4, <1>5 DEF UpdateIfNewer

LEMMA MatchIDStep ==
  ASSUME Sound, NEW c \in importer, Importing(c), MatchID(c)
  PROVE  Importing(c)'
<1>1. TakeLine(c) /\ UNCHANGED byID /\ Id \in byID /\ UpdateIfNewer(c, Id)
  BY DEF MatchID
<1>2. PICK e \in DOMAIN before : e = Id
  BY <1>1 DEF Sound, Batch
<1>3. CASE UNCHANGED db
  BY <1>1, <1>3, SameStep
<1>4. CASE Newer(e) /\ Update(c, e)
  BY <1>1, <1>2, <1>4, UpdateStep
<1> QED BY <1>1, <1>2, <1>3, <1>4 DEF UpdateIfNewer

LEMMA MatchHashStep ==
  ASSUME Sound, NEW c \in importer, Importing(c), MatchHash(c)
  PROVE  Importing(c)'
<1>1. TakeLine(c) /\ ~Skipped /\ ByRef = {} /\ c \in Clones /\ todo # {} /\ UNCHANGED <<clock, used>>
  BY DEF MatchHash, TakeLine, Sound, Batch
<1>2. PICK e \in ByHash :
        \/ e = Id /\ UNCHANGED <<db, byID>>
        \/ e # Id /\ (RenameIsComplete(c, e) \/ OtherContentUnderId(c, e) \/ ImportRename(c, e))
  BY DEF MatchHash
<1>3. e \in DOMAIN before /\ ~Settled(e)
  BY <1>1, ByHashIs
<1>4. CASE UNCHANGED <<db, byID>>
  BY <1>1, <1>4, SameStep
<1>5. CASE e # Id /\ RenameIsComplete(c, e)
  <2>1. /\ Id \in DOMAIN db[c] /\ db[c][Id].what = Line.what
        /\ db' = [db EXCEPT ![c] = Drop(@, e)] /\ byID \ {e} \subseteq byID'
    BY <1>5 DEF RenameIsComplete
  <2>2. /\ DOMAIN db'[c] = DOMAIN db[c] \ {e}
        /\ \A i \in DOMAIN db[c] \ {e} : db'[c][i] = db[c][i]
    BY <1>1, <2>1, DropLineIs
  <2> QED BY <1>1, <1>5, <2>1, <2>2, MovedStep
<1>6. CASE e # Id /\ OtherContentUnderId(c, e)
  <2>1. UNCHANGED byID /\ (UNCHANGED db \/ (Newer(e) /\ Update(c, e)))
    BY <1>6 DEF OtherContentUnderId
  <2> QED BY <1>1, <1>3, <2>1, SameStep, UpdateStep
<1>7. CASE e # Id /\ ImportRename(c, e)
  <2>1. byID' = byID \ {e}
    BY <1>7 DEF ImportRename
  <2>2. /\ Id \notin DOMAIN db[c] /\ e \in DOMAIN db[c]
        /\ DOMAIN db'[c] = (DOMAIN db[c] \ {e}) \cup {Id}
        /\ db'[c][Id].what = Line.what
        /\ \A i \in DOMAIN db[c] \ {e} : db'[c][i] = db[c][i]
    BY <1>1, <1>7, ImportRenameIs
  <2> QED BY <1>1, <1>7, <2>1, <2>2, MovedStep
<1> QED BY <1>2, <1>4, <1>5, <1>6, <1>7

LEMMA InsertKeeps ==
  ASSUME Sound, NEW c \in importer, Importing(c), Insert(c)
  PROVE  Importing(c)'
<1>1. /\ DOMAIN db'[c] = DOMAIN db[c] \cup newIssues
      /\ \A i \in DOMAIN db[c] : db'[c][i] = db[c][i]
  BY InsertStep DEF Sound, Batch
<1>2. UNCHANGED <<file, before, todo, hashes, byID>> /\ todo = {}
  BY DEF Insert
<1>3. \A i : Settled(i) => Settled(i)'
  BY <1>2 DEF Settled
<1>4. \A i \in DOMAIN before : Kept(c, i) => Kept(c, i)'
  BY <1>1, <1>2 DEF Kept
<1>5. \A i \in DOMAIN before : Moved(c, i) => Moved(c, i)'
  BY <1>1, <1>2, <1>3 DEF Moved
<1> QED BY <1>1, <1>2, <1>3, <1>4, <1>5 DEF Importing

LEMMA CarefulStep == Sound /\ Careful /\ [Next]_vars => Careful'
<1> SUFFICES ASSUME Sound, Careful, [Next]_vars, NEW c \in importer' PROVE Importing(c)'
  BY DEF Careful
<1>1. CASE UNCHANGED vars
  BY <1>1, ZenonT(60) DEF vars, batch, Careful, Importing, Kept, Moved, Settled
<1>2. ASSUME NEW d \in Clones, BeginImport(d) PROVE Importing(c)'
  <2>1. c = d /\ db' = db /\ before' = db[c] /\ byID' = DOMAIN db[c]
    BY <1>2 DEF BeginImport
  <2> QED BY <2>1 DEF Importing, Kept
(* Nothing but the import runs while there is one.                         *)
<1>3. ASSUME importer = {}, UNCHANGED importer PROVE FALSE
  BY <1>3
<1>4. ASSUME NEW d \in Clones, Import(d) PROVE Importing(c)'
  <2>1. importer = {d}
    BY <1>4 DEF Import, Skip, MatchRef, MatchHash, MatchID, New, TakeLine, Insert, Commit
  <2>2. CASE Commit(d)
    BY <2>2 DEF Commit
  <2>3. CASE ~Commit(d)
    <3>1. c = d /\ c \in importer /\ Importing(c)
      BY <1>4, <2>1, <2>3
         DEF Import, Skip, MatchRef, MatchHash, MatchID, New, TakeLine, Insert, Careful
    <3>2. CASE Skip(c) \/ New(c)
      <4>1. TakeLine(c) /\ UNCHANGED <<db, byID>>
        BY <3>2 DEF Skip, New
      <4> QED BY <3>1, <4>1, SameStep
    <3> QED
      BY <1>4, <2>3, <3>1, <3>2, MatchRefStep, MatchHashStep, MatchIDStep, InsertKeeps DEF Import
  <2> QED BY <2>2, <2>3
<1>5. ASSUME NEW d \in Clones, NEW i \in Ids,
             Create(d, i) \/ Edit(d, i) \/ Delete(d, i) \/ \E j \in Ids : RenameTo(d, i, j)
      PROVE  FALSE
  BY <1>3, <1>5 DEF Create, Edit, Delete, RenameTo, Command, batch
<1>6. ASSUME NEW d \in Clones, Export(d) PROVE FALSE
  BY <1>3, <1>6 DEF Export, batch
<1> QED BY <1>1, <1>2, <1>4, <1>5, <1>6 DEF Next

LEMMA CarefulAlways == Spec => [](Sound /\ Careful)
<1>1. Init => Sound /\ Careful
  BY SoundInit DEF Init, Careful
<1>2. Sound /\ Careful /\ [Next]_vars => Sound' /\ Careful'
  BY SoundStep, CarefulStep
<1> QED BY <1>1, <1>2, PTL DEF Spec

(* An import takes nothing back, whatever the file and the database: an    *)
(* issue is as it was, or has the content of a line newer than it was, or  *)
(* its content is now under the ID of another line that has it - although  *)
(* the lines are matched with issues as they were read, one after the      *)
(* other, by reference, by hash and by ID.                                 *)
THEOREM ImportsTakeNothingBack == Spec => []NothingUndone
<1>1. Careful => NothingUndone
  BY DEF Careful, Importing, Kept, Moved, NothingUndone
<1> QED BY <1>1, CarefulAlways, PTL

-----------------------------------------------------------------------------
(* An import goes through.                                                 *)

(* A reference belongs to the issue that had it when the issues were read, *)
(* or else to the issue whose line in the file has it.                     *)
Owner(i, ref) == i \in DOMAIN before /\ before[i].what.ref = ref

Unowned(ref) == \A i : ~Owner(i, ref)

OfLine(i, ref) == i \in DOMAIN file \ todo /\ file[i].what.ref = ref /\ Unowned(ref)

RefsInPlace(c) ==
  \A i \in DOMAIN db[c] :
    db[c][i].what.ref # {} => Owner(i, db[c][i].what.ref) \/ OfLine(i, db[c][i].what.ref)

KeysInPlace(c) ==
  /\ byID \subseteq DOMAIN db[c]
  /\ DOMAIN db[c] \cap todo \subseteq DOMAIN before
  /\ newIssues \cap DOMAIN db[c] = {}
  /\ \A i \in newIssues : file[i].what.ref # {} => Unowned(file[i].what.ref)

Orderly == \A c \in importer : Importing(c) /\ RefsInPlace(c) /\ KeysInPlace(c)

LEMMA OneOwner ==
  ASSUME Sound, NEW i, NEW j, NEW ref, ref # {}, Owner(i, ref), Owner(j, ref)
  PROVE  i = j
BY DEF Sound, Batch, GoodTable, RefFree, Owner

LEMMA OneLine ==
  ASSUME Sound, NEW i \in DOMAIN file, NEW j \in DOMAIN file, file[i].what.ref # {},
         file[i].what.ref = file[j].what.ref
  PROVE  i = j
BY DEF Sound, GoodFile, RefFree

LEMMA OrderlyPasses == Sound /\ Orderly => NeverFails
<1> SUFFICES ASSUME Sound, NEW c \in importer, Importing(c), RefsInPlace(c), KeysInPlace(c)
             PROVE  Passes(c)
  BY DEF Orderly, NeverFails
<1>1. ASSUME NEW e \in ByRef PROVE CanUpdate(c, e)
  <2>1. Owner(e, Line.what.ref) /\ Line.what.ref # {}
    BY DEF ByRef, Owner
  <2>2. e \in DOMAIN db[c]
    BY <2>1 DEF Importing, Settled, Owner
  <2>3. \A i \in DOMAIN db[c] : db[c][i].what.ref = Line.what.ref => Owner(i, Line.what.ref)
    BY <2>1 DEF RefsInPlace, OfLine, Unowned
  <2>4. \A i \in DOMAIN db[c] \ {e} : db[c][i].what.ref # Line.what.ref
    BY <2>1, <2>3, OneOwner
  <2> QED BY <2>2, <2>4 DEF CanUpdate, RefFree
<1>2. ASSUME ~Skipped, ByRef = {}, NEW e \in ByHash PROVE CanUpdate(c, e) /\ CanRename(c, e)
  <2>1. e \in DOMAIN before /\ Line.what.ref = {} /\ ~Settled(e)
    BY <1>2, ByHashIs
  <2>2. e \in DOMAIN db[c]
    BY <2>1 DEF Importing
  <2> QED BY <2>1, <2>2 DEF CanUpdate, CanRename, RefFree
<1>3. ASSUME todo # {}, ByRef = {}, Id \in byID PROVE CanUpdate(c, Id)
  <2>1. Id \in DOMAIN db[c]
    BY <1>3 DEF KeysInPlace
  <2>2. Id \in DOMAIN file /\ Line = file[Id]
    BY <1>3, LineIs
  <2>3. Line.what.ref # {} => Unowned(Line.what.ref)
    BY <1>3 DEF ByRef, Unowned, Owner
  <2>4. ASSUME NEW i \in DOMAIN db[c] \ {Id}, Line.what.ref # {} PROVE db[c][i].what.ref # Line.what.ref
    <3>1. OfLine(i, Line.what.ref) => i = Id
      BY <2>2, <2>4, OneLine DEF OfLine
    <3> QED BY <2>3, <2>4, <3>1 DEF RefsInPlace, Unowned
  <2> QED BY <2>1, <2>4 DEF CanUpdate, RefFree
<1>4. ASSUME NEW i \in newIssues PROVE RefFree(Inserted(c), i, file[i].what.ref)
  <2>1. i \in DOMAIN file /\ newIssues \subseteq DOMAIN file
    BY DEF Sound, Batch
  <2> SUFFICES ASSUME file[i].what.ref # {}, NEW j \in DOMAIN Inserted(c) \ {i}
               PROVE  Inserted(c)[j].what.ref # file[i].what.ref
    BY DEF RefFree
  <2>2. CASE j \in newIssues
    <3>1. Inserted(c)[j].what = file[j].what
      BY <2>2 DEF Inserted, Row
    <3> QED BY <2>1, <2>2, <3>1, OneLine
  <2>3. CASE j \notin newIssues
    <3>1. j \in DOMAIN db[c] /\ Inserted(c)[j] = db[c][j]
      BY <2>3 DEF Inserted
    <3>2. Unowned(file[i].what.ref)
      BY DEF KeysInPlace
    <3>3. OfLine(j, file[i].what.ref) => j = i
      BY <2>1, OneLine DEF OfLine
    <3> QED BY <3>1, <3>2, <3>3 DEF RefsInPlace, Unowned
  <2> QED BY <2>2, <2>3
<1> QED BY <1>1, <1>2, <1>3, <1>4 DEF Passes, KeysInPlace

(* The references stay in place: a row that a line changes has no          *)
(* reference, or the one it had, or one that nobody had and its own line   *)
(* has.                                                                    *)
LEMMA LineInPlace ==
  ASSUME Sound, NEW c \in importer, TakeLine(c), RefsInPlace(c),
         \A i \in DOMAIN db'[c] :
           \/ i \in DOMAIN db[c] /\ db'[c][i] = db[c][i]
           \/ db'[c][i].what.ref = {}
           \/ Owner(i, db'[c][i].what.ref)
           \/ i = Id /\ db'[c][i].what = Line.what /\ ByRef = {}
  PROVE  RefsInPlace(c)'
<1>0. PICK n \in todo : n = Id /\ Line = file[n] /\ n \in DOMAIN file
  BY LineIs DEF TakeLine
<1>1. todo' = todo \ {n} /\ UNCHANGED <<file, before>>
  BY <1>0 DEF TakeLine
<1>2. \A i, ref : Owner(i, ref) => Owner(i, ref)'
  BY <1>1 DEF Owner
<1>3. \A ref : Unowned(ref) => Unowned(ref)'
  BY <1>1 DEF Unowned, Owner
<1>4. \A i, ref : OfLine(i, ref) => OfLine(i, ref)'
  BY <1>1, <1>3 DEF OfLine
<1>5. ASSUME NEW i \in DOMAIN db'[c], db'[c][i].what.ref # {}
      PROVE  (Owner(i, db[c][i].what.ref) \/ OfLine(i, db[c][i].what.ref))'
  <2>1. CASE i \in DOMAIN db[c] /\ db'[c][i] = db[c][i]
    BY <1>2, <1>4, <1>5, <2>1 DEF RefsInPlace
  <2>2. CASE Owner(i, db'[c][i].what.ref)
    BY <1>2, <2>2
  <2>3. CASE i = Id /\ db'[c][i].what = Line.what /\ ByRef = {}
    <3>1. Unowned(file[n].what.ref)
      BY <1>0, <1>5, <2>3 DEF ByRef, Unowned, Owner
    <3> QED BY <1>0, <1>1, <1>3, <2>3, <3>1 DEF OfLine
  <2> QED BY <1>5, <2>1, <2>2, <2>3
<1> QED BY <1>5 DEF RefsInPlace

(* ... and so do the keys, when the line is not put aside.                 *)
LEMMA LineKeys ==
  ASSUME Sound, NEW c \in importer, TakeLine(c), KeysInPlace(c), UNCHANGED newIssues,
         byID' \subseteq byID, byID' \subseteq DOMAIN db'[c],
         DOMAIN db'[c] \subseteq DOMAIN db[c] \cup {Id}
  PROVE  KeysInPlace(c)'
<1>0. PICK n \in todo : n = Id
  BY LineIs DEF TakeLine
<1>1. todo' = todo \ {n} /\ UNCHANGED <<file, before>>
  BY <1>0 DEF TakeLine
<1>2. \A ref : Unowned(ref) => Unowned(ref)'
  BY <1>1 DEF Unowned, Owner
<1>3. DOMAIN db'[c] \cap todo' \subseteq DOMAIN before'
  BY <1>0, <1>1 DEF KeysInPlace
<1>4. newIssues' \cap DOMAIN db'[c] = {}
  BY <1>0 DEF KeysInPlace, Sound, Batch
<1>5. \A i \in newIssues' : file'[i].what.ref # {} => Unowned(file[i].what.ref)'
  BY <1>1, <1>2 DEF KeysInPlace
<1> QED BY <1>3, <1>4, <1>5 DEF KeysInPlace

LEMMA SkipInPlace ==
  ASSUME Sound, NEW c \in importer, RefsInPlace(c), KeysInPlace(c), TakeLine(c),
         UNCHANGED <<db, byID, newIssues>>
  PROVE  RefsInPlace(c)' /\ KeysInPlace(c)'
<1>1. byID' \subseteq DOMAIN db'[c] /\ DOMAIN db'[c] = DOMAIN db[c]
  BY DEF KeysInPlace
<1> QED BY <1>1, LineInPlace, LineKeys

LEMMA UpdateInPlace ==
  ASSUME Sound, NEW c \in importer, RefsInPlace(c), KeysInPlace(c), TakeLine(c),
         UNCHANGED <<byID, newIssues>>, NEW e, Update(c, e),
         \/ Line.what.ref = {}
         \/ Owner(e, Line.what.ref)
         \/ e = Id /\ ByRef = {}
  PROVE  RefsInPlace(c)' /\ KeysInPlace(c)'
<1>1. c \in Clones /\ todo # {} /\ UNCHANGED <<clock, used>>
  BY DEF TakeLine, Sound, Batch
<1>2. /\ e \in DOMAIN db[c] /\ DOMAIN db'[c] = DOMAIN db[c]
      /\ db'[c][e].what = Line.what
      /\ \A i \in DOMAIN db[c] \ {e} : db'[c][i] = db[c][i]
  BY <1>1, UpdateIs
<1>3. byID' \subseteq DOMAIN db'[c]
  BY <1>2 DEF KeysInPlace
<1>4. ASSUME NEW i \in DOMAIN db'[c]
      PROVE  \/ i \in DOMAIN db[c] /\ db'[c][i] = db[c][i]
             \/ db'[c][i].what.ref = {}
             \/ Owner(i, db'[c][i].what.ref)
             \/ i = Id /\ db'[c][i].what = Line.what /\ ByRef = {}
  BY <1>2
<1> QED BY <1>2, <1>3, <1>4, LineInPlace, LineKeys

LEMMA HashInPlace ==
  ASSUME Sound, NEW c \in importer, RefsInPlace(c), KeysInPlace(c), MatchHash(c)
  PROVE  RefsInPlace(c)' /\ KeysInPlace(c)'
<1>1. /\ TakeLine(c) /\ ~Skipped /\ ByRef = {} /\ c \in Clones /\ todo # {}
      /\ UNCHANGED <<clock, used, newIssues>>
  BY DEF MatchHash, TakeLine, Sound, Batch
<1>2. PICK e \in ByHash :
        \/ e = Id /\ UNCHANGED <<db, byID>>
        \/ e # Id /\ (RenameIsComplete(c, e) \/ OtherContentUnderId(c, e) \/ ImportRename(c, e))
  BY DEF MatchHash
<1>3. Line.what.ref = {}
  BY <1>1, ByHashIs
<1>4. CASE UNCHANGED <<db, byID>>
  BY <1>1, <1>4, SkipInPlace
<1>5. CASE RenameIsComplete(c, e)
  <2>1. db' = [db EXCEPT ![c] = Drop(@, e)] /\ byID' = byID \ (DOMAIN db[c] \cap {e})
    BY <1>5 DEF RenameIsComplete
  <2>2. /\ DOMAIN db'[c] = DOMAIN db[c] \ {e}
        /\ \A i \in DOMAIN db[c] \ {e} : db'[c][i] = db[c][i]
    BY <1>1, <2>1, DropLineIs
  <2>3. byID' \subseteq byID /\ byID' \subseteq DOMAIN db'[c]
    BY <2>1, <2>2 DEF KeysInPlace
  <2> QED BY <1>1, <2>2, <2>3, LineInPlace, LineKeys
<1>6. CASE OtherContentUnderId(c, e)
  <2>1. UNCHANGED byID /\ (UNCHANGED db \/ Update(c, e))
    BY <1>6 DEF OtherContentUnderId
  <2> QED BY <1>1, <1>3, <1>4, <2>1, UpdateInPlace
<1>7. CASE ImportRename(c, e)
  <2>1. byID' = byID \ {e}
    BY <1>7 DEF ImportRename
  <2>2. /\ DOMAIN db'[c] = (DOMAIN db[c] \ {e}) \cup {Id}
        /\ db'[c][Id].what = Line.what
        /\ \A i \in DOMAIN db[c] \ {e} : db'[c][i] = db[c][i]
    BY <1>1, <1>7, ImportRenameIs
  <2>3. byID' \subseteq byID /\ byID' \subseteq DOMAIN db'[c]
    BY <2>1, <2>2 DEF KeysInPlace
  <2>4. ASSUME NEW i \in DOMAIN db'[c]
        PROVE  (i \in DOMAIN db[c] /\ db'[c][i] = db[c][i]) \/ db'[c][i].what.ref = {}
    BY <1>3, <2>2
  <2> QED BY <1>1, <2>2, <2>3, <2>4, LineInPlace, LineKeys
<1> QED BY <1>2, <1>4, <1>5, <1>6, <1>7

LEMMA NewInPlace ==
  ASSUME Sound, NEW c \in importer, Importing(c), RefsInPlace(c), KeysInPlace(c), New(c)
  PROVE  RefsInPlace(c)' /\ KeysInPlace(c)'
<1>1. TakeLine(c) /\ ByRef = {} /\ Id \notin byID /\ UNCHANGED <<db, byID>>
  BY DEF New
<1>2. PICK n \in todo : n = Id /\ Line = file[n]
  BY <1>1, LineIs DEF TakeLine
<1>3. todo' = todo \ {n} /\ newIssues' = newIssues \cup {n} /\ UNCHANGED <<file, before>>
  BY <1>1, <1>2 DEF New, TakeLine
<1>4. n \notin DOMAIN db[c]
  BY <1>1, <1>2 DEF Importing, KeysInPlace
<1>5. file[n].what.ref # {} => Unowned(file[n].what.ref)
  BY <1>1, <1>2 DEF ByRef, Unowned, Owner
<1>6. \A ref : Unowned(ref) => Unowned(ref)'
  BY <1>3 DEF Unowned, Owner
<1>7. KeysInPlace(c)'
  BY <1>1, <1>3, <1>4, <1>5, <1>6 DEF KeysInPlace
<1>8. RefsInPlace(c)'
  BY <1>1, LineInPlace
<1> QED BY <1>7, <1>8

LEMMA InsertInPlace ==
  ASSUME Sound, NEW c \in importer, RefsInPlace(c), KeysInPlace(c), Insert(c)
  PROVE  RefsInPlace(c)' /\ KeysInPlace(c)'
<1>1. /\ todo = {} /\ newIssues' = {} /\ UNCHANGED <<file, before, todo, byID>>
      /\ db' = [db EXCEPT ![c] = Inserted(c)] /\ c \in Clones /\ DOMAIN db = Clones
  BY DEF Insert, Sound, Batch, Databases
<1>2. /\ DOMAIN db'[c] = DOMAIN db[c] \cup newIssues
      /\ \A i \in DOMAIN db[c] : db'[c][i] = db[c][i]
  BY <1>1, InsertStep
<1>3. \A i \in newIssues : db'[c][i].what = file[i].what
  BY <1>1 DEF Inserted, Row
<1>4. KeysInPlace(c)'
  BY <1>1, <1>2 DEF KeysInPlace
<1>5. \A i, ref : Owner(i, ref) => Owner(i, ref)'
  BY <1>1 DEF Owner
<1>6. \A i, ref : OfLine(i, ref) => OfLine(i, ref)'
  BY <1>1 DEF OfLine, Unowned, Owner
<1>7. ASSUME NEW i \in DOMAIN db'[c], db'[c][i].what.ref # {}
      PROVE  Owner(i, db'[c][i].what.ref) \/ OfLine(i, db'[c][i].what.ref)
  <2>1. CASE i \in DOMAIN db[c]
    BY <1>2, <1>7, <2>1 DEF RefsInPlace
  <2>2. CASE i \in newIssues
    <3>1. i \in DOMAIN file \ todo
      BY <2>2 DEF Sound, Batch
    <3> QED BY <1>3, <1>7, <2>2, <3>1 DEF OfLine, KeysInPlace
  <2> QED BY <1>2, <2>1, <2>2
<1>8. RefsInPlace(c)'
  BY <1>5, <1>6, <1>7 DEF RefsInPlace
<1> QED BY <1>4, <1>8

LEMMA OrderlyStep == Sound /\ Orderly /\ [Next]_vars => Orderly'
<1>0. Sound /\ Orderly /\ [Next]_vars => Careful'
  BY CarefulStep DEF Orderly, Careful
<1> SUFFICES ASSUME Sound, Orderly, [Next]_vars, NEW c \in importer'
             PROVE  RefsInPlace(c)' /\ KeysInPlace(c)'
  BY <1>0 DEF Orderly, Careful
<1>1. CASE UNCHANGED vars
  BY <1>1 DEF vars, batch, Orderly, RefsInPlace, KeysInPlace, Owner, OfLine, Unowned
<1>2. ASSUME NEW d \in Clones, BeginImport(d) PROVE RefsInPlace(c)' /\ KeysInPlace(c)'
  <2>1. c = d /\ db' = db /\ before' = db[c] /\ byID' = DOMAIN db[c] /\ newIssues' = {}
    BY <1>2 DEF BeginImport
  <2> QED BY <2>1 DEF RefsInPlace, KeysInPlace, Owner
<1>3. ASSUME importer = {}, UNCHANGED importer PROVE FALSE
  BY <1>3
<1>4. ASSUME NEW d \in Clones, Import(d) PROVE RefsInPlace(c)' /\ KeysInPlace(c)'
  <2>1. importer = {d}
    BY <1>4 DEF Import, Skip, MatchRef, MatchHash, MatchID, New, TakeLine, Insert, Commit
  <2>2. CASE Commit(d)
    BY <2>2 DEF Commit
  <2>3. CASE ~Commit(d)
    <3>1. c = d /\ c \in importer /\ Importing(c) /\ RefsInPlace(c) /\ KeysInPlace(c)
      BY <1>4, <2>1, <2>3
         DEF Import, Skip, MatchRef, MatchHash, MatchID, New, TakeLine, Insert, Orderly
    <3>2. CASE Skip(c)
      BY <3>1, <3>2, SkipInPlace DEF Skip
    <3>3. CASE MatchRef(c)
      <4>1. TakeLine(c) /\ UNCHANGED <<byID, newIssues>>
        BY <3>3 DEF MatchRef
      <4>2. PICK e \in ByRef : UNCHANGED db \/ Update(c, e)
        BY <3>3 DEF MatchRef, UpdateIfNewer
      <4>3. Owner(e, Line.what.ref)
        BY DEF ByRef, Owner
      <4> QED BY <3>1, <4>1, <4>2, <4>3, SkipInPlace, UpdateInPlace
    <3>4. CASE MatchID(c)
      <4>1. TakeLine(c) /\ ByRef = {} /\ UNCHANGED <<byID, newIssues>>
        BY <3>4 DEF MatchID
      <4>2. UNCHANGED db \/ Update(c, Id)
        BY <3>4 DEF MatchID, UpdateIfNewer
      <4> QED BY <3>1, <4>1, <4>2, SkipInPlace, UpdateInPlace
    <3> QED
      BY <1>4, <2>3, <3>1, <3>2, <3>3, <3>4, HashInPlace, NewInPlace, InsertInPlace DEF Import
  <2> QED BY <2>2, <2>3
<1>5. ASSUME NEW d \in Clones, NEW i \in Ids,
             Create(d, i) \/ Edit(d, i) \/ Delete(d, i) \/ \E j \in Ids : RenameTo(d, i, j)
      PROVE  FALSE
  BY <1>3, <1>5 DEF Create, Edit, Delete, RenameTo, Command, batch
<1>6. ASSUME NEW d \in Clones, Export(d) PROVE FALSE
  BY <1>3, <1>6 DEF Export, batch
<1> QED BY <1>1, <1>2, <1>4, <1>5, <1>6 DEF Next

(* Every import goes through that is not refused at its start, whatever    *)
(* the database and the file: an update finds its row, and no update, no   *)
(* rename and no insertion meets an ID or a reference that another issue   *)
(* has.  (upsertIssuesTx: a reference is looked up before anything else,   *)
(* deletedID leaves dbByID, and tombstones are read along.)                *)
THEOREM ImportsGoThrough == Spec => []NeverFails
<1>1. Init => Sound /\ Orderly
  BY SoundInit DEF Init, Orderly
<1>2. Sound /\ Orderly /\ [Next]_vars => Sound' /\ Orderly'
  BY SoundStep, OrderlyStep
<1>3. Spec => [](Sound /\ Orderly)
  BY <1>1, <1>2, PTL DEF Spec
<1>4. Sound /\ Orderly => NeverFails
  BY OrderlyPasses
<1> QED BY <1>3, <1>4, PTL
=============================================================================
