---------------------------- MODULE AutoSyncProofs ----------------------------
(***************************************************************************)
(* Safety of one clone for any issues and any number of commands: first    *)
(* for any number of processes that run at once, then what holds as long   *)
(* as commands run one after the other.                                    *)
(***************************************************************************)
EXTENDS AutoSync, FiniteSetTheorems, TLAPS

USE AutoSyncAssumption

-----------------------------------------------------------------------------
(* Types.                                                                  *)

LEMMA NoneOK == None \in Rec /\ None.at = 0 /\ None.edit = 0 /\ None.dead = FALSE
BY DEF None, Rec

LEMMA EmptyOK == Empty \in Lines /\ \A i \in Issues : Empty[i] = None
BY NoneOK DEF Empty, Lines

Tables ==
  /\ clock \in Nat
  /\ db \in Lines /\ file \in Lines /\ incoming \in Lines
  /\ dirty \subseteq Issues
  /\ contentHash \subseteq Lines /\ fileHash \subseteq Lines

Locals ==
  /\ pc \in [Procs -> MainPCs] /\ cmd \in [Procs -> Kinds]
  /\ target \in [Procs -> SUBSET Issues] /\ stamp \in [Procs -> Nat]
  /\ seen \in [Procs -> Lines]
  /\ fl \in [Procs -> FlushPCs]
  /\ ids \in [Procs -> SUBSET Issues] /\ snap \in [Procs -> Lines]
  /\ stored \in [Procs -> SUBSET Lines]

Flags == due \in [Procs -> BOOLEAN] /\ full \in [Procs -> BOOLEAN]

Exited ==
  \A p \in Procs : pc[p] \in {"idle", "overtaken"} => fl[p] = "idle" /\ ~due[p]

LEMMA TypeParts == TypeOK <=> Tables /\ Locals /\ Flags /\ Exited
BY DEF TypeOK, Tables, Locals, Flags, Exited

LEMMA UpsertOK ==
  ASSUME NEW cur \in Rec, NEW in \in Rec, NEW now \in Nat
  PROVE  Upsert(cur, in, now) \in Rec
BY DEF Upsert, Rec

LEMMA NewerOK ==
  ASSUME NEW r \in Rec, NEW s \in Rec
  PROVE  Newer(r, s) \in Rec
BY DEF Newer

LEMMA HashOK == \A lines \in Lines : HashOf(lines) \subseteq Lines
BY DEF HashOf

LEMMA TypedInit == Init => TypeOK
<1> SUFFICES ASSUME Init PROVE TypeOK
  OBVIOUS
<1>1. db \in Lines
  BY NoneOK DEF Init, Lines, Rec
<1>2. Tables
  BY <1>1, EmptyOK, HashOK DEF Init, Tables
<1>3. Locals
  BY EmptyOK DEF Init, Locals, MainPCs, FlushPCs, Kinds, NoHash
<1>4. Flags /\ Exited
  BY DEF Init, Flags, Exited
<1> QED BY <1>2, <1>3, <1>4, TypeParts

LEMMA TablesStep == TypeOK /\ [Next]_vars => Tables'
<1> SUFFICES ASSUME TypeOK, Next PROVE Tables'
  BY DEF vars, store, hashes, world, main, flush, TypeOK, Tables
<1>0. Tables /\ Locals
  BY TypeParts
<1>1. ASSUME NEW i \in Issues, NEW dead \in BOOLEAN, RemoteEdit(i, dead) PROVE Tables'
  <2>1. [edit |-> clock + 1, at |-> clock + 1, dead |-> dead] \in Rec /\ clock + 1 \in Nat
    BY <1>0 DEF Tables, Rec
  <2> QED BY <1>0, <1>1, <2>1 DEF RemoteEdit, Tables, Lines, store, hashes
<1>2. CASE GitPull
  <2>1. \A i \in Issues : (IF incoming[i] = None THEN file[i] ELSE Newer(incoming[i], file[i])) \in Rec
    BY <1>0, NewerOK DEF Tables, Lines
  <2>2. file' \in Lines
    BY <1>2, <2>1 DEF GitPull, Lines
  <2> QED BY <1>0, <1>2, <2>2, EmptyOK DEF GitPull, Tables, store, hashes
<1>3. ASSUME NEW p \in Procs, Process(p) PROVE Tables'
  <2>1. CASE UNCHANGED <<clock, store, hashes, world>>
    BY <1>0, <2>1 DEF Tables, store, hashes, world
  <2>2. CASE ImportTx(p)
    <3>1. clock + 1 \in Nat
      BY <1>0 DEF Tables
    <3>2. \A i \in Issues : Upsert(db[i], seen[p][i], clock + 1) \in Rec
      BY <1>0, <3>1, UpsertOK DEF Tables, Locals, Lines
    <3>3. db' \in Lines
      BY <2>2, <3>2 DEF ImportTx, Lines
    <3>4. dirty' \subseteq Issues /\ clock' \in Nat
      BY <1>0, <2>2, <3>1 DEF ImportTx, Tables
    <3> QED BY <1>0, <2>2, <3>3, <3>4 DEF ImportTx, Tables, hashes, world
  <2>3. CASE ImportDone(p)
    <3>1. HashOf(seen[p]) \subseteq Lines
      BY <1>0, HashOK DEF Locals
    <3> QED BY <1>0, <2>3, <3>1 DEF ImportDone, Tables, store, world
  <2>4. ASSUME NEW i \in Issues, Resolve(p, i) PROVE Tables'
    BY <1>0, <2>4 DEF Resolve, Tables, store, hashes, world
  <2>5. CASE Commit(p)
    <3>1. PICK i \in target[p] :
            /\ db' = [db EXCEPT ![i] =
                        [edit |-> stamp[p], at |-> stamp[p],
                         dead |-> cmd[p] = "delete" \/ (cmd[p] = "edit" /\ db[i].dead)]]
            /\ dirty' = dirty \cup {i}
      BY <2>5 DEF Commit
    <3>2. i \in Issues /\ stamp[p] \in Nat /\ db[i].dead \in BOOLEAN
      BY <1>0 DEF Tables, Locals, Lines, Rec
    <3>3. (cmd[p] = "delete" \/ (cmd[p] = "edit" /\ db[i].dead)) \in BOOLEAN
      OBVIOUS
    <3>4. db' \in Lines /\ dirty' \subseteq Issues
      BY <1>0, <3>1, <3>2, <3>3 DEF Tables, Lines, Rec
    <3> QED BY <1>0, <2>5, <3>4 DEF Commit, Tables, hashes, world
  <2>6. CASE FlushCheck(p)
    BY <1>0, <2>6 DEF FlushCheck, Tables, NoHash, store, world
  <2>7. CASE FlushWrite(p)
    BY <1>0, <2>7 DEF FlushWrite, Tables, Locals, store, hashes
  <2>8. CASE FlushClear(p)
    BY <1>0, <2>8 DEF FlushClear, Tables, hashes, world
  <2>9. CASE FlushContentHash(p) \/ FlushFileHash(p)
    <3>1. HashOf(snap[p]) \subseteq Lines
      BY <1>0, HashOK DEF Locals
    <3> QED BY <1>0, <2>9, <3>1 DEF FlushContentHash, FlushFileHash, Tables, store, world
  <2> QED
    BY <1>3, <2>1, <2>2, <2>3, <2>4, <2>5, <2>6, <2>7, <2>8, <2>9
       DEF Process, Start, Command, Import, ImportRead, NothingToDo, Overtake, Finish,
           ImportSkip, Crash,
           Flush, FlushStart, FlushList, FlushRead, FlushFetch, FlushReread, FlushFail
<1> QED BY <1>1, <1>2, <1>3 DEF Next, Environment

LEMMA LocalsStep == TypeOK /\ [Next]_vars => Locals'
<1> SUFFICES ASSUME Locals, Tables, Next PROVE Locals'
  BY TypeParts DEF vars, main, flush, Locals
<1>1. CASE UNCHANGED <<main, flush>>
  BY <1>1 DEF Locals, main, flush
<1>2. ASSUME NEW p \in Procs, Process(p) PROVE Locals'
  <2> USE DEF Locals, Tables, main, flush, Goto, Step
  <2>1. ASSUME NEW kind \in Commands, Start(p, kind) PROVE Locals'
    BY <2>1 DEF Start, MainPCs
  <2>2. CASE ImportRead(p) \/ ImportTx(p) \/ ImportDone(p) \/ ImportSkip(p)
    BY <2>2, EmptyOK DEF ImportRead, ImportTx, ImportDone, ImportSkip, MainPCs
  <2>3. ASSUME NEW i \in Issues, Resolve(p, i) PROVE Locals'
    BY <2>3 DEF Resolve, MainPCs
  <2>4. CASE Commit(p) \/ NothingToDo(p) \/ Overtake(p) \/ Finish(p)
    BY <2>4 DEF Commit, NothingToDo, Overtake, Finish, MainPCs, Kinds
  <2>5. CASE Crash(p)
    BY <2>5, EmptyOK DEF Crash, MainPCs, FlushPCs, Kinds, NoHash
  <2>6. CASE FlushStart(p) \/ FlushCheck(p)
    BY <2>6 DEF FlushStart, FlushCheck, FlushPCs, NoHash
  <2>7. CASE FlushList(p)
    BY <2>7 DEF FlushList, Exportable, FlushPCs
  <2>8. CASE FlushRead(p)
    BY <2>8, EmptyOK DEF FlushRead, FlushPCs
  <2>9. CASE FlushFetch(p)
    <3>1. ids' \in [Procs -> SUBSET Issues] /\ fl' \in [Procs -> FlushPCs]
      BY <2>9 DEF FlushFetch, FlushPCs
    <3>2. snap' \in [Procs -> Lines]
      <4>1. CASE UNCHANGED snap
        BY <4>1
      <4>2. ASSUME NEW i \in Issues, snap' = [snap EXCEPT ![p][i] = db[i]]
            PROVE  snap' \in [Procs -> Lines]
        <5>1. [snap[p] EXCEPT ![i] = db[i]] \in Lines
          BY DEF Lines
        <5> QED BY <4>2, <5>1
      <4> QED BY <2>9, <4>1, <4>2 DEF FlushFetch
    <3> QED BY <2>9, <3>1, <3>2 DEF FlushFetch
  <2>10. CASE FlushWrite(p) \/ FlushClear(p) \/ FlushReread(p) \/ FlushContentHash(p)
    BY <2>10 DEF FlushWrite, FlushClear, FlushReread, FlushContentHash, FlushPCs
  <2>11. CASE FlushFileHash(p) \/ FlushFail(p)
    BY <2>11, EmptyOK DEF FlushFileHash, FlushFail, FlushPCs, NoHash
  <2> QED
    BY <1>2, <2>1, <2>2, <2>3, <2>4, <2>5, <2>6, <2>7, <2>8, <2>9, <2>10, <2>11
       DEF Process, Command, Import, Flush
<1> QED BY <1>1, <1>2 DEF Next, Environment, RemoteEdit, GitPull

LEMMA FlagsStep == TypeOK /\ [Next]_vars => Flags' /\ Exited'
<1> SUFFICES ASSUME Locals, Flags, Exited, Next PROVE Flags' /\ Exited'
  BY TypeParts DEF vars, main, flush, Flags, Exited
<1>1. CASE UNCHANGED <<pc, fl, due, full>>
  BY <1>1 DEF Flags, Exited
<1>2. ASSUME NEW p \in Procs, Process(p) PROVE Flags' /\ Exited'
  <2> USE DEF Locals, Flags, Exited, main, flush, Goto, Step
  <2>1. ASSUME NEW kind \in Commands, Start(p, kind) PROVE Flags' /\ Exited'
    BY <2>1 DEF Start
  <2>2. CASE ImportRead(p) \/ ImportDone(p) \/ ImportSkip(p) \/ NothingToDo(p)
    BY <2>2 DEF ImportRead, ImportDone, ImportSkip, NothingToDo
  <2>3. CASE ImportTx(p)
    <3>1. \E b \in BOOLEAN : due' = [due EXCEPT ![p] = b]
      BY <2>3 DEF ImportTx
    <3> QED BY <2>3, <3>1 DEF ImportTx
  <2>4. ASSUME NEW i \in Issues, Resolve(p, i) PROVE Flags' /\ Exited'
    BY <2>4 DEF Resolve
  <2>5. CASE Commit(p)
    BY <2>5 DEF Commit
  <2>6. CASE Crash(p)
    BY <2>6 DEF Crash
  <2>7. CASE FlushStart(p)
    BY <2>7 DEF FlushStart
  <2>8. CASE FlushCheck(p)
    <3>1. \E b \in BOOLEAN : full' = [full EXCEPT ![p] = b]
      BY <2>8 DEF FlushCheck
    <3> QED BY <2>8, <3>1 DEF FlushCheck
  <2>9. CASE FlushList(p) \/ FlushRead(p) \/ FlushFetch(p) \/ FlushClear(p) \/ FlushReread(p)
             \/ FlushContentHash(p) \/ FlushFileHash(p)
    BY <2>9 DEF FlushList, FlushRead, FlushFetch, FlushClear, FlushReread, FlushContentHash,
                FlushFileHash
  <2>10. CASE FlushWrite(p) \/ FlushFail(p)
    BY <2>10, ZenonT(60) DEF FlushWrite, FlushFail
  <2>11. CASE Overtake(p) \/ Finish(p)
    <3>1. CASE Overtake(p)
      BY <3>1 DEF Overtake
    <3>2. CASE Finish(p)
      BY <3>2 DEF Finish
    <3> QED BY <2>11, <3>1, <3>2
  <2> QED
    BY <1>2, <2>1, <2>2, <2>3, <2>4, <2>5, <2>6, <2>7, <2>8, <2>9, <2>10, <2>11
       DEF Process, Command, Import, Flush
<1> QED BY <1>1, <1>2 DEF Next, Environment, RemoteEdit, GitPull, main, flush

LEMMA TypeStep == TypeOK /\ [Next]_vars => TypeOK'
BY TablesStep, LocalsStep, FlagsStep DEF TypeOK, Tables, Locals, Flags, Exited

(* Types, for any number of processes; and a process that has exited has   *)
(* no goroutine left.                                                      *)
THEOREM TypeCorrect == Spec => []TypeOK
BY TypedInit, TypeStep, PTL DEF Spec

-----------------------------------------------------------------------------
(* What holds whatever runs at once.                                       *)

Past(lines, now) == \A i \in Issues : lines[i].at <= now /\ lines[i].edit <= now

(* Nothing was written later than now.                                     *)
Dated ==
  /\ Past(db, clock) /\ Past(file, clock) /\ Past(incoming, clock)
  /\ \A p \in Procs : Past(seen[p], clock) /\ Past(snap[p], clock) /\ stamp[p] <= clock

Unknown(i) ==
  /\ db[i] = None /\ file[i] = None /\ incoming[i] = None
  /\ \A p \in Procs : seen[p][i] = None /\ snap[p][i] = None

(* Only a command that is about to write has a target, and nobody else     *)
(* knows the ID that it is about to create.                                *)
Targets ==
  \A p \in Procs : \A i \in target[p] :
    /\ pc[p] = "resolved" /\ cmd[p] # "none"
    /\ cmd[p] = "create" => Unknown(i) /\ \A q \in Procs : i \in target[q] => q = p

(* Every copy of an issue is a state of it.                                *)
LEMMA Readings ==
  ASSUME TypeOK
  PROVE  /\ clock \in Nat
         /\ \A i \in Issues : db[i] \in Rec /\ file[i] \in Rec /\ incoming[i] \in Rec
         /\ \A p \in Procs, i \in Issues : seen[p][i] \in Rec /\ snap[p][i] \in Rec
         /\ \A p \in Procs : stamp[p] \in Nat /\ target[p] \subseteq Issues
BY DEF TypeOK, Lines

LEMMA RecFields == \A r \in Rec : r.at \in Nat /\ r.edit \in Nat /\ r.dead \in BOOLEAN
BY DEF Rec

(* An import never lowers a date, and never touches a tombstone.           *)
LEMMA UpsertRaises ==
  ASSUME NEW cur \in Rec, NEW in \in Rec, NEW now \in Nat, cur.at <= now, in.at <= now
  PROVE  /\ cur.at <= Upsert(cur, in, now).at
         /\ Upsert(cur, in, now).at <= now
         /\ cur.dead => Upsert(cur, in, now) = cur
         /\ Upsert(cur, in, now).edit \in {cur.edit, in.edit}
BY NoneOK DEF Upsert, Rec

LEMMA EmptyPast == \A now \in Nat : Past(Empty, now)
BY NoneOK, EmptyOK DEF Past

LEMMA PastLater ==
  ASSUME NEW lines \in Lines, NEW now \in Nat, NEW later \in Nat, now <= later, Past(lines, now)
  PROVE  Past(lines, later)
BY RecFields DEF Past, Lines

(* A fetch replaces one issue of the copy by its row, and goes on to write *)
(* the copy when there is none left.                                       *)
LEMMA FetchTakes ==
  ASSUME TypeOK, NEW p \in Procs, FlushFetch(p)
  PROVE  \/ fl'[p] = "write" /\ ids[p] = {} /\ UNCHANGED <<ids, snap>>
         \/ \E j \in ids[p] :
              /\ fl' = fl /\ ids' = [ids EXCEPT ![p] = @ \ {j}]
              /\ \A q \in Procs, i \in Issues :
                   snap'[q][i] = IF q = p /\ i = j THEN db[i] ELSE snap[q][i]
<1>1. CASE ids[p] = {}
  BY <1>1 DEF FlushFetch, Step, TypeOK
<1>2. ASSUME NEW j \in ids[p], snap' = [snap EXCEPT ![p][j] = db[j]],
             ids' = [ids EXCEPT ![p] = @ \ {j}]
      PROVE  fl' = fl /\ \A q \in Procs, i \in Issues :
                   snap'[q][i] = IF q = p /\ i = j THEN db[i] ELSE snap[q][i]
  <2>1. fl' = fl
    BY <1>2 DEF FlushFetch, Step, TypeOK
  <2>2. DEFINE row == [snap[p] EXCEPT ![j] = db[j]]
  <2>3. snap' = [snap EXCEPT ![p] = row]
    BY <1>2
  <2>4. \A i \in Issues : row[i] = IF i = j THEN db[i] ELSE snap[p][i]
    BY DEF TypeOK, Lines
  <2> HIDE DEF row
  <2> QED BY <2>1, <2>3, <2>4 DEF TypeOK
<1> QED BY <1>1, <1>2 DEF FlushFetch

LEMMA DatedInit == Init => Dated
BY NoneOK, EmptyOK DEF Init, Dated, Past

LEMMA DatedStep == TypeOK /\ Dated /\ [Next]_vars => Dated'
<1> SUFFICES ASSUME TypeOK, Dated, Next PROVE Dated'
  BY DEF vars, store, world, main, flush, Dated
<1>0. TypeOK' /\ clock \in Nat /\ clock' \in Nat
  BY TypeStep DEF TypeOK
<1>1. \A lines \in Lines : Past(lines, clock) /\ clock <= clock' => Past(lines, clock')
  BY <1>0, PastLater
<1>2. ASSUME clock <= clock', UNCHANGED <<stamp, seen, snap>>
      PROVE  \A p \in Procs : Past(seen'[p], clock') /\ Past(snap'[p], clock') /\ stamp'[p] <= clock'
  BY <1>0, <1>1, <1>2, Readings DEF Dated, TypeOK
<1>3. ASSUME NEW i \in Issues, NEW dead \in BOOLEAN, RemoteEdit(i, dead) PROVE Dated'
  <2>1. clock' = clock + 1 /\ UNCHANGED <<db, file, stamp, seen, snap>>
    BY <1>3 DEF RemoteEdit, store, main, flush
  <2>2. Past(incoming', clock')
    BY <1>0, <1>3, <2>1, Readings, RecFields DEF RemoteEdit, Past, Dated, TypeOK, Lines
  <2> QED BY <1>0, <1>1, <1>2, <2>1, <2>2 DEF Dated, TypeOK
<1>4. CASE GitPull
  <2>1. UNCHANGED <<clock, db, stamp, seen, snap>>
    BY <1>4 DEF GitPull, store, main, flush
  <2>2. Past(file', clock)
    BY <1>4 DEF GitPull, Past, Dated, Newer
  <2>3. Past(incoming', clock)
    BY <1>0, <1>4, EmptyPast DEF GitPull
  <2> QED BY <1>0, <1>2, <2>1, <2>2, <2>3 DEF Dated
<1>5. ASSUME NEW p \in Procs, Process(p) PROVE Dated'
  <2>1. CASE UNCHANGED <<clock, db, file, incoming, stamp, seen, snap>>
    BY <2>1 DEF Dated
  <2>2. CASE ImportRead(p) \/ ImportDone(p) \/ ImportSkip(p)
    <3>1. UNCHANGED <<clock, db, file, incoming, stamp, snap>>
      BY <2>2 DEF ImportRead, ImportDone, ImportSkip, store, world, flush
    <3>2. seen' \in {seen, [seen EXCEPT ![p] = file], [seen EXCEPT ![p] = Empty]}
      BY <2>2 DEF ImportRead, ImportDone, ImportSkip
    <3> QED BY <1>0, <3>1, <3>2, EmptyPast DEF Dated, TypeOK
  <2>3. CASE ImportTx(p)
    <3>1. clock <= clock' /\ UNCHANGED <<file, incoming, stamp, seen, snap>>
      BY <1>0, <2>3 DEF ImportTx, world, flush
    <3>2. \A i \in Issues : Upsert(db[i], seen[p][i], clock + 1) = db'[i]
      BY <2>3 DEF ImportTx
    <3>3. ASSUME NEW i \in Issues PROVE db'[i].at <= clock' /\ db'[i].edit <= clock'
      <4>1. db[i] \in Rec /\ seen[p][i] \in Rec
        BY Readings
      <4>2. db[i].at <= clock /\ db[i].edit <= clock /\ seen[p][i].at <= clock /\ seen[p][i].edit <= clock
        BY DEF Dated, Past
      <4>3. CASE clock' = clock + 1
        BY <1>0, <3>2, <4>1, <4>2, <4>3, UpsertRaises, RecFields
      <4>4. CASE clock' = clock /\ (db'[i] = db[i] \/ db[i] = None)
        BY <3>2, <4>2, <4>4 DEF Upsert
      <4> QED BY <2>3, <4>3, <4>4 DEF ImportTx
    <3> QED BY <1>0, <1>1, <1>2, <3>1, <3>3 DEF Dated, TypeOK, Past
  <2>4. ASSUME NEW i \in Issues, Resolve(p, i) PROVE Dated'
    <3>1. clock' = clock + 1 /\ UNCHANGED <<db, file, incoming, seen, snap>>
      BY <2>4 DEF Resolve, store, world, flush
    <3>2. \A q \in Procs : stamp'[q] <= clock'
      BY <1>0, <2>4, <3>1, Readings DEF Resolve, Dated, TypeOK
    <3> QED BY <1>0, <1>1, <3>1, <3>2 DEF Dated, TypeOK
  <2>5. CASE Commit(p)
    <3>1. UNCHANGED <<clock, file, incoming, seen, snap>> /\ stamp' = [stamp EXCEPT ![p] = 0]
      BY <2>5 DEF Commit, world, flush
    <3>2. Past(db', clock)
      BY <2>5 DEF Commit, Past, Dated, TypeOK, Lines
    <3> QED BY <1>0, <3>1, <3>2 DEF Dated, TypeOK
  <2>6. CASE Crash(p)
    <3>1. UNCHANGED <<clock, db, file, incoming>> /\ stamp' = [stamp EXCEPT ![p] = 0]
          /\ seen' = [seen EXCEPT ![p] = Empty] /\ snap' = [snap EXCEPT ![p] = Empty]
      BY <2>6 DEF Crash, store, world
    <3> QED BY <1>0, <3>1, EmptyPast DEF Dated, TypeOK
  <2>7. CASE FlushRead(p) \/ FlushReread(p) \/ FlushFileHash(p) \/ FlushFail(p)
    <3>1. UNCHANGED <<clock, db, file, incoming, seen, stamp>>
      BY <2>7 DEF FlushRead, FlushReread, FlushFileHash, FlushFail, store, world, main
    <3>2. snap' \in {[snap EXCEPT ![p] = file], [snap EXCEPT ![p] = Empty]}
      BY <2>7 DEF FlushRead, FlushReread, FlushFileHash, FlushFail
    <3> QED BY <1>0, <3>1, <3>2, EmptyPast DEF Dated, TypeOK
  <2>8. CASE FlushFetch(p)
    <3>1. UNCHANGED <<clock, db, file, incoming, seen, stamp>>
      BY <2>8 DEF FlushFetch, store, world, main
    <3>2. ASSUME NEW q \in Procs, NEW i \in Issues
          PROVE  snap'[q][i] \in {snap[q][i], db[i]}
      BY <2>8, FetchTakes
    <3>3. \A q \in Procs : Past(snap'[q], clock)
      BY <3>2 DEF Dated, Past
    <3> QED BY <1>0, <3>1, <3>3 DEF Dated, TypeOK
  <2>9. CASE FlushWrite(p)
    BY <2>9 DEF FlushWrite, Dated, store, main
  <2> QED
    BY <1>5, <2>1, <2>2, <2>3, <2>4, <2>5, <2>6, <2>7, <2>8, <2>9
       DEF Process, Start, Command, Import, NothingToDo, Overtake, Finish, Flush,
           FlushStart, FlushCheck,
           FlushList, FlushClear, FlushContentHash, store, world, main, flush
<1> QED BY <1>3, <1>4, <1>5 DEF Next, Environment

LEMMA TargetsInit == Init => Targets
BY DEF Init, Targets

LEMMA TargetsStep == TypeOK /\ Targets /\ [Next]_vars => Targets'
<1> SUFFICES ASSUME TypeOK, Targets, Next PROVE Targets'
  BY DEF vars, store, world, main, flush, Targets, Unknown
(* It is enough that targets go away and that unknown IDs stay unknown.    *)
<1>1. ASSUME \A p \in Procs : target'[p] \subseteq target[p],
             \A p \in Procs : \A i \in target'[p] :
               pc'[p] = pc[p] /\ cmd'[p] = cmd[p] /\ (Unknown(i) => Unknown(i)')
      PROVE  Targets'
  BY <1>1 DEF Targets
<1>2. ASSUME UNCHANGED <<target, pc, cmd, db, snap, seen>>,
             \A i \in Issues : Unknown(i) => file'[i] = None /\ incoming'[i] = None
      PROVE  Targets'
  <2>1. \A i \in Issues : Unknown(i) => Unknown(i)'
    BY <1>2 DEF Unknown
  <2> QED BY <1>1, <1>2, <2>1, Readings
<1>3. ASSUME NEW i \in Issues, NEW dead \in BOOLEAN, RemoteEdit(i, dead) PROVE Targets'
  <2>1. \A p \in Procs : i \in target[p] => ~Unknown(i)
    BY <1>3 DEF RemoteEdit, Unborn, Unknown
  <2>2. \A j \in Issues \ {i} : Unknown(j) => Unknown(j)'
    BY <1>3 DEF RemoteEdit, Unknown, store, main, flush, TypeOK, Lines
  <2>3. UNCHANGED <<target, pc, cmd>>
    BY <1>3 DEF RemoteEdit, main
  <2> QED BY <1>1, <2>1, <2>2, <2>3, Readings
<1>4. CASE GitPull
  <2>1. \A i \in Issues : Unknown(i) => file'[i] = None /\ incoming'[i] = None
    BY <1>4, EmptyOK DEF GitPull, Unknown
  <2> QED BY <1>2, <1>4, <2>1 DEF GitPull, store, main, flush
<1>5. ASSUME NEW p \in Procs, Process(p) PROVE Targets'
  <2>1. ASSUME NEW kind \in Commands, Start(p, kind) PROVE Targets'
    <3>1. target[p] = {}
      BY <2>1 DEF Start, Goto, Targets
    <3>2. \A i : Unknown(i)' <=> Unknown(i)
      BY <2>1 DEF Start, Unknown, store, world, flush
    <3> QED BY <1>1, <2>1, <3>1, <3>2 DEF Start, Goto, TypeOK
  <2>2. CASE ImportRead(p) \/ ImportTx(p) \/ ImportDone(p) \/ ImportSkip(p)
    <3>1. target' = target /\ cmd' = cmd /\ target[p] = {}
      BY <2>2 DEF ImportRead, ImportTx, ImportDone, ImportSkip, Goto, Targets, main
    <3>2. \A q \in Procs \ {p} : pc'[q] = pc[q]
      BY <2>2 DEF ImportRead, ImportTx, ImportDone, ImportSkip, Goto, TypeOK
    <3>3. ASSUME NEW i \in Issues, Unknown(i) PROVE Unknown(i)'
      <4>1. UNCHANGED <<file, incoming, snap>>
        BY <2>2 DEF ImportRead, ImportTx, ImportDone, ImportSkip, world, flush
      <4>2. db'[i] = None
        BY <2>2, <3>3 DEF ImportRead, ImportTx, ImportDone, ImportSkip, store, Unknown, Upsert
      <4>3. seen' \in {seen, [seen EXCEPT ![p] = file], [seen EXCEPT ![p] = Empty]}
        BY <2>2 DEF ImportRead, ImportTx, ImportDone, ImportSkip
      <4>4. \A q \in Procs : seen'[q][i] = None
        BY <3>3, <4>3, EmptyOK DEF Unknown, TypeOK
      <4> QED BY <3>3, <4>1, <4>2, <4>4 DEF Unknown
    <3> QED BY <1>1, <3>1, <3>2, <3>3, Readings
  <2>3. ASSUME NEW i \in Issues, Resolve(p, i) PROVE Targets'
    <3>1. target' = [target EXCEPT ![p] = {i}] /\ pc' = [pc EXCEPT ![p] = "resolved"]
          /\ cmd' = cmd /\ cmd[p] # "none"
          /\ UNCHANGED <<db, file, incoming, seen, snap>>
      BY <2>3 DEF Resolve, Goto, store, world, flush
    <3>2. \A j : Unknown(j)' <=> Unknown(j)
      BY <3>1 DEF Unknown
    <3>3. cmd[p] = "create" => Unknown(i) /\ \A q \in Procs : i \notin target[q]
      BY <2>3 DEF Resolve, Unborn, Unknown
    <3>4. cmd[p] # "create" => ~Unknown(i)
      BY <2>3, <3>1 DEF Resolve, Live, Unknown
    <3> QED BY <3>1, <3>2, <3>3, <3>4 DEF Targets, TypeOK
  <2>4. CASE Commit(p)
    <3>1. PICK i \in target[p] :
            \E row : db' = [db EXCEPT ![i] = row]
      BY <2>4 DEF Commit
    <3>2. target' = [target EXCEPT ![p] = {}] /\ pc' = [pc EXCEPT ![p] = "post"] /\ cmd' = cmd
          /\ UNCHANGED <<file, incoming, seen, snap>>
      BY <2>4 DEF Commit, Goto, world, flush
    <3>3. \A q \in Procs \ {p} : target'[q] = target[q] /\ pc'[q] = pc[q]
      BY <3>2 DEF TypeOK
    <3>4. target'[p] = {}
      BY <3>2 DEF TypeOK
    <3>5. ASSUME NEW q \in Procs, NEW j \in target[q], q # p, cmd[q] = "create"
          PROVE  j # i /\ Unknown(j)'
      <4>1. j # i /\ Unknown(j)
        BY <3>5 DEF Targets
      <4> QED BY <3>1, <3>2, <4>1 DEF Unknown, TypeOK, Lines
    <3> QED BY <3>2, <3>3, <3>4, <3>5 DEF Targets
  <2>5. CASE NothingToDo(p) \/ Overtake(p) \/ Finish(p)
    <3>1. target[p] = {} /\ target' = target
      BY <2>5 DEF NothingToDo, Overtake, Finish, Goto, Targets
    <3>2. \A i : Unknown(i)' <=> Unknown(i)
      BY <2>5 DEF NothingToDo, Overtake, Finish, Unknown, store, world, flush
    <3>3. \A q \in Procs \ {p} : pc'[q] = pc[q] /\ cmd'[q] = cmd[q]
      BY <2>5 DEF NothingToDo, Overtake, Finish, Goto, TypeOK
    <3> QED BY <1>1, <3>1, <3>2, <3>3
  <2>6. CASE Crash(p)
    <3>1. \A q \in Procs : target'[q] = IF q = p THEN {} ELSE target[q]
      BY <2>6 DEF Crash, TypeOK
    <3>2. \A q \in Procs \ {p} : pc'[q] = pc[q] /\ cmd'[q] = cmd[q]
      BY <2>6 DEF Crash, TypeOK
    <3>3. \A i \in Issues : Unknown(i) => Unknown(i)'
      BY <2>6, EmptyOK DEF Crash, Unknown, store, world, TypeOK
    <3> QED BY <1>1, <3>1, <3>2, <3>3, Readings
  <2>7. CASE Flush(p) \/ FlushFail(p)
    <3>1. UNCHANGED <<main, db, incoming>>
      BY <2>7 DEF Flush, FlushStart, FlushCheck, FlushList, FlushRead, FlushFetch, FlushWrite,
                  FlushClear, FlushReread, FlushContentHash, FlushFileHash, FlushFail, store, world
    <3>2. CASE UNCHANGED <<file, snap>>
      BY <1>2, <3>1, <3>2 DEF main, Unknown
    <3>3. CASE FlushRead(p) \/ FlushReread(p) \/ FlushFileHash(p) \/ FlushFail(p)
      <4>1. file' = file
        BY <3>3 DEF FlushRead, FlushReread, FlushFileHash, FlushFail, world
      <4>2. snap' \in {[snap EXCEPT ![p] = file], [snap EXCEPT ![p] = Empty]}
        BY <3>3 DEF FlushRead, FlushReread, FlushFileHash, FlushFail
      <4>3. \A i \in Issues : Unknown(i) => Unknown(i)'
        BY <3>1, <4>1, <4>2, EmptyOK DEF Unknown, main, TypeOK
      <4> QED BY <1>1, <3>1, <4>3, Readings DEF main
    <3>4. CASE FlushFetch(p)
      <4>1. file' = file
        BY <3>4 DEF FlushFetch, world
      <4>2. \A q \in Procs, i \in Issues : snap'[q][i] \in {snap[q][i], db[i]}
        BY <3>4, FetchTakes
      <4>3. \A i \in Issues : Unknown(i) => Unknown(i)'
        BY <3>1, <4>1, <4>2 DEF Unknown, main
      <4> QED BY <1>1, <3>1, <4>3, Readings DEF main
    <3>5. CASE FlushWrite(p)
      <4>1. \A i \in Issues : Unknown(i) => Unknown(i)'
        BY <3>1, <3>5 DEF FlushWrite, Unknown, main
      <4> QED BY <1>1, <3>1, <4>1, Readings DEF main
    <3> QED
      BY <2>7, <3>2, <3>3, <3>4, <3>5
         DEF Flush, FlushStart, FlushCheck, FlushList, FlushClear, FlushContentHash, world
  <2> QED
    BY <1>5, <2>1, <2>2, <2>3, <2>4, <2>5, <2>6, <2>7 DEF Process, Command, Import
<1> QED BY <1>3, <1>4, <1>5 DEF Next, Environment

AnyNumber == TypeOK /\ Dated /\ Targets

LEMMA AnyNumberAlways == Spec => []AnyNumber
<1>1. Init => AnyNumber
  BY TypedInit, DatedInit, TargetsInit DEF AnyNumber
<1>2. AnyNumber /\ [Next]_vars => AnyNumber'
  BY TypeStep, DatedStep, TargetsStep DEF AnyNumber
<1> QED BY <1>1, <1>2, PTL DEF Spec

(* The issues table is written by imports and by commits.                  *)
LEMMA DbEffects ==
  ASSUME Next
  PROVE  \/ UNCHANGED db
         \/ \E p \in Procs : ImportTx(p) \/ Commit(p)
<1>1. CASE Environment
  BY <1>1 DEF Environment, RemoteEdit, GitPull, store
<1>2. ASSUME NEW p \in Procs, Process(p) PROVE UNCHANGED db \/ ImportTx(p) \/ Commit(p)
  BY <1>2 DEF Process, Start, Command, Import, ImportRead, ImportDone, Resolve,
              NothingToDo, Overtake, Finish,
              ImportSkip, Crash, Flush, FlushStart, FlushCheck, FlushList, FlushRead, FlushFetch,
              FlushWrite, FlushClear, FlushReread, FlushContentHash, FlushFileHash, FlushFail, store
<1> QED BY <1>1, <1>2 DEF Next

LEMMA ImportTxUpserts ==
  ASSUME AnyNumber, NEW p \in Procs, ImportTx(p), NEW i \in Issues
  PROVE  /\ db'[i] = Upsert(db[i], seen[p][i], clock + 1)
         /\ db[i].at <= db'[i].at
         /\ db[i].dead => db'[i] = db[i]
<1>1. db'[i] = Upsert(db[i], seen[p][i], clock + 1)
  BY DEF ImportTx
<1>2. db[i] \in Rec /\ seen[p][i] \in Rec /\ clock \in Nat
  BY Readings DEF AnyNumber
<1>3. db[i].at <= clock /\ seen[p][i].at <= clock
  BY DEF AnyNumber, Dated, Past
<1> QED BY <1>1, <1>2, <1>3, UpsertRaises, RecFields

(* Whatever runs at once, and whatever file an import read: an issue moves *)
(* back to an older state only by a command that took its time before      *)
(* another one committed, and committed after it.                          *)
THEOREM ImportsMoveForward == Spec => OnlyLateCommitsRegress
<1>1. AnyNumber /\ Next =>
        \A i \in Issues : db'[i].at < db[i].at =>
          \E p \in Procs : i \in target[p] /\ stamp[p] = db'[i].at
  <2> SUFFICES ASSUME AnyNumber, Next, NEW i \in Issues, db'[i].at < db[i].at
               PROVE  \E p \in Procs : i \in target[p] /\ stamp[p] = db'[i].at
    OBVIOUS
  <2>1. db[i].at \in Nat
    BY Readings, RecFields DEF AnyNumber
  <2>2. CASE UNCHANGED db
    BY <2>1, <2>2
  <2>3. ASSUME NEW p \in Procs, ImportTx(p) PROVE FALSE
    <3>1. db[i].at <= db'[i].at
      BY <2>3, ImportTxUpserts
    <3>2. db'[i].at \in Nat
      BY TypeStep, Readings, RecFields DEF AnyNumber, TypeOK, Lines
    <3> QED BY <2>1, <3>1, <3>2
  <2>4. ASSUME NEW p \in Procs, Commit(p) PROVE i \in target[p] /\ stamp[p] = db'[i].at
    BY <2>1, <2>4 DEF Commit, AnyNumber, TypeOK, Lines
  <2> QED BY <2>2, <2>3, <2>4, DbEffects
<1>2. AnyNumber /\ [Next]_vars =>
        [\A i \in Issues : db'[i].at < db[i].at =>
          \E p \in Procs : i \in target[p] /\ stamp[p] = db'[i].at]_vars
  BY <1>1
<1> QED BY <1>2, AnyNumberAlways, PTL DEF Spec, OnlyLateCommitsRegress

(* Whatever runs at once, a tombstone becomes a live issue only by a       *)
(* command that set its status.                                            *)
THEOREM TombstonesStay == Spec => ImportNeverResurrects
<1>1. AnyNumber /\ Next =>
        \A i \in Issues : db[i].dead /\ ~db'[i].dead =>
          \E p \in Procs : cmd[p] = "status" /\ i \in target[p]
  <2> SUFFICES ASSUME AnyNumber, Next, NEW i \in Issues, db[i].dead, ~db'[i].dead
               PROVE  \E p \in Procs : cmd[p] = "status" /\ i \in target[p]
    OBVIOUS
  <2>1. CASE UNCHANGED db
    BY <2>1
  <2>2. ASSUME NEW p \in Procs, ImportTx(p) PROVE FALSE
    BY <2>2, ImportTxUpserts
  <2>3. ASSUME NEW p \in Procs, Commit(p) PROVE cmd[p] = "status" /\ i \in target[p]
    <3>1. i \in target[p] /\ cmd[p] \notin {"delete", "edit"}
      <4> DEFINE deadNow == cmd[p] = "delete" \/ (cmd[p] = "edit" /\ db[i].dead)
      <4>1. PICK j \in target[p] :
              db' = [db EXCEPT ![j] = [edit |-> stamp[p], at |-> stamp[p],
                                       dead |-> cmd[p] = "delete" \/ (cmd[p] = "edit" /\ db[j].dead)]]
        BY <2>3 DEF Commit
      <4>2. i = j
        BY <4>1 DEF AnyNumber, TypeOK, Lines
      <4>3. db'[i] = [edit |-> stamp[p], at |-> stamp[p], dead |-> deadNow]
        BY <4>1, <4>2 DEF AnyNumber, TypeOK, Lines
      <4>4. ~deadNow
        <5>1. deadNow \in BOOLEAN
          OBVIOUS
        <5> HIDE DEF deadNow
        <5> QED BY <4>3, <5>1
      <4> QED BY <4>2, <4>4
    <3>2. cmd[p] # "none" /\ cmd[p] \in Kinds
      BY <3>1 DEF AnyNumber, Targets, TypeOK
    <3>3. cmd[p] # "create"
      BY <3>1, NoneOK DEF AnyNumber, Targets, Unknown
    <3> QED BY <3>1, <3>2, <3>3 DEF Kinds
  <2> QED BY <2>1, <2>2, <2>3, DbEffects
<1>2. AnyNumber /\ [Next]_vars =>
        [\A i \in Issues : db[i].dead /\ ~db'[i].dead =>
          \E p \in Procs : cmd[p] = "status" /\ i \in target[p]]_vars
  BY <1>1
<1> QED BY <1>2, AnyNumberAlways, PTL DEF Spec, ImportNeverResurrects

-----------------------------------------------------------------------------
(* What holds while commands run one after the other and none outlasts the *)
(* debounce timer.                                                         *)

OneProcess == \A p, q \in Procs : p = q

OneAtATime == OneProcess /\ ~TimerFires

(* The flush has the database to itself: what it holds of an issue that it *)
(* has taken care of is no older than the row, or the issue stays dirty.   *)
Covers(p) ==
  /\ fl[p] # "idle" => pc[p] = "post"
  /\ fl[p] = "read" => ids[p] = Exportable(p)
  /\ fl[p] \in {"fetch", "write"} =>
       \A i \in Issues \ ids[p] :
         Live(i) /\ (i \in dirty => snap[p][i] # None) => db[i].at <= snap[p][i].at
  /\ fl[p] = "write" => ids[p] = {}
  /\ fl[p] = "clear" =>
       \A i \in Issues : Live(i) /\ snap[p][i] # None => db[i].at <= file[i].at

Covered == \A p \in Procs : Covers(p)

LEMMA CoveredInit == Init => UnexportedIsDirty /\ Covered
<1> SUFFICES ASSUME Init PROVE UnexportedIsDirty /\ Covered
  OBVIOUS
<1>1. \A i \in Issues : file[i] = db[i] /\ db[i].at \in {0, 1}
  BY NoneOK DEF Init
<1> QED BY <1>1 DEF Init, UnexportedIsDirty, Covered, Covers

LEMMA NewerIsNewer ==
  ASSUME NEW r \in Rec, NEW s \in Rec
  PROVE  r.at <= Newer(r, s).at /\ s.at <= Newer(r, s).at /\ Newer(r, s) \in {r, s}
BY RecFields DEF Newer

(* A pull never lowers a date either.                                      *)
LEMMA PullRaises ==
  ASSUME TypeOK, GitPull, NEW i \in Issues
  PROVE  /\ file[i].at <= file'[i].at
         /\ file'[i] \in {file[i], incoming[i]}
<1>1. file'[i] = IF incoming[i] = None THEN file[i] ELSE Newer(incoming[i], file[i])
  BY DEF GitPull
<1> QED BY <1>1, NewerIsNewer, Readings, RecFields

LEMMA CoveredStep ==
  ASSUME OneAtATime, AnyNumber, UnexportedIsDirty, Covered, [Next]_vars
  PROVE  UnexportedIsDirty' /\ Covered'
<1>0. TypeOK
  BY DEF AnyNumber
<1>1. ASSUME UNCHANGED <<store, main, flush>>, \A i \in Issues : file[i].at <= file'[i].at,
             TypeOK'
      PROVE  UnexportedIsDirty' /\ Covered'
  <2>1. \A i \in Issues : db[i].at \in Nat /\ file[i].at \in Nat /\ file'[i].at \in Nat
    BY <1>0, <1>1, Readings, RecFields DEF TypeOK, Lines
  <2>2. UnexportedIsDirty'
    BY <1>1, <2>1 DEF UnexportedIsDirty, Live, store
  <2>3. ASSUME NEW p \in Procs PROVE Covers(p)'
    <3>1. UNCHANGED <<fl, pc, ids, dirty, snap, db>> /\ Exportable(p)' = Exportable(p)
      BY <1>1 DEF Exportable, Live, store, main, flush
    <3>2. ASSUME fl[p] = "clear", NEW i \in Issues, Live(i), snap[p][i] # None
          PROVE  db[i].at <= file'[i].at
      <4>1. db[i].at <= file[i].at
        BY <3>2 DEF Covered, Covers
      <4> QED BY <1>1, <2>1, <4>1
    <3> QED BY <3>1, <3>2 DEF Covered, Covers, Live
  <2> QED BY <2>2, <2>3 DEF Covered
<1>2. CASE Environment \/ UNCHANGED vars
  <2>1. UNCHANGED <<store, main, flush>>
    BY <1>2 DEF Environment, RemoteEdit, GitPull, vars
  <2>2. \A i \in Issues : file[i].at <= file'[i].at
    <3>1. CASE UNCHANGED file
      BY <1>0, <3>1, Readings, RecFields
    <3> QED BY <1>0, <1>2, <3>1, PullRaises DEF Environment, RemoteEdit, vars, world
  <2> QED BY <1>0, <1>1, <2>1, <2>2, TypeStep
<1>3. ASSUME NEW p \in Procs, Process(p) PROVE UnexportedIsDirty' /\ Covered'
  <2>0. Covers(p) /\ (Covers(p)' => Covered')
    BY DEF OneAtATime, OneProcess, Covered
  <2>1. ASSUME fl'[p] = "idle", UNCHANGED <<store, file>> PROVE UnexportedIsDirty' /\ Covered'
    BY <2>0, <2>1 DEF Covers, UnexportedIsDirty, Live, store
  <2>2. CASE \/ \E kind \in Commands : Start(p, kind)
             \/ ImportRead(p) \/ ImportDone(p) \/ ImportSkip(p)
             \/ \E i \in Issues : Resolve(p, i)
             \/ NothingToDo(p) \/ Overtake(p) \/ Finish(p) \/ Crash(p) \/ FlushFail(p)
    <3>1. UNCHANGED <<store, file>>
      BY <2>2 DEF Start, ImportRead, ImportDone, ImportSkip, Resolve, NothingToDo, Overtake,
                  Finish, Crash, FlushFail, world
    <3>2. fl'[p] = "idle"
      <4>1. CASE pc[p] # "post" /\ fl' = fl
        BY <2>0, <4>1 DEF Covers
      <4>2. CASE fl[p] = "idle" /\ fl' = fl
        BY <4>2
      <4>3. CASE fl' = [fl EXCEPT ![p] = "idle"]
        BY <1>0, <4>3 DEF TypeOK
      <4> QED
        BY <2>2, <4>1, <4>2, <4>3
           DEF Start, ImportRead, ImportDone, ImportSkip, Resolve, NothingToDo, Overtake,
                  Finish, Crash, FlushFail, Goto, flush
    <3> QED BY <2>1, <3>1, <3>2
  <2>3. CASE ImportTx(p) \/ Commit(p)
    <3>1. fl'[p] = "idle"
      BY <2>0, <2>3 DEF ImportTx, Commit, Goto, Covers, flush
    <3>2. Covers(p)'
      BY <3>1 DEF Covers
    <3>3. \A i \in Issues : db'[i] # db[i] => i \in dirty'
      BY <1>0, <2>3 DEF ImportTx, Commit, TypeOK, Lines
    <3>4. \A i \in Issues : i \in dirty => i \in dirty'
      BY <2>3 DEF ImportTx, Commit
    <3>5. UnexportedIsDirty'
      BY <2>3, <3>3, <3>4 DEF UnexportedIsDirty, Live, ImportTx, Commit, world
    <3> QED BY <2>0, <3>2, <3>5
  <2>4. CASE FlushStart(p) \/ FlushCheck(p) \/ FlushReread(p) \/ FlushContentHash(p)
             \/ FlushFileHash(p)
    <3>1. UNCHANGED <<store, file, pc>>
      BY <2>4 DEF FlushStart, FlushCheck, FlushReread, FlushContentHash, FlushFileHash, world, main
    <3>2. fl'[p] \in {"idle", "check", "list", "content", "file"} /\ pc[p] = "post"
      BY <1>0, <2>0, <2>4
         DEF FlushStart, FlushCheck, FlushReread, FlushContentHash, FlushFileHash, Step, TypeOK,
             Covers, OneAtATime
    <3>3. Covers(p)'
      BY <3>1, <3>2 DEF Covers
    <3> QED BY <2>0, <3>1, <3>3 DEF UnexportedIsDirty, Live, store
  <2>5. CASE FlushList(p)
    <3>1. UNCHANGED <<store, file, pc, full>> /\ pc[p] = "post"
      BY <2>0, <2>5 DEF FlushList, Step, Covers, world, main
    <3>2. fl'[p] \in {"idle", "read"} /\ ids'[p] = Exportable(p)
      BY <1>0, <2>5 DEF FlushList, Step, TypeOK
    <3>3. Exportable(p)' = Exportable(p)
      BY <3>1 DEF Exportable, Live, store
    <3>4. Covers(p)'
      BY <3>1, <3>2, <3>3 DEF Covers
    <3> QED BY <2>0, <3>1, <3>4 DEF UnexportedIsDirty, Live, store
  <2>6. CASE FlushRead(p)
    <3>1. UNCHANGED <<store, file, pc, full, ids>> /\ pc[p] = "post" /\ ids[p] = Exportable(p)
      BY <2>0, <2>6 DEF FlushRead, Step, Covers, world, main
    <3>2. fl'[p] = "fetch" /\ snap'[p] = IF full[p] THEN Empty ELSE file
      BY <1>0, <2>6 DEF FlushRead, Step, TypeOK
    <3>3. ASSUME NEW i \in Issues \ ids[p], Live(i) PROVE i \notin dirty /\ snap'[p][i] = file[i]
      BY <3>1, <3>2, <3>3 DEF Exportable
    <3>4. \A i \in Issues \ ids[p] : Live(i) => db[i].at <= snap'[p][i].at
      BY <1>0, <3>3, Readings, RecFields DEF UnexportedIsDirty
    <3>5. Covers(p)'
      BY <3>1, <3>2, <3>4 DEF Covers, Live, store
    <3> QED BY <2>0, <3>1, <3>5 DEF UnexportedIsDirty, Live, store
  <2>7. CASE FlushFetch(p)
    <3>1. UNCHANGED <<store, file, pc>> /\ pc[p] = "post" /\ fl[p] = "fetch"
      BY <2>0, <2>7 DEF FlushFetch, Step, Covers, world, main
    <3>2. CASE fl'[p] = "write" /\ ids[p] = {} /\ UNCHANGED <<ids, snap>>
      BY <2>0, <3>1, <3>2 DEF Covers, UnexportedIsDirty, Live, store
    <3>3. ASSUME NEW j \in ids[p], fl' = fl, ids' = [ids EXCEPT ![p] = @ \ {j}],
                 \A q \in Procs, i \in Issues :
                   snap'[q][i] = IF q = p /\ i = j THEN db[i] ELSE snap[q][i]
          PROVE  Covers(p)'
      <4>1. ids'[p] = ids[p] \ {j}
        BY <1>0, <3>3 DEF TypeOK
      <4>2. ASSUME NEW i \in Issues \ ids'[p], Live(i), i \in dirty => snap'[p][i] # None
            PROVE  db[i].at <= snap'[p][i].at
        <5>1. CASE i = j
          BY <1>0, <3>3, <5>1, Readings, RecFields
        <5>2. CASE i # j
          BY <2>0, <3>1, <3>3, <4>1, <4>2, <5>2 DEF Covers
        <5> QED BY <5>1, <5>2
      <4> QED BY <3>1, <3>3, <4>2 DEF Covers, Live, store
    <3> QED BY <1>0, <2>0, <2>7, <3>1, <3>2, <3>3, FetchTakes DEF UnexportedIsDirty, Live, store
  <2>8. CASE FlushWrite(p)
    <3>1. UNCHANGED <<store, pc, snap>> /\ pc[p] = "post" /\ fl[p] = "write" /\ file' = snap[p]
      BY <2>0, <2>8 DEF FlushWrite, Step, Covers, main
    <3>2. fl'[p] = "clear"
      BY <1>0, <2>8 DEF FlushWrite, Step, TypeOK
    <3>3. \A i \in Issues : Live(i) /\ (i \in dirty => snap[p][i] # None) => db[i].at <= file'[i].at
      BY <2>0, <3>1 DEF Covers
    <3>4. Covers(p)'
      BY <3>1, <3>2, <3>3 DEF Covers, Live, store
    <3>5. \A i \in Issues : db[i].at \in Nat /\ file'[i].at \in Nat
      BY <1>0, <3>1, Readings, RecFields
    <3>6. UnexportedIsDirty'
      BY <3>1, <3>3, <3>5 DEF UnexportedIsDirty, Live, store
    <3> QED BY <2>0, <3>4, <3>6
  <2>9. CASE FlushClear(p)
    <3>1. UNCHANGED <<db, file, pc>> /\ pc[p] = "post" /\ fl[p] = "clear"
      BY <2>0, <2>9 DEF FlushClear, Step, Covers, world, main
    <3>2. fl'[p] = "reread"
      BY <1>0, <2>9 DEF FlushClear, Step, TypeOK
    <3>3. Covers(p)'
      BY <3>1, <3>2 DEF Covers
    <3>4. \A i \in Issues : i \in dirty => i \in dirty' \/ snap[p][i] # None
      BY <2>9 DEF FlushClear
    <3>5. \A i \in Issues : db[i].at \in Nat /\ file[i].at \in Nat
      BY <1>0, Readings, RecFields
    <3>6. UnexportedIsDirty'
      BY <2>0, <3>1, <3>4, <3>5 DEF UnexportedIsDirty, Live, Covers
    <3> QED BY <2>0, <3>3, <3>6
  <2> QED
    BY <1>3, <2>2, <2>3, <2>4, <2>5, <2>6, <2>7, <2>8, <2>9 DEF Process, Command, Import, Flush
<1> QED BY <1>2, <1>3 DEF Next

(* As long as commands run one after the other and none outlasts the timer,*)
(* and whatever dies or fails on the way: an issue of the database that    *)
(* the file lacks, or has an older state of, is marked dirty.  Neither     *)
(* hypothesis can go: a commit between the fetch of a row and the clearing *)
(* of its mark, by another process or by the command whose timer expired,  *)
(* loses the mark (ClearDirtyIssuesByID).                                  *)
THEOREM UnexportedMarked ==
  ASSUME OneAtATime
  PROVE  Spec => []UnexportedIsDirty
<1>1. Init => UnexportedIsDirty /\ Covered
  BY CoveredInit
<1>2. AnyNumber /\ UnexportedIsDirty /\ Covered /\ [Next]_vars => UnexportedIsDirty' /\ Covered'
  BY CoveredStep
<1> QED BY <1>1, <1>2, AnyNumberAlways, PTL DEF Spec

-----------------------------------------------------------------------------
(* And while every command imports first, and git pull waits for it: now   *)
(* it does not matter when the timer expires.                              *)

ImportsFirst ==
  OneProcess /\ ~PullAnytime /\ ~MaySkipImport /\ "delete" \notin Commands

Within(lines) == \A i \in Issues : lines[i].at <= db[i].at

(* Two states with the same content: the database has the newer date.      *)
SameContent ==
  \A i \in Issues : db[i] # None /\ file[i].edit = db[i].edit => file[i].at <= db[i].at

(* An edit that was not pulled is known nowhere.                           *)
NotPulled ==
  \A i \in Issues : incoming[i] # None =>
    /\ incoming[i].edit \notin {0, db[i].edit, file[i].edit}
    /\ \A p \in Procs : incoming[i].edit \notin {snap[p][i].edit, stamp[p]}

(* A tombstone is the last that is heard of an issue.                      *)
DeadIsFinal ==
  \A i \in Issues :
    /\ file[i].dead => incoming[i] = None
    /\ db[i].dead =>
         incoming[i] = None /\ (file[i] = None \/ file[i].dead) /\ file[i].at <= db[i].at

(* The content that the database remembers was imported or exported.       *)
Remembered == \A lines \in contentHash : Within(lines)

UpToDatePCs == {"imported", "run", "resolved", "post"}

(* From its import on, a command has the whole file in the database, and   *)
(* no flush runs before.                                                   *)
Keeps(p) ==
  /\ cmd[p] # "delete"
  /\ fl[p] # "idle" \/ due[p] => pc[p] \in UpToDatePCs
  /\ pc[p] = "importing" => seen[p] = file
  /\ pc[p] = "imported" => Within(seen[p])
  /\ pc[p] \in UpToDatePCs => Within(file)
  /\ \A i \in target[p] : ~db[i].dead /\ db[i].at < stamp[p]
  /\ fl[p] \in {"fetch", "write", "content"} => Within(snap[p])
  /\ fl[p] \in {"fetch", "write"} =>
       \A i \in Issues :
         /\ db[i].dead => snap[p][i] = None \/ snap[p][i].dead
         /\ snap[p][i].dead => db[i].dead \/ file[i].dead

Kept == \A p \in Procs : Keeps(p)

Keeping == AnyNumber /\ SameContent /\ NotPulled /\ DeadIsFinal /\ Remembered /\ Kept

LEMMA KeepingInit == ImportsFirst /\ Init => Keeping
<1> SUFFICES ASSUME ImportsFirst, Init PROVE Keeping
  OBVIOUS
<1>1. AnyNumber
  BY TypedInit, DatedInit, TargetsInit DEF AnyNumber
<1>2. \A i \in Issues : file[i] = db[i] /\ incoming[i] = None /\ ~db[i].dead /\ db[i].at \in Nat
  BY NoneOK DEF Init, Empty
<1>3. SameContent /\ NotPulled /\ DeadIsFinal /\ Remembered
  BY <1>2 DEF Init, SameContent, NotPulled, DeadIsFinal, Remembered, Within, HashOf
<1>4. Kept
  BY DEF Init, Kept, Keeps, UpToDatePCs
<1> QED BY <1>1, <1>3, <1>4 DEF Keeping

(* The other variables that the invariant reads, and who writes them.      *)
LEMMA FileEffects ==
  ASSUME Next
  PROVE  UNCHANGED file \/ GitPull \/ \E p \in Procs : FlushWrite(p)
<1>1. CASE Environment
  BY <1>1 DEF Environment, RemoteEdit, GitPull
<1>2. ASSUME NEW p \in Procs, Process(p) PROVE UNCHANGED file \/ FlushWrite(p)
  BY <1>2 DEF Process, Start, Command, Import, ImportRead, ImportTx, ImportDone, Resolve, Commit,
              NothingToDo, Overtake, Finish, ImportSkip, Crash, Flush, FlushStart,
              FlushCheck, FlushList,
              FlushRead, FlushFetch, FlushClear, FlushReread, FlushContentHash, FlushFileHash,
              FlushFail, world
<1> QED BY <1>1, <1>2 DEF Next

LEMMA IncomingEffects ==
  ASSUME Next
  PROVE  \/ UNCHANGED incoming \/ GitPull
         \/ \E i \in Issues, dead \in BOOLEAN : RemoteEdit(i, dead)
<1>1. ASSUME NEW p \in Procs, Process(p) PROVE UNCHANGED incoming
  BY <1>1 DEF Process, Start, Command, Import, ImportRead, ImportTx, ImportDone, Resolve, Commit,
              NothingToDo, Overtake, Finish, ImportSkip, Crash, Flush, FlushStart,
              FlushCheck, FlushList,
              FlushRead, FlushFetch, FlushWrite, FlushClear, FlushReread, FlushContentHash,
              FlushFileHash, FlushFail, world
<1> QED BY <1>1 DEF Next, Environment

LEMMA HashEffects ==
  ASSUME Next
  PROVE  \/ UNCHANGED contentHash
         \/ \E p \in Procs : ImportDone(p) \/ FlushContentHash(p)
<1>1. CASE Environment
  BY <1>1 DEF Environment, RemoteEdit, GitPull, hashes
<1>2. ASSUME NEW p \in Procs, Process(p)
      PROVE  UNCHANGED contentHash \/ ImportDone(p) \/ FlushContentHash(p)
  BY <1>2 DEF Process, Start, Command, Import, ImportRead, ImportTx, Resolve, Commit,
              NothingToDo, Overtake, Finish, ImportSkip, Crash, Flush, FlushStart,
              FlushCheck, FlushList,
              FlushRead, FlushFetch, FlushWrite, FlushClear, FlushReread, FlushFileHash,
              FlushFail, hashes
<1> QED BY <1>1, <1>2 DEF Next

(* What the two writers of the issues table do to one row.                 *)
LEMMA ImportTxKeeps ==
  ASSUME Keeping, NEW p \in Procs, ImportTx(p), NEW i \in Issues
  PROVE  /\ db[i].at <= db'[i].at /\ file[i].at <= db'[i].at
         /\ db[i].dead => db'[i] = db[i]
         /\ db'[i] = db[i] \/ (db'[i].edit = file[i].edit /\ db'[i].dead = file[i].dead)
         /\ UNCHANGED file /\ pc[p] = "importing"
<1>1. pc[p] = "importing" /\ UNCHANGED file
  BY DEF ImportTx, Goto, world
<1>2. AnyNumber /\ TypeOK /\ seen[p] = file
  BY <1>1 DEF Keeping, Kept, Keeps, AnyNumber
<1>3. /\ db'[i] = Upsert(db[i], file[i], clock + 1)
      /\ db[i].at <= db'[i].at
      /\ db[i].dead => db'[i] = db[i]
  BY <1>2, ImportTxUpserts
<1>4. db[i] \in Rec /\ file[i] \in Rec /\ clock \in Nat /\ file[i].at <= clock
  BY <1>2, Readings DEF AnyNumber, Dated, Past
<1>5. file[i].at <= db'[i].at
  <2>1. CASE file[i] = None
    BY <1>3, <1>4, <2>1, NoneOK, RecFields DEF Upsert
  <2>2. CASE db[i].dead
    BY <1>3, <2>2 DEF Keeping, DeadIsFinal
  <2>3. CASE db[i] # None /\ ~db[i].dead /\ file[i].edit = db[i].edit
    BY <1>3, <2>3 DEF Upsert, Keeping, SameContent
  <2> QED BY <1>3, <1>4, <2>1, <2>2, <2>3, RecFields DEF Upsert, Rec
<1>6. db'[i] = db[i] \/ (db'[i].edit = file[i].edit /\ db'[i].dead = file[i].dead)
  BY <1>3, <1>4 DEF Upsert, Rec
<1> QED BY <1>1, <1>3, <1>5, <1>6

LEMMA CommitKeeps ==
  ASSUME Keeping, NEW p \in Procs, Commit(p), NEW i \in Issues, db'[i] # db[i]
  PROVE  /\ i \in target[p] /\ db'[i].edit = stamp[p] /\ db'[i].at = stamp[p]
         /\ ~db[i].dead /\ ~db'[i].dead
         /\ db[i].at < db'[i].at
<1>1. TypeOK /\ Keeps(p)
  BY DEF Keeping, Kept, AnyNumber
<1> DEFINE deadNow == cmd[p] = "delete" \/ (cmd[p] = "edit" /\ db[i].dead)
<1>2. PICK j \in target[p] :
        db' = [db EXCEPT ![j] = [edit |-> stamp[p], at |-> stamp[p],
                                 dead |-> cmd[p] = "delete" \/ (cmd[p] = "edit" /\ db[j].dead)]]
  BY DEF Commit
<1>3. i = j
  BY <1>1, <1>2 DEF TypeOK, Lines
<1>4. db'[i] = [edit |-> stamp[p], at |-> stamp[p], dead |-> deadNow]
  BY <1>1, <1>2, <1>3 DEF TypeOK, Lines
<1>5. ~db[i].dead /\ db[i].at < stamp[p] /\ cmd[p] # "delete"
  BY <1>1, <1>2, <1>3 DEF Keeps
<1>6. deadNow = FALSE
  BY <1>5
<1> HIDE DEF deadNow
<1> QED BY <1>2, <1>3, <1>4, <1>5, <1>6

(* Rows never lose a date, nor tombstones their death.                     *)
LEMMA RowsOnlyGrow ==
  ASSUME Keeping, Next, NEW i \in Issues
  PROVE  db[i].at <= db'[i].at /\ (db[i].dead => db'[i] = db[i])
<1>0. db[i] \in Rec /\ db'[i] \in Rec
  BY TypeStep, Readings DEF Keeping, AnyNumber, TypeOK, Lines
<1>1. CASE db'[i] = db[i]
  BY <1>0, <1>1, RecFields
<1>2. ASSUME NEW p \in Procs, ImportTx(p) PROVE db[i].at <= db'[i].at /\ (db[i].dead => db'[i] = db[i])
  BY <1>2, ImportTxKeeps
<1>3. ASSUME NEW p \in Procs, Commit(p), db'[i] # db[i] PROVE db[i].at <= db'[i].at /\ ~db[i].dead
  BY <1>0, <1>3, CommitKeeps, RecFields
<1> QED BY <1>1, <1>2, <1>3, DbEffects

LEMMA WriteKeeps ==
  ASSUME Keeping, NEW p \in Procs, FlushWrite(p), NEW i \in Issues
  PROVE  /\ file'[i] = snap[p][i] /\ snap[p][i].at <= db[i].at
         /\ db[i].dead => file'[i] = None \/ file'[i].dead
         /\ file'[i].dead => db[i].dead \/ file[i].dead
         /\ UNCHANGED <<db, incoming>>
<1>1. fl[p] = "write" /\ file' = snap[p] /\ UNCHANGED <<db, incoming>>
  BY DEF FlushWrite, Step, store
<1> QED BY <1>1 DEF Keeping, Kept, Keeps, Within

LEMMA SameContentStep == ASSUME Keeping, Next PROVE SameContent'
<1> SUFFICES ASSUME NEW i \in Issues, db'[i] # None, file'[i].edit = db'[i].edit
             PROVE  file'[i].at <= db'[i].at
  BY DEF SameContent
<1>1. CASE UNCHANGED <<db, file>>
  BY <1>1 DEF Keeping, SameContent
<1>2. CASE GitPull
  <2>1. db' = db
    BY <1>2 DEF GitPull, store
  <2>2. CASE file'[i] = file[i]
    BY <2>1, <2>2 DEF Keeping, SameContent
  <2>3. CASE file'[i] # file[i]
    <3>1. incoming[i] # None /\ file'[i] = incoming[i]
      BY <1>2, <2>3 DEF GitPull, Newer
    <3> QED BY <2>1, <3>1 DEF Keeping, NotPulled
  <2> QED BY <2>2, <2>3
<1>3. ASSUME NEW p \in Procs, ImportTx(p) PROVE file'[i].at <= db'[i].at
  BY <1>3, ImportTxKeeps
<1>4. ASSUME NEW p \in Procs, Commit(p) PROVE file'[i].at <= db'[i].at
  <2>1. file' = file
    BY <1>4 DEF Commit, world
  <2>2. CASE db'[i] = db[i]
    BY <2>1, <2>2 DEF Keeping, SameContent
  <2>3. CASE db'[i] # db[i]
    <3>1. db[i].at < db'[i].at
      BY <1>4, <2>3, CommitKeeps
    <3>2. file[i].at <= db[i].at
      BY <1>4 DEF Commit, Goto, Keeping, Kept, Keeps, UpToDatePCs, Within
    <3>3. db[i] \in Rec /\ file[i] \in Rec /\ db'[i] \in Rec
      BY TypeStep, Readings DEF Keeping, AnyNumber, TypeOK, Lines
    <3> QED BY <2>1, <3>1, <3>2, <3>3, RecFields
  <2> QED BY <2>2, <2>3
<1>5. ASSUME NEW p \in Procs, FlushWrite(p) PROVE file'[i].at <= db'[i].at
  BY <1>5, WriteKeeps
<1>6. CASE UNCHANGED file
  BY <1>1, <1>3, <1>4, <1>6, DbEffects
<1> QED BY <1>2, <1>5, <1>6, FileEffects

LEMMA DeadIsFinalStep == ASSUME Keeping, Next PROVE DeadIsFinal'
<1>0. \A i \in Issues : db[i] \in Rec /\ db'[i] \in Rec /\ file[i] \in Rec /\ file'[i] \in Rec
  BY TypeStep, Readings DEF Keeping, AnyNumber, TypeOK, Lines
<1> SUFFICES ASSUME NEW i \in Issues
             PROVE  /\ file'[i].dead => incoming'[i] = None
                    /\ db'[i].dead =>
                         /\ incoming'[i] = None /\ (file'[i] = None \/ file'[i].dead)
                         /\ file'[i].at <= db'[i].at
  BY DEF DeadIsFinal
<1>1. CASE UNCHANGED <<db, file, incoming>>
  BY <1>1 DEF Keeping, DeadIsFinal
<1>2. CASE GitPull
  <2>1. db' = db /\ incoming'[i] = None
    BY <1>2, EmptyOK DEF GitPull, store
  <2>2. incoming[i] = None => file'[i] = file[i]
    BY <1>2 DEF GitPull
  <2> QED BY <2>1, <2>2 DEF Keeping, DeadIsFinal
<1>3. ASSUME NEW j \in Issues, NEW dead \in BOOLEAN, RemoteEdit(j, dead), i = j
      PROVE  ~file'[i].dead /\ ~db'[i].dead
  <2>1. UNCHANGED <<db, file>> /\ ~file[i].dead
    BY <1>3 DEF RemoteEdit, store
  <2>2. Unborn(i) \/ file[i] # None \/ incoming[i] # None
    BY <1>3 DEF RemoteEdit
  <2>3. ~db[i].dead
    BY <2>1, <2>2, NoneOK DEF Keeping, DeadIsFinal, Unborn
  <2> QED BY <2>1, <2>3
<1>4. ASSUME NEW j \in Issues, NEW dead \in BOOLEAN, RemoteEdit(j, dead), i # j
      PROVE  db' = db /\ file' = file /\ incoming'[i] = incoming[i]
  BY <1>4 DEF RemoteEdit, store, Keeping, AnyNumber, TypeOK, Lines
<1>5. ASSUME NEW p \in Procs, ImportTx(p)
      PROVE  /\ file'[i].dead => incoming'[i] = None
             /\ db'[i].dead =>
                  /\ incoming'[i] = None /\ (file'[i] = None \/ file'[i].dead)
                  /\ file'[i].at <= db'[i].at
  <2>1. incoming' = incoming
    BY <1>5 DEF ImportTx, world
  <2> QED BY <1>5, <2>1, ImportTxKeeps DEF Keeping, DeadIsFinal
<1>6. ASSUME NEW p \in Procs, Commit(p)
      PROVE  UNCHANGED <<file, incoming>> /\ (db'[i] = db[i] \/ ~db'[i].dead)
  BY <1>6, CommitKeeps DEF Commit, world
<1>7. ASSUME NEW p \in Procs, FlushWrite(p)
      PROVE  /\ file'[i].dead => incoming'[i] = None
             /\ db'[i].dead =>
                  /\ incoming'[i] = None /\ (file'[i] = None \/ file'[i].dead)
                  /\ file'[i].at <= db'[i].at
  BY <1>7, WriteKeeps DEF Keeping, DeadIsFinal
<1>8. CASE UNCHANGED file /\ UNCHANGED incoming
  BY <1>1, <1>5, <1>6, <1>8, DbEffects DEF Keeping, DeadIsFinal
<1>9. CASE \E j \in Issues, dead \in BOOLEAN : RemoteEdit(j, dead)
  BY <1>3, <1>4, <1>9 DEF Keeping, DeadIsFinal
<1> QED BY <1>2, <1>7, <1>8, <1>9, FileEffects, IncomingEffects

LEMMA RememberedStep == ASSUME Keeping, Next PROVE Remembered'
<1> SUFFICES ASSUME NEW lines \in contentHash', NEW i \in Issues PROVE lines[i].at <= db'[i].at
  BY DEF Remembered, Within
<1>1. lines \in Lines
  BY TypeStep DEF Keeping, AnyNumber, TypeOK
<1>2. CASE lines \in contentHash
  <2>1. lines[i].at <= db[i].at
    BY <1>2 DEF Keeping, Remembered, Within
  <2>2. db[i] \in Rec /\ db'[i] \in Rec /\ lines[i] \in Rec
    BY <1>1, TypeStep, Readings DEF Keeping, AnyNumber, TypeOK, Lines
  <2> QED BY <2>1, <2>2, RowsOnlyGrow, RecFields
<1>3. ASSUME NEW p \in Procs, ImportDone(p), lines \notin contentHash PROVE lines[i].at <= db'[i].at
  BY <1>3 DEF ImportDone, Goto, HashOf, store, Keeping, Kept, Keeps, Within
<1>4. ASSUME NEW p \in Procs, FlushContentHash(p), lines \notin contentHash
      PROVE  lines[i].at <= db'[i].at
  BY <1>4 DEF FlushContentHash, Step, HashOf, store, Keeping, Kept, Keeps, Within
<1> QED BY <1>2, <1>3, <1>4, HashEffects

(* A flush copies rows and lines, a command stamps with the time.           *)
LEMMA CopyEffects ==
  ASSUME TypeOK, NEW p \in Procs, Process(p), NEW i \in Issues
  PROVE  /\ snap'[p][i] \in {snap[p][i], None, file[i], db[i]}
         /\ stamp'[p] \in {stamp[p], 0, clock + 1}
         /\ UNCHANGED incoming
<1>1. stamp'[p] \in {stamp[p], 0, clock + 1} /\ UNCHANGED incoming
  BY DEF Process, Start, Command, Import, ImportRead, ImportTx, ImportDone, Resolve, Commit,
         NothingToDo, Overtake, Finish, ImportSkip, Crash, Flush, FlushStart, FlushCheck,
         FlushList,
         FlushRead, FlushFetch, FlushWrite, FlushClear, FlushReread, FlushContentHash,
         FlushFileHash, FlushFail, main, world, TypeOK
<1>2. CASE snap' \in {[snap EXCEPT ![p] = Empty], [snap EXCEPT ![p] = file]}
  BY <1>1, <1>2, EmptyOK DEF TypeOK
<1>3. CASE FlushFetch(p)
  <2>1. snap'[p][i] \in {snap[p][i], db[i]}
    BY <1>3, FetchTakes
  <2> QED BY <1>1, <2>1
<1>4. CASE UNCHANGED snap
  BY <1>1, <1>4
<1>5. CASE FlushRead(p) \/ FlushReread(p) \/ FlushFileHash(p) \/ FlushFail(p) \/ Crash(p)
  BY <1>2, <1>5 DEF FlushRead, FlushReread, FlushFileHash, FlushFail, Crash
<1> QED
  BY <1>1, <1>3, <1>4, <1>5
     DEF Process, Start, Command, Import, ImportRead, ImportTx, ImportDone, Resolve, Commit,
         NothingToDo, Overtake, Finish, ImportSkip, Flush, FlushStart, FlushCheck,
         FlushList, FlushWrite,
         FlushClear, FlushContentHash, flush

LEMMA NotPulledStep == ASSUME ImportsFirst, Keeping, Next PROVE NotPulled'
<1> SUFFICES ASSUME NEW i \in Issues, incoming'[i] # None
             PROVE  /\ incoming'[i].edit \notin {0, db'[i].edit, file'[i].edit}
                    /\ \A p \in Procs : incoming'[i].edit \notin {snap'[p][i].edit, stamp'[p]}
  BY DEF NotPulled
<1>0. TypeOK /\ clock \in Nat
  BY DEF Keeping, AnyNumber, TypeOK
<1>1. ASSUME NEW j \in Issues, NEW dead \in BOOLEAN, RemoteEdit(j, dead)
      PROVE  /\ incoming'[i].edit \notin {0, db'[i].edit, file'[i].edit}
             /\ \A p \in Procs : incoming'[i].edit \notin {snap'[p][i].edit, stamp'[p]}
  <2>1. UNCHANGED <<db, file, snap, stamp>>
    BY <1>1 DEF RemoteEdit, store, main, flush
  <2>2. CASE i = j
    <3>1. incoming'[i].edit = clock + 1
      BY <1>0, <1>1, <2>2 DEF RemoteEdit, TypeOK, Lines
    <3>2. \A r \in {db[i], file[i]} \cup {snap[p][i] : p \in Procs} : r.edit \in Nat /\ r.edit <= clock
      BY <1>0, Readings, RecFields DEF Keeping, AnyNumber, Dated, Past
    <3>3. \A p \in Procs : stamp[p] \in Nat /\ stamp[p] <= clock
      BY <1>0, Readings DEF Keeping, AnyNumber, Dated
    <3> QED BY <1>0, <2>1, <3>1, <3>2, <3>3
  <2>3. CASE i # j
    <3>1. incoming'[i] = incoming[i]
      BY <1>0, <1>1, <2>3 DEF RemoteEdit, TypeOK, Lines
    <3> QED BY <2>1, <3>1 DEF Keeping, NotPulled
  <2> QED BY <2>2, <2>3
<1>2. CASE GitPull
  BY <1>2, EmptyOK DEF GitPull
<1>3. ASSUME NEW p \in Procs, Process(p)
      PROVE  /\ incoming'[i].edit \notin {0, db'[i].edit, file'[i].edit}
             /\ \A q \in Procs : incoming'[i].edit \notin {snap'[q][i].edit, stamp'[q]}
  <2>0. incoming' = incoming /\ \A q \in Procs : q = p
    BY <1>0, <1>3, CopyEffects DEF ImportsFirst, OneProcess
  <2>1. incoming[i].edit \notin {0, db[i].edit, file[i].edit, snap[p][i].edit, stamp[p]}
    BY <2>0 DEF Keeping, NotPulled
  <2>2. db'[i].edit \in {db[i].edit, file[i].edit, stamp[p]}
    BY <2>0, DbEffects, ImportTxKeeps, CommitKeeps
  <2>3. file'[i] \in {file[i], snap[p][i]}
    <3>1. ~GitPull
      BY EmptyOK DEF GitPull
    <3> QED BY <2>0, <3>1, FileEffects, WriteKeeps
  <2>4. incoming[i].edit # clock + 1
    <3>1. incoming[i].edit \in Nat /\ incoming[i].edit <= clock
      BY <1>0, Readings, RecFields DEF Keeping, AnyNumber, Dated, Past
    <3> QED BY <1>0, <3>1
  <2>5. snap'[p][i] \in {snap[p][i], None, file[i], db[i]} /\ stamp'[p] \in {stamp[p], 0, clock + 1}
    BY <1>0, <1>3, CopyEffects
  <2> QED BY <2>0, <2>1, <2>2, <2>3, <2>4, <2>5, NoneOK
<1> QED BY <1>1, <1>2, <1>3 DEF Next, Environment

LEMMA KeptStep == ASSUME ImportsFirst, Keeping, Next PROVE Kept'
<1>0. TypeOK /\ Targets /\ clock \in Nat /\ \A i \in Issues : db[i] \in Rec /\ db'[i] \in Rec
  BY TypeStep, Readings DEF Keeping, AnyNumber, TypeOK, Lines
<1>1. CASE \E i \in Issues, dead \in BOOLEAN : RemoteEdit(i, dead)
  BY <1>1 DEF RemoteEdit, store, main, flush, Keeping, Kept, Keeps, Within
<1>2. CASE GitPull
  <2> SUFFICES ASSUME NEW p \in Procs PROVE Keeps(p)'
    BY DEF Kept
  <2>1. pc[p] = "idle" /\ UNCHANGED <<db, main, due, flush>>
    BY <1>2 DEF GitPull, ImportsFirst, store
  <2>2. fl[p] = "idle" /\ ~due[p] /\ target[p] = {} /\ cmd[p] # "delete"
    BY <1>0, <2>1 DEF TypeOK, Targets, Keeping, Kept, Keeps
  <2> QED BY <2>1, <2>2 DEF Keeps, main, flush, UpToDatePCs
<1>3. ASSUME NEW p \in Procs, Process(p) PROVE Kept'
  <2>0. Keeps(p) /\ (Keeps(p)' => Kept')
    BY DEF ImportsFirst, OneProcess, Keeping, Kept
  <2> SUFFICES Keeps(p)'
    BY <2>0
  <2>1. ASSUME NEW kind \in Commands, Start(p, kind) PROVE Keeps(p)'
    <3>1. kind # "delete" /\ pc[p] = "idle"
      BY <2>1 DEF ImportsFirst, Start, Goto
    <3>2. pc'[p] = "preRun" /\ cmd'[p] = kind /\ UNCHANGED <<target, due, fl>>
      BY <1>0, <2>1, <3>1 DEF Start, Goto, TypeOK, flush
    <3>3. fl[p] = "idle" /\ ~due[p] /\ target[p] = {}
      BY <1>0, <3>1 DEF TypeOK, Targets
    <3> QED BY <3>1, <3>2, <3>3 DEF Keeps, UpToDatePCs
  <2>2. CASE ImportRead(p)
    <3>1. pc[p] = "preRun" /\ UNCHANGED <<cmd, target, due, fl, db, file>>
      BY <2>2 DEF ImportRead, store, world, flush
    <3>2. fl[p] = "idle" /\ ~due[p] /\ target[p] = {} /\ cmd[p] # "delete"
      BY <1>0, <2>0, <3>1 DEF Targets, Keeps, UpToDatePCs
    <3>3. CASE HashOf(file) = contentHash
      <4>1. pc'[p] = "run"
        BY <1>0, <2>2, <3>3 DEF ImportRead, TypeOK
      <4>2. Within(file)
        BY <3>3 DEF HashOf, Keeping, Remembered
      <4> QED BY <3>1, <3>2, <4>1, <4>2 DEF Keeps, Within
    <3>4. CASE HashOf(file) # contentHash
      <4>1. pc'[p] = "importing" /\ seen'[p] = file
        BY <1>0, <2>2, <3>4 DEF ImportRead, TypeOK
      <4> QED BY <3>1, <3>2, <4>1 DEF Keeps, UpToDatePCs
    <3> QED BY <3>3, <3>4
  <2>3. CASE ImportTx(p)
    <3>1. pc[p] = "importing" /\ UNCHANGED <<cmd, target, seen, fl, file>>
      BY <2>3 DEF ImportTx, Goto, world, flush
    <3>2. fl[p] = "idle" /\ target[p] = {} /\ cmd[p] # "delete" /\ seen[p] = file
      BY <1>0, <2>0, <3>1 DEF Targets, Keeps, UpToDatePCs
    <3>3. pc'[p] = "imported"
      BY <1>0, <2>3 DEF ImportTx, Goto, TypeOK
    <3>4. \A i \in Issues : file[i].at <= db'[i].at
      BY <2>3, ImportTxKeeps
    <3> QED BY <3>1, <3>2, <3>3, <3>4 DEF Keeps, UpToDatePCs, Within
  <2>4. CASE ImportDone(p) \/ NothingToDo(p)
    <3>1. UNCHANGED <<cmd, target, due, flush, db, file, stamp>>
      BY <2>4 DEF ImportDone, NothingToDo, store, world
    <3>2. pc[p] \in {"imported", "run"} /\ pc'[p] \in {"run", "post"}
      BY <1>0, <2>4 DEF ImportDone, NothingToDo, Goto, TypeOK
    <3> QED BY <2>0, <3>1, <3>2 DEF Keeps, UpToDatePCs, Within, flush
  <2>5. ASSUME NEW i \in Issues, Resolve(p, i) PROVE Keeps(p)'
    <3>1. UNCHANGED <<cmd, due, flush, db, file>>
      BY <2>5 DEF Resolve, store, world
    <3>2. pc[p] = "run" /\ pc'[p] = "resolved" /\ target'[p] = {i} /\ stamp'[p] = clock + 1
      BY <1>0, <2>5 DEF Resolve, Goto, TypeOK
    <3>3. ~db[i].dead
      BY <2>5, NoneOK DEF Resolve, Unborn, Live
    <3>4. db[i].at < clock + 1
      <4>1. db[i].at <= clock /\ db[i].at \in Nat
        BY <1>0, RecFields DEF Keeping, AnyNumber, Dated, Past
      <4> QED BY <1>0, <4>1
    <3> QED BY <2>0, <3>1, <3>2, <3>3, <3>4 DEF Keeps, UpToDatePCs, Within, flush
  <2>6. CASE Commit(p)
    <3>1. UNCHANGED <<cmd, flush, file>>
      BY <2>6 DEF Commit, world
    <3>2. pc[p] = "resolved" /\ pc'[p] = "post" /\ target'[p] = {}
      BY <1>0, <2>6 DEF Commit, Goto, TypeOK
    <3>3. \A lines \in Lines : Within(lines) => Within(lines)'
      <4> SUFFICES ASSUME NEW lines \in Lines, Within(lines), NEW i \in Issues
                   PROVE  lines[i].at <= db'[i].at
        BY DEF Within
      <4>1. lines[i].at <= db[i].at /\ db[i].at <= db'[i].at
        BY RowsOnlyGrow DEF Within
      <4>2. lines[i] \in Rec
        BY DEF Lines
      <4> QED BY <1>0, <4>1, <4>2, RecFields
    <3>4. Within(file)' /\ (fl'[p] \in {"fetch", "write", "content"} => Within(snap[p])')
      BY <1>0, <2>0, <3>1, <3>2, <3>3 DEF Keeps, UpToDatePCs, Within, TypeOK, flush
    <3>5. \A i \in Issues : db'[i].dead <=> db[i].dead
      BY <2>6, CommitKeeps
    <3> QED BY <2>0, <3>1, <3>2, <3>4, <3>5 DEF Keeps, UpToDatePCs, Within, flush
  <2>7. CASE Overtake(p) \/ Finish(p) \/ Crash(p)
    <3>1. /\ pc'[p] \in {"idle", "overtaken"} /\ fl'[p] = "idle" /\ ~due'[p]
          /\ cmd'[p] \in {"none", cmd[p]} /\ target'[p] = {}
      BY <1>0, <2>7 DEF Overtake, Finish, Crash, Goto, TypeOK, Targets, flush
    <3> QED BY <2>0, <3>1 DEF Keeps, UpToDatePCs
  <2>8. CASE FlushStart(p) \/ FlushCheck(p) \/ FlushList(p) \/ FlushClear(p) \/ FlushFileHash(p)
             \/ FlushFail(p)
    <3>1. UNCHANGED <<db, file, main>> /\ (due'[p] => due[p])
      BY <1>0, <2>8 DEF FlushStart, FlushCheck, FlushList, FlushClear, FlushFileHash, FlushFail,
                        store, world, TypeOK
    <3>2. fl'[p] \in {"idle", "check", "list", "read", "reread"} /\ (fl[p] # "idle" \/ due[p])
      BY <1>0, <2>8 DEF FlushStart, FlushCheck, FlushList, FlushClear, FlushFileHash, FlushFail,
                        Step, TypeOK
    <3> QED BY <2>0, <3>1, <3>2 DEF Keeps, Within, main
  <2>9. CASE FlushRead(p) \/ FlushReread(p)
    <3>1. UNCHANGED <<db, file, main, due>> /\ fl[p] # "idle"
      BY <2>9 DEF FlushRead, FlushReread, Step, store, world
    <3>2. snap'[p] \in {file, Empty}
      BY <1>0, <2>9 DEF FlushRead, FlushReread, TypeOK
    <3>3. \A i \in Issues : snap'[p][i] \in {file[i], None}
      BY <3>2, EmptyOK
    <3>4. Within(file) /\ \A i \in Issues : db[i].at \in Nat
      BY <1>0, <2>0, <3>1, RecFields DEF Keeps
    <3>5. \A i \in Issues : snap'[p][i].at <= db[i].at
      BY <3>3, <3>4, NoneOK DEF Within
    <3>6. \A i \in Issues : /\ db[i].dead => snap'[p][i] = None \/ snap'[p][i].dead
                            /\ snap'[p][i].dead => file[i].dead
      BY <3>3, NoneOK DEF Keeping, DeadIsFinal
    <3> QED BY <2>0, <3>1, <3>5, <3>6 DEF Keeps, Within, main
  <2>10. CASE FlushFetch(p)
    <3>1. UNCHANGED <<db, file, main, due>> /\ fl[p] = "fetch" /\ fl'[p] \in {"fetch", "write"}
      BY <1>0, <2>10 DEF FlushFetch, Step, store, world, TypeOK
    <3>2. \A i \in Issues : snap'[p][i] \in {snap[p][i], db[i]}
      BY <1>0, <2>10, FetchTakes
    <3>3. \A i \in Issues : snap'[p][i].at <= db[i].at
      BY <1>0, <2>0, <3>1, <3>2, RecFields DEF Keeps, Within
    <3>4. \A i \in Issues : /\ db[i].dead => snap'[p][i] = None \/ snap'[p][i].dead
                            /\ snap'[p][i].dead => db[i].dead \/ file[i].dead
      BY <2>0, <3>1, <3>2 DEF Keeps
    <3> QED BY <2>0, <3>1, <3>3, <3>4 DEF Keeps, Within, main
  <2>11. CASE FlushWrite(p)
    <3>1. UNCHANGED <<db, main, due>> /\ fl[p] = "write" /\ fl'[p] = "clear" /\ file' = snap[p]
      BY <1>0, <2>11 DEF FlushWrite, Step, store, TypeOK
    <3>2. pc[p] # "importing" /\ Within(snap[p])
      BY <2>0, <3>1 DEF Keeps, UpToDatePCs
    <3> QED BY <2>0, <3>1, <3>2 DEF Keeps, Within, main
  <2>12. CASE FlushContentHash(p)
    <3>1. UNCHANGED <<db, file, main, due>> /\ fl[p] = "content" /\ fl'[p] = "file"
      BY <1>0, <2>12 DEF FlushContentHash, Step, store, world, TypeOK
    <3> QED BY <2>0, <3>1 DEF Keeps, Within, main
  <2> QED
    BY <1>3, <2>1, <2>2, <2>3, <2>4, <2>5, <2>6, <2>7, <2>8, <2>9, <2>10, <2>11, <2>12
       DEF Process, Command, Import, Flush, ImportSkip, ImportsFirst
<1> QED BY <1>1, <1>2, <1>3 DEF Next, Environment

LEMMA KeepingAlways ==
  ASSUME ImportsFirst
  PROVE  Spec => []Keeping
<1>1. Init => Keeping
  BY KeepingInit
<1>2. Keeping /\ [Next]_vars => Keeping'
  <2>1. CASE UNCHANGED vars
    <3>1. AnyNumber => AnyNumber'
      BY <2>1, TypeStep, DatedStep, TargetsStep DEF AnyNumber
    <3>2. \A p \in Procs : Keeps(p) => Keeps(p)'
      BY <2>1 DEF Keeps, Within, vars, store, world, main, flush
    <3> QED
      BY <2>1, <3>1, <3>2 DEF Keeping, SameContent, NotPulled, DeadIsFinal, Remembered,
                              Kept, Within,
                              vars, store, hashes, world, main, flush
  <2>2. ASSUME Keeping, Next PROVE Keeping'
    <3>1. AnyNumber'
      BY <2>2, TypeStep, DatedStep, TargetsStep DEF AnyNumber, Keeping
    <3> QED
      BY <2>2, <3>1, SameContentStep, NotPulledStep, DeadIsFinalStep, RememberedStep, KeptStep
         DEF Keeping
  <2> QED BY <2>1, <2>2
<1> QED BY <1>1, <1>2, PTL DEF Spec

(* As long as commands run one after the other, each imports first, and    *)
(* git pull waits for them: when the database says that it has imported    *)
(* the file as it is now, the file has nothing newer than the database,    *)
(* whatever died or failed before, and whenever the flush ran.  The proof  *)
(* gives more than the property, which excepts tombstones.                 *)
THEOREM HashHonest ==
  ASSUME ImportsFirst
  PROVE  Spec => []HashIsHonest
<1>1. Keeping => HashIsHonest
  BY DEF Keeping, Remembered, Within, HashIsHonest, HashOf
<1> QED BY <1>1, KeepingAlways, PTL

(* Under the same hypotheses no step replaces the newest state of an issue,*)
(* in the database or only pulled into the file, by an older one.          *)
THEOREM NewestSurvives ==
  ASSUME ImportsFirst
  PROVE  Spec => NothingLost
<1>1. Keeping /\ Next =>
        \A i \in Issues :
          LET newest == Newer(db[i], file[i]).at IN
            db'[i].at >= newest \/ file'[i].at >= newest
  <2> SUFFICES ASSUME Keeping, Next, NEW i \in Issues
               PROVE  LET newest == Newer(db[i], file[i]).at IN
                        db'[i].at >= newest \/ file'[i].at >= newest
    OBVIOUS
  <2>1. TypeOK /\ db[i] \in Rec /\ file[i] \in Rec /\ db'[i] \in Rec /\ file'[i] \in Rec
    BY TypeStep, Readings DEF Keeping, AnyNumber, TypeOK, Lines
  <2>2. db[i].at <= db'[i].at
    BY RowsOnlyGrow
  <2>3. CASE UNCHANGED file
    BY <2>1, <2>2, <2>3, RecFields DEF Newer
  <2>4. CASE GitPull
    <3>1. file[i].at <= file'[i].at
      BY <2>1, <2>4, PullRaises
    <3> QED BY <2>1, <2>2, <3>1, RecFields DEF Newer
  <2>5. ASSUME NEW p \in Procs, FlushWrite(p)
        PROVE  LET newest == Newer(db[i], file[i]).at IN
                 db'[i].at >= newest \/ file'[i].at >= newest
    <3>1. Within(file)
      BY <2>5 DEF FlushWrite, Step, Keeping, Kept, Keeps
    <3>2. file[i].at <= db[i].at
      BY <3>1 DEF Within
    <3> QED BY <2>1, <2>2, <3>2, RecFields DEF Newer
  <2> QED BY <2>3, <2>4, <2>5, FileEffects
<1>2. Keeping /\ [Next]_vars =>
        [\A i \in Issues :
          LET newest == Newer(db[i], file[i]).at IN
            db'[i].at >= newest \/ file'[i].at >= newest]_vars
  BY <1>1
<1> QED BY <1>2, KeepingAlways, PTL DEF Spec, NothingLost

-----------------------------------------------------------------------------
(* Refinement: under the same hypotheses the clone is a Replica.           *)

(* What was written has a date, and an edit is imported no earlier than it *)
(* was made.                                                               *)
Written(r) == r = None \/ (0 < r.edit /\ r.edit <= r.at)

Shapes ==
  /\ \A i \in Issues :
       /\ Written(db[i]) /\ Written(file[i])
       /\ incoming[i] # None => 0 < incoming[i].edit /\ incoming[i].edit = incoming[i].at
  /\ \A p \in Procs, i \in Issues : Written(snap[p][i])

LEMMA ShapesInit == Init => Shapes
<1> SUFFICES ASSUME Init PROVE Shapes
  OBVIOUS
<1>1. \A i \in Issues : Written(db[i]) /\ file[i] = db[i] /\ incoming[i] = None
  BY EmptyOK DEF Init, Written
<1>2. \A p \in Procs, i \in Issues : snap[p][i] = None
  BY EmptyOK DEF Init
<1> QED BY <1>1, <1>2 DEF Shapes, Written

LEMMA ShapesStep == ASSUME ImportsFirst, Keeping, Shapes, Next PROVE Shapes'
<1>0. TypeOK /\ clock \in Nat
  BY DEF Keeping, AnyNumber, TypeOK
<1>1. ASSUME NEW i \in Issues PROVE Written(db'[i])
  <2>1. CASE db'[i] = db[i]
    BY <2>1 DEF Shapes
  <2>2. ASSUME NEW p \in Procs, ImportTx(p) PROVE Written(db'[i])
    <3>1. db'[i] = Upsert(db[i], file[i], clock + 1)
      BY <2>2, ImportTxUpserts DEF ImportTx, Goto, Keeping, Kept, Keeps
    <3>2. file[i] \in Rec /\ file[i].edit <= clock
      BY <1>0, Readings DEF Keeping, AnyNumber, Dated, Past
    <3>3. db'[i] \in {db[i], file[i], [file[i] EXCEPT !.at = clock + 1]}
      BY <3>1 DEF Upsert
    <3>4. CASE file[i] = None
      BY <3>1, <3>4 DEF Upsert, Shapes
    <3> QED BY <1>0, <3>2, <3>3, <3>4, RecFields DEF Shapes, Written, Rec
  <2>3. ASSUME NEW p \in Procs, Commit(p), db'[i] # db[i] PROVE Written(db'[i])
    <3>1. db'[i].edit = stamp[p] /\ db'[i].at = stamp[p] /\ db[i].at < stamp[p]
      BY <2>3, CommitKeeps
    <3>2. stamp[p] \in Nat /\ db[i].at \in Nat
      BY <1>0, Readings, RecFields
    <3> QED BY <3>1, <3>2 DEF Written
  <2> QED BY <2>1, <2>2, <2>3, DbEffects
<1>2. ASSUME NEW i \in Issues
      PROVE  /\ Written(file'[i])
             /\ incoming'[i] # None => 0 < incoming'[i].edit /\ incoming'[i].edit = incoming'[i].at
  <2>1. ASSUME NEW j \in Issues, NEW dead \in BOOLEAN, RemoteEdit(j, dead)
        PROVE  /\ file' = file
               /\ incoming'[i] # None => 0 < incoming'[i].edit /\ incoming'[i].edit = incoming'[i].at
    <3>1. incoming'[i] = IF i = j THEN [edit |-> clock + 1, at |-> clock + 1, dead |-> dead]
                         ELSE incoming[i]
      BY <1>0, <2>1 DEF RemoteEdit, TypeOK, Lines
    <3> QED BY <1>0, <2>1, <3>1 DEF RemoteEdit, Shapes
  <2>2. CASE GitPull
    <3>1. incoming'[i] = None
      BY <2>2, EmptyOK DEF GitPull
    <3>2. CASE file'[i] = file[i]
      BY <3>1, <3>2 DEF Shapes
    <3>3. CASE file'[i] # file[i]
      <4>1. incoming[i] # None /\ file'[i] = incoming[i]
        BY <2>2, <3>3 DEF GitPull, Newer
      <4>2. incoming[i].at \in Nat
        BY <1>0, Readings, RecFields
      <4> QED BY <3>1, <4>1, <4>2 DEF Shapes, Written
    <3> QED BY <3>2, <3>3
  <2>3. ASSUME NEW p \in Procs, FlushWrite(p) PROVE Written(file'[i])
    BY <2>3, WriteKeeps DEF Shapes
  <2>4. CASE UNCHANGED file
    BY <2>1, <2>2, <2>4, IncomingEffects DEF Shapes
  <2>5. ASSUME NEW p \in Procs, FlushWrite(p) PROVE incoming' = incoming
    BY <2>5 DEF FlushWrite
  <2> QED BY <2>2, <2>3, <2>4, <2>5, FileEffects DEF Shapes
<1>3. ASSUME NEW p \in Procs, NEW i \in Issues PROVE Written(snap'[p][i])
  <2>1. CASE UNCHANGED snap
    BY <2>1 DEF Shapes
  <2>2. ASSUME NEW q \in Procs, Process(q), snap' # snap PROVE Written(snap'[p][i])
    <3>1. p = q
      BY DEF ImportsFirst, OneProcess
    <3>2. snap'[p][i] \in {snap[p][i], None, file[i], db[i]}
      BY <1>0, <2>2, <3>1, CopyEffects
    <3> QED BY <3>2 DEF Shapes, Written
  <2>3. CASE Environment
    BY <2>1, <2>3 DEF Environment, RemoteEdit, GitPull, flush
  <2> QED BY <2>1, <2>2, <2>3 DEF Next
<1> QED BY <1>1, <1>2, <1>3 DEF Shapes

LEMMA ShapesAlways ==
  ASSUME ImportsFirst
  PROVE  Spec => [](Keeping /\ Shapes)
<1>1. Init => Shapes
  BY ShapesInit
<1>2. Keeping /\ Shapes /\ [Next]_vars => Shapes'
  <2>1. CASE UNCHANGED vars
    BY <2>1 DEF vars, store, world, flush, Shapes
  <2> QED BY <2>1, ShapesStep
<1> QED BY <1>1, <1>2, KeepingAlways, PTL DEF Spec

LEMMA SaysNothing == Says(None) = Clone!Nothing
BY DEF Says, None, Clone!Nothing

LEMMA SaysContent ==
  ASSUME NEW r \in Rec
  PROVE  /\ Says(r) \in Clone!Content
         /\ Says(r).edit = r.edit /\ Says(r).dead = r.dead
         /\ r.edit # 0 => Says(r) # Clone!Nothing
BY DEF Says, Clone!Content, Clone!Nothing, Rec

(* A row that is no older than its line is what the issue says.            *)
LEMMA RowIsNewest ==
  ASSUME TypeOK, NEW i \in Issues, file[i].at <= db[i].at
  PROVE  Newest(i) = db[i]
BY Readings, RecFields DEF Newest, Newer

LEMMA NewestOK ==
  ASSUME TypeOK, Shapes, NEW i \in Issues
  PROVE  /\ Newest(i) \in {db[i], file[i]} /\ Newest(i) \in Rec
         /\ db[i].at <= Newest(i).at /\ file[i].at <= Newest(i).at
         /\ Newest(i).edit <= Newest(i).at
         /\ Newest(i).at # 0 => Newest(i).edit # 0
<1>1. db[i] \in Rec /\ file[i] \in Rec
  BY Readings
<1>2. Newest(i) \in {db[i], file[i]} /\ db[i].at <= Newest(i).at /\ file[i].at <= Newest(i).at
  BY <1>1, RecFields DEF Newest, Newer
<1> QED BY <1>1, <1>2, NoneOK, RecFields DEF Shapes, Written

(* Nobody edits an issue that has a tombstone somewhere.                   *)
LEMMA NewestLives ==
  ASSUME Keeping, Shapes, NEW i \in Issues, incoming[i] # None
  PROVE  ~Newest(i).dead
BY NewestOK DEF Keeping, AnyNumber, DeadIsFinal

(* The import takes what the file has that is newer, and the issue says    *)
(* the same when the import has dated it anew.                             *)
LEMMA ImportIsInvisible ==
  ASSUME Keeping, Shapes, NEW p \in Procs, ImportTx(p), NEW i \in Issues
  PROVE  Says(Newest(i)') = Says(Newest(i))
<1>1. AnyNumber /\ TypeOK /\ seen[p] = file /\ file' = file
  BY DEF ImportTx, Goto, world, Keeping, Kept, Keeps, AnyNumber
<1>2. db'[i] = Upsert(db[i], file[i], clock + 1)
  BY <1>1, ImportTxUpserts
<1>3. db[i] \in Rec /\ file[i] \in Rec /\ clock \in Nat /\ file[i].at <= clock
  BY <1>1, Readings DEF AnyNumber, Dated, Past
<1>4. Newest(i)' = Newer(file[i], db'[i])
  BY <1>1 DEF Newest
<1>5. CASE file[i].at <= db[i].at
  <2>1. db[i] = None => file[i] = None
    BY <1>3, <1>5, NoneOK, RecFields DEF Shapes, Written
  <2>2. db'[i] = db[i]
    BY <1>2, <1>3, <1>5, <2>1, RecFields DEF Upsert
  <2> QED BY <1>4, <2>2 DEF Newest
<1>6. CASE db[i].at < file[i].at
  <2>1. Newest(i) = file[i]
    BY <1>6 DEF Newest, Newer
  <2>2. ~db[i].dead
    BY <1>3, <1>6, RecFields DEF Keeping, DeadIsFinal
  <2>3. file[i] # None
    BY <1>3, <1>6, NoneOK, RecFields
  <2>4. CASE db[i] = None
    <3>1. db'[i] = file[i]
      BY <1>2, <2>2, <2>3, <2>4 DEF Upsert
    <3> QED BY <1>4, <2>1, <3>1 DEF Newer
  <2>5. CASE db[i] # None
    <3>1. file[i].edit # db[i].edit
      BY <1>3, <1>6, <2>5, RecFields DEF Keeping, SameContent
    <3>2. db'[i] = [file[i] EXCEPT !.at = clock + 1]
      BY <1>2, <1>6, <2>2, <2>3, <2>5, <3>1 DEF Upsert
    <3>3. /\ db'[i].at = clock + 1 /\ db'[i].edit = file[i].edit /\ db'[i].dead = file[i].dead
      BY <1>3, <3>2 DEF Rec
    <3>4. ~(file[i].at > db'[i].at)
      BY <1>3, <3>3, RecFields
    <3>5. Newer(file[i], db'[i]) = db'[i]
      BY <3>4 DEF Newer
    <3> QED BY <1>4, <2>1, <3>3, <3>5 DEF Says
  <2> QED BY <2>4, <2>5
<1> QED BY <1>3, <1>5, <1>6, RecFields

(* The flush writes no line that is newer than its row, over a file that   *)
(* has none either.                                                        *)
LEMMA WriteIsInvisible ==
  ASSUME Keeping, NEW p \in Procs, FlushWrite(p), NEW i \in Issues
  PROVE  Newest(i)' = Newest(i)
<1>1. TypeOK /\ TypeOK'
  BY TypeStep DEF Keeping, AnyNumber, Next, Process, Flush
<1>2. file'[i].at <= db[i].at /\ db' = db
  BY WriteKeeps
<1>3. file[i].at <= db[i].at
  BY DEF FlushWrite, Step, Keeping, Kept, Keeps, Within
<1>4. Newest(i) = db[i]
  BY <1>1, <1>3, RowIsNewest
<1>5. Newest(i)' = db[i]
  BY <1>1, <1>2, Readings, RecFields DEF Newest, Newer, TypeOK, Lines
<1> QED BY <1>4, <1>5

(* A command's transaction writes the issue.                               *)
LEMMA CommitIsWrite ==
  ASSUME Keeping, Shapes, NEW p \in Procs, Commit(p)
  PROVE  \E i \in Issues : Clone!Write(i)
<1>1. TypeOK /\ TypeOK'
  BY TypeStep DEF Keeping, AnyNumber, Next, Process, Command
<1>2. UNCHANGED <<file, incoming>> /\ pc[p] = "resolved"
  BY DEF Commit, Goto, world
<1>3. PICK i \in target[p] :
        db' = [db EXCEPT ![i] = [edit |-> stamp[p], at |-> stamp[p],
                                 dead |-> cmd[p] = "delete" \/ (cmd[p] = "edit" /\ db[i].dead)]]
  BY DEF Commit
<1>4. i \in Issues /\ ~db[i].dead /\ db[i].at < stamp[p]
  BY <1>1, <1>3, Readings DEF Keeping, Kept, Keeps
<1>5. \A j \in Issues : db[j] \in Rec /\ db'[j] \in Rec /\ file[j] \in Rec
  BY <1>1 DEF TypeOK, Lines
<1>6. \A j \in Issues : file[j].at <= db[j].at
  BY <1>2 DEF Keeping, Kept, Keeps, UpToDatePCs, Within
<1>7. \A j \in Issues \ {i} : db'[j] = db[j]
  BY <1>1, <1>3 DEF TypeOK, Lines
<1>8. db'[i].edit = stamp[p] /\ db'[i].at = stamp[p] /\ ~db'[i].dead
  <2>1. db'[i].at = stamp[p]
    BY <1>1, <1>3, <1>4 DEF TypeOK, Lines
  <2>2. db'[i] # db[i]
    BY <1>4, <1>5, <2>1, RecFields
  <2> QED BY <1>4, <2>2, CommitKeeps
<1>9. \A j \in Issues : Newest(j) = db[j]
  BY <1>1, <1>6, RowIsNewest
<1>10. \A j \in Issues : Newest(j)' = db'[j]
  <2> SUFFICES ASSUME NEW j \in Issues PROVE ~(file[j].at > db'[j].at)
    BY <1>2 DEF Newest, Newer
  <2>1. file[j].at \in Nat /\ db[j].at \in Nat /\ stamp[p] \in Nat /\ file[j].at <= db[j].at
    BY <1>1, <1>5, <1>6, Readings, RecFields
  <2> QED BY <1>4, <1>7, <1>8, <2>1
<1>11. stamp[p] > db[i].edit
  <2>1. db[i].edit <= db[i].at
    BY <1>4, NoneOK DEF Shapes, Written
  <2> QED BY <1>1, <1>4, <1>5, <2>1, Readings, RecFields
<1>12. /\ Says(db'[i]) \in Clone!Content /\ Says(db'[i]).edit = stamp[p] /\ ~Says(db'[i]).dead
       /\ Says(db[i]).edit = db[i].edit /\ ~Says(db[i]).dead
  BY <1>4, <1>5, <1>8, SaysContent
<1> DEFINE old == [j \in Issues |-> Says(Newest(j))]
           new == [j \in Issues |-> Says(Newest(j)')]
<1>13. new = [old EXCEPT ![i] = Says(db'[i])]
  BY <1>4, <1>7, <1>9, <1>10
<1>14. old[i] = Says(db[i]) /\ new[i] = Says(db'[i])
  BY <1>4, <1>9, <1>10
<1>15. new = [j \in Issues |-> Says(Newest(j))]'
  BY DEF Says
<1> HIDE DEF old, new
<1> QED BY <1>2, <1>4, <1>11, <1>12, <1>13, <1>14, <1>15 DEF Clone!Write, old

LEMMA RemoteEditIsArrive ==
  ASSUME Keeping, Shapes, NEW i \in Issues, NEW dead \in BOOLEAN, RemoteEdit(i, dead)
  PROVE  Clone!Arrive(i)
<1>1. TypeOK /\ clock \in Nat
  BY DEF Keeping, AnyNumber, TypeOK
<1> DEFINE edit == [edit |-> clock + 1, at |-> clock + 1, dead |-> dead]
<1>2. UNCHANGED <<db, file>> /\ incoming' = [incoming EXCEPT ![i] = edit]
  BY DEF RemoteEdit, store
<1>3. /\ ~incoming[i].dead /\ ~file[i].dead
      /\ Unborn(i) => ~dead
      /\ Unborn(i) \/ file[i] # None \/ incoming[i] # None
  BY DEF RemoteEdit
<1>4. db[i] \in Rec /\ file[i] \in Rec /\ incoming[i] \in Rec
  BY <1>1, Readings
<1>5. ~db[i].dead
  BY <1>3, NoneOK DEF Keeping, DeadIsFinal, Unborn
<1>6. ~Newest(i).dead /\ Newest(i).edit <= clock /\ Newest(i) \in Rec
  BY <1>1, <1>3, <1>5, NewestOK DEF Keeping, AnyNumber, Dated, Past
<1>7. incoming[i].edit <= clock
  BY DEF Keeping, AnyNumber, Dated, Past
<1>8. dead => Says(Newest(i)) # Clone!Nothing \/ Says(incoming[i]) # Clone!Nothing
  <2>1. CASE incoming[i] # None
    <3>1. incoming[i].edit # 0
      BY <1>4, <2>1, RecFields DEF Shapes
    <3> QED BY <1>4, <3>1, SaysContent
  <2>2. CASE file[i] # None
    <3>1. file[i].at # 0
      BY <1>4, <2>2, RecFields DEF Shapes, Written
    <3>2. Newest(i).edit # 0
      BY <1>1, <1>4, <1>6, <3>1, NewestOK, RecFields
    <3> QED BY <1>6, <3>2, SaysContent
  <2> QED BY <1>3, <2>1, <2>2
<1>9. /\ edit \in Rec /\ edit.edit = clock + 1 /\ edit.dead = dead
  BY <1>1 DEF Rec
<1>10. incoming'[i] = edit /\ \A j \in Issues \ {i} : incoming'[j] = incoming[j]
  BY <1>1, <1>2 DEF TypeOK, Lines
<1> HIDE DEF edit
<1>11. /\ Says(edit) \in Clone!Content /\ Says(edit).edit = clock + 1 /\ Says(edit).dead = dead
       /\ Says(Newest(i)).edit = Newest(i).edit /\ Says(Newest(i)).dead = Newest(i).dead
       /\ Says(incoming[i]).edit = incoming[i].edit /\ Says(incoming[i]).dead = incoming[i].dead
  BY <1>4, <1>6, <1>9, SaysContent
<1>12. clock + 1 > Newest(i).edit /\ clock + 1 > incoming[i].edit
  BY <1>1, <1>4, <1>6, <1>7, RecFields
<1> DEFINE old == [j \in Issues |-> Says(incoming[j])]
           new == [j \in Issues |-> Says(incoming'[j])]
           issue == [j \in Issues |-> Says(Newest(j))]
<1>13. new = [old EXCEPT ![i] = Says(edit)] /\ new[i] = Says(edit)
  BY <1>10
<1>14. old[i] = Says(incoming[i]) /\ issue[i] = Says(Newest(i))
  OBVIOUS
<1>15. new = [j \in Issues |-> Says(incoming[j])]' /\ issue' = issue
  BY <1>2 DEF Says, Newest
<1> HIDE DEF old, new
<1> QED BY <1>3, <1>6, <1>8, <1>11, <1>12, <1>13, <1>14, <1>15 DEF Clone!Arrive, old, issue

(* A pull takes the edits that are later than what the clone has.          *)
LEMMA GitPullIsPull ==
  ASSUME Keeping, Shapes, GitPull
  PROVE  Clone!Pull
<1>1. TypeOK /\ db' = db
  BY DEF Keeping, AnyNumber, GitPull, store
<1> DEFINE S == {i \in Issues : incoming[i] # None /\ Newest(i).at < incoming[i].at}
<1>2. \A i \in Issues : /\ incoming[i] \in Rec /\ file[i] \in Rec /\ db[i] \in Rec
                         /\ Newest(i) \in Rec
  BY <1>1, Readings, NewestOK
<1>3. \A i \in Issues : incoming[i] = None <=> Says(incoming[i]) = Clone!Nothing
  <2> TAKE i \in Issues
  <2>1. CASE incoming[i] = None
    BY <2>1, SaysNothing
  <2>2. CASE incoming[i] # None
    <3>1. incoming[i].edit # 0
      BY <1>2, <2>2, RecFields DEF Shapes
    <3> QED BY <1>2, <2>2, <3>1, SaysContent
  <2> QED BY <2>1, <2>2
<1>4. \A i \in Issues \ S : incoming[i] # None => Says(Newest(i)) # Clone!Nothing
  <2> SUFFICES ASSUME NEW i \in Issues \ S, incoming[i] # None
               PROVE  Says(Newest(i)) # Clone!Nothing
    OBVIOUS
  <2>1. Newest(i).at # 0
    BY <1>2, RecFields DEF Shapes
  <2> QED BY <1>1, <1>2, <2>1, NewestOK, SaysContent
<1>5. \A i \in S : Says(incoming[i]).edit > Says(Newest(i)).edit /\ ~Says(Newest(i)).dead
  <2> TAKE i \in S
  <2>1. incoming[i].edit = incoming[i].at /\ ~Newest(i).dead /\ Newest(i).edit <= Newest(i).at
    BY <1>1, NewestLives, NewestOK DEF Shapes
  <2>2. incoming[i].edit > Newest(i).edit
    BY <1>2, <2>1, RecFields
  <2> QED BY <1>2, <2>1, <2>2, SaysContent
<1>6. \A i \in Issues : Newest(i)' = IF i \in S THEN incoming[i] ELSE Newest(i)
  <2> TAKE i \in Issues
  <2>1. file'[i] = IF incoming[i] = None THEN file[i] ELSE Newer(incoming[i], file[i])
    BY DEF GitPull
  <2>2. Newest(i)' = Newer(file'[i], db[i]) /\ Newest(i) = Newer(file[i], db[i])
    BY <1>1 DEF Newest
  <2>3. incoming[i].at \in Nat /\ file[i].at \in Nat /\ db[i].at \in Nat
    BY <1>2, RecFields
  <2> QED BY <2>1, <2>2, <2>3 DEF Newer
<1>7. \A i \in Issues : incoming'[i] = None
  BY EmptyOK DEF GitPull
<1> HIDE DEF S
<1> DEFINE issue == [i \in Issues |-> Says(Newest(i))]
           inbox == [i \in Issues |-> Says(incoming[i])]
           took == [i \in Issues |-> Says(Newest(i)')]
<1>8. took = [i \in Issues |-> IF i \in S THEN inbox[i] ELSE issue[i]]
  BY <1>6
<1>9. issue' = took
  BY DEF Says
<1>10. inbox' = [i \in Issues |-> Clone!Nothing]
  <2>1. \A i \in Issues : Says(incoming'[i]) = Clone!Nothing
    BY <1>7, SaysNothing
  <2>2. inbox' = [i \in Issues |-> Says(incoming'[i])]
    BY DEF Says
  <2> HIDE DEF inbox
  <2> QED BY <2>1, <2>2
<1>11. S \in SUBSET {i \in Issues : inbox[i] # Clone!Nothing}
  BY <1>3 DEF S
<1>12. \A i \in Issues \ S : inbox[i] # Clone!Nothing => issue[i] # Clone!Nothing
  BY <1>3, <1>4
<1>13. \A i \in S : inbox[i].edit > issue[i].edit /\ ~issue[i].dead
  BY <1>5 DEF S
<1> HIDE DEF took
<1> QED BY <1>8, <1>9, <1>10, <1>11, <1>12, <1>13 DEF Clone!Pull, issue, inbox

(* As long as commands run one after the other, each imports first, and    *)
(* git pull waits for them, the clone is a Replica: only a command's       *)
(* transaction and a pull change what an issue says, and only to what was  *)
(* written later.  No import, however it dates its rows, no flush, and no  *)
(* crash or failure at any of their steps can be told from outside.        *)
THEOREM ImplementsClone ==
  ASSUME ImportsFirst
  PROVE  Spec => ImplementsReplica
<1>1. Init => Clone!Init
  <2> SUFFICES ASSUME Init PROVE Clone!Init
    OBVIOUS
  <2>1. \A i \in Issues :
          /\ Newest(i) = IF i \in Synced THEN [edit |-> 1, at |-> 1, dead |-> FALSE] ELSE None
          /\ incoming[i] = None
    BY EmptyOK DEF Init, Newest, Newer
  <2>2. \A i \in Issues :
          /\ Says(Newest(i)) \in {Clone!Nothing, [edit |-> 1, dead |-> FALSE]}
          /\ Says(incoming[i]) = Clone!Nothing
    <3> TAKE i \in Issues
    <3>1. Says([edit |-> 1, at |-> 1, dead |-> FALSE]) = [edit |-> 1, dead |-> FALSE]
      BY DEF Says
    <3> QED BY <2>1, <3>1, SaysNothing
  <2> QED BY <2>2 DEF Clone!Init
<1>2. Keeping /\ Shapes /\ [Next]_vars => [Clone!Next]_(Clone!vars)
  <2>1. CASE UNCHANGED <<db, file, incoming>>
    BY <2>1 DEF Clone!vars, Newest
  <2>2. ASSUME Keeping, Shapes, Next PROVE [Clone!Next]_(Clone!vars)
    <3>1. CASE GitPull
      BY <2>2, <3>1, GitPullIsPull DEF Clone!Next
    <3>2. ASSUME NEW i \in Issues, NEW dead \in BOOLEAN, RemoteEdit(i, dead)
          PROVE  Clone!Next
      BY <2>2, <3>2, RemoteEditIsArrive DEF Clone!Next
    <3>3. ASSUME NEW p \in Procs, Commit(p) PROVE Clone!Next
      BY <2>2, <3>3, CommitIsWrite DEF Clone!Next
    <3>4. ASSUME NEW p \in Procs, ImportTx(p) PROVE UNCHANGED Clone!vars
      <4>1. incoming' = incoming
        BY <3>4 DEF ImportTx, world
      <4>2. \A i \in Issues : Says(Newest(i)') = Says(Newest(i))
        BY <2>2, <3>4, ImportIsInvisible
      <4> QED BY <4>1, <4>2 DEF Clone!vars, Says
    <3>5. ASSUME NEW p \in Procs, FlushWrite(p) PROVE UNCHANGED Clone!vars
      <4>1. incoming' = incoming
        BY <3>5 DEF FlushWrite
      <4>2. \A i \in Issues : Newest(i)' = Newest(i)
        BY <2>2, <3>5, WriteIsInvisible
      <4> QED BY <4>1, <4>2 DEF Clone!vars, Says
    <3> QED
      BY <2>1, <2>2, <3>1, <3>2, <3>3, <3>4, <3>5, DbEffects, FileEffects, IncomingEffects
  <2>3. CASE UNCHANGED vars
    BY <2>1, <2>3 DEF vars, store, world
  <2> QED BY <2>2, <2>3
<1>3. Spec => [](Keeping /\ Shapes)
  BY ShapesAlways
<1> QED BY <1>1, <1>2, <1>3, PTL DEF Spec, ImplementsReplica, Clone!Spec
=============================================================================
