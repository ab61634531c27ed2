---------------------------- MODULE IssueStoreProofs ---------------------------
(***************************************************************************)
(* Safety of the issue store for any issues, processes, dependency types,  *)
(* statuses and depth limits.                                              *)
(***************************************************************************)
EXTENDS IssueStore, ReachProofs, FiniteSetTheorems

(* What a command has read.                                                *)
CommandOK(c) ==
  /\ c.op = "update" => c.id \in Issues /\ c.set \in Updates
  /\ c.op = "claim" => c.id \in Issues
  /\ c.op = "close" => c.id \in Issues /\ c.reason \in Reasons
  /\ c.op = "add" => c.dep \in Dependency
  /\ c.op = "delete" => c \in [op: {"delete"}, id: Issues, todo: SUBSET Dependency]

CmdOK == DOMAIN cmd = Processes /\ \A p \in Processes : CommandOK(cmd[p])

USE IssueStoreAssumption

LEMMA Bounds == MaxCommands \in Nat /\ Depth \in Nat
OBVIOUS

-----------------------------------------------------------------------------
(* Rows.                                                                   *)

LEMMA RowOrAbsent ==
  ASSUME TypeOK, NEW i \in Issues
  PROVE  /\ row[i] \in Row \cup {Absent}
         /\ Exists(i) => row[i] \in Row
BY DEF TypeOK, Exists

LEMMA NewRowOK == NewRow \in Row
BY DEF NewRow, Row

LEMMA UpdatedOK ==
  ASSUME NEW r \in Row, NEW u \in Updates, NEW old
  PROVE  Updated(r, old, u) \in Row
<1>1. CASE u.field = "assignee"
  BY <1>1 DEF Updated, Updates, Row
<1>2. CASE u.field = "status"
  BY <1>2 DEF Updated, Updates, Row
<1> QED BY <1>1, <1>2 DEF Updates

LEMMA WrittenOK ==
  ASSUME NEW r \in Row
  PROVE  /\ \A p \in Processes :
              [r EXCEPT !.status = "in_progress", !.assignee = p] \in Row
         /\ \A why \in Reasons \cup {"done"} : Closed(r, why) \in Row
         /\ [r EXCEPT !.status = "tombstone", !.closedAt = FALSE] \in Row
BY DEF Row, Closed

LEMMA AbsentOK == Absent \notin Row
BY DEF Absent, Row

-----------------------------------------------------------------------------
(* Dependencies.                                                           *)

LEMMA InvertedPair ==
  ASSUME NEW ds, NEW r \in Inverted(ds)
  PROVE  \E d \in ds : r = <<d.to, d.from>> /\ r[1] = d.to /\ r[2] = d.from
<1>1. PICK d \in ds : r = <<d.to, d.from>>
  BY DEF Inverted
<1> QED BY <1>1

LEMMA EdgePair ==
  ASSUME NEW ds, NEW r \in Edges(ds)
  PROVE  \E d \in ds : r = <<d.from, d.to>> /\ r[1] = d.from /\ r[2] = d.to
<1>1. PICK d \in ds : r = <<d.from, d.to>>
  BY DEF Edges
<1> QED BY <1>1

LEMMA BlockedInIssues ==
  ASSUME NEW rows, NEW ds, ds \subseteq Dependency
  PROVE  Blocked(rows, ds) \subseteq {d.from : d \in ds}
<1> DEFINE U == {d.from : d \in ds}
           S == BlockedDirectly(rows, ds)
           R == Inverted(Parents(ds))
<1>1. S \subseteq U
  BY DEF BlockedDirectly
<1>2. ASSUME NEW r \in R PROVE r[2] \in U
  <2>1. PICK d \in Parents(ds) : r[2] = d.from
    BY InvertedPair, ZenonT(60)
  <2> QED BY <2>1 DEF Parents
<1> HIDE DEF U, S, R
<1>3. Spread(S, R, Depth) \subseteq U
  BY <1>1, <1>2, SpreadWithin
<1> QED BY <1>3 DEF Blocked, U, S, R

LEMMA DependentsInIssues ==
  ASSUME deps \subseteq Dependency, NEW S, S \subseteq Issues
  PROVE  Dependents(S) \subseteq Issues
<1> DEFINE R == Inverted(deps)
<1>1. ASSUME NEW r \in R PROVE r[2] \in Issues
  <2>1. PICK d \in deps : r[2] = d.from
    BY InvertedPair
  <2> QED BY <2>1 DEF Dependency
<1>2. Cardinality(Issues) \in Nat
  BY FS_CardinalityType
<1> HIDE DEF R
<1>3. Spread(S, R, Cardinality(Issues)) \subseteq Issues
  BY <1>1, <1>2, SpreadWithin
<1> QED BY <1>3 DEF Dependents, R

LEMMA OrphansInIssues ==
  ASSUME deps \subseteq Dependency, NEW S
  PROVE  Orphans(S) \subseteq Issues
BY DEF Orphans, Touching, Dependency

-----------------------------------------------------------------------------
(* The commands.                                                           *)

Typed == TypeOK /\ CmdOK

(* The steps that change no table: a command reads, dies or is rolled back.*)
Quiet == UNCHANGED <<db, file, history>>

(* A command begins, goes on or ends, and is what it may be.               *)
LEMMA CommandTypes ==
  ASSUME Typed, NEW p \in Processes, Command(p)
  PROVE  CmdOK' /\ commands' \in 0..MaxCommands
<1> USE DEF Typed, CmdOK
<1>1. CommandOK(Idle)
  BY DEF CommandOK, Idle
<1>2. commands \in 0..MaxCommands
  BY DEF TypeOK
<1>0. commands < MaxCommands /\ commands' = commands + 1 => commands' \in 0..MaxCommands
  BY ONLY <1>2, Bounds
<1>3. ASSUME NEW c, Start(p, c), CommandOK(c)
      PROVE  CmdOK' /\ commands' \in 0..MaxCommands
  <2>1. commands' \in 0..MaxCommands
    BY <1>0, <1>3 DEF Start
  <2>2. cmd' = [cmd EXCEPT ![p] = c]
    BY <1>3 DEF Start
  <2> QED BY <1>3, <2>1, <2>2
<1>4. CASE Atomic(p)
  BY <1>0, <1>4 DEF Atomic
<1>5. CASE Done(p)
  BY <1>1, <1>2, <1>5 DEF Done
<1>6. CASE UpdateRead(p)
  <2>1. PICK i \in Issues, u \in Updates :
          Start(p, [op |-> "update", id |-> i, old |-> row[i].status, set |-> u])
    BY <1>6 DEF UpdateRead
  <2> QED BY <1>3, <2>1 DEF CommandOK
<1>7. CASE ClaimRead(p)
  <2>1. PICK i \in Issues : Start(p, [op |-> "claim", id |-> i])
    BY <1>7 DEF ClaimRead
  <2> QED BY <1>3, <2>1 DEF CommandOK
<1>8. CASE CloseCheck(p)
  <2>1. PICK i \in Issues, r \in Reasons :
          Start(p, [op |-> "close", id |-> i, reason |-> r])
    BY <1>8 DEF CloseCheck
  <2> QED BY <1>3, <2>1 DEF CommandOK
<1>9. CASE AddRead(p)
  <2>1. PICK d \in Dependency : Start(p, [op |-> "add", dep |-> d])
    BY <1>9 DEF AddRead
  <2> QED BY <1>3, <2>1 DEF CommandOK
<1>10. CASE DeleteRead(p)
  <2>1. PICK i \in Issues :
          Start(p, [op |-> "delete", id |-> i,
                    todo |-> {d \in deps : i \in {d.from, d.to} /\ Exists(d.from)}])
    BY <1>10 DEF DeleteRead
  <2> QED BY <1>3, <2>1 DEF CommandOK, TypeOK
<1>11. CASE DeleteUnlink(p)
  <2>1. cmd[p] \in [op: {"delete"}, id: Issues, todo: SUBSET Dependency]
    BY <1>11 DEF DeleteUnlink, CommandOK
  <2>2. PICK d : cmd' = [cmd EXCEPT ![p].todo = @ \ {d}]
    BY <1>11 DEF DeleteUnlink
  <2>3. CommandOK([cmd[p] EXCEPT !.todo = @ \ {d}])
    BY <2>1 DEF CommandOK
  <2>4. cmd' = [cmd EXCEPT ![p] = [cmd[p] EXCEPT !.todo = @ \ {d}]]
    BY <2>2
  <2>5. commands' \in 0..MaxCommands
    BY <1>2, <1>11 DEF DeleteUnlink
  <2> QED BY <2>3, <2>4, <2>5
<1> QED
  BY <1>4, <1>5, <1>6, <1>7, <1>8, <1>9, <1>10, <1>11
     DEF Command, UpdateTx, ClaimTx, CloseTx, AddTx, Remove, DeleteTombstone,
         DeleteBatch, DeleteIssue, CreateIssue, Crash

(* What the transactions do, when they are not rolled back.                *)

(* One row is written and marked, others are only read.                    *)
WritesRow(i, r) ==
  /\ i \in Issues /\ r \in Row /\ row[i] \in Row
  /\ row' = [row EXCEPT ![i] = r] /\ dirty' = dirty \cup {i}
  /\ UNCHANGED <<deps, file, unmarked>>

(* A writer that should rebuild the cache, and does not.                   *)
Skips(writer) == unrebuilt' = unrebuilt \cup {writer}

Updates1(i, u, old) ==
  LET r == Updated(row[i], old, u) IN
    /\ WritesRow(i, r) /\ u \in Updates /\ Allowed(r)
    /\ \/ u.field = "status" /\ Rebuild(row', deps) /\ Revive({i}) /\ UNCHANGED winners
       \/ /\ u.field = "assignee" /\ NoRebuild /\ UNCHANGED revived
          /\ winners' = [winners EXCEPT ![i] = {}]

Claims(i, p) ==
  LET r == [row[i] EXCEPT !.status = "in_progress", !.assignee = p] IN
    /\ WritesRow(i, r) /\ Allowed(r) /\ row[i].assignee = ""
    /\ Rebuild(row', deps) /\ Revive({i})
    /\ winners' = [winners EXCEPT ![i] = @ \cup {p}]

Closes(i, why) ==
  /\ WritesRow(i, Closed(row[i], why)) /\ why \in Reasons
  /\ Rebuild(row', deps) /\ Revive({i}) /\ UNCHANGED winners

ClosesConvoy(i, why) ==
  LET rows == [row EXCEPT ![i] = Closed(@, why)] IN
    /\ i \in Issues /\ why \in Reasons /\ row[i] \in Row /\ rows[Convoy] \in Row
    /\ row' = [rows EXCEPT ![Convoy] = Closed(@, "done")]
    /\ dirty' = dirty \cup {i, Convoy} /\ Revive({i, Convoy})
    /\ cache' = Blocked(rows, deps) /\ unrebuilt' = {"CloseIssue"}
    /\ UNCHANGED <<deps, file, unmarked, winners>>

Adds(d) ==
  /\ d \in Dependency /\ ~ClosesCycle(d) /\ Exists(d.from) /\ Exists(d.to)
  /\ deps' = deps \cup {d} /\ dirty' = dirty \cup {d.from, d.to}
  /\ IF AffectsReadyWork(d.type) THEN Rebuild(row, deps') ELSE NoRebuild
  /\ UNCHANGED <<row, file, unmarked, winners, revived>>

Removes(i, j) ==
  /\ i \in Issues /\ j \in Issues
  /\ deps' = deps \ Between(i, j) /\ dirty' = dirty \cup {i, j}
  /\ \/ Rebuild(row, deps')
     \/ UNCHANGED cache /\ Skips("RemoveDependency")
     \/ NoRebuild /\ \A e \in Between(i, j) : ~AffectsReadyWork(e.type)
  /\ UNCHANGED <<row, file, unmarked, winners, revived>>

Buries(i) ==
  /\ WritesRow(i, [row[i] EXCEPT !.status = "tombstone", !.closedAt = FALSE])
  /\ Rebuild(row', deps) /\ UNCHANGED <<winners, revived>>

BuriesAll(S) ==
  /\ S \subseteq Issues
  /\ deps' = deps \ Touching(S)
  /\ row' = [i \in Issues |-> IF i \in S /\ Exists(i)
               THEN [row[i] EXCEPT !.status = "tombstone", !.closedAt = FALSE]
               ELSE row[i]]
  /\ dirty' = dirty \cup S /\ Rebuild(row', deps')
  /\ unmarked' = unmarked \cup Orphans(S)
  /\ UNCHANGED <<file, winners, revived>>

Deletes(i) ==
  /\ i \in Issues
  /\ deps' = deps \ Touching({i}) /\ row' = [row EXCEPT ![i] = Absent]
  /\ dirty' = (dirty \cup Orphans({i})) \ {i}
  /\ winners' = [winners EXCEPT ![i] = {}] /\ revived' = revived \ {i}
  /\ cache' = cache \ {i} /\ Skips("DeleteIssue") /\ UNCHANGED <<file, unmarked>>

Creates(i) ==
  /\ i \in Issues
  /\ row' = [row EXCEPT ![i] = NewRow] /\ deps' = deps \ Touching({i})
  /\ cache' = cache \ {i} /\ dirty' = dirty \cup {i}
  /\ unmarked' = unmarked \cup Orphans({i})
  /\ winners' = [winners EXCEPT ![i] = {}] /\ revived' = revived \ {i}
  /\ IF Exists(i) THEN Skips("CreateIssue") ELSE UNCHANGED unrebuilt
  /\ UNCHANGED file

Effect ==
  \/ Quiet
  \/ Export
  \/ \E i, u, old : Updates1(i, u, old)
  \/ \E i : \E p \in Processes : Claims(i, p)
  \/ \E i, why : Closes(i, why) \/ ClosesConvoy(i, why)
  \/ \E d : Adds(d)
  \/ \E i, j : Removes(i, j)
  \/ \E i : Buries(i)
  \/ \E S : BuriesAll(S)
  \/ \E i : Deletes(i) \/ Creates(i)

LEMMA RemoveEffect ==
  ASSUME NEW i \in Issues, NEW j \in Issues, RemoveDependency(i, j)
  PROVE  Quiet \/ Removes(i, j)
<1>1. CASE Between(i, j) = {} \/ ~Exists(j)
  BY <1>1 DEF RemoveDependency, Rollback, Quiet
<1>2. CASE ~(Between(i, j) = {} \/ ~Exists(j))
  <2>1. PICK d \in Between(i, j) :
          IF AffectsReadyWork(d.type) THEN Rebuild(row, deps')
          ELSE /\ UNCHANGED cache
               /\ unrebuilt' = IF \E e \in Between(i, j) : AffectsReadyWork(e.type)
                               THEN unrebuilt \cup {"RemoveDependency"} ELSE unrebuilt
    BY <1>2 DEF RemoveDependency
  <2>2. \/ Rebuild(row, deps')
        \/ UNCHANGED cache /\ Skips("RemoveDependency")
        \/ NoRebuild /\ \A e \in Between(i, j) : ~AffectsReadyWork(e.type)
    BY <2>1 DEF NoRebuild, Skips
  <2>3. /\ deps' = deps \ Between(i, j) /\ dirty' = dirty \cup {i, j}
        /\ UNCHANGED <<row, file, unmarked, winners, revived>>
    BY <1>2 DEF RemoveDependency, Ends
  <2> QED BY <2>2, <2>3 DEF Removes
<1> QED BY <1>1, <1>2

LEMMA Effects ==
  ASSUME Typed, Next
  PROVE  Effect
<1> USE DEF Typed, CmdOK
<1>1. CASE Export
  BY <1>1 DEF Effect
<1>2. ASSUME NEW p \in Processes, Command(p) PROVE Effect
  <2> DEFINE i == cmd[p].id
  <2>1. CASE UpdateTx(p)
    <3> DEFINE r == Updated(row[i], cmd[p].old, cmd[p].set)
    <3>1. i \in Issues /\ cmd[p].set \in Updates
      BY <2>1 DEF UpdateTx, CommandOK
    <3>2. CASE Exists(i) /\ Allowed(r)
      <4>1. row[i] \in Row /\ r \in Row
        BY <3>1, <3>2, RowOrAbsent, UpdatedOK
      <4>2. WritesRow(i, r)
        BY <2>1, <3>1, <3>2, <4>1 DEF UpdateTx, WritesRow
      <4>3. \/ /\ cmd[p].set.field = "status" /\ Rebuild(row', deps) /\ Revive({i})
               /\ UNCHANGED winners
            \/ /\ cmd[p].set.field = "assignee" /\ NoRebuild /\ UNCHANGED revived
               /\ winners' = [winners EXCEPT ![i] = {}]
        BY <2>1, <3>1, <3>2 DEF UpdateTx, Updates
      <4>4. Updates1(i, cmd[p].set, cmd[p].old)
        BY <3>1, <3>2, <4>2, <4>3 DEF Updates1
      <4> QED BY <4>4 DEF Effect
    <3>3. CASE ~(Exists(i) /\ Allowed(r))
      BY <2>1, <3>3 DEF UpdateTx, Rollback, Quiet, Effect
    <3> QED BY <3>2, <3>3
  <2>2. CASE ClaimTx(p)
    <3> DEFINE r == [row[i] EXCEPT !.status = "in_progress", !.assignee = p]
    <3>1. i \in Issues
      BY <2>2 DEF ClaimTx, CommandOK
    <3>2. CASE Claimable(i) /\ Allowed(r)
      <4>1. row[i] \in Row /\ r \in Row
        BY <3>1, <3>2, RowOrAbsent, WrittenOK DEF Claimable
      <4>2. Claims(i, p)
        BY <2>2, <3>1, <3>2, <4>1 DEF ClaimTx, WritesRow, Claims, Claimable
      <4> QED BY <4>2 DEF Effect
    <3>3. CASE ~(Claimable(i) /\ Allowed(r))
      BY <2>2, <3>3 DEF ClaimTx, Rollback, Quiet, Effect
    <3> QED BY <3>2, <3>3
  <2>3. CASE CloseTx(p)
    <3> DEFINE why == cmd[p].reason
               rows == [row EXCEPT ![i] = Closed(@, why)]
    <3>1. i \in Issues /\ why \in Reasons
      BY <2>3 DEF CloseTx, CommandOK
    <3>2. CASE Closable(i)
      <4>1. row[i] \in Row /\ Closed(row[i], why) \in Row
        BY <3>1, <3>2, RowOrAbsent, WrittenOK DEF Closable
      <4>2. rows = [row EXCEPT ![i] = Closed(row[i], why)]
            /\ rows \in [Issues -> Row \cup {Absent}]
        BY <3>1, <4>1 DEF TypeOK
      <4>3. CASE ConvoyCompletes(i, rows)
        <5>1. rows[Convoy] \in Row
          BY <4>2, <4>3 DEF ConvoyCompletes
        <5>2. ClosesConvoy(i, why)
          BY <2>3, <3>1, <3>2, <4>1, <4>3, <5>1 DEF CloseTx, ClosesConvoy
        <5> QED BY <5>2 DEF Effect
      <4>4. CASE ~ConvoyCompletes(i, rows)
        <5>1. Closes(i, why)
          BY <2>3, <3>1, <3>2, <4>1, <4>2, <4>4 DEF CloseTx, Closes, WritesRow, Rebuild
        <5> QED BY <5>1 DEF Effect
      <4> QED BY <4>3, <4>4
    <3>3. CASE ~Closable(i)
      BY <2>3, <3>3 DEF CloseTx, Rollback, Quiet, Effect
    <3> QED BY <3>2, <3>3
  <2>4. CASE AddTx(p)
    <3> DEFINE d == cmd[p].dep
    <3>1. d \in Dependency
      BY <2>4 DEF AddTx, CommandOK
    <3>2. CASE ClosesCycle(d) \/ d \in deps \/ ~Linkable(d)
      BY <2>4, <3>2 DEF AddTx, Rollback, Quiet, Effect
    <3>3. CASE ~(ClosesCycle(d) \/ d \in deps \/ ~Linkable(d))
      <4>1. Adds(d)
        BY <2>4, <3>1, <3>3 DEF AddTx, Adds, Linkable
      <4> QED BY <4>1 DEF Effect
    <3> QED BY <3>2, <3>3
  <2>5. CASE Remove(p)
    <3>1. PICK k \in Issues, l \in Issues : RemoveDependency(k, l)
      BY <2>5 DEF Remove
    <3> QED BY <3>1, RemoveEffect DEF Effect
  <2>6. CASE DeleteUnlink(p)
    <3>1. PICK d \in cmd[p].todo : RemoveDependency(d.from, d.to)
      BY <2>6 DEF DeleteUnlink
    <3>2. d \in Dependency
      BY <2>6 DEF DeleteUnlink, CommandOK
    <3>3. d.from \in Issues /\ d.to \in Issues
      BY <3>2 DEF Dependency
    <3> QED BY <3>1, <3>3, RemoveEffect DEF Effect
  <2>7. CASE DeleteTombstone(p)
    <3>1. i \in Issues
      BY <2>7 DEF DeleteTombstone, CommandOK
    <3>2. CASE Exists(i)
      <4> DEFINE r == [row[i] EXCEPT !.status = "tombstone", !.closedAt = FALSE]
      <4>1. row[i] \in Row /\ r \in Row
        BY <3>1, <3>2, RowOrAbsent, WrittenOK
      <4>2. row' = [row EXCEPT ![i] = r]
        BY <2>7, <3>1, <3>2 DEF DeleteTombstone, TypeOK
      <4>3. Buries(i)
        BY <2>7, <3>1, <3>2, <4>1, <4>2 DEF DeleteTombstone, Buries, WritesRow
      <4> QED BY <4>3 DEF Effect
    <3>3. CASE ~Exists(i)
      BY <2>7, <3>3 DEF DeleteTombstone, Rollback, Quiet, Effect
    <3> QED BY <3>2, <3>3
  <2>8. CASE DeleteBatch(p)
    <3>1. PICK ids \in SUBSET {j \in Issues : Exists(j)}, cascade \in BOOLEAN :
            LET S == IF cascade THEN Dependents(ids) ELSE ids IN
              /\ deps' = deps \ Touching(S)
              /\ row' = [k \in Issues |-> IF k \in S /\ Exists(k)
                           THEN [row[k] EXCEPT !.status = "tombstone", !.closedAt = FALSE]
                           ELSE row[k]]
              /\ dirty' = dirty \cup S
              /\ Rebuild(row', deps')
              /\ unmarked' = unmarked \cup Orphans(S)
      BY <2>8 DEF DeleteBatch
    <3> DEFINE S == IF cascade THEN Dependents(ids) ELSE ids
    <3>2. S \subseteq Issues
      BY DependentsInIssues DEF TypeOK
    <3>3. BuriesAll(S)
      BY <2>8, <3>1, <3>2 DEF DeleteBatch, BuriesAll
    <3> QED BY <3>3 DEF Effect
  <2>9. CASE DeleteIssue(p)
    <3>1. PICK k \in Issues : Deletes(k)
      BY <2>9 DEF DeleteIssue, Deletes, Skips
    <3> QED BY <3>1 DEF Effect
  <2>10. CASE CreateIssue(p)
    <3>1. PICK k \in Issues : Creates(k)
      BY <2>10 DEF CreateIssue, Creates, Skips
    <3> QED BY <3>1 DEF Effect
  <2> QED
    BY <1>2, <2>1, <2>2, <2>3, <2>4, <2>5, <2>6, <2>7, <2>8, <2>9, <2>10
       DEF Command, UpdateRead, ClaimRead, CloseCheck, AddRead, DeleteRead, Crash,
           Quiet, Effect
<1> QED BY <1>1, <1>2 DEF Next

-----------------------------------------------------------------------------
(* Types.                                                                  *)

(* The tables that only TypeOK is about.                                   *)
TablesOK ==
  /\ row \in [Issues -> Row \cup {Absent}]
  /\ deps \subseteq Dependency
  /\ cache \subseteq Issues /\ dirty \subseteq Issues /\ unmarked \subseteq Issues
  /\ file \in [Issues -> [row: Row \cup {Absent}, deps: SUBSET Dependency]]
  /\ unrebuilt \subseteq {"CloseIssue", "RemoveDependency", "DeleteIssue", "CreateIssue"}
  /\ winners \in [Issues -> SUBSET Processes] /\ revived \subseteq Issues

LEMMA TypeParts == TypeOK <=> TablesOK /\ commands \in 0..MaxCommands
BY DEF TypeOK, TablesOK

LEMMA BlockedOK ==
  ASSUME NEW rows, NEW ds, ds \subseteq Dependency
  PROVE  Blocked(rows, ds) \subseteq Issues
<1>1. {d.from : d \in ds} \subseteq Issues
  BY DEF Dependency
<1> QED BY <1>1, BlockedInIssues

LEMMA TablesStep == Typed /\ [Next]_vars => TablesOK'
<1> SUFFICES ASSUME Typed, Next PROVE TablesOK'
  BY DEF vars, db, history, Typed, TypeOK, TablesOK
<1> USE DEF Typed, TypeOK, TablesOK
<1>1. CASE Quiet
  BY <1>1 DEF Quiet, db, history
<1>2. CASE Export
  BY <1>2 DEF Export, Line
<1>3. Blocked(row', deps) \subseteq Issues /\ (deps' \subseteq deps => Blocked(row', deps') \subseteq Issues)
  BY BlockedOK
<1>4. ASSUME NEW i, NEW r, WritesRow(i, r)
      PROVE  /\ i \in Issues /\ row' \in [Issues -> Row \cup {Absent}]
             /\ dirty' \subseteq Issues /\ UNCHANGED <<deps, file, unmarked>>
             /\ (Rebuild(row', deps) => cache' \subseteq Issues /\ unrebuilt' = {})
             /\ (Revive({i}) => revived' \subseteq Issues)
  BY <1>3, <1>4 DEF WritesRow, Rebuild, Revive
<1>5. ASSUME NEW i, NEW u, NEW old, Updates1(i, u, old) PROVE TablesOK'
  BY <1>4, <1>5 DEF Updates1, NoRebuild
<1>6. ASSUME NEW i, NEW p \in Processes, Claims(i, p) PROVE TablesOK'
  BY <1>4, <1>6 DEF Claims
<1>7. ASSUME NEW i, NEW why, Closes(i, why) PROVE TablesOK'
  BY <1>4, <1>7 DEF Closes
<1>8. ASSUME NEW i, NEW why, ClosesConvoy(i, why) PROVE TablesOK'
  <2> DEFINE rows == [row EXCEPT ![i] = Closed(@, why)]
  <2>1. Closed(row[i], why) \in Row /\ Closed(rows[Convoy], "done") \in Row /\ i \in Issues
    BY <1>8, WrittenOK DEF ClosesConvoy
  <2>2. rows \in [Issues -> Row \cup {Absent}]
    BY <2>1
  <2>3. /\ row' = [rows EXCEPT ![Convoy] = Closed(@, "done")]
        /\ cache' = Blocked(rows, deps) /\ dirty' = dirty \cup {i, Convoy}
        /\ revived' \subseteq revived \cup {i, Convoy} /\ unrebuilt' = {"CloseIssue"}
        /\ UNCHANGED <<deps, file, unmarked, winners>>
    BY <1>8 DEF ClosesConvoy, Revive
  <2>4. Blocked(rows, deps) \subseteq Issues
    BY BlockedOK
  <2> HIDE DEF rows
  <2> QED BY <2>1, <2>2, <2>3, <2>4
<1>9. ASSUME NEW d, Adds(d) PROVE TablesOK'
  <2>1. d \in Dependency /\ d.from \in Issues /\ d.to \in Issues /\ deps' = deps \cup {d}
    BY <1>9 DEF Adds, Dependency
  <2>2. Blocked(row, deps') \subseteq Issues
    BY <2>1, BlockedOK
  <2> QED BY <1>9, <2>1, <2>2 DEF Adds, Rebuild, NoRebuild
<1>10. ASSUME NEW i, NEW j, Removes(i, j) PROVE TablesOK'
  <2>1. deps' \subseteq deps /\ UNCHANGED row
    BY <1>10 DEF Removes
  <2> QED BY <1>3, <1>10, <2>1 DEF Removes, Rebuild, NoRebuild, Skips
<1>11. ASSUME NEW i, Buries(i) PROVE TablesOK'
  BY <1>4, <1>11 DEF Buries
<1>12. ASSUME NEW S, BuriesAll(S) PROVE TablesOK'
  <2>1. row' \in [Issues -> Row \cup {Absent}]
    <3>1. ASSUME NEW i \in Issues, Exists(i)
          PROVE  [row[i] EXCEPT !.status = "tombstone", !.closedAt = FALSE] \in Row
      BY <3>1, RowOrAbsent, WrittenOK
    <3> QED BY <1>12, <3>1, RowOrAbsent DEF BuriesAll
  <2>2. Orphans(S) \subseteq Issues
    BY OrphansInIssues
  <2> QED BY <1>3, <1>12, <2>1, <2>2 DEF BuriesAll, Rebuild
<1>13. ASSUME NEW i, Deletes(i) PROVE TablesOK'
  <2>1. Orphans({i}) \subseteq Issues
    BY OrphansInIssues
  <2> QED BY <1>13, <2>1 DEF Deletes, Skips
<1>14. ASSUME NEW i, Creates(i) PROVE TablesOK'
  <2>1. Orphans({i}) \subseteq Issues
    BY OrphansInIssues
  <2> QED BY <1>14, <2>1, NewRowOK DEF Creates, Skips
<1> QED
  BY <1>1, <1>2, <1>5, <1>6, <1>7, <1>8, <1>9, <1>10, <1>11, <1>12, <1>13, <1>14, Effects
     DEF Effect

LEMMA TypedInit == Init => Typed
<1> SUFFICES ASSUME Init PROVE Typed
  OBVIOUS
<1>1. row \in [Issues -> Row \cup {Absent}] /\ deps \subseteq Dependency
  BY NewRowOK DEF Init
<1>2. Blocked(row, deps) \subseteq Issues
  BY <1>1, BlockedOK
<1>3. file \in [Issues -> [row: Row \cup {Absent}, deps: SUBSET Dependency]]
  BY <1>1 DEF Init, Line
<1>4. commands = 0
  BY DEF Init
<1>5. commands \in 0..MaxCommands
  BY ONLY <1>4, Bounds
<1>6. TypeOK
  BY <1>1, <1>2, <1>3, <1>5 DEF Init, TypeOK
<1>7. CmdOK
  BY DEF Init, CmdOK, CommandOK, Idle
<1> QED BY <1>6, <1>7 DEF Typed

LEMMA TypedStep == Typed /\ [Next]_vars => Typed'
<1> SUFFICES ASSUME Typed, [Next]_vars PROVE Typed'
  OBVIOUS
<1>1. TablesOK'
  BY TablesStep
<1>2. CmdOK' /\ commands' \in 0..MaxCommands
  <2>1. CASE Next
    <3>1. CASE Export
      BY <3>1 DEF Export, Typed, CmdOK, TypeOK
    <3> QED BY <2>1, <3>1, CommandTypes DEF Next
  <2>2. CASE UNCHANGED vars
    BY <2>2 DEF vars, Typed, CmdOK, TypeOK
  <2> QED BY <2>1, <2>2
<1> QED BY <1>1, <1>2, TypeParts DEF Typed, TypeOK, TablesOK

(* Rows, dependencies and dirty marks have their types, for any number of  *)
(* issues and commands.                                                    *)
THEOREM TypeCorrect == Spec => []TypeOK
<1>1. Init => Typed
  BY TypedInit
<1>2. Typed /\ [Next]_vars => Typed'
  BY TypedStep
<1>3. Typed => TypeOK
  BY DEF Typed
<1> QED BY <1>1, <1>2, <1>3, PTL DEF Spec

-----------------------------------------------------------------------------
(* Claims, close reasons and dirty marks.                                  *)

LEMMA ClaimStep == ASSUME Typed, ClaimExclusive, Next PROVE ClaimExclusive'
<1> USE DEF Typed, TypeOK, ClaimExclusive
<1>0. "" \notin Processes
  OBVIOUS
<1>1. CASE Quiet
  BY <1>1 DEF Quiet, db, history
<1>2. CASE Export
  BY <1>2 DEF Export
<1>3. ASSUME NEW i, NEW u, NEW old, Updates1(i, u, old) PROVE ClaimExclusive'
  <2>1. CASE u.field = "status"
    <3>1. Updated(row[i], old, u).assignee = row[i].assignee
      BY <1>3, <2>1, ZenonT(60) DEF Updates1, WritesRow, Updated, Updates, Row
    <3>2. row' = [row EXCEPT ![i] = Updated(row[i], old, u)] /\ UNCHANGED winners
      BY <1>3, <2>1 DEF Updates1, WritesRow
    <3> QED BY <3>1, <3>2
  <2>2. CASE u.field = "assignee"
    BY <1>3, <2>2 DEF Updates1, WritesRow
  <2> QED BY <1>3, <2>1, <2>2 DEF Updates1
<1>4. ASSUME NEW i, NEW p \in Processes, Claims(i, p) PROVE ClaimExclusive'
  <2>1. winners[i] = {}
    BY <1>0, <1>4 DEF Claims, WritesRow
  <2>2. [row[i] EXCEPT !.status = "in_progress", !.assignee = p].assignee = p
    BY <1>4 DEF Claims, WritesRow, Row
  <2>3. /\ row' = [row EXCEPT ![i] = [row[i] EXCEPT !.status = "in_progress", !.assignee = p]]
        /\ winners' = [winners EXCEPT ![i] = {p}] /\ i \in Issues
    BY <1>4, <2>1 DEF Claims, WritesRow
  <2> QED BY <2>2, <2>3
<1>5. ASSUME NEW i, NEW why, Closes(i, why) PROVE ClaimExclusive'
  <2>1. Closed(row[i], why).assignee = row[i].assignee
    BY <1>5 DEF Closes, WritesRow, Row, Closed
  <2> QED BY <1>5, <2>1 DEF Closes, WritesRow
<1>6. ASSUME NEW i, NEW why, ClosesConvoy(i, why) PROVE ClaimExclusive'
  <2> DEFINE rows == [row EXCEPT ![i] = Closed(@, why)]
  <2>1. Closed(row[i], why).assignee = row[i].assignee
    BY <1>6 DEF ClosesConvoy, Row, Closed
  <2>2. \A j \in Issues : rows[j].assignee = row[j].assignee
    BY <2>1
  <2>3. Closed(rows[Convoy], "done").assignee = row[Convoy].assignee
    <3>1. rows[Convoy] \in Row
      BY <1>6 DEF ClosesConvoy
    <3> HIDE DEF rows
    <3>2. Closed(rows[Convoy], "done").assignee = rows[Convoy].assignee
      BY <3>1 DEF Row, Closed
    <3> QED BY <2>2, <3>2
  <2>4. row' = [rows EXCEPT ![Convoy] = Closed(rows[Convoy], "done")]
        /\ UNCHANGED winners /\ rows \in [Issues -> Row \cup {Absent}]
    <3>1. row' = [rows EXCEPT ![Convoy] = Closed(@, "done")] /\ UNCHANGED winners
      BY <1>6 DEF ClosesConvoy
    <3>2. rows \in [Issues -> Row \cup {Absent}]
      BY <1>6, WrittenOK DEF ClosesConvoy
    <3> QED BY <3>1, <3>2
  <2> HIDE DEF rows
  <2>5. \A j \in Issues : row'[j].assignee = row[j].assignee
    BY <2>2, <2>3, <2>4
  <2> QED BY <2>4, <2>5
<1>7. ASSUME NEW d, Adds(d) PROVE ClaimExclusive'
  BY <1>7 DEF Adds
<1>8. ASSUME NEW i, NEW j, Removes(i, j) PROVE ClaimExclusive'
  BY <1>8 DEF Removes
<1>9. ASSUME NEW i, Buries(i) PROVE ClaimExclusive'
  <2>1. [row[i] EXCEPT !.status = "tombstone", !.closedAt = FALSE].assignee = row[i].assignee
    BY <1>9 DEF Buries, WritesRow, Row
  <2> QED BY <1>9, <2>1 DEF Buries, WritesRow
<1>10. ASSUME NEW S, BuriesAll(S) PROVE ClaimExclusive'
  <2>1. ASSUME NEW i \in Issues PROVE row'[i].assignee = row[i].assignee
    <3>1. Exists(i) => [row[i] EXCEPT !.status = "tombstone", !.closedAt = FALSE].assignee
                       = row[i].assignee
      BY RowOrAbsent, ZenonT(60) DEF Row
    <3> QED BY <1>10, <3>1 DEF BuriesAll
  <2> QED BY <1>10, <2>1 DEF BuriesAll
<1>11. ASSUME NEW i, Deletes(i) PROVE ClaimExclusive'
  BY <1>11 DEF Deletes
<1>12. ASSUME NEW i, Creates(i) PROVE ClaimExclusive'
  BY <1>12 DEF Creates
<1> QED
  BY <1>1, <1>2, <1>3, <1>4, <1>5, <1>6, <1>7, <1>8, <1>9, <1>10, <1>11, <1>12, Effects
     DEF Effect

(* A row that the table's CHECK allows: closed_at goes with the status.    *)
RowsAllowed == \A i \in Issues : Exists(i) => Allowed(row[i])

Reasoned == RowsAllowed /\ NoReasonWhileOpen

(* One row is written and is allowed; it was revived, or it needs a reason *)
(* only if it is not live.                                                 *)
LEMMA ReasonOfRow ==
  ASSUME Typed, Reasoned, NEW i, NEW r, WritesRow(i, r), Allowed(r),
         revived \subseteq revived',
         i \in revived' \/ (r.status \in Live => r.reason = "")
  PROVE  Reasoned'
<1>1. /\ row' = [row EXCEPT ![i] = r] /\ i \in Issues /\ r \in Row
      /\ DOMAIN row = Issues
  BY DEF WritesRow, Typed, TypeOK
<1>2. RowsAllowed'
  BY <1>1 DEF Reasoned, RowsAllowed, Exists
<1>3. NoReasonWhileOpen'
  BY <1>1 DEF Reasoned, NoReasonWhileOpen
<1> QED BY <1>2, <1>3 DEF Reasoned

LEMMA ReasonStep == ASSUME Typed, Reasoned, Next PROVE Reasoned'
<1> USE DEF Reasoned, RowsAllowed, NoReasonWhileOpen, Exists
<1>1. CASE Quiet
  BY <1>1 DEF Quiet, db, history
<1>2. CASE Export
  BY <1>2 DEF Export
<1>3. ASSUME NEW i, NEW u, NEW old, Updates1(i, u, old) PROVE Reasoned'
  <2> DEFINE r == Updated(row[i], old, u)
  <2>1. /\ WritesRow(i, r) /\ Allowed(r) /\ row[i] \in Row /\ i \in Issues
        /\ u \in Updates
    BY <1>3 DEF Updates1, WritesRow
  <2>2. revived \subseteq revived' /\ (u.field = "status" => Revive({i}))
    BY <1>3 DEF Updates1, Revive, Updates
  <2>3. Allowed(row[i]) /\ (i \in revived \/ (row[i].status \in Live => row[i].reason = ""))
    BY <2>1, AbsentOK
  <2>4. i \in revived' \/ (r.status \in Live => r.reason = "")
    <3>1. CASE u.field = "assignee"
      <4>1. r = [row[i] EXCEPT !.assignee = u.value]
        BY <3>1 DEF Updated
      <4> QED BY <2>1, <2>2, <2>3, <4>1 DEF Row
    <3>2. CASE u.field = "status" /\ row[i].status = "tombstone"
      BY <2>2, <3>2 DEF Revive
    <3>3. CASE u.field = "status" /\ u.value = "closed"
      <4>1. r.status = "closed"
        BY <2>1, <3>3 DEF Updated, Row
      <4> QED BY <4>1
    <3>4. CASE u.field = "status" /\ u.value # "closed" /\ old = "closed"
      <4>1. r.reason = ""
        BY <2>1, <3>4 DEF Updated, Row
      <4> QED BY <4>1
    <3>5. CASE u.field = "status" /\ u.value # "closed" /\ old # "closed"
               /\ row[i].status # "tombstone"
      <4>1. r = [row[i] EXCEPT !.status = u.value]
        BY <3>5 DEF Updated
      <4>2. u.value \in Live
        BY <2>1, <3>5 DEF Updates
      <4>3. ~row[i].closedAt
        BY <2>1, <3>5, <4>1, <4>2 DEF Allowed, Row
      <4>4. row[i].status \in Live
        BY <2>1, <2>3, <3>5, <4>3 DEF Allowed, Row
      <4> QED BY <2>1, <2>2, <2>3, <4>1, <4>4 DEF Row
    <3> QED BY <2>1, <3>1, <3>2, <3>3, <3>4, <3>5 DEF Updates
  <2> HIDE DEF r
  <2> QED BY <2>1, <2>2, <2>4, ReasonOfRow
<1>4. ASSUME NEW i, NEW p \in Processes, Claims(i, p) PROVE Reasoned'
  <2> DEFINE r == [row[i] EXCEPT !.status = "in_progress", !.assignee = p]
  <2>1. /\ WritesRow(i, r) /\ Allowed(r) /\ row[i] \in Row /\ i \in Issues
        /\ Revive({i})
    BY <1>4 DEF Claims, WritesRow
  <2>2. Allowed(row[i]) /\ (i \in revived \/ (row[i].status \in Live => row[i].reason = ""))
    BY <2>1, AbsentOK
  <2>3. ~row[i].closedAt
    BY <2>1 DEF Allowed, Row
  <2>4. row[i].status \in Live \/ row[i].status = "tombstone"
    BY <2>1, <2>2, <2>3 DEF Allowed, Row
  <2>5. r.reason = row[i].reason
    BY <2>1 DEF Row
  <2>6. i \in revived' \/ (r.status \in Live => r.reason = "")
    BY <2>1, <2>2, <2>4, <2>5 DEF Revive
  <2>7. revived \subseteq revived'
    BY <2>1 DEF Revive
  <2> HIDE DEF r
  <2> QED BY <2>1, <2>6, <2>7, ReasonOfRow
<1>5. ASSUME NEW i, NEW why, Closes(i, why) PROVE Reasoned'
  <2> DEFINE r == Closed(row[i], why)
  <2>1. WritesRow(i, r) /\ row[i] \in Row /\ Revive({i})
    BY <1>5 DEF Closes, WritesRow
  <2>2. r.status = "closed" /\ r.closedAt
    BY <2>1 DEF Row, Closed
  <2>3. Allowed(r) /\ r.status \notin Live
    BY <2>2 DEF Allowed
  <2> HIDE DEF r
  <2> QED BY <2>1, <2>3, ReasonOfRow DEF Revive
<1>6. ASSUME NEW i, NEW why, ClosesConvoy(i, why) PROVE Reasoned'
  <2> DEFINE rows == [row EXCEPT ![i] = Closed(@, why)]
             r == Closed(rows[Convoy], "done")
  <2>1. /\ row[i] \in Row /\ rows[Convoy] \in Row /\ i \in Issues
        /\ row' = [rows EXCEPT ![Convoy] = r] /\ revived \subseteq revived'
    BY <1>6 DEF ClosesConvoy, Revive
  <2>2. Closed(row[i], why).status = "closed" /\ Closed(row[i], why).closedAt
    BY <2>1 DEF Row, Closed
  <2>3. DOMAIN row = Issues /\ DOMAIN rows = Issues /\ Convoy \in Issues
    BY DEF Typed, TypeOK
  <2>4. \A j \in Issues : \/ rows[j] = row[j]
                          \/ rows[j].status = "closed" /\ rows[j].closedAt
    BY <2>2, <2>3
  <2> HIDE DEF rows
  <2>5. r.status = "closed" /\ r.closedAt
    BY <2>1 DEF Row, Closed
  <2> HIDE DEF r
  <2>6. \A j \in Issues : \/ row'[j] = row[j]
                          \/ row'[j].status = "closed" /\ row'[j].closedAt
    BY <2>1, <2>3, <2>4, <2>5
  <2> QED BY <2>1, <2>6 DEF Allowed
<1>7. ASSUME NEW d, Adds(d) PROVE Reasoned'
  BY <1>7 DEF Adds
<1>8. ASSUME NEW i, NEW j, Removes(i, j) PROVE Reasoned'
  BY <1>8 DEF Removes
<1>9. ASSUME NEW i, Buries(i) PROVE Reasoned'
  <2> DEFINE r == [row[i] EXCEPT !.status = "tombstone", !.closedAt = FALSE]
  <2>1. WritesRow(i, r) /\ row[i] \in Row /\ UNCHANGED revived
    BY <1>9 DEF Buries, WritesRow
  <2>2. r.status = "tombstone"
    BY <2>1 DEF Row
  <2>3. Allowed(r) /\ r.status \notin Live
    BY <2>2 DEF Allowed
  <2> HIDE DEF r
  <2> QED BY <2>1, <2>3, ReasonOfRow
<1>10. ASSUME NEW S, BuriesAll(S) PROVE Reasoned'
  <2>1. ASSUME NEW i \in Issues
        PROVE  row'[i] = row[i] \/ row'[i].status = "tombstone"
    <3>1. Exists(i) => [row[i] EXCEPT !.status = "tombstone", !.closedAt = FALSE].status
                       = "tombstone"
      BY RowOrAbsent, ZenonT(60) DEF Row, Typed
    <3> QED BY <1>10, <3>1 DEF BuriesAll
  <2>2. UNCHANGED revived
    BY <1>10 DEF BuriesAll
  <2> QED BY <2>1, <2>2 DEF Allowed
<1>11. ASSUME NEW i, Deletes(i) PROVE Reasoned'
  BY <1>11 DEF Deletes, Typed, TypeOK, Absent
<1>12. ASSUME NEW i, Creates(i) PROVE Reasoned'
  BY <1>12 DEF Creates, Typed, TypeOK, NewRow, Allowed
<1> QED
  BY <1>1, <1>2, <1>3, <1>4, <1>5, <1>6, <1>7, <1>8, <1>9, <1>10, <1>11, <1>12, Effects
     DEF Effect

-----------------------------------------------------------------------------
(* Dependencies join issues, and what changes is marked.                   *)

(* Rows are written over, and only DeleteIssue takes one away.             *)
LEMMA StillThere ==
  ASSUME Typed, Next, NEW j \in Issues, Exists(j), ~Deletes(j)
  PROVE  row'[j] # Absent
<1> USE DEF Typed, TypeOK, Exists
<1>1. ASSUME NEW i, NEW r, WritesRow(i, r) PROVE row'[j] # Absent
  BY <1>1, AbsentOK DEF WritesRow
<1>2. ASSUME NEW i, NEW why, ClosesConvoy(i, why) PROVE row'[j] # Absent
  <2> DEFINE rows == [row EXCEPT ![i] = Closed(@, why)]
  <2>1. rows \in [Issues -> Row \cup {Absent}] /\ rows[j] # Absent
    <3>1. Closed(row[i], why) \in Row /\ i \in Issues
      BY <1>2, WrittenOK DEF ClosesConvoy
    <3> QED BY <3>1, AbsentOK
  <2>2. Closed(rows[Convoy], "done") \in Row
    BY <1>2, WrittenOK DEF ClosesConvoy
  <2>3. row' = [rows EXCEPT ![Convoy] = Closed(rows[Convoy], "done")]
    BY <1>2, <2>1 DEF ClosesConvoy
  <2> HIDE DEF rows
  <2> QED BY <2>1, <2>2, <2>3, AbsentOK
<1>3. ASSUME NEW S, BuriesAll(S) PROVE row'[j] # Absent
  <2>1. [row[j] EXCEPT !.status = "tombstone", !.closedAt = FALSE] \in Row
    BY RowOrAbsent, WrittenOK
  <2> QED BY <1>3, <2>1, AbsentOK DEF BuriesAll
<1>4. ASSUME NEW i, Deletes(i) PROVE row'[j] # Absent
  BY <1>4 DEF Deletes
<1>5. ASSUME NEW i, Creates(i) PROVE row'[j] # Absent
  BY <1>5, AbsentOK, NewRowOK DEF Creates
<1>6. CASE UNCHANGED row
  BY <1>6
<1> QED
  BY <1>1, <1>2, <1>3, <1>4, <1>5, <1>6, Effects
     DEF Effect, Quiet, db, Export, Adds, Removes, Updates1, Claims, Closes, Buries

LEMMA EdgesStep == ASSUME Typed, EdgesJoinIssues, Next PROVE EdgesJoinIssues'
<1> SUFFICES ASSUME NEW d \in deps' PROVE row'[d.from] # Absent /\ row'[d.to] # Absent
  BY DEF EdgesJoinIssues, Exists
<1>1. Exists(d.from) /\ Exists(d.to)
  BY Effects
     DEF EdgesJoinIssues, Effect, Quiet, db, Export, Updates1, Claims, Closes, ClosesConvoy,
         Adds, Removes, Buries, BuriesAll, Deletes, Creates, WritesRow
<1>2. ~Deletes(d.from) /\ ~Deletes(d.to)
  BY DEF Deletes, Touching
<1>3. d.from \in Issues /\ d.to \in Issues
  BY TablesStep DEF TablesOK, Dependency
<1> QED BY <1>1, <1>2, <1>3, StillThere

(* What is exported of j stays as it is.                                   *)
SameLine(j) ==
  /\ row'[j] = row[j]
  /\ \A d : d.from = j => (d \in deps' <=> d \in deps)

LEMMA LineIs ==
  ASSUME NEW j, SameLine(j)
  PROVE  Line(j)' = Line(j)
<1>1. {d \in deps' : d.from = j} = {d \in deps : d.from = j}
  BY DEF SameLine
<1> QED BY <1>1 DEF SameLine, Line

(* An issue that no step marks, and that is there after it, was there.     *)
LEMMA Unmarked ==
  ASSUME Typed, Next, ~Export,
         NEW j \in Issues, j \notin dirty', j \notin unmarked', row'[j] # Absent
  PROVE  /\ j \notin dirty /\ j \notin unmarked
         /\ UNCHANGED file /\ SameLine(j)
<1> USE DEF Typed, TypeOK, SameLine
<1>1. ASSUME NEW i, NEW r, WritesRow(i, r) PROVE SameLine(j) /\ UNCHANGED file
            /\ j \notin dirty /\ j \notin unmarked
  BY <1>1 DEF WritesRow
<1>2. ASSUME NEW i, NEW why, ClosesConvoy(i, why) PROVE SameLine(j) /\ UNCHANGED file
            /\ j \notin dirty /\ j \notin unmarked
  BY <1>2 DEF ClosesConvoy
<1>3. ASSUME NEW S, BuriesAll(S) PROVE SameLine(j) /\ UNCHANGED file
            /\ j \notin dirty /\ j \notin unmarked
  BY <1>3 DEF BuriesAll, Orphans, Touching
<1>4. ASSUME NEW i, Deletes(i) PROVE SameLine(j) /\ UNCHANGED file
            /\ j \notin dirty /\ j \notin unmarked
  BY <1>4 DEF Deletes, Orphans, Touching
<1>5. ASSUME NEW i, Creates(i) PROVE SameLine(j) /\ UNCHANGED file
            /\ j \notin dirty /\ j \notin unmarked
  BY <1>5 DEF Creates, Orphans, Touching
<1>6. ASSUME NEW d, Adds(d) PROVE SameLine(j) /\ UNCHANGED file
            /\ j \notin dirty /\ j \notin unmarked
  BY <1>6 DEF Adds
<1>7. ASSUME NEW i, NEW k, Removes(i, k) PROVE SameLine(j) /\ UNCHANGED file
            /\ j \notin dirty /\ j \notin unmarked
  BY <1>7 DEF Removes, Between
<1>8. CASE Quiet
  BY <1>8 DEF Quiet, db, history
<1> QED
  BY <1>1, <1>2, <1>3, <1>4, <1>5, <1>6, <1>7, <1>8, Effects
     DEF Effect, Updates1, Claims, Closes, Buries

LEMMA DirtyStep == ASSUME Typed, ChangedLineIsDirty, Next PROVE ChangedLineIsDirty'
<1>1. CASE Export
  <2>1. \A j \in Issues : file'[j] = IF j \in dirty THEN Line(j) ELSE file[j]
    BY <1>1 DEF Export
  <2>2. \A j : Line(j)' = Line(j)
    BY <1>1 DEF Export, Line
  <2> QED BY <1>1, <2>1, <2>2 DEF Export, ChangedLineIsDirty, Exists
<1>2. CASE ~Export
  <2> SUFFICES ASSUME NEW j \in Issues, j \notin dirty', j \notin unmarked', row'[j] # Absent
               PROVE  file'[j] = Line(j)'
    BY DEF ChangedLineIsDirty, Exists
  <2>1. j \notin dirty /\ j \notin unmarked /\ UNCHANGED file /\ SameLine(j)
    BY <1>2, Unmarked
  <2>2. Exists(j)
    BY <2>1 DEF SameLine, Exists
  <2>3. file[j] = Line(j)
    BY <2>1, <2>2 DEF ChangedLineIsDirty
  <2> QED BY <2>1, <2>3, LineIs
<1> QED BY <1>1, <1>2

-----------------------------------------------------------------------------
(* The cache of blocked issues.                                            *)

Working(ds) == {d \in ds : AffectsReadyWork(d.type)}

(* Rows that the cache cannot tell apart.                                  *)
Alike(r, s) == r.status = s.status /\ r.reason = s.reason

AlikeOn(ds, rows, rows2) ==
  \A d \in ds : Alike(rows[d.from], rows2[d.from]) /\ Alike(rows[d.to], rows2[d.to])

(* What is blocked depends on the working dependencies, and on the status  *)
(* and the reason of the issues that they join.                            *)
LEMMA SameBlocked ==
  ASSUME NEW rows, NEW rows2, NEW ds, NEW es, Working(ds) = Working(es),
         AlikeOn(Working(ds), rows, rows2)
  PROVE  Blocked(rows, ds) = Blocked(rows2, es)
<1>1. Parents(ds) = Parents(es) /\ Parents(ds) \subseteq Working(ds)
  BY DEF Parents, Working, AffectsReadyWork
<1>2. \A i : Children(i, ds) = Children(i, es)
  BY <1>1 DEF Children
<1>3. \A i : \A c \in Children(i, ds) : Finished(c, rows) <=> Finished(c, rows2)
  BY <1>1 DEF Children, Finished, AlikeOn, Alike
<1>4. ASSUME NEW d \in Working(ds) PROVE Blocks(d, rows, ds) <=> Blocks(d, rows2, es)
  <2> DEFINE C == Children(d.to, ds)
  <2>0. C = Children(d.to, es) /\ \A c \in C : Finished(c, rows) <=> Finished(c, rows2)
    BY <1>2, <1>3
  <2>1. Alike(rows[d.to], rows2[d.to])
    BY <1>4 DEF AlikeOn
  <2>2. CASE d.type = "blocks" \/ d.type = "conditional-blocks"
    BY <2>1, <2>2 DEF Blocks, Alike
  <2>3. CASE d.type = "waits-for"
    <3>1. /\ Blocks(d, rows, ds) <=> \E c \in C : ~Finished(c, rows)
          /\ Blocks(d, rows2, es) <=> \E c \in C : ~Finished(c, rows2)
      BY <2>0, <2>3 DEF Blocks
    <3> HIDE DEF C
    <3> QED BY <2>0, <3>1
  <2>4. CASE d.type = "waits-for-any"
    <3>1. /\ Blocks(d, rows, ds) <=> ~\E c \in C : Finished(c, rows)
          /\ Blocks(d, rows2, es) <=> ~\E c \in C : Finished(c, rows2)
      BY <2>0, <2>4 DEF Blocks
    <3> HIDE DEF C
    <3> QED BY <2>0, <3>1
  <2>5. CASE d.type = "parent-child"
    BY <2>5 DEF Blocks
  <2> QED BY <1>4, <2>2, <2>3, <2>4, <2>5 DEF Working, AffectsReadyWork
<1>5. ASSUME NEW d, ~AffectsReadyWork(d.type) PROVE ~Blocks(d, rows, ds) /\ ~Blocks(d, rows2, es)
  BY <1>5 DEF AffectsReadyWork, Blocks
<1>6. BlockedDirectly(rows, ds) = BlockedDirectly(rows2, es)
  <2>1. \A d : d \in ds /\ Blocks(d, rows, ds) <=> d \in es /\ Blocks(d, rows2, es)
    BY <1>4, <1>5 DEF Working
  <2> QED BY <2>1 DEF BlockedDirectly
<1> QED BY <1>1, <1>6 DEF Blocked

LEMMA BlockedStays ==
  ASSUME Working(deps') = Working(deps), AlikeOn(Working(deps), row, row')
  PROVE  Blocked(row, deps) = Blocked(row', deps')
<1> DEFINE R == row'  D == deps'
<1>1. Working(deps) = Working(D) /\ AlikeOn(Working(deps), row, R)
  OBVIOUS
<1> HIDE DEF R, D
<1>2. Blocked(row, deps) = Blocked(R, D)
  BY ONLY <1>1, SameBlocked
<1> QED BY <1>2 DEF R, D

LEMMA CacheStep == ASSUME Typed, EdgesJoinIssues, CacheExact, Next PROVE CacheExact'
<1> USE DEF Typed, TypeOK
<1>1. ASSUME unrebuilt = {} PROVE cache = Blocked(row, deps)
  BY <1>1 DEF CacheExact
<1>2. CASE Quiet \/ Export
  BY <1>2 DEF Quiet, db, history, Export, CacheExact
<1>3. CASE Rebuild(row', deps')
  BY <1>3 DEF Rebuild, CacheExact
<1>4. CASE unrebuilt' # {}
  BY <1>4 DEF CacheExact
<1>5. ASSUME NEW i, NEW u, NEW old, Updates1(i, u, old) PROVE CacheExact'
  <2>1. CASE u.field = "status"
    BY <1>3, <1>5, <2>1 DEF Updates1, WritesRow, Updates
  <2>2. CASE u.field = "assignee"
    <3>1. /\ row' = [row EXCEPT ![i] = [row[i] EXCEPT !.assignee = u.value]] /\ i \in Issues
          /\ row[i] \in Row /\ NoRebuild /\ UNCHANGED deps
      BY <1>5, <2>2 DEF Updates1, WritesRow, Updated
    <3>2. Alike(row[i], [row[i] EXCEPT !.assignee = u.value])
      BY <3>1 DEF Row, Alike
    <3>3. \A j \in Issues : Alike(row[j], row'[j])
      BY <3>1, <3>2 DEF Alike
    <3>4. \A d \in Working(deps) : d.from \in Issues /\ d.to \in Issues
      BY DEF Working, Dependency
    <3>5. Blocked(row, deps) = Blocked(row', deps')
      BY ONLY <3>1, <3>3, <3>4, BlockedStays DEF AlikeOn, Working
    <3> QED BY <1>1, <3>1, <3>5 DEF NoRebuild, CacheExact
  <2> QED BY <1>5, <2>1, <2>2 DEF Updates1, Updates
<1>6. ASSUME NEW d, Adds(d) PROVE CacheExact'
  <2>1. CASE AffectsReadyWork(d.type)
    BY <1>3, <1>6, <2>1 DEF Adds
  <2>2. CASE ~AffectsReadyWork(d.type)
    <3>1. Working(deps) = Working(deps') /\ NoRebuild /\ UNCHANGED row
      BY <1>6, <2>2 DEF Adds, Working
    <3>2. Blocked(row, deps) = Blocked(row', deps')
      BY ONLY <3>1, BlockedStays DEF Alike, AlikeOn
    <3> QED BY <1>1, <3>1, <3>2 DEF NoRebuild, CacheExact
  <2> QED BY <2>1, <2>2
<1>7. ASSUME NEW i, NEW j, Removes(i, j) PROVE CacheExact'
  <2>1. CASE Rebuild(row, deps')
    BY <1>3, <1>7, <2>1 DEF Removes
  <2>2. CASE NoRebuild /\ \A e \in Between(i, j) : ~AffectsReadyWork(e.type)
    <3>1. Working(deps) = Working(deps') /\ UNCHANGED row
      BY <1>7, <2>2 DEF Removes, Working
    <3>2. Blocked(row, deps) = Blocked(row', deps')
      BY ONLY <3>1, BlockedStays DEF Alike, AlikeOn
    <3> QED BY <1>1, <2>2, <3>2 DEF NoRebuild, CacheExact
  <2> QED BY <1>4, <1>7, <2>1, <2>2 DEF Removes, Skips
<1>8. ASSUME NEW i, Creates(i) PROVE CacheExact'
  <2>1. CASE Exists(i)
    BY <1>4, <1>8, <2>1 DEF Creates, Skips
  <2>2. CASE ~Exists(i)
    <3>1. \A d \in deps : d.from # i /\ d.to # i /\ d.from \in Issues /\ d.to \in Issues
      BY <2>2 DEF EdgesJoinIssues, Dependency
    <3>2. UNCHANGED deps
      BY <1>8, <3>1 DEF Creates, Touching
    <3>3. \A d \in Working(deps) : row'[d.from] = row[d.from] /\ row'[d.to] = row[d.to]
      BY <1>8, <3>1 DEF Creates, Working
    <3>4. Blocked(row, deps) = Blocked(row', deps')
      BY ONLY <3>2, <3>3, BlockedStays DEF Alike, AlikeOn
    <3>5. i \notin Blocked(row, deps)
      <4>1. i \notin {d.from : d \in deps} /\ deps \subseteq Dependency
        BY <3>1
      <4> QED BY ONLY <4>1, BlockedInIssues
    <3>6. cache' = cache \ {i} /\ UNCHANGED unrebuilt
      BY <1>8, <2>2 DEF Creates
    <3> QED BY <1>1, <3>4, <3>5, <3>6 DEF CacheExact
  <2> QED BY <2>1, <2>2
<1> QED
  BY <1>2, <1>3, <1>4, <1>5, <1>6, <1>7, <1>8, Effects
     DEF Effect, Claims, Closes, ClosesConvoy, Buries, BuriesAll, Deletes, Skips, WritesRow

-----------------------------------------------------------------------------
(* Cycles.                                                                 *)

Cycle(ds, e) == e.from \in Reachable(e.to, ds)

LEMMA EdgesMonotonic ==
  ASSUME NEW ds, NEW es, ds \subseteq es
  PROVE  Edges(ds) \subseteq Edges(es)
BY DEF Edges

LEMMA ReachableMonotonic ==
  ASSUME NEW ds, NEW es, ds \subseteq es, NEW i
  PROVE  Reachable(i, ds) \subseteq Reachable(i, es)
<1> DEFINE A == Edges(ds)  B == Edges(es)  S == {i}
<1>1. A \subseteq B
  BY EdgesMonotonic
<1> HIDE DEF A, B, S
<1>2. Spread(S, A, Depth) \subseteq Spread(S, B, Depth)
  BY <1>1, SpreadMonotonic, Bounds
<1> QED BY <1>2 DEF Reachable, A, B, S

LEMMA FewerAcyclic ==
  ASSUME NEW ds, NEW es, ds \subseteq es, AcyclicIn(es)
  PROVE  AcyclicIn(ds)
<1> DEFINE A == Ordering(ds)  B == Ordering(es)
<1>1. A \subseteq B
  BY DEF Ordering
<1>2. \A d \in B : d.from \notin Reachable(d.to, B)
  BY DEF AcyclicIn
<1> HIDE DEF A, B
<1>3. ASSUME NEW d \in A PROVE d.from \notin Reachable(d.to, A)
  <2>1. Reachable(d.to, A) \subseteq Reachable(d.to, B)
    BY ONLY <1>1, ReachableMonotonic
  <2> QED BY <1>1, <1>2, <2>1
<1> QED BY <1>3 DEF AcyclicIn, A

(* A dependency that is refused when its source is reached from its target *)
(* closes no cycle: a cycle through it would be a walk from its target to  *)
(* its source, one pair shorter.                                           *)
LEMMA NoNewCycle ==
  ASSUME NEW ds, NEW d, AcyclicIn(ds), d.type # "relates-to", d.from \notin Reachable(d.to, ds)
  PROVE  AcyclicIn(ds \cup {d})
<1> DEFINE O == Ordering(ds)
           E == Edges(O)
           a == d.from
           b == d.to
<1>1. Ordering(ds \cup {d}) = O \cup {d} /\ Edges(O \cup {d}) = E \cup {<<a, b>>}
  BY DEF Ordering, Edges
<1>2. a \notin Spread({b}, E, Depth)
  BY ReachableMonotonic DEF Ordering, Reachable
<1>3. ASSUME NEW e \in O \cup {d}, e.from \in Spread({e.to}, E \cup {<<a, b>>}, Depth)
      PROVE  FALSE
  <2> DEFINE x == e.from
             y == e.to
             Y == {y}
             X == {x}
             B == {b}
  <2>1. e \in O => <<x, y>> \in E /\ x \notin Spread(Y, E, Depth)
    BY DEF AcyclicIn, Reachable, Edges
  <2>2. e \notin O => x = a /\ y = b
    BY <1>3
  <2>3. x \in Spread(Y, E \cup {<<a, b>>}, Depth) /\ a \notin Spread(B, E, Depth)
    BY <1>2, <1>3
  <2>4. x \notin Spread(Y, E, Depth)
    BY <2>1, <2>2, <2>3
  <2> HIDE DEF E, O, a, b, x, y, Y, X, B
  <2>5. PICK j \in Nat, k \in Nat :
          j + 1 + k <= Depth /\ a \in Spread(Y, E, j) /\ x \in Spread(B, E, k)
    BY <2>3, <2>4, SpreadThrough, Bounds DEF B
  <2>6. CASE e \notin O
    <3>1. k <= Depth /\ a \in Spread(B, E, k)
      BY ONLY <2>2, <2>5, <2>6, Bounds, k \in Nat, j \in Nat
    <3> QED BY <2>3, <3>1, SpreadDeeper, Bounds
  <2>7. CASE e \in O
    <3>1. y \in Spread(X, E, 1)
      BY <2>1, <2>7, SpreadPair DEF X
    <3>2. y \in Spread(B, E, k + 1)
      <4>1. X \subseteq Spread(B, E, k) /\ 1 \in Nat
        BY <2>5 DEF X
      <4> QED BY ONLY <3>1, <4>1, SpreadJoin, k \in Nat
    <3>3. a \in Spread(B, E, (k + 1) + j)
      <4>1. Y \subseteq Spread(B, E, k + 1)
        BY <3>2 DEF Y
      <4>2. k + 1 \in Nat
        BY ONLY k \in Nat
      <4> QED BY ONLY <2>5, <4>1, <4>2, SpreadJoin, j \in Nat
    <3>4. (k + 1) + j <= Depth /\ (k + 1) + j \in Nat
      BY ONLY <2>5, Bounds, k \in Nat, j \in Nat
    <3> QED BY <2>3, <3>3, <3>4, SpreadDeeper, Bounds
  <2> QED BY <2>6, <2>7
<1> HIDE DEF E, O, a, b
<1>4. ASSUME NEW e \in Ordering(ds \cup {d})
      PROVE  e.from \notin Reachable(e.to, Ordering(ds \cup {d}))
  BY <1>1, <1>3 DEF Reachable
<1> QED BY <1>4 DEF AcyclicIn

LEMMA AcyclicStep == ASSUME Typed, Acyclic, Next PROVE Acyclic'
<1>1. CASE deps' \subseteq deps
  BY <1>1, FewerAcyclic DEF Acyclic
<1>2. ASSUME NEW d, Adds(d) PROVE Acyclic'
  <2>1. CASE d.type = "relates-to"
    <3>1. Ordering(deps') = Ordering(deps)
      BY <1>2, <2>1 DEF Adds, Ordering
    <3> QED BY <3>1 DEF Acyclic, AcyclicIn
  <2>2. CASE d.type # "relates-to"
    <3>1. d.from \notin Reachable(d.to, deps)
      BY <1>2, <2>2 DEF Adds, ClosesCycle
    <3>2. AcyclicIn(deps \cup {d})
      BY <2>2, <3>1, NoNewCycle DEF Acyclic
    <3>3. deps' = deps \cup {d}
      BY <1>2 DEF Adds
    <3> QED BY <3>2, <3>3 DEF Acyclic
  <2> QED BY <2>1, <2>2
<1> QED
  BY <1>1, <1>2, Effects
     DEF Effect, Quiet, db, Export, Updates1, Claims, Closes, ClosesConvoy, WritesRow,
         Removes, Buries, BuriesAll, Deletes, Creates

-----------------------------------------------------------------------------
(* Something is ready.                                                     *)

(* All that is reached from x, when there are no more issues than Depth.   *)
From(x, E) == Spread({x}, E, Cardinality(Issues))

LEMMA FromCloses ==
  ASSUME NEW E, \A r \in E : r[2] \in Issues, NEW x \in Issues
  PROVE  /\ From(x, E) \subseteq Issues /\ x \in From(x, E)
         /\ \A y, z : <<y, z>> \in E /\ y \in From(x, E) => z \in From(x, E)
         /\ \A y \in From(x, E) : From(y, E) \subseteq From(x, E)
<1> DEFINE N == Cardinality(Issues)
           S == {x}
           F == Spread(S, E, N)
<1>1. N \in Nat
  BY FS_CardinalityType
<1>2. S \subseteq Issues /\ S # {}
  OBVIOUS
<1>3. \A r \in E : r[1] \in F => r[2] \in F
  BY <1>2, SpreadSettles, Zenon
<1>4. F \subseteq Issues
  BY <1>1, <1>2, SpreadWithin
<1>5. x \in F
  <2>1. Spread(S, E, 0) = S
    BY SpreadZero
  <2> HIDE DEF S, N
  <2>2. Spread(S, E, 0) \subseteq Spread(S, E, N)
    <3>1. 0 <= N /\ 0 \in Nat
      BY ONLY <1>1
    <3> QED BY ONLY <1>1, <3>1, SpreadDeeper
  <2> QED BY <2>1, <2>2 DEF S
<1> HIDE DEF F, N
<1>6. ASSUME NEW y \in F PROVE Spread({y}, E, N) \subseteq F
  <2> DEFINE Y == {y}
  <2>1. Y \subseteq F
    OBVIOUS
  <2> HIDE DEF Y
  <2>2. Spread(Y, E, N) \subseteq F
    BY <1>1, <1>3, <2>1, SpreadWithin
  <2> QED BY <2>2 DEF Y
<1>7. \A y, z : <<y, z>> \in E /\ y \in F => z \in F
  BY <1>3
<1> QED BY <1>4, <1>5, <1>6, <1>7 DEF From, F, N

(* Only blocks and parent-child block.                                     *)
PlainDeps == \A d \in deps : d.type \notin {"conditional-blocks", "waits-for", "waits-for-any"}

Open == {i \in Issues : row[i].status \in Live}

(* A blocked issue leads, over a dependency and then some, to an open one. *)
LEMMA BlockedByOpen ==
  ASSUME Typed, PlainDeps, NEW x \in Blocked(row, deps)
  PROVE  \E d \in Ordering(deps) :
            d.from = x /\ \E o \in Open : o \in From(d.to, Edges(Ordering(deps)))
<1> DEFINE O == Ordering(deps)
           E == Edges(O)
           Leads(y) == \E d \in O : d.from = y /\ \E o \in Open : o \in From(d.to, E)
           W == {y \in Issues : Leads(y)}
           B == BlockedDirectly(row, deps)
           R == Inverted(Parents(deps))
<1>1. \A d \in O : d \in deps /\ d.from \in Issues /\ d.to \in Issues /\ <<d.from, d.to>> \in E
  BY DEF Typed, TypeOK, Dependency, Ordering, Edges
<1>2. \A r \in E : r[2] \in Issues
  BY <1>1, EdgePair, ZenonT(60)
<1>3. B \subseteq W
  <2> SUFFICES ASSUME NEW d \in deps, Blocks(d, row, deps) PROVE d.from \in W
    BY DEF BlockedDirectly
  <2>1. d.type = "blocks" /\ row[d.to].status \in Live
    BY DEF PlainDeps, Blocks, Blocking
  <2>2. d \in O
    BY <2>1 DEF Ordering
  <2>3. d.to \in Open
    BY <1>1, <2>1, <2>2 DEF Open
  <2>4. d.to \in From(d.to, E)
    BY <1>1, <1>2, <2>2, FromCloses
  <2> QED BY <1>1, <2>2, <2>3, <2>4
<1>4. ASSUME NEW r \in R, r[1] \in W PROVE r[2] \in W
  <2>1. PICK d \in Parents(deps) : r[1] = d.to /\ r[2] = d.from
    BY InvertedPair, ZenonT(60)
  <2>2. d \in O
    BY <2>1 DEF Parents, Ordering
  <2>3. PICK e \in O, o \in Open : e.from = d.to /\ o \in From(e.to, E)
    BY <1>4, <2>1
  <2> HIDE DEF E, O
  <2>4. e.to \in From(d.to, E)
    BY <1>1, <1>2, <2>2, <2>3, FromCloses
  <2>5. o \in From(d.to, E)
    BY <1>1, <1>2, <2>2, <2>3, <2>4, FromCloses
  <2> QED BY <1>1, <2>1, <2>2, <2>5
<1> HIDE DEF W, B, R
<1>5. Spread(B, R, Depth) \subseteq W
  BY <1>3, <1>4, SpreadWithin, Bounds
<1> QED BY <1>5 DEF Blocked, W, B, R

(* If all open issues were blocked, each would lead to another from which  *)
(* less is reached.                                                        *)
LEMMA ReadyFollows ==
  ASSUME Typed, Acyclic, Cardinality(Issues) <= Depth
  PROVE  SomethingReady
<1> SUFFICES ASSUME PlainDeps, Open # {}, Open \subseteq Blocked(row, deps) PROVE FALSE
  BY DEF SomethingReady, PlainDeps, Open
<1> DEFINE O == Ordering(deps)
           E == Edges(O)
           N == Cardinality(Issues)
           Size(x) == Cardinality(From(x, E))
           T == {n \in Nat : \E x \in Open : n = Size(x)}
<1>1. \A d \in O : d.from \in Issues /\ d.to \in Issues /\ <<d.from, d.to>> \in E
  BY DEF Typed, TypeOK, Dependency, Ordering, Edges
<1>2. \A r \in E : r[2] \in Issues
  BY <1>1, EdgePair, ZenonT(60)
<1>3. ASSUME NEW d \in O PROVE d.from \notin From(d.to, E)
  <2> DEFINE S == {d.to}
  <2>1. d.from \notin Spread(S, E, Depth)
    BY DEF Acyclic, AcyclicIn, Reachable
  <2>2. N \in Nat
    BY FS_CardinalityType
  <2> HIDE DEF S
  <2>3. Spread(S, E, N) \subseteq Spread(S, E, Depth)
    BY <2>2, SpreadDeeper, Bounds
  <2> QED BY <2>1, <2>3 DEF From, S
<1>4. ASSUME NEW x \in Issues PROVE IsFiniteSet(From(x, E)) /\ Size(x) \in Nat
  <2>1. From(x, E) \subseteq Issues
    BY <1>2, FromCloses
  <2> QED BY <2>1, FS_Subset, FS_CardinalityType
<1>5. PICK x \in Open : \A y \in Open : Size(x) <= Size(y)
  <2>1. \A x \in Open : Size(x) \in Nat
    BY <1>4 DEF Open
  <2> HIDE DEF Size
  <2>2. T \subseteq Nat /\ T # {}
    BY <2>1
  <2> HIDE DEF T
  <2>3. PICK n \in T : \A m \in T : n <= m
    BY <2>2, LeastNumber
  <2>4. PICK x \in Open : n = Size(x)
    BY <2>3 DEF T
  <2>5. \A y \in Open : Size(y) \in T
    BY <2>1 DEF T
  <2> QED BY <2>3, <2>4, <2>5
<1>6. PICK d \in O, o \in Open : d.from = x /\ o \in From(d.to, E)
  BY BlockedByOpen
<1> HIDE DEF E, O
<1>7. x \in Issues /\ o \in Issues
  BY DEF Open
<1>8. x \in From(x, E) /\ d.to \in From(x, E)
  BY <1>1, <1>2, <1>6, <1>7, FromCloses
<1>9. From(o, E) \subseteq From(d.to, E) /\ From(d.to, E) \subseteq From(x, E)
  BY <1>1, <1>2, <1>6, <1>7, <1>8, FromCloses
<1>10. x \notin From(o, E)
  BY <1>3, <1>6, <1>9
<1>11. Size(o) <= Size(x) /\ Size(o) # Size(x)
  BY <1>4, <1>7, <1>8, <1>9, <1>10, FS_Subset
<1> HIDE DEF Size
<1>12. Size(x) <= Size(o) /\ Size(x) \in Nat /\ Size(o) \in Nat
  BY <1>4, <1>5, <1>7
<1> QED BY ONLY <1>11, <1>12

-----------------------------------------------------------------------------
(* The inductive invariant: each part is kept given the types, and the     *)
(* cache also needs to know that dependencies join issues that exist, for  *)
(* otherwise an issue that is created could change what is blocked.        *)
IInv ==
  /\ Typed /\ EdgesJoinIssues /\ CacheExact /\ Acyclic
  /\ ClaimExclusive /\ Reasoned /\ ChangedLineIsDirty

LEMMA IInvInit == Init => IInv
<1> SUFFICES ASSUME Init PROVE IInv
  OBVIOUS
<1>1. Typed
  BY TypedInit
<1>2. \A i \in Issues : row[i] = NewRow
  BY DEF Init
<1>3. EdgesJoinIssues /\ Acyclic /\ CacheExact
  <2>1. deps \subseteq Dependency /\ AcyclicIn(deps) /\ cache = Blocked(row, deps)
    BY DEF Init
  <2>2. \A d \in deps : d.from \in Issues /\ d.to \in Issues
    BY <2>1 DEF Dependency
  <2>3. NewRow # Absent
    BY NewRowOK, AbsentOK
  <2>4. EdgesJoinIssues
    <3>1. ASSUME NEW d \in deps PROVE row[d.from] = NewRow /\ row[d.to] = NewRow
      BY ONLY <1>2, <2>2, d \in deps
    <3> QED BY ONLY <2>3, <3>1 DEF EdgesJoinIssues, Exists
  <2>5. Acyclic /\ CacheExact
    BY <2>1 DEF Acyclic, CacheExact
  <2> QED BY <2>4, <2>5
<1>4. ClaimExclusive /\ ChangedLineIsDirty
  BY DEF Init, ClaimExclusive, ChangedLineIsDirty
<1>5. Reasoned
  <2>1. NewRow.reason = "" /\ NewRow.status = "open" /\ ~NewRow.closedAt
    BY DEF NewRow
  <2>2. Allowed(NewRow)
    BY DEF Allowed, NewRow
  <2> QED BY <1>2, <2>1, <2>2 DEF Reasoned, RowsAllowed, NoReasonWhileOpen
<1> QED BY <1>1, <1>3, <1>4, <1>5 DEF IInv

LEMMA IInvStep == IInv /\ [Next]_vars => IInv'
<1> SUFFICES ASSUME IInv, [Next]_vars PROVE IInv'
  OBVIOUS
<1>1. Typed'
  BY TypedStep DEF IInv
<1>2. CASE Next
  BY <1>1, <1>2, EdgesStep, CacheStep, AcyclicStep, ClaimStep, ReasonStep, DirtyStep DEF IInv
<1>3. CASE UNCHANGED vars
  BY <1>1, <1>3
     DEF IInv, vars, db, history, EdgesJoinIssues, CacheExact, Acyclic, ClaimExclusive,
         Reasoned, RowsAllowed, NoReasonWhileOpen, ChangedLineIsDirty, Exists, Line
<1> QED BY <1>2, <1>3

LEMMA Invariant == Spec => []IInv
BY IInvInit, IInvStep, PTL DEF Spec

(* The cache is exact whenever no writer that skips invalidateBlockedCache *)
(* ran since its last rebuild: an assignment, a new issue and a dependency *)
(* of a type without effect cannot change what is blocked.                 *)
THEOREM CacheIsExact == Spec => []CacheExact
<1>1. IInv => CacheExact
  BY DEF IInv
<1> QED BY <1>1, Invariant, PTL

(* However many commands add and remove dependencies at once, the check in *)
(* AddDependency's transaction lets no cycle of up to Depth + 1 arise.     *)
THEOREM NeverCyclic == Spec => []Acyclic
<1>1. IInv => Acyclic
  BY DEF IInv
<1> QED BY <1>1, Invariant, PTL

(* In a database of no more issues than the depth limit, not all open      *)
(* issues are blocked, as long as only blocks and parent-child are used.   *)
THEOREM AlwaysSomethingReady ==
  ASSUME Cardinality(Issues) <= Depth
  PROVE  Spec => []SomethingReady
<1>1. IInv => SomethingReady
  BY ReadyFollows DEF IInv
<1> QED BY <1>1, Invariant, PTL

(* Both ends of every dependency exist: what AddDependency looked up       *)
(* before its transaction may be gone, but the foreign keys look again.    *)
THEOREM DependenciesJoin == Spec => []EdgesJoinIssues
<1>1. IInv => EdgesJoinIssues
  BY DEF IInv
<1> QED BY <1>1, Invariant, PTL

(* An issue whose line in the file is out of date has a dirty mark, or is  *)
(* one of those that lost a dependency to a delete or a re-creation.       *)
THEOREM ChangesAreMarked == Spec => []ChangedLineIsDirty
<1>1. IInv => ChangedLineIsDirty
  BY DEF IInv
<1> QED BY <1>1, Invariant, PTL

(* Any number of processes claim the same issue: one is told it has it,    *)
(* and the row names it until it is assigned anew (ClaimIssue).            *)
THEOREM ClaimsExclude == Spec => []ClaimExclusive
<1>1. IInv => ClaimExclusive
  BY DEF IInv
<1> QED BY <1>1, Invariant, PTL

(* No stale read leaves a live issue with a close reason: the schema's     *)
(* CHECK on closed_at refuses every update that would (manageClosedAt).    *)
THEOREM NoReasonLeft == Spec => []NoReasonWhileOpen
<1>1. IInv => NoReasonWhileOpen
  BY DEF IInv, Reasoned
<1> QED BY <1>1, Invariant, PTL
=============================================================================
