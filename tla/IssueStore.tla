------------------------------ MODULE IssueStore ------------------------------
(***************************************************************************)
(* Issues, dependencies and the cache of blocked issues in one SQLite      *)
(* database, used by several commands at once (internal/storage/sqlite).   *)
(* Every transaction is BEGIN IMMEDIATE: one at a time, and one action     *)
(* here.  What a command reads before its transaction is kept in cmd and   *)
(* may be stale when the transaction runs.  A process may die between any  *)
(* two of its steps.                                                       *)
(*                                                                         *)
(* A row is what the properties tell apart: the status, whether closed_at  *)
(* is set, the close reason ("failed" for one with a failure keyword) and  *)
(* the assignee.  A dependency is a record; since migration 025 its type   *)
(* is part of the key.  Gates take their spawner from depends_on_id.       *)
(***************************************************************************)
EXTENDS Naturals, FiniteSets, Reach

CONSTANTS
  Issues,
  Processes,   \* one command each at a time; also the actor's name
  Epics,       \* the issues of type epic
  Convoy,      \* the one issue with the label gt:convoy
  Types,       \* the dependency types in use
  NewTypes,    \* those of them that the commands of the instance add
  Live,        \* the statuses in use other than closed and tombstone
  Reasons,     \* the close reasons in use: "done", and "failed" with a failure keyword
  Depth,       \* depth limits: 100 for cycles, 50 for inherited blocking
  InitialDeps, \* sets of dependencies that the first commands may find
  MaxCommands  \* bound on the commands that are started

ASSUME IssueStoreAssumption ==
  /\ IsFiniteSet(Issues) /\ Epics \subseteq Issues /\ Convoy \in Issues
  /\ Types \subseteq {"blocks", "conditional-blocks", "waits-for", "waits-for-any",
                      "parent-child", "relates-to", "tracks"}
  /\ NewTypes \subseteq Types
  /\ {"open", "in_progress"} \subseteq Live
  /\ Live \subseteq {"open", "in_progress", "blocked", "deferred", "hooked"}
  /\ Reasons \subseteq {"done", "failed"}
  /\ Depth \in Nat /\ MaxCommands \in Nat
  /\ "" \notin Processes

VARIABLES
  row,       \* row[i]: the row of issue i, or Absent
  deps,      \* the dependencies
  cache,     \* blocked_issues_cache
  dirty,     \* dirty_issues
  file,      \* file[i]: what was last exported of i, or Absent
  cmd,       \* cmd[p]: where the command of p is, and what it has read
  commands,  \* commands started so far
  \* history
  unrebuilt, \* writers that ran since the cache was last rebuilt, and should have
  unmarked,  \* issues that lost a dependency without a dirty mark
  winners,   \* winners[i]: processes told that they claimed i, since it was last
             \* assigned by an update or created
  revived    \* issues brought back from a tombstone otherwise than by creating

db == <<row, deps, cache, dirty>>
history == <<unrebuilt, unmarked, winners, revived>>
vars == <<db, file, cmd, commands, history>>

Dependency == [from: Issues, to: Issues, type: Types]
Row == [status: Live \cup {"closed", "tombstone"}, closedAt: BOOLEAN,
        reason: Reasons \cup {"", "done"}, assignee: Processes \cup {""}]
Absent == [status |-> "absent"]
NewRow == [status |-> "open", closedAt |-> FALSE, reason |-> "", assignee |-> ""]

(* Dependencies as pairs, from an issue to what it depends on, and back.   *)
Edges(ds) == {<<d.from, d.to>> : d \in ds}
Inverted(ds) == {<<d.to, d.from>> : d \in ds}

Exists(i) == row[i] # Absent
(* The rows that SearchIssues finds, and with it ResolvePartialID.         *)
Resolves(i) == Exists(i) /\ row[i].status # "tombstone"

(* Mutant: a table without the constraint.                                 *)
AllowedAlways(r) == TRUE

(* The CHECK constraint of the table.                                      *)
Allowed(r) ==
  \/ r.status = "tombstone"
  \/ (r.status = "closed") = r.closedAt

Idle == [op |-> "idle"]

(* S is written without a look at the status: tombstones in it come back.  *)
Revive(S) == revived' = revived \cup {i \in S : row[i].status = "tombstone"}

-----------------------------------------------------------------------------
(* The cache of blocked issues.                                            *)

Blocking == Live \cap {"open", "in_progress", "blocked", "deferred", "hooked"}

Parents(ds) == {d \in ds : d.type = "parent-child"}
Children(i, ds) == {d.from : d \in {e \in Parents(ds) : e.to = i}}
Finished(i, rows) == rows[i].status \in {"closed", "tombstone"}

(* Whether dependency d blocks its issue.                                  *)
Blocks(d, rows, ds) ==
  CASE d.type = "blocks" -> rows[d.to].status \in Blocking
    [] d.type = "conditional-blocks" ->
         \/ rows[d.to].status \in Blocking \ {"hooked"}
         \/ rows[d.to].status = "closed" /\ rows[d.to].reason # "failed"
    [] d.type = "waits-for" -> \E c \in Children(d.to, ds) : ~Finished(c, rows)
    [] d.type = "waits-for-any" -> ~\E c \in Children(d.to, ds) : Finished(c, rows)
    [] OTHER -> FALSE

BlockedDirectly(rows, ds) == {d.from : d \in {e \in ds : Blocks(e, rows, ds)}}

(* Blocked directly, or by inheritance from a parent.                      *)
Blocked(rows, ds) ==
  Spread(BlockedDirectly(rows, ds), Inverted(Parents(ds)), Depth)

(* Mutant: parents forgotten.                                              *)
AffectsReadyWorkDirectly(t) ==
  t \in {"blocks", "conditional-blocks", "waits-for", "waits-for-any"}

AffectsReadyWork(t) ==
  t \in {"blocks", "parent-child", "conditional-blocks", "waits-for", "waits-for-any"}

(* invalidateBlockedCache, in the writer's transaction.                    *)
Rebuild(rows, ds) ==
  /\ cache' = Blocked(rows, ds)
  /\ unrebuilt' = {}

NoRebuild == UNCHANGED <<cache, unrebuilt>>

-----------------------------------------------------------------------------
(* The dependency graph.                                                   *)

(* The issues that i depends on, over at most Depth dependencies.          *)
Reachable(i, ds) == Spread({i}, Edges(ds), Depth)

(* AddDependency refuses an issue that depends on itself, and an epic that *)
(* is the child of an issue that is none.                                  *)
Sensible(d) ==
  /\ d.from # d.to
  /\ ~(d.type = "parent-child" /\ d.from \in Epics /\ d.to \notin Epics)

Ordering(ds) == {d \in ds : d.type # "relates-to"}
AcyclicIn(ds) == \A d \in Ordering(ds) : d.from \notin Reachable(d.to, Ordering(ds))

(* What is exported of an issue.                                           *)
Line(i) == [row |-> row[i], deps |-> {d \in deps : d.from = i}]

(* Commands that ended before left any dependencies that AddDependency     *)
(* accepts one after the other, a rebuilt cache, and nothing to export.    *)
Init ==
  /\ row = [i \in Issues |-> NewRow]
  /\ deps \in {D \in InitialDeps : 
                 D \subseteq Dependency /\ AcyclicIn(D) /\ \A d \in D : Sensible(d)}
  /\ cache = Blocked(row, deps)
  /\ file = [i \in Issues |-> Line(i)]
  /\ dirty = {} /\ unrebuilt = {} /\ unmarked = {} /\ revived = {}
  /\ cmd = [p \in Processes |-> Idle]
  /\ commands = 0
  /\ winners = [i \in Issues |-> {}]

-----------------------------------------------------------------------------
(* The life of a command.                                                  *)

Start(p, c) ==
  /\ cmd[p] = Idle /\ commands < MaxCommands
  /\ commands' = commands + 1
  /\ cmd' = [cmd EXCEPT ![p] = c]

(* A command that is one transaction.                                      *)
Atomic(p) ==
  /\ cmd[p] = Idle /\ commands < MaxCommands
  /\ commands' = commands + 1
  /\ UNCHANGED cmd

Done(p) == cmd' = [cmd EXCEPT ![p] = Idle] /\ UNCHANGED commands

(* The transaction fails and is rolled back.                               *)
Rollback == UNCHANGED <<db, file, history>>

(* A process that dies before its only transaction might as well not have  *)
(* started; the delete command has several.                                *)
Crash(p) ==
  /\ cmd[p].op = "delete"
  /\ Done(p)
  /\ UNCHANGED <<db, file, history>>

-----------------------------------------------------------------------------
(* UpdateIssue: the old row is read, closed_at is derived from it, and the *)
(* fields are written by id whatever the row is by then.                   *)

Updates == [field: {"status"}, value: Live \cup {"closed"}]
             \cup [field: {"assignee"}, value: Processes \cup {""}]

UpdateRead(p) ==
  /\ \E i \in {j \in Issues : Resolves(j)}, u \in Updates :
       Start(p, [op |-> "update", id |-> i, old |-> row[i].status, set |-> u])
  /\ UNCHANGED <<db, file, history>>

(* manageClosedAt and the UPDATE.                                          *)
Updated(now, old, u) ==
  CASE u.field = "assignee" -> [now EXCEPT !.assignee = u.value]
    [] u.field = "status" /\ u.value = "closed" -> [now EXCEPT !.status = "closed", !.closedAt = TRUE]
    [] u.field = "status" /\ u.value # "closed" /\ old = "closed" ->
         [now EXCEPT !.status = u.value, !.closedAt = FALSE, !.reason = ""]
    [] OTHER -> [now EXCEPT !.status = u.value]

UpdateTx(p) ==
  /\ cmd[p].op = "update" /\ Done(p)
  /\ LET c == cmd[p]
         r == Updated(row[c.id], c.old, c.set)
     IN  IF Exists(c.id) /\ Allowed(r)
         THEN /\ row' = [row EXCEPT ![c.id] = r]
              /\ dirty' = dirty \cup {c.id}
              /\ IF c.set.field = "status"
                 THEN Rebuild(row', deps) /\ Revive({c.id})
                 ELSE NoRebuild /\ UNCHANGED revived
              /\ winners' = IF c.set.field = "assignee"
                            THEN [winners EXCEPT ![c.id] = {}] ELSE winners
              /\ UNCHANGED <<deps, file, unmarked>>
         ELSE Rollback

(* Mutant: the assignee is looked at when the claim starts only.           *)
ClaimableAnyway(i) == Exists(i)

(* ClaimIssue: compare-and-swap on an empty assignee.                      *)
Claimable(i) == Exists(i) /\ row[i].assignee = ""

ClaimRead(p) ==
  /\ \E i \in {j \in Issues : Resolves(j)} :
       Start(p, [op |-> "claim", id |-> i])
  /\ UNCHANGED <<db, file, history>>

ClaimTx(p) ==
  /\ cmd[p].op = "claim" /\ Done(p)
  /\ LET i == cmd[p].id
         r == [row[i] EXCEPT !.status = "in_progress", !.assignee = p]
     IN  IF Claimable(i) /\ Allowed(r)
         THEN /\ row' = [row EXCEPT ![i] = r]
              /\ dirty' = dirty \cup {i}
              /\ Rebuild(row', deps)
              /\ winners' = [winners EXCEPT ![i] = @ \cup {p}]
              /\ Revive({i})
              /\ UNCHANGED <<deps, file, unmarked>>
         ELSE Rollback

-----------------------------------------------------------------------------
(* Closing.                                                                *)

Blockers(i) ==
  {d \in deps : d.from = i /\ d.type = "blocks" /\ row[d.to].status \in Blocking}

(* The close command refuses a blocked issue unless forced.                *)
CloseCheck(p) ==
  /\ \E i \in {j \in Issues : Resolves(j)}, force \in BOOLEAN, r \in Reasons :
       /\ force \/ i \notin cache \/ Blockers(i) = {}
       /\ Start(p, [op |-> "close", id |-> i, reason |-> r])
  /\ UNCHANGED <<db, file, history>>

Tracked(rows) == {d.to : d \in {e \in deps : e.from = Convoy /\ e.type = "tracks"}}

(* The convoy tracks i, is not closed, and all it tracks is finished.      *)
ConvoyCompletes(i, rows) ==
  /\ i \in Tracked(rows)
  /\ rows[Convoy] # Absent /\ rows[Convoy].status # "closed"
  /\ \A t \in Tracked(rows) : rows[t] # Absent => Finished(t, rows)

Closed(r, reason) == [r EXCEPT !.status = "closed", !.closedAt = TRUE, !.reason = reason]

(* Mutant: no look at the rows affected.                                   *)
ClosableAlways(i) == TRUE

(* An update of no row is an error.                                        *)
Closable(i) == Exists(i)

(* The issue is closed, the cache rebuilt, and then a convoy closed.       *)
CloseTx(p) ==
  /\ cmd[p].op = "close" /\ Done(p)
  /\ LET i == cmd[p].id
         rows == [row EXCEPT ![i] = Closed(@, cmd[p].reason)]
     IN  IF ~Closable(i) THEN Rollback
         ELSE /\ cache' = Blocked(rows, deps)
              /\ IF ConvoyCompletes(i, rows)
                 THEN /\ row' = [rows EXCEPT ![Convoy] = Closed(@, "done")]
                      /\ dirty' = dirty \cup {i, Convoy}
                      /\ Revive({i, Convoy})
                      /\ unrebuilt' = {"CloseIssue"}
                 ELSE /\ row' = rows
                      /\ dirty' = dirty \cup {i}
                      /\ Revive({i})
                      /\ unrebuilt' = {}
              /\ UNCHANGED <<deps, file, unmarked, winners>>

-----------------------------------------------------------------------------
(* Dependencies.                                                           *)

(* Both issues are looked up before the transaction.                       *)
AddRead(p) ==
  /\ \E d \in Dependency :
       /\ d.type \in NewTypes /\ Sensible(d)
       /\ Resolves(d.from) /\ Resolves(d.to)
       /\ Start(p, [op |-> "add", dep |-> d])
  /\ UNCHANGED <<db, file, history>>

(* Mutants: only cycles of two; only cycles of one type.                   *)
ClosesCycleOfTwo(d) == d.type # "relates-to" /\ \E e \in deps : e.from = d.to /\ e.to = d.from
ClosesCycleOfType(d) == d.from \in Reachable(d.to, {e \in deps : e.type = d.type})

ClosesCycle(d) == d.type # "relates-to" /\ d.from \in Reachable(d.to, deps)

(* Mutant: only the source is marked dirty.                                *)
LinkableFrom(d) == Exists(d.from)

(* The foreign keys of the dependency (from) and of the dirty marks (both).*)
Linkable(d) == Exists(d.from) /\ Exists(d.to)

(* In the transaction: cycle, primary key, foreign keys.                   *)
AddTx(p) ==
  /\ cmd[p].op = "add" /\ Done(p)
  /\ LET d == cmd[p].dep
     IN  IF ClosesCycle(d) \/ d \in deps \/ ~Linkable(d)
         THEN Rollback
         ELSE /\ deps' = deps \cup {d}
              /\ dirty' = dirty \cup {d.from, d.to}
              /\ IF AffectsReadyWork(d.type) THEN Rebuild(row, deps') ELSE NoRebuild
              /\ UNCHANGED <<row, file, unmarked, winners, revived>>

(* RemoveDependency deletes the dependencies of every type between two     *)
(* issues; the type it looks at is one of theirs.                          *)
Between(i, j) == {d \in deps : d.from = i /\ d.to = j}

(* Mutant: only the target is marked dirty.                                *)
EndsTarget(i, j) == {j}

Ends(i, j) == {i, j}

RemoveDependency(i, j) ==
  IF Between(i, j) = {} \/ ~Exists(j)
  THEN Rollback
  ELSE /\ deps' = deps \ Between(i, j)
       /\ dirty' = dirty \cup Ends(i, j)
       /\ \E d \in Between(i, j) :
            IF AffectsReadyWork(d.type)
            THEN Rebuild(row, deps')
            ELSE /\ UNCHANGED cache
                 /\ unrebuilt' = IF \E e \in Between(i, j) : AffectsReadyWork(e.type)
                                 THEN unrebuilt \cup {"RemoveDependency"} ELSE unrebuilt
       /\ UNCHANGED <<row, file, unmarked, winners, revived>>

Remove(p) == Atomic(p) /\ \E i, j \in {k \in Issues : Resolves(k)} : RemoveDependency(i, j)

-----------------------------------------------------------------------------
(* Deleting.  The delete command for one issue removes the dependencies it *)
(* has read, outgoing ones first, each in a transaction of its own, and    *)
(* then makes the issue a tombstone.                                       *)

DeleteRead(p) ==
  /\ \E i \in {j \in Issues : Exists(j)} :
       Start(p, [op |-> "delete", id |-> i,
                 todo |-> {d \in deps : i \in {d.from, d.to} /\ Exists(d.from)}])
  /\ UNCHANGED <<db, file, history>>

DeleteUnlink(p) ==
  /\ cmd[p].op = "delete"
  /\ \E d \in cmd[p].todo :
       /\ d.from # cmd[p].id => \A e \in cmd[p].todo : e.from # cmd[p].id
       /\ RemoveDependency(d.from, d.to)
       /\ cmd' = [cmd EXCEPT ![p].todo = @ \ {d}]
  /\ UNCHANGED commands

DeleteTombstone(p) ==
  /\ cmd[p].op = "delete" /\ cmd[p].todo = {} /\ Done(p)
  /\ LET i == cmd[p].id
     IN  IF ~Exists(i) THEN Rollback
         ELSE /\ row' = [row EXCEPT ![i].status = "tombstone", ![i].closedAt = FALSE]
              /\ dirty' = dirty \cup {i}
              /\ Rebuild(row', deps)
              /\ UNCHANGED <<deps, file, unmarked, winners, revived>>

(* What depends on the issues of S, and on those, and so on.               *)
Dependents(S) == Spread(S, Inverted(deps), Cardinality(Issues))

Touching(S) == {d \in deps : d.from \in S \/ d.to \in S}

(* Dependents outside of S whose dependency on S goes.                     *)
Orphans(S) == {d.from : d \in Touching(S)} \ S

(* DeleteIssues of several issues or with --cascade.  Without either flag  *)
(* it is only a preview, which changes nothing.                            *)
DeleteBatch(p) ==
  /\ Atomic(p)
  /\ \E ids \in SUBSET {j \in Issues : Exists(j)}, cascade \in BOOLEAN :
       LET S == IF cascade THEN Dependents(ids) ELSE ids IN
       /\ Cardinality(ids) > (IF cascade THEN 0 ELSE 1)
       /\ deps' = deps \ Touching(S)
       /\ row' = [i \in Issues |-> IF i \in S /\ Exists(i)
                    THEN [row[i] EXCEPT !.status = "tombstone", !.closedAt = FALSE]
                    ELSE row[i]]
       /\ dirty' = dirty \cup S
       /\ Rebuild(row', deps')
       /\ unmarked' = unmarked \cup Orphans(S)
  /\ UNCHANGED <<file, winners, revived>>

(* DeleteIssue, the hard delete of maintenance commands: the dirty mark    *)
(* and the cache entry of the issue go with its row, dependents are marked.*)
DeleteIssue(p) ==
  /\ Atomic(p)
  /\ \E i \in {j \in Issues : Exists(j)} :
       /\ deps' = deps \ Touching({i})
       /\ row' = [row EXCEPT ![i] = Absent]
       /\ dirty' = (dirty \cup Orphans({i})) \ {i}
       /\ cache' = cache \ {i}
       /\ winners' = [winners EXCEPT ![i] = {}]
       /\ revived' = revived \ {i}
  /\ unrebuilt' = unrebuilt \cup {"DeleteIssue"}
  /\ UNCHANGED <<file, unmarked>>

(* CreateIssue with an explicit id, also over a tombstone, which goes with *)
(* its dependencies.                                                       *)
CreateIssue(p) ==
  /\ Atomic(p)
  /\ \E i \in {j \in Issues : ~Resolves(j)} :
       /\ row' = [row EXCEPT ![i] = NewRow]
       /\ deps' = deps \ Touching({i})
       /\ cache' = cache \ {i}
       /\ dirty' = dirty \cup {i}
       /\ unmarked' = unmarked \cup Orphans({i})
       /\ winners' = [winners EXCEPT ![i] = {}]
       /\ revived' = revived \ {i}
       /\ unrebuilt' = IF Exists(i) THEN unrebuilt \cup {"CreateIssue"} ELSE unrebuilt
  /\ UNCHANGED file

-----------------------------------------------------------------------------
(* Export of the dirty issues, in one step: its own steps are AutoSync's.  *)
Export ==
  /\ dirty # {}
  /\ file' = [i \in Issues |-> IF i \in dirty THEN Line(i) ELSE file[i]]
  /\ dirty' = {}
  /\ unmarked' = unmarked \ dirty
  /\ UNCHANGED <<row, deps, cache, cmd, commands, unrebuilt, winners, revived>>

Command(p) ==
  \/ UpdateRead(p) \/ UpdateTx(p) \/ ClaimRead(p) \/ ClaimTx(p)
  \/ CloseCheck(p) \/ CloseTx(p) \/ AddRead(p) \/ AddTx(p) \/ Remove(p)
  \/ DeleteRead(p) \/ DeleteUnlink(p) \/ DeleteTombstone(p)
  \/ DeleteBatch(p) \/ DeleteIssue(p) \/ CreateIssue(p) \/ Crash(p)

Next == Export \/ \E p \in Processes : Command(p)

Spec == Init /\ [][Next]_vars

-----------------------------------------------------------------------------
TypeOK ==
  /\ row \in [Issues -> Row \cup {Absent}]
  /\ deps \subseteq Dependency
  /\ cache \subseteq Issues /\ dirty \subseteq Issues /\ unmarked \subseteq Issues
  /\ file \in [Issues -> [row: Row \cup {Absent}, deps: SUBSET Dependency]]
  /\ commands \in 0..MaxCommands
  /\ unrebuilt \subseteq {"CloseIssue", "RemoveDependency", "DeleteIssue", "CreateIssue"}
  /\ winners \in [Issues -> SUBSET Processes] /\ revived \subseteq Issues

(* The cache is what its definition says, unless one of the four writers   *)
(* that change blocking and do not rebuild it ran since it was rebuilt.    *)
CacheExact == unrebuilt = {} => cache = Blocked(row, deps)

(* A cache that is always exact is what blocked_cache.go promises.         *)
CacheNeverInconsistent == cache = Blocked(row, deps)

(* No cycle among the dependencies other than relates-to, though commands  *)
(* add them concurrently.                                                  *)
Acyclic == AcyclicIn(deps)

(* What cycles must not do: as long as blocks and parent-child are the     *)
(* only blocking types in use, not everything that is open is blocked.     *)
SomethingReady ==
  (\A d \in deps : d.type \notin {"conditional-blocks", "waits-for", "waits-for-any"})
  => LET open == {i \in Issues : row[i].status \in Live}
     IN  open # {} => ~(open \subseteq Blocked(row, deps))

(* Both ends of a dependency exist, although they are looked up before the *)
(* transaction that adds it.                                               *)
EdgesJoinIssues == \A d \in deps : Exists(d.from) /\ Exists(d.to)

(* An issue whose line in the file is out of date is marked dirty, or lost *)
(* a dependency when the issue depended upon was deleted or re-created.    *)
ChangedLineIsDirty ==
  \A i \in Issues \ (dirty \cup unmarked) : Exists(i) => file[i] = Line(i)

(* Of several processes that claim an issue one is told it has it, and the *)
(* row says the same until somebody assigns it anew.                       *)
ClaimExclusive ==
  \A i \in Issues : \A p, q \in winners[i] : p = q /\ row[i].assignee = p

(* A live issue has no close reason left over, however stale the row was   *)
(* that an update or a claim started from: the schema's CHECK refuses what *)
(* manageClosedAt derived from a row that has changed since.               *)
NoReasonWhileOpen ==
  \A i \in Issues \ revived : row[i].status \in Live => row[i].reason = ""
=============================================================================
