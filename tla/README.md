# A verification project for binds

binds is a local-first issue tracker for coding agents: every repository has a
SQLite database (`.binds/beads.db`) and a text copy of its issues in
`.binds/issues.jsonl`, which git carries between clones. Beside it,
`binds serve` is an HTTP server through which agents coordinate: identities,
mail, rooms, presence, reservations of files, checkpoints and an index of the
issues of many repositories.

The modules here are written from the Go code under `src/`. TLC checks them on
small instances; the theorems are proved with TLAPS for every value of the
constants. `PROJECT.json` lists the components, the runs, the source lines of
every definition, the hazards, the findings and the theorems.

## 1. Inventory

| component | state | operations | what is hard |
|---|---|---|---|
| Auto-flush event loop `cmd/binds/flush_manager.go` | dirty and full-export flags, debounce timer, four buffered channels, context, `sync.Once` | MarkDirty, FlushNow, Shutdown, timer, `run()` | `select` over ready channels in any order, late timers, callers racing shutdown, failing exports |
| Auto-import and auto-flush `cmd/binds/autoflush.go`, `internal/importer` | database rows, the file, the dirty table, two remembered hashes, export hashes | import before a command, incremental or full export after it, bookkeeping; matching lines with issues by reference, content and ID | several processes without a common lock, crash between rename and bookkeeping, git replacing the file at any time, rows that change under maps read once |
| Issue store `internal/storage/sqlite` (`queries.go`, `transaction.go`) | issues, events, dirty table | create, update, claim, close, rename, tombstone, delete | reads and time stamps taken before the transaction that uses them |
| Dependencies, ready work, blocked cache (`dependencies.go`, `ready.go`, `blocked_cache.go`) | dependency graph, cache table | add, remove, ready, newly unblocked | cache against graph, cycle check outside the insert |
| Explicit sync (`sync.go`, `sync_export.go`, `sync_import.go`, `sync_git.go`, `jsonl_lock.go`) | lock file, the listed issues, HEAD, the remote branch | pull, hook, import, export, bookkeeping, commit, push | commands and flushes beside a sync, pulls that are refused, pushes that are rejected, death between two steps, old lines that win |
| Coordination server `internal/server` (`server.go`, `store.go`) | agents, messages, aliases, rooms, reservations, checkpoints, issue index | HTTP handlers, presence reaper | check-then-act over separate statements, concurrent handlers, expiry |
| WebSocket hub `internal/server/ws.go` | registered clients, one buffered channel and two goroutines for each | broadcast, register, unregister, read loop, write loop | broadcasts that overlap with connections ending, peers that never read, channels closed while others send |
| JSONL merge driver `internal/merge` | none (pure) | three-way merge | agreement with a declarative definition |
| Legacy RPC, memory store, sync branch, formulas, queries, migrations, doctor, setup, configuration, ui | see `PROJECT.json` | | not modelled, with the reason in `PROJECT.json` |

How they interact: a command's `PersistentPreRun` opens the database, starts the
event loop and imports the file if its hash is not the remembered one; its body
commits transactions, each of which marks issues dirty in the same transaction,
and calls MarkDirty; the loop's goroutine calls `flushToJSONLWithState`, which
reads the database and the file and replaces the file; `PersistentPostRun` calls
Shutdown, which flushes once more and waits, and closes the store. Processes
share the database (with SQLite's locking) and the file (with a lock that
auto-flush does not take). Git changes the file behind everybody's back.
`binds sync` pulls, exports the whole database over the pulled file under an
exclusive lock that only auto-import heeds, commits and pushes; git calls the
merge driver `binds merge` for a file that both sides changed, and a post-merge
hook that imports.
A handler of the coordination server changes its database and then calls the
hub's Broadcast on its own goroutine; the hub reaches the clients through their
channels only.

What makes each component correct: the loop loses no mark it received, can
always be woken for dirty data, answers every caller, and outlives neither its
store nor its context; the pair import/flush never replaces a newer state by an
older one, keeps what the file lacks marked dirty, and remembers a hash only of
what is in the database; a sync never undoes on the remote what its clone has
not seen, and a clone with nothing left to do is up to date; the issue store keeps content, tombstones and dirty
marks together; the blocked cache equals its definition; the server grants no
conflicting reservations and delivers what it accepted; the hub never panics,
never makes a request wait for a slow client, tells everybody who should know
in the right order, and lets go of dead connections.

## 2. Modules

| module | models | lines of code it stands for |
|---|---|---|
| `AutoFlush` | the abstract promise of auto-flush: marks are received, exports are attempted, the manager stops only when nothing is pending | the contract in `flush_manager.go`'s comments |
| `FlushManager` | the event loop, goroutine by goroutine | `flush_manager.go`, the end of `PersistentPostRun` |
| `MCFlushManager` | instances for TLC, and the refinement `ImplementsAutoFlush` | |
| `FlushManagerProofs` | the theorems about `FlushManager` | |
| `AutoSync` | processes over one database and one file | `autoflush.go`, `importer.go`, `main.go`, the writes and the dirty table of `internal/storage/sqlite` |
| `Replica` | the abstract promise of a clone: a set of issues that commands write and pulls bring up to date, with neither database nor file | what the import and the export are for (`docs/SYNC.md`) |
| `MCAutoSync` | instances for TLC | |
| `AutoSyncProofs` | the theorems about `AutoSync` | |
| `ImportRules` | how the importer matches the lines of a file with the issues of a clone | `importer.go`, `import_tx.go`, `transaction.go` |
| `MCImportRules` | an instance for TLC | |
| `ImportRulesProofs` | the theorems about `ImportRules` | |
| `Reach` | pure: what a recursive query reaches in so many steps | the `WITH RECURSIVE` queries of `dependencies.go` and `blocked_cache.go`, the search of the deletion cascade (`queries.go`) |
| `ReachProofs` | lemmas about `Reach`, for any relation | |
| `IssueStore` | issues, dependencies, the blocked cache and dirty marks under concurrent commands; EXTENDS `Reach` | `queries.go`, `dependencies.go`, `blocked_cache.go`, `dirty.go`, the close and delete commands |
| `MCIssueStore` | instances for TLC | |
| `IssueStoreProofs` | the theorems about `IssueStore` | |
| `JSONLMerge` | pure: one line of the file in the merge driver and in the importer | `internal/merge`, `importer.go` |
| `GitSync` | clones that sync through one remote; EXTENDS `JSONLMerge` | `sync*.go`, `import.go`, `autoflush.go` |
| `MCGitSync` | instances for TLC | |
| `GitSyncProofs` | the theorems about `GitSync` | |
| `CoordServer` | agents, tokens, presence, reservations | `server.go`, `store.go` |
| `MCCoordServer` | an instance for TLC | |
| `CoordServerProofs` | the theorems about `CoordServer` | |
| `Hub` | WebSocket clients and broadcasts | `ws.go` |
| `MCHub` | instances for TLC | |
| `HubProofs` | the theorems about `Hub` | |

### FlushManager

`markDirtyCh`, `flushNowCh` and `shutdownCh` are sequences bounded by their
buffers, `timerFiredCh` has one slot and no data, so it is a Boolean. A response
channel is its caller's membership of `answered`. `select` is the
disjunction of the branches that are ready. A debounce timer is running
(`armed`) or has expired and not yet notified (`firing` counts those, since a
replaced timer may already have expired: `Stop` does not recall it). The
database and the file are numbers: how many writes were committed, and how many
of them the last successful export read. `seen`, `covered` and their `full`
twins are history variables, and only properties read them. `Export` is the whole
of `performFlush` and of what its branch does after it; a failed export goes on
as a successful one does, because `performFlush` returns nothing.

The dead branches (the timeout of Shutdown, `ctx.Done()` in `run`, the inactive
store in `performFlush`) are not modelled; `TimeoutIsDead` and `LoopEndsFirst`
prove that what they wait for does not happen.

### AutoSync

One action is one step between two points where another process, or git, can
come in: reading the file, the import transaction, storing the hash, resolving
the issue, the command's transaction, and ten steps of the flush. An issue's
state is the time of its content, its `updated_at` and whether it is a tombstone;
the hash of a file is its content, since only equality of hashes is ever used.
A missing or an empty file is the file without lines. `Crash` is a
process that dies, or leaves through `os.Exit`, at any point. `Overtake` is the
exit of a healthy command whose mark Shutdown overtakes, which `FlushManager` shows to
be possible: the command leaves without a flush, and its issue stays marked.
Whether anything may fail or die is chosen once, at the start (`frail`), so that
one run speaks of worlds with failures and of worlds without.

### ImportRules

AutoSync knows an issue by its ID; the importer also matches by external reference
and by content hash. In ImportRules a clone's database maps IDs to a content, the
time of the last change and the hash that is stored with the row, which deleting an issue
leaves at the hash of the live content, as `CreateTombstone` does. An import is one
transaction: `BeginImport` reads the issues (`before` is what `dbByHash`,
`dbByExternalRef` and `dbByID` hold), and each line is then an action,
one for each phase of `upsertIssuesTx`, with the three cases of `handleRenameTx`;
`Insert` creates the new issues at the end. Where the hash of a line is that of
several issues the map keeps the last one read, which is any of them. Guards that fail in an
action are errors of the importer: an import that no action can continue is one
that is rolled back. `NeverFails` says that this does not happen, in terms of
the guards: TLC has compared it with `ENABLED Import(c)` on the instance of the
run, and in this form it can be proved. Clones
exchange the file as git would, replacing what they have only.

### IssueStore

A process runs one command: it resolves its issues, reads what the Go code reads
before it begins a transaction (`UpdateRead`, `ClaimRead`, `CloseCheck`, `AddRead`,
`DeleteRead`), and later runs the transaction on what is then in the database.
SQLite serialises the transactions (`BEGIN IMMEDIATE`), so each is one action; the
delete command is the exception, with a transaction for each dependency it removes
and one for the tombstone. A dependency is a pair of issues and one of the seven
types the code treats differently. `Blocks` is the recursive SQL query as a
definition: an open blocker, a waits-for gate, and the children of a blocked parent.
Its recursion, and that of the cycle check, is `Spread` of module `Reach`, a
recursive function bounded by the depth that the query states.
`cache` is what the table holds; every writer either ends with `Rebuild` or with
`NoRebuild`, as in the code. `CacheExact` speaks of the writers that rebuild;
run `blocked_cache_stale` admits the others.

### JSONLMerge and GitSync

A line is a title (named by the time it was written), a status, the time of that
status and `updated_at`. `MergeLine` is what the driver makes of three states of an
issue, `Upsert` what the importer makes of a line and a row. In GitSync a clone has
its database, its file, the two remembered hashes (as the content they stand
for) and HEAD. Each step of a sync between two points where another process, or a
crash, can come in is an action, and so is each part of a command that edits an issue:
its import (`Start`), its transaction (`Write`), and its flush (`FlushEdit`), or its
end without one (`Quit`). Such a command also runs beside a sync of the same clone
(`Beside`), which may pull, import, export, commit or push between its parts. One
import, and one flush with its bookkeeping, is one step: AutoSync takes these apart, and
the races inside them (the late rename, `autoflush.go:955`; the hash that is read again,
`autoflush.go:820`) are there and not here. A command's time is that of its write, and it
is over before its timer. `binds sync` reports a failed pull as a warning and goes on;
`sync --pull` ends. git's behaviour (fast-forward, merge, refusal over an uncommitted
file, rejected push) is external.

`Timer` says whether the debounce timer of the sync's own process may flush before
its end. `RemoteKeepsNewest` holds with it and with commands beside a sync because it
excepts what they do: a file that was pulled and not yet imported (`Unread`) is
written over in full, remembered, and therefore never imported, and the next push takes the
pulled line back. The history variable `overwritten` holds the issues of which a
line was lost so; only properties read it. It also excepts deleted issues. Section 4
proves the property for two clones, and that nothing is overwritten
where everybody imports before it writes. With three clones it is false.

### CoordServer

The store has one database connection, so each SQL statement is atomic and nothing
larger is. A request is what its handler has still to do (`req`): look a name up
and then insert or update its row; check patterns and then insert reservations one
by one; authenticate and then write. The
properties say what the code guarantees although lookups and writes are not
atomic: `upto` in a request is the number of the last reservation, or token, when it
looked, so that a conflict between two requests that did *not* race is visible.
`Matches` is `filepath.Match` for a set of patterns and is left open: nothing
in the properties depends on which patterns match.

### Hub

Every goroutine has its place: `posting` and `todo` are the event and the rest
of the `range` loop of a handler inside Broadcast, which is also what holds the
read lock; `handler` is where `handleWebSocket` is, `writer` where its writing
goroutine is. Register and Unregister are one action each, since they take and
release the write lock without touching anything else; the lock is free for them
when no poster is inside Broadcast. A poster is the goroutine of one API
connection, which serves its requests in turn; events are numbered per poster.
A connection is open until the peer leaves or the writer closes it; what the
library does inside Read, Write and Close is not modelled beyond that. `lost`
records events dropped at full buffers, `delivered` what was written; only
properties read them. `register` reads `len(h.clients)` for a log line after it
has released the lock, a data race without influence on the state modelled.

## 3. Runs

Passing runs:

| run | instance | shows |
|---|---|---|
| `flush` | 2 goroutines, 2 writes, mark buffer of 1, full and incremental marks, exports that fail, fair | the type invariant, `NoReceivedMarkLost`, `DirtyHasWakeup`, `NothingAfterExit`, `RequestsAccountedFor`, `ShutdownReturns`, `MarkDirtyReturns`, and that the loop implements `AutoFlush` with its fairness |
| `sync_one_process` | 1 process, 2 issues, create, edit, status and read-only commands, clock to 4, pulls between commands, with failing exports and crashes anywhere or without any, fair | the type invariant, `UnexportedIsDirty`, `HashIsHonest`, `CommitsReachTheFile`, and that the clone implements `Replica` (`ImplementsReplica`) |
| `sync_two_processes` | 2 processes, 1 issue, edit, status and delete, clock to 3, pulls and flushes at any moment, skipped imports, crashes | `OnlyLateCommitsRegress`, `ImportNeverResurrects` |
| `import_rules` | 2 clones, 2 IDs, 2 titles, 1 external reference, 5 commands and 8 clock ticks in all, imports of the newest and of old files | `NeverFails`, `NothingUndone` |
| `issue_store` | 2 processes, 3 issues, all dependency types, crashes | `CacheExact`, `Acyclic`, `SomethingReady`, `EdgesJoinIssues`, `ChangedLineIsDirty`, `ClaimExclusive`, `NoReasonWhileOpen` |
| `git_sync` | 2 clones, 1 issue, title and close, commands beside a sync, the timer of the sync's own process, clock to 3, pulls that are refused, death before the import | `SettledIsCurrent`, `RemoteKeepsNewest` |
| `coord_server` | 2 clients, 1 agent name and the local token, a directory pattern and a file in it, 3 tokens, 2 reservations, fair | `NoConflictUnlessRaced`, `TokenWorksUnlessRaced`, `SilentGoesOffline` |
| `hub_safety` | 2 clients of 2 agents, 2 posters with 2 and 1 events for everyone or for one agent, buffers of 2 | `NoSendOnClosed`, `EventsInOrder`, `AudienceServed` |
| `hub_liveness` | 2 clients, 1 poster with 2 events, buffers of 1, fair | `BroadcastReturns`, `StuckPeerDropped`, `WriterEnds` |

Each violation run checks one sentence of the documentation, of a comment or of
a test that the code does not keep; `PROJECT.json` quotes it:

| run | the code |
|---|---|
| `blocked_cache_stale` | a hard delete, the removal of two dependencies between the same issues, and a close that completes a convoy leave the blocked cache stale |
| `import_resurrects` | a line with another ID and the external reference of a tombstone is an update of the tombstone, which is live again |
| `git_sync_lost` | two clones edit different fields: the merged line has the `updated_at` of the later edit, so the importer of that clone ignores it and the export overwrites it |

Other disagreements met while modelling. They have no run of their own; the
properties above are stated so as to leave them out, or the constants named here
exclude them:

- A shutdown request may overtake a mark still in its channel; the write is then
  exported by the next command's flush and not "before the command exits"
  (`autoflush.go:474`, `flush_manager.go:258`). `NoReceivedMarkLost` and
  `AutoFlush` speak of marks received. AutoSync has this exit as `Overtake`, and
  `CommitsReachTheFile` states it as its one exception: the issue is then still marked
  dirty, and a flush that starts later writes it.
- A FlushNow request that reaches the channel of a loop that has left waits for ever
  (`flush_manager.go:143`); no command calls FlushNow while it shuts down.
- `delete` as first command after a pull does not import, and its flush overwrites
  what was pulled (`main.go:718`). `sync_one_process` has no delete.
- Two auto-flushes at once: the later rename puts back the other's older line
  (`autoflush.go:955`).
- A flush that comes between a sync's pull and its import takes the pulled file for
  a mismatch, exports the database over it and remembers the result
  (`autoflush.go:567`, `899-979`), so that the import finds nothing
  (`sync.go:82`) and the next push takes the pulled lines back: the flush of a command
  that imported before the pull (`main.go:718`, `sync.go:78`), or that of the sync's own
  timer (`Timer`). `RemoteKeepsNewest` excepts it (`overwritten`).
- The importer leaves a row alone whose content is that of the line, so that a
  merged line's later `updated_at` does not reach the database
  (`importer.go:989`), and the next export gives the line the row's older time. With
  three clones this undoes an edit: two of them merge the third's line into their own,
  with content their rows already have; one exports its row and pushes, the other died
  before its export, and its next pull merges its merged line, which wins by
  the time it kept, over a newer title. The attempt to prove
  `RemoteKeepsNewest` for any number of clones showed this.
- A full export by auto-flush, which every flush is that follows a pull, drops the
  lines of tombstones (`autoflush.go:986`), against `docs/DELETIONS.md:11`.
  GitSync's properties exempt deleted issues.
- After a push that was rejected or failed, a sync with nothing to commit says
  "Sync complete (nothing to push)" though HEAD is ahead (`sync.go:149`);
  `docs/CLI_REFERENCE.md:862` promises more.
- The merge driver keeps a fresh tombstone whatever the other side did
  (`merge.go:415`, `MergeKeepsTombstones`), and drops an issue that one side
  modified and the other no longer has (`merge.go:480`); `docs/SYNC.md:65` says of
  both cases "we keep the modification".
- On equal `updated_at` the merge driver keeps our side (`merge.go:757`), where
  `docs/SYNC.md:105` says that remote wins, so that the result depends on which
  clone merges (`MergeCommutes` excepts ties). No two edits of GitSync are at the same
  time.
- An edit that commits between the listing and the bookkeeping of a sync's export
  loses its dirty mark (`sync_export.go:86`); its own flush usually has written it
  by then, over which the sync's rename then comes.
- The importer matches a line by hash with issues as they were before the import,
  and with tombstones by the hash of their live content (`importer.go:987`). So
  the update of an issue is lost to this clone when another line of the file has
  the content that the issue had (the issue is deleted again as the old half
  of a rename); an edit that makes an issue equal to a deleted one is taken
  for a line of the deleted one and dropped; a live line with a tombstone's former
  content and a new ID deletes the tombstone; and of two issues with the same content one
  is skipped, or replaced by the other. What is lost is in the file
  only, until the next export. `NothingUndone` speaks of what the clone had: its
  third alternative is content that now lives under another ID.
- Two registrations that race to reinstate a name both succeed; the token answered
  first is dead. Reservations of overlapping globs neither of which matches the
  other as a name do not conflict (`store.go:785`).

What the passing runs leave out is as telling. `ShutdownReturns` holds only of
exports that return, which is part of the fairness assumed: the 30s timeout of
Shutdown guards a send that is always ready, so an export that blocks for ever
blocks the command. `ImplementsReplica` holds of the clone only if no import is
skipped (`MaySkipImport = FALSE`): a command that goes on without its import
overwrites the file with its own flush, and remembers it as imported. Likewise
with two processes, pulls while a command runs, or a `delete`, TLC finds an issue
that goes back to what it said before; a debounce timer that expires in the
middle of a command does no harm. `UnexportedIsDirty` holds of one process at a time: of two, one
may clear the dirty mark of what the other has committed since the issue was
read for export.

Bounds. In FlushManager two writes let one mark be in the channel while another
is held, and let a full mark precede an incremental one; two goroutines suffice
for every pair of calls to race; a mark buffer of one makes MarkDirty block,
which a buffer of ten does after nine more marks. In AutoSync two issues are
what an incremental export has to keep apart, exported and untouched; one issue
is enough for two processes to conflict. The clock bound allows a remote edit, a
pull, an import and an own write. In ImportRules two IDs, and a title that both may have,
reach all phases and all three cases of a rename; the same properties were also checked
with three clones, with three IDs, and with titles that are never used twice. Every bound is a constant of the module and is
tested in the guards of the actions that start something (`Write`,
`RemoteEdit`, `Start`), so that whatever has started can finish.
In IssueStore three issues allow a cycle over two commands and a blocker that acts
through a parent. In GitSync two clones are what one remote needs to reject a push; the
clock allows the other clone's edit and one of the own clone, of one issue,
on either side of a pull, which is what one command needs to overwrite another's line.
A sync that dies before its import leaves the next one an import to flush, for the
timer.
The same properties were also checked, in longer runs, with death before the
bookkeeping too (8.5 million states), with one issue, every crash point, a failing
network, `delete` and `cleanup` (66 million states), and with two issues, `create`
and `delete` (21 million); the theorems of section 4 cover all of these. In
CoordServer three tokens are an original, and two registrations that race; two reservations conflict.
In Hub two posters overlap inside the read lock, the second event of one follows
its first, a buffer of two can be reordered and, with a writer that does not
read, three events overflow it; for liveness two events fill a buffer of one.
Deadlock is not checked: a finished command, a server without clients and requests,
and clones whose clock has reached its bound are states without steps.

Symmetry is used in `sync_two_processes`, whose properties are safety properties
that name no process.

Fairness. A goroutine or process that can go on does (weak fairness on
`Proceed`, the timer steps, `Export`, `Command`, `Flush`). `select` chooses
uniformly at random among ready branches, so a branch that is ready again and
again is chosen with probability one: strong fairness on the four branches.
No fairness makes a client call anything, git pull or an import
be skipped; that an export returns is assumed. In CoordServer only the reaper's ticker and the passing of time are fair; no client
need ever send another request, nor finish one.
In Hub every goroutine of the server that can go on does; a write
ends because of its 10s timeout, but nothing makes it succeed. Register and
Unregister get strong fairness: a writer waiting for an RWMutex keeps new readers
out, so it is not starved by broadcasts that come and go.

## 4. Proofs

`FlushManagerProofs` proves about `FlushManager`, for any non-empty set of
clients, any positive buffer size, any bound on writes and any choice of the
flags:

- `TypeCorrect`: `Spec => []TypeOK`;
- `ReceivedMarksKept`, `WakeupPending`, `LoopEndsFirst`, `TimeoutIsDead`: the
  invariants of the same meaning;
- `NoRequestLost`: the invariant `RequestsAccountedFor`;
- `FileMonotonic`: the action property `FileOnlyAdvances` (this and
  `ShutdownSendReady`, which `TimeoutIsDead` states, are proved only, in no run);
- `Implements`: `Spec` implements the safety part of `AutoFlush`.

The argument is one inductive invariant, `IInv`. The properties are not
inductive as they stand: that the store closes only after the loop has ended
needs to know that a closing Main comes from a Shutdown that returned, that this
caller was the only one to hold the `once`, and hence that its request was
the only one ever in `shutdownCh`; that marks are kept needs that what the loop
has seen was committed, that the file is never ahead of the exports, and which
flags a loop that is flushing holds. `IInv` conjoins these facts, and each is
proved preserved in a lemma of its own, with one step per action that
can disturb it and one frame step for all others. TLC has checked `IInv`'s parts
on the instances above. The assumption used is `FlushManagerAssumption`, which
only says that the constants have their types, that Main is a client, and that
the two internal names are not clients.

`HubProofs` proves about `Hub`, for any connections, agents, posters, targets,
buffer size and number of events (`HubAssumption`: the constants have their
types, and no agent is called what stands for everyone):

- `TypeCorrect`: `Spec => []TypeOK`;
- `NoPanic`, `Order`, `Audience`: the invariants `NoSendOnClosed`,
  `EventsInOrder` and `AudienceServed`.

Again there is one inductive invariant. `Locking` says who is registered and
that only a poster inside Broadcast has clients ahead of it, so that the `todo` of
a broadcast stays within the registered clients: this gives `NoPanic`. `Numbering`
bounds the numbers of the events a client holds by those its posters have reached,
which is what keeps the queues in order when an event is added. `Served` is
`AudienceServed` for the set of events a client holds. Lemmas about sequences say
what the actions do to that set and to order; the properties, which speak of one
stream, follow from its three parts by `ElemsConcat` and `OrderedConcat`.

`CoordServerProofs` proves about `CoordServer`, for any names, clients, patterns,
relation `Matches` and bounds (`CoordServerAssumption`: the constants have their
types):

- `TypeCorrect`: `Spec => []TypeOK`, with the fact in it that a revoked agent
  is never online, however late a heartbeat comes;
- `NoConflict`, `TokenWorks`: the invariants `NoConflictUnlessRaced` and
  `TokenWorksUnlessRaced`.

The inductive invariant has three parts beside the types. `Numbering`: tokens and
reservations are numbered in the order they were given out, and no request has
seen a number that was not. `Looked`: while a registration is between its lookup and its
write, every token of its name that had been given out when it looked is spent
(revoked, or superseded by a registration that raced), since a name that has a
working token is refused at the lookup. `Checked`: no reservation of another
holder that existed when a request checked clashes with the patterns
it has still to insert.
The properties follow because a conflict, or a token that died without a
revocation, then needs two requests of which each had looked before the other wrote.

`IssueStoreProofs` proves about `IssueStore`, for any issues, processes, numbers of
commands and depth limit (`IssueStoreAssumption`):

- `TypeCorrect`: `Spec => []TypeOK`;
- `CacheIsExact`, `NeverCyclic`, `DependenciesJoin`, `ChangesAreMarked`,
  `ClaimsExclude`, `NoReasonLeft`: the invariants `CacheExact`, `Acyclic`,
  `EdgesJoinIssues`, `ChangedLineIsDirty`, `ClaimExclusive`, `NoReasonWhileOpen`;
- `AlwaysSomethingReady`: `SomethingReady`, for no more issues than the depth limit.
  The hypothesis is the code's own limit: a longer chain of
  parents and blockers escapes the depth of the queries.

`IInv` conjoins these, what a command has read (`Typed`) and the schema's CHECK on
every row (`Reasoned`). `CacheExact` is hard where a writer does *not* rebuild:
the proof shows of each such writer that what it changes (an
assignee, a new issue, a dependency of a type without effect) cannot change what
is blocked. `Acyclic` is hard because the check sees a bounded number of steps:
`NeverCyclic` takes a cycle that the new dependency would close apart at that
dependency and gives the check the path that is left. Both rest on
`ReachProofs`, lemmas about `Spread` for every relation and depth: it is
monotonic, composes, decomposes at a pair, and settles on a finite set within
as many steps as the set has elements. They need induction over the natural
numbers; since the library's induction theorem cannot be
instantiated, `Induction` derives it for *sets* of naturals from
`LeastNumber`, and `SpreadsExist` shows that the recursive function exists.

`AutoSyncProofs` proves about `AutoSync`, for any issues and bounds:

- for any number of processes, whatever dies, fails or runs at once: `TypeCorrect`,
  and the action properties `ImportsMoveForward` (`OnlyLateCommitsRegress`) and
  `TombstonesStay` (`ImportNeverResurrects`);
- for commands one after the other and no timer (`OneAtATime`):
  `UnexportedMarked` (`UnexportedIsDirty`);
- for commands one after the other that import first, where git waits for them
  (`ImportsFirst`), with a timer or without: `HashHonest` (`HashIsHonest`),
  `NewestSurvives` (the action property `NothingLost`, proved only, in no run), and
  the refinement `ImplementsClone` (`ImplementsReplica`).

The hypotheses are those of the runs, and TLC has shown each to be needed:
without it the property is violated (for `UnexportedIsDirty` two processes,
or a timer; for the others two processes, pulls at any moment, skipped imports, or `delete`,
of which the last two refute `HashIsHonest` only where something may fail). Crashes and failures at every step are
within them. The first group rests on `AnyNumber`: no time stamp is ahead of the clock,
and the target of a `create` is an issue that nobody else has. `Covered` says what a flush
under way holds: an issue that it has taken care of has a line as new as its row, or is
still marked. `Keeping` says when the database has nothing older than the file:
whenever it remembers the file's hash, and in every place after the import.

The refinement maps an issue to the newer of its row and its line, without the date (an
import dates a row anew, so the date is not what users or clones see). A commit maps to
`Write`, since from the import on no line is newer than its row; a pull to `Pull`, of
the issues whose edit is later than both; another clone's edit to `Arrive`; the import's
transaction to a stutter, for the reason that what it takes from the file was already what
the issue said (`ImportIsInvisible`), and so does the flush's rename
(`WriteIsInvisible`). `Shapes` adds to `Keeping` what the dates say about the content: an
edit is never imported before it was made. `Replica.Pull` may pass over
an edit in favour of an earlier one, since the row's date may be that of its import;
the theorem leaves this weakness of the code visible in the abstract specification.
GitSync takes one import and one flush as one step each; this theorem is why it may, for
commands one after the other.

`ImportRulesProofs` proves about `ImportRules`, for any clones, IDs, contents and
files, old or new:

- `TypeCorrect`, in which is the unique index: no two issues of a database
  get one external reference;
- `ImportsTakeNothingBack`: `NothingUndone`;
- `ImportsGoThrough`: `NeverFails`.

The lines of a file are applied one at a time to a database that earlier ones have
changed, while the maps stay as they were read; so an invariant of a half-done import
is needed. `Careful` follows each issue that was read: it keeps its content or
has that of a newer line, or its content is under the ID of another line and no line
to come will replace it; and what was taken away is matched by no line to come.
`Orderly` adds where references and IDs are: a reference belongs to the issue
that had it when the issues were read, or else to that of the line with it; and the IDs of the
lines to come are those that were read, or free.

`GitSyncProofs` proves about `GitSync`, for any issues, commands and edits, wherever a
sync dies and however often git fails:

- `TypeCorrect`, with the fact in it that a sync past its bookkeeping holds no
  lock and owes no flush;
- `SettledCurrent`: the invariant `SettledIsCurrent`, for any number of clones, with
  the timer and with `delete`;
- `PushesKeepNewest`: the action property `RemoteKeepsNewest`, for two clones
  (`AtMostTwo`), with commands beside a sync, the timer, `delete`, and clones without a
  hook: whatever a push undoes was deleted, or overwritten unread;
- `NothingOverwritten`: nothing ever is, for any number of clones, under
  `ImportsFirst`: no command beside a sync, no timer, no `delete`, and a clone that
  runs plain `binds sync` has the post-merge hook. TLC has shown each of the four to be
  needed. `ImportsFirstKeepNewest` puts the two together: for two such clones a push
  undoes nothing that is not deleted;
- about the merge driver alone, for every base and sides: `MergeCommutes` (the result
  does not depend on who merges, but for ties), `MergeIdempotent`,
  `MergeKeepsTombstones`, and `MergeTakesTheEdit`: what one side has edited on
  (`Succeeds`, which by `EditSucceeds` every edit does) is the merge, when the other side
  did nothing.

`SettledCurrent` compares a row with a line by what the importer made of it
(`Seen`): the row has the line's content, or is not older, or is a tombstone. That
nothing of the same time differs needs `Unique`: what was written by edits at one
time is one line. For
`PushesKeepNewest` each clone's row, file, listing and HEAD is related to the last line
both had (`base`) and to the remote's: a HEAD, a row that has seen its file, and what
goes out undo nothing of the base, and the row has seen HEAD unless HEAD is the file
(`Kept`); copies are no newer than their origin (`Ordered`); and what is
about to be pushed undoes nothing of a remote that has not moved (`Leads`).
A sync may list a database that has not read the file; its export then overwrites the
file, unless a flush makes file and row agree before (`Waits`). `Minds` is what an import, a
write or a flush owes an issue that it does not overwrite.
The heart is `MergeKeeps`, about `MergeLine`: it uses that with two
clones the remote, where it is not the base, is the other clone's own line. With three that
is false, and so is the property (section 3). TLC has checked the invariant (`Keeping`) on
instances with hooks and without, with the timer, with `delete`, and with two issues.
`NothingOverwritten` rests on `Reading`: a command that may flush has read the file,
and so has a sync, but between its pull and its import.

Only model-checked: the liveness properties and `SilentGoesOffline`, the fairness half of
`ImplementsAutoFlush` (TLAPS has no rules for fairness here, nor for ENABLED), that
`NeverFails` is `ENABLED Import(c)`, and what the violation runs show.

## 5. Not modelled

`PROJECT.json` gives a reason for each component. Within the modelled parts:

- auto-flush and auto-import: the Dolt backend and its auto-commit, `--no-db`, wisps
  (never exported), multi-repo prefixes, the events export, and messages to the
  user. `skipFinalFlush` is never set by any command and is taken to be false;
- the importer: prefixes, hierarchical IDs and orphans, dependencies, labels and
  comments, deletion markers, the protection of IDs exported by this clone, and
  the non-transactional twin of `upsertIssuesTx` for stores without transactions;
- sync: the sync branch, dry runs, the incremental export, and `sync_merge.go`,
  which nothing calls; the merge driver's other fields (notes, priority,
  dependencies, labels, comments), its conflicts, and expiry of tombstones;
- the coordination server: mail and aliases, rooms, checkpoints, the issue index,
  and the local identity. They share no table with what is modelled and are
  single statements for the most part. Read with the rest, they showed: the event for
  received mail is addressed to the alias that was written, before it is
  resolved (`server.go:627`); a late older push of an issue replaces a newer one
  in the index (`store.go:925`); a message may be posted to a room archived
  between the check and the insert (`store.go:589`); and the reaper and a
  revocation change presence without an event.

The map stays small beside the repository, most of which is the command line's
output, formulas, queries, diagnostics, set-up of other tools, the legacy
RPC types, and twins of the modelled storage code (in memory, and transactional).

## 6. Plan

What is left, in this order:

1. `CoordServer` composed with `Hub`, so that the order of commits and of
   presence events can be compared; rooms against archiving, mail with aliases,
   the index with its blind writes.
2. Proofs: that a `FlushManager` composed with one process of `AutoSync` implements
   the flush that `AutoSync` takes for granted; the composition of item 1; and that
   a `GitSync` whose imports and flushes are those of `AutoSync`, step by step, implements
   `GitSync`, with `ImplementsClone` as the lemma.
3. `JSONLMerge`: the remaining fields, against a declarative definition of a
   three-way merge.
4. `IssueStore`: orphans and hierarchical IDs with the importer's resurrection of
   parents; labels and comments as parts of a line.
