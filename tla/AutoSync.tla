------------------------------- MODULE AutoSync -------------------------------
(***************************************************************************)
(* One clone of a repository: binds commands running as separate processes *)
(* over one SQLite database and one issues.jsonl, and git pulling other    *)
(* clones' edits into that file (cmd/binds/autoflush.go, PersistentPreRun  *)
(* and PersistentPostRun of cmd/binds/main.go, internal/importer).  A      *)
(* command first imports the file if its hash is not the one the database  *)
(* remembers, then commits its own write, and its background goroutine     *)
(* exports the dirty issues into the file.                                 *)
(*                                                                         *)
(* Data: the state of an issue is the time its content was written (which  *)
(* names the content: no two edits are at the same time), its updated_at,  *)
(* and whether it is a tombstone.  The hash of the file is the file's      *)
(* content.  When a process flushes is FlushManager's matter: here a mark  *)
(* (due) is flushed before the command exits, and before that only if the  *)
(* debounce timer can expire while the command runs; or Shutdown overtakes *)
(* it in its channel, and the command exits without a flush (Overtake).    *)
(*                                                                         *)
(* Left out: renames and external references of the importer, wisps,       *)
(* multi-repo prefixes, --no-db, and `binds sync` with its lock.           *)
(***************************************************************************)
EXTENDS Naturals, FiniteSets

CONSTANTS
  Procs,          \* processes that run commands, one after the other
  Issues,         \* issue IDs
  Synced,         \* the issues that exist, and are in sync, at the start
  Commands,       \* the kinds of command: see Kinds
  MaxTime,        \* bound on the clock for new edits and commands
  PullAnytime,    \* FALSE: git pull runs only while no command does
  TimerFires,     \* TRUE: a command may outlast the debounce timer
  MaySkipImport,  \* TRUE: an import may be skipped or fail
  MayFail,        \* TRUE: an export or its bookkeeping may fail
  MayCrash        \* TRUE: a process may die, or os.Exit, at any point

(* create, update without and with --status, delete, and a command that    *)
(* writes nothing itself.                                                  *)
Kinds == {"create", "edit", "status", "delete", "none"}

ASSUME AutoSyncAssumption ==
  /\ IsFiniteSet(Issues) /\ Synced \subseteq Issues
  /\ Commands \subseteq Kinds
  /\ MaxTime \in Nat
  /\ {PullAnytime, TimerFires, MaySkipImport, MayFail, MayCrash}
       \subseteq BOOLEAN

VARIABLES
  clock,
  db,           \* the issues table
  dirty,        \* the dirty_issues table
  contentHash,  \* metadata jsonl_content_hash
  fileHash,     \* metadata jsonl_file_hash
  file,         \* issues.jsonl
  incoming,     \* other clones' edits that have not been pulled yet
  pc, cmd,      \* per process: the command's main goroutine, and its kind
  target,       \* the issue it writes ...
  stamp,        \* ... and the updated_at it will write
  seen,         \* the file as the import read it
  due,          \* the flush manager has a mark, received or in its channel
  fl,           \* the flushing goroutine
  stored,       \* the hash of the last export, as it read it
  full, ids,    \* its mode, and the IDs it exports
  snap,         \* its copy of the issues, or of the file
  frail         \* may anything fail or die in this behaviour?  (never changes)

store  == <<db, dirty>>
hashes == <<contentHash, fileHash>>
world  == <<file, incoming>>
main   == <<pc, cmd, target, stamp, seen>>
flush  == <<fl, stored, full, ids, snap>>
vars == <<frail, clock, store, hashes, world, main, due, flush>>

None == [edit |-> 0, at |-> 0, dead |-> FALSE]
Rec == [edit : Nat, at : Nat, dead : BOOLEAN]
Lines == [Issues -> Rec]
Empty == [i \in Issues |-> None]
HashOf(lines) == {lines}
NoHash == {}
Live(i) == db[i] # None /\ ~db[i].dead

MainPCs  == {"idle", "preRun", "importing", "imported", "run", "resolved", "post",
             "overtaken"}
FlushPCs == {"idle", "check", "list", "read", "fetch", "write", "clear", "reread",
             "content", "file"}

Outcomes == IF MayFail /\ frail THEN BOOLEAN ELSE {TRUE}

Init ==
  /\ frail \in BOOLEAN
  /\ clock = 1
  /\ db = [i \in Issues |->
             IF i \in Synced THEN [edit |-> 1, at |-> 1, dead |-> FALSE] ELSE None]
  /\ file = db /\ contentHash = HashOf(file) /\ fileHash = HashOf(file)
  /\ dirty = {} /\ incoming = Empty
  /\ pc = [p \in Procs |-> "idle"] /\ cmd = [p \in Procs |-> "none"]
  /\ target = [p \in Procs |-> {}] /\ stamp = [p \in Procs |-> 0]
  /\ seen = [p \in Procs |-> Empty]
  /\ due = [p \in Procs |-> FALSE]
  /\ fl = [p \in Procs |-> "idle"] /\ stored = [p \in Procs |-> NoHash]
  /\ full = [p \in Procs |-> FALSE] /\ ids = [p \in Procs |-> {}] /\ snap = [p \in Procs |-> Empty]

-----------------------------------------------------------------------------
(* Faulty variants of definitions below, each a slip that would break one  *)
(* of the properties; the specification does not use them.                 *)

(* The import takes every line of the file that differs.                   *)
UpsertFileWins(cur, in, now) ==
  IF in = None \/ cur.dead \/ in.edit = cur.edit THEN cur ELSE in

(* The import only inserts.                                                *)
UpsertInsertOnly(cur, in, now) == IF in = None \/ cur # None THEN cur ELSE in

(* The import updates tombstones as it does live issues.                   *)
UpsertResurrects(cur, in, now) ==
  IF in = None THEN cur
  ELSE IF cur = None THEN in
  ELSE IF in.edit # cur.edit /\ in.at > cur.at THEN [in EXCEPT !.at = now]
  ELSE cur

(* The hash is stored before the import.                                   *)
ImportReadRemembers(p) ==
  /\ pc[p] = "preRun"
  /\ contentHash' = HashOf(file)
  /\ IF HashOf(file) = contentHash
     THEN pc' = [pc EXCEPT ![p] = "run"] /\ UNCHANGED seen
     ELSE /\ pc' = [pc EXCEPT ![p] = "importing"]
          /\ seen' = [seen EXCEPT ![p] = file]
  /\ UNCHANGED <<frail, clock, store, fileHash, world, cmd, target, stamp, due, flush>>

(* The command does not call MarkDirty.                                    *)
CommitUnmarked(p) ==
  /\ pc[p] = "resolved" /\ pc' = [pc EXCEPT ![p] = "post"]
  /\ \E i \in target[p] :
       /\ db' = [db EXCEPT ![i] =
                   [edit |-> stamp[p], at |-> stamp[p],
                    dead |-> cmd[p] = "delete" \/ (cmd[p] = "edit" /\ db[i].dead)]]
       /\ dirty' = dirty \cup {i}
  /\ target' = [target EXCEPT ![p] = {}] /\ stamp' = [stamp EXCEPT ![p] = 0]
  /\ UNCHANGED <<frail, clock, hashes, world, cmd, seen, due, flush>>

(* The command does not wait for the final flush.                          *)
FinishAtOnce(p) ==
  /\ pc[p] \in {"post", "overtaken"} /\ pc' = [pc EXCEPT ![p] = "idle"]
  /\ cmd' = [cmd EXCEPT ![p] = "none"]
  /\ UNCHANGED <<frail, clock, store, hashes, world, target, stamp, seen, due, flush>>

(* The dirty marks are cleared before the file is written.                 *)
FlushFetchClears(p) ==
  /\ fl[p] = "fetch"
  /\ fl' = [fl EXCEPT ![p] = IF ids[p] = {} THEN "write" ELSE "fetch"]
  /\ \/ ids[p] = {} /\ UNCHANGED <<ids, snap, dirty>>
     \/ \E i \in ids[p] :
          /\ snap' = [snap EXCEPT ![p][i] = db[i]]
          /\ ids' = [ids EXCEPT ![p] = @ \ {i}]
          /\ dirty' = dirty \ {i}
  /\ UNCHANGED <<frail, clock, db, hashes, world, main, due, full, stored>>

-----------------------------------------------------------------------------
(* The other clones, and git.                                              *)

(* No process and no clone has this ID yet.                                *)
Unborn(i) ==
  /\ db[i] = None /\ file[i] = None /\ incoming[i] = None
  /\ \A p \in Procs : i \notin target[p] /\ seen[p][i] = None /\ snap[p][i] = None

(* Another clone creates an issue, or edits or deletes one it knows, and   *)
(* pushes.                                                                 *)
RemoteEdit(i, dead) ==
  /\ clock < MaxTime
  /\ ~incoming[i].dead /\ ~file[i].dead
  /\ Unborn(i) => ~dead
  /\ Unborn(i) \/ file[i] # None \/ incoming[i] # None
  /\ clock' = clock + 1
  /\ incoming' = [incoming EXCEPT ![i] = [edit |-> clock + 1, at |-> clock + 1,
                                          dead |-> dead]]
  /\ UNCHANGED <<frail, store, hashes, file, main, due, flush>>

Newer(r, s) == IF r.at > s.at THEN r ELSE s

(* git pull: lines changed elsewhere replace ours, the newer one where     *)
(* both changed.                                                           *)
GitPull ==
  /\ incoming # Empty
  /\ PullAnytime \/ \A p \in Procs : pc[p] = "idle"
  /\ file' = [i \in Issues |->
                IF incoming[i] = None THEN file[i] ELSE Newer(incoming[i], file[i])]
  /\ incoming' = Empty
  /\ UNCHANGED <<frail, clock, store, hashes, main, due, flush>>

-----------------------------------------------------------------------------
(* A command: PersistentPreRun, its own write, PersistentPostRun.          *)

Goto(p, from, to) == pc[p] = from /\ pc' = [pc EXCEPT ![p] = to]

(* `delete` does not import.                                               *)
Start(p, kind) ==
  /\ clock < MaxTime
  /\ Goto(p, "idle", IF kind = "delete" THEN "run" ELSE "preRun")
  /\ cmd' = [cmd EXCEPT ![p] = kind]
  /\ UNCHANGED <<frail, clock, store, hashes, world, target, stamp, seen, due, flush>>

(* autoImportIfNewer reads the file and compares hashes.                   *)
ImportRead(p) ==
  /\ pc[p] = "preRun"
  /\ IF HashOf(file) = contentHash
     THEN pc' = [pc EXCEPT ![p] = "run"] /\ UNCHANGED seen
     ELSE /\ pc' = [pc EXCEPT ![p] = "importing"]
          /\ seen' = [seen EXCEPT ![p] = file]
  /\ UNCHANGED <<frail, clock, store, hashes, world, cmd, target, stamp, due, flush>>

(* The early returns: the lock is held, the file has conflict markers or   *)
(* does not parse, or the import transaction fails.  The command goes on.  *)
ImportSkip(p) ==
  /\ MaySkipImport
  /\ pc[p] \in {"preRun", "importing"}
  /\ pc' = [pc EXCEPT ![p] = "run"]
  /\ seen' = [seen EXCEPT ![p] = Empty]
  /\ UNCHANGED <<frail, clock, store, hashes, world, cmd, target, stamp, due, flush>>

(* upsertIssuesTx for one issue: tombstones are not resurrected, the same  *)
(* content is left alone, a new issue is inserted as it is, and an older   *)
(* one is updated, at the time of the import.                              *)
Upsert(cur, in, now) ==
  IF in = None \/ cur.dead THEN cur
  ELSE IF cur = None THEN in
  ELSE IF in.edit # cur.edit /\ in.at > cur.at THEN [in EXCEPT !.at = now]
  ELSE cur

(* importIssuesCore in one transaction, then MarkDirty if it changed       *)
(* anything.                                                               *)
ImportTx(p) ==
  /\ Goto(p, "importing", "imported")
  /\ db' = [i \in Issues |-> Upsert(db[i], seen[p][i], clock + 1)]
  /\ LET changed == {i \in Issues : db'[i] # db[i]} IN
       /\ dirty' = dirty \cup changed
       /\ due' = [due EXCEPT ![p] = @ \/ changed # {}]
       /\ clock' = IF \E i \in changed : db[i] # None THEN clock + 1 ELSE clock
  /\ UNCHANGED <<frail, hashes, world, cmd, target, stamp, seen, flush>>

(* The hash of what was read, not of what the file is by now.              *)
ImportDone(p) ==
  /\ Goto(p, "imported", "run")
  /\ contentHash' = HashOf(seen[p])
  /\ seen' = [seen EXCEPT ![p] = Empty]
  /\ UNCHANGED <<frail, clock, store, fileHash, world, cmd, target, stamp, due, flush>>

(* The command finds its issue, and takes the time, before the transaction.*)
Resolve(p, i) ==
  /\ Goto(p, "run", "resolved")
  /\ CASE cmd[p] = "create" -> Unborn(i)
       [] cmd[p] = "none" -> FALSE
       [] OTHER -> Live(i)
  /\ target' = [target EXCEPT ![p] = {i}]
  /\ clock' = clock + 1
  /\ stamp' = [stamp EXCEPT ![p] = clock + 1]
  /\ UNCHANGED <<frail, store, hashes, world, cmd, seen, due, flush>>

(* CreateIssue, UpdateIssue, CreateTombstone: the row and its dirty mark   *)
(* in one transaction; then MarkDirty.                                     *)
Commit(p) ==
  /\ Goto(p, "resolved", "post")
  /\ \E i \in target[p] :
       /\ db' = [db EXCEPT ![i] =
                   [edit |-> stamp[p], at |-> stamp[p],
                    dead |-> cmd[p] = "delete" \/ (cmd[p] = "edit" /\ db[i].dead)]]
       /\ dirty' = dirty \cup {i}
  /\ due' = [due EXCEPT ![p] = TRUE]
  /\ target' = [target EXCEPT ![p] = {}] /\ stamp' = [stamp EXCEPT ![p] = 0]
  /\ UNCHANGED <<frail, clock, hashes, world, cmd, seen, flush>>

(* The command has nothing to write.                                       *)
NothingToDo(p) ==
  /\ Goto(p, "run", "post")
  /\ cmd[p] = "none"
  /\ UNCHANGED <<frail, clock, store, hashes, world, cmd, target, stamp, seen, due, flush>>

(* The loop's select takes the request of Shutdown before the mark that is *)
(* still in its channel: there is nothing to flush, and the loop ends.     *)
Overtake(p) ==
  /\ Goto(p, "post", "overtaken")
  /\ due[p] /\ fl[p] = "idle"
  /\ due' = [due EXCEPT ![p] = FALSE]
  /\ UNCHANGED <<frail, clock, store, hashes, world, cmd, target, stamp, seen, flush>>

(* PersistentPostRun returns once the final flush is over, if there is one.*)
Finish(p) ==
  /\ pc[p] = "overtaken" \/ (pc[p] = "post" /\ ~due[p] /\ fl[p] = "idle")
  /\ pc' = [pc EXCEPT ![p] = "idle"]
  /\ cmd' = [cmd EXCEPT ![p] = "none"]
  /\ UNCHANGED <<frail, clock, store, hashes, world, target, stamp, seen, due, flush>>

(* The process dies, or leaves by os.Exit, which runs no PostRun.          *)
Crash(p) ==
  /\ MayCrash /\ frail /\ pc[p] # "idle"
  /\ pc' = [pc EXCEPT ![p] = "idle"] /\ cmd' = [cmd EXCEPT ![p] = "none"]
  /\ target' = [target EXCEPT ![p] = {}] /\ stamp' = [stamp EXCEPT ![p] = 0]
  /\ seen' = [seen EXCEPT ![p] = Empty]
  /\ due' = [due EXCEPT ![p] = FALSE]
  /\ fl' = [fl EXCEPT ![p] = "idle"] /\ stored' = [stored EXCEPT ![p] = NoHash]
  /\ full' = [full EXCEPT ![p] = FALSE] /\ ids' = [ids EXCEPT ![p] = {}] /\ snap' = [snap EXCEPT ![p] = Empty]
  /\ UNCHANGED <<frail, clock, store, hashes, world>>

-----------------------------------------------------------------------------
(* The flush: flushToJSONLWithState, in the process's other goroutine.     *)

Step(p, from, to) == fl[p] = from /\ fl' = [fl EXCEPT ![p] = to]

(* validateJSONLIntegrity reads the hash of the last export ...            *)
FlushStart(p) ==
  /\ due[p] /\ (TimerFires \/ pc[p] = "post")
  /\ Step(p, "idle", "check")
  /\ due' = [due EXCEPT ![p] = FALSE]
  /\ stored' = [stored EXCEPT ![p] = fileHash]
  /\ UNCHANGED <<frail, clock, store, hashes, world, main, full, ids, snap>>

(* ... and then the file.                                                  *)
FlushCheck(p) ==
  /\ Step(p, "check", "list")
  /\ full' = [full EXCEPT ![p] = stored[p] \notin {NoHash, HashOf(file)}]
  /\ fileHash' = IF full'[p] THEN NoHash ELSE fileHash
  /\ stored' = [stored EXCEPT ![p] = NoHash]
  /\ UNCHANGED <<frail, clock, store, contentHash, world, main, due, ids, snap>>

(* getIssuesToExport: a full export lists the issues that are not          *)
(* tombstones.                                                             *)
Exportable(p) == IF full[p] THEN {i \in Issues : Live(i)} ELSE dirty

FlushList(p) ==
  /\ Step(p, "list", IF Exportable(p) = {} /\ ~full[p] THEN "idle" ELSE "read")
  /\ ids' = [ids EXCEPT ![p] = Exportable(p)]
  /\ UNCHANGED <<frail, clock, store, hashes, world, main, due, full, snap, stored>>

(* readExistingJSONL                                                       *)
FlushRead(p) ==
  /\ Step(p, "read", "fetch")
  /\ snap' = [snap EXCEPT ![p] = IF full[p] THEN Empty ELSE file]
  /\ UNCHANGED <<frail, clock, store, hashes, world, main, due, full, ids, stored>>

(* fetchAndMergeIssues reads the issues one by one, in no transaction.     *)
FlushFetch(p) ==
  /\ Step(p, "fetch", IF ids[p] = {} THEN "write" ELSE "fetch")
  /\ \/ ids[p] = {} /\ UNCHANGED <<ids, snap>>
     \/ \E i \in ids[p] :
          /\ snap' = [snap EXCEPT ![p][i] = db[i]]
          /\ ids' = [ids EXCEPT ![p] = @ \ {i}]
  /\ UNCHANGED <<frail, clock, store, hashes, world, main, due, full, stored>>

(* writeJSONLAtomic: the rename.                                           *)
FlushWrite(p) ==
  /\ Step(p, "write", "clear")
  /\ file' = snap[p]
  /\ full' = [full EXCEPT ![p] = FALSE]
  /\ UNCHANGED <<frail, clock, store, hashes, incoming, main, due, ids, snap, stored>>

(* ClearDirtyIssuesByID, for every issue of the file that was written; a   *)
(* failure is a warning.                                                   *)
FlushClear(p) ==
  /\ Step(p, "clear", "reread")
  /\ \E ok \in Outcomes :
       dirty' = IF ok THEN dirty \ {i \in Issues : snap[p][i] # None} ELSE dirty
  /\ UNCHANGED <<frail, clock, db, hashes, world, main, due, full, ids, snap, stored>>

(* updateFlushExportMetadata reads the file again, and stores its hash     *)
(* twice; here too a failure is a warning.                                 *)
FlushReread(p) ==
  /\ Step(p, "reread", "content")
  /\ snap' = [snap EXCEPT ![p] = file]
  /\ UNCHANGED <<frail, clock, store, hashes, world, main, due, full, ids, stored>>

FlushContentHash(p) ==
  /\ Step(p, "content", "file")
  /\ \E ok \in Outcomes : contentHash' = IF ok THEN HashOf(snap[p]) ELSE contentHash
  /\ UNCHANGED <<frail, clock, store, fileHash, world, main, due, full, ids, snap, stored>>

FlushFileHash(p) ==
  /\ Step(p, "file", "idle")
  /\ \E ok \in Outcomes : fileHash' = IF ok THEN HashOf(snap[p]) ELSE fileHash
  /\ snap' = [snap EXCEPT ![p] = Empty]
  /\ UNCHANGED <<frail, clock, store, contentHash, world, main, due, full, ids, stored>>

(* recordFlushFailure, before the rename: nothing is retried.              *)
FlushFail(p) ==
  /\ MayFail /\ frail /\ fl[p] \in {"check", "list", "read", "fetch", "write"}
  /\ fl' = [fl EXCEPT ![p] = "idle"] /\ stored' = [stored EXCEPT ![p] = NoHash]
  /\ full' = [full EXCEPT ![p] = FALSE] /\ ids' = [ids EXCEPT ![p] = {}] /\ snap' = [snap EXCEPT ![p] = Empty]
  /\ UNCHANGED <<frail, clock, store, hashes, world, main, due>>

-----------------------------------------------------------------------------
Import(p) == ImportRead(p) \/ ImportTx(p) \/ ImportDone(p)

Command(p) ==
  \/ Import(p) \/ (\E i \in Issues : Resolve(p, i)) \/ Commit(p)
  \/ NothingToDo(p) \/ Finish(p)

Flush(p) ==
  \/ FlushStart(p) \/ FlushCheck(p) \/ FlushList(p) \/ FlushRead(p)
  \/ FlushFetch(p) \/ FlushWrite(p) \/ FlushClear(p) \/ FlushReread(p)
  \/ FlushContentHash(p) \/ FlushFileHash(p)

Environment ==
  \/ \E i \in Issues, dead \in BOOLEAN : RemoteEdit(i, dead)
  \/ GitPull

Process(p) ==
  \/ \E kind \in Commands : Start(p, kind)
  \/ Command(p) \/ Overtake(p) \/ ImportSkip(p) \/ Crash(p)
  \/ Flush(p) \/ FlushFail(p)

Next == Environment \/ \E p \in Procs : Process(p)

Spec == Init /\ [][Next]_vars

(* A process that has started runs on.  Nobody has to start one, or pull.  *)
FairSpec ==
  Spec /\ \A p \in Procs : WF_vars(Command(p)) /\ WF_vars(Flush(p))

-----------------------------------------------------------------------------
(* Properties.                                                             *)

(* Types; and a process that has exited, or whose loop has ended, has no   *)
(* flush under way, which it owes to the wait of PersistentPostRun for the *)
(* final flush.                                                            *)
TypeOK ==
  /\ clock \in Nat
  /\ db \in Lines /\ file \in Lines /\ incoming \in Lines
  /\ dirty \subseteq Issues
  /\ contentHash \subseteq Lines /\ fileHash \subseteq Lines
  /\ pc \in [Procs -> MainPCs] /\ cmd \in [Procs -> Kinds]
  /\ target \in [Procs -> SUBSET Issues] /\ stamp \in [Procs -> Nat]
  /\ seen \in [Procs -> Lines] /\ due \in [Procs -> BOOLEAN]
  /\ fl \in [Procs -> FlushPCs] /\ full \in [Procs -> BOOLEAN]
  /\ ids \in [Procs -> SUBSET Issues] /\ snap \in [Procs -> Lines]
  /\ stored \in [Procs -> SUBSET Lines]
  /\ \A p \in Procs :
       pc[p] \in {"idle", "overtaken"} => fl[p] = "idle" /\ ~due[p]

(* Whatever the crash or the failure, an issue of the database that the    *)
(* file lacks, or has an older state of, is marked dirty.                  *)
UnexportedIsDirty ==
  \A i \in Issues : Live(i) /\ file[i].at < db[i].at => i \in dirty

(* When the database says that it has imported the file as it is now, the  *)
(* file has nothing newer than the database.                               *)
HashIsHonest ==
  contentHash = HashOf(file) => \A i \in Issues : db[i].dead \/ file[i].at <= db[i].at

(* Of every issue, the newest state in the clone, be it in the database or *)
(* only pulled into the file, is not lost: no step replaces it by an older *)
(* one.                                                                    *)
NothingLost ==
  [][\A i \in Issues :
       LET newest == Newer(db[i], file[i]).at IN
         db'[i].at >= newest \/ file'[i].at >= newest]_vars

(* An issue of the database never moves back to an older state, with one   *)
(* exception: a command that took its time before another one's commit and *)
(* committed after it.  An import, however old the file it read, never     *)
(* does it.                                                                *)
OnlyLateCommitsRegress ==
  [][\A i \in Issues :
       db'[i].at < db[i].at =>
         \E p \in Procs : i \in target[p] /\ stamp[p] = db'[i].at]_vars

(* A tombstone becomes a live issue only by a command that set its status, *)
(* never by an import.                                                     *)
ImportNeverResurrects ==
  [][\A i \in Issues :
       db[i].dead /\ ~db'[i].dead =>
         \E p \in Procs : cmd[p] = "status" /\ i \in target[p]]_vars

(* Database, file, import and flush together are one set of issues: what   *)
(* an issue says is the newer of its row and its line.  A command's        *)
(* transaction and a git pull change it; an import, a flush, a crash or a  *)
(* failure at any of their steps does not.                                 *)
Newest(i) == Newer(file[i], db[i])

Says(r) == [edit |-> r.edit, dead |-> r.dead]

Clone == INSTANCE Replica WITH
  issue <- [i \in Issues |-> Says(Newest(i))],
  inbox <- [i \in Issues |-> Says(incoming[i])]

ImplementsReplica == Clone!Spec

(* Where nothing fails or dies, what a command committed reaches the file  *)
(* before it exits, unless Shutdown overtakes its mark (autoflush.go says  *)
(* of Shutdown that it "performs a final flush before the command exits,   *)
(* ensuring no data is lost").  Then it is still marked dirty, and the     *)
(* next flush that starts, for a later command's mark, takes it along.     *)
CommitsReachTheFile ==
  \A p \in Procs, i \in Issues : \A t \in 1..MaxTime + 1 :
    /\ (~frail /\ i \in target[p] /\ stamp[p] = t) ~>
         \/ pc[p] = "idle" /\ file[i].at >= t
         \/ pc[p] = "overtaken" /\ i \in dirty
    /\ (~frail /\ i \in dirty /\ Live(i) /\ db[i].at >= t /\ fl[p] = "check") ~>
         file[i].at >= t

=============================================================================
