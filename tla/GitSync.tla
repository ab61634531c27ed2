-------------------------------- MODULE GitSync -------------------------------
(***************************************************************************)
(* `binds sync` between the clones of a repository (cmd/binds/sync.go,     *)
(* sync_export.go, sync_import.go, sync_git.go): pull, export the whole    *)
(* database over the pulled file, commit, push.  The remote is one branch; *)
(* each clone has its database, its issues.jsonl, and its HEAD.  A command *)
(* that edits an issue runs in each clone too, also beside its sync: it    *)
(* imports, writes and flushes, and the sync may pull, import, export,     *)
(* commit or push in between.                                              *)
(*                                                                         *)
(* One import, and one flush with its bookkeeping, are one step each here: *)
(* AutoSync takes them apart.  A command's time is that of its write, and  *)
(* it is over before its timer.  git is external: a pull fast-forwards or  *)
(* merges (pull.rebase=false) and is refused when it would change a file   *)
(* that is not committed; a push is accepted when the remote has nothing   *)
(* new.  Of issues.jsonl only; clocks agree.                               *)
(*                                                                         *)
(* Left out: the sync branch, Dolt, dry runs, a database that is empty,    *)
(* users who commit, pull or push by hand.                                 *)
(***************************************************************************)
EXTENDS JSONLMerge, FiniteSets

CONSTANTS
  Clones, Issues,
  Synced,       \* the issues that exist, everywhere, at the start
  Commands,     \* per clone: "sync", "pull" (--pull), "push" (--no-pull)
  Hooked,       \* clones whose post-merge hook finds `bd`, and imports
  Edits,        \* the kinds of edit: see EditKinds
  Beside,       \* TRUE: commands may run beside a sync of the same clone
  MaxTime,      \* bound on the clock for new edits
  MayFail,      \* TRUE: git may fail, for want of a network
  Timer,        \* TRUE: a sync's own flush may come due before its end
  CrashAt       \* where the sync process may die

(* Both delete and cleanup, of a closed issue, leave a tombstone.          *)
EditKinds == {"create", "title", "close", "delete", "cleanup"}

PCs == {"idle", "pull", "hook", "import", "export", "listed", "written",
        "commit", "push", "done"}

ASSUME GitSyncAssumption ==
  /\ IsFiniteSet(Clones) /\ IsFiniteSet(Issues)
  /\ Synced \subseteq Issues /\ Synced # {}
  /\ Commands \in [Clones -> SUBSET {"sync", "pull", "push"}]
  /\ Hooked \subseteq Clones
  /\ Edits \subseteq EditKinds /\ MaxTime \in Nat
  /\ {Beside, MayFail, Timer} \subseteq BOOLEAN
  /\ CrashAt \subseteq PCs \ {"idle"}

VARIABLES
  clock,
  remote,   \* issues.jsonl at the head of the remote branch
  ws,       \* per clone: the database and the file
  git,      \* per clone: HEAD, and what it knows of the remote
  pc, cmd,  \* per clone: the sync process, and its command
  due,      \* the sync process owes a flush
  snap,     \* the issues it listed for its export
  job,      \* per clone: what the command that edits has still to do
  overwritten   \* issues of which a line was overwritten unread: history

sync == <<pc, cmd, due, snap>>
vars == <<clock, remote, ws, git, sync, job, overwritten>>

Lines == [Issues -> Line]
Empty == [i \in Issues |-> Absent]

(* known and hash are jsonl_content_hash and jsonl_file_hash.              *)
Workspace == [db : Lines, dirty : SUBSET Issues, file : Lines,
              known : Lines, hash : Lines]

(* base: the remote at the last pull or push.  ahead: HEAD has commits     *)
(* that the remote lacks; behind: the other way round.                     *)
Repo == [head : Lines, base : Lines, ahead : BOOLEAN, behind : BOOLEAN]

Init ==
  LET start == [i \in Issues |->
        IF i \in Synced THEN [title |-> 1, status |-> "open", since |-> 0, at |-> 1]
        ELSE Absent]
  IN
    /\ clock = 1 /\ remote = start
    /\ ws = [c \in Clones |-> [db |-> start, dirty |-> {}, file |-> start,
                               known |-> start, hash |-> start]]
    /\ git = [c \in Clones |-> [head |-> start, base |-> start,
                                ahead |-> FALSE, behind |-> FALSE]]
    /\ pc = [c \in Clones |-> "idle"] /\ cmd = [c \in Clones |-> "none"]
    /\ due = [c \in Clones |-> FALSE] /\ snap = [c \in Clones |-> Empty]
    /\ job = [c \in Clones |-> "none"] /\ overwritten = {}

-----------------------------------------------------------------------------
(* Faulty variants, unused.                                                *)

(* A push that does not look at what the remote has.                       *)
AcceptsForced(c) == TRUE

(* The import is skipped and the file remembered.                          *)
ImportFileForgets(w, now) == [w EXCEPT !.known = w.file]

(* The bookkeeping keeps the lock.                                         *)
FinalizeStaysLocked(c) ==
  /\ pc[c] = "written" /\ pc' = [pc EXCEPT ![c] = "commit"]
  /\ ws' = [ws EXCEPT ![c].dirty = {i \in @ : snap[c][i] = Absent},
                      ![c].known = snap[c], ![c].hash = snap[c]]
  /\ UNCHANGED <<clock, remote, git, cmd, due, snap, job, overwritten>>

-----------------------------------------------------------------------------
(* Inside one clone: what a command does to the workspace w.               *)

(* importIssuesCore, of the file.                                          *)
Imported(w, now) == [i \in Issues |-> Upsert(w.db[i], w.file[i], now)]

Changed(w, now) == {i \in Issues : Imported(w, now)[i] # w.db[i]}

ImportFile(w, now) ==
  [w EXCEPT !.db = Imported(w, now), !.dirty = @ \cup Changed(w, now),
            !.known = w.file]

(* autoImportIfNewer                                                       *)
AutoImport(w, now) == IF w.file = w.known THEN w ELSE ImportFile(w, now)

(* flushToJSONLWithState: all live issues into a file that is not the last *)
(* one written, else the dirty ones.                                       *)
Flushed(w) ==
  IF w.file # w.hash
  THEN [i \in Issues |-> IF Dead(w.db[i]) THEN Absent ELSE w.db[i]]
  ELSE [i \in Issues |-> IF i \in w.dirty THEN w.db[i] ELSE w.file[i]]

Flush(w) ==
  IF w.file = w.hash /\ w.dirty = {} THEN w
  ELSE [w EXCEPT !.file = Flushed(w), !.known = Flushed(w), !.hash = Flushed(w),
                 !.dirty = {i \in @ : Flushed(w)[i] = Absent}]

Edited(l, kind, now) ==
  CASE kind \in {"create", "title"} -> [l EXCEPT !.title = now, !.at = now]
    [] kind = "close" -> [l EXCEPT !.status = "closed", !.since = now, !.at = now]
    [] kind \in {"delete", "cleanup"} ->
         [l EXCEPT !.status = "tombstone", !.since = now, !.at = now]

Editable(l, kind) ==
  CASE kind = "create" -> l = Absent
    [] kind = "close" -> l # Absent /\ l.status = "open"
    [] kind = "cleanup" -> l.status = "closed"
    [] kind \in {"title", "delete"} -> l # Absent /\ ~Dead(l)

(* The exclusive lock, from the listing to the bookkeeping of an export:   *)
(* only the auto-import of the other commands heeds it.                    *)
Locked(c) == pc[c] \in {"listed", "written"}

(* A new issue gets an ID that no clone has.                               *)
Fresh(i) ==
  remote[i] = Absent /\ \A d \in Clones : Absent = ws[d].db[i]

(* A file that the database has not read: it is not the one last imported, *)
(* exported or flushed, nor what the sync that holds the lock exports.     *)
Unread(c) ==
  /\ ws[c].file \notin {ws[c].known, ws[c].hash}
  /\ Locked(c) => ws[c].file # snap[c]

(* The issues whose lines a step changes in such a file.                   *)
Overwrites(c) ==
  overwritten' = overwritten \cup
    {i \in Issues : Unread(c) /\ ws'[c].file[i] # ws[c].file[i]}

(* A command that edits one issue.  It imports, unless it is delete, and   *)
(* may then have nothing to write but what it imported ...                 *)
Start(c, kind) ==
  LET reads == kind # "delete" /\ ~Locked(c)
      w == IF reads THEN AutoImport(ws[c], clock + 1) ELSE ws[c]
  IN
    /\ clock < MaxTime
    /\ job[c] = "none" /\ (pc[c] = "idle" \/ Beside)
    /\ \E todo \in {kind, "flush"} :
         (todo = "flush" => w.db # ws[c].db) /\ job' = [job EXCEPT ![c] = todo]
    /\ ws' = [ws EXCEPT ![c] = w]
    /\ clock' = IF w.db # ws[c].db THEN clock + 1 ELSE clock
    /\ UNCHANGED <<remote, git, sync, overwritten>>

(* ... writes, in one transaction ...                                      *)
Write(c, i) ==
  /\ job[c] \in EditKinds
  /\ Editable(ws[c].db[i], job[c]) /\ (job[c] = "create" => Fresh(i))
  /\ clock' = clock + 1
  /\ ws' = [ws EXCEPT ![c].db[i] = Edited(@, job[c], clock'),
                      ![c].dirty = @ \cup {i}]
  /\ job' = [job EXCEPT ![c] = "flush"]
  /\ UNCHANGED <<remote, git, sync, overwritten>>

(* ... and flushes before it exits.                                        *)
FlushEdit(c) ==
  /\ job[c] = "flush" /\ job' = [job EXCEPT ![c] = "none"]
  /\ ws' = [ws EXCEPT ![c] = Flush(@)]
  /\ Overwrites(c)
  /\ UNCHANGED <<clock, remote, git, sync>>

(* It fails, dies, or Shutdown overtakes its mark, and it does not flush.  *)
Quit(c) ==
  /\ job[c] # "none" /\ job' = [job EXCEPT ![c] = "none"]
  /\ UNCHANGED <<clock, remote, ws, git, sync, overwritten>>

-----------------------------------------------------------------------------
(* binds sync.                                                             *)

Goto(c, from, to) == pc[c] = from /\ pc' = [pc EXCEPT ![c] = to]

AfterPull(c) == IF cmd[c] = "pull" THEN "import" ELSE "export"

(* PersistentPreRun imports; what it changed is to be flushed.             *)
Begin(c, k) ==
  /\ k \in Commands[c] /\ (job[c] = "none" \/ Beside)
  /\ Goto(c, "idle", IF k = "push" THEN "export" ELSE "pull")
  /\ cmd' = [cmd EXCEPT ![c] = k]
  /\ LET w == AutoImport(ws[c], clock + 1) IN
       /\ ws' = [ws EXCEPT ![c] = w]
       /\ due' = [due EXCEPT ![c] = w.db # ws[c].db]
       /\ clock' = IF w.db # ws[c].db THEN clock + 1 ELSE clock
  /\ UNCHANGED <<remote, git, snap, job, overwritten>>

(* The file at HEAD after the pull; which keeps a file that is not         *)
(* committed, and is refused when it cannot.                               *)
PullResult(c) ==
  CASE ~git[c].behind -> git[c].head
    [] git[c].behind /\ ~git[c].ahead -> remote
    [] git[c].behind /\ git[c].ahead ->
         MergeFile(git[c].base, git[c].head, remote)

Refused(c) == ws[c].file # git[c].head /\ PullResult(c) # git[c].head

(* git pull, and its post-merge hook when there was something to merge.    *)
Pull(c) ==
  /\ ~Refused(c)
  /\ Goto(c, "pull", IF git[c].behind /\ c \in Hooked THEN "hook" ELSE AfterPull(c))
  /\ git' = [git EXCEPT ![c] = [@ EXCEPT !.head = PullResult(c), !.base = remote,
                                         !.behind = FALSE]]
  /\ ws' = [ws EXCEPT ![c].file =
              IF PullResult(c) = git[c].head THEN @ ELSE PullResult(c)]
  /\ UNCHANGED <<clock, remote, cmd, due, snap, job, overwritten>>

(* A warning for sync, the end for sync --pull.                            *)
PullFails(c) ==
  /\ Refused(c) \/ MayFail
  /\ Goto(c, "pull", IF cmd[c] = "pull" THEN "idle" ELSE "export")
  /\ cmd' = [cmd EXCEPT ![c] = IF @ = "pull" THEN "none" ELSE @]
  /\ due' = [due EXCEPT ![c] = @ /\ cmd[c] # "pull"]
  /\ UNCHANGED <<clock, remote, ws, git, snap, job, overwritten>>

(* bd import -i: flushes before it remembers the file.                     *)
Hook(c) ==
  /\ Goto(c, "hook", AfterPull(c))
  /\ LET w == ImportFile(ws[c], clock + 1)
         f == IF w.db # ws[c].db THEN Flush(w) ELSE w
     IN
       /\ ws' = [ws EXCEPT ![c] = [f EXCEPT !.known = f.file, !.hash = f.file]]
       /\ clock' = IF w.db # ws[c].db THEN clock + 1 ELSE clock
  /\ UNCHANGED <<remote, git, cmd, due, snap, job, overwritten>>

(* importFromJSONLInline, after sync --pull.                               *)
Import(c) ==
  /\ Goto(c, "import", "done")
  /\ LET w == ImportFile(ws[c], clock + 1) IN
       /\ ws' = [ws EXCEPT ![c] = [w EXCEPT !.hash = w.file]]
       /\ clock' = IF w.db # ws[c].db THEN clock + 1 ELSE clock
  /\ UNCHANGED <<remote, git, cmd, due, snap, job, overwritten>>

(* exportToJSONLDeferred takes the lock and lists all issues, tombstones   *)
(* too ...                                                                 *)
ExportList(c) ==
  /\ Goto(c, "export", "listed")
  /\ snap' = [snap EXCEPT ![c] = ws[c].db]
  /\ UNCHANGED <<clock, remote, ws, git, cmd, due, job, overwritten>>

(* ... and replaces the file.                                              *)
ExportWrite(c) ==
  /\ Goto(c, "listed", "written")
  /\ ws' = [ws EXCEPT ![c].file = snap[c]]
  /\ Overwrites(c)
  /\ UNCHANGED <<clock, remote, git, cmd, due, snap, job>>

(* finalizeExport clears the marks of what was listed, and unlocks.        *)
Finalize(c) ==
  /\ Goto(c, "written", "commit")
  /\ ws' = [ws EXCEPT ![c].dirty = {i \in @ : snap[c][i] = Absent},
                      ![c].known = snap[c], ![c].hash = snap[c]]
  /\ snap' = [snap EXCEPT ![c] = Empty]
  /\ UNCHANGED <<clock, remote, git, cmd, due, job, overwritten>>

(* "No changes to commit", whether or not HEAD has been pushed.            *)
NothingToCommit(c) ==
  /\ ws[c].file = git[c].head
  /\ Goto(c, "commit", "done")
  /\ UNCHANGED <<clock, remote, ws, git, cmd, due, snap, job, overwritten>>

Commit(c) ==
  /\ ws[c].file # git[c].head
  /\ Goto(c, "commit", "push")
  /\ git' = [git EXCEPT ![c].head = ws[c].file, ![c].ahead = TRUE]
  /\ UNCHANGED <<clock, remote, ws, cmd, due, snap, job, overwritten>>

Accepts(c) == ~git[c].behind

Push(c) ==
  /\ Accepts(c)
  /\ Goto(c, "push", "done")
  /\ remote' = git[c].head
  /\ git' = [d \in Clones |->
               IF d = c THEN [git[c] EXCEPT !.base = git[c].head, !.ahead = FALSE]
               ELSE [git[d] EXCEPT !.behind = TRUE]]
  /\ UNCHANGED <<clock, ws, cmd, due, snap, job, overwritten>>

(* Shutdown, or before that the flush manager's timer.  It takes no lock.  *)
AutoFlush(c) ==
  /\ Timer \/ pc[c] = "done"
  /\ due[c] /\ due' = [due EXCEPT ![c] = FALSE]
  /\ ws' = [ws EXCEPT ![c] = Flush(@)]
  /\ Overwrites(c)
  /\ UNCHANGED <<clock, remote, git, pc, cmd, snap, job>>

(* Shutdown overtakes the mark of a flush that is still due.               *)
Finish(c) ==
  /\ Goto(c, "done", "idle")
  /\ cmd' = [cmd EXCEPT ![c] = "none"] /\ due' = [due EXCEPT ![c] = FALSE]
  /\ UNCHANGED <<clock, remote, ws, git, snap, job, overwritten>>

(* FatalError when the push is rejected or fails, which leaves without a   *)
(* flush; or the process dies.                                             *)
Abort(c) ==
  /\ (pc[c] = "push" /\ (~Accepts(c) \/ MayFail)) \/ pc[c] \in CrashAt
  /\ pc' = [pc EXCEPT ![c] = "idle"] /\ cmd' = [cmd EXCEPT ![c] = "none"]
  /\ due' = [due EXCEPT ![c] = FALSE] /\ snap' = [snap EXCEPT ![c] = Empty]
  /\ UNCHANGED <<clock, remote, ws, git, job, overwritten>>

-----------------------------------------------------------------------------
Sync(c) ==
  \/ \E k \in {"sync", "pull", "push"} : Begin(c, k)
  \/ Pull(c) \/ PullFails(c) \/ Hook(c) \/ Import(c)
  \/ ExportList(c) \/ ExportWrite(c) \/ Finalize(c)
  \/ NothingToCommit(c) \/ Commit(c) \/ Push(c)
  \/ AutoFlush(c) \/ Finish(c) \/ Abort(c)

Command(c) ==
  \/ \E kind \in Edits : Start(c, kind)
  \/ \E i \in Issues : Write(c, i)
  \/ FlushEdit(c) \/ Quit(c)

Next ==
  \E c \in Clones :
    Sync(c) \/ Command(c)

Spec == Init /\ [][Next]_vars

-----------------------------------------------------------------------------
(* Properties.                                                             *)

(* Types; and a sync that is over, or past its bookkeeping, holds no lock  *)
(* and owes no flush.                                                      *)
TypeOK ==
  /\ clock \in Nat /\ remote \in Lines
  /\ ws \in [Clones -> Workspace] /\ git \in [Clones -> Repo]
  /\ pc \in [Clones -> PCs]
  /\ cmd \in [Clones -> {"none", "sync", "pull", "push"}]
  /\ due \in [Clones -> BOOLEAN] /\ snap \in [Clones -> Lines]
  /\ job \in [Clones -> EditKinds \cup {"none", "flush"}] /\ overwritten \subseteq Issues
  /\ \A c \in Clones : pc[c] = "idle" => cmd[c] = "none" /\ ~due[c]
  /\ \A c \in Clones : Locked(c) <=> snap[c] # Empty

(* No push undoes what another clone pushed without having seen it: a      *)
(* title or a status on the remote is replaced by a line whose updated_at  *)
(* is not before the time when it was written.  In particular no issue     *)
(* disappears.  There are three exceptions.                                *)
(*                                                                         *)
(* A clone wrote over the issue's line before it had read it: the flush of *)
(* a command that imported before the pull and flushes after it, of delete,*)
(* which does not import, or of the sync's own timer, between a pull and   *)
(* its import; or the export of a sync without a hook.  The flush takes    *)
(* the file's hash as a mismatch, exports in full and remembers the file,  *)
(* which is then never imported; the next push takes the line back.        *)
(*                                                                         *)
(* A clone deleted the issue: a flush in full writes no tombstones, and    *)
(* the next commit takes the line from the remote, or its tombstone.       *)
(*                                                                         *)
(* There are three clones.  Let all close an issue, two of them after      *)
(* giving it a title.  These two merge the third's line into lines with    *)
(* its updated_at and the content that their rows have, which the importer *)
(* therefore leaves at their older times.  One exports its row and pushes  *)
(* it; the other died before its export, so that its next pull merges its  *)
(* merged line, which wins by its time, and pushes the older title over    *)
(* the newer one, in a row that is older than both.                        *)
Deleted(i) == \E c \in Clones : Dead(ws[c].db[i])

RemoteKeepsNewest ==
  [][\A i \in Issues :
       \/ Deleted(i) \/ i \in overwritten
       \/ /\ remote'[i].title # remote[i].title => remote'[i].at >= remote[i].title
          /\ remote'[i].status # remote[i].status => remote'[i].at >= remote[i].since]_vars

(* A clone with nothing to pull, push, commit, flush or import has nothing *)
(* in its database that is older than the remote's, except for what it     *)
(* deleted.  (It may have newer content that nothing marks: an edit beside *)
(* an export, whose mark finalizeExport clears.)                           *)
Settled(c) ==
  /\ pc[c] = "idle" /\ ~git[c].ahead /\ ~git[c].behind
  /\ ws[c].file = git[c].head /\ ws[c].known = ws[c].file /\ ws[c].dirty = {}

SettledIsCurrent ==
  \A c \in Clones : Settled(c) =>
    \A i \in Issues :
      \/ Content(ws[c].db[i]) = Content(remote[i])
      \/ ws[c].db[i].at > remote[i].at \/ Dead(ws[c].db[i])

-----------------------------------------------------------------------------
(* A claim of the documentation, false of the code in run git_sync_lost.   *)

(* "Scalars (title, status, priority): LWW, only one value possible; most  *)
(* recent wins": a push never replaces a title by one written earlier.     *)
MostRecentTitleWins ==
  [][\A i \in Issues :
       Dead(remote'[i]) \/ remote'[i].title >= remote[i].title]_vars
=============================================================================
