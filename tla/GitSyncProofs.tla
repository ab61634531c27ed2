------------------------------ MODULE GitSyncProofs ------------------------------
(***************************************************************************)
(* What a clone has when nothing is left to do, for any clones, issues,    *)
(* commands, edits and failures; what a push may replace, for two clones;  *)
(* and when nothing is overwritten that the database has not read.         *)
(***************************************************************************)
EXTENDS GitSync, TLAPS

-----------------------------------------------------------------------------
(* Lines.                                                                  *)

(* Nothing in a line is later than its updated_at, that is not ahead of    *)
(* the clock; every issue has a title; what is open was never closed.      *)
Sane(l, now) ==
  /\ l \in Line /\ l.title <= l.at /\ l.since <= l.at /\ l.at <= now
  /\ l.title = 0 => l = Absent
  /\ l.status = "open" => l.since = 0

(* The database has what the line says, or something that is not older, or *)
(* a tombstone.                                                            *)
Seen(row, l) == l = Absent \/ Content(row) = Content(l) \/ row.at >= l.at \/ Dead(row)

LEMMA AbsentIs ==
  /\ Absent \in Line /\ Absent.at = 0 /\ Absent.title = 0 /\ Absent.since = 0
  /\ Absent.status = "open" /\ ~Dead(Absent) /\ \A now \in Nat : Sane(Absent, now)
BY DEF Absent, Line, Statuses, Dead, Sane

LEMMA SaneLater ==
  ASSUME NEW l, NEW now \in Nat, NEW later \in Nat, now <= later, Sane(l, now)
  PROVE  Sane(l, later)
BY DEF Sane, Line

LEMMA SeenAbsent ==
  ASSUME NEW l, NEW now \in Nat, Sane(l, now)
  PROVE  /\ l # Absent => l.title > 0 /\ l.at > 0
         /\ Seen(Absent, l) => l = Absent
<1>1. l # Absent => l.title > 0 /\ l.at > 0
  BY DEF Sane, Line
<1> QED BY <1>1, AbsentIs DEF Seen, Content, Sane, Line

LEMMA UpsertIs ==
  ASSUME NEW cur, NEW in, NEW now \in Nat, NEW later \in Nat, now < later,
         Sane(cur, now), Sane(in, now)
  PROVE  /\ Sane(Upsert(cur, in, later), later)
         /\ Seen(Upsert(cur, in, later), in)
         /\ \/ Upsert(cur, in, later) = cur
            \/ cur = Absent /\ Upsert(cur, in, later) = in
            \/ Upsert(cur, in, later).at = later
         /\ cur # Absent => Upsert(cur, in, later) # Absent
         /\ Dead(cur) => Upsert(cur, in, later) = cur
<1>1. CASE in = Absent
  BY <1>1, SaneLater DEF Upsert, Seen
<1>2. CASE in # Absent /\ cur = Absent
  BY <1>2, SaneLater, AbsentIs DEF Upsert, Seen
<1>3. CASE in # Absent /\ cur # Absent /\ Imports(cur, in)
  <2> DEFINE l == [in EXCEPT !.at = later, !.since = IF Dead(in) THEN 0 ELSE @]
  <2>1. Upsert(cur, in, later) = l
    BY <1>3 DEF Upsert
  <2>2. l \in Line /\ l.title = in.title /\ l.status = in.status /\ l.at = later
        /\ (l.since = 0 \/ l.since = in.since)
    BY DEF Sane, Line
  <2> HIDE DEF l
  <2>3. in.title > 0
    BY <1>3, SeenAbsent
  <2>4. Sane(l, later) /\ l # Absent
    BY <2>2, <2>3, AbsentIs DEF Sane, Line
  <2>5. Seen(l, in)
    BY <2>2 DEF Seen, Content
  <2>6. ~Dead(cur)
    BY <1>3 DEF Imports
  <2> QED BY <2>1, <2>2, <2>4, <2>5, <2>6
<1>4. CASE in # Absent /\ cur # Absent /\ ~Imports(cur, in)
  <2>1. Upsert(cur, in, later) = cur
    BY <1>4 DEF Upsert
  <2>2. Seen(cur, in)
    BY <1>4 DEF Seen, Imports, Sane, Line
  <2> QED BY <1>4, <2>1, <2>2, SaneLater
<1> QED BY <1>1, <1>2, <1>3, <1>4

(* An edit makes a line that is new.                                       *)
LEMMA EditedIs ==
  ASSUME NEW l, NEW kind \in EditKinds, NEW now \in Nat, NEW later \in Nat, now < later,
         Sane(l, now), Editable(l, kind)
  PROVE  Sane(Edited(l, kind, later), later) /\ Edited(l, kind, later).at = later
         /\ Edited(l, kind, later) # Absent /\ ~Dead(l)
<1> DEFINE e == Edited(l, kind, later)
<1>1. kind = "create" \/ l # Absent
  BY AbsentIs DEF Editable, EditKinds
<1>2. /\ e \in Line /\ e.at = later
      /\ \/ kind \in {"create", "title"} /\ e.title = later
         \/ kind \notin {"create", "title"} /\ e.title = l.title
      /\ e.since \in {later, l.since}
      /\ e.status = "open" => e.since = l.since /\ l.status = "open"
  BY DEF Edited, EditKinds, Sane, Line, Statuses
<1> HIDE DEF e
<1>3. e.title > 0
  BY <1>1, <1>2, SeenAbsent DEF Sane, Line
<1>4. Sane(e, later) /\ e # Absent
  BY <1>2, <1>3, AbsentIs DEF Sane, Line
<1>5. ~Dead(l)
  BY AbsentIs DEF Editable, EditKinds, Dead
<1> QED BY <1>2, <1>4, <1>5 DEF e

(* The merge driver.                                                       *)
LEMMA MergeIssueIs ==
  ASSUME NEW b, NEW l, NEW r, NEW now \in Nat, Sane(b, now), Sane(l, now), Sane(r, now),
         l # Absent, r # Absent, ~Dead(l), ~Dead(r)
  PROVE  Sane(MergeIssue(b, l, r), now)
<1> DEFINE m == MergeIssue(b, l, r)
<1>1. /\ m.title \in {l.title, r.title} /\ m.since = Later(l.since, r.since)
      /\ m.at = Later(l.at, r.at) /\ m.status \in Statuses
      /\ m.status = "open" => l.status = "open" /\ r.status = "open"
      /\ m = [title |-> m.title, status |-> m.status, since |-> m.since, at |-> m.at]
  BY DEF MergeIssue, MergeTitle, MergeTimes, Statuses, Sane, Line, Dead
<1> HIDE DEF m
<1>2. m.at \in Nat /\ m.at >= l.at /\ m.at >= r.at /\ m.at <= now
      /\ m.since \in Nat /\ (m.since <= l.since \/ m.since <= r.since)
  BY <1>1 DEF Later, Sane, Line
<1>3. l.at > 0 /\ (m.status = "open" => m.since = 0)
  BY <1>1 DEF Sane, Line, Later
<1>4. m \in Line
  BY <1>1, <1>2 DEF Line, Sane
<1>5. Sane(m, now)
  BY <1>1, <1>2, <1>3, <1>4 DEF Sane, Line
<1> QED BY <1>5 DEF m

LEMMA MergeLineIs ==
  ASSUME NEW b, NEW l, NEW r, NEW now \in Nat, Sane(b, now), Sane(l, now), Sane(r, now)
  PROVE  /\ Sane(MergeLine(b, l, r), now)
         /\ l = Absent => MergeLine(b, l, r) \in {r, Absent}
<1>1. CASE l = Absent
  BY <1>1, AbsentIs DEF MergeLine, MergeOneSided
<1>2. CASE l # Absent /\ r = Absent
  BY <1>2, AbsentIs DEF MergeLine, MergeOneSided
<1>3. CASE l # Absent /\ r # Absent
  <2>1. CASE Dead(l) \/ Dead(r)
    BY <1>3, <2>1 DEF MergeLine, MergeTombstones
  <2>2. CASE ~Dead(l) /\ ~Dead(r)
    BY <1>3, <2>2, MergeIssueIs DEF MergeLine
  <2> QED BY <2>1, <2>2
<1> QED BY <1>1, <1>2, <1>3

(* The merge driver's result does not depend on which of two clones runs   *)
(* it, but for a tie: edits, or deletions, at the same time.               *)
THEOREM MergeCommutes ==
  ASSUME NEW b, NEW l \in Line, NEW r \in Line,
         l.at = r.at => l.title = r.title,
         Dead(l) /\ Dead(r) /\ l.since = r.since => l = r
  PROVE  MergeLine(b, l, r) = MergeLine(b, r, l)
<1>1. CASE l = Absent \/ r = Absent
  BY <1>1 DEF MergeLine, MergeOneSided
<1>2. CASE l # Absent /\ r # Absent /\ Dead(l) /\ Dead(r)
  BY <1>2 DEF MergeLine, MergeTombstones, Line
<1>3. CASE l # Absent /\ r # Absent /\ ~(Dead(l) <=> Dead(r))
  BY <1>3 DEF MergeLine
<1>4. CASE l # Absent /\ r # Absent /\ ~Dead(l) /\ ~Dead(r)
  <2>1. MergeTitle(b, l, r) = MergeTitle(b, r, l)
    BY DEF MergeTitle, Line
  <2>2. Later(l.since, r.since) = Later(r.since, l.since) /\ MergeTimes(l, r) = MergeTimes(r, l)
    BY DEF Later, MergeTimes, Line
  <2>3. MergeIssue(b, l, r) = MergeIssue(b, r, l)
    BY <2>1, <2>2 DEF MergeIssue
  <2> QED BY <1>4, <2>3 DEF MergeLine
<1> QED BY <1>1, <1>2, <1>3, <1>4

(* Two sides that say the same are left alone, whatever the base: a pull   *)
(* that meets its own push again changes nothing.                          *)
THEOREM MergeIdempotent ==
  ASSUME NEW b, NEW l \in Line
  PROVE  MergeLine(b, l, l) = l
<1>1. CASE l = Absent \/ Dead(l)
  BY <1>1, AbsentIs DEF MergeLine, MergeOneSided, MergeTombstones
<1>2. CASE l # Absent /\ ~Dead(l)
  <2>1. l.status \in {"open", "closed"}
    BY <1>2 DEF Dead, Line, Statuses
  <2>2. MergeIssue(b, l, l) = [title |-> l.title, status |-> l.status, since |-> l.since, at |-> l.at]
    BY <2>1 DEF MergeIssue, MergeTitle, MergeTimes, Later
  <2>3. l = [title |-> l.title, status |-> l.status, since |-> l.since, at |-> l.at]
    BY DEF Line
  <2> QED BY <1>2, <2>2, <2>3 DEF MergeLine
<1> QED BY <1>1, <1>2

(* A tombstone on either side is a tombstone in the merge, whatever the    *)
(* other side did: with tombstones no deletion comes back by a merge.      *)
THEOREM MergeKeepsTombstones ==
  ASSUME NEW b \in Line, NEW l \in Line, NEW r \in Line, Dead(l) \/ Dead(r)
  PROVE  Dead(MergeLine(b, l, r))
BY AbsentIs DEF MergeLine, MergeOneSided, MergeTombstones, Dead

(* What becomes of a line as commands edit it, until there is a tombstone. *)
Succeeds(b, l) ==
  \/ b = Absent \/ l = b
  \/ /\ l # Absent /\ ~Dead(b)
     /\ b.status = "closed" => l.status # "open"
     /\ b.since <= l.since /\ b.at <= l.at

LEMMA SucceedsOnAndOn ==
  ASSUME NEW b \in Line, NEW l \in Line, NEW m \in Line, Succeeds(b, l), Succeeds(l, m)
  PROVE  Succeeds(b, m)
BY AbsentIs DEF Succeeds, Line, Statuses, Dead

LEMMA EditSucceeds ==
  ASSUME NEW now \in Nat, NEW later \in Nat, now <= later, NEW l, Sane(l, now),
         NEW kind \in EditKinds, Editable(l, kind)
  PROVE  Succeeds(l, Edited(l, kind, later))
<1>1. CASE l = Absent
  BY <1>1 DEF Succeeds
<1>2. CASE l # Absent
  <2> DEFINE e == Edited(l, kind, later)
  <2>1. kind \in {"title", "close", "delete", "cleanup"} /\ ~Dead(l)
    BY <1>2 DEF Editable, EditKinds, Dead
  <2>2. e.at = later /\ e.since \in {l.since, later}
        /\ (kind = "title" => e.status = l.status) /\ (kind # "title" => e.status # "open")
    BY <2>1 DEF Edited, Sane, Line
  <2>3. e # Absent
    <3>1. later > 0
      BY <1>2 DEF Sane, Line
    <3> QED BY <2>2, <3>1, AbsentIs
  <2>4. l.since <= e.since /\ l.at <= e.at
    BY <2>2 DEF Sane, Line
  <2> QED BY <2>1, <2>2, <2>3, <2>4 DEF Succeeds
<1> QED BY <1>1, <1>2

(* Where one side has only edited on and the other has done nothing, the   *)
(* merge is the edited line, on whichever side it is: the driver's rules   *)
(* (closed wins, the later date wins, a tombstone wins) lose no edit that  *)
(* nobody else has touched.                                                *)
THEOREM MergeTakesTheEdit ==
  ASSUME NEW b \in Line, NEW l \in Line, Succeeds(b, l)
  PROVE  MergeLine(b, b, l) = l /\ MergeLine(b, l, b) = l
<1>1. CASE l = b
  BY <1>1, MergeIdempotent
<1>2. CASE b = Absent
  BY <1>2 DEF MergeLine, MergeOneSided
<1>3. CASE l # b /\ b # Absent /\ Dead(l)
  BY <1>3 DEF Succeeds, MergeLine
<1>4. CASE l # b /\ b # Absent /\ ~Dead(l)
  <2>1. /\ l # Absent /\ ~Dead(b) /\ b.since <= l.since /\ b.at <= l.at
        /\ b.status = "closed" => l.status # "open"
    BY <1>4 DEF Succeeds
  <2>2. l.status \in {"open", "closed"} /\ b.status \in {"open", "closed"}
    BY <1>4, <2>1 DEF Dead, Line, Statuses
  <2>3. \A s, t \in Nat : s <= t => Later(s, t) = t /\ Later(t, s) = t
    BY DEF Later
  <2>4. MergeTitle(b, b, l) = l.title /\ MergeTitle(b, l, b) = l.title
    BY DEF MergeTitle
  <2>5. l = [title |-> l.title, status |-> l.status, since |-> l.since, at |-> l.at]
    BY DEF Line
  <2>6. Later(b.since, l.since) = l.since /\ Later(l.since, b.since) = l.since
        /\ MergeTimes(b, l) = l.at /\ MergeTimes(l, b) = l.at
    BY <2>1, <2>3 DEF MergeTimes, Line
  <2>7. MergeIssue(b, b, l) = l /\ MergeIssue(b, l, b) = l
    BY <2>1, <2>2, <2>4, <2>5, <2>6 DEF MergeIssue
  <2> QED BY <1>4, <2>1, <2>7 DEF MergeLine
<1> QED BY <1>1, <1>2, <1>3, <1>4

-----------------------------------------------------------------------------
(* Workspaces.                                                             *)

SaneFile(f, now) == f \in Lines /\ \A i \in Issues : Sane(f[i], now)

(* The database has seen the files whose hashes are remembered.            *)
Work(w, now) ==
  /\ w \in Workspace
  /\ SaneFile(w.db, now) /\ SaneFile(w.file, now)
  /\ SaneFile(w.known, now) /\ SaneFile(w.hash, now)
  /\ \A i \in Issues : Seen(w.db[i], w.known[i]) /\ Seen(w.db[i], w.hash[i])

(* How a workspace may change after the time now: a row stays, is taken    *)
(* from the file, or is new, and so is a line of the file.                 *)
Moves(w, v, now) ==
  \A i \in Issues :
    /\ \/ v.db[i] = w.db[i]
       \/ w.db[i] = Absent /\ v.db[i] = w.file[i]
       \/ v.db[i].at > now
    /\ w.db[i] # Absent => v.db[i] # Absent
    /\ Dead(w.db[i]) => v.db[i] = w.db[i]
    /\ v.file[i] \in {w.file[i], v.db[i]} \/ (v.file[i] = Absent /\ Dead(v.db[i]))

LEMMA FileLater ==
  ASSUME NEW f, NEW now \in Nat, NEW later \in Nat, now <= later, SaneFile(f, now)
  PROVE  SaneFile(f, later)
BY SaneLater DEF SaneFile

LEMMA WorkLater ==
  ASSUME NEW w, NEW now \in Nat, NEW later \in Nat, now <= later, Work(w, now)
  PROVE  Work(w, later)
BY FileLater DEF Work

(* What was seen stays seen.                                               *)
LEMMA SeenStays ==
  ASSUME NEW w, NEW v, NEW now \in Nat, Moves(w, v, now), NEW i \in Issues, NEW l,
         Sane(l, now), Seen(w.db[i], l), v.db[i].at \in Nat
  PROVE  Seen(v.db[i], l)
<1>1. CASE v.db[i] = w.db[i]
  BY <1>1
<1>2. CASE w.db[i] = Absent
  BY <1>2, SeenAbsent DEF Seen
<1>3. CASE v.db[i].at > now
  BY <1>3 DEF Seen, Sane, Line
<1> QED BY <1>1, <1>2, <1>3 DEF Moves

LEMMA ImportFileIs ==
  ASSUME NEW w, NEW now \in Nat, NEW later \in Nat, now < later, Work(w, now)
  PROVE  LET v == ImportFile(w, later) IN
         /\ Work(v, later) /\ Moves(w, v, now)
         /\ v.file = w.file /\ v.known = w.file /\ v.hash = w.hash
         /\ v.db = w.db => Work(v, now)
<1> DEFINE v == ImportFile(w, later)
<1>1. /\ v.db = Imported(w, later) /\ v.dirty = w.dirty \cup Changed(w, later)
      /\ v.file = w.file /\ v.known = w.file /\ v.hash = w.hash
      /\ v = [db |-> v.db, dirty |-> v.dirty, file |-> v.file, known |-> v.known, hash |-> v.hash]
  <2>1. w = [db |-> w.db, dirty |-> w.dirty, file |-> w.file, known |-> w.known, hash |-> w.hash]
    BY DEF Work, Workspace
  <2>2. v = [db |-> Imported(w, later), dirty |-> w.dirty \cup Changed(w, later),
             file |-> w.file, known |-> w.file, hash |-> w.hash]
    <3> DEFINE new == Imported(w, later)
               all == w.dirty \cup Changed(w, later)
    <3> HIDE DEF new, all
    <3>1. v = [w EXCEPT !.db = new, !.dirty = all, !.known = w.file]
      BY DEF ImportFile, new, all
    <3>2. v = [db |-> new, dirty |-> all, file |-> w.file, known |-> w.file, hash |-> w.hash]
      BY <2>1, <3>1
    <3> QED BY <3>2 DEF new, all
  <2> QED BY <2>2
<1> HIDE DEF v
<1>2. \A i \in Issues : Sane(w.db[i], now) /\ Sane(w.file[i], now)
  BY DEF Work, SaneFile
<1>3. v.db = [i \in Issues |-> Upsert(w.db[i], w.file[i], later)]
  BY <1>1 DEF Imported
<1>4. ASSUME NEW i \in Issues
      PROVE  /\ Sane(v.db[i], later) /\ Seen(v.db[i], w.file[i])
             /\ \/ v.db[i] = w.db[i]
                \/ w.db[i] = Absent /\ v.db[i] = w.file[i]
                \/ v.db[i].at > now
             /\ w.db[i] # Absent => v.db[i] # Absent
             /\ Dead(w.db[i]) => v.db[i] = w.db[i]
  BY <1>2, <1>3, UpsertIs
<1>5. SaneFile(v.db, later)
  <2>1. \A i \in Issues : Upsert(w.db[i], w.file[i], later) \in Line
    BY <1>3, <1>4 DEF Sane
  <2> QED BY <1>3, <1>4, <2>1 DEF SaneFile, Lines
<1>6. Moves(w, v, now)
  BY <1>1, <1>4 DEF Moves
<1>7. ASSUME NEW i \in Issues PROVE Seen(v.db[i], w.hash[i])
  BY <1>4, <1>6, SeenStays DEF Work, SaneFile, Sane, Line
<1>8. v \in Workspace
  BY <1>1, <1>5 DEF SaneFile, Work, Workspace, Changed
<1>9. Work(v, later)
  <2>1. Work(w, later)
    BY WorkLater
  <2> QED BY <1>1, <1>4, <1>5, <1>7, <1>8, <2>1 DEF Work
<1>10. v.db = w.db => Work(v, now)
  BY <1>1, <1>4, <1>8 DEF Work
<1> QED BY <1>1, <1>6, <1>9, <1>10 DEF v

LEMMA AutoImportIs ==
  ASSUME NEW w, NEW now \in Nat, NEW later \in Nat, now < later, Work(w, now)
  PROVE  LET v == AutoImport(w, later) IN
         /\ Work(v, later) /\ Moves(w, v, now)
         /\ v.file = w.file /\ v.known = w.file
         /\ v.db = w.db => Work(v, now)
<1>1. CASE w.file = w.known
  BY <1>1, WorkLater DEF AutoImport, Moves
<1>2. CASE w.file # w.known
  BY <1>2, ImportFileIs DEF AutoImport
<1> QED BY <1>1, <1>2

LEMMA FlushIs ==
  ASSUME NEW w, NEW now \in Nat, Work(w, now)
  PROVE  LET v == Flush(w) IN
         /\ Work(v, now) /\ v.db = w.db
         /\ \A i \in Issues :
              v.file[i] \in {w.file[i], w.db[i]} \/ (v.file[i] = Absent /\ Dead(w.db[i]))
         /\ w.known = w.file => v.known = v.file
         /\ w.file # w.hash => \A i \in Issues : v.file[i] = w.db[i] \/ Dead(w.db[i])
<1> DEFINE f == Flushed(w)
<1>1. CASE w.file = w.hash /\ w.dirty = {}
  BY <1>1 DEF Flush
<1>2. CASE ~(w.file = w.hash /\ w.dirty = {})
  <2> DEFINE v == Flush(w)
  <2>1. /\ v.db = w.db /\ v.dirty = {i \in w.dirty : f[i] = Absent}
        /\ v.file = f /\ v.known = f /\ v.hash = f
        /\ v = [db |-> v.db, dirty |-> v.dirty, file |-> v.file, known |-> v.known, hash |-> v.hash]
    <3>1. w = [db |-> w.db, dirty |-> w.dirty, file |-> w.file, known |-> w.known, hash |-> w.hash]
      BY DEF Work, Workspace
    <3> QED BY <1>2, <3>1 DEF Flush
  <2>2. /\ f = [i \in Issues |-> f[i]]
        /\ \A i \in Issues :
             \/ f[i] = w.db[i]
             \/ f[i] = Absent /\ Dead(w.db[i])
             \/ w.file = w.hash /\ f[i] = w.file[i]
    <3>1. CASE w.file = w.hash
      BY <3>1 DEF Flushed
    <3>2. CASE w.file # w.hash
      BY <3>2 DEF Flushed
    <3> QED BY <3>1, <3>2
  <2> HIDE DEF v, f
  <2>3. \A i \in Issues : Sane(w.db[i], now) /\ Sane(w.file[i], now) /\ Sane(Absent, now)
    BY AbsentIs DEF Work, SaneFile
  <2>4. \A i \in Issues : Sane(f[i], now) /\ Seen(w.db[i], f[i])
    BY <2>2, <2>3 DEF Work, Seen
  <2>5. SaneFile(f, now)
    BY <2>2, <2>4 DEF SaneFile, Lines, Sane
  <2>6. v \in Workspace
    BY <2>1, <2>5 DEF SaneFile, Work, Workspace
  <2>7. Work(v, now)
    BY <2>1, <2>4, <2>5, <2>6 DEF Work
  <2>8. \A i \in Issues :
          v.file[i] \in {w.file[i], w.db[i]} \/ (v.file[i] = Absent /\ Dead(w.db[i]))
    BY <2>1, <2>2
  <2>9. w.file # w.hash => \A i \in Issues : v.file[i] = w.db[i] \/ Dead(w.db[i])
    BY <2>1, <2>2
  <2> QED BY <2>1, <2>7, <2>8, <2>9 DEF v
<1> QED BY <1>1, <1>2

-----------------------------------------------------------------------------
(* The types, and what a clone knows.                                      *)

Tables ==
  /\ ws = [c \in Clones |-> ws[c]] /\ git = [c \in Clones |-> git[c]]
  /\ pc = [c \in Clones |-> pc[c]] /\ cmd = [c \in Clones |-> cmd[c]]
  /\ due = [c \in Clones |-> due[c]] /\ snap = [c \in Clones |-> snap[c]]
  /\ job = [c \in Clones |-> job[c]]

Process(c) ==
  /\ pc[c] \in PCs /\ cmd[c] \in {"none", "sync", "pull", "push"} /\ due[c] \in BOOLEAN
  /\ pc[c] = "idle" => cmd[c] = "none" /\ ~due[c]
  /\ job[c] \in EditKinds \cup {"none", "flush"}

(* A clone knows what the remote has, and that it has it all, unless it is *)
(* behind or ahead.                                                        *)
Branch(c) ==
  /\ git[c] \in Repo /\ SaneFile(git[c].head, clock) /\ SaneFile(git[c].base, clock)
  /\ ~git[c].behind => git[c].base = remote
  /\ ~git[c].ahead => git[c].head = git[c].base

(* The file that a pull finds has been imported.                           *)
Files(c) ==
  /\ Work(ws[c], clock) /\ \A i \in Synced : ws[c].db[i] # Absent
  /\ SaneFile(snap[c], clock) /\ \A i \in Issues : Seen(ws[c].db[i], snap[c][i])
  /\ Locked(c) <=> snap[c] # Empty
  /\ pc[c] = "pull" => ws[c].known = ws[c].file

Sound ==
  /\ clock \in Nat /\ SaneFile(remote, clock) /\ Tables /\ overwritten \subseteq Issues
  /\ \A c \in Clones : Process(c) /\ Branch(c) /\ Files(c)

LEMMA SoundTypes == Sound => TypeOK
<1> SUFFICES ASSUME Sound PROVE TypeOK
  OBVIOUS
<1>1. \A c \in Clones : ws[c] \in Workspace /\ git[c] \in Repo /\ snap[c] \in Lines
  BY DEF Sound, Files, Branch, Work, SaneFile
<1>2. ws \in [Clones -> Workspace] /\ git \in [Clones -> Repo] /\ snap \in [Clones -> Lines]
  BY <1>1 DEF Sound, Tables
<1>3. /\ pc \in [Clones -> PCs] /\ cmd \in [Clones -> {"none", "sync", "pull", "push"}]
      /\ due \in [Clones -> BOOLEAN] /\ job \in [Clones -> EditKinds \cup {"none", "flush"}]
  BY DEF Sound, Tables, Process
<1> QED BY <1>2, <1>3 DEF Sound, SaneFile, Process, Files, TypeOK

LEMMA EmptyIs ==
  /\ \A i \in Issues : Empty[i] = Absent
  /\ \A now \in Nat : SaneFile(Empty, now)
BY AbsentIs DEF Empty, SaneFile, Lines

LEMMA SoundInit == Init => Sound
<1> SUFFICES ASSUME Init PROVE Sound
  OBVIOUS
<1> DEFINE first == [title |-> 1, status |-> "open", since |-> 0, at |-> 1]
           start == [i \in Issues |-> IF i \in Synced THEN first ELSE Absent]
<1>1. Sane(first, 1) /\ Sane(Absent, 1) /\ first # Absent
  BY AbsentIs DEF Sane, Line, Statuses
<1>2. /\ clock = 1 /\ remote = start
      /\ ws = [c \in Clones |-> [db |-> start, dirty |-> {}, file |-> start,
                                 known |-> start, hash |-> start]]
      /\ git = [c \in Clones |-> [head |-> start, base |-> start,
                                  ahead |-> FALSE, behind |-> FALSE]]
      /\ pc = [c \in Clones |-> "idle"] /\ cmd = [c \in Clones |-> "none"]
      /\ due = [c \in Clones |-> FALSE] /\ snap = [c \in Clones |-> Empty]
      /\ job = [c \in Clones |-> "none"] /\ overwritten = {}
  BY DEF Init
<1> HIDE DEF first
<1>3. SaneFile(start, 1) /\ \A i \in Synced : start[i] # Absent
  BY <1>1, GitSyncAssumption DEF SaneFile, Lines, Sane
<1> HIDE DEF start
<1>4. Tables
  BY <1>2 DEF Tables
<1>5. ASSUME NEW c \in Clones PROVE Process(c) /\ Branch(c) /\ Files(c)
  <2>1. Process(c)
    BY <1>2 DEF Process, PCs
  <2>2. Branch(c)
    BY <1>2, <1>3 DEF Branch, Repo, SaneFile
  <2>3. Work(ws[c], 1)
    BY <1>2, <1>3 DEF Work, Workspace, SaneFile, Seen
  <2>4. Files(c)
    BY <1>2, <1>3, <2>3, EmptyIs DEF Files, Locked, Seen
  <2> QED BY <2>1, <2>2, <2>4
<1> QED BY <1>2, <1>3, <1>4, <1>5 DEF Sound

(* A step of one clone leaves the others alone, a push but for the news.   *)
Alone(c) ==
  \A d \in Clones \ {c} :
    /\ ws'[d] = ws[d] /\ git'[d] = git[d] /\ snap'[d] = snap[d]
    /\ pc'[d] = pc[d] /\ cmd'[d] = cmd[d] /\ due'[d] = due[d] /\ job'[d] = job[d]

(* What has been overwritten is not forgotten.                             *)
Grows == overwritten \subseteq overwritten' /\ overwritten' \subseteq overwritten \cup Issues

LEMMA CloneStep ==
  ASSUME Sound, NEW c \in Clones, Alone(c), Tables', UNCHANGED remote, Grows,
         clock' \in Nat, clock <= clock', Process(c)', Branch(c)', Files(c)'
  PROVE  Sound'
<1>1. ASSUME NEW d \in Clones, d # c PROVE Process(d)' /\ Branch(d)' /\ Files(d)'
  <2>1. Process(d) /\ Branch(d) /\ Files(d)
    BY DEF Sound
  <2>2. /\ ws'[d] = ws[d] /\ git'[d] = git[d] /\ snap'[d] = snap[d]
        /\ pc'[d] = pc[d] /\ cmd'[d] = cmd[d] /\ due'[d] = due[d] /\ job'[d] = job[d]
    BY <1>1 DEF Alone
  <2>3. Process(d)'
    BY <2>1, <2>2 DEF Process
  <2>4. Branch(d)'
    BY <2>1, <2>2, FileLater DEF Branch, Sound
  <2>5. Files(d)'
    BY <2>1, <2>2, FileLater, WorkLater DEF Files, Locked, Sound
  <2> QED BY <2>3, <2>4, <2>5
<1>2. SaneFile(remote, clock') /\ overwritten' \subseteq Issues
  BY FileLater DEF Sound, Grows
<1> QED BY <1>1, <1>2 DEF Sound

LEMMA CommandAlone ==
  ASSUME Tables, NEW c \in Clones, Command(c)
  PROVE  Alone(c) /\ Tables' /\ UNCHANGED <<remote, git, sync>> /\ Grows
<1>1. UNCHANGED <<remote, git, sync>>
  BY DEF Command, Start, Write, FlushEdit, Quit
<1>2. \A d \in Clones \ {c} : ws'[d] = ws[d] /\ job'[d] = job[d]
  BY DEF Tables, Command, Start, Write, FlushEdit, Quit
<1>3. ws' = [d \in Clones |-> ws'[d]] /\ job' = [d \in Clones |-> job'[d]]
  BY DEF Tables, Command, Start, Write, FlushEdit, Quit
<1>4. Grows
  BY DEF Grows, Overwrites, Command, Start, Write, FlushEdit, Quit
<1> QED BY <1>1, <1>2, <1>3, <1>4 DEF Alone, Tables, sync

LEMMA ActsAlone ==
  ASSUME Tables, NEW c \in Clones,
         \/ \E k \in {"sync", "pull", "push"} : Begin(c, k)
         \/ Pull(c) \/ PullFails(c) \/ Hook(c) \/ Import(c)
         \/ ExportList(c) \/ ExportWrite(c) \/ Finalize(c)
         \/ NothingToCommit(c) \/ Commit(c)
         \/ AutoFlush(c) \/ Finish(c) \/ Abort(c) \/ Command(c)
  PROVE  Alone(c) /\ Tables' /\ UNCHANGED remote /\ Grows
<1>1. CASE Command(c)
  BY <1>1, CommandAlone
<1>2. CASE ~Command(c)
  <2>1. Alone(c)
    BY <1>2 DEF Tables, Alone, Begin, Pull, PullFails, Hook, Import, ExportList, ExportWrite, Finalize,
           NothingToCommit, Commit, AutoFlush, Finish, Abort, Goto
  <2>2. Tables'
    BY <1>2 DEF Tables, Begin, Pull, PullFails, Hook, Import, ExportList, ExportWrite, Finalize,
           NothingToCommit, Commit, AutoFlush, Finish, Abort, Goto
  <2>3. UNCHANGED remote
    BY <1>2 DEF Begin, Pull, PullFails, Hook, Import, ExportList, ExportWrite, Finalize,
           NothingToCommit, Commit, AutoFlush, Finish, Abort
  <2>4. Grows
    BY <1>2 DEF Grows, Overwrites, Begin, Pull, PullFails, Hook, Import, ExportList, ExportWrite,
           Finalize, NothingToCommit, Commit, AutoFlush, Finish, Abort
  <2> QED BY <2>1, <2>2, <2>3, <2>4
<1> QED BY <1>1, <1>2

(* What an action has to show for a clone: of its workspace ...            *)
LEMMA WorkStep ==
  ASSUME Sound, NEW c \in Clones, clock' \in Nat, clock <= clock',
         Work(ws'[c], clock'), Moves(ws[c], ws'[c], clock),
         snap'[c] = snap[c], Locked(c)' <=> Locked(c),
         pc'[c] = "pull" => ws'[c].known = ws'[c].file
  PROVE  Files(c)'
<1>1. Files(c) /\ clock \in Nat
  BY DEF Sound
<1>2. \A i \in Issues : Sane(snap[c][i], clock) /\ ws'[c].db[i].at \in Nat
  BY <1>1 DEF Files, Work, SaneFile, Sane, Line
<1>3. \A i \in Issues : Seen(ws'[c].db[i], snap[c][i])
  BY <1>1, <1>2, SeenStays DEF Files
<1>4. \A i \in Synced : ws'[c].db[i] # Absent
  BY <1>1, GitSyncAssumption DEF Files, Moves
<1>5. SaneFile(snap[c], clock')
  BY <1>1, FileLater DEF Files
<1>6. Locked(c)' <=> snap'[c] # Empty
  BY <1>1 DEF Files
<1> QED BY <1>3, <1>4, <1>5, <1>6 DEF Files

(* ... of its repository ...                                               *)
LEMMA BranchSame ==
  ASSUME Sound, NEW c \in Clones, clock' \in Nat, clock <= clock',
         git'[c] = git[c], UNCHANGED remote
  PROVE  Branch(c)'
BY FileLater DEF Sound, Branch

LEMMA Here ==
  ASSUME Sound, NEW c \in Clones
  PROVE  /\ clock \in Nat /\ clock + 1 \in Nat /\ Process(c) /\ Branch(c) /\ Files(c)
         /\ Work(ws[c], clock) /\ Tables
BY DEF Sound, Files

LEMMA MovesTwice ==
  ASSUME NEW u, NEW w, NEW v, NEW now \in Nat, NEW mid \in Nat, now <= mid,
         Moves(u, w, now), w.file = u.file, Moves(w, v, mid),
         \A i \in Issues : v.db[i].at \in Nat
  PROVE  Moves(u, v, now)
BY DEF Moves

LEMMA MovesFlush ==
  ASSUME NEW u, NEW w, NEW now \in Nat, NEW later \in Nat, Moves(u, w, now), Work(w, later)
  PROVE  Moves(u, Flush(w), now)
BY FlushIs DEF Moves

LEMMA MovesNot == \A w, now : Moves(w, w, now)
BY DEF Moves

(* The steps of a command.                                                 *)
LEMMA StartIs ==
  ASSUME Sound, NEW c \in Clones, NEW kind \in Edits, Start(c, kind)
  PROVE  /\ clock' \in Nat /\ clock <= clock'
         /\ Work(ws'[c], clock') /\ Moves(ws[c], ws'[c], clock)
         /\ ws'[c].file = ws[c].file
         /\ ws[c].known = ws[c].file => ws'[c].known = ws[c].file
         /\ IF kind # "delete" /\ ~Locked(c) THEN ws'[c].known = ws[c].file ELSE ws'[c] = ws[c]
<1> DEFINE reads == kind # "delete" /\ ~Locked(c)
           w == IF reads THEN AutoImport(ws[c], clock + 1) ELSE ws[c]
<1>1. /\ ws' = [ws EXCEPT ![c] = w]
      /\ clock' = IF w.db # ws[c].db THEN clock + 1 ELSE clock
  BY DEF Start
<1>2. /\ Work(w, clock + 1) /\ Moves(ws[c], w, clock) /\ w.file = ws[c].file
      /\ w.db = ws[c].db => Work(w, clock)
      /\ IF reads THEN w.known = ws[c].file ELSE w = ws[c]
  <2>1. CASE reads
    BY <2>1, Here, AutoImportIs
  <2>2. CASE ~reads
    BY <2>2, Here, WorkLater, MovesNot
  <2> QED BY <2>1, <2>2
<1> HIDE DEF w
<1>3. ws'[c] = w
  BY <1>1, Here DEF Tables
<1> QED BY <1>1, <1>2, <1>3, Here

LEMMA StartStep ==
  ASSUME Sound, NEW c \in Clones, NEW kind \in Edits, Start(c, kind)
  PROVE  Sound'
<1>1. UNCHANGED <<remote, git, pc, cmd, due, snap>>
  BY DEF Start, sync
<1>2. job'[c] \in EditKinds \cup {"flush"}
  BY Here, GitSyncAssumption DEF Start, Tables
<1>3. Process(c)' /\ Branch(c)'
  BY <1>1, <1>2, Here, StartIs, BranchSame DEF Process
<1>4. Files(c)'
  BY <1>1, Here, StartIs, WorkStep DEF Files, Locked
<1>5. Command(c)
  BY DEF Command
<1> QED BY <1>3, <1>4, <1>5, Here, StartIs, ActsAlone, CloneStep

LEMMA WriteIs ==
  ASSUME Sound, NEW c \in Clones, NEW i \in Issues, Write(c, i)
  PROVE  /\ clock' = clock + 1 /\ Work(ws'[c], clock') /\ Moves(ws[c], ws'[c], clock)
         /\ ws'[c].file = ws[c].file /\ ws'[c].known = ws[c].known /\ ws'[c].hash = ws[c].hash
         /\ \A j \in Issues : ws'[c].db[j] = ws[c].db[j] \/ ws'[c].db[j].at > clock
<1> DEFINE w == ws[c]
           now == clock + 1
           line == Edited(w.db[i], job[c], now)
           v == [w EXCEPT !.db[i] = line, !.dirty = @ \cup {i}]
<1>1. /\ Editable(w.db[i], job[c]) /\ clock' = now /\ job[c] \in EditKinds
      /\ ws'[c] = v
  BY Here DEF Write, Tables
<1>2. clock \in Nat /\ now \in Nat /\ clock < now /\ clock <= now /\ Work(w, clock)
  BY Here
<1> HIDE DEF w
<1>3. \A j \in Issues : Sane(w.db[j], clock)
  BY <1>2 DEF Work, SaneFile
<1>4. Sane(line, now) /\ line.at = now /\ line # Absent /\ ~Dead(w.db[i])
  BY <1>1, <1>2, <1>3, EditedIs
<1> HIDE DEF line
<1>5. /\ v.db = [w.db EXCEPT ![i] = line] /\ v.dirty = w.dirty \cup {i}
      /\ v.file = w.file /\ v.known = w.known /\ v.hash = w.hash
      /\ v = [db |-> v.db, dirty |-> v.dirty, file |-> v.file, known |-> v.known, hash |-> v.hash]
  <2>1. w = [db |-> w.db, dirty |-> w.dirty, file |-> w.file, known |-> w.known, hash |-> w.hash]
    BY <1>2 DEF Work, Workspace
  <2> DEFINE new == [w.db EXCEPT ![i] = line]
             all == w.dirty \cup {i}
  <2>2. v = [w EXCEPT !.db = new, !.dirty = all]
    OBVIOUS
  <2> HIDE DEF new, all, v
  <2>3. v = [db |-> new, dirty |-> all, file |-> w.file, known |-> w.known, hash |-> w.hash]
    BY <2>1, <2>2
  <2> QED BY <2>3 DEF new, all
<1>6. v.db[i] = line /\ (\A j \in Issues \ {i} : v.db[j] = w.db[j]) /\ v.db \in [Issues -> Line]
  <2>1. w.db \in [Issues -> Line] /\ line \in Line
    BY <1>2, <1>4 DEF Work, SaneFile, Lines, Sane
  <2> QED BY <1>5, <2>1
<1> HIDE DEF v
<1>7. Work(w, now)
  BY <1>2, WorkLater
<1>8. Moves(w, v, clock)
  BY <1>2, <1>4, <1>5, <1>6 DEF Moves
<1>9. \A j \in Issues : Sane(v.db[j], now)
  BY <1>4, <1>6, <1>7 DEF Work, SaneFile
<1>10. SaneFile(v.db, now)
  BY <1>6, <1>9 DEF SaneFile, Lines
<1>11. \A j \in Issues : Seen(v.db[j], w.known[j]) /\ Seen(v.db[j], w.hash[j])
  BY <1>2, <1>8, <1>9, SeenStays DEF Work, SaneFile, Sane, Line
<1>12. v \in Workspace
  BY <1>5, <1>7, <1>10 DEF Work, SaneFile, Workspace
<1>13. Work(v, now)
  BY <1>5, <1>7, <1>10, <1>11, <1>12 DEF Work
<1>14. \A j \in Issues : v.db[j] = w.db[j] \/ v.db[j].at > clock
  BY <1>2, <1>4, <1>6
<1> QED BY <1>1, <1>5, <1>8, <1>13, <1>14 DEF w

LEMMA WriteStep ==
  ASSUME Sound, NEW c \in Clones, NEW i \in Issues, Write(c, i)
  PROVE  Sound'
<1>1. UNCHANGED <<remote, git, pc, cmd, due, snap>>
  BY DEF Write, sync
<1>2. job'[c] = "flush"
  BY Here DEF Write, Tables
<1>3. clock' \in Nat /\ clock <= clock'
  BY Here, WriteIs
<1>4. Process(c)' /\ Branch(c)'
  BY <1>1, <1>2, <1>3, Here, BranchSame DEF Process
<1>5. Files(c)'
  BY <1>1, <1>3, Here, WriteIs, WorkStep DEF Files, Locked
<1>6. Command(c)
  BY DEF Command
<1> QED BY <1>3, <1>4, <1>5, <1>6, Here, ActsAlone, CloneStep

(* The steps of a sync.                                                    *)
LEMMA BeginIs ==
  ASSUME Sound, NEW c \in Clones, NEW k \in {"sync", "pull", "push"}, Begin(c, k)
  PROVE  /\ clock' \in Nat /\ clock <= clock'
         /\ Work(ws'[c], clock') /\ Moves(ws[c], ws'[c], clock)
         /\ ws'[c].known = ws'[c].file /\ ws'[c].file = ws[c].file
<1> DEFINE w == AutoImport(ws[c], clock + 1)
<1>1. /\ ws' = [ws EXCEPT ![c] = w]
      /\ clock' = IF w.db # ws[c].db THEN clock + 1 ELSE clock
  BY DEF Begin
<1>2. /\ Work(w, clock + 1) /\ Moves(ws[c], w, clock)
      /\ w.known = w.file /\ w.file = ws[c].file /\ (w.db = ws[c].db => Work(w, clock))
  BY Here, AutoImportIs
<1> HIDE DEF w
<1>3. ws'[c] = w
  BY <1>1, Here DEF Tables
<1> QED BY <1>1, <1>2, <1>3, Here

LEMMA BeginStep ==
  ASSUME Sound, NEW c \in Clones, NEW k \in {"sync", "pull", "push"}, Begin(c, k)
  PROVE  Sound'
<1>1. /\ pc[c] = "idle" /\ pc'[c] \in {"pull", "export"} /\ cmd'[c] = k /\ due'[c] \in BOOLEAN
      /\ UNCHANGED <<remote, git, snap, job>>
  BY Here DEF Begin, Goto, Tables
<1>2. Process(c)' /\ Branch(c)'
  BY <1>1, Here, BeginIs, BranchSame DEF Process, PCs
<1>3. Files(c)'
  BY <1>1, BeginIs, WorkStep DEF Locked
<1> QED BY <1>2, <1>3, Here, BeginIs, ActsAlone, CloneStep

(* Hook and Import import what is there, and remember what they leave.     *)
LEMMA HookIs ==
  ASSUME Sound, NEW c \in Clones, Hook(c) \/ Import(c)
  PROVE  /\ clock' \in Nat /\ clock <= clock'
         /\ Work(ws'[c], clock') /\ Moves(ws[c], ws'[c], clock)
         /\ \A i \in Issues : Seen(ws'[c].db[i], ws[c].file[i])
         /\ ws'[c].known = ws'[c].file
<1> DEFINE w == ImportFile(ws[c], clock + 1)
           now == IF w.db # ws[c].db THEN clock + 1 ELSE clock
           f == IF w.db # ws[c].db THEN Flush(w) ELSE w
<1>1. clock' = now /\ \E g \in {w, f} : ws' = [ws EXCEPT ![c] = [g EXCEPT !.known = g.file, !.hash = g.file]]
  <2>1. CASE Hook(c)
    BY <2>1 DEF Hook
  <2>2. CASE Import(c)
    <3>1. w.known = w.file
      BY Here, ImportFileIs
    <3>2. w = [w EXCEPT !.known = w.file]
      <4>1. w \in Workspace
        BY Here, ImportFileIs DEF Work
      <4> HIDE DEF w
      <4> QED BY <3>1, <4>1 DEF Workspace
    <3>3. ws' = [ws EXCEPT ![c] = [w EXCEPT !.hash = w.file]] /\ clock' = now
      BY <2>2 DEF Import
    <3> HIDE DEF w
    <3>4. [w EXCEPT !.hash = w.file] = [w EXCEPT !.known = w.file, !.hash = w.file]
      BY <3>2
    <3> QED BY <3>3, <3>4
  <2> QED BY <2>1, <2>2
<1>2. now \in Nat /\ clock \in Nat /\ clock <= now /\ Work(w, now) /\ Moves(ws[c], w, clock)
      /\ w.known = w.file /\ w.file = ws[c].file
  BY Here, ImportFileIs
<1> HIDE DEF w, now
<1>3. Work(f, now) /\ Moves(ws[c], f, clock) /\ f.known = f.file /\ f.db = w.db
  BY <1>2, FlushIs, MovesFlush
<1> HIDE DEF f
<1>4. PICK g \in {w, f} : ws' = [ws EXCEPT ![c] = [g EXCEPT !.known = g.file, !.hash = g.file]]
  BY <1>1
<1> DEFINE v == [g EXCEPT !.known = g.file, !.hash = g.file]
<1>5. Work(g, now) /\ Moves(ws[c], g, clock) /\ g.known = g.file /\ g.db = w.db
  BY <1>2, <1>3
<1>6. /\ v.db = g.db /\ v.dirty = g.dirty /\ v.file = g.file /\ v.known = g.file /\ v.hash = g.file
      /\ v \in Workspace
  BY <1>5 DEF Work, Workspace
<1>7. ws'[c] = v
  BY <1>4, Here DEF Tables
<1> HIDE DEF v
<1>8. Work(v, now) /\ Moves(ws[c], v, clock)
  BY <1>5, <1>6 DEF Work, Moves
<1>9. \A i \in Issues : Seen(w.db[i], ws[c].file[i])
  BY <1>2 DEF Work
<1> QED BY <1>1, <1>2, <1>5, <1>6, <1>7, <1>8, <1>9

LEMMA HookStep ==
  ASSUME Sound, NEW c \in Clones, Hook(c) \/ Import(c)
  PROVE  Sound'
<1>1. /\ pc[c] \in {"hook", "import"} /\ pc'[c] \in {"import", "export", "done"}
      /\ UNCHANGED <<remote, git, cmd, due, snap, job>>
  BY Here DEF Hook, Import, Goto, AfterPull, Tables
<1>2. Process(c)' /\ Branch(c)'
  BY <1>1, Here, HookIs, BranchSame DEF Process, PCs
<1>3. Files(c)'
  BY <1>1, HookIs, WorkStep DEF Locked
<1> QED BY <1>2, <1>3, Here, HookIs, ActsAlone, CloneStep

LEMMA AutoFlushIs ==
  ASSUME Sound, NEW c \in Clones, AutoFlush(c) \/ FlushEdit(c)
  PROVE  /\ UNCHANGED <<clock, remote, git, pc, cmd, snap>>
         /\ Work(ws'[c], clock) /\ Moves(ws[c], ws'[c], clock) /\ ws'[c].db = ws[c].db
         /\ ws[c].known = ws[c].file => ws'[c].known = ws'[c].file
         /\ ws[c].file # ws[c].hash =>
              \A i \in Issues : ws'[c].file[i] = ws[c].db[i] \/ Dead(ws[c].db[i])
<1>1. /\ UNCHANGED <<clock, remote, git, pc, cmd, snap>>
      /\ ws'[c] = Flush(ws[c])
  BY Here DEF AutoFlush, FlushEdit, sync, Tables
<1> QED BY <1>1, Here, FlushIs, MovesFlush, MovesNot

LEMMA AutoFlushStep ==
  ASSUME Sound, NEW c \in Clones, AutoFlush(c) \/ FlushEdit(c)
  PROVE  Sound'
<1>1. due'[c] \in {due[c], FALSE} /\ job'[c] \in {job[c], "none"}
  BY Here DEF AutoFlush, FlushEdit, sync, Tables
<1>2. Process(c)' /\ Branch(c)'
  <2>1. clock' \in Nat /\ clock <= clock' /\ git' = git /\ remote' = remote
    BY Here, AutoFlushIs
  <2>2. Process(c)'
    BY <1>1, Here, AutoFlushIs DEF Process
  <2> QED BY <2>1, <2>2, BranchSame
<1>3. Files(c)'
  BY Here, AutoFlushIs, WorkStep DEF Files, Locked
<1>4. AutoFlush(c) \/ Command(c)
  BY DEF Command
<1> QED BY <1>2, <1>3, <1>4, Here, AutoFlushIs, ActsAlone, CloneStep

(* Steps that touch neither the workspace nor the repository.              *)
LEMMA PlainStep ==
  ASSUME Sound, NEW c \in Clones,
         PullFails(c) \/ NothingToCommit(c) \/ Finish(c) \/ ExportList(c) \/ Abort(c)
  PROVE  Sound'
<1>1. UNCHANGED <<clock, remote, ws, git>>
  BY DEF PullFails, NothingToCommit, Finish, ExportList, Abort
<1>2. Process(c)' /\ pc'[c] # "pull"
  BY Here DEF PullFails, NothingToCommit, Finish, ExportList, Abort, Process, PCs, Tables, Goto
<1>3. \/ ~Locked(c) /\ pc'[c] = "listed" /\ snap'[c] = ws[c].db
      \/ ~Locked(c) /\ ~Locked(c)' /\ snap'[c] = snap[c]
      \/ ~Locked(c)' /\ snap'[c] = Empty
  BY Here DEF PullFails, NothingToCommit, Finish, ExportList, Abort, Locked, Tables, Goto
<1>4. ws[c].db # Empty
  <2>1. PICK i \in Synced : ws[c].db[i] # Absent
    BY Here, GitSyncAssumption DEF Files
  <2> QED BY <2>1, EmptyIs, GitSyncAssumption
<1>5. SaneFile(snap'[c], clock) /\ \A i \in Issues : Seen(ws[c].db[i], snap'[c][i])
  BY <1>3, Here, EmptyIs DEF Files, Work, Seen
<1>6. Locked(c)' <=> snap'[c] # Empty
  BY <1>3, <1>4, Here DEF Files, Locked
<1>7. Files(c)'
  BY <1>1, <1>2, <1>5, <1>6, Here DEF Files
<1>8. Branch(c)'
  BY <1>1, Here, BranchSame
<1> QED BY <1>1, <1>2, <1>7, <1>8, Here, ActsAlone, CloneStep

LEMMA QuitStep ==
  ASSUME Sound, NEW c \in Clones, Quit(c)
  PROVE  Sound'
<1>1. UNCHANGED <<clock, remote, ws, git, pc, cmd, due, snap>> /\ job'[c] = "none"
  BY Here DEF Quit, sync, Tables
<1>2. Process(c)' /\ Branch(c)' /\ Files(c)'
  BY <1>1, Here DEF Process, Branch, Files, Locked
<1>3. Command(c)
  BY DEF Command
<1> QED BY <1>1, <1>2, <1>3, Here, ActsAlone, CloneStep

LEMMA PullIs ==
  ASSUME Sound, NEW c \in Clones
  PROVE  /\ SaneFile(PullResult(c), clock)
         /\ ~git[c].behind => PullResult(c) = git[c].head
         /\ ~git[c].ahead /\ git[c].behind => PullResult(c) = remote
         /\ \A i \in Issues : git[c].head[i] = Absent /\ git[c].behind =>
              PullResult(c)[i] \in {Absent, remote[i]}
<1> DEFINE b == git[c].base
           l == git[c].head
<1>1. SaneFile(b, clock) /\ SaneFile(l, clock) /\ SaneFile(remote, clock) /\ clock \in Nat
      /\ git[c].behind \in BOOLEAN /\ git[c].ahead \in BOOLEAN
  BY DEF Sound, Branch, Repo
<1>2. \A i \in Issues : Sane(b[i], clock) /\ Sane(l[i], clock) /\ Sane(remote[i], clock)
  BY <1>1 DEF SaneFile
<1>3. DOMAIN b = Issues
  BY <1>1 DEF SaneFile, Lines
<1> DEFINE m == MergeFile(b, l, remote)
<1>4. PullResult(c) \in {l, remote, m} /\ (~git[c].behind => PullResult(c) = l)
      /\ (~git[c].ahead /\ git[c].behind => PullResult(c) = remote)
      /\ (git[c].behind => PullResult(c) \in {remote, m})
  <2> HIDE DEF m
  <2>1. CASE ~git[c].behind
    BY <2>1 DEF PullResult
  <2>2. CASE git[c].behind /\ ~git[c].ahead
    BY <2>2 DEF PullResult
  <2>3. CASE git[c].behind /\ git[c].ahead
    BY <2>3 DEF PullResult, m
  <2> QED BY <1>1, <2>1, <2>2, <2>3
<1>5. m \in {l, remote, [i \in Issues |-> MergeLine(b[i], l[i], remote[i])]}
  BY <1>3 DEF MergeFile
<1>6. SaneFile([i \in Issues |-> MergeLine(b[i], l[i], remote[i])], clock)
  BY <1>1, <1>2, MergeLineIs, SMTT(30) DEF SaneFile, Lines, Sane
<1>7. \A i \in Issues : l[i] = Absent => m[i] \in {Absent, remote[i]}
  BY <1>1, <1>2, <1>5, MergeLineIs
<1> HIDE DEF m
<1> QED BY <1>1, <1>4, <1>5, <1>6, <1>7

LEMMA PullStep ==
  ASSUME Sound, NEW c \in Clones, Pull(c)
  PROVE  Sound'
<1>1. /\ pc[c] = "pull" /\ pc'[c] \in {"hook", "import", "export"}
      /\ git'[c] = [git[c] EXCEPT !.head = PullResult(c), !.base = remote, !.behind = FALSE]
      /\ ws' = [ws EXCEPT ![c].file = IF PullResult(c) = git[c].head THEN @ ELSE PullResult(c)]
      /\ UNCHANGED <<clock, remote, cmd, due, snap, job>>
  BY Here DEF Pull, Goto, AfterPull, Tables
<1>2. Process(c)'
  BY <1>1, Here DEF Process, PCs
<1>3. git[c] \in Repo /\ SaneFile(git[c].head, clock) /\ SaneFile(remote, clock)
  BY DEF Sound, Branch
<1>4. git'[c].head = PullResult(c) /\ git'[c].base = remote /\ git'[c].behind = FALSE
      /\ git'[c].ahead = git[c].ahead /\ git'[c] \in Repo
  BY <1>1, <1>3, PullIs DEF Repo, SaneFile
<1>5. ~git[c].ahead => PullResult(c) = remote
  BY PullIs DEF Sound, Branch
<1>6. Branch(c)'
  BY <1>1, <1>3, <1>4, <1>5, PullIs DEF Branch
<1>7. ws'[c].db = ws[c].db /\ ws'[c].known = ws[c].known /\ ws'[c].hash = ws[c].hash
      /\ ws'[c].file \in {ws[c].file, PullResult(c)} /\ ws'[c] \in Workspace
  <2>1. ws[c] \in Workspace /\ PullResult(c) \in Lines
    BY Here, PullIs DEF Work, SaneFile
  <2>2. ws'[c] = [ws[c] EXCEPT !.file = IF PullResult(c) = git[c].head THEN @ ELSE PullResult(c)]
    BY <1>1, Here DEF Tables
  <2> QED BY <2>1, <2>2 DEF Workspace
<1>8. Work(ws'[c], clock)
  BY <1>7, Here, PullIs DEF Work
<1>9. Files(c)'
  BY <1>1, <1>7, <1>8, Here DEF Files, Locked
<1> QED BY <1>1, <1>2, <1>6, <1>9, Here, ActsAlone, CloneStep

LEMMA ExportWriteStep ==
  ASSUME Sound, NEW c \in Clones, ExportWrite(c)
  PROVE  Sound'
<1>1. /\ pc[c] = "listed" /\ pc'[c] = "written" /\ UNCHANGED <<clock, remote, git, cmd, due, snap, job>>
      /\ ws'[c] = [ws[c] EXCEPT !.file = snap[c]]
  BY Here DEF ExportWrite, Goto, Tables
<1>2. Process(c)' /\ Branch(c)'
  BY <1>1, Here, BranchSame DEF Process, PCs
<1>3. ws[c] \in Workspace /\ snap[c] \in Lines
  BY Here DEF Files, Work, SaneFile
<1>4. ws'[c].db = ws[c].db /\ ws'[c].known = ws[c].known /\ ws'[c].hash = ws[c].hash
      /\ ws'[c].file = snap[c] /\ ws'[c] \in Workspace
  BY <1>1, <1>3 DEF Workspace
<1>5. Files(c)'
  BY <1>1, <1>4, Here DEF Files, Work, Locked
<1> QED BY <1>1, <1>2, <1>5, Here, ActsAlone, CloneStep

LEMMA FinalizeStep ==
  ASSUME Sound, NEW c \in Clones, Finalize(c)
  PROVE  Sound'
<1> DEFINE left == {i \in ws[c].dirty : snap[c][i] = Absent}
<1>1. /\ pc[c] = "written" /\ pc'[c] = "commit" /\ UNCHANGED <<clock, remote, git, cmd, due, job>>
      /\ ws'[c] = [ws[c] EXCEPT !.dirty = left, !.known = snap[c], !.hash = snap[c]]
      /\ snap'[c] = Empty
  BY Here DEF Finalize, Goto, Tables
<1>2. Process(c)' /\ Branch(c)'
  BY <1>1, Here, BranchSame DEF Process, PCs
<1>3. ws[c] \in Workspace /\ snap[c] \in Lines /\ left \subseteq ws[c].dirty
  BY Here DEF Files, Work, SaneFile
<1> HIDE DEF left
<1>4. ws'[c].db = ws[c].db /\ ws'[c].known = snap[c] /\ ws'[c].hash = snap[c]
      /\ ws'[c].file = ws[c].file /\ ws'[c] \in Workspace
  BY <1>1, <1>3 DEF Workspace
<1>5. Files(c)'
  BY <1>1, <1>4, Here, EmptyIs DEF Files, Work, Locked, Seen
<1> QED BY <1>1, <1>2, <1>5, Here, ActsAlone, CloneStep

LEMMA CommitStep ==
  ASSUME Sound, NEW c \in Clones, Commit(c)
  PROVE  Sound'
<1>1. /\ pc[c] = "commit" /\ pc'[c] = "push" /\ UNCHANGED <<clock, remote, ws, cmd, due, snap, job>>
      /\ git'[c] = [git[c] EXCEPT !.head = ws[c].file, !.ahead = TRUE]
  BY Here DEF Commit, Goto, Tables
<1>2. Process(c)' /\ Files(c)'
  BY <1>1, Here DEF Process, PCs, Files, Locked
<1>3. git[c] \in Repo /\ SaneFile(ws[c].file, clock)
  BY Here DEF Branch, Work
<1>4. git'[c].head = ws[c].file /\ git'[c].base = git[c].base /\ git'[c].ahead = TRUE
      /\ git'[c].behind = git[c].behind /\ git'[c] \in Repo
  BY <1>1, <1>3 DEF Repo, SaneFile
<1>5. Branch(c)'
  BY <1>1, <1>3, <1>4, Here DEF Branch
<1> QED BY <1>1, <1>2, <1>5, Here, ActsAlone, CloneStep

LEMMA PushIs ==
  ASSUME Sound, NEW c \in Clones, Push(c)
  PROVE  /\ pc[c] = "push" /\ pc' = [pc EXCEPT ![c] = "done"] /\ remote' = git[c].head
         /\ UNCHANGED <<clock, ws, cmd, due, snap, job, overwritten>>
         /\ git'[c] = [git[c] EXCEPT !.base = git[c].head, !.ahead = FALSE]
         /\ \A d \in Clones \ {c} : git'[d] = [git[d] EXCEPT !.behind = TRUE]
         /\ git' = [d \in Clones |-> git'[d]] /\ ~git[c].behind
BY DEF Push, Goto, Accepts

LEMMA PushStep ==
  ASSUME Sound, NEW c \in Clones, Push(c)
  PROVE  Sound'
<1>1. Tables'
  BY PushIs, Here DEF Tables
<1>2. SaneFile(git[c].head, clock) /\ UNCHANGED clock
  BY PushIs, Here DEF Branch
<1>3. ASSUME NEW d \in Clones PROVE Process(d)' /\ Branch(d)' /\ Files(d)'
  <2>1. pc'[d] = (IF d = c THEN "done" ELSE pc[d]) /\ Process(d) /\ Files(d)
    BY PushIs, Here DEF Tables
  <2>2. UNCHANGED <<clock, ws, cmd, due, snap, job, overwritten>> /\ pc[c] = "push"
    BY PushIs
  <2>3. Process(d)'
    BY <2>1, <2>2 DEF Process, PCs
  <2>4. Files(d)'
    BY <2>1, <2>2 DEF Files, Locked
  <2>5. git[d] \in Repo /\ SaneFile(git[d].head, clock) /\ SaneFile(git[d].base, clock)
        /\ (~git[d].ahead => git[d].head = git[d].base)
    BY Here DEF Branch
  <2>6. CASE d = c
    <3>1. git'[d] \in Repo /\ git'[d].head = git[d].head /\ git'[d].base = git[d].head
      BY <2>5, <2>6, PushIs DEF Repo
    <3> QED BY <1>2, <2>3, <2>4, <2>5, <2>6, <3>1, PushIs DEF Branch
  <2>7. CASE d # c
    <3>1. git'[d] = [git[d] EXCEPT !.behind = TRUE]
      BY <2>7, PushIs
    <3>2. git'[d] \in Repo /\ git'[d].head = git[d].head /\ git'[d].base = git[d].base
          /\ git'[d].ahead = git[d].ahead /\ git'[d].behind = TRUE
      BY <2>5, <3>1 DEF Repo
    <3> QED BY <1>2, <2>3, <2>4, <2>5, <3>2 DEF Branch
  <2> QED BY <2>6, <2>7
<1> QED BY <1>1, <1>2, <1>3, PushIs, Here DEF Sound

LEMMA SoundStep == Sound /\ [Next]_vars => Sound'
<1> SUFFICES ASSUME Sound, [Next]_vars PROVE Sound'
  OBVIOUS
<1>1. CASE UNCHANGED vars
  BY <1>1 DEF vars, sync, Sound, Tables, Process, Branch, Files, Locked
<1> QED
  BY <1>1, StartStep, WriteStep, QuitStep, BeginStep, HookStep, AutoFlushStep, PlainStep, PullStep, ExportWriteStep,
     FinalizeStep, CommitStep, PushStep
     DEF Next, Sync, Command

(* The types; and a sync that is over, or past its bookkeeping, holds no   *)
(* lock and owes no flush, whatever fails or dies.                         *)
THEOREM TypeCorrect == Spec => []TypeOK
<1>1. Spec => []Sound
  BY SoundInit, SoundStep, PTL DEF Spec
<1> QED BY <1>1, SoundTypes, PTL

-----------------------------------------------------------------------------
(* A settled clone is current.                                             *)

(* The lines that a command or an import wrote, as opposed to those that   *)
(* the merge driver made of two: the rows, what was listed of them, and    *)
(* what has been written to the file from there, committed and pushed.  A  *)
(* line whose issue the database lacks comes from another clone's push.    *)
Own(c, i, l) ==
  \/ l \in {ws[c].db[i], snap[c][i], git[c].base[i]}
  \/ l = ws[c].file[i] /\ (pc[c] \in {"written", "commit"} \/ ws[c].db[i] = Absent)
  \/ l = git[c].head[i] /\ (pc[c] = "push" \/ ws[c].db[i] = Absent)

Original(i, l) == l \in {Absent, remote[i]} \/ \E c \in Clones : Own(c, i, l)

(* There is one of them at any time.                                       *)
Unique ==
  \A i \in Issues : \A k, l : Original(i, k) /\ Original(i, l) /\ k.at = l.at => k = l

LEMMA OriginalIs ==
  ASSUME Sound, NEW i \in Issues, NEW l, Original(i, l)
  PROVE  Sane(l, clock)
<1>1. Sane(Absent, clock) /\ Sane(remote[i], clock)
  BY AbsentIs DEF Sound, SaneFile
<1>2. \A c \in Clones : /\ Sane(ws[c].db[i], clock) /\ Sane(snap[c][i], clock)
                        /\ Sane(git[c].base[i], clock) /\ Sane(ws[c].file[i], clock)
                        /\ Sane(git[c].head[i], clock)
  BY Here DEF Branch, Files, Work, SaneFile
<1> QED BY <1>1, <1>2 DEF Original, Own

(* A step keeps this if all originals were there before, or are the row    *)
(* that it writes.                                                         *)
LEMMA UniqueStep ==
  ASSUME Sound, Unique, NEW c,
         \A i \in Issues : \A l : Original(i, l)' =>
           Original(i, l) \/ (l = ws'[c].db[i] /\ l.at > clock)
  PROVE  Unique'
<1> SUFFICES ASSUME NEW i \in Issues, NEW k, NEW l, Original(i, k)', Original(i, l)', k.at = l.at
             PROVE  k = l
  BY DEF Unique
<1>1. \A m : Original(i, m) => ~(m.at > clock)
  BY OriginalIs DEF Sane, Line, Sound
<1> QED BY <1>1 DEF Unique

LEMMA OwnStep ==
  ASSUME Sound, Unique, NEW c \in Clones, Alone(c), UNCHANGED remote,
         \A i \in Issues : \A l : Own(c, i, l)' =>
           Original(i, l) \/ (l = ws'[c].db[i] /\ l.at > clock)
  PROVE  Unique'
<1>1. \A d \in Clones \ {c} : \A i \in Issues : \A l : Own(d, i, l)' => Own(d, i, l)
  BY DEF Own, Alone
<1>2. ASSUME NEW i \in Issues, NEW l, Original(i, l)'
      PROVE  Original(i, l) \/ (l = ws'[c].db[i] /\ l.at > clock)
  <2>1. CASE l \in {Absent, remote[i]}
    BY <2>1 DEF Original
  <2>2. CASE l \notin {Absent, remote[i]}
    <3>1. PICK d \in Clones : Own(d, i, l)'
      BY <1>2, <2>2 DEF Original
    <3> QED BY <1>1, <3>1 DEF Original
  <2> QED BY <2>1, <2>2
<1> QED BY <1>2, UniqueStep

(* The steps that import, write or flush, or only list, remember or end.   *)
LEMMA OwnMoves ==
  ASSUME Sound, Unique, NEW c \in Clones, Alone(c), UNCHANGED remote, git'[c] = git[c],
         Moves(ws[c], ws'[c], clock),
         \A i \in Issues : snap'[c][i] \in {snap[c][i], ws[c].db[i], Absent},
         pc'[c] \in {"written", "commit"} => pc[c] \in {"written", "commit"},
         pc'[c] = "push" => pc[c] = "push"
  PROVE  Unique'
<1>1. ASSUME NEW i \in Issues, NEW l, Own(c, i, l)'
      PROVE  Original(i, l) \/ (l = ws'[c].db[i] /\ l.at > clock)
  <2>1. CASE l = ws'[c].db[i]
    <3>1. \/ l = ws[c].db[i]
          \/ ws[c].db[i] = Absent /\ l = ws[c].file[i]
          \/ l.at > clock
      BY <2>1 DEF Moves
    <3> QED BY <2>1, <3>1 DEF Original, Own
  <2>2. CASE l \in {snap'[c][i], git'[c].base[i]}
    BY <2>2 DEF Original, Own
  <2>3. CASE l = ws'[c].file[i] /\ (pc'[c] \in {"written", "commit"} \/ ws'[c].db[i] = Absent)
    <3>1. l \in {ws[c].file[i], ws'[c].db[i], Absent} /\ (ws'[c].db[i] = Absent => ws[c].db[i] = Absent)
      BY <2>3 DEF Moves
    <3> QED BY <2>1, <2>3, <3>1 DEF Original, Own
  <2>4. CASE l = git'[c].head[i] /\ (pc'[c] = "push" \/ ws'[c].db[i] = Absent)
    <3>1. ws'[c].db[i] = Absent => ws[c].db[i] = Absent
      BY DEF Moves
    <3> QED BY <2>4, <3>1 DEF Original, Own
  <2> QED BY <1>1, <2>1, <2>2, <2>3, <2>4 DEF Own
<1> QED BY <1>1, OwnStep

LEMMA UniqueMost ==
  ASSUME Sound, Unique, NEW c \in Clones,
         \/ \E k \in {"sync", "pull", "push"} : Begin(c, k)
         \/ PullFails(c) \/ Hook(c) \/ Import(c)
         \/ ExportList(c) \/ Finalize(c) \/ NothingToCommit(c)
         \/ AutoFlush(c) \/ Finish(c) \/ Abort(c) \/ Command(c)
  PROVE  Unique'
<1>1. Alone(c) /\ UNCHANGED remote /\ git'[c] = git[c]
  <2>1. UNCHANGED git
    BY Here, CommandAlone
       DEF Begin, PullFails, Hook, Import, ExportList, Finalize, NothingToCommit, AutoFlush, Finish,
           Abort
  <2> QED BY <2>1, Here, ActsAlone
<1>2. \A i \in Issues : snap'[c][i] \in {snap[c][i], ws[c].db[i], Absent}
  <2>1. snap'[c] \in {snap[c], ws[c].db, Empty}
    BY Here, CommandAlone
       DEF sync, Tables, Begin, PullFails, Hook, Import, ExportList, Finalize, NothingToCommit,
           AutoFlush, Finish, Abort
  <2> QED BY <2>1, EmptyIs
<1>3. /\ pc'[c] \in {"written", "commit"} => pc[c] \in {"written", "commit"}
      /\ pc'[c] = "push" => pc[c] = "push"
  BY Here, CommandAlone
     DEF sync, Tables, Begin, PullFails, Hook, Import, ExportList, Finalize, NothingToCommit,
         AutoFlush, Finish, Abort, Goto, AfterPull
<1>4. Moves(ws[c], ws'[c], clock)
  <2>1. CASE UNCHANGED ws
    BY <2>1, MovesNot
  <2>2. CASE Finalize(c)
    <3>1. ws'[c].db = ws[c].db /\ ws'[c].file = ws[c].file
      <4>1. ws[c] \in Workspace
        BY Here DEF Work
      <4>2. ws'[c] = [ws[c] EXCEPT !.dirty = {i \in @ : snap[c][i] = Absent},
                                   !.known = snap[c], !.hash = snap[c]]
        BY <2>2, Here DEF Finalize, Tables
      <4> QED BY <4>1, <4>2 DEF Workspace
    <3> QED BY <3>1 DEF Moves
  <2> QED BY <2>1, <2>2, StartIs, WriteIs, BeginIs, HookIs, AutoFlushIs
          DEF PullFails, ExportList, NothingToCommit, Finish, Abort, Command, Quit
<1> QED BY <1>1, <1>2, <1>3, <1>4, OwnMoves

(* An issue that the database lacks and the pull brings is as it was       *)
(* pushed: HEAD lacked it, for it was in the file, which was imported.     *)
LEMMA UniquePull ==
  ASSUME Sound, Unique, NEW c \in Clones, Pull(c)
  PROVE  Unique'
<1>1. /\ pc[c] = "pull" /\ pc'[c] \in {"hook", "import", "export"} /\ ~Refused(c)
      /\ git'[c] = [git[c] EXCEPT !.head = PullResult(c), !.base = remote, !.behind = FALSE]
      /\ ws'[c] = [ws[c] EXCEPT !.file = IF PullResult(c) = git[c].head THEN @ ELSE PullResult(c)]
      /\ UNCHANGED snap
  BY Here DEF Pull, Goto, AfterPull, Tables
<1>2. ws[c] \in Workspace /\ git[c] \in Repo
  BY Here DEF Work, Branch
<1>3. git'[c].head = PullResult(c) /\ git'[c].base = remote /\ ws'[c].db = ws[c].db
      /\ ws'[c].file = (IF PullResult(c) = git[c].head THEN ws[c].file ELSE PullResult(c))
  BY <1>1, <1>2 DEF Workspace, Repo
<1>4. ASSUME NEW i \in Issues, ws[c].db[i] = Absent
      PROVE  Original(i, PullResult(c)[i]) /\ Original(i, ws'[c].file[i])
  <2>1. Original(i, ws[c].file[i]) /\ Original(i, git[c].head[i])
    BY <1>4 DEF Original, Own
  <2>2. CASE PullResult(c) = git[c].head
    BY <1>3, <2>1, <2>2
  <2>3. CASE PullResult(c) # git[c].head
    <3>1. ws[c].file = git[c].head /\ git[c].behind
      BY <1>1, <2>3, PullIs DEF Refused
    <3>2. Seen(Absent, git[c].head[i]) /\ Sane(git[c].head[i], clock)
      BY <1>1, <1>4, <3>1, Here DEF Files, Work, SaneFile
    <3>3. git[c].head[i] = Absent
      BY <3>2, Here, SeenAbsent
    <3> QED BY <1>3, <2>3, <3>1, <3>3, PullIs DEF Original
  <2> QED BY <2>2, <2>3
<1>5. ASSUME NEW i \in Issues, NEW l, Own(c, i, l)' PROVE Original(i, l)
  <2>1. \/ l \in {ws[c].db[i], snap[c][i], remote[i]}
        \/ l = ws'[c].file[i] /\ ws[c].db[i] = Absent
        \/ l = PullResult(c)[i] /\ ws[c].db[i] = Absent
    BY <1>1, <1>3, <1>5 DEF Own
  <2> QED BY <1>4, <2>1 DEF Original, Own
<1> QED BY <1>5, Here, ActsAlone, OwnStep

LEMMA UniqueExport ==
  ASSUME Sound, Unique, NEW c \in Clones, ExportWrite(c) \/ Commit(c)
  PROVE  Unique'
<1>1. ws[c] \in Workspace /\ git[c] \in Repo
  BY Here DEF Work, Branch
<1>2. UNCHANGED snap /\ ws'[c].db = ws[c].db /\ git'[c].base = git[c].base
  BY <1>1, Here DEF ExportWrite, Commit, Tables, Workspace, Repo
<1>3. \/ ws'[c].file = snap[c] /\ git'[c].head = git[c].head /\ pc'[c] = "written"
      \/ ws'[c].file = ws[c].file /\ git'[c].head = ws[c].file /\ pc[c] = "commit" /\ pc'[c] = "push"
  BY <1>1, Here DEF ExportWrite, Commit, Goto, Tables, Workspace, Repo
<1>4. ASSUME NEW i \in Issues, NEW l, Own(c, i, l)' PROVE Own(c, i, l)
  BY <1>2, <1>3, <1>4 DEF Own
<1> QED BY <1>4, Here, ActsAlone, OwnStep DEF Original

LEMMA UniquePush ==
  ASSUME Sound, Unique, NEW c \in Clones, Push(c)
  PROVE  Unique'
<1>1. /\ pc[c] = "push" /\ remote' = git[c].head /\ UNCHANGED <<ws, snap>>
      /\ \A d \in Clones : pc'[d] \in {pc[d], "done"}
  BY PushIs, Here DEF Tables
<1>2. ASSUME NEW d \in Clones
      PROVE  git'[d].head = git[d].head /\ git'[d].base \in {git[d].base, git[c].head}
  <2>1. git[d] \in Repo
    BY Here DEF Branch
  <2>2. CASE d = c
    BY <2>1, <2>2, PushIs DEF Repo
  <2>3. CASE d # c
    <3>1. git'[d] = [git[d] EXCEPT !.behind = TRUE]
      BY <2>3, PushIs
    <3> QED BY <2>1, <3>1 DEF Repo
  <2> QED BY <2>2, <2>3
<1>3. \A i \in Issues : Original(i, git[c].head[i])
  BY <1>1 DEF Original, Own
<1>4. ASSUME NEW i \in Issues, NEW l, Original(i, l)' PROVE Original(i, l)
  <2>1. CASE l \in {Absent, remote'[i]}
    BY <1>1, <1>3, <2>1 DEF Original
  <2>2. ASSUME NEW d \in Clones, Own(d, i, l)' PROVE Original(i, l)
    <3>1. Own(d, i, l) \/ l = git[c].head[i]
      BY <1>1, <1>2, <2>2 DEF Own
    <3> QED BY <1>3, <3>1 DEF Original
  <2> QED BY <1>4, <2>1, <2>2 DEF Original
<1> QED BY <1>4, UniqueStep

LEMMA UniqueInit == Init => Unique
<1> SUFFICES ASSUME Init, NEW i \in Issues, NEW l, Original(i, l)
             PROVE  l = Absent \/ l = [title |-> 1, status |-> "open", since |-> 0, at |-> 1]
  BY AbsentIs DEF Unique
<1> DEFINE first == [title |-> 1, status |-> "open", since |-> 0, at |-> 1]
           start == [j \in Issues |-> IF j \in Synced THEN first ELSE Absent]
<1>1. /\ remote = start
      /\ ws = [c \in Clones |-> [db |-> start, dirty |-> {}, file |-> start,
                                 known |-> start, hash |-> start]]
      /\ git = [c \in Clones |-> [head |-> start, base |-> start,
                                  ahead |-> FALSE, behind |-> FALSE]]
      /\ snap = [c \in Clones |-> Empty]
  BY DEF Init
<1>2. start[i] \in {Absent, first}
  OBVIOUS
<1> HIDE DEF start, first
<1>3. l \in {Absent, start[i]}
  BY <1>1, EmptyIs DEF Original, Own
<1> QED BY <1>2, <1>3 DEF first

LEMMA UniqueAlways == Sound /\ Unique /\ [Next]_vars => Unique'
<1> SUFFICES ASSUME Sound, Unique, [Next]_vars PROVE Unique'
  OBVIOUS
<1>1. CASE UNCHANGED vars
  BY <1>1 DEF vars, sync, Unique, Original, Own
<1> QED BY <1>1, UniqueMost, UniquePull, UniqueExport, UniquePush DEF Next, Sync

(* A clone with nothing to pull, push, commit, flush or import has nothing *)
(* in its database that is older than the remote's, or of the same time    *)
(* and different, except for what it deleted - for any clones, issues,     *)
(* commands and edits beside a sync, with the timer and without, and       *)
(* wherever a sync dies or git fails.  (Nothing says that the dirty marks  *)
(* are needed for this: known = file is enough.)                           *)
THEOREM SettledCurrent == Spec => []SettledIsCurrent
<1>1. Init => Sound /\ Unique
  BY SoundInit, UniqueInit
<1>2. Sound /\ Unique /\ [Next]_vars => Sound' /\ Unique'
  BY SoundStep, UniqueAlways
<1>3. ASSUME Sound, Unique PROVE SettledIsCurrent
  <2> SUFFICES ASSUME NEW c \in Clones, Settled(c), NEW i \in Issues
               PROVE  \/ Content(ws[c].db[i]) = Content(remote[i])
                      \/ ws[c].db[i].at > remote[i].at \/ Dead(ws[c].db[i])
    BY <1>3 DEF SettledIsCurrent
  <2>1. ws[c].known = remote
    BY <1>3, Here DEF Settled, Branch
  <2>2. Seen(ws[c].db[i], remote[i])
    BY <1>3, <2>1, Here DEF Work
  <2>3. Sane(ws[c].db[i], clock) /\ Sane(remote[i], clock)
    BY <1>3 DEF Sound, Files, Work, SaneFile
  <2>4. ws[c].db[i].at = remote[i].at => ws[c].db[i] = remote[i]
    BY <1>3 DEF Unique, Original, Own
  <2>5. CASE remote[i] = Absent
    BY <2>3, <2>5, <1>3, Here, SeenAbsent, AbsentIs DEF Sane, Line
  <2>6. CASE ws[c].db[i].at >= remote[i].at
    BY <2>3, <2>4, <2>6 DEF Sane, Line
  <2> QED BY <2>2, <2>5, <2>6 DEF Seen
<1>4. Spec => [](Sound /\ Unique)
  BY <1>1, <1>2, PTL DEF Spec
<1> QED BY <1>3, <1>4, PTL

-----------------------------------------------------------------------------
(* What a push replaces, of two clones.                                    *)

AtMostTwo == \A c, d, e \in Clones : c = d \/ c = e \/ d = e

Exempt(i) == Deleted(i) \/ i \in overwritten

(* A line does not undo another: where they differ it is no older.         *)
Keeps(l, k) ==
  /\ l.title # k.title => l.at >= k.title
  /\ l.status # k.status => l.at >= k.since

Before(l, j, k) == l.at <= j.at \/ l.at <= k.at

(* What a sync is about to push, from the listing on.                      *)
Flying(c) == pc[c] \in {"listed", "written", "commit", "push"}

Outgoing(c) ==
  CASE pc[c] = "listed" -> snap[c]
    [] pc[c] = "push" -> git[c].head
    [] OTHER -> ws[c].file

(* Of an issue that nobody has deleted there is no tombstone.              *)
Alive(c, i) ==
  /\ ~Dead(ws[c].file[i]) /\ ~Dead(snap[c][i])
  /\ ~Dead(git[c].head[i]) /\ ~Dead(git[c].base[i])

(* A sync has listed a database that has not read the file, and no flush   *)
(* has written over that since: the export will, or changes nothing.       *)
Waits(c, i) ==
  /\ Unread(c)
  /\ Seen(snap[c][i], ws[c].file[i]) => Keeps(snap[c][i], git[c].base[i])
  /\ ws[c].db[i] = snap[c][i] \/ ws[c].db[i].at > ws[c].file[i].at

(* Neither HEAD, nor a database that has seen its file, nor what goes out  *)
(* undoes anything of the remote as the clone knows it; and the database   *)
(* has seen HEAD, unless HEAD is the file.                                 *)
Kept(c, i) ==
  /\ Keeps(git[c].head[i], git[c].base[i])
  /\ Seen(ws[c].db[i], ws[c].file[i]) => Keeps(ws[c].db[i], git[c].base[i])
  /\ ws[c].file[i] = git[c].head[i] \/ Seen(ws[c].db[i], git[c].head[i])
  /\ ws[c].db[i] = Absent => ws[c].file[i] = git[c].head[i]
  /\ pc[c] \in {"written", "commit"} => Keeps(ws[c].file[i], git[c].base[i])
  /\ pc[c] = "listed" => Keeps(snap[c][i], git[c].base[i]) \/ Waits(c, i)

(* Merged lines have the time of a row of one of the two clones.           *)
Ordered(c, i) ==
  /\ Before(git[c].head[i], ws[c].db[i], git[c].base[i])
  /\ Before(git[c].base[i], ws[c].db[i], remote[i])
  /\ Flying(c) => Outgoing(c)[i].at <= ws[c].db[i].at
  /\ \E d \in Clones : git[c].base[i].at <= ws[d].db[i].at
  /\ \E d \in Clones : remote[i].at <= ws[d].db[i].at

(* A push that will be accepted leaves this true of the others.            *)
Leads(c, i) ==
  Flying(c) /\ ~git[c].behind =>
    \A d \in Clones \ {c} : /\ Before(git[d].base[i], Outgoing(c)[i], ws[d].db[i])
                            /\ Before(remote[i], Outgoing(c)[i], ws[d].db[i])

Good(i) ==
  /\ ~Dead(remote[i])
  /\ \A c \in Clones : Alive(c, i) /\ Kept(c, i) /\ Ordered(c, i) /\ Leads(c, i)

Keeping == \A i \in Issues : Exempt(i) \/ Good(i)

LEMMA KeepsNew ==
  ASSUME NEW l, NEW k, NEW now \in Nat, Sane(k, now), l.at \in Nat, l.at > now
  PROVE  Keeps(l, k)
BY DEF Keeps, Sane, Line

LEMMA KeepsSeen ==
  ASSUME NEW l, NEW k, NEW now \in Nat, Sane(l, now), Sane(k, now), Seen(l, k), ~Dead(l)
  PROVE  Keeps(l, k)
<1>1. CASE k = Absent
  BY <1>1, AbsentIs DEF Keeps, Sane, Line
<1>2. CASE k # Absent
  BY <1>2 DEF Keeps, Seen, Content, Sane, Line
<1> QED BY <1>1, <1>2

(* What the merge driver makes of two live lines undoes nothing of the     *)
(* remote's, and the row that has seen it does not either: a row of the    *)
(* same content and an older time got its title from one that is older     *)
(* than the remote's only if the remote had not changed.                   *)
LEMMA MergeKeeps ==
  ASSUME NEW now \in Nat, NEW b, NEW l, NEW r, NEW x,
         Sane(b, now), Sane(l, now), Sane(r, now), Sane(x, now),
         ~Dead(b), ~Dead(l), ~Dead(r), ~Dead(x),
         Keeps(l, b), Before(l, x, b), Before(b, x, r), b.at = r.at => b = r
  PROVE  LET m == MergeLine(b, l, r) IN
         /\ ~Dead(m) /\ Keeps(m, r) /\ Before(m, x, r)
         /\ Keeps(x, b) /\ Seen(x, m) => Keeps(x, r)
<1> DEFINE m == MergeLine(b, l, r)
<1>1. CASE l = Absent
  <2>1. b = Absent
    BY <1>1, AbsentIs, SeenAbsent DEF Keeps, Sane, Line
  <2>2. m = r
    BY <1>1, <2>1 DEF MergeLine, MergeOneSided
  <2> HIDE DEF m
  <2>3. Keeps(r, r) /\ Before(r, x, r)
    BY DEF Keeps, Before, Sane, Line
  <2> QED BY <2>2, <2>3, KeepsSeen DEF m
<1>2. CASE l # Absent /\ r = Absent
  <2>1. m \in {l, Absent} /\ (b # Absent => m = Absent)
    BY <1>2 DEF MergeLine, MergeOneSided
  <2> HIDE DEF m
  <2>2. \A k : Sane(k, now) => Keeps(k, Absent)
    BY AbsentIs DEF Keeps, Sane, Line
  <2>3. Before(m, x, r)
    BY <1>2, <2>1, AbsentIs DEF Before, Sane, Line
  <2> QED BY <1>2, <2>1, <2>2, <2>3, AbsentIs DEF m
<1>3. CASE l # Absent /\ r # Absent
  <2>1. m = MergeIssue(b, l, r)
    BY <1>3 DEF MergeLine
  <2>2. /\ m.title = MergeTitle(b, l, r) /\ m.at = Later(l.at, r.at)
        /\ m.status \in {"open", "closed"} /\ (r.status = "closed" => m.status = "closed")
    BY <2>1 DEF MergeIssue, MergeTimes
  <2>3. Sane(m, now) /\ m.title > 0
    BY <1>3, <2>1, <2>2, MergeIssueIs, SeenAbsent DEF MergeTitle
  <2> HIDE DEF m
  <2>4. m.at >= l.at /\ m.at >= r.at /\ m.at \in {l.at, r.at}
    BY <2>2 DEF Later, Sane, Line
  <2>5. ~Dead(m)
    BY <2>2 DEF Dead
  <2>6. Keeps(m, r)
    BY <2>3, <2>4 DEF Keeps, Sane, Line
  <2>7. Before(m, x, r)
    BY <2>4 DEF Before, Sane, Line
  <2>8. ASSUME Keeps(x, b), Seen(x, m) PROVE Keeps(x, r)
    <3>1. CASE x.at >= m.at
      BY <2>4, <3>1 DEF Keeps, Sane, Line
    <3>2. CASE Content(x) = Content(m) /\ x.at < m.at
      <4>1. x.title = m.title /\ x.status = m.status
        BY <3>2 DEF Content
      <4>2. x.status # r.status => x.at >= r.since
        BY <2>2, <4>1 DEF Sane, Line, Statuses, Dead
      <4>3. ASSUME x.title # r.title PROVE x.at >= r.title
        <5>1. x.title = l.title /\ l.title # b.title /\ (r.title = b.title \/ ~(r.at > l.at))
          BY <2>2, <4>1, <4>3 DEF MergeTitle
        <5>2. CASE r.title = b.title
          BY <2>8, <4>3, <5>2 DEF Keeps
        <5>3. CASE r.title # b.title
          <6>1. m.at = l.at /\ x.at < l.at /\ r.at <= l.at
            BY <2>4, <3>2, <5>1, <5>3 DEF Sane, Line
          <6>2. l.at <= b.at /\ b.at <= r.at
            BY <6>1 DEF Before, Sane, Line
          <6> QED BY <5>3, <6>1, <6>2 DEF Sane, Line
        <5> QED BY <5>2, <5>3
      <4> QED BY <4>2, <4>3 DEF Keeps
    <3>3. x.at >= m.at \/ (Content(x) = Content(m) /\ x.at < m.at)
      BY <2>3, <2>8, AbsentIs DEF Seen, Sane, Line
    <3> QED BY <3>1, <3>2, <3>3
  <2> QED BY <2>5, <2>6, <2>7, <2>8 DEF m
<1> QED BY <1>1, <1>2, <1>3

LEMMA SaneHere ==
  ASSUME Sound, NEW c \in Clones, NEW i \in Issues
  PROVE  /\ clock \in Nat /\ Sane(remote[i], clock) /\ Sane(Outgoing(c)[i], clock)
         /\ Sane(ws[c].db[i], clock) /\ Sane(ws[c].file[i], clock) /\ Sane(snap[c][i], clock)
         /\ Sane(git[c].head[i], clock) /\ Sane(git[c].base[i], clock)
BY DEF Sound, Branch, Files, Work, SaneFile, Outgoing

LEMMA SaneNext ==
  ASSUME Sound', NEW c \in Clones, NEW i \in Issues
  PROVE  clock' \in Nat /\ Sane(ws'[c].db[i], clock')
BY DEF Sound, Files, Work, SaneFile

(* Deleted is deleted; and no row gets older.                              *)
LEMMA RowsMove ==
  ASSUME Sound, Sound', NEW c \in Clones, NEW i \in Issues,
         \A d \in Clones \ {c} : ws'[d].db = ws[d].db,
         Moves(ws[c], ws'[c], clock) \/ ws'[c].db = ws[c].db
  PROVE  /\ Deleted(i) => Deleted(i)'
         /\ \A d \in Clones : ws[d].db[i].at <= ws'[d].db[i].at
<1>1. \A d \in Clones \ {c} : ws'[d].db = ws[d].db
  OBVIOUS
<1>2. clock \in Nat /\ \A d \in Clones : Sane(ws[d].db[i], clock) /\ Sane(ws'[d].db[i], clock')
  BY SaneHere, SaneNext
<1>3. /\ Dead(ws[c].db[i]) => ws'[c].db[i] = ws[c].db[i]
      /\ \/ ws'[c].db[i] = ws[c].db[i] \/ ws[c].db[i] = Absent
         \/ ws'[c].db[i].at > clock
  BY DEF Moves
<1>4. ws[c].db[i].at <= ws'[c].db[i].at
  BY <1>2, <1>3, AbsentIs DEF Sane, Line
<1>5. \A d \in Clones : ws[d].db[i].at <= ws'[d].db[i].at
  BY <1>1, <1>2, <1>4 DEF Sane, Line
<1>6. Deleted(i) => Deleted(i)'
  BY <1>1, <1>3 DEF Deleted
<1> QED BY <1>5, <1>6

(* What a step that imports, writes or flushes does to an issue that it    *)
(* does not overwrite: a line that it changes has been seen; and while a   *)
(* sync has listed the database, nothing is imported, and a file unread is *)
(* left alone, or a flush in full finds the line as the row.               *)
Minds(c, i) ==
  /\ ws'[c].file[i] # ws[c].file[i] => Seen(ws'[c].db[i], ws[c].file[i])
  /\ pc[c] = "listed" =>
       /\ ws'[c].db[i] = ws[c].db[i] \/ ws'[c].db[i].at > clock
       /\ \/ /\ ws'[c].file = ws[c].file
             /\ ws'[c].known = ws[c].known /\ ws'[c].hash = ws[c].hash
          \/ Unread(c) => /\ ws'[c].file[i] = ws[c].file[i]
                          /\ ws[c].file[i] = ws[c].db[i]

LEMMA WorkKeeps ==
  ASSUME Sound, Sound', NEW c \in Clones, Alone(c), UNCHANGED remote,
         git'[c] = git[c], snap'[c] = snap[c], Moves(ws[c], ws'[c], clock),
         pc'[c] = pc[c] \/ (~Flying(c) /\ ~Flying(c)'), AtMostTwo,
         NEW i \in Issues, ~Deleted(i)', Good(i), Minds(c, i)
  PROVE  Good(i)'
<1> DEFINE row == ws[c].db[i]
           new == ws'[c].db[i]
           line == ws[c].file[i]
<1>1. \A d \in Clones \ {c} : ws'[d] = ws[d] /\ pc'[d] = pc[d]
  BY DEF Alone
<1>2. \A d \in Clones : git'[d] = git[d] /\ snap'[d] = snap[d]
  BY DEF Alone
<1>3. clock \in Nat /\ clock' \in Nat
      /\ \A d \in Clones : /\ Sane(ws[d].db[i], clock) /\ Sane(git[d].base[i], clock)
                           /\ Sane(git[d].head[i], clock) /\ Sane(ws[d].file[i], clock)
                           /\ Sane(Outgoing(d)[i], clock) /\ Sane(ws'[d].db[i], clock')
      /\ Sane(remote[i], clock)
  BY SaneHere, SaneNext
<1>dates. /\ \A d \in Clones : /\ ws[d].db[i].at \in Nat /\ ws'[d].db[i].at \in Nat
                              /\ git[d].base[i].at \in Nat /\ git[d].head[i].at \in Nat
                              /\ Outgoing(d)[i].at \in Nat
          /\ remote[i].at \in Nat
  BY <1>3 DEF Sane, Line
<1>4. \A d \in Clones : ws[d].db[i].at <= ws'[d].db[i].at
  BY <1>1, RowsMove
<1>5. ~Dead(new) /\ ~Dead(row)
  <2>1. ~Deleted(i)
    BY <1>1, RowsMove
  <2> QED BY <2>1 DEF Deleted
<1>6. ws'[c].file[i] \in {line, new}
  BY <1>5 DEF Moves
<1>7. Kept(c, i)'
  <2> DEFINE base == git[c].base[i]
             head == git[c].head[i]
             last == ws'[c].file[i]
  <2>1. /\ Keeps(head, base) /\ (Seen(row, line) => Keeps(row, base))
        /\ line = head \/ Seen(row, head)
        /\ row = Absent => line = head
        /\ pc[c] \in {"written", "commit"} => Keeps(line, base)
        /\ pc[c] = "listed" => Keeps(snap[c][i], base) \/ Waits(c, i)
    BY DEF Good, Kept
  <2>2. /\ Sane(row, clock) /\ Sane(line, clock) /\ Sane(head, clock) /\ Sane(base, clock)
        /\ new.at \in Nat
    BY <1>3 DEF Sane, Line
  <2>3. new = row \/ (row = Absent /\ new = line) \/ new.at > clock
    BY DEF Moves
  <2>4. last # line => last = new /\ Seen(new, line)
    BY <1>6 DEF Minds
  <2>5. new = Absent => row = Absent
    BY DEF Moves
  <2> HIDE DEF base, head, last, row, new, line
  <2>6. Seen(new, line) => Keeps(new, base)
    BY <1>3, <2>1, <2>2, <2>3, KeepsNew
  <2>7. line = head \/ Seen(new, head)
    <3>1. CASE new.at > clock
      BY <1>3, <2>2, <3>1 DEF Seen, Sane, Line
    <3> QED BY <2>1, <2>3, <3>1
  <2>8. Seen(new, last) => Keeps(new, base)
    BY <2>4, <2>6
  <2>9. last = head \/ Seen(new, head)
    BY <2>4, <2>7
  <2>10. new = Absent => last = head
    <3>1. CASE last = line
      BY <2>1, <2>5, <3>1
    <3>2. CASE last # line /\ new = Absent
      BY <1>3, <2>2, <2>4, <3>2, SeenAbsent
    <3> QED BY <3>1, <3>2
  <2>11. pc'[c] \in {"written", "commit"} => Keeps(last, base)
    <3>1. pc'[c] \in {"written", "commit"} => pc[c] \in {"written", "commit"}
      BY DEF Flying
    <3> QED BY <2>1, <2>4, <2>6, <3>1
  <2>12. pc'[c] = "listed" => Keeps(snap[c][i], base) \/ Waits(c, i)'
    <3> SUFFICES ASSUME pc'[c] = "listed", Waits(c, i) PROVE Keeps(snap[c][i], base) \/ Waits(c, i)'
      <4>1. pc'[c] = "listed" => pc[c] = "listed"
        BY DEF Flying
      <4> QED BY <2>1, <4>1
    <3>1. pc[c] = "listed"
      BY DEF Flying
    <3>2. /\ Unread(c) /\ (Seen(snap[c][i], line) => Keeps(snap[c][i], base))
          /\ row = snap[c][i] \/ row.at > line.at
      BY DEF Waits, row, line, base
    <3>3. new = row \/ new.at > clock
      BY <3>1 DEF Minds, row, new
    <3>4. CASE ws'[c].file = ws[c].file /\ ws'[c].known = ws[c].known /\ ws'[c].hash = ws[c].hash
      <4>1. Unread(c)'
        BY <3>1, <3>2, <3>4 DEF Unread, Locked
      <4>2. new = snap[c][i] \/ new.at > line.at
        <5>1. clock \in Nat /\ line.at \in Nat /\ line.at <= clock
          BY <1>3, <2>2 DEF Sane, Line
        <5> QED BY <2>2, <3>2, <3>3, <5>1
      <4> QED BY <3>2, <3>4, <4>1, <4>2 DEF Waits, new, line, base
    <3>5. CASE ~(ws'[c].file = ws[c].file /\ ws'[c].known = ws[c].known /\ ws'[c].hash = ws[c].hash)
      <4>1. line = row
        BY <3>1, <3>2, <3>5 DEF Minds, line, row
      <4>2. snap[c][i] = line
        BY <2>2, <3>2, <4>1 DEF Sane, Line
      <4> QED BY <3>2, <4>2 DEF Seen
    <3> QED BY <3>4, <3>5
  <2> QED BY <2>1, <2>8, <2>9, <2>10, <2>11, <2>12 DEF Kept, base, head, last, new
<1> HIDE DEF row, new, line
<1>8. /\ Flying(c)' => Flying(c) /\ Outgoing(c)'[i] \in {Outgoing(c)[i], new}
      /\ \A d \in Clones \ {c} : Outgoing(d)' = Outgoing(d) /\ (Flying(d)' <=> Flying(d))
  <2>1. \A d \in Clones \ {c} : Outgoing(d)' = Outgoing(d) /\ (Flying(d)' <=> Flying(d))
    BY <1>1, <1>2 DEF Outgoing, Flying
  <2>2. ASSUME Flying(c)' PROVE Flying(c) /\ Outgoing(c)'[i] \in {Outgoing(c)[i], new}
    <3>1. pc'[c] = pc[c] /\ Flying(c)
      BY <2>2 DEF Flying
    <3> QED BY <1>2, <1>6, <3>1 DEF Outgoing, line
  <2> QED BY <2>1, <2>2
<1>9. \A d \in Clones : Alive(d, i)'
  <2>1. \A d \in Clones : Alive(d, i)
    BY DEF Good
  <2>2. ~Dead(ws'[c].file[i])
    BY <1>5, <1>6, <2>1 DEF Alive, line
  <2> QED BY <1>1, <1>2, <2>1, <2>2 DEF Alive
<1>10. \A d \in Clones : Kept(d, i)'
  <2>1. \A d \in Clones \ {c} : Kept(d, i)'
    BY <1>1, <1>2 DEF Good, Kept, Waits, Unread, Locked
  <2> QED BY <1>7, <2>1
<1>11. \E d \in Clones : remote[i].at <= ws'[d].db[i].at
  <2>1. PICK d \in Clones : remote[i].at <= ws[d].db[i].at
    BY DEF Good, Ordered
  <2> QED BY <1>dates, <1>4, <2>1
<1>12. \A d \in Clones : Ordered(d, i)'
  <2> TAKE d \in Clones
  <2>1. Ordered(d, i)
    BY DEF Good
  <2>2. \E e \in Clones : git[d].base[i].at <= ws'[e].db[i].at
    BY <1>dates, <1>4, <2>1 DEF Ordered
  <2>3. Before(git[d].head[i], ws'[d].db[i], git[d].base[i])
        /\ Before(git[d].base[i], ws'[d].db[i], remote[i])
    BY <1>dates, <1>4, <2>1 DEF Ordered, Before
  <2>4. Flying(d)' => Outgoing(d)'[i].at <= ws'[d].db[i].at
    BY <1>dates, <1>4, <1>8, <2>1 DEF Ordered, new
  <2> QED BY <1>2, <1>11, <2>2, <2>3, <2>4 DEF Ordered
<1>13. \A d \in Clones : Leads(d, i)'
  <2> SUFFICES ASSUME NEW d \in Clones, Flying(d)', ~git[d].behind, NEW e \in Clones \ {d}
               PROVE  /\ Before(git[e].base[i], Outgoing(d)'[i], ws'[e].db[i])
                      /\ Before(remote[i], Outgoing(d)'[i], ws'[e].db[i])
    BY <1>2 DEF Leads
  <2>1. CASE Outgoing(d)'[i] = Outgoing(d)[i]
    <3>1. Flying(d)
      BY <1>8
    <3>2. /\ Before(git[e].base[i], Outgoing(d)[i], ws[e].db[i])
          /\ Before(remote[i], Outgoing(d)[i], ws[e].db[i])
      BY <3>1 DEF Good, Leads
    <3> QED BY <1>dates, <1>4, <2>1, <3>2 DEF Before
  <2>2. CASE d = c /\ Outgoing(d)'[i] = new
    <3>1. /\ \E f \in Clones : git[e].base[i].at <= ws'[f].db[i].at
          /\ \E f \in Clones : remote[i].at <= ws'[f].db[i].at
      BY <1>2, <1>11, <1>12 DEF Ordered
    <3> QED BY <2>2, <3>1 DEF AtMostTwo, Before, new
  <2> QED BY <1>8, <2>1, <2>2
<1> QED BY <1>5, <1>9, <1>10, <1>11, <1>12, <1>13 DEF Good

(* Steps of a sync that list, write, remember, commit or end.              *)
LEMMA StageKeeps ==
  ASSUME Sound, NEW c \in Clones, Alone(c), UNCHANGED remote, AtMostTwo,
         ws'[c].db = ws[c].db, git'[c].base = git[c].base, git'[c].behind = git[c].behind,
         \/ git'[c].head = git[c].head
         \/ git'[c].head = Outgoing(c) /\ Flying(c),
         \/ ~Flying(c)'
         \/ Flying(c) /\ Outgoing(c)' = Outgoing(c)
         \/ Outgoing(c)' = ws[c].db,
         ws'[c].file \in {ws[c].file, snap[c]}, snap'[c] \in {snap[c], ws[c].db, Empty},
         git'[c].head \in {git[c].head, ws[c].file},
         NEW i \in Issues, ~Deleted(i)', Good(i), Kept(c, i)'
  PROVE  Good(i)'
<1>1. /\ \A d \in Clones \ {c} : /\ ws'[d] = ws[d] /\ pc'[d] = pc[d]
                                 /\ git'[d] = git[d] /\ snap'[d] = snap[d]
      /\ \A d \in Clones : /\ ws'[d].db = ws[d].db /\ git'[d].base = git[d].base
                           /\ git'[d].behind = git[d].behind
  BY DEF Alone
<1>2. ~Deleted(i)
  BY <1>1 DEF Deleted
<1>3. clock \in Nat /\ Sane(remote[i], clock)
      /\ \A d \in Clones : /\ Sane(ws[d].db[i], clock) /\ Sane(git[d].base[i], clock)
                           /\ Sane(git[d].head[i], clock) /\ Sane(ws[d].file[i], clock)
                           /\ Sane(Outgoing(d)[i], clock)
  BY SaneHere DEF Sound
<1>4. \A d \in Clones : Alive(d, i)'
  <2>1. \A d \in Clones : Alive(d, i) /\ ~Dead(ws[d].db[i])
    BY <1>2 DEF Good, Deleted
  <2>2. Alive(c, i)'
    BY <2>1, EmptyIs, AbsentIs DEF Alive
  <2> QED BY <1>1, <2>1, <2>2 DEF Alive
<1>5. \A d \in Clones \ {c} : Outgoing(d)' = Outgoing(d) /\ (Flying(d)' <=> Flying(d))
  BY <1>1 DEF Outgoing, Flying
<1>6. \A d \in Clones : Kept(d, i)'
  <2>1. \A d \in Clones \ {c} : Kept(d, i)'
    BY <1>1 DEF Good, Kept, Waits, Unread, Locked
  <2> QED BY <2>1
<1>7. \A d \in Clones : Ordered(d, i)'
  <2>1. \A d \in Clones : Ordered(d, i)
    BY DEF Good
  <2>2. ASSUME NEW d \in Clones \ {c} PROVE Ordered(d, i)'
    <3>1. /\ \E e \in Clones : git[d].base[i].at <= ws'[e].db[i].at
          /\ \E e \in Clones : remote[i].at <= ws'[e].db[i].at
      <4>1. PICK e \in Clones : git[d].base[i].at <= ws[e].db[i].at
        BY <2>1 DEF Ordered
      <4>2. PICK f \in Clones : remote[i].at <= ws[f].db[i].at
        BY <2>1 DEF Ordered
      <4>3. ws'[e].db = ws[e].db /\ ws'[f].db = ws[f].db
        BY <1>1
      <4> QED BY <4>1, <4>2, <4>3
    <3> QED BY <1>1, <1>5, <2>1, <3>1 DEF Ordered
  <2>3. Before(git'[c].head[i], ws[c].db[i], git[c].base[i])
    BY <2>1 DEF Ordered, Before
  <2>4. Flying(c)' => Outgoing(c)'[i].at <= ws[c].db[i].at
    BY <1>3, <2>1, SMTT(30) DEF Ordered, Sane, Line
  <2>5. Ordered(c, i)'
    BY <1>1, <2>1, <2>3, <2>4, SMTT(30) DEF Ordered
  <2> QED BY <2>2, <2>5
<1>8. \A d \in Clones : Leads(d, i)'
  <2> SUFFICES ASSUME NEW d \in Clones, Flying(d)', ~git[d].behind, NEW e \in Clones \ {d}
               PROVE  /\ Before(git[e].base[i], Outgoing(d)'[i], ws[e].db[i])
                      /\ Before(remote[i], Outgoing(d)'[i], ws[e].db[i])
    BY <1>1 DEF Leads
  <2>1. CASE Flying(d) /\ Outgoing(d)' = Outgoing(d)
    BY <2>1 DEF Good, Leads
  <2>2. CASE d = c /\ Outgoing(c)' = ws[c].db
    <3>1. /\ \E f \in Clones : git[e].base[i].at <= ws[f].db[i].at
          /\ \E f \in Clones : remote[i].at <= ws[f].db[i].at
      BY DEF Good, Ordered
    <3> QED BY <2>2, <3>1 DEF AtMostTwo, Before
  <2> QED BY <1>5, <2>1, <2>2
<1> QED BY <1>4, <1>6, <1>7, <1>8 DEF Good

(* What a pull leaves of one issue.                                        *)
LEMMA PullLine ==
  ASSUME Sound, Unique, NEW c \in Clones, NEW i \in Issues, ~Deleted(i), Good(i)
  PROVE  LET m == PullResult(c)[i] IN
         /\ ~Dead(m) /\ Keeps(m, remote[i]) /\ Before(m, ws[c].db[i], remote[i])
         /\ Keeps(ws[c].db[i], git[c].base[i]) /\ Seen(ws[c].db[i], m) =>
              Keeps(ws[c].db[i], remote[i])
<1> DEFINE b == git[c].base
           l == git[c].head
           x == ws[c].db[i]
           m == PullResult(c)
<1>1. Sane(b[i], clock) /\ Sane(l[i], clock) /\ Sane(remote[i], clock) /\ Sane(x, clock)
      /\ clock \in Nat
  BY SaneHere
<1>2. /\ ~Dead(b[i]) /\ ~Dead(l[i]) /\ ~Dead(remote[i]) /\ ~Dead(x)
      /\ Keeps(l[i], b[i]) /\ Before(l[i], x, b[i]) /\ Before(b[i], x, remote[i])
  BY DEF Good, Alive, Kept, Ordered, Deleted
<1>3. b[i].at = remote[i].at => b[i] = remote[i]
  BY DEF Unique, Original, Own
<1>4. \/ m = l /\ b = remote
      \/ m = remote
      \/ m[i] = MergeLine(b[i], l[i], remote[i])
  <2>1. DOMAIN b = Issues /\ (~git[c].behind => b = remote)
        /\ git[c].behind \in BOOLEAN /\ git[c].ahead \in BOOLEAN
    BY DEF Sound, Branch, SaneFile, Lines, Repo
  <2>2. CASE ~git[c].behind
    BY <2>1, <2>2 DEF PullResult
  <2>3. CASE git[c].behind /\ ~git[c].ahead
    BY <2>3 DEF PullResult
  <2>4. CASE git[c].behind /\ git[c].ahead
    <3>1. m = MergeFile(b, l, remote)
      BY <2>4 DEF PullResult
    <3> QED BY <2>1, <3>1 DEF MergeFile
  <2> QED BY <2>1, <2>2, <2>3, <2>4
<1> HIDE DEF m, b, l, x
<1>5. CASE m = l /\ b = remote
  BY <1>2, <1>5 DEF m, b, l, x
<1>6. CASE m = remote
  <2>1. Keeps(remote[i], remote[i]) /\ Before(remote[i], x, remote[i])
    BY <1>1 DEF Keeps, Before, Sane, Line
  <2> QED BY <1>1, <1>2, <1>6, <2>1, KeepsSeen DEF m, b, l, x
<1>7. CASE m[i] = MergeLine(b[i], l[i], remote[i])
  <2>1. /\ ~Dead(m[i]) /\ Keeps(m[i], remote[i]) /\ Before(m[i], x, remote[i])
        /\ Keeps(x, b[i]) /\ Seen(x, m[i]) => Keeps(x, remote[i])
    BY <1>1, <1>2, <1>3, <1>7, MergeKeeps
  <2> QED BY <2>1 DEF m, b, x
<1> QED BY <1>4, <1>5, <1>6, <1>7

LEMMA PullKeeps ==
  ASSUME Sound, Unique, NEW c \in Clones, Pull(c),
         NEW i \in Issues, ~Deleted(i)', Good(i)
  PROVE  Good(i)'
<1> DEFINE m == PullResult(c)
<1>1. /\ pc[c] = "pull" /\ ~Flying(c)' /\ ~Refused(c) /\ UNCHANGED <<clock, remote, snap>>
      /\ git'[c] = [git[c] EXCEPT !.head = m, !.base = remote, !.behind = FALSE]
      /\ ws'[c] = [ws[c] EXCEPT !.file = IF m = git[c].head THEN @ ELSE m]
  BY Here DEF Pull, Goto, AfterPull, Tables, Flying
<1>2. ws[c] \in Workspace /\ git[c] \in Repo
  BY Here DEF Work, Branch
<1>3. git'[c].head = m /\ git'[c].base = remote /\ ws'[c].db = ws[c].db
      /\ ws'[c].file = (IF m = git[c].head THEN ws[c].file ELSE m)
  BY <1>1, <1>2 DEF Workspace, Repo
<1>4. Alone(c)
  BY Here, ActsAlone
<1>5. \A d \in Clones \ {c} : /\ ws'[d] = ws[d] /\ pc'[d] = pc[d] /\ git'[d] = git[d]
                              /\ Outgoing(d)' = Outgoing(d) /\ (Flying(d)' <=> Flying(d))
  BY <1>4 DEF Alone, Outgoing, Flying
<1>6. \A d \in Clones : ws'[d].db = ws[d].db
  BY <1>3, <1>5
<1>7. ~Deleted(i)
  BY <1>6 DEF Deleted
<1>8. /\ ~Dead(m[i]) /\ Keeps(m[i], remote[i]) /\ Before(m[i], ws[c].db[i], remote[i])
      /\ Keeps(ws[c].db[i], git[c].base[i]) /\ Seen(ws[c].db[i], m[i]) =>
           Keeps(ws[c].db[i], remote[i])
  BY <1>7, PullLine
<1> HIDE DEF m
<1>9. Seen(ws[c].db[i], ws[c].file[i])
  BY <1>1, Here DEF Files, Work
<1>10. Keeps(ws[c].db[i], git[c].base[i]) /\ Seen(ws[c].db[i], git[c].head[i])
  BY <1>9 DEF Good, Kept
<1>11. /\ Seen(ws[c].db[i], ws'[c].file[i]) => Seen(ws[c].db[i], m[i])
       /\ ws'[c].file[i] = m[i] \/ Seen(ws[c].db[i], m[i])
       /\ ws[c].db[i] = Absent => ws'[c].file[i] = m[i]
  <2>1. CASE m = git[c].head
    BY <1>3, <1>10, <2>1 DEF Good, Kept
  <2>2. CASE m # git[c].head
    BY <1>3, <2>2
  <2> QED BY <2>1, <2>2
<1>12. \A d \in Clones : Alive(d, i)'
  <2>1. \A d \in Clones : Alive(d, i) /\ ~Dead(remote[i])
    BY DEF Good
  <2>2. Alive(c, i)'
    BY <1>1, <1>3, <1>8, <2>1 DEF Alive
  <2> QED BY <1>1, <1>5, <2>1, <2>2 DEF Alive
<1>13. \A d \in Clones : Kept(d, i)'
  <2>1. pc'[c] \notin {"listed", "written", "commit"}
    BY <1>1 DEF Flying
  <2>2. Kept(c, i)'
    BY <1>3, <1>8, <1>10, <1>11, <2>1 DEF Kept
  <2>3. \A d \in Clones \ {c} : Kept(d, i)'
    BY <1>1, <1>5 DEF Good, Kept, Waits, Unread, Locked
  <2> QED BY <2>2, <2>3
<1>14. \E d \in Clones : remote[i].at <= ws[d].db[i].at
  BY DEF Good, Ordered
<1>15. \A d \in Clones : Ordered(d, i)'
  <2>1. Before(remote[i], ws[c].db[i], remote[i])
    BY SaneHere DEF Before, Sane, Line
  <2>2. Ordered(c, i)'
    BY <1>1, <1>3, <1>6, <1>8, <1>14, <2>1 DEF Ordered
  <2>3. ASSUME NEW d \in Clones \ {c} PROVE Ordered(d, i)'
    <3>1. Ordered(d, i)
      BY DEF Good
    <3>2. \E e \in Clones : git[d].base[i].at <= ws'[e].db[i].at
      BY <1>6, <3>1 DEF Ordered
    <3>3. \E e \in Clones : remote[i].at <= ws'[e].db[i].at
      BY <1>6, <1>14
    <3> QED BY <1>1, <1>5, <1>6, <3>1, <3>2, <3>3 DEF Ordered
  <2> QED BY <2>2, <2>3
<1>16. \A d \in Clones : Leads(d, i)'
  <2> SUFFICES ASSUME NEW d \in Clones, Flying(d)', ~git'[d].behind, NEW e \in Clones \ {d}
               PROVE  /\ Before(git'[e].base[i], Outgoing(d)'[i], ws[e].db[i])
                      /\ Before(remote[i], Outgoing(d)'[i], ws[e].db[i])
    BY <1>1, <1>6 DEF Leads
  <2>1. d # c
    BY <1>1
  <2>2. /\ Before(git[e].base[i], Outgoing(d)[i], ws[e].db[i])
        /\ Before(remote[i], Outgoing(d)[i], ws[e].db[i])
    BY <1>5, <2>1 DEF Good, Leads
  <2> QED BY <1>3, <1>5, <2>1, <2>2
<1> QED BY <1>1, <1>6, <1>12, <1>13, <1>14, <1>15, <1>16 DEF Good

LEMMA PushKeeps ==
  ASSUME Sound, NEW c \in Clones, Push(c), NEW i \in Issues, ~Deleted(i)', Good(i)
  PROVE  Good(i)'
<1>1. /\ pc[c] = "push" /\ remote' = git[c].head /\ UNCHANGED <<ws, snap>> /\ ~git[c].behind
      /\ ~Flying(c)' /\ \A d \in Clones \ {c} : pc'[d] = pc[d]
  BY PushIs, Here DEF Tables, Flying
<1>2. /\ git'[c].head = git[c].head /\ git'[c].base = git[c].head
      /\ \A d \in Clones \ {c} : /\ git'[d].head = git[d].head /\ git'[d].base = git[d].base
                                 /\ git'[d].behind
  <2>1. \A d \in Clones : git[d] \in Repo
    BY Here DEF Branch
  <2>2. git'[c] = [git[c] EXCEPT !.base = git[c].head, !.ahead = FALSE]
        /\ \A d \in Clones \ {c} : git'[d] = [git[d] EXCEPT !.behind = TRUE]
    BY PushIs
  <2> QED BY <2>1, <2>2, ZenonT(60) DEF Repo
<1>3. Flying(c) /\ Outgoing(c) = git[c].head
  BY <1>1 DEF Flying, Outgoing
<1>4. \A d \in Clones \ {c} : Outgoing(d)' = Outgoing(d) /\ (Flying(d)' <=> Flying(d))
  BY <1>1, <1>2 DEF Outgoing, Flying
<1>5. Sane(git[c].head[i], clock) /\ Sane(ws[c].db[i], clock) /\ Sane(git[c].base[i], clock)
  BY SaneHere
<1>6. \A d \in Clones : Alive(d, i)' /\ ~Dead(git[c].head[i])
  BY <1>1, <1>2 DEF Good, Alive
<1>7. \A d \in Clones : Kept(d, i)'
  <2>1. Keeps(git[c].head[i], git[c].head[i])
    BY DEF Keeps
  <2>2. Seen(ws[c].db[i], ws[c].file[i]) => Keeps(ws[c].db[i], git[c].head[i])
    <3>1. ~Dead(ws[c].db[i])
      BY <1>1 DEF Deleted
    <3>2. ws[c].file[i] = git[c].head[i] \/ Seen(ws[c].db[i], git[c].head[i])
      BY DEF Good, Kept
    <3> QED BY <1>5, <3>1, <3>2, KeepsSeen, Here
  <2>3. pc'[c] \notin {"listed", "written", "commit"} /\ Kept(c, i)
    BY <1>1 DEF Flying, Good
  <2>4. Kept(c, i)'
    BY <1>1, <1>2, <2>1, <2>2, <2>3 DEF Kept
  <2>5. \A d \in Clones \ {c} : Kept(d, i)'
    BY <1>1, <1>2 DEF Good, Kept, Waits, Unread, Locked
  <2> QED BY <2>4, <2>5
<1>8. git[c].head[i].at <= ws[c].db[i].at
  BY <1>3 DEF Good, Ordered
<1>9. \A d \in Clones : Ordered(d, i)'
  <2>1. Before(git[c].head[i], ws[c].db[i], git[c].head[i])
    BY <1>8 DEF Before
  <2>2. Ordered(c, i)'
    BY <1>1, <1>2, <1>8, <2>1 DEF Ordered
  <2>3. ASSUME NEW d \in Clones \ {c} PROVE Ordered(d, i)'
    <3>1. Before(git[d].base[i], git[c].head[i], ws[d].db[i])
      BY <1>1, <1>3 DEF Good, Leads
    <3>2. Before(git[d].base[i], ws[d].db[i], git[c].head[i])
      BY <3>1 DEF Before
    <3>3. \E e \in Clones : git[d].base[i].at <= ws[e].db[i].at
      BY DEF Good, Ordered
    <3>4. Ordered(d, i)
      BY DEF Good
    <3> QED BY <1>1, <1>2, <1>4, <1>8, <3>2, <3>3, <3>4 DEF Ordered
  <2> QED BY <2>2, <2>3
<1>10. \A d \in Clones : Leads(d, i)'
  BY <1>1, <1>2 DEF Leads
<1> QED BY <1>1, <1>6, <1>7, <1>8, <1>9, <1>10 DEF Good

(* An import, a write or a flush overwrites nothing that is unread, of an  *)
(* issue that is not counted as overwritten.                               *)
LEMMA WorkIs ==
  ASSUME Sound, Sound', NEW c \in Clones,
         \/ \E k \in {"sync", "pull", "push"} : Begin(c, k)
         \/ Hook(c) \/ Import(c) \/ AutoFlush(c) \/ Command(c)
  PROVE  /\ git'[c] = git[c] /\ snap'[c] = snap[c] /\ Moves(ws[c], ws'[c], clock)
         /\ pc'[c] = pc[c] \/ (~Flying(c) /\ ~Flying(c)')
         /\ \A i \in Issues : ~Deleted(i)' /\ i \notin overwritten' => Minds(c, i)
<1>1. git'[c] = git[c] /\ snap'[c] = snap[c]
  BY Here, CommandAlone DEF sync, Begin, Hook, Import, AutoFlush
<1>2. CASE \E k \in {"sync", "pull", "push"} : Begin(c, k)
  <2>1. PICK k \in {"sync", "pull", "push"} : Begin(c, k)
    BY <1>2
  <2>2. Moves(ws[c], ws'[c], clock) /\ ws'[c].file = ws[c].file
    BY <2>1, BeginIs
  <2>3. ~Flying(c) /\ ~Flying(c)'
    BY <2>1, Here DEF Begin, Goto, Tables, Flying
  <2> QED BY <1>1, <2>2, <2>3 DEF Minds, Flying
<1>3. CASE Hook(c) \/ Import(c)
  <2>1. ~Flying(c) /\ ~Flying(c)'
    BY <1>3, Here DEF Hook, Import, Goto, AfterPull, Tables, Flying
  <2> QED BY <1>1, <1>3, <2>1, HookIs DEF Minds, Flying
<1>4. CASE AutoFlush(c) \/ FlushEdit(c)
  <2>1. /\ Moves(ws[c], ws'[c], clock) /\ UNCHANGED pc /\ ws'[c].db = ws[c].db
        /\ ws[c].file # ws[c].hash =>
             \A i \in Issues : ws'[c].file[i] = ws[c].db[i] \/ Dead(ws[c].db[i])
    BY <1>4, AutoFlushIs
  <2>2. ASSUME NEW i \in Issues, ~Deleted(i)', i \notin overwritten' PROVE Minds(c, i)
    <3>1. ~Dead(ws[c].db[i])
      BY <2>1, <2>2 DEF Deleted
    <3>2. Unread(c) => ws'[c].file[i] = ws[c].file[i]
      BY <1>4, <2>2 DEF AutoFlush, FlushEdit, Overwrites
    <3>3. ~Unread(c) => Seen(ws[c].db[i], ws[c].file[i])
      BY Here DEF Unread, Files, Work
    <3>4. Unread(c) => ws[c].file # ws[c].hash
      BY DEF Unread
    <3> QED BY <2>1, <3>1, <3>2, <3>3, <3>4 DEF Minds
  <2> QED BY <1>1, <2>1, <2>2
<1>5. ASSUME NEW kind \in Edits, Start(c, kind)
      PROVE  Moves(ws[c], ws'[c], clock) /\ pc'[c] = pc[c] /\ \A i \in Issues : Minds(c, i)
  <2>1. /\ Moves(ws[c], ws'[c], clock) /\ ws'[c].file = ws[c].file
        /\ Locked(c) => ws'[c] = ws[c]
    BY <1>5, StartIs
  <2>2. pc'[c] = pc[c]
    BY <1>5 DEF Start, sync
  <2> QED BY <2>1, <2>2 DEF Minds, Locked
<1>6. ASSUME NEW j \in Issues, Write(c, j)
      PROVE  Moves(ws[c], ws'[c], clock) /\ pc'[c] = pc[c] /\ \A i \in Issues : Minds(c, i)
  <2>1. pc'[c] = pc[c]
    BY <1>6 DEF Write, sync
  <2> QED BY <1>6, <2>1, WriteIs DEF Minds
<1>7. CASE Quit(c)
  BY <1>1, <1>7, MovesNot DEF Quit, sync, Minds
<1> QED BY <1>1, <1>2, <1>3, <1>4, <1>5, <1>6, <1>7 DEF Command

LEMMA StageIs ==
  ASSUME Sound, NEW c \in Clones, ExportWrite(c) \/ Finalize(c) \/ Commit(c)
  PROVE  /\ ws'[c].db = ws[c].db
         /\ git'[c].base = git[c].base /\ git'[c].behind = git[c].behind
         /\ \/ /\ pc[c] = "listed" /\ pc'[c] = "written" /\ ws'[c].file = snap[c]
               /\ git'[c].head = git[c].head /\ snap'[c] = snap[c]
            \/ /\ pc[c] = "written" /\ pc'[c] = "commit" /\ ws'[c].file = ws[c].file
               /\ git'[c].head = git[c].head /\ snap'[c] = Empty
            \/ /\ pc[c] = "commit" /\ pc'[c] = "push" /\ ws'[c].file = ws[c].file
               /\ git'[c].head = ws[c].file /\ snap'[c] = snap[c]
<1>1. ws[c] \in Workspace /\ git[c] \in Repo
  BY Here DEF Work, Branch
<1>2. CASE ExportWrite(c)
  <2>1. /\ pc[c] = "listed" /\ pc'[c] = "written" /\ git' = git /\ snap' = snap
        /\ ws'[c] = [ws[c] EXCEPT !.file = snap[c]]
    BY <1>2, Here DEF ExportWrite, Goto, Tables
  <2> QED BY <1>1, <2>1 DEF Workspace
<1>3. CASE Finalize(c)
  <2> DEFINE left == {i \in ws[c].dirty : snap[c][i] = Absent}
  <2>1. /\ pc[c] = "written" /\ pc'[c] = "commit" /\ git' = git /\ snap'[c] = Empty
        /\ ws'[c] = [ws[c] EXCEPT !.dirty = left, !.known = snap[c], !.hash = snap[c]]
    BY <1>3, Here DEF Finalize, Goto, Tables
  <2> HIDE DEF left
  <2> QED BY <1>1, <2>1 DEF Workspace
<1>4. CASE Commit(c)
  <2>1. /\ pc[c] = "commit" /\ pc'[c] = "push" /\ ws' = ws /\ snap' = snap
        /\ git'[c] = [git[c] EXCEPT !.head = ws[c].file, !.ahead = TRUE]
    BY <1>4, Here DEF Commit, Goto, Tables
  <2> QED BY <1>1, <2>1 DEF Repo
<1> QED BY <1>2, <1>3, <1>4

(* What these steps keep of the clone itself.  The file that an export     *)
(* replaces has been seen, or holds what the export writes.                *)
LEMMA StageKept ==
  ASSUME Sound, NEW c \in Clones, NEW i \in Issues, Good(i), i \notin overwritten',
         \/ PullFails(c) \/ NothingToCommit(c) \/ Finish(c) \/ Abort(c)
         \/ ExportList(c) \/ ExportWrite(c) \/ Finalize(c) \/ Commit(c)
  PROVE  Kept(c, i)'
<1> DEFINE row == ws[c].db[i]
           line == ws[c].file[i]
           base == git[c].base[i]
           head == git[c].head[i]
<1>1. /\ Keeps(head, base) /\ (Seen(row, line) => Keeps(row, base))
      /\ line = head \/ Seen(row, head)
      /\ row = Absent => line = head
      /\ pc[c] \in {"written", "commit"} => Keeps(line, base)
      /\ pc[c] = "listed" => Keeps(snap[c][i], base) \/ Waits(c, i)
  BY DEF Good, Kept
<1>2. /\ Seen(row, ws[c].known[i]) /\ Seen(row, ws[c].hash[i]) /\ Seen(row, snap[c][i])
  BY Here DEF Files, Work
<1>3. CASE PullFails(c) \/ NothingToCommit(c) \/ Finish(c) \/ Abort(c)
  <2>1. UNCHANGED <<ws, git>> /\ pc'[c] \notin {"listed", "written", "commit"}
    BY <1>3, Here DEF PullFails, NothingToCommit, Finish, Abort, Goto, Tables
  <2> QED BY <1>1, <2>1 DEF Kept
<1>4. CASE ExportList(c)
  <2>1. UNCHANGED <<ws, git>> /\ snap'[c] = ws[c].db /\ pc'[c] = "listed"
    BY <1>4, Here DEF ExportList, Goto, Tables
  <2>2. ASSUME ~Seen(row, line) PROVE Waits(c, i)'
    <3>1. ws[c].file \notin {ws[c].known, ws[c].hash, ws[c].db}
      BY <1>2, <2>2 DEF Seen
    <3>2. Unread(c)'
      BY <2>1, <3>1 DEF Unread
    <3> QED BY <2>1, <2>2, <3>2 DEF Waits
  <2>3. Keeps(row, base) \/ Waits(c, i)'
    BY <1>1, <2>2
  <2> QED BY <1>1, <2>1, <2>3 DEF Kept
<1>5. CASE ExportWrite(c)
  <2>1. /\ ws'[c].db = ws[c].db /\ git'[c].base = git[c].base /\ ws'[c].file = snap[c]
        /\ git'[c].head = git[c].head /\ pc[c] = "listed" /\ pc'[c] = "written"
    BY <1>5, StageIs DEF ExportWrite, Goto
  <2>2. Unread(c) => snap[c][i] = line
    BY <1>5, <2>1 DEF ExportWrite, Overwrites
  <2>3. Seen(row, line)
    BY <1>2, <2>2 DEF Unread
  <2>4. Keeps(snap[c][i], base)
    BY <1>1, <2>1, <2>2 DEF Waits, Seen
  <2>5. snap[c][i] = head \/ Seen(row, head)
    BY <1>1, <2>3
  <2>6. row = Absent => snap[c][i] = head
    BY <1>1, <1>2, <2>3, Here, SaneHere, SeenAbsent
  <2> QED BY <1>1, <2>1, <2>3, <2>4, <2>5, <2>6 DEF Kept
<1>6. CASE Finalize(c)
  <2>1. /\ ws'[c].db = ws[c].db /\ git'[c].base = git[c].base /\ ws'[c].file = ws[c].file
        /\ git'[c].head = git[c].head /\ pc[c] = "written" /\ pc'[c] = "commit"
    BY <1>6, StageIs DEF Finalize, Goto
  <2> QED BY <1>1, <2>1 DEF Kept
<1>7. CASE Commit(c)
  <2>1. /\ ws'[c].db = ws[c].db /\ git'[c].base = git[c].base /\ ws'[c].file = ws[c].file
        /\ git'[c].head = ws[c].file /\ pc[c] = "commit" /\ pc'[c] = "push"
    BY <1>7, StageIs DEF Commit, Goto
  <2> QED BY <1>1, <2>1 DEF Kept
<1> QED BY <1>3, <1>4, <1>5, <1>6, <1>7

LEMMA KeepingStep ==
  ASSUME Sound, Unique, Keeping, [Next]_vars, AtMostTwo
  PROVE  Keeping'
<1>1. Sound'
  BY SoundStep
<1>2. CASE UNCHANGED vars
  BY <1>2 DEF vars, sync, Keeping, Exempt, Deleted, Good, Alive, Kept, Waits, Unread, Locked, Ordered,
              Leads, Flying, Outgoing
<1>3. ASSUME NEW c \in Clones, Push(c) PROVE Keeping'
  <2>1. UNCHANGED <<ws, overwritten>>
    BY <1>3, PushIs
  <2>2. ASSUME NEW i \in Issues, ~Exempt(i)' PROVE Good(i)'
    <3>1. ~Exempt(i) /\ ~Deleted(i)'
      BY <2>1, <2>2 DEF Exempt, Deleted
    <3> QED BY <1>3, <3>1, PushKeeps DEF Keeping
  <2> QED BY <2>2 DEF Keeping
<1>4. ASSUME NEW c \in Clones,
             \/ \E k \in {"sync", "pull", "push"} : Begin(c, k)
             \/ Hook(c) \/ Import(c) \/ AutoFlush(c) \/ Command(c)
      PROVE  Keeping'
  <2>1. Alone(c) /\ UNCHANGED remote /\ Grows
    BY <1>4, Here, ActsAlone
  <2>2. /\ git'[c] = git[c] /\ snap'[c] = snap[c] /\ Moves(ws[c], ws'[c], clock)
        /\ pc'[c] = pc[c] \/ (~Flying(c) /\ ~Flying(c)')
        /\ \A i \in Issues : ~Deleted(i)' /\ i \notin overwritten' => Minds(c, i)
    BY <1>1, <1>4, WorkIs
  <2>3. ASSUME NEW i \in Issues, ~Exempt(i)' PROVE Good(i)'
    <3>1. ~Deleted(i)' /\ i \notin overwritten' /\ i \notin overwritten
      BY <2>1, <2>3 DEF Exempt, Grows
    <3>2. ~Deleted(i)
      BY <1>1, <2>1, <2>2, <3>1, RowsMove DEF Alone
    <3>3. Good(i) /\ Minds(c, i)
      BY <2>2, <3>1, <3>2 DEF Keeping, Exempt
    <3> QED BY <1>1, <2>1, <2>2, <3>1, <3>3, WorkKeeps
  <2> QED BY <2>3 DEF Keeping
<1>5. ASSUME NEW c \in Clones,
             \/ Pull(c) \/ PullFails(c) \/ ExportList(c) \/ ExportWrite(c) \/ Finalize(c)
             \/ NothingToCommit(c) \/ Commit(c) \/ Finish(c) \/ Abort(c)
      PROVE  Keeping'
  <2>1. Alone(c) /\ UNCHANGED remote /\ Grows
    BY <1>5, Here, ActsAlone
  <2>2. ws[c] \in Workspace /\ git[c] \in Repo
    BY Here DEF Work, Branch
  <2>3. ws'[c].db = ws[c].db
    <3>1. CASE Pull(c)
      <4>1. ws'[c] = [ws[c] EXCEPT !.file = IF PullResult(c) = git[c].head THEN @ ELSE PullResult(c)]
        BY <3>1, Here DEF Pull, Tables
      <4> QED BY <2>2, <4>1 DEF Workspace
    <3>2. CASE PullFails(c) \/ ExportList(c) \/ NothingToCommit(c) \/ Finish(c) \/ Abort(c)
      BY <3>2 DEF PullFails, ExportList, NothingToCommit, Finish, Abort
    <3> QED BY <1>5, <3>1, <3>2, StageIs
  <2>4. \A d \in Clones : ws'[d].db = ws[d].db
    BY <2>1, <2>3 DEF Alone
  <2>5. ASSUME NEW i \in Issues, ~Exempt(i)' PROVE Good(i)'
    <3>1. Good(i) /\ ~Deleted(i)' /\ i \notin overwritten'
      BY <2>1, <2>4, <2>5 DEF Keeping, Exempt, Deleted, Grows
    <3>2. CASE Pull(c)
      BY <3>1, <3>2, PullKeeps
    <3>3. CASE ~Pull(c)
      <4>1. Kept(c, i)'
        BY <1>5, <3>1, <3>3, StageKept
      <4>2. CASE PullFails(c) \/ NothingToCommit(c) \/ Finish(c) \/ Abort(c)
        <5>1. UNCHANGED <<ws, git>> /\ ~Flying(c)' /\ snap'[c] \in {snap[c], Empty}
          BY <4>2, Here DEF PullFails, NothingToCommit, Finish, Abort, Goto, Tables, Flying
        <5> QED BY <2>1, <3>1, <4>1, <5>1, StageKeeps
      <4>3. CASE ExportList(c)
        <5>1. UNCHANGED <<ws, git>> /\ snap'[c] = ws[c].db /\ pc'[c] = "listed"
          BY <4>3, Here DEF ExportList, Goto, Tables
        <5>2. Outgoing(c)' = ws[c].db
          BY <5>1 DEF Outgoing
        <5> QED BY <2>1, <3>1, <4>1, <5>1, <5>2, StageKeeps
      <4>4. CASE ExportWrite(c) \/ Finalize(c) \/ Commit(c)
        <5>1. /\ git'[c].base = git[c].base /\ git'[c].behind = git[c].behind
              /\ \/ /\ pc[c] = "listed" /\ pc'[c] = "written" /\ ws'[c].file = snap[c]
                    /\ git'[c].head = git[c].head /\ snap'[c] = snap[c]
                 \/ /\ pc[c] = "written" /\ pc'[c] = "commit" /\ ws'[c].file = ws[c].file
                    /\ git'[c].head = git[c].head /\ snap'[c] = Empty
                 \/ /\ pc[c] = "commit" /\ pc'[c] = "push" /\ ws'[c].file = ws[c].file
                    /\ git'[c].head = ws[c].file /\ snap'[c] = snap[c]
          BY <4>4, StageIs
        <5>2. /\ Flying(c) /\ Outgoing(c)' = Outgoing(c)
              /\ git'[c].head \in {git[c].head, Outgoing(c)}
          BY <5>1 DEF Flying, Outgoing
        <5> QED BY <2>1, <2>3, <3>1, <4>1, <5>1, <5>2, StageKeeps
      <4> QED BY <1>5, <3>3, <4>2, <4>3, <4>4
    <3> QED BY <3>2, <3>3
  <2> QED BY <2>5 DEF Keeping
<1> QED BY <1>2, <1>3, <1>4, <1>5 DEF Next, Sync

LEMMA KeepingInit == Init => Keeping
<1> SUFFICES ASSUME Init PROVE Keeping
  OBVIOUS
<1> DEFINE first == [title |-> 1, status |-> "open", since |-> 0, at |-> 1]
           start == [j \in Issues |-> IF j \in Synced THEN first ELSE Absent]
<1>1. /\ remote = start
      /\ ws = [c \in Clones |-> [db |-> start, dirty |-> {}, file |-> start,
                                 known |-> start, hash |-> start]]
      /\ git = [c \in Clones |-> [head |-> start, base |-> start,
                                  ahead |-> FALSE, behind |-> FALSE]]
      /\ pc = [c \in Clones |-> "idle"] /\ snap = [c \in Clones |-> Empty]
  BY DEF Init
<1>2. \A i \in Issues : ~Dead(start[i]) /\ start[i].at \in Nat
  BY AbsentIs DEF Dead
<1> HIDE DEF start, first
<1>3. \A c \in Clones : ~Flying(c)
  BY <1>1 DEF Flying
<1>4. ASSUME NEW i \in Issues PROVE Good(i) \/ Deleted(i)
  BY <1>1, <1>2, <1>3, EmptyIs, AbsentIs DEF Good, Deleted, Alive, Kept, Ordered, Leads, Keeps, Before
<1> QED BY <1>4 DEF Keeping, Exempt

(* No push undoes what another clone pushed without having seen it, except *)
(* for an issue that was deleted, or whose line a clone wrote over before  *)
(* it had read it - for two clones, whatever commands run beside a sync,   *)
(* with the timer and without, with hooks and without, wherever a sync or  *)
(* a command dies and however often git fails.  So a write over an unread  *)
(* file is the only way to lose a newer line of an issue nobody deleted.   *)
THEOREM PushesKeepNewest ==
  ASSUME AtMostTwo
  PROVE  Spec => RemoteKeepsNewest
<1>1. Init => Sound /\ Unique /\ Keeping
  BY SoundInit, UniqueInit, KeepingInit
<1>2. Sound /\ Unique /\ Keeping /\ [Next]_vars => Sound' /\ Unique' /\ Keeping'
  BY SoundStep, UniqueAlways, KeepingStep
<1>3. ASSUME Sound, Keeping, [Next]_vars
      PROVE  [\A i \in Issues :
                \/ Deleted(i) \/ i \in overwritten
                \/ /\ remote'[i].title # remote[i].title => remote'[i].at >= remote[i].title
                   /\ remote'[i].status # remote[i].status => remote'[i].at >= remote[i].since]_vars
  <2>1. CASE UNCHANGED remote
    BY <2>1
  <2>2. CASE ~UNCHANGED remote
    <3>1. PICK c \in Clones : Push(c)
      BY <1>3, <2>2, ActsAlone DEF Next, Sync, Sound, vars
    <3>2. remote' = git[c].head /\ git[c].base = remote
      BY <1>3, <3>1, PushIs, Here DEF Branch
    <3>3. ASSUME NEW i \in Issues, ~Exempt(i) PROVE Keeps(remote'[i], remote[i])
      BY <1>3, <3>2, <3>3 DEF Keeping, Good, Kept
    <3> QED BY <3>3 DEF Keeps, Exempt
  <2> QED BY <2>1, <2>2
<1> QED BY <1>1, <1>2, <1>3, PTL DEF Spec, RemoteKeepsNewest

-----------------------------------------------------------------------------
(* Where nothing is overwritten.                                           *)

(* No command beside a sync, no delete, which does not import, no timer,   *)
(* and a hook, that imports what a sync pulls, where there is a sync.      *)
ImportsFirst ==
  /\ ~Beside /\ ~Timer /\ "delete" \notin Edits
  /\ \A c \in Clones : "sync" \in Commands[c] => c \in Hooked

(* A command that may flush has read the file, and so has a sync that is   *)
(* not between its pull and its import, but for what it writes itself.     *)
Reads(c) ==
  /\ job[c] # "none" => pc[c] = "idle" /\ ws[c].known = ws[c].file
  /\ pc[c] \in {"pull", "export", "listed", "commit", "push", "done"} => ws[c].known = ws[c].file
  /\ pc[c] = "written" => ws[c].file = snap[c]
  /\ pc[c] = "pull" => cmd[c] = "pull" \/ (cmd[c] = "sync" /\ c \in Hooked)

Reading == overwritten = {} /\ \A c \in Clones : Reads(c)

LEMMA ReadsCommand ==
  ASSUME Sound, Reading, ImportsFirst, NEW c \in Clones, Command(c)
  PROVE  Reads(c)' /\ overwritten' = {}
<1>1. pc'[c] = pc[c] /\ Reads(c)
  BY Here, CommandAlone DEF sync, Reading
<1>2. pc[c] = "idle"
  BY <1>1 DEF ImportsFirst, Command, Start, Write, FlushEdit, Quit, Reads, EditKinds
<1>3. ASSUME NEW kind \in Edits, Start(c, kind) PROVE ws'[c].known = ws'[c].file
  BY <1>2, <1>3, StartIs DEF ImportsFirst, Locked
<1>4. ASSUME NEW i \in Issues, Write(c, i) PROVE ws'[c].known = ws'[c].file
  <2>1. job[c] # "none"
    BY <1>4 DEF Write, EditKinds
  <2> QED BY <1>1, <1>4, <2>1, WriteIs DEF Reads
<1>5. CASE FlushEdit(c) \/ Quit(c)
  <2>1. job[c] # "none" /\ job'[c] = "none"
    BY <1>5, Here DEF FlushEdit, Quit, Tables
  <2>2. ~Unread(c)
    BY <1>1, <2>1 DEF Reads, Unread
  <2>3. overwritten' = overwritten
    BY <1>5, <2>2 DEF FlushEdit, Quit, Overwrites
  <2> QED BY <1>1, <1>2, <2>1, <2>3 DEF Reads, Reading
<1>6. CASE ~(FlushEdit(c) \/ Quit(c))
  <2>1. overwritten' = {} /\ ws'[c].known = ws'[c].file
    BY <1>3, <1>4, <1>6 DEF Command, Start, Write, Reading
  <2> QED BY <1>1, <1>2, <2>1 DEF Reads
<1> QED BY <1>5, <1>6

LEMMA ReadsSync ==
  ASSUME Sound, Reading, ImportsFirst, NEW c \in Clones, Sync(c)
  PROVE  Reads(c)' /\ overwritten' = {}
<1>1. Reads(c) /\ overwritten = {} /\ (pc[c] # "idle" => job[c] = "none")
  BY DEF Reading, Reads
<1>2. job'[c] = job[c]
  BY Here DEF Sync, Begin, Pull, PullFails, Hook, Import, ExportList, ExportWrite, Finalize,
              NothingToCommit, Commit, Push, AutoFlush, Finish, Abort
<1>3. ASSUME NEW k \in {"sync", "pull", "push"}, Begin(c, k) PROVE Reads(c)' /\ overwritten' = {}
  <2>1. /\ job[c] = "none" /\ overwritten' = overwritten /\ cmd'[c] = k
        /\ pc'[c] = (IF k = "push" THEN "export" ELSE "pull") /\ k \in Commands[c]
    BY <1>3, Here DEF Begin, Goto, Tables, ImportsFirst
  <2>2. ws'[c].known = ws'[c].file
    BY <1>3, BeginIs
  <2> QED BY <1>1, <1>2, <2>1, <2>2 DEF Reads, ImportsFirst
<1>4. CASE Pull(c)
  <2>1. /\ pc[c] = "pull" /\ overwritten' = overwritten /\ cmd' = cmd
        /\ pc'[c] = (IF git[c].behind /\ c \in Hooked THEN "hook" ELSE AfterPull(c))
        /\ ws'[c] = [ws[c] EXCEPT !.file = IF PullResult(c) = git[c].head THEN @ ELSE PullResult(c)]
    BY <1>4, Here DEF Pull, Goto, Tables
  <2>2. CASE pc'[c] \in {"hook", "import"}
    BY <1>1, <1>2, <2>1, <2>2 DEF Reads
  <2>3. CASE pc'[c] \notin {"hook", "import"}
    <3>1. ~git[c].behind /\ pc'[c] = "export"
      BY <1>1, <2>1, <2>3 DEF Reads, AfterPull
    <3>2. ws'[c] = ws[c]
      BY <2>1, <3>1, PullIs, Here DEF Work, Workspace
    <3> QED BY <1>1, <1>2, <2>1, <3>1, <3>2 DEF Reads
  <2> QED BY <2>2, <2>3
<1>5. CASE Hook(c) \/ Import(c)
  <2>1. /\ pc[c] \in {"hook", "import"} /\ pc'[c] \in {"import", "export", "done"}
        /\ overwritten' = overwritten
    BY <1>5, Here DEF Hook, Import, Goto, AfterPull, Tables
  <2> QED BY <1>1, <1>2, <1>5, <2>1, HookIs DEF Reads
<1>6. CASE \/ PullFails(c) \/ ExportList(c) \/ NothingToCommit(c) \/ Commit(c) \/ Push(c)
           \/ Finish(c) \/ Abort(c)
  <2>1. /\ UNCHANGED <<ws, overwritten>> /\ pc[c] # "idle"
        /\ pc'[c] \in {"idle", "export", "listed", "push", "done"}
        /\ pc'[c] # "idle" => pc[c] \in {"pull", "export", "commit", "push"}
    BY <1>6, Here, GitSyncAssumption
       DEF PullFails, ExportList, NothingToCommit, Commit, Push, Finish, Abort, Goto, Tables, Process
  <2> QED BY <1>1, <1>2, <2>1 DEF Reads
<1>7. CASE ExportWrite(c)
  <2>1. ws'[c].file = snap[c] /\ snap'[c] = snap[c] /\ pc[c] = "listed" /\ pc'[c] = "written"
    BY <1>7, StageIs DEF ExportWrite, Goto
  <2>2. ~Unread(c)
    BY <1>1, <2>1 DEF Reads, Unread
  <2>3. overwritten' = overwritten
    BY <1>7, <2>2 DEF ExportWrite, Overwrites
  <2> QED BY <1>1, <1>2, <2>1, <2>3 DEF Reads
<1>8. CASE Finalize(c)
  <2>1. /\ ws'[c].file = ws[c].file /\ pc[c] = "written" /\ pc'[c] = "commit"
        /\ overwritten' = overwritten
    BY <1>8, StageIs DEF Finalize, Goto
  <2>2. ws'[c].known = snap[c]
    <3> DEFINE left == {i \in ws[c].dirty : snap[c][i] = Absent}
    <3>1. ws'[c] = [ws[c] EXCEPT !.dirty = left, !.known = snap[c], !.hash = snap[c]]
      BY <1>8, Here DEF Finalize, Tables
    <3> HIDE DEF left
    <3> QED BY <3>1, Here DEF Work, Workspace
  <2> QED BY <1>1, <1>2, <2>1, <2>2 DEF Reads
<1>9. CASE AutoFlush(c)
  <2>1. pc[c] = "done" /\ pc'[c] = "done"
    BY <1>9, Here DEF AutoFlush, ImportsFirst
  <2>2. ~Unread(c) /\ ws'[c].known = ws'[c].file
    BY <1>1, <1>9, <2>1, AutoFlushIs DEF Reads, Unread
  <2>3. overwritten' = overwritten
    BY <1>9, <2>2 DEF AutoFlush, Overwrites
  <2> QED BY <1>1, <1>2, <2>1, <2>2, <2>3 DEF Reads
<1> QED BY <1>3, <1>4, <1>5, <1>6, <1>7, <1>8, <1>9 DEF Sync

LEMMA ReadingStep ==
  ASSUME Sound, Reading, ImportsFirst, [Next]_vars
  PROVE  Reading'
<1>1. CASE UNCHANGED vars
  BY <1>1 DEF vars, sync, Reading, Reads
<1>2. ASSUME NEW c \in Clones, Sync(c) \/ Command(c) PROVE Reading'
  <2>1. Reads(c)' /\ overwritten' = {}
    BY <1>2, ReadsSync, ReadsCommand
  <2>2. ASSUME NEW d \in Clones \ {c}
        PROVE  /\ ws'[d] = ws[d] /\ pc'[d] = pc[d] /\ cmd'[d] = cmd[d]
               /\ snap'[d] = snap[d] /\ job'[d] = job[d]
    <3>1. CASE Push(c)
      BY <3>1, PushIs, Here DEF Tables
    <3>2. CASE ~Push(c)
      BY <1>2, <3>2, Here, ActsAlone DEF Sync, Alone
    <3> QED BY <3>1, <3>2
  <2>3. \A d \in Clones \ {c} : Reads(d)'
    BY <2>2 DEF Reading, Reads
  <2> QED BY <2>1, <2>3 DEF Reading
<1> QED BY <1>1, <1>2 DEF Next

(* Where everything is imported before it may be written over, nothing is  *)
(* overwritten unread.  Each of the four conditions is needed.             *)
THEOREM NothingOverwritten ==
  ASSUME ImportsFirst
  PROVE  Spec => [](overwritten = {})
<1>1. Init => Sound /\ Reading
  <2>1. Init => Reading
    BY DEF Init, Reading, Reads
  <2> QED BY <2>1, SoundInit
<1>2. Sound /\ Reading /\ [Next]_vars => Sound' /\ Reading'
  BY SoundStep, ReadingStep
<1>3. Reading => overwritten = {}
  BY DEF Reading
<1> QED BY <1>1, <1>2, <1>3, PTL DEF Spec

(* There, with two clones, a push only ever takes back what was deleted.   *)
THEOREM ImportsFirstKeepNewest ==
  ASSUME AtMostTwo, ImportsFirst
  PROVE  Spec => [][\A i \in Issues : Deleted(i) \/ Keeps(remote'[i], remote[i])]_vars
<1>1. Spec => RemoteKeepsNewest /\ [](overwritten = {})
  BY PushesKeepNewest, NothingOverwritten
<1>2. ASSUME overwritten = {},
             [\A i \in Issues :
                \/ Deleted(i) \/ i \in overwritten
                \/ /\ remote'[i].title # remote[i].title => remote'[i].at >= remote[i].title
                   /\ remote'[i].status # remote[i].status => remote'[i].at >= remote[i].since]_vars
      PROVE  [\A i \in Issues : Deleted(i) \/ Keeps(remote'[i], remote[i])]_vars
  BY <1>2 DEF Keeps
<1> QED BY <1>1, <1>2, PTL DEF RemoteKeepsNewest
=============================================================================
