------------------------------ MODULE JSONLMerge ------------------------------
(***************************************************************************)
(* Two ways in which a line of issues.jsonl meets another state of its     *)
(* issue: the three-way merge of git's merge driver `binds merge`          *)
(* (internal/merge) and the import into the database (internal/importer).  *)
(*                                                                         *)
(* A line is a title, a status and when that was set (closed_at or         *)
(* deleted_at), and updated_at.  Titles stand for the fields whose         *)
(* conflicts the later updated_at decides, and are named by the time they  *)
(* were written.  All open statuses are one.                               *)
(* Tombstones do not expire.  Left out: the other fields, with rules of    *)
(* their own, two issues of the same content, and keys that share an ID    *)
(* but not its creation time.                                              *)
(***************************************************************************)
EXTENDS Naturals

Statuses == {"open", "closed", "tombstone"}

Line == [title : Nat, status : Statuses, since : Nat, at : Nat]

Absent == [title |-> 0, status |-> "open", since |-> 0, at |-> 0]

Dead(l) == l.status = "tombstone"

(* What the content hash of an issue covers.                               *)
Content(l) == <<l.title, l.status>>

Later(s, t) == IF s > t THEN s ELSE t

-----------------------------------------------------------------------------
(* The driver, for one issue: in the merge base, here, and there.          *)

(* mergeFieldByUpdatedAt: the side that changed, or the later one, or ours.*)
MergeTitle(b, l, r) ==
  IF l.title = b.title \/ (r.title # b.title /\ r.at > l.at)
  THEN r.title ELSE l.title

MergeTimes(l, r) == Later(l.at, r.at)

(* mergeIssue: closed always wins over open.                               *)
MergeIssue(b, l, r) ==
  [title  |-> MergeTitle(b, l, r),
   status |-> IF "closed" \in {l.status, r.status} THEN "closed" ELSE "open",
   since  |-> Later(l.since, r.since),
   at     |-> MergeTimes(l, r)]

(* mergeTombstones: no deleted_at is before any.                           *)
MergeTombstones(l, r) == IF l.since >= r.since THEN l ELSE r

(* An issue that one side lacks: added by the other, or deleted from the   *)
(* base, which only a tombstone outlives.                                  *)
MergeOneSided(b, s) == IF b = Absent \/ Dead(s) THEN s ELSE Absent

MergeLine(b, l, r) ==
  CASE l = Absent -> MergeOneSided(b, r)
    [] l # Absent /\ r = Absent -> MergeOneSided(b, l)
    [] Absent \notin {l, r} /\ Dead(l) /\ Dead(r) -> MergeTombstones(l, r)
    [] Absent \notin {l, r} /\ Dead(l) /\ ~Dead(r) -> l
    [] Absent \notin {l, r} /\ ~Dead(l) /\ Dead(r) -> r
    [] Absent \notin {l, r} /\ ~Dead(l) /\ ~Dead(r) -> MergeIssue(b, l, r)

(* git runs the driver only on a file that both sides changed.             *)
MergeFile(b, l, r) ==
  IF l = b THEN r
  ELSE IF r \in {b, l} THEN l
  ELSE [i \in DOMAIN b |-> MergeLine(b[i], l[i], r[i])]

-----------------------------------------------------------------------------
(* The importer, for one issue.                                            *)

(* Tombstones are not resurrected, the same content is left alone, and the *)
(* line must be newer.                                                     *)
Imports(cur, in) ==
  ~Dead(cur) /\ Content(in) # Content(cur) /\ in.at > cur.at

(* A new issue is inserted as it is; an update is at the time of the       *)
(* import, with the line's closed_at and without its deleted_at.           *)
Upsert(cur, in, now) ==
  IF in = Absent THEN cur
  ELSE IF cur = Absent THEN in
  ELSE IF Imports(cur, in) THEN [in EXCEPT !.at = now, !.since = IF Dead(in) THEN 0 ELSE @]
  ELSE cur
=============================================================================
