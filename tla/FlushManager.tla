---------------------------- MODULE FlushManager ----------------------------
(***************************************************************************)
(* The auto-flush event loop of the binds CLI                              *)
(* (cmd/binds/flush_manager.go, and the end of PersistentPostRun in        *)
(* cmd/binds/main.go).  Client goroutines commit a write to the database   *)
(* and call MarkDirty; one background goroutine owns the dirty flags and   *)
(* the debounce timer and exports the database to the JSONL file; FlushNow *)
(* and Shutdown are requests to that goroutine.                            *)
(*                                                                         *)
(* Data: the database is the number of writes committed so far (db); the   *)
(* JSONL file is the number of writes its last successful export read      *)
(* (json).  A Go channel is a sequence no longer than its buffer, the      *)
(* `select` of the loop a free choice among the branches that are ready.   *)
(* The manager is enabled: with --no-auto-flush every call returns at      *)
(* once.                                                                   *)
(*                                                                         *)
(* Two branches of the code are left out because they can never be taken,  *)
(* which FlushManagerProofs proves: the 30s timeout of Shutdown            *)
(* (ShutdownSendReady: the buffered send is always ready), and the         *)
(* ctx.Done() branch of run() together with the `!storeActive` return of   *)
(* performFlush (NothingAfterExit: both need the loop to have exited).     *)
(***************************************************************************)
EXTENDS Naturals, Sequences

CONSTANTS
  Clients,    \* goroutines that use the manager
  Main,       \* the one that runs PersistentPostRun
  MarkCap,    \* markDirtyBufferSize
  MaxWrites,  \* bound on the database writes of a behaviour
  Modes,      \* the fullExport arguments that the commands pass
  MayFail     \* TRUE: an export may fail (I/O error, locked database)

ASSUME FlushManagerAssumption ==
  /\ Main \in Clients
  /\ Clients \cap {"timer", "shutdown"} = {}
  /\ MarkCap \in Nat \ {0}
  /\ MaxWrites \in Nat
  /\ Modes \subseteq BOOLEAN
  /\ MayFail \in BOOLEAN

VARIABLES
  pc,         \* pc[c]: where client c is
  mark,       \* mark[c]: c's latest MarkDirty, the write it announces
  markCh,     \* markDirtyCh
  timerCh,    \* timerFiredCh: is its one slot taken?
  flushCh,    \* flushNowCh: requesting clients
  shutCh,     \* shutdownCh: requesting clients
  answered,   \* clients whose response channel holds a value
  ctxDone,    \* fm.ctx cancelled
  once,       \* shutdownOnce
  loop,       \* the background goroutine: where it is
  cause,      \* why it is flushing: "timer", "shutdown" or a client
  isDirty, needsFull,
  armed,      \* the current debounce timer is running
  firing,     \* timers that expired and have not notified yet
  storeActive,
  db, json,
  \* history: newest write whose mark the loop received / exported (even
  \* unsuccessfully); the same for marks that asked for a full export
  seen, covered, fullSeen, fullCovered

clientVars == <<pc, mark>>
channels   == <<markCh, timerCh, flushCh, shutCh, answered>>
loopVars   == <<loop, cause, isDirty, needsFull>>
timerVars  == <<armed, firing>>
life       == <<ctxDone, once, storeActive>>
data       == <<db, json>>
history    == <<seen, covered, fullSeen, fullCovered>>
vars == <<clientVars, channels, loopVars, timerVars, life, data, history>>

PCs == {"idle", "marking", "requesting", "awaiting", "sending", "joining",
        "onceWait", "closing", "closed"}
Marks == [write: Nat, full: BOOLEAN]
Gone == {"leaving", "exited"}
Maximum(a, b) == IF a > b THEN a ELSE b

(* NewFlushManager: empty channels, nothing dirty, the goroutine started.  *)
Init ==
  /\ pc = [c \in Clients |-> "idle"]
  /\ mark = [c \in Clients |-> [write |-> 0, full |-> FALSE]]
  /\ markCh = <<>> /\ timerCh = FALSE /\ flushCh = <<>> /\ shutCh = <<>>
  /\ answered = {}
  /\ ctxDone = FALSE /\ once = "new" /\ storeActive = TRUE
  /\ loop = "select" /\ cause = "timer"
  /\ isDirty = FALSE /\ needsFull = FALSE
  /\ armed = FALSE /\ firing = 0
  /\ db = 0 /\ json = 0
  /\ seen = 0 /\ covered = 0 /\ fullSeen = 0 /\ fullCovered = 0

Goto(c, from, to) == pc[c] = from /\ pc' = [pc EXCEPT ![c] = to]

-----------------------------------------------------------------------------
(* Faulty variants of definitions below, each a slip that would break one  *)
(* of the properties; the specification does not use them.                 *)

(* The send is not limited by the buffer.                                  *)
MarkSendUnbounded(c) ==
  /\ Goto(c, "marking", "idle")
  /\ markCh' = Append(markCh, mark[c])
  /\ UNCHANGED <<mark, timerCh, flushCh, shutCh, answered, loopVars, timerVars,
                 life, data, history>>

(* MarkDirty waits for the buffer only, not for ctx.Done.                  *)
MarkIgnoredNever(c) == FALSE /\ UNCHANGED vars

(* Shutdown without wg.Wait.                                               *)
ShutdownNoWait(c) ==
  /\ pc[c] = "joining"
  /\ pc' = [pc EXCEPT ![c] = IF c = Main THEN "closing" ELSE "idle"]
  /\ c \in answered
  /\ answered' = answered \ {c}
  /\ ctxDone' = TRUE /\ once' = "done"
  /\ UNCHANGED <<mark, markCh, timerCh, flushCh, shutCh, loopVars, timerVars,
                 storeActive, data, history>>

(* The latest mark decides whether the export is full.                     *)
LoopMarkForgets ==
  /\ loop = "select" /\ markCh # <<>>
  /\ markCh' = Tail(markCh)
  /\ isDirty' = TRUE /\ needsFull' = Head(markCh).full /\ armed' = TRUE
  /\ seen' = Maximum(seen, Head(markCh).write)
  /\ fullSeen' = IF Head(markCh).full THEN Maximum(fullSeen, Head(markCh).write)
                 ELSE fullSeen
  /\ UNCHANGED <<clientVars, timerCh, flushCh, shutCh, answered, loop, cause,
                 firing, life, data, covered, fullCovered>>

(* FlushNow returns without an answer when there is nothing to flush.      *)
LoopFlushNowSilent ==
  /\ loop = "select" /\ flushCh # <<>>
  /\ flushCh' = <<>> /\ armed' = FALSE
  /\ IF isDirty THEN loop' = "export" /\ cause' = Head(flushCh)
                ELSE UNCHANGED <<loop, cause>>
  /\ UNCHANGED <<clientVars, markCh, timerCh, shutCh, answered, isDirty, needsFull,
                 firing, life, data, history>>

(* Shutdown without the final flush.                                       *)
LoopShutdownNoFlush ==
  /\ loop = "select" /\ shutCh # <<>>
  /\ armed' = FALSE /\ loop' = "leaving" /\ shutCh' = <<>>
  /\ answered' = answered \cup {Head(shutCh)}
  /\ UNCHANGED <<clientVars, markCh, timerCh, flushCh, cause, isDirty, needsFull,
                 firing, life, data, history>>

(* The loop leaves without answering the shutdown request.                 *)
LoopShutdownSilent ==
  /\ loop = "select" /\ shutCh # <<>>
  /\ armed' = FALSE /\ shutCh' = <<>>
  /\ IF isDirty THEN loop' = "export" /\ cause' = "timer"
                ELSE loop' = "leaving" /\ UNCHANGED cause
  /\ UNCHANGED <<clientVars, markCh, timerCh, flushCh, answered, isDirty,
                 needsFull, firing, life, data, history>>

(* The dirty flag is cleared after a flush of the timer only.              *)
ExportStaysDirty(ok) ==
  /\ loop = "export" /\ (ok \/ MayFail)
  /\ json' = (IF ok THEN db ELSE json) /\ covered' = db
  /\ fullCovered' = IF needsFull THEN db ELSE fullCovered
  /\ IF cause = "shutdown"
     THEN /\ loop' = "leaving" /\ shutCh' = <<>>
          /\ answered' = answered \cup {Head(shutCh)}
     ELSE /\ loop' = "select" /\ UNCHANGED shutCh
          /\ answered' = IF cause = "timer" THEN answered
                         ELSE answered \cup {cause}
  /\ isDirty' = (isDirty /\ cause # "timer")
  /\ UNCHANGED <<clientVars, markCh, timerCh, flushCh, cause, needsFull, timerVars,
                 life, db, seen, fullSeen>>

-----------------------------------------------------------------------------
(* Client goroutines.                                                      *)

(* A command commits a write, then enters MarkDirty.                       *)
Write(c, full) ==
  /\ storeActive /\ db < MaxWrites
  /\ Goto(c, "idle", "marking")
  /\ db' = db + 1
  /\ mark' = [mark EXCEPT ![c] = [write |-> db + 1, full |-> full]]
  /\ UNCHANGED <<channels, loopVars, timerVars, life, json, history>>

(* MarkDirty: the event fits in the buffer ...                             *)
MarkSend(c) ==
  /\ Goto(c, "marking", "idle")
  /\ Len(markCh) < MarkCap
  /\ markCh' = Append(markCh, mark[c])
  /\ UNCHANGED <<mark, timerCh, flushCh, shutCh, answered, loopVars, timerVars,
                 life, data, history>>

(* ... or the manager is shut down and the event is ignored.               *)
MarkIgnored(c) ==
  /\ Goto(c, "marking", "idle")
  /\ ctxDone
  /\ UNCHANGED <<mark, channels, loopVars, timerVars, life, data, history>>

FlushNow(c) ==
  /\ Goto(c, "idle", "requesting")
  /\ UNCHANGED <<mark, channels, loopVars, timerVars, life, data, history>>

FlushSend(c) ==
  /\ Goto(c, "requesting", "awaiting")
  /\ flushCh = <<>>
  /\ flushCh' = <<c>>
  /\ UNCHANGED <<mark, markCh, timerCh, shutCh, answered, loopVars, timerVars,
                 life, data, history>>

FlushRefused(c) ==
  /\ Goto(c, "requesting", "idle")
  /\ ctxDone
  /\ UNCHANGED <<mark, channels, loopVars, timerVars, life, data, history>>

FlushReturn(c) ==
  /\ Goto(c, "awaiting", "idle")
  /\ c \in answered
  /\ answered' = answered \ {c}
  /\ UNCHANGED <<mark, markCh, timerCh, flushCh, shutCh, loopVars, timerVars,
                 life, data, history>>

(* Shutdown: the first caller runs the body of shutdownOnce ...            *)
Shutdown(c) ==
  /\ Goto(c, "idle", "sending")
  /\ once = "new"
  /\ once' = "running"
  /\ UNCHANGED <<mark, channels, loopVars, timerVars, ctxDone, storeActive, data,
                 history>>

ShutdownSend(c) ==
  /\ Goto(c, "sending", "joining")
  /\ shutCh = <<>>
  /\ shutCh' = <<c>>
  /\ UNCHANGED <<mark, markCh, timerCh, flushCh, answered, loopVars, timerVars,
                 life, data, history>>

AfterShutdown(c) == IF c = Main THEN "closing" ELSE "idle"

(* ... reads the response, waits for the goroutine, cancels the context.   *)
ShutdownReturn(c) ==
  /\ Goto(c, "joining", AfterShutdown(c))
  /\ c \in answered /\ loop = "exited"
  /\ answered' = answered \ {c}
  /\ ctxDone' = TRUE /\ once' = "done"
  /\ UNCHANGED <<mark, markCh, timerCh, flushCh, shutCh, loopVars, timerVars,
                 storeActive, data, history>>

(* Later callers block in Once.Do until the first one has returned.        *)
ShutdownAgain(c) ==
  /\ Goto(c, "idle", "onceWait")
  /\ once # "new"
  /\ UNCHANGED <<mark, channels, loopVars, timerVars, life, data, history>>

OnceReturn(c) ==
  /\ Goto(c, "onceWait", AfterShutdown(c))
  /\ once = "done"
  /\ UNCHANGED <<mark, channels, loopVars, timerVars, life, data, history>>

(* PersistentPostRun closes the store after Shutdown has returned.         *)
StoreClose ==
  /\ Goto(Main, "closing", "closed")
  /\ storeActive' = FALSE
  /\ UNCHANGED <<mark, channels, loopVars, timerVars, ctxDone, once, data,
                 history>>

-----------------------------------------------------------------------------
(* The debounce timer (time.AfterFunc).                                    *)

TimerExpire ==
  /\ armed
  /\ armed' = FALSE /\ firing' = firing + 1
  /\ UNCHANGED <<clientVars, channels, loopVars, life, data, history>>

(* The callback's non-blocking send.                                       *)
TimerNotify ==
  /\ firing > 0
  /\ firing' = firing - 1 /\ timerCh' = TRUE
  /\ UNCHANGED <<clientVars, markCh, flushCh, shutCh, answered, loopVars, armed,
                 life, data, history>>

-----------------------------------------------------------------------------
(* The background goroutine: run().                                        *)

LoopMark ==
  /\ loop = "select" /\ markCh # <<>>
  /\ markCh' = Tail(markCh)
  /\ isDirty' = TRUE
  /\ needsFull' = (needsFull \/ Head(markCh).full)
  /\ armed' = TRUE
  /\ seen' = Maximum(seen, Head(markCh).write)
  /\ fullSeen' = IF Head(markCh).full THEN Maximum(fullSeen, Head(markCh).write)
                 ELSE fullSeen
  /\ UNCHANGED <<clientVars, timerCh, flushCh, shutCh, answered, loop, cause,
                 firing, life, data, covered, fullCovered>>

LoopTimer ==
  /\ loop = "select" /\ timerCh
  /\ timerCh' = FALSE
  /\ IF isDirty THEN loop' = "export" /\ cause' = "timer"
                ELSE UNCHANGED <<loop, cause>>
  /\ UNCHANGED <<clientVars, markCh, flushCh, shutCh, answered, isDirty,
                 needsFull, timerVars, life, data, history>>

LoopFlushNow ==
  /\ loop = "select" /\ flushCh # <<>>
  /\ flushCh' = <<>> /\ armed' = FALSE
  /\ IF isDirty
     THEN loop' = "export" /\ cause' = Head(flushCh) /\ UNCHANGED answered
     ELSE answered' = answered \cup {Head(flushCh)} /\ UNCHANGED <<loop, cause>>
  /\ UNCHANGED <<clientVars, markCh, timerCh, shutCh, isDirty, needsFull, firing,
                 life, data, history>>

LoopShutdown ==
  /\ loop = "select" /\ shutCh # <<>>
  /\ armed' = FALSE
  /\ IF isDirty
     THEN /\ loop' = "export" /\ cause' = "shutdown"
          /\ UNCHANGED <<shutCh, answered>>
     ELSE /\ loop' = "leaving" /\ shutCh' = <<>>
          /\ answered' = answered \cup {Head(shutCh)} /\ UNCHANGED cause
  /\ UNCHANGED <<clientVars, markCh, timerCh, flushCh, isDirty, needsFull, firing,
                 life, data, history>>

(* performFlush, and what each branch does when it returns.  An export     *)
(* reads every write committed so far; if it fails, nothing is written and *)
(* the branch goes on in the same way.                                     *)
Export(ok) ==
  /\ loop = "export"
  /\ ok \/ MayFail
  /\ json' = IF ok THEN db ELSE json
  /\ covered' = db
  /\ fullCovered' = IF needsFull THEN db ELSE fullCovered
  /\ IF cause = "shutdown"
     THEN /\ loop' = "leaving" /\ shutCh' = <<>>
          /\ answered' = answered \cup {Head(shutCh)}
          /\ UNCHANGED <<isDirty, needsFull>>
     ELSE /\ loop' = "select" /\ UNCHANGED shutCh
          /\ isDirty' = FALSE /\ needsFull' = FALSE
          /\ answered' = IF cause = "timer" THEN answered
                         ELSE answered \cup {cause}
  /\ UNCHANGED <<clientVars, markCh, timerCh, flushCh, cause, timerVars, life, db,
                 seen, fullSeen>>

(* The deferred Stop of the timer and wg.Done.                             *)
LoopExit ==
  /\ loop = "leaving"
  /\ loop' = "exited" /\ armed' = FALSE
  /\ UNCHANGED <<clientVars, channels, cause, isDirty, needsFull, firing, life,
                 data, history>>

-----------------------------------------------------------------------------
Client(c) ==
  \/ \E full \in Modes : Write(c, full)
  \/ MarkSend(c) \/ MarkIgnored(c)
  \/ FlushNow(c) \/ FlushSend(c) \/ FlushRefused(c) \/ FlushReturn(c)
  \/ Shutdown(c) \/ ShutdownSend(c) \/ ShutdownReturn(c)
  \/ ShutdownAgain(c) \/ OnceReturn(c)

Timer == TimerExpire \/ TimerNotify

Loop ==
  \/ LoopMark \/ LoopTimer \/ LoopFlushNow \/ LoopShutdown
  \/ (\E ok \in BOOLEAN : Export(ok)) \/ LoopExit

Next == (\E c \in Clients : Client(c)) \/ StoreClose \/ Timer \/ Loop

Spec == Init /\ [][Next]_vars

(* A client that has entered a call goes on as soon as the call lets it:   *)
(* the steps that need nothing but a schedule, not the choice of a call.   *)
Proceed(c) ==
  \/ MarkSend(c) \/ MarkIgnored(c) \/ FlushSend(c) \/ FlushRefused(c)
  \/ FlushReturn(c) \/ ShutdownSend(c) \/ ShutdownReturn(c) \/ OnceReturn(c)

(* Go runs every runnable goroutine and every timer (WF); `select` chooses *)
(* uniformly at random among the ready branches, so a branch that is ready *)
(* again and again is chosen (SF).  Exports return: one that blocks for    *)
(* ever is a behaviour of Spec only.  No client need ever call anything.   *)
Fairness ==
  /\ \A c \in Clients : WF_vars(Proceed(c))
  /\ WF_vars(TimerExpire) /\ WF_vars(TimerNotify)
  /\ SF_vars(LoopMark) /\ SF_vars(LoopTimer)
  /\ SF_vars(LoopFlushNow) /\ SF_vars(LoopShutdown)
  /\ WF_vars(\E ok \in BOOLEAN : Export(ok)) /\ WF_vars(LoopExit)

FairSpec == Spec /\ Fairness

-----------------------------------------------------------------------------
(* Properties.                                                             *)

(* Types, and the channel buffers' sizes.                                  *)
TypeOK ==
  /\ pc \in [Clients -> PCs] /\ mark \in [Clients -> Marks]
  /\ markCh \in Seq(Marks) /\ Len(markCh) <= MarkCap
  /\ timerCh \in BOOLEAN
  /\ flushCh \in Seq(Clients) /\ Len(flushCh) <= 1
  /\ shutCh \in Seq(Clients) /\ Len(shutCh) <= 1
  /\ answered \in SUBSET Clients
  /\ ctxDone \in BOOLEAN /\ once \in {"new", "running", "done"}
  /\ storeActive \in BOOLEAN
  /\ loop \in {"select", "export"} \cup Gone
  /\ cause \in {"timer", "shutdown"} \cup Clients
  /\ isDirty \in BOOLEAN /\ needsFull \in BOOLEAN
  /\ armed \in BOOLEAN /\ firing \in Nat
  /\ db \in 0..MaxWrites /\ json \in 0..MaxWrites
  /\ seen \in 0..MaxWrites /\ covered \in 0..MaxWrites
  /\ fullSeen \in 0..MaxWrites /\ fullCovered \in 0..MaxWrites

(* Every write whose mark the loop has received is in an export that was   *)
(* at least attempted, unless the loop still holds the dirty flag; and the *)
(* loop does not exit holding it.  The same for full exports: the          *)
(* fullExport flag is sticky until a full export has been attempted.       *)
NoReceivedMarkLost ==
  /\ ~isDirty \/ loop \in Gone => seen <= covered
  /\ ~needsFull \/ loop \in Gone => fullSeen <= fullCovered

(* While the loop waits with dirty data, something will wake it for that   *)
(* data: a running timer, an expired one about to notify, or a pending     *)
(* notification.                                                           *)
DirtyHasWakeup ==
  loop = "select" /\ isDirty => armed \/ firing > 0 \/ timerCh

(* The goroutine never works for a finished command: the context is        *)
(* cancelled and the store closed only after it has exited.                *)
NothingAfterExit == ctxDone \/ ~storeActive => loop = "exited"

(* Whoever reaches Shutdown's send finds the channel empty, so that the    *)
(* alternative of that select, the 30s timeout, is never taken.            *)
ShutdownSendReady == \A c \in Clients : pc[c] = "sending" => shutCh = <<>>

(* A caller waiting for an answer can be found: its request is in the      *)
(* channel, being served, or answered, and no other caller's answer is     *)
(* mixed up with it.                                                       *)
RequestsAccountedFor ==
  \A c \in Clients :
    /\ pc[c] = "awaiting" <=>
         \/ flushCh = <<c>>
         \/ loop = "export" /\ cause = c
         \/ c \in answered /\ pc[c] # "joining"
    /\ pc[c] = "joining" <=>
         shutCh = <<c>> \/ (c \in answered /\ pc[c] # "awaiting")

(* The JSONL file only moves forward, and never after the goroutine left.  *)
FileOnlyAdvances ==
  [][json' >= json /\ (loop \in Gone => json' = json)]_vars

(* A Shutdown caller returns.                                              *)
ShutdownReturns ==
  \A c \in Clients :
    (pc[c] \in {"sending", "joining", "onceWait"}) ~>
      (pc[c] \in {"idle", "closing", "closed"})

(* MarkDirty does not block for ever, even when its caller races Shutdown. *)
MarkDirtyReturns ==
  \A c \in Clients : (pc[c] = "marking") ~> (pc[c] # "marking")
=============================================================================
