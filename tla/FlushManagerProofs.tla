-------------------------- MODULE FlushManagerProofs --------------------------
(***************************************************************************)
(* Safety of the auto-flush event loop for any number of clients, buffer   *)
(* size and number of writes, and its refinement of AutoFlush.             *)
(*                                                                         *)
(* The inductive invariant IInv adds to the properties what makes them     *)
(* inductive: no mark is ahead of the database, a full-export request      *)
(* implies dirty data, and at most one client is inside shutdownOnce.      *)
(***************************************************************************)
EXTENDS FlushManager, SequenceTheorems, TLAPS

(* No mark announces a write that is not committed.                        *)
MarksCommitted ==
  /\ \A c \in Clients : mark[c].write <= db
  /\ \A i \in 1..Len(markCh) : markCh[i].write <= db
  /\ seen <= db /\ fullSeen <= db /\ covered <= db /\ json <= covered

FullImpliesDirty == needsFull => isDirty

(* The body of shutdownOnce is run by one client, and the request in       *)
(* shutdownCh stays there while its final export runs.                     *)
OneShutdown ==
  /\ \A c \in Clients : pc[c] \in {"sending", "joining"} => once = "running"
  /\ \A c, d \in Clients :
       /\ pc[c] \in {"sending", "joining"}
       /\ pc[d] \in {"sending", "joining"}
       => c = d
  /\ loop = "export" /\ cause = "shutdown" => shutCh # <<>>
  /\ once = "new" => shutCh = <<>>
  /\ once = "done" => loop = "exited"
  /\ \A c \in Clients : pc[c] = "closing" => loop = "exited"

Safe ==
  /\ NoReceivedMarkLost
  /\ DirtyHasWakeup
  /\ NothingAfterExit
  /\ ShutdownSendReady

IInv ==
  /\ TypeOK
  /\ MarksCommitted /\ FullImpliesDirty /\ OneShutdown
  /\ Safe

(* TypeOK in two parts: the flags, and everything else.                     *)
FlagsOK ==
  /\ timerCh \in BOOLEAN /\ ctxDone \in BOOLEAN /\ storeActive \in BOOLEAN
  /\ isDirty \in BOOLEAN /\ needsFull \in BOOLEAN /\ armed \in BOOLEAN

OthersOK ==
  /\ pc \in [Clients -> PCs] /\ mark \in [Clients -> Marks]
  /\ markCh \in Seq(Marks) /\ Len(markCh) <= MarkCap
  /\ flushCh \in Seq(Clients) /\ Len(flushCh) <= 1
  /\ shutCh \in Seq(Clients) /\ Len(shutCh) <= 1
  /\ answered \in SUBSET Clients
  /\ once \in {"new", "running", "done"}
  /\ loop \in {"select", "export"} \cup Gone
  /\ cause \in {"timer", "shutdown"} \cup Clients
  /\ firing \in Nat
  /\ db \in 0..MaxWrites /\ json \in 0..MaxWrites
  /\ seen \in 0..MaxWrites /\ covered \in 0..MaxWrites
  /\ fullSeen \in 0..MaxWrites /\ fullCovered \in 0..MaxWrites

USE FlushManagerAssumption

LEMMA TypeParts == TypeOK <=> FlagsOK /\ OthersOK
  BY DEF TypeOK, FlagsOK, OthersOK

LEMMA FlagsStep == TypeOK /\ [Next]_vars => FlagsOK'
<1> SUFFICES ASSUME FlagsOK, [Next]_vars PROVE FlagsOK'
  BY TypeParts
<1> USE DEF FlagsOK, clientVars, channels, loopVars, timerVars, life, data, history
<1>1. ASSUME NEW c \in Clients, Client(c) PROVE FlagsOK'
  BY <1>1 DEF Client, Write, MarkSend, MarkIgnored, FlushNow, FlushSend,
              FlushRefused, FlushReturn, Shutdown, ShutdownSend, ShutdownReturn,
              ShutdownAgain, OnceReturn
<1>2. CASE StoreClose
  BY <1>2 DEF StoreClose
<1>3. CASE Timer
  BY <1>3 DEF Timer, TimerExpire, TimerNotify
<1>4. CASE Loop
  <2>1. CASE LoopMark
    BY <2>1 DEF LoopMark
  <2>2. CASE LoopTimer \/ LoopFlushNow \/ LoopShutdown \/ LoopExit
    BY <2>2 DEF LoopTimer, LoopFlushNow, LoopShutdown, LoopExit
  <2>3. ASSUME NEW ok \in BOOLEAN, Export(ok) PROVE FlagsOK'
    BY <2>3 DEF Export
  <2> QED BY <1>4, <2>1, <2>2, <2>3 DEF Loop
<1>5. CASE UNCHANGED vars
  BY <1>5 DEF vars
<1> QED BY <1>1, <1>2, <1>3, <1>4, <1>5 DEF Next


LEMMA InitIInv == Init => IInv
<1> SUFFICES ASSUME Init PROVE IInv
  OBVIOUS
<1> USE DEF Init
<1>1. FlagsOK
  BY DEF FlagsOK
<1>2. OthersOK
  BY EmptySeq DEF OthersOK, PCs, Marks
<1>3. MarksCommitted
  BY SMT DEF MarksCommitted
<1>4. FullImpliesDirty /\ OneShutdown
  BY DEF FullImpliesDirty, OneShutdown
<1>5. NoReceivedMarkLost
  BY DEF NoReceivedMarkLost
<1>6. DirtyHasWakeup /\ NothingAfterExit /\ ShutdownSendReady
  BY DEF DirtyHasWakeup, NothingAfterExit, ShutdownSendReady
<1> QED BY <1>1, <1>2, <1>3, <1>4, <1>5, <1>6, TypeParts DEF IInv, Safe

LEMMA EmptyChannel ==
  ASSUME NEW S PROVE <<>> \in Seq(S) /\ Len(<<>>) <= 1
  BY EmptySeq

(* Sequences of length at most one, as the request channels are.           *)
LEMMA SingletonFacts ==
  ASSUME NEW S, NEW c \in S
  PROVE  <<c>> \in Seq(S) /\ Len(<<c>>) = 1 /\ Head(<<c>>) = c /\ <<c>> # <<>>
  OBVIOUS

LEMMA OthersStep == IInv /\ [Next]_vars => OthersOK'
<1> SUFFICES ASSUME OthersOK, MarksCommitted, OneShutdown, [Next]_vars PROVE OthersOK'
  BY TypeParts DEF IInv
<1> USE DEF OthersOK
<1>1. ASSUME NEW c \in Clients, Client(c) PROVE OthersOK'
  <2>1. ASSUME NEW full \in Modes, Write(c, full) PROVE OthersOK'
    BY <2>1, SMTT(30) DEF Write, Goto, PCs, Marks, channels, loopVars, timerVars, life, history
  <2>2. CASE MarkSend(c)
    BY <2>2, SMTT(30) DEF MarkSend, Goto, PCs, channels, loopVars, timerVars, life, data, history
  <2>3. CASE MarkIgnored(c) \/ FlushNow(c) \/ FlushRefused(c) \/ ShutdownAgain(c)
    BY <2>3 DEF MarkIgnored, FlushNow, FlushRefused, ShutdownAgain, Goto, PCs,
                channels, loopVars, timerVars, life, data, history
  <2>4. CASE FlushSend(c) \/ ShutdownSend(c)
    <3>1. <<c>> \in Seq(Clients) /\ Len(<<c>>) = 1
      BY SingletonFacts
    <3>2. CASE FlushSend(c)
      BY <3>1, <3>2, SMTT(30) DEF FlushSend, Goto, PCs, loopVars, timerVars, life, data, history
    <3>3. CASE ShutdownSend(c)
      BY <3>1, <3>3, SMTT(30) DEF ShutdownSend, Goto, PCs, loopVars, timerVars, life, data, history
    <3> QED BY <2>4, <3>2, <3>3
  <2>5. CASE FlushReturn(c) \/ ShutdownReturn(c)
    BY <2>5 DEF FlushReturn, ShutdownReturn, AfterShutdown, Goto, PCs, loopVars,
                timerVars, life, data, history
  <2>6. CASE Shutdown(c) \/ OnceReturn(c)
    BY <2>6 DEF Shutdown, OnceReturn, AfterShutdown, Goto, PCs, channels, loopVars,
                timerVars, life, data, history
  <2> QED BY <1>1, <2>1, <2>2, <2>3, <2>4, <2>5, <2>6 DEF Client
<1>2. CASE StoreClose
  BY <1>2 DEF StoreClose, Goto, PCs, channels, loopVars, timerVars, data, history
<1>3. CASE Timer
  <2>1. CASE TimerExpire
    BY <2>1 DEF TimerExpire, clientVars, channels, loopVars, life, data, history
  <2>2. CASE TimerNotify
    BY <2>2 DEF TimerNotify, clientVars, loopVars, life, data, history
  <2> QED BY <1>3, <2>1, <2>2 DEF Timer
<1>4. CASE Loop
  <2>1. CASE LoopMark
    BY <2>1, SMTT(30) DEF LoopMark, Marks, MarksCommitted, Maximum, clientVars, life, data
  <2>2. CASE LoopTimer
    BY <2>2 DEF LoopTimer, clientVars, timerVars, life, data, history
  <2>3. CASE LoopFlushNow
    <3>1. Head(flushCh) \in Clients /\ <<>> \in Seq(Clients) /\ Len(<<>>) = 0
      BY <2>3, EmptySeq DEF LoopFlushNow
    <3> QED BY <2>3, <3>1 DEF LoopFlushNow, clientVars, life, data, history
  <2>4. CASE LoopShutdown
    <3>1. Head(shutCh) \in Clients /\ <<>> \in Seq(Clients) /\ Len(<<>>) = 0
      BY <2>4, EmptySeq DEF LoopShutdown
    <3> USE <2>4, <3>1 DEF LoopShutdown, clientVars, life, data, history
    <3>2. /\ loop' \in {"select", "export"} \cup Gone
          /\ cause' \in {"timer", "shutdown"} \cup Clients
      BY DEF Gone
    <3>3. shutCh' \in Seq(Clients) /\ Len(shutCh') <= 1
      <4>1. shutCh' = shutCh \/ shutCh' = <<>>
        OBVIOUS
      <4>2. CASE shutCh' = shutCh
        BY <4>2
      <4>3. CASE shutCh' = <<>>
        BY <4>3, EmptyChannel, Zenon
      <4> QED BY <4>1, <4>2, <4>3
    <3>4. answered' \in SUBSET Clients
      OBVIOUS
    <3> QED BY <3>2, <3>3, <3>4
  <2>5. ASSUME NEW ok \in BOOLEAN, Export(ok) PROVE OthersOK'
    <3>1. cause = "shutdown" => Head(shutCh) \in Clients
      BY <2>5 DEF Export, OneShutdown
    <3>2. <<>> \in Seq(Clients) /\ Len(<<>>) = 0
      BY EmptySeq
    <3> USE <2>5, <3>1, <3>2 DEF Export, clientVars, timerVars, life
    <3>3. /\ loop' \in {"select", "export"} \cup Gone
          /\ cause' = cause
      BY DEF Gone
    <3>4. shutCh' \in Seq(Clients) /\ Len(shutCh') <= 1
      <4>1. shutCh' = shutCh \/ shutCh' = <<>>
        OBVIOUS
      <4>2. CASE shutCh' = shutCh
        BY <4>2
      <4>3. CASE shutCh' = <<>>
        BY <4>3, EmptyChannel, Zenon
      <4> QED BY <4>1, <4>2, <4>3
    <3>5. answered' \in SUBSET Clients
      OBVIOUS
    <3>6. json' \in 0..MaxWrites /\ fullCovered' \in 0..MaxWrites
      OBVIOUS
    <3> QED BY <3>3, <3>4, <3>5, <3>6
  <2>6. CASE LoopExit
    BY <2>6 DEF LoopExit, Gone, clientVars, channels, timerVars, life,
                data, history
  <2> QED BY <1>4, <2>1, <2>2, <2>3, <2>4, <2>5, <2>6 DEF Loop
<1>5. CASE UNCHANGED vars
  BY <1>5 DEF vars, clientVars, channels, loopVars, timerVars, life, data, history
<1> QED BY <1>1, <1>2, <1>3, <1>4, <1>5 DEF Next
LEMMA TypeStep == IInv /\ [Next]_vars => TypeOK'
  BY FlagsStep, OthersStep DEF IInv, TypeOK, FlagsOK, OthersOK

-----------------------------------------------------------------------------
(* The other conjuncts, one lemma each.                                    *)

LEMMA MarksCommittedStep == IInv /\ [Next]_vars => MarksCommitted'
<1> SUFFICES ASSUME OthersOK, OthersOK', MarksCommitted, [Next]_vars
             PROVE  MarksCommitted'
  BY OthersStep, TypeParts DEF IInv
<1> USE DEF MarksCommitted
<1>1. ASSUME NEW c \in Clients, NEW full \in Modes, Write(c, full)
      PROVE  MarksCommitted'
  <2>1. db' = db + 1 /\ db \in Nat /\ UNCHANGED <<markCh, json, history>>
    BY <1>1 DEF Write, OthersOK, channels
  <2>2. \A d \in Clients : mark[d].write \in Nat
    BY DEF OthersOK, Marks
  <2>3. \A d \in Clients : mark'[d].write <= db'
    <3> TAKE d \in Clients
    <3>1. CASE d = c
      BY <1>1, <2>1, <3>1 DEF Write, OthersOK
    <3>2. CASE d # c
      <4>1. mark'[d] = mark[d]
        BY <1>1, <3>2 DEF Write, OthersOK
      <4> QED BY <4>1, <2>1, <2>2
    <3> QED BY <3>1, <3>2
  <2>4. ASSUME NEW i \in 1..Len(markCh) PROVE markCh[i].write <= db + 1
    <3>1. markCh[i] \in Marks
      BY ElementOfSeq DEF OthersOK
    <3> QED BY <3>1, <2>1 DEF Marks
  <2>5. seen <= db + 1 /\ fullSeen <= db + 1 /\ covered <= db + 1
    BY <2>1 DEF OthersOK
  <2> QED BY <2>1, <2>3, <2>4, <2>5 DEF history
<1>2. ASSUME NEW c \in Clients, MarkSend(c) PROVE MarksCommitted'
  <2>1. \A i \in 1..Len(markCh') : markCh'[i].write <= db'
    BY <1>2, SMTT(30) DEF MarkSend, OthersOK, data
  <2> QED BY <1>2, <2>1 DEF MarkSend, data, history
<1>3. CASE LoopMark
  <2>1. \A i \in 1..Len(markCh') : markCh'[i].write <= db'
    <3>1. markCh' = Tail(markCh) /\ markCh \in Seq(Marks) /\ markCh # <<>> /\ db' = db
      BY <1>3 DEF LoopMark, OthersOK, data
    <3>2. /\ Len(markCh') = Len(markCh) - 1 /\ Len(markCh) \in Nat
          /\ \A i \in 1..Len(markCh') : markCh'[i] = markCh[i+1]
      BY <3>1
    <3> QED BY <3>1, <3>2
  <2>2. Head(markCh).write <= db /\ Head(markCh).write \in Nat
    <3>1. Head(markCh) = markCh[1] /\ Head(markCh) \in Marks /\ 1 \in 1..Len(markCh)
      BY <1>3 DEF LoopMark, OthersOK
    <3> QED BY <3>1 DEF Marks
  <2>3. seen' <= db /\ fullSeen' <= db
    BY <1>3, <2>2, SMTT(30) DEF LoopMark, OthersOK, Maximum
  <2> QED BY <1>3, <2>1, <2>3 DEF LoopMark, clientVars, data
<1>4. ASSUME NEW ok \in BOOLEAN, Export(ok) PROVE MarksCommitted'
  BY <1>4, SMTT(30) DEF Export, OthersOK, clientVars
<1>5. CASE UNCHANGED <<mark, markCh, db, json, history>>
  BY <1>5 DEF history
<1>6. QED
  BY <1>1, <1>2, <1>3, <1>4, <1>5 DEF Next, Client, MarkIgnored, FlushNow, FlushSend,
     FlushRefused, FlushReturn, Shutdown, ShutdownSend, ShutdownReturn, ShutdownAgain,
     OnceReturn, StoreClose, Timer, TimerExpire, TimerNotify, Loop, LoopTimer,
     LoopFlushNow, LoopShutdown, LoopExit, vars, clientVars, channels, data

LEMMA FullImpliesDirtyStep == IInv /\ [Next]_vars => FullImpliesDirty'
<1> SUFFICES ASSUME FlagsOK, FullImpliesDirty, [Next]_vars PROVE FullImpliesDirty'
  BY TypeParts DEF IInv
<1> USE DEF FullImpliesDirty
<1>1. CASE LoopMark
  BY <1>1 DEF LoopMark
<1>2. ASSUME NEW ok \in BOOLEAN, Export(ok) PROVE FullImpliesDirty'
  BY <1>2 DEF Export
<1>3. CASE UNCHANGED <<isDirty, needsFull>>
  BY <1>3
<1> QED
  BY <1>1, <1>2, <1>3 DEF Next, Client, Write, MarkSend, MarkIgnored, FlushNow,
     FlushSend, FlushRefused, FlushReturn, Shutdown, ShutdownSend, ShutdownReturn,
     ShutdownAgain, OnceReturn, StoreClose, Timer, TimerExpire, TimerNotify, Loop,
     LoopTimer, LoopFlushNow, LoopShutdown, LoopExit, vars, loopVars

LEMMA OneShutdownStep == IInv /\ [Next]_vars => OneShutdown'
<1> SUFFICES ASSUME OthersOK, OneShutdown, ShutdownSendReady, [Next]_vars
             PROVE  OneShutdown'
  BY TypeParts DEF IInv, Safe
<1> USE DEF OneShutdown
<1>1. ASSUME NEW c \in Clients, Client(c) PROVE OneShutdown'
  <2> USE DEF OthersOK, Goto, AfterShutdown
  <2>1. CASE UNCHANGED <<loop, cause, shutCh, once>> /\ pc[c] \notin {"sending", "joining"}
             /\ pc' = [pc EXCEPT ![c] = pc'[c]]
             /\ pc'[c] \notin {"sending", "joining"}
             /\ (pc'[c] = "closing" => once = "done")
    BY <2>1
  <2>2. CASE Shutdown(c)
    BY <2>2 DEF Shutdown, channels, loopVars
  <2>3. CASE ShutdownSend(c)
    BY <2>3 DEF ShutdownSend, loopVars, life
  <2>4. CASE ShutdownReturn(c)
    BY <2>4 DEF ShutdownReturn, loopVars
  <2>5. ASSUME NEW full \in Modes, Write(c, full) PROVE OneShutdown'
    BY <2>1, <2>5 DEF Write, channels, loopVars, life
  <2>6. CASE MarkSend(c) \/ MarkIgnored(c) \/ FlushNow(c)
    BY <2>1, <2>6 DEF MarkSend, MarkIgnored, FlushNow, channels, loopVars, life
  <2>7. CASE FlushSend(c) \/ FlushRefused(c) \/ FlushReturn(c)
    BY <2>1, <2>7 DEF FlushSend, FlushRefused, FlushReturn, channels, loopVars, life
  <2>8. CASE ShutdownAgain(c) \/ OnceReturn(c)
    BY <2>1, <2>8 DEF ShutdownAgain, OnceReturn, channels, loopVars, life
  <2> QED BY <1>1, <2>2, <2>3, <2>4, <2>5, <2>6, <2>7, <2>8 DEF Client
<1>2. CASE StoreClose
  BY <1>2 DEF StoreClose, Goto, OthersOK, channels, loopVars
<1>3. CASE LoopFlushNow
  <2>1. Head(flushCh) \in Clients /\ "shutdown" \notin Clients
    BY <1>3 DEF LoopFlushNow, OthersOK, FlushManagerAssumption
  <2> QED BY <1>3, <2>1 DEF LoopFlushNow, clientVars, life
<1>4. CASE LoopShutdown \/ LoopTimer \/ LoopMark \/ LoopExit
  BY <1>4 DEF LoopShutdown, LoopTimer, LoopMark, LoopExit, clientVars, channels, life
<1>5. ASSUME NEW ok \in BOOLEAN, Export(ok) PROVE OneShutdown'
  BY <1>5 DEF Export, clientVars, life
<1>6. CASE UNCHANGED <<pc, loop, cause, shutCh, once>>
  BY <1>6
<1> QED
  BY <1>1, <1>2, <1>3, <1>4, <1>5, <1>6 DEF Next, Timer, TimerExpire, TimerNotify, Loop,
     vars, clientVars, channels, loopVars, life

(* What each action leaves alone, for the invariants about the loop.       *)
LEMMA ClientFrame ==
  ASSUME NEW c \in Clients, Client(c)
  PROVE  UNCHANGED <<loopVars, timerVars, timerCh, history>>
  BY DEF Client, Write, MarkSend, MarkIgnored, FlushNow, FlushSend, FlushRefused,
         FlushReturn, Shutdown, ShutdownSend, ShutdownReturn, ShutdownAgain, OnceReturn,
         channels

LEMMA NoReceivedMarkLostStep == IInv /\ [Next]_vars => NoReceivedMarkLost'
<1> SUFFICES ASSUME FlagsOK, OthersOK, MarksCommitted, FullImpliesDirty, NoReceivedMarkLost,
                    [Next]_vars
             PROVE  NoReceivedMarkLost'
  BY TypeParts DEF IInv, Safe
<1> USE DEF NoReceivedMarkLost, Gone
<1>1. CASE UNCHANGED <<isDirty, needsFull, loop, history>>
  BY <1>1 DEF history
<1>2. ASSUME NEW c \in Clients, Client(c) PROVE NoReceivedMarkLost'
  BY <1>1, <1>2, ClientFrame DEF loopVars
<1>3. CASE LoopMark
  <2>1. isDirty' = TRUE /\ loop' = "select" /\ covered' = covered
        /\ fullCovered' = fullCovered
    BY <1>3 DEF LoopMark
  <2>2. ~needsFull' => ~needsFull /\ fullSeen' = fullSeen
    BY <1>3 DEF LoopMark
  <2> QED BY <2>1, <2>2
<1>4. CASE LoopShutdown
  BY <1>4 DEF LoopShutdown, FullImpliesDirty, history
<1>5. ASSUME NEW ok \in BOOLEAN, Export(ok) PROVE NoReceivedMarkLost'
  <2>1. seen' <= covered'
    BY <1>5 DEF Export, MarksCommitted
  <2>2. fullSeen' <= fullCovered'
    <3>1. CASE needsFull
      BY <1>5, <3>1 DEF Export, MarksCommitted
    <3>2. CASE ~needsFull
      BY <1>5, <3>2 DEF Export
    <3> QED BY <3>1, <3>2
  <2> QED BY <2>1, <2>2
<1>6. CASE LoopTimer \/ LoopFlushNow \/ LoopExit
  BY <1>6 DEF LoopTimer, LoopFlushNow, LoopExit, history
<1> QED
  BY <1>1, <1>2, <1>3, <1>4, <1>5, <1>6 DEF Next, StoreClose, Timer, TimerExpire,
     TimerNotify, Loop, vars, loopVars, history

LEMMA DirtyHasWakeupStep == IInv /\ [Next]_vars => DirtyHasWakeup'
<1> SUFFICES ASSUME FlagsOK, OthersOK, DirtyHasWakeup, [Next]_vars PROVE DirtyHasWakeup'
  BY TypeParts DEF IInv, Safe
<1> USE DEF DirtyHasWakeup
<1>1. CASE UNCHANGED <<isDirty, loop, armed, firing, timerCh>>
  BY <1>1
<1>2. ASSUME NEW c \in Clients, Client(c) PROVE DirtyHasWakeup'
  BY <1>1, <1>2, ClientFrame DEF loopVars, timerVars
<1>3. CASE TimerExpire
  BY <1>3, SMT DEF TimerExpire, OthersOK
<1>4. CASE TimerNotify
  BY <1>4 DEF TimerNotify
<1>5. CASE LoopMark
  BY <1>5 DEF LoopMark
<1>6. CASE LoopTimer \/ LoopFlushNow \/ LoopShutdown \/ LoopExit
  BY <1>6 DEF LoopTimer, LoopFlushNow, LoopShutdown, LoopExit
<1>7. ASSUME NEW ok \in BOOLEAN, Export(ok) PROVE DirtyHasWakeup'
  BY <1>7 DEF Export
<1> QED
  BY <1>1, <1>2, <1>3, <1>4, <1>5, <1>6, <1>7 DEF Next, StoreClose, Timer, Loop, vars,
     loopVars, timerVars, channels

LEMMA NothingAfterExitStep == IInv /\ [Next]_vars => NothingAfterExit'
<1> SUFFICES ASSUME OneShutdown, NothingAfterExit, [Next]_vars PROVE NothingAfterExit'
  BY DEF IInv, Safe
<1> USE DEF NothingAfterExit
<1>1. CASE UNCHANGED <<ctxDone, storeActive, loop>>
  BY <1>1
<1>2. ASSUME NEW c \in Clients, ShutdownReturn(c) PROVE NothingAfterExit'
  BY <1>2 DEF ShutdownReturn, loopVars
<1>3. ASSUME NEW c \in Clients, Client(c) PROVE NothingAfterExit'
  BY <1>1, <1>2, <1>3 DEF Client, Write, MarkSend, MarkIgnored, FlushNow, FlushSend,
     FlushRefused, FlushReturn, Shutdown, ShutdownSend, ShutdownAgain, OnceReturn,
     loopVars, life
<1>4. CASE StoreClose
  BY <1>4 DEF StoreClose, Goto, OneShutdown, FlushManagerAssumption, loopVars
<1>5. CASE Loop
  BY <1>5 DEF Loop, LoopMark, LoopTimer, LoopFlushNow, LoopShutdown, Export,
     LoopExit, life
<1> QED
  BY <1>1, <1>3, <1>4, <1>5 DEF Next, Timer, TimerExpire, TimerNotify, vars, loopVars, life

LEMMA ShutdownSendReadyStep == IInv /\ [Next]_vars => ShutdownSendReady'
<1> SUFFICES ASSUME OthersOK, OneShutdown, ShutdownSendReady, [Next]_vars,
                    NEW c \in Clients, pc'[c] = "sending"
             PROVE  shutCh' = <<>>
  BY TypeParts DEF IInv, Safe, ShutdownSendReady
<1> USE DEF ShutdownSendReady
<1>1. CASE UNCHANGED <<pc, shutCh>>
  BY <1>1
<1>2. ASSUME NEW d \in Clients, Shutdown(d) PROVE shutCh' = <<>>
  BY <1>2 DEF Shutdown, OneShutdown, channels
<1>3. ASSUME NEW d \in Clients, ShutdownSend(d) PROVE shutCh' = <<>>
  <2>1. pc[d] = "sending" /\ pc'[d] = "joining"
    BY <1>3 DEF ShutdownSend, Goto, OthersOK
  <2>2. c # d /\ pc[c] = "sending"
    BY <1>3, <2>1 DEF ShutdownSend, Goto, OthersOK
  <2> QED BY <2>1, <2>2 DEF OneShutdown
<1>4. ASSUME NEW d \in Clients, UNCHANGED shutCh,
             NEW from \in PCs, NEW to \in PCs \ {"sending"}, Goto(d, from, to)
      PROVE  shutCh' = <<>>
  BY <1>4 DEF Goto, OthersOK
<1>5. ASSUME NEW d \in Clients, Client(d) PROVE shutCh' = <<>>
  <2>1. CASE \E full \in Modes : Write(d, full)
    BY <1>4, <2>1 DEF Write, PCs, channels
  <2>2. CASE MarkSend(d) \/ MarkIgnored(d) \/ FlushNow(d)
    BY <1>4, <2>2 DEF MarkSend, MarkIgnored, FlushNow, PCs, channels
  <2>3. CASE FlushSend(d) \/ FlushRefused(d) \/ FlushReturn(d)
    BY <1>4, <2>3 DEF FlushSend, FlushRefused, FlushReturn, PCs, channels
  <2>4. CASE ShutdownReturn(d) \/ ShutdownAgain(d) \/ OnceReturn(d)
    BY <1>4, <2>4 DEF ShutdownReturn, ShutdownAgain, OnceReturn, AfterShutdown, PCs,
                      channels
  <2> QED BY <1>5, <1>2, <1>3, <2>1, <2>2, <2>3, <2>4 DEF Client
<1>6. CASE StoreClose
  BY <1>4, <1>6 DEF StoreClose, PCs, channels, FlushManagerAssumption
<1>7. CASE LoopShutdown
  BY <1>7 DEF LoopShutdown, clientVars
<1>8. ASSUME NEW ok \in BOOLEAN, Export(ok) PROVE shutCh' = <<>>
  BY <1>8 DEF Export, clientVars
<1> QED
  BY <1>1, <1>5, <1>6, <1>7, <1>8 DEF Next, Timer, TimerExpire, TimerNotify, Loop,
     LoopMark, LoopTimer, LoopFlushNow, LoopExit, vars, clientVars, channels

LEMMA IInvStep == IInv /\ [Next]_vars => IInv'
  BY TypeStep, MarksCommittedStep, FullImpliesDirtyStep, OneShutdownStep,
     NoReceivedMarkLostStep, DirtyHasWakeupStep, NothingAfterExitStep,
     ShutdownSendReadyStep
     DEF IInv, Safe

-----------------------------------------------------------------------------
(* The theorems.                                                           *)

(* The strengthening, from which the others follow.                        *)
THEOREM Inductive == Spec => []IInv
  BY InitIInv, IInvStep, PTL DEF Spec

(* Types and channel bounds of the event loop hold in every instance.      *)
THEOREM TypeCorrect == Spec => []TypeOK
  BY Inductive, PTL DEF IInv

(* A received mark, and its fullExport flag, survives until an export was  *)
(* attempted for it; the loop does not exit with one pending.              *)
THEOREM ReceivedMarksKept == Spec => []NoReceivedMarkLost
  BY Inductive, PTL DEF IInv, Safe

(* A waiting loop with dirty data has a timer or a notification to come.   *)
THEOREM WakeupPending == Spec => []DirtyHasWakeup
  BY Inductive, PTL DEF IInv, Safe

(* The store is open and the context alive as long as the loop runs, which *)
(* makes run()'s ctx.Done() branch and performFlush's early return dead.   *)
THEOREM LoopEndsFirst == Spec => []NothingAfterExit
  BY Inductive, PTL DEF IInv, Safe

(* Shutdown's send never waits, so that its 30s timeout is never taken.    *)
THEOREM TimeoutIsDead == Spec => []ShutdownSendReady
  BY Inductive, PTL DEF IInv, Safe

(* The JSONL file only moves forward and is final once the loop leaves.    *)
THEOREM FileMonotonic == Spec => FileOnlyAdvances
<1>1. IInv /\ [Next]_vars
        => [json' >= json /\ (loop \in Gone => json' = json)]_vars
  <2> SUFFICES ASSUME IInv, Next
               PROVE  json' >= json /\ (loop \in Gone => json' = json)
    BY DEF IInv
  <2>1. json \in Nat /\ db \in Nat /\ json <= db
    BY DEF IInv, TypeOK, MarksCommitted
  <2>2. ASSUME NEW ok \in BOOLEAN, Export(ok)
        PROVE  json' >= json /\ (loop \in Gone => json' = json)
    BY <2>1, <2>2 DEF Export, Gone
  <2>3. CASE json' = json
    BY <2>1, <2>3
  <2> QED
    BY <2>2, <2>3 DEF Next, Client, Write, MarkSend, MarkIgnored, FlushNow, FlushSend,
       FlushRefused, FlushReturn, Shutdown, ShutdownSend, ShutdownReturn, ShutdownAgain,
       OnceReturn, StoreClose, Timer, TimerExpire, TimerNotify, Loop, LoopMark,
       LoopTimer, LoopFlushNow, LoopShutdown, LoopExit, data
<1> QED BY <1>1, Inductive, PTL DEF Spec, FileOnlyAdvances

-----------------------------------------------------------------------------
(* Requests and answers.  No request is in two places at once: that is     *)
(* what keeps the answer to one caller from being mixed up with another's. *)

Waiting(c) == flushCh = <<c>>
Joining(c) == shutCh = <<c>>
Serving(c) == loop = "export" /\ cause = c

Found(c) ==
  /\ pc[c] = "awaiting" <=> Waiting(c) \/ Serving(c) \/ (c \in answered /\ pc[c] # "joining")
  /\ pc[c] = "joining" <=> Joining(c) \/ (c \in answered /\ pc[c] # "awaiting")

InOnePlace(c) ==
  /\ ~(Waiting(c) /\ Serving(c))
  /\ c \in answered => ~Waiting(c) /\ ~Joining(c) /\ ~Serving(c)

Requests == \A c \in Clients : Found(c) /\ InOnePlace(c)

(* A request channel is empty, or holds the one request at its head.       *)
LEMMA OneRequest ==
  ASSUME NEW ch \in Seq(Clients), Len(ch) <= 1, ch # <<>>
  PROVE  Head(ch) \in Clients /\ \A c : ch = <<c>> <=> c = Head(ch)
<1>1. Len(ch) = 1
  <2> DEFINE n == Len(ch)
  <2>1. n \in Nat \ {0} /\ n <= 1
    BY EmptySeq, Zenon
  <2> HIDE DEF n
  <2>2. n = 1
    BY ONLY <2>1
  <2> QED BY <2>2 DEF n
<1>2. ch = <<Head(ch)>>
  BY <1>1
<1> QED BY <1>2

LEMMA NoRequest == \A c : <<>> # <<c>>
OBVIOUS

LEMMA OnlyRequest == \A c, d : <<c>> = <<d>> <=> c = d
OBVIOUS

(* A step that leaves requests and answers alone, and calls of FlushNow    *)
(* and Shutdown that wait for them.                                        *)
LEMMA RequestsElsewhere ==
  ASSUME Requests, UNCHANGED <<flushCh, shutCh, answered>>,
         \A c \in Clients : \/ pc'[c] = pc[c]
                            \/ /\ pc[c] \notin {"awaiting", "joining"}
                               /\ pc'[c] \notin {"awaiting", "joining"},
         \A c \in Clients : Serving(c)' <=> Serving(c)
  PROVE  Requests'
BY DEF Requests, Found, InOnePlace, Waiting, Joining

LEMMA RequestsStep == IInv /\ Requests /\ [Next]_vars => Requests'
<1> SUFFICES ASSUME IInv, Requests, [Next]_vars PROVE Requests'
  OBVIOUS
<1>0. OthersOK /\ Clients \cap {"timer", "shutdown"} = {}
  BY TypeParts DEF IInv
<1>1. ASSUME NEW c \in Clients, Client(c) PROVE Requests'
  <2>0. \A d \in Clients : Serving(d)' <=> Serving(d)
    BY <1>1, ClientFrame DEF loopVars, Serving
  <2>1. CASE FlushSend(c)
    <3>1. /\ pc[c] = "requesting" /\ pc' = [pc EXCEPT ![c] = "awaiting"]
          /\ flushCh = <<>> /\ flushCh' = <<c>> /\ UNCHANGED <<shutCh, answered>>
      BY <2>1 DEF FlushSend, Goto
    <3>2. \A d \in Clients : ~Waiting(d) /\ (Waiting(d)' <=> d = c) /\ (Joining(d)' <=> Joining(d))
      BY <3>1, NoRequest, OnlyRequest DEF Waiting, Joining
    <3>3. \A d \in Clients : pc'[d] = IF d = c THEN "awaiting" ELSE pc[d]
      BY <1>0, <3>1 DEF OthersOK
    <3> QED BY <2>0, <3>1, <3>2, <3>3 DEF Requests, Found, InOnePlace
  <2>2. CASE FlushReturn(c)
    <3>1. /\ pc[c] = "awaiting" /\ pc' = [pc EXCEPT ![c] = "idle"]
          /\ answered' = answered \ {c} /\ c \in answered /\ UNCHANGED <<flushCh, shutCh>>
      BY <2>2 DEF FlushReturn, Goto
    <3>2. \A d \in Clients : (Waiting(d)' <=> Waiting(d)) /\ (Joining(d)' <=> Joining(d))
      BY <3>1 DEF Waiting, Joining
    <3>3. \A d \in Clients : pc'[d] = IF d = c THEN "idle" ELSE pc[d]
      BY <1>0, <3>1 DEF OthersOK
    <3> QED BY <2>0, <3>1, <3>2, <3>3 DEF Requests, Found, InOnePlace
  <2>3. CASE ShutdownSend(c)
    <3>1. /\ pc[c] = "sending" /\ pc' = [pc EXCEPT ![c] = "joining"]
          /\ shutCh = <<>> /\ shutCh' = <<c>> /\ UNCHANGED <<flushCh, answered>>
      BY <2>3 DEF ShutdownSend, Goto
    <3>2. \A d \in Clients : ~Joining(d) /\ (Joining(d)' <=> d = c) /\ (Waiting(d)' <=> Waiting(d))
      BY <3>1, NoRequest, OnlyRequest DEF Waiting, Joining
    <3>3. \A d \in Clients : pc'[d] = IF d = c THEN "joining" ELSE pc[d]
      BY <1>0, <3>1 DEF OthersOK
    <3> QED BY <2>0, <3>1, <3>2, <3>3 DEF Requests, Found, InOnePlace
  <2>4. CASE ShutdownReturn(c)
    <3>1. /\ pc[c] = "joining" /\ pc' = [pc EXCEPT ![c] = AfterShutdown(c)]
          /\ answered' = answered \ {c} /\ c \in answered /\ UNCHANGED <<flushCh, shutCh>>
      BY <2>4 DEF ShutdownReturn, Goto
    <3>2. \A d \in Clients : (Waiting(d)' <=> Waiting(d)) /\ (Joining(d)' <=> Joining(d))
      BY <3>1 DEF Waiting, Joining
    <3>3. \A d \in Clients : pc'[d] = IF d = c THEN AfterShutdown(c) ELSE pc[d]
      BY <1>0, <3>1 DEF OthersOK
    <3>4. AfterShutdown(c) \in {"closing", "idle"}
      BY DEF AfterShutdown
    <3> QED BY <2>0, <3>1, <3>2, <3>3, <3>4 DEF Requests, Found, InOnePlace
  <2>5. CASE ~(FlushSend(c) \/ FlushReturn(c) \/ ShutdownSend(c) \/ ShutdownReturn(c))
    <3>1. UNCHANGED <<flushCh, shutCh, answered>>
      BY <1>1, <2>5
         DEF Client, Write, MarkSend, MarkIgnored, FlushNow, FlushRefused, Shutdown,
             ShutdownAgain, OnceReturn, channels
    <3>2. /\ pc' = [pc EXCEPT ![c] = pc'[c]] /\ pc[c] \notin {"awaiting", "joining"}
          /\ pc'[c] \notin {"awaiting", "joining"}
      BY <1>0, <1>1, <2>5
         DEF OthersOK, Client, Write, MarkSend, MarkIgnored, FlushNow, FlushRefused, Shutdown,
             ShutdownAgain, OnceReturn, Goto, AfterShutdown
    <3> QED BY <1>0, <2>0, <3>1, <3>2, RequestsElsewhere DEF OthersOK
  <2> QED BY <2>1, <2>2, <2>3, <2>4, <2>5
<1>2. CASE StoreClose \/ Timer \/ LoopMark \/ LoopExit \/ UNCHANGED vars
  <2>1. UNCHANGED <<flushCh, shutCh, answered>>
    BY <1>2 DEF StoreClose, Timer, TimerExpire, TimerNotify, LoopMark, LoopExit, channels, vars
  <2>2. \A c \in Clients : \/ pc'[c] = pc[c]
                           \/ pc[c] \notin {"awaiting", "joining"} /\ pc'[c] \notin {"awaiting", "joining"}
    BY <1>0, <1>2 DEF OthersOK, StoreClose, Goto, Timer, TimerExpire, TimerNotify, LoopMark,
                      LoopExit, clientVars, vars
  <2>3. \A c \in Clients : Serving(c)' <=> Serving(c)
    BY <1>2 DEF StoreClose, Timer, TimerExpire, TimerNotify, LoopMark, LoopExit, Serving,
                loopVars, vars
  <2> QED BY <2>1, <2>2, <2>3, RequestsElsewhere
<1>3. CASE LoopTimer
  <2>1. UNCHANGED <<flushCh, shutCh, answered, pc>>
    BY <1>3 DEF LoopTimer, clientVars
  <2>2. \A c \in Clients : Serving(c)' <=> Serving(c)
    BY <1>0, <1>3 DEF LoopTimer, Serving
  <2> QED BY <2>1, <2>2, RequestsElsewhere
<1>4. CASE LoopFlushNow
  <2> DEFINE h == Head(flushCh)
  <2>1. h \in Clients /\ \A c \in Clients : Waiting(c) <=> c = h
    BY <1>0, <1>4, OneRequest DEF LoopFlushNow, OthersOK, Waiting
  <2>2. \A c \in Clients : ~Waiting(c)' /\ (Joining(c)' <=> Joining(c)) /\ pc'[c] = pc[c]
    BY <1>4, NoRequest DEF LoopFlushNow, Waiting, Joining, clientVars
  <2>3. \A c \in Clients : ~Serving(c)
    BY <1>4 DEF LoopFlushNow, Serving
  <2>4. \/ UNCHANGED answered /\ \A c \in Clients : Serving(c)' <=> c = h
        \/ answered' = answered \cup {h} /\ \A c \in Clients : ~Serving(c)'
    BY <1>4 DEF LoopFlushNow, Serving
  <2> HIDE DEF h
  <2> QED BY <2>1, <2>2, <2>3, <2>4 DEF Requests, Found, InOnePlace
<1>5. CASE LoopShutdown
  <2> DEFINE h == Head(shutCh)
  <2>1. h \in Clients /\ \A c \in Clients : Joining(c) <=> c = h
    BY <1>0, <1>5, OneRequest DEF LoopShutdown, OthersOK, Joining
  <2>2. \A c \in Clients : (Waiting(c)' <=> Waiting(c)) /\ pc'[c] = pc[c]
    BY <1>5 DEF LoopShutdown, Waiting, clientVars
  <2>3. \A c \in Clients : ~Serving(c) /\ ~Serving(c)'
    BY <1>0, <1>5 DEF LoopShutdown, Serving
  <2>4. \/ UNCHANGED answered /\ \A c \in Clients : Joining(c)' <=> Joining(c)
        \/ answered' = answered \cup {h} /\ \A c \in Clients : ~Joining(c)'
    BY <1>5, NoRequest DEF LoopShutdown, Joining
  <2> HIDE DEF h
  <2> QED BY <2>1, <2>2, <2>3, <2>4 DEF Requests, Found, InOnePlace
<1>6. ASSUME NEW ok \in BOOLEAN, Export(ok) PROVE Requests'
  <2>1. \A c \in Clients : (Waiting(c)' <=> Waiting(c)) /\ pc'[c] = pc[c] /\ ~Serving(c)'
    BY <1>6 DEF Export, Waiting, Serving, clientVars
  <2>2. CASE cause = "shutdown"
    <3> DEFINE h == Head(shutCh)
    <3>1. h \in Clients /\ \A c \in Clients : Joining(c) <=> c = h
      BY <1>0, <1>6, <2>2, OneRequest DEF Export, OthersOK, Joining, IInv, OneShutdown
    <3>2. \A c \in Clients : ~Serving(c) /\ ~Joining(c)'
      BY <1>0, <1>6, <2>2, NoRequest DEF Export, Serving, Joining
    <3>3. answered' = answered \cup {h}
      BY <1>6, <2>2 DEF Export
    <3> HIDE DEF h
    <3> QED BY <2>1, <3>1, <3>2, <3>3 DEF Requests, Found, InOnePlace
  <2>3. CASE cause # "shutdown"
    <3>1. \A c \in Clients : Joining(c)' <=> Joining(c)
      BY <1>6, <2>3 DEF Export, Joining
    <3>2. \A c \in Clients : c \in answered' <=> c \in answered \/ Serving(c)
      BY <1>0, <1>6, <2>3 DEF Export, Serving
    <3> QED BY <2>1, <3>1, <3>2 DEF Requests, Found, InOnePlace
  <2> QED BY <2>2, <2>3
<1> QED BY <1>1, <1>2, <1>3, <1>4, <1>5, <1>6 DEF Next, Loop

(* Whoever waits in FlushNow or Shutdown has its request in the channel,   *)
(* being served or answered, and is the only one to find that answer.      *)
THEOREM NoRequestLost == Spec => []RequestsAccountedFor
<1>1. Init => Requests
  BY NoRequest DEF Init, Requests, Found, InOnePlace, Waiting, Joining, Serving
<1>2. IInv /\ Requests /\ [Next]_vars => Requests'
  BY RequestsStep
<1>3. Requests => RequestsAccountedFor
  BY DEF Requests, Found, RequestsAccountedFor, Waiting, Joining, Serving
<1> QED BY <1>1, <1>2, <1>3, Inductive, PTL DEF Spec

-----------------------------------------------------------------------------
(* Refinement: the loop implements AutoFlush (its safety part; the run     *)
(* flush_liveness checks the fairness too).                                *)
Promise == INSTANCE AutoFlush WITH
  received <- seen, attempted <- covered, file <- json,
  running <- loop # "exited"

(* Every step of the loop is a Receive, an Attempt, a Stop or a stutter.   *)
THEOREM Implements == Spec => Promise!Spec
<1> USE DEF Promise!Writes
<1>1. Init => Promise!Init
  BY DEF Init, Promise!Init
<1>2. IInv /\ [Next]_vars => [Promise!Next]_(Promise!vars)
  <2> SUFFICES ASSUME IInv, [Next]_vars PROVE [Promise!Next]_(Promise!vars)
    OBVIOUS
  <2> USE DEF Promise!Next, Promise!vars
  <2>1. CASE UNCHANGED <<seen, covered, json, loop>>
    BY <2>1
  <2>2. CASE LoopMark
    <3>1. seen \in Nat /\ Head(markCh).write \in 0..MaxWrites
      <4>1. 1 \in 1..Len(markCh) /\ Head(markCh) = markCh[1] /\ Head(markCh) \in Marks
        BY <2>2 DEF LoopMark, IInv, TypeOK
      <4>2. markCh[1].write <= db /\ markCh[1].write \in Nat
        BY <4>1 DEF IInv, MarksCommitted, Marks
      <4>3. db \in 0..MaxWrites /\ seen \in Nat
        BY DEF IInv, TypeOK
      <4> QED BY <4>1, <4>2, <4>3, FlushManagerAssumption DEF FlushManagerAssumption
    <3>2. seen' = seen \/ (seen' \in 0..MaxWrites /\ seen' > seen)
      BY <2>2, <3>1 DEF LoopMark, Maximum
    <3> QED BY <2>2, <3>2 DEF LoopMark, data, Promise!Receive
  <2>3. ASSUME NEW ok \in BOOLEAN, Export(ok) PROVE Promise!Attempt
    <3>1. db \in 0..MaxWrites /\ db >= seen /\ db >= covered
      BY DEF IInv, TypeOK, MarksCommitted
    <3>2. covered' = db /\ json' \in {json, db} /\ seen' = seen
          /\ loop # "exited" /\ loop' # "exited"
      BY <2>3 DEF Export
    <3> QED BY <3>1, <3>2 DEF Promise!Attempt
  <2>4. CASE LoopExit
    <3>1. seen <= covered
      BY <2>4 DEF LoopExit, IInv, Safe, NoReceivedMarkLost, Gone
    <3> QED BY <2>4, <3>1 DEF LoopExit, data, history, Promise!Stop
  <2>5. CASE LoopTimer \/ LoopFlushNow \/ LoopShutdown
    BY <2>5 DEF LoopTimer, LoopFlushNow, LoopShutdown, data, history
  <2>6. ASSUME NEW c \in Clients, Client(c) PROVE [Promise!Next]_(Promise!vars)
    <3>1. UNCHANGED json
      BY <2>6 DEF Client, Write, MarkSend, MarkIgnored, FlushNow, FlushSend, FlushRefused,
         FlushReturn, Shutdown, ShutdownSend, ShutdownReturn, ShutdownAgain, OnceReturn, data
    <3> QED BY <2>1, <2>6, <3>1, ClientFrame DEF loopVars, history
  <2> QED
    BY <2>1, <2>2, <2>3, <2>4, <2>5, <2>6 DEF Next, StoreClose, Timer, TimerExpire,
       TimerNotify, Loop, vars, loopVars, data, history
<1> QED BY <1>1, <1>2, Inductive, PTL DEF Spec, Promise!Spec
=============================================================================
