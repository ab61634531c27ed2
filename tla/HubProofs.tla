------------------------------ MODULE HubProofs ------------------------------
(***************************************************************************)
(* Safety of the WebSocket hub for any number of connections and posters,  *)
(* any buffer size and any number of events.                               *)
(*                                                                         *)
(* The inductive invariant has four parts: the types; who is registered    *)
(* and who holds the read lock (Locking); how the events in a client's     *)
(* queues are numbered (Numbering); and the two properties about them.     *)
(***************************************************************************)
EXTENDS Hub, SequenceTheorems, TLAPS

USE HubAssumption

Elems(s) == {s[i] : i \in 1..Len(s)}
Held(c) == Elems(delivered[c]) \cup Elems(inflight[c]) \cup Elems(send[c])

Before(a, b) == a.from = b.from => a.seq < b.seq
Precedes(S, T) == \A a \in S, b \in T : Before(a, b)
Ordered(s) == \A i, j \in 1..Len(s) : i < j => Before(s[i], s[j])

(* A client is in h.clients from Register to Unregister, its channel is    *)
(* closed afterwards, its writer started in between; only a poster that    *)
(* holds the lock has clients ahead.                                       *)
Locking ==
  /\ \A c \in Clients :
       /\ c \in clients <=> handler[c] \in {"registered", "reading", "leaving"}
       /\ c \in closed => handler[c] = "gone"
       /\ handler[c] \in {"none", "accepted", "registered"} => writer[c] = "none"
  /\ \A p \in Posters :
       /\ todo[p] \subseteq clients
       /\ posting[p] = <<>> => todo[p] = {}

(* A poster broadcasts its latest event; what a client holds is older than *)
(* the events that have yet to reach it.                                   *)
Numbering ==
  /\ \A p \in Posters : posting[p] # <<>> =>
       posting[p][1].from = p /\ posting[p][1].seq = posts[p]
  /\ \A c \in Clients : \A e \in Held(c) :
       /\ e.seq <= posts[e.from]
       /\ c \in todo[e.from] => e.seq < posts[e.from]

QueuesInOrder ==
  \A c \in Clients :
    /\ Ordered(delivered[c]) /\ Ordered(send[c])
    /\ Precedes(Elems(delivered[c]), Elems(inflight[c]))
    /\ Precedes(Elems(delivered[c]), Elems(send[c]))
    /\ Precedes(Elems(inflight[c]), Elems(send[c]))

Served ==
  \A p \in Posters : \A c \in clients \ todo[p] :
    posting[p] # <<>> =>
      IF Addressed(c, posting[p][1])
      THEN \/ posting[p][1] \in Held(c)
           \/ <<c, posting[p][1]>> \in lost
           \/ writer[c] \in {"closing", "done"}
      ELSE posting[p][1] \notin Held(c)

IInv == TypeOK /\ Locking /\ Numbering /\ QueuesInOrder /\ Served

-----------------------------------------------------------------------------
(* Sequences.                                                              *)

LEMMA ElemsEmpty == Elems(<<>>) = {}
  BY DEF Elems

LEMMA ElemsSingle == \A e : Elems(<<e>>) = {e}
  BY DEF Elems

LEMMA ElemsAppend ==
  ASSUME NEW S, NEW s \in Seq(S), NEW e \in S
  PROVE  Elems(Append(s, e)) = Elems(s) \cup {e}
<1>1. Len(Append(s, e)) = Len(s) + 1 /\ Len(s) \in Nat
  OBVIOUS
<1>2. \A i \in 1..Len(s) : Append(s, e)[i] = s[i]
  OBVIOUS
<1>3. Append(s, e)[Len(s) + 1] = e
  OBVIOUS
<1>4. 1..(Len(s) + 1) = (1..Len(s)) \cup {Len(s) + 1}
  BY <1>1
<1> QED
  BY <1>1, <1>2, <1>3, <1>4 DEF Elems

LEMMA ElemsTail ==
  ASSUME NEW S, NEW s \in Seq(S), s # <<>>
  PROVE  /\ Elems(s) = {Head(s)} \cup Elems(Tail(s))
         /\ Tail(s) \in Seq(S) /\ Head(s) \in S
<1>1. Len(s) \in Nat \ {0} /\ Len(Tail(s)) = Len(s) - 1
  BY EmptySeq
<1>2. \A i \in 1..(Len(s) - 1) : Tail(s)[i] = s[i + 1]
  BY <1>1
<1>3. Head(s) = s[1] /\ Tail(s) \in Seq(S) /\ Head(s) \in S
  BY <1>1
<1>4. \A i \in 1..Len(s) : i = 1 \/ (i - 1 \in 1..(Len(s) - 1) /\ Tail(s)[i - 1] = s[i])
  BY <1>1, <1>2
<1>5. Elems(s) \subseteq {Head(s)} \cup Elems(Tail(s))
  BY <1>1, <1>3, <1>4, SMTT(30) DEF Elems
<1>6. {Head(s)} \cup Elems(Tail(s)) \subseteq Elems(s)
  BY <1>1, <1>2, <1>3 DEF Elems
<1> QED
  BY <1>3, <1>5, <1>6

LEMMA ElemsConcat ==
  ASSUME NEW S, NEW s \in Seq(S), NEW t \in Seq(S)
  PROVE  Elems(s \o t) = Elems(s) \cup Elems(t)
<1>1. Len(s \o t) = Len(s) + Len(t) /\ Len(s) \in Nat /\ Len(t) \in Nat
  OBVIOUS
<1>2. \A i \in 1..Len(s) : (s \o t)[i] = s[i]
  OBVIOUS
<1>3. \A i \in 1..Len(t) : (s \o t)[Len(s) + i] = t[i]
  OBVIOUS
<1>4. \A i \in 1..(Len(s) + Len(t)) :
        \/ i \in 1..Len(s)
        \/ i - Len(s) \in 1..Len(t) /\ (s \o t)[i] = t[i - Len(s)]
  BY <1>1, <1>3
<1>5. Elems(s \o t) \subseteq Elems(s) \cup Elems(t)
  BY <1>1, <1>2, <1>4 DEF Elems
<1>6. Elems(s) \cup Elems(t) \subseteq Elems(s \o t)
  <2>1. \A i \in 1..Len(s) : s[i] \in Elems(s \o t)
    BY <1>1, <1>2 DEF Elems
  <2>2. ASSUME NEW i \in 1..Len(t) PROVE t[i] \in Elems(s \o t)
    <3>1. Len(s) + i \in 1..Len(s \o t)
      BY <1>1
    <3>2. t[i] = (s \o t)[Len(s) + i]
      BY <1>3
    <3> QED
      BY <3>1, <3>2 DEF Elems
  <2> QED
    BY <2>1, <2>2 DEF Elems
<1> QED
  BY <1>5, <1>6

LEMMA OrderedConcat ==
  ASSUME NEW S, NEW s \in Seq(S), NEW t \in Seq(S),
         Ordered(s), Ordered(t), Precedes(Elems(s), Elems(t))
  PROVE  Ordered(s \o t)
<1>1. Len(s \o t) = Len(s) + Len(t) /\ Len(s) \in Nat /\ Len(t) \in Nat
  OBVIOUS
<1> SUFFICES ASSUME NEW i \in 1..(Len(s) + Len(t)), NEW j \in 1..(Len(s) + Len(t)), i < j
             PROVE  Before((s \o t)[i], (s \o t)[j])
  BY <1>1 DEF Ordered
<1>2. CASE j \in 1..Len(s)
  <2>1. i \in 1..Len(s) /\ (s \o t)[i] = s[i] /\ (s \o t)[j] = s[j]
    BY <1>1, <1>2
  <2> QED
    BY <2>1, <1>2 DEF Ordered
<1>3. CASE i \in 1..Len(s) /\ j \notin 1..Len(s)
  <2>1. j - Len(s) \in 1..Len(t) /\ (s \o t)[j] = t[j - Len(s)] /\ (s \o t)[i] = s[i]
    BY <1>1, <1>3
  <2> QED
    BY <2>1, <1>3 DEF Precedes, Elems
<1>4. CASE i \notin 1..Len(s) /\ j \notin 1..Len(s)
  <2>1. /\ j - Len(s) \in 1..Len(t) /\ (s \o t)[j] = t[j - Len(s)]
        /\ i - Len(s) \in 1..Len(t) /\ (s \o t)[i] = t[i - Len(s)]
        /\ i - Len(s) < j - Len(s)
    BY <1>1, <1>4
  <2> QED
    BY <2>1 DEF Ordered
<1>5. j \in 1..Len(s) => i \in 1..Len(s)
  BY <1>1
<1> QED
  BY <1>2, <1>3, <1>4, <1>5

LEMMA OrderedShort == \A s : Len(s) = 1 => Ordered(s)
  BY DEF Ordered

LEMMA OrderedAppend ==
  ASSUME NEW S, NEW s \in Seq(S), NEW e \in S,
         Ordered(s), Precedes(Elems(s), {e})
  PROVE  Ordered(Append(s, e))
<1>1. Append(s, e) = s \o <<e>>
  OBVIOUS
<1>2. <<e>> \in Seq(S)
  OBVIOUS
<1>3. Ordered(<<e>>)
  <2>1. Len(<<e>>) = 1
    OBVIOUS
  <2> QED
    BY <1>2, <2>1, OrderedShort
<1>4. Precedes(Elems(s), Elems(<<e>>))
  BY ElemsSingle
<1>5. Ordered(s \o <<e>>)
  BY <1>2, <1>3, <1>4, OrderedConcat
<1> QED
  BY <1>1, <1>5

LEMMA OrderedTail ==
  ASSUME NEW S, NEW s \in Seq(S), s # <<>>, Ordered(s)
  PROVE  Ordered(Tail(s)) /\ Precedes({Head(s)}, Elems(Tail(s)))
<1>1. Len(s) \in Nat \ {0} /\ Len(Tail(s)) = Len(s) - 1 /\ Head(s) = s[1]
  BY EmptySeq
<1>2. \A i \in 1..(Len(s) - 1) : Tail(s)[i] = s[i + 1] /\ i + 1 \in 1..Len(s)
  BY <1>1
<1>3. Ordered(Tail(s))
  BY <1>1, <1>2 DEF Ordered
<1>4. Precedes({Head(s)}, Elems(Tail(s)))
  BY <1>1, <1>2 DEF Ordered, Precedes, Elems
<1> QED
  BY <1>3, <1>4

-----------------------------------------------------------------------------
(* Types and locking.                                                      *)

LEMMA Initially == Init => IInv
<1> SUFFICES ASSUME Init PROVE IInv
  OBVIOUS
<1> USE DEF Init
<1>1. TypeOK
  BY EmptySeq DEF TypeOK
<1>2. Locking
  BY DEF Locking
<1>3. \A c \in Clients : Held(c) = {}
  BY ElemsEmpty DEF Held
<1>4. Numbering
  BY <1>3 DEF Numbering
<1>5. QueuesInOrder
  <2>1. Ordered(<<>>) /\ Precedes({}, {})
    BY DEF Ordered, Precedes
  <2> QED
    BY <2>1, ElemsEmpty DEF QueuesInOrder
<1>6. Served
  BY DEF Served
<1> QED
  BY <1>1, <1>2, <1>4, <1>5, <1>6 DEF IInv

(* What a client is about to be sent is an event.                          *)
LEMMA Posted ==
  ASSUME TypeOK, Locking, NEW p \in Posters, NEW c \in todo[p]
  PROVE  /\ posting[p] # <<>> /\ posting[p][1] \in Events
         /\ c \in Clients /\ c \in clients
<1>1. posting[p] # <<>> /\ c \in clients /\ c \in Clients
  BY DEF Locking, TypeOK
<1>2. posting[p] \in Seq(Events)
  BY DEF TypeOK
<1>3. Len(posting[p]) \in Nat \ {0}
  BY <1>1, <1>2, EmptySeq
<1>4. posting[p][1] \in Events
  BY <1>2, <1>3
<1> QED
  BY <1>1, <1>4

LEMMA AppendBounded ==
  ASSUME NEW S, NEW s \in Seq(S), NEW e \in S, Len(s) < BufferSize
  PROVE  Append(s, e) \in Seq(S) /\ Len(Append(s, e)) <= BufferSize
<1>1. Append(s, e) \in Seq(S) /\ Len(Append(s, e)) = Len(s) + 1 /\ Len(s) \in Nat
  OBVIOUS
<1> QED
  BY <1>1

LEMMA TypeStep == IInv /\ [Next]_vars => TypeOK'
<1> SUFFICES ASSUME TypeOK, Locking, [Next]_vars PROVE TypeOK'
  BY DEF IInv
<1> USE DEF TypeOK
<1>1. ASSUME NEW p \in Posters, Broadcast(p) PROVE TypeOK'
  <2>1. PICK t \in Targets :
          posting' = [posting EXCEPT ![p] = <<[from |-> p, seq |-> posts[p] + 1, target |-> t]>>]
    BY <1>1 DEF Broadcast
  <2>2. [from |-> p, seq |-> posts[p] + 1, target |-> t] \in Events
    BY DEF Events
  <2>3. posting' \in [Posters -> Seq(Events)] /\ \A q \in Posters : Len(posting'[q]) <= 1
    BY <2>1, <2>2
  <2>4. posts' = [posts EXCEPT ![p] = @ + 1] /\ todo' = [todo EXCEPT ![p] = clients]
    BY <1>1 DEF Broadcast
  <2>5. posts[p] < MaxPosts[p] /\ MaxPosts[p] \in Nat
    BY <1>1 DEF Broadcast
  <2> QED
    BY <1>1, <2>3, <2>4, <2>5 DEF Broadcast, client
<1>2. ASSUME NEW p \in Posters, NEW c \in Clients, Visit(p, c) PROVE TypeOK'
  <2>1. posting[p][1] \in Events
    BY <1>2, Posted DEF Visit
  <2>2. \/ UNCHANGED <<send, lost>>
        \/ Enqueue(c, posting[p][1])
    BY <1>2 DEF Visit
  <2>3. send' \in [Clients -> Seq(Events)] /\ \A d \in Clients : Len(send'[d]) <= BufferSize
    <3>1. CASE UNCHANGED send
      BY <3>1
    <3>2. CASE Len(send[c]) < BufferSize /\ send' = [send EXCEPT ![c] = Append(@, posting[p][1])]
      <4>1. send[c] \in Seq(Events)
        OBVIOUS
      <4>2. /\ Append(send[c], posting[p][1]) \in Seq(Events)
            /\ Len(Append(send[c], posting[p][1])) <= BufferSize
        BY <2>1, <3>2, <4>1, AppendBounded
      <4> HIDE DEF TypeOK
      <4>3. send \in [Clients -> Seq(Events)] /\ \A d \in Clients : Len(send[d]) <= BufferSize
        BY DEF TypeOK
      <4> QED
        BY <3>2, <4>2, <4>3
    <3> QED
      BY <2>2, <3>1, <3>2 DEF Enqueue
  <2>4. lost' \subseteq Clients \X Events
    BY <2>1, <2>2 DEF Enqueue
  <2> QED
    BY <1>2, <2>3, <2>4 DEF Visit, client
<1>3. ASSUME NEW p \in Posters, BroadcastReturn(p) PROVE TypeOK'
  BY <1>3, EmptySeq DEF BroadcastReturn, client
<1>4. ASSUME NEW c \in Clients, Connection(c) PROVE TypeOK'
  <2>1. CASE Accept(c)      BY <2>1 DEF Accept
  <2>2. CASE Register(c)    BY <2>2 DEF Register
  <2>3. CASE StartWriter(c)
    <3>1. writer[c] = "none"
      BY <2>3 DEF StartWriter, Locking
    <3> QED
      BY <2>3, <3>1 DEF StartWriter
  <2>4. CASE ReadFails(c)   BY <2>4 DEF ReadFails
  <2>5. CASE Unregister(c)  BY <2>5 DEF Unregister
  <2>6. CASE PeerLeaves(c)  BY <2>6 DEF PeerLeaves
  <2> QED
    BY <1>4, <2>1, <2>2, <2>3, <2>4, <2>5, <2>6 DEF Connection
<1>5. ASSUME NEW c \in Clients, Writer(c) PROVE TypeOK'
  <2>1. CASE Receive(c)
    <3>1. Tail(send[c]) \in Seq(Events) /\ Head(send[c]) \in Events
      BY <2>1, ElemsTail DEF Receive
    <3>2. Len(Tail(send[c])) <= BufferSize
      BY <2>1, EmptySeq DEF Receive
    <3>3. send' \in [Clients -> Seq(Events)] /\ \A d \in Clients : Len(send'[d]) <= BufferSize
      BY <2>1, <3>1, <3>2 DEF Receive
    <3>4. <<Head(send[c])>> \in Seq(Events) /\ Len(<<Head(send[c])>>) = 1
      BY <3>1
    <3>5. inflight' \in [Clients -> Seq(Events)]
      BY <2>1, <3>4 DEF Receive
    <3>6. \A d \in Clients : Len(inflight'[d]) = (IF writer'[d] = "writing" THEN 1 ELSE 0)
      BY <2>1, <3>4 DEF Receive
    <3> QED
      BY <2>1, <3>3, <3>5, <3>6 DEF Receive
  <2>2. CASE WriteDelivers(c)
    <3>1. delivered[c] \o inflight[c] \in Seq(Events)
      OBVIOUS
    <3> QED
      BY <2>2, <3>1, EmptySeq DEF WriteDelivers
  <2>3. CASE WriteFails(c)
    BY <2>3, EmptySeq DEF WriteFails
  <2>4. CASE WriterStops(c)
    BY <2>4 DEF WriterStops
  <2>5. CASE CloseConn(c)
    BY <2>5 DEF CloseConn
  <2> QED
    BY <1>5, <2>1, <2>2, <2>3, <2>4, <2>5 DEF Writer
<1>6. CASE UNCHANGED vars
  BY <1>6 DEF vars, client
<1> QED
  BY <1>1, <1>2, <1>3, <1>4, <1>5, <1>6 DEF Next, Serve

LEMMA LockingStep == IInv /\ [Next]_vars => Locking'
<1> SUFFICES ASSUME TypeOK, Locking, [Next]_vars PROVE Locking'
  BY DEF IInv
<1> USE DEF Locking, TypeOK
<1>1. ASSUME NEW p \in Posters, Broadcast(p) PROVE Locking'
  BY <1>1 DEF Broadcast, client
<1>2. ASSUME NEW p \in Posters, NEW c \in Clients, Visit(p, c) PROVE Locking'
  BY <1>2 DEF Visit, client
<1>3. ASSUME NEW p \in Posters, BroadcastReturn(p) PROVE Locking'
  BY <1>3 DEF BroadcastReturn, client
<1>4. ASSUME NEW c \in Clients, Connection(c) PROVE Locking'
  <2>1. CASE Accept(c)      BY <2>1 DEF Accept
  <2>2. CASE Register(c)    BY <2>2 DEF Register, NoReader
  <2>3. CASE StartWriter(c) BY <2>3 DEF StartWriter
  <2>4. CASE ReadFails(c)   BY <2>4 DEF ReadFails
  <2>5. CASE Unregister(c)  BY <2>5 DEF Unregister, NoReader
  <2>6. CASE PeerLeaves(c)  BY <2>6 DEF PeerLeaves
  <2> QED
    BY <1>4, <2>1, <2>2, <2>3, <2>4, <2>5, <2>6 DEF Connection
<1>5. ASSUME NEW c \in Clients, Writer(c) PROVE Locking'
  BY <1>5 DEF Writer, Receive, WriteDelivers, WriteFails, WriterStops, CloseConn
<1>6. CASE UNCHANGED vars
  BY <1>6 DEF vars, client
<1> QED
  BY <1>1, <1>2, <1>3, <1>4, <1>5, <1>6 DEF Next, Serve

-----------------------------------------------------------------------------
(* What a step does to the events that a client holds.                     *)

(* The writer moves events along, or discards the one it was writing.      *)
LEMMA WriterQueues ==
  ASSUME TypeOK, NEW c \in Clients, Writer(c)
  PROVE  /\ \A d \in Clients \ {c} :
              /\ delivered'[d] = delivered[d] /\ inflight'[d] = inflight[d]
              /\ send'[d] = send[d] /\ writer'[d] = writer[d]
         /\ Held(c)' \subseteq Held(c)
         /\ Held(c)' = Held(c) \/ writer'[c] = "closing"
         /\ writer[c] \in {"closing", "done"} => writer'[c] \in {"closing", "done"}
<1> USE DEF TypeOK
<1>1. CASE Receive(c)
  <2>1. Elems(inflight[c]) = {}
    <3>1. inflight[c] = <<>>
      BY <1>1, EmptySeq DEF Receive
    <3> QED
      BY <3>1, ElemsEmpty
  <2>2. Elems(send[c]) = {Head(send[c])} \cup Elems(Tail(send[c]))
    BY <1>1, ElemsTail DEF Receive
  <2>3. /\ inflight'[c] = <<Head(send[c])>> /\ send'[c] = Tail(send[c])
        /\ delivered' = delivered
    BY <1>1 DEF Receive
  <2>4. Held(c)' = Held(c)
    BY <2>1, <2>2, <2>3, ElemsSingle DEF Held
  <2> QED
    BY <1>1, <2>4 DEF Receive
<1>2. CASE WriteDelivers(c)
  <2>1. Elems(delivered[c] \o inflight[c]) = Elems(delivered[c]) \cup Elems(inflight[c])
    BY ElemsConcat
  <2>2. /\ inflight'[c] = <<>> /\ delivered'[c] = delivered[c] \o inflight[c]
        /\ send' = send
    BY <1>2 DEF WriteDelivers
  <2>3. Held(c)' = Held(c)
    BY <2>1, <2>2, ElemsEmpty DEF Held
  <2> QED
    BY <1>2, <2>3 DEF WriteDelivers
<1>3. CASE WriteFails(c)
  <2>1. inflight'[c] = <<>> /\ delivered' = delivered /\ send' = send
    BY <1>3 DEF WriteFails
  <2>2. Held(c)' \subseteq Held(c)
    BY <2>1, ElemsEmpty DEF Held
  <2> QED
    BY <1>3, <2>2 DEF WriteFails
<1>4. CASE WriterStops(c)
  BY <1>4 DEF WriterStops, Held
<1>5. CASE CloseConn(c)
  BY <1>5 DEF CloseConn, Held
<1> QED
  BY <1>1, <1>2, <1>3, <1>4, <1>5 DEF Writer

(* A visit hands the client the event, drops it, or passes by.             *)
LEMMA VisitQueues ==
  ASSUME TypeOK, Locking, NEW p \in Posters, NEW c \in Clients, Visit(p, c)
  PROVE  LET e == posting[p][1]
         IN  /\ \A d \in Clients \ {c} : Held(d)' = Held(d)
             /\ \/ /\ Addressed(c, e) /\ Held(c)' = Held(c) \cup {e}
                   /\ send'[c] = Append(send[c], e) /\ lost' = lost
                \/ /\ Addressed(c, e) /\ <<c, e>> \in lost' /\ lost \subseteq lost'
                   /\ Held(c)' = Held(c) /\ send' = send
                \/ /\ ~Addressed(c, e) /\ Held(c)' = Held(c)
                   /\ send' = send /\ lost' = lost
<1> DEFINE e == posting[p][1]
<1> USE DEF TypeOK
<1>1. e \in Events
  BY Posted DEF Visit
<1>2. delivered' = delivered /\ inflight' = inflight
  BY DEF Visit
<1>3. CASE Addressed(c, e) /\ Len(send[c]) < BufferSize
  <2>1. send' = [send EXCEPT ![c] = Append(@, e)] /\ lost' = lost
    BY <1>3 DEF Visit, Enqueue
  <2>2. send'[c] = Append(send[c], e) /\ \A d \in Clients \ {c} : send'[d] = send[d]
    BY <2>1
  <2>3. Elems(send'[c]) = Elems(send[c]) \cup {e}
    BY <1>1, <2>2, ElemsAppend
  <2>4. Held(c)' = Held(c) \cup {e} /\ \A d \in Clients \ {c} : Held(d)' = Held(d)
    BY <1>2, <2>2, <2>3 DEF Held
  <2> QED
    BY <1>3, <2>1, <2>2, <2>4
<1>4. CASE Addressed(c, e) /\ ~(Len(send[c]) < BufferSize)
  <2>1. send' = send /\ lost' = lost \cup {<<c, e>>}
    BY <1>4 DEF Visit, Enqueue
  <2> QED
    BY <1>2, <1>4, <2>1 DEF Held
<1>5. CASE ~Addressed(c, e)
  <2>1. send' = send /\ lost' = lost
    BY <1>5 DEF Visit
  <2> QED
    BY <1>2, <1>5, <2>1 DEF Held
<1> QED
  BY <1>3, <1>4, <1>5

(* No other step touches the queues.                                       *)
LEMMA OtherQueues ==
  ASSUME \/ \E p \in Posters : Broadcast(p) \/ BroadcastReturn(p)
         \/ \E c \in Clients : Connection(c)
         \/ UNCHANGED vars
  PROVE  UNCHANGED <<send, inflight, delivered, lost>>
  BY DEF Broadcast, BroadcastReturn, Connection, Accept, Register, StartWriter,
         ReadFails, Unregister, PeerLeaves, vars

-----------------------------------------------------------------------------
(* Numbering, order and audience.                                          *)

LEMMA HeldEvents == TypeOK => \A c \in Clients : Held(c) \subseteq Events
<1> SUFFICES ASSUME TypeOK, NEW c \in Clients PROVE Held(c) \subseteq Events
  OBVIOUS
<1>1. /\ delivered[c] \in Seq(Events) /\ inflight[c] \in Seq(Events)
      /\ send[c] \in Seq(Events)
  BY DEF TypeOK
<1> QED
  BY <1>1 DEF Held, Elems

LEMMA EventFields == \A e \in Events : e.from \in Posters /\ e.seq \in Nat
  BY DEF Events

LEMMA NumberingStep == IInv /\ [Next]_vars => Numbering'
<1> SUFFICES ASSUME TypeOK, Locking, Numbering, [Next]_vars PROVE Numbering'
  BY DEF IInv
<1> USE DEF Numbering
<1>1. ASSUME NEW p \in Posters, Broadcast(p) PROVE Numbering'
  <2>1. PICK t \in Targets :
          posting' = [posting EXCEPT ![p] = <<[from |-> p, seq |-> posts[p] + 1, target |-> t]>>]
    BY <1>1 DEF Broadcast
  <2>2. posts' = [posts EXCEPT ![p] = @ + 1] /\ todo' = [todo EXCEPT ![p] = clients]
    BY <1>1 DEF Broadcast
  <2>3. \A q \in Posters : posting'[q] # <<>> =>
          posting'[q][1].from = q /\ posting'[q][1].seq = posts'[q]
    <3>1. posting \in [Posters -> Seq(Events)] /\ posts \in [Posters -> Nat]
      BY DEF TypeOK
    <3>2. \A q \in Posters \ {p} : posting'[q] = posting[q] /\ posts'[q] = posts[q]
      BY <2>1, <2>2, <3>1
    <3>3. /\ posting'[p] = <<[from |-> p, seq |-> posts[p] + 1, target |-> t]>>
          /\ posts'[p] = posts[p] + 1
      BY <2>1, <2>2, <3>1
    <3>4. posting'[p][1].from = p /\ posting'[p][1].seq = posts'[p]
      BY <3>3
    <3> QED
      BY <3>2, <3>4
  <2>4. \A c \in Clients : Held(c)' = Held(c)
    BY <1>1, OtherQueues DEF Held
  <2>5. ASSUME NEW c \in Clients, NEW e \in Held(c)
        PROVE  e.seq <= posts'[e.from] /\ (c \in todo'[e.from] => e.seq < posts'[e.from])
    <3>1. e.from \in Posters /\ e.seq \in Nat
      BY HeldEvents, EventFields
    <3>2. posts \in [Posters -> Nat]
      BY DEF TypeOK
    <3>3. e.seq <= posts[e.from] /\ (c \in todo[e.from] => e.seq < posts[e.from])
      OBVIOUS
    <3>4. todo \in [Posters -> SUBSET Clients]
      BY DEF TypeOK
    <3>5. CASE e.from = p
      <4>1. posts'[e.from] = posts[e.from] + 1 /\ posts[e.from] \in Nat
        BY <2>2, <3>1, <3>2, <3>5
      <4> QED
        BY <3>1, <3>3, <4>1
    <3>6. CASE e.from # p
      <4>1. posts'[e.from] = posts[e.from] /\ todo'[e.from] = todo[e.from]
        BY <2>2, <3>1, <3>2, <3>4, <3>6
      <4> QED
        BY <3>3, <4>1
    <3> QED
      BY <3>5, <3>6
  <2> QED
    BY <2>3, <2>4, <2>5
<1>2. ASSUME NEW p \in Posters, NEW c \in Clients, Visit(p, c) PROVE Numbering'
  <2> DEFINE e == posting[p][1]
  <2>1. /\ posting' = posting /\ posts' = posts /\ todo' = [todo EXCEPT ![p] = @ \ {c}]
        /\ c \in todo[p]
    BY <1>2 DEF Visit
  <2>2. /\ \A q \in Posters : todo'[q] \subseteq todo[q]
        /\ todo'[p] = todo[p] \ {c}
    BY <2>1 DEF TypeOK
  <2>3. e.from = p /\ e.seq = posts[p] /\ posts[p] \in Nat /\ c \notin todo'[p]
    BY <1>2, <2>1, <2>2, Posted DEF TypeOK
  <2>4. \A d \in Clients : Held(d)' \subseteq Held(d) \cup (IF d = c THEN {e} ELSE {})
    BY <1>2, VisitQueues, ZenonT(60)
  <2>5. ASSUME NEW d \in Clients, NEW f \in Held(d)'
        PROVE  f.seq <= posts'[f.from] /\ (d \in todo'[f.from] => f.seq < posts'[f.from])
    <3>1. CASE f \in Held(d)
      <4>1. f.from \in Posters
        BY <3>1, HeldEvents, EventFields
      <4> QED
        BY <2>1, <2>2, <3>1, <4>1
    <3>2. CASE d = c /\ f = e
      BY <2>1, <2>3, <3>2
    <3> QED
      BY <2>4, <3>1, <3>2
  <2> QED
    BY <2>1, <2>5
<1>3. ASSUME NEW p \in Posters, BroadcastReturn(p) PROVE Numbering'
  <2>1. posts' = posts /\ todo' = todo /\ posting' = [posting EXCEPT ![p] = <<>>]
    BY <1>3 DEF BroadcastReturn
  <2>2. \A c \in Clients : Held(c)' = Held(c)
    BY <1>3, OtherQueues DEF Held
  <2>3. \A q \in Posters : posting'[q] # <<>> => posting'[q] = posting[q]
    BY <2>1 DEF TypeOK
  <2> QED
    BY <2>1, <2>2, <2>3
<1>4. ASSUME NEW c \in Clients, Connection(c) PROVE Numbering'
  <2>1. posts' = posts /\ todo' = todo /\ posting' = posting
    BY <1>4 DEF Connection, Accept, Register, StartWriter, ReadFails, Unregister, PeerLeaves
  <2>2. \A d \in Clients : Held(d)' = Held(d)
    BY <1>4, OtherQueues DEF Held
  <2> QED
    BY <2>1, <2>2
<1>5. ASSUME NEW c \in Clients, Writer(c) PROVE Numbering'
  <2>1. posts' = posts /\ todo' = todo /\ posting' = posting
    BY <1>5 DEF Writer, Receive, WriteDelivers, WriteFails, WriterStops, CloseConn
  <2>2. \A d \in Clients : Held(d)' \subseteq Held(d)
    BY <1>5, WriterQueues DEF Held
  <2> QED
    BY <2>1, <2>2
<1>6. CASE UNCHANGED vars
  BY <1>6 DEF vars, Held
<1> QED
  BY <1>1, <1>2, <1>3, <1>4, <1>5, <1>6 DEF Next, Serve

LEMMA OrderStep == IInv /\ [Next]_vars => QueuesInOrder'
<1> SUFFICES ASSUME TypeOK, Locking, Numbering, QueuesInOrder, [Next]_vars
             PROVE  QueuesInOrder'
  BY DEF IInv
<1> USE DEF QueuesInOrder
<1>1. CASE \/ \E p \in Posters : Broadcast(p) \/ BroadcastReturn(p)
           \/ \E c \in Clients : Connection(c)
           \/ UNCHANGED vars
  BY <1>1, OtherQueues
<1>2. ASSUME NEW p \in Posters, NEW c \in Clients, Visit(p, c) PROVE QueuesInOrder'
  <2> DEFINE e == posting[p][1]
  <2>1. delivered' = delivered /\ inflight' = inflight
    BY <1>2 DEF Visit
  <2>2. e \in Events /\ c \in todo[p] /\ e.from = p /\ e.seq = posts[p]
    BY <1>2, Posted DEF Visit, Numbering
  <2>3. \A f \in Held(c) : Before(f, e)
    BY <2>2 DEF Numbering, Before
  <2>4. CASE send' = send
    BY <2>1, <2>4
  <2>5. CASE send' = [send EXCEPT ![c] = Append(@, e)]
    <3>1. /\ send'[c] = Append(send[c], e) /\ send[c] \in Seq(Events)
          /\ \A d \in Clients \ {c} : send'[d] = send[d]
      BY <2>5 DEF TypeOK
    <3>2. Elems(send'[c]) = Elems(send[c]) \cup {e}
      BY <2>2, <3>1, ElemsAppend
    <3>3. Ordered(send'[c])
      BY <2>2, <2>3, <3>1, OrderedAppend DEF Precedes, Held
    <3>4. /\ Precedes(Elems(delivered[c]), Elems(send'[c]))
          /\ Precedes(Elems(inflight[c]), Elems(send'[c]))
      BY <2>3, <3>2 DEF Precedes, Held
    <3> QED
      BY <2>1, <3>1, <3>3, <3>4
  <2> QED
    BY <1>2, <2>4, <2>5 DEF Visit, Enqueue
<1>3. ASSUME NEW c \in Clients, Writer(c) PROVE QueuesInOrder'
  <2> SUFFICES /\ Ordered(delivered'[c]) /\ Ordered(send'[c])
               /\ Precedes(Elems(delivered'[c]), Elems(inflight'[c]))
               /\ Precedes(Elems(delivered'[c]), Elems(send'[c]))
               /\ Precedes(Elems(inflight'[c]), Elems(send'[c]))
    BY <1>3, WriterQueues
  <2>0. /\ delivered[c] \in Seq(Events) /\ inflight[c] \in Seq(Events)
        /\ send[c] \in Seq(Events)
    BY DEF TypeOK
  <2>1. CASE Receive(c)
    <3>1. /\ delivered'[c] = delivered[c] /\ inflight'[c] = <<Head(send[c])>>
          /\ send'[c] = Tail(send[c]) /\ send[c] # <<>>
      BY <2>1 DEF Receive, TypeOK
    <3>2. /\ Elems(send[c]) = {Head(send[c])} \cup Elems(Tail(send[c]))
          /\ Elems(inflight'[c]) = {Head(send[c])}
      BY <2>0, <3>1, ElemsTail, ElemsSingle
    <3>3. Ordered(Tail(send[c])) /\ Precedes({Head(send[c])}, Elems(Tail(send[c])))
      BY <2>0, <3>1, OrderedTail
    <3> QED
      BY <3>1, <3>2, <3>3 DEF Precedes
  <2>2. CASE WriteDelivers(c)
    <3>1. /\ delivered'[c] = delivered[c] \o inflight[c] /\ inflight'[c] = <<>>
          /\ send'[c] = send[c]
      BY <2>2 DEF WriteDelivers, TypeOK
    <3>2. Elems(delivered'[c]) = Elems(delivered[c]) \cup Elems(inflight[c])
      BY <2>0, <3>1, ElemsConcat
    <3>3. Ordered(delivered'[c])
      <4>1. Len(inflight[c]) = 1
        BY <2>2 DEF WriteDelivers, TypeOK
      <4>2. Ordered(inflight[c])
        BY <2>0, <4>1, OrderedShort
      <4> QED
        BY <2>0, <3>1, <4>2, OrderedConcat
    <3>4. Elems(inflight'[c]) = {}
      BY <3>1, ElemsEmpty
    <3> QED
      BY <3>1, <3>2, <3>3, <3>4 DEF Precedes
  <2>3. CASE WriteFails(c)
    <3>1. delivered' = delivered /\ inflight'[c] = <<>> /\ send' = send
      BY <2>3 DEF WriteFails, TypeOK
    <3>2. Elems(inflight'[c]) = {}
      BY <3>1, ElemsEmpty
    <3> QED
      BY <3>1, <3>2 DEF Precedes
  <2>4. CASE WriterStops(c) \/ CloseConn(c)
    BY <2>4 DEF WriterStops, CloseConn
  <2> QED
    BY <1>3, <2>1, <2>2, <2>3, <2>4 DEF Writer
<1> QED
  BY <1>1, <1>2, <1>3 DEF Next, Serve

LEMMA ServedStep == IInv /\ [Next]_vars => Served'
<1> SUFFICES ASSUME TypeOK, Locking, Numbering, Served, [Next]_vars
             PROVE  Served'
  BY DEF IInv
<1>0. posting \in [Posters -> Seq(Events)] /\ todo \in [Posters -> SUBSET Clients]
  BY DEF TypeOK
<1>1. ASSUME NEW p \in Posters, Broadcast(p) PROVE Served'
  <2>1. /\ todo' = [todo EXCEPT ![p] = clients] /\ clients' = clients
        /\ writer' = writer /\ lost' = lost
        /\ \A q \in Posters \ {p} : posting'[q] = posting[q]
    BY <1>0, <1>1 DEF Broadcast, client
  <2>2. \A c \in Clients : Held(c)' = Held(c)
    BY <1>1, OtherQueues DEF Held
  <2>3. clients' \ todo'[p] = {} /\ \A q \in Posters \ {p} : todo'[q] = todo[q]
    BY <1>0, <2>1
  <2> QED
    BY <2>1, <2>2, <2>3 DEF Served, Addressed, TypeOK
<1>2. ASSUME NEW p \in Posters, NEW c \in Clients, Visit(p, c) PROVE Served'
  <2> DEFINE e == posting[p][1]
  <2>1. /\ todo' = [todo EXCEPT ![p] = @ \ {c}] /\ c \in todo[p]
        /\ clients' = clients /\ writer' = writer /\ posting' = posting
    BY <1>2 DEF Visit, client
  <2>2. /\ todo'[p] = todo[p] \ {c}
        /\ \A q \in Posters \ {p} : todo'[q] = todo[q]
    BY <1>0, <2>1
  <2>3. /\ \A d \in Clients \ {c} : Held(d)' = Held(d)
        /\ lost \subseteq lost'
        /\ \/ Addressed(c, e) /\ Held(c)' = Held(c) \cup {e}
           \/ Addressed(c, e) /\ Held(c)' = Held(c) /\ <<c, e>> \in lost'
           \/ ~Addressed(c, e) /\ Held(c)' = Held(c)
    BY <1>2, VisitQueues
  <2>4. e.from = p /\ e.seq = posts[p] /\ posts[p] \in Nat
    BY <1>2, <2>1, Posted DEF Numbering, TypeOK
  <2>5. e \notin Held(c)
    BY <2>1, <2>4 DEF Numbering
  <2> SUFFICES ASSUME NEW q \in Posters, NEW d \in clients' \ todo'[q], posting'[q] # <<>>
               PROVE  IF Addressed(d, posting[q][1])
                      THEN \/ posting[q][1] \in Held(d)'
                           \/ <<d, posting[q][1]>> \in lost'
                           \/ writer'[d] \in {"closing", "done"}
                      ELSE posting[q][1] \notin Held(d)'
    BY <2>1 DEF Served, Addressed
  <2>6. d \in Clients /\ d \in clients /\ posting[q] # <<>>
    BY <2>1 DEF TypeOK
  <2>7. CASE q = p /\ d = c
    BY <2>3, <2>5, <2>7
  <2>8. CASE q = p /\ d # c
    <3>1. d \in clients \ todo[q] /\ Held(d)' = Held(d)
      BY <2>2, <2>3, <2>6, <2>8
    <3> QED
      BY <2>1, <2>3, <2>6, <3>1 DEF Served
  <2>9. CASE q # p
    <3>1. d \in clients \ todo[q]
      BY <2>2, <2>6, <2>9
    <3>2. posting[q][1].from = q
      BY <2>6 DEF Numbering
    <3>3. posting[q][1] # e
      BY <2>4, <2>9, <3>2
    <3>4. Held(d)' \subseteq Held(d) \cup {e} /\ Held(d) \subseteq Held(d)'
      BY <2>3, <2>6
    <3> QED
      BY <2>1, <2>3, <2>6, <3>1, <3>3, <3>4 DEF Served
  <2> QED
    BY <2>7, <2>8, <2>9
<1>3. ASSUME NEW p \in Posters, BroadcastReturn(p) PROVE Served'
  <2>1. /\ todo' = todo /\ clients' = clients /\ writer' = writer /\ lost' = lost
        /\ \A q \in Posters \ {p} : posting'[q] = posting[q]
        /\ posting'[p] = <<>>
    BY <1>0, <1>3 DEF BroadcastReturn, client
  <2>2. \A c \in Clients : Held(c)' = Held(c)
    BY <1>3, OtherQueues DEF Held
  <2> SUFFICES ASSUME NEW q \in Posters, NEW c \in clients \ todo[q], posting'[q] # <<>>
               PROVE  IF Addressed(c, posting'[q][1])
                      THEN \/ posting'[q][1] \in Held(c)'
                           \/ <<c, posting'[q][1]>> \in lost'
                           \/ writer'[c] \in {"closing", "done"}
                      ELSE posting'[q][1] \notin Held(c)'
    BY <2>1 DEF Served, Addressed
  <2>3. q # p /\ posting'[q] = posting[q] /\ c \in Clients
    BY <2>1 DEF TypeOK
  <2> QED
    BY <2>1, <2>2, <2>3 DEF Served
<1>4. ASSUME NEW c \in Clients, Connection(c) PROVE Served'
  <2>1. todo' = todo /\ posting' = posting /\ lost' = lost
    BY <1>4 DEF Connection, Accept, Register, StartWriter, ReadFails, Unregister, PeerLeaves
  <2>2. \A d \in Clients : Held(d)' = Held(d)
    BY <1>4, OtherQueues DEF Held
  <2>3. CASE NoReader
    BY <2>1, <2>3 DEF NoReader, Served
  <2>4. CASE clients' = clients /\ writer' = writer
    BY <2>1, <2>2, <2>4 DEF Served, Addressed, TypeOK
  <2>5. CASE StartWriter(c)
    <3>1. clients' = clients /\ writer[c] = "none" /\ writer' = [writer EXCEPT ![c] = "select"]
      BY <2>5 DEF StartWriter, Locking
    <3>2. \A d \in Clients : writer[d] \in {"closing", "done"} => writer'[d] = writer[d]
      BY <3>1 DEF TypeOK
    <3> QED
      BY <2>1, <2>2, <3>1, <3>2 DEF Served, Addressed, TypeOK
  <2>6. CASE Register(c) \/ Unregister(c)
    BY <2>3, <2>6 DEF Register, Unregister
  <2>7. CASE Accept(c) \/ ReadFails(c) \/ PeerLeaves(c)
    BY <2>4, <2>7 DEF Accept, ReadFails, PeerLeaves
  <2> QED
    BY <1>4, <2>5, <2>6, <2>7 DEF Connection
<1>5. ASSUME NEW c \in Clients, Writer(c) PROVE Served'
  <2>1. todo' = todo /\ posting' = posting /\ lost' = lost /\ clients' = clients
    BY <1>5 DEF Writer, Receive, WriteDelivers, WriteFails, WriterStops, CloseConn
  <2>2. \A d \in Clients :
          /\ Held(d)' \subseteq Held(d)
          /\ Held(d)' = Held(d) \/ writer'[d] = "closing"
          /\ writer[d] \in {"closing", "done"} => writer'[d] \in {"closing", "done"}
    BY <1>5, WriterQueues DEF Held
  <2> SUFFICES ASSUME NEW q \in Posters, NEW d \in clients \ todo[q], posting[q] # <<>>
               PROVE  IF Addressed(d, posting[q][1])
                      THEN \/ posting[q][1] \in Held(d)'
                           \/ <<d, posting[q][1]>> \in lost'
                           \/ writer'[d] \in {"closing", "done"}
                      ELSE posting[q][1] \notin Held(d)'
    BY <2>1 DEF Served, Addressed
  <2>3. d \in Clients
    BY DEF TypeOK
  <2> QED
    BY <2>1, <2>2, <2>3 DEF Served
<1>6. CASE UNCHANGED vars
  BY <1>6 DEF vars, client, Served, Addressed, Held
<1> QED
  BY <1>1, <1>2, <1>3, <1>4, <1>5, <1>6 DEF Next, Serve

-----------------------------------------------------------------------------
(* The theorems.                                                           *)

(* The invariant that the properties of the hub follow from.               *)
THEOREM Inductive == Spec => []IInv
<1>1. IInv /\ [Next]_vars => IInv'
  BY TypeStep, LockingStep, NumberingStep, OrderStep, ServedStep DEF IInv
<1> QED
  BY Initially, <1>1, PTL DEF Spec

(* Types, and the bounds of the channels (wsClient, make(chan, 64)).        *)
THEOREM TypeCorrect == Spec => []TypeOK
<1>1. IInv => TypeOK
  BY DEF IInv
<1> QED
  BY Inductive, <1>1, PTL

(* Broadcast never sends on a channel that unregister has closed.          *)
THEOREM NoPanic == Spec => []NoSendOnClosed
<1>1. IInv => NoSendOnClosed
  BY DEF IInv, Locking, NoSendOnClosed, TypeOK
<1> QED
  BY Inductive, <1>1, PTL

(* A client receives the events of one API connection in their order.      *)
THEOREM Order == Spec => []EventsInOrder
<1>1. IInv => EventsInOrder
  <2> SUFFICES ASSUME IInv, NEW c \in Clients PROVE Ordered(Stream(c))
    BY DEF EventsInOrder, Ordered, Before
  <2>1. /\ delivered[c] \in Seq(Events) /\ inflight[c] \in Seq(Events)
        /\ send[c] \in Seq(Events)
    BY DEF IInv, TypeOK
  <2>2. Len(inflight[c]) = 0 \/ Len(inflight[c]) = 1
    BY DEF IInv, TypeOK
  <2>3. Ordered(inflight[c])
    <3>1. CASE Len(inflight[c]) = 0
      BY <3>1 DEF Ordered
    <3> QED
      BY <2>2, <3>1, OrderedShort
  <2>4. Ordered(delivered[c] \o inflight[c])
    BY <2>1, <2>3, OrderedConcat DEF IInv, QueuesInOrder
  <2>5. /\ delivered[c] \o inflight[c] \in Seq(Events)
        /\ Elems(delivered[c] \o inflight[c]) = Elems(delivered[c]) \cup Elems(inflight[c])
    BY <2>1, ElemsConcat
  <2>6. Precedes(Elems(delivered[c] \o inflight[c]), Elems(send[c]))
    BY <2>5 DEF IInv, QueuesInOrder, Precedes
  <2>7. Ordered((delivered[c] \o inflight[c]) \o send[c])
    BY <2>1, <2>4, <2>5, <2>6, OrderedConcat DEF IInv, QueuesInOrder
  <2> QED
    BY <2>7 DEF Stream
<1> QED
  BY Inductive, <1>1, PTL

(* A broadcast reaches everybody it is addressed to and nobody else, but   *)
(* for full buffers and connections that are closing.                      *)
THEOREM Audience == Spec => []AudienceServed
<1>1. IInv => AudienceServed
  <2> SUFFICES ASSUME IInv PROVE AudienceServed
    OBVIOUS
  <2>1. ASSUME NEW c \in Clients PROVE Elems(Stream(c)) = Held(c)
    <3>1. /\ delivered[c] \in Seq(Events) /\ inflight[c] \in Seq(Events)
          /\ send[c] \in Seq(Events) /\ delivered[c] \o inflight[c] \in Seq(Events)
      BY DEF IInv, TypeOK
    <3>2. Elems(delivered[c] \o inflight[c]) = Elems(delivered[c]) \cup Elems(inflight[c])
      BY <3>1, ElemsConcat
    <3>3. PICK s \in Seq(Events) : s = delivered[c] \o inflight[c]
      BY <3>1
    <3>4. Elems(s \o send[c]) = Elems(s) \cup Elems(send[c])
      BY <3>1, ElemsConcat
    <3> QED
      BY <3>2, <3>3, <3>4 DEF Stream, Held
  <2>2. \A c \in Clients : \A e : e \in Held(c) <=> \E i \in 1..Len(Stream(c)) : Stream(c)[i] = e
    BY <2>1 DEF Elems
  <2>3. clients \subseteq Clients /\ Served
    BY DEF IInv, TypeOK
  <2> QED
    BY <2>2, <2>3 DEF Served, AudienceServed
<1> QED
  BY Inductive, <1>1, PTL
=============================================================================
