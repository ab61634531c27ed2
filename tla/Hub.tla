--------------------------------- MODULE Hub ---------------------------------
(***************************************************************************)
(* The WebSocket hub of the coordination server (internal/server/ws.go).   *)
(* Request handlers broadcast events under the read lock of the hub; each  *)
(* connected client has a buffered channel, a goroutine that writes the    *)
(* channel to the connection, and a handler that reads the connection,     *)
(* registers the client before and unregisters it after.                   *)
(*                                                                         *)
(* The read lock is held by the posters whose `posting` is set; the write  *)
(* lock is taken and released within Register and Unregister, which touch  *)
(* the hub only.  A connection is "open" until the peer leaves, a read or  *)
(* a write fails, or the writer closes it.  A peer may stop reading for    *)
(* ever: nothing makes WriteDelivers happen.  The context of a handler is  *)
(* cancelled exactly when the handler has left its read loop.  Refused     *)
(* upgrades (no valid token, no WebSocket) leave no trace in the hub.      *)
(***************************************************************************)
EXTENDS Naturals, Sequences

CONSTANTS
  Clients,    \* connections; each is used once, as every wsClient is
  Agents,
  AgentOf,    \* the agent a connection authenticated as
  Posters,    \* goroutines that serve API connections, one request at a time
  BufferSize, \* capacity of wsClient.send
  Targets,    \* the Targets that events have: agents, or Everyone
  MaxPosts    \* MaxPosts[p]: bound on the events of poster p

Everyone == "everyone"   \* the empty Target

ASSUME HubAssumption ==
  /\ AgentOf \in [Clients -> Agents]
  /\ Everyone \notin Agents
  /\ Targets \subseteq Agents \cup {Everyone}
  /\ BufferSize \in Nat \ {0}
  /\ MaxPosts \in [Posters -> Nat]

VARIABLES
  clients,    \* h.clients
  handler,    \* handler[c]: where handleWebSocket is
  writer,     \* writer[c]: where the writing goroutine is
  conn,       \* conn[c]: "none", "open", "closed"
  send,       \* send[c]: the contents of the channel
  closed,     \* clients whose channel is closed
  inflight,   \* inflight[c]: the event being written, or <<>>
  posting,    \* posting[p]: the event p broadcasts, or <<>>
  todo,       \* todo[p]: clients that p's range loop has yet to visit
  posts,      \* posts[p]: events p has broadcast so far
  \* history: what was written to each connection; events dropped
  delivered, lost

client == <<handler, writer, conn>>
vars == <<clients, client, send, closed, inflight, posting, todo, posts,
          delivered, lost>>

Events == [from: Posters, seq: Nat \ {0}, target: Targets]

Init ==
  /\ clients = {} /\ closed = {} /\ lost = {}
  /\ handler = [c \in Clients |-> "none"]
  /\ writer = [c \in Clients |-> "none"]
  /\ conn = [c \in Clients |-> "none"]
  /\ send = [c \in Clients |-> <<>>]
  /\ inflight = [c \in Clients |-> <<>>]
  /\ delivered = [c \in Clients |-> <<>>]
  /\ posting = [p \in Posters |-> <<>>]
  /\ todo = [p \in Posters |-> {}]
  /\ posts = [p \in Posters |-> 0]

NoReader == \A p \in Posters : posting[p] = <<>>
Cancelled(c) == handler[c] \in {"leaving", "gone"}

-----------------------------------------------------------------------------
(* Broadcast: a request handler holds the read lock and visits the clients *)
(* in the order of a map, which is any order.                              *)

Broadcast(p) ==
  /\ posting[p] = <<>> /\ posts[p] < MaxPosts[p]
  /\ posts' = [posts EXCEPT ![p] = @ + 1]
  /\ \E t \in Targets :
       posting' = [posting EXCEPT ![p] = <<[from |-> p, seq |-> posts[p] + 1, target |-> t]>>]
  /\ todo' = [todo EXCEPT ![p] = clients]
  /\ UNCHANGED <<clients, client, send, closed, inflight, delivered, lost>>

Addressed(c, e) == e.target \in {Everyone, AgentOf[c]}

(* Mutants: the buffer without a bound; a send that waits for room.        *)
EnqueueUnbounded(c, e) ==
  send' = [send EXCEPT ![c] = Append(@, e)] /\ UNCHANGED lost

EnqueueWaits(c, e) ==
  Len(send[c]) < BufferSize /\ EnqueueUnbounded(c, e)

(* `select { case c.send <- data: default: }`: never waits.                *)
Enqueue(c, e) ==
  IF Len(send[c]) < BufferSize
  THEN send' = [send EXCEPT ![c] = Append(@, e)] /\ UNCHANGED lost
  ELSE lost' = lost \cup {<<c, e>>} /\ UNCHANGED send

(* Mutant: `return` in place of `continue` for another agent's client.     *)
VisitEndsAtStranger(p, c) ==
  /\ c \in todo[p]
  /\ IF Addressed(c, posting[p][1])
     THEN Enqueue(c, posting[p][1]) /\ todo' = [todo EXCEPT ![p] = @ \ {c}]
     ELSE UNCHANGED <<send, lost>> /\ todo' = [todo EXCEPT ![p] = {}]
  /\ UNCHANGED <<clients, client, closed, inflight, posting, posts, delivered>>

Visit(p, c) ==
  /\ c \in todo[p]
  /\ todo' = [todo EXCEPT ![p] = @ \ {c}]
  /\ IF Addressed(c, posting[p][1])
     THEN Enqueue(c, posting[p][1])
     ELSE UNCHANGED <<send, lost>>
  /\ UNCHANGED <<clients, client, closed, inflight, posting, posts, delivered>>

BroadcastReturn(p) ==
  /\ posting[p] # <<>> /\ todo[p] = {}
  /\ posting' = [posting EXCEPT ![p] = <<>>]
  /\ UNCHANGED <<clients, client, send, closed, inflight, todo, posts, delivered, lost>>

-----------------------------------------------------------------------------
(* handleWebSocket: upgrade, register, start the writer, read until the    *)
(* connection fails, cancel the context, unregister.                       *)

Accept(c) ==
  /\ handler[c] = "none"
  /\ handler' = [handler EXCEPT ![c] = "accepted"]
  /\ conn' = [conn EXCEPT ![c] = "open"]
  /\ UNCHANGED <<clients, writer, send, closed, inflight, posting, todo, posts,
                 delivered, lost>>

Register(c) ==
  /\ handler[c] = "accepted" /\ NoReader
  /\ clients' = clients \cup {c}
  /\ handler' = [handler EXCEPT ![c] = "registered"]
  /\ UNCHANGED <<writer, conn, send, closed, inflight, posting, todo, posts,
                 delivered, lost>>

StartWriter(c) ==
  /\ handler[c] = "registered"
  /\ handler' = [handler EXCEPT ![c] = "reading"]
  /\ writer' = [writer EXCEPT ![c] = "select"]
  /\ UNCHANGED <<clients, conn, send, closed, inflight, posting, todo, posts,
                 delivered, lost>>

ReadFails(c) ==
  /\ handler[c] = "reading" /\ conn[c] = "closed"
  /\ handler' = [handler EXCEPT ![c] = "leaving"]
  /\ UNCHANGED <<clients, writer, conn, send, closed, inflight, posting, todo,
                 posts, delivered, lost>>

(* Mutant: the read lock in place of the write lock.                       *)
UnregisterUnderReadLock(c) ==
  /\ handler[c] = "leaving"
  /\ clients' = clients \ {c}
  /\ closed' = closed \cup {c}
  /\ handler' = [handler EXCEPT ![c] = "gone"]
  /\ UNCHANGED <<writer, conn, send, inflight, posting, todo, posts, delivered, lost>>

Unregister(c) ==
  /\ handler[c] = "leaving" /\ NoReader
  /\ clients' = clients \ {c}
  /\ closed' = IF c \in clients THEN closed \cup {c} ELSE closed
  /\ handler' = [handler EXCEPT ![c] = "gone"]
  /\ UNCHANGED <<writer, conn, send, inflight, posting, todo, posts, delivered, lost>>

-----------------------------------------------------------------------------
(* The writing goroutine of a client.  Leaving the loop runs the deferred  *)
(* conn.Close, which also ends the read of the handler.                    *)

Receive(c) ==
  /\ writer[c] = "select" /\ send[c] # <<>>
  /\ inflight' = [inflight EXCEPT ![c] = <<Head(send[c])>>]
  /\ send' = [send EXCEPT ![c] = Tail(@)]
  /\ writer' = [writer EXCEPT ![c] = "writing"]
  /\ UNCHANGED <<clients, handler, conn, closed, posting, todo, posts, delivered, lost>>

WriteDelivers(c) ==
  /\ writer[c] = "writing" /\ conn[c] = "open"
  /\ delivered' = [delivered EXCEPT ![c] = @ \o inflight[c]]
  /\ inflight' = [inflight EXCEPT ![c] = <<>>]
  /\ writer' = [writer EXCEPT ![c] = "select"]
  /\ UNCHANGED <<clients, handler, conn, send, closed, posting, todo, posts, lost>>

(* Mutant: a failed write is put back into the channel and tried again.    *)
WriteFailsRetries(c) ==
  /\ writer[c] = "writing" /\ Len(send[c]) < BufferSize
  /\ send' = [send EXCEPT ![c] = @ \o inflight[c]]
  /\ inflight' = [inflight EXCEPT ![c] = <<>>]
  /\ writer' = [writer EXCEPT ![c] = "select"]
  /\ UNCHANGED <<clients, handler, conn, closed, posting, todo, posts, delivered, lost>>

(* The connection is gone, the context is cancelled, or the write has not  *)
(* finished after ten seconds.                                             *)
WriteFails(c) ==
  /\ writer[c] = "writing"
  /\ inflight' = [inflight EXCEPT ![c] = <<>>]
  /\ writer' = [writer EXCEPT ![c] = "closing"]
  /\ UNCHANGED <<clients, handler, conn, send, closed, posting, todo, posts,
                 delivered, lost>>

(* Mutant: `break`, which leaves the select and not the loop.              *)
WriterStopsSelect(c) ==
  /\ writer[c] = "select"
  /\ Cancelled(c) \/ (c \in closed /\ send[c] = <<>>)
  /\ UNCHANGED vars

(* ctx.Done(), or the channel is closed and empty.                         *)
WriterStops(c) ==
  /\ writer[c] = "select"
  /\ Cancelled(c) \/ (c \in closed /\ send[c] = <<>>)
  /\ writer' = [writer EXCEPT ![c] = "closing"]
  /\ UNCHANGED <<clients, handler, conn, send, closed, inflight, posting, todo,
                 posts, delivered, lost>>

(* Mutant: no deferred conn.Close.                                         *)
CloseConnForgotten(c) ==
  /\ writer[c] = "closing"
  /\ writer' = [writer EXCEPT ![c] = "done"]
  /\ UNCHANGED <<clients, handler, conn, send, closed, inflight, posting, todo,
                 posts, delivered, lost>>

CloseConn(c) ==
  /\ writer[c] = "closing"
  /\ writer' = [writer EXCEPT ![c] = "done"]
  /\ conn' = [conn EXCEPT ![c] = "closed"]
  /\ UNCHANGED <<clients, handler, send, closed, inflight, posting, todo, posts,
                 delivered, lost>>

(* The peer or the network ends the connection, or sends what Read refuses. *)
PeerLeaves(c) ==
  /\ conn[c] = "open"
  /\ conn' = [conn EXCEPT ![c] = "closed"]
  /\ UNCHANGED <<clients, handler, writer, send, closed, inflight, posting, todo,
                 posts, delivered, lost>>

-----------------------------------------------------------------------------
Serve(p) == (\E c \in Clients : Visit(p, c)) \/ BroadcastReturn(p)
Connection(c) ==
  \/ Accept(c) \/ Register(c) \/ StartWriter(c) \/ ReadFails(c) \/ Unregister(c)
  \/ PeerLeaves(c)
Writer(c) ==
  \/ Receive(c) \/ WriteDelivers(c) \/ WriteFails(c) \/ WriterStops(c) \/ CloseConn(c)

Next ==
  \/ \E p \in Posters : Broadcast(p) \/ Serve(p)
  \/ \E c \in Clients : Connection(c) \/ Writer(c)

Spec == Init /\ [][Next]_vars

(* Every goroutine that can go on does.  A waiting writer of the RWMutex   *)
(* stops new readers, so it gets the lock although readers come and go:    *)
(* strong fairness.  A write ends, one way or the other, within its        *)
(* timeout.  Peers and requests may do nothing for ever.                   *)
Fairness ==
  /\ \A p \in Posters : WF_vars(Serve(p))
  /\ \A c \in Clients :
       /\ SF_vars(Register(c)) /\ SF_vars(Unregister(c))
       /\ WF_vars(StartWriter(c)) /\ WF_vars(ReadFails(c))
       /\ WF_vars(Writer(c))

FairSpec == Spec /\ Fairness

-----------------------------------------------------------------------------
TypeOK ==
  /\ clients \subseteq Clients /\ closed \subseteq Clients
  /\ handler \in [Clients -> {"none", "accepted", "registered", "reading", "leaving", "gone"}]
  /\ writer \in [Clients -> {"none", "select", "writing", "closing", "done"}]
  /\ conn \in [Clients -> {"none", "open", "closed"}]
  /\ send \in [Clients -> Seq(Events)]
  /\ \A c \in Clients : Len(send[c]) <= BufferSize
  /\ inflight \in [Clients -> Seq(Events)]
  /\ posting \in [Posters -> Seq(Events)]
  /\ \A c \in Clients : Len(inflight[c]) = (IF writer[c] = "writing" THEN 1 ELSE 0)
  /\ \A p \in Posters : Len(posting[p]) <= 1
  /\ todo \in [Posters -> SUBSET Clients]
  /\ posts \in [Posters -> Nat] /\ \A p \in Posters : posts[p] <= MaxPosts[p]
  /\ delivered \in [Clients -> Seq(Events)]
  /\ lost \subseteq Clients \X Events

(* Everything enqueued for c that was not discarded with its connection.   *)
Stream(c) == delivered[c] \o inflight[c] \o send[c]

(* Sending on a closed channel would panic: a broadcast in progress never  *)
(* has a client ahead of it whose channel is closed, because the channel   *)
(* is closed under the write lock, together with leaving h.clients.        *)
NoSendOnClosed ==
  \A p \in Posters : todo[p] \cap closed = {}

(* The requests of one API connection are served in turn, so a client sees *)
(* their events in the order of the requests, and each at most once.       *)
EventsInOrder ==
  \A c \in Clients : \A i, j \in 1..Len(Stream(c)) :
    /\ i < j
    /\ Stream(c)[i].from = Stream(c)[j].from
    => Stream(c)[i].seq < Stream(c)[j].seq

(* A broadcast skips nobody: a client that it has passed, whose writer is  *)
(* alive and to whom the event is addressed, has the event or had a full   *)
(* buffer.  A client to whom it is not addressed does not have it.         *)
AudienceServed ==
  \A p \in Posters : \A c \in clients \ todo[p] :
    posting[p] # <<>> =>
      LET e == posting[p][1]
          has == \E i \in 1..Len(Stream(c)) : Stream(c)[i] = e
      IN  IF Addressed(c, e)
          THEN has \/ <<c, e>> \in lost \/ writer[c] \in {"closing", "done"}
          ELSE ~has

(* A broadcast ends whatever the clients do, also when one of them never   *)
(* reads: handlers of other requests do not hang on it.                    *)
BroadcastReturns ==
  \A p \in Posters : posting[p] # <<>> ~> posting[p] = <<>>

(* A write that does not get through costs the client its registration:    *)
(* no connection stays in the hub that nobody writes to.                   *)
StuckPeerDropped ==
  \A c \in Clients :
    writer[c] = "writing" ~> writer[c] = "select" \/ handler[c] = "gone"

(* The writing goroutine does not outlive the connection's handler.        *)
WriterEnds ==
  \A c \in Clients : handler[c] = "gone" ~> writer[c] = "done"
=============================================================================
