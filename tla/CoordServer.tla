------------------------------ MODULE CoordServer -----------------------------
(***************************************************************************)
(* The coordination server's agents, presence and reservations             *)
(* (internal/server/server.go and store.go).  Requests run in goroutines   *)
(* of their own over a database with one connection: every SQL statement   *)
(* is atomic, and nothing else is.  A handler authenticates its agent in   *)
(* one statement, looks at what is there in another, and writes in a third *)
(* one, or in several.                                                     *)
(*                                                                         *)
(* Tokens and reservations are numbered in the order of their inserts, and *)
(* a request remembers (upto) the last number when it looked: so the       *)
(* properties can tell a request that came after another one from two that *)
(* raced.  For a reservation this is its ID; the tokens' numbers, issued   *)
(* and cut are history.                                                    *)
(*                                                                         *)
(* The server has no local identity: its local token stands for _local,    *)
(* which is no agent.                                                      *)
(*                                                                         *)
(* Left out: mail, aliases, rooms, checkpoints and the issue index, which  *)
(* share no table with these; queries; the broadcasts (module Hub).        *)
(***************************************************************************)
EXTENDS Naturals, FiniteSets

CONSTANTS
  Clients,         \* what sends requests, one at a time
  Names,           \* agent names
  Local,           \* _local
  Patterns,        \* what is reserved
  Matches,         \* <<p, q>>: the glob p, as filepath.Match has it, matches q
  MaxTokens,       \* bound on registrations
  MaxReservations  \* bound on reservations

ASSUME CoordServerAssumption ==
  /\ Local \notin Names /\ IsFiniteSet(Names) /\ IsFiniteSet(Patterns)
  /\ Matches \subseteq Patterns \X Patterns
  /\ \A p \in Patterns : <<p, p>> \in Matches
  /\ MaxTokens \in Nat /\ MaxReservations \in Nat

VARIABLES
  agents,   \* per name: its row
  resv,     \* the reservations that are neither released nor expired
  lastId,   \* the ID of the last one made
  req,      \* per client: its request
  issued,   \* the tokens that were given out
  cut       \* per name: how many there were when it was last revoked

vars == <<agents, resv, lastId, req, issued, cut>>

(* online: the status is not "offline".  fresh: last_seen is not so old    *)
(* that the reaper takes it.                                               *)
Agent == [row : BOOLEAN, token : Nat, revoked : BOOLEAN, online : BOOLEAN, fresh : BOOLEAN]

Unknown == [row |-> FALSE, token |-> 0, revoked |-> FALSE, online |-> FALSE, fresh |-> FALSE]

Callers == Names \cup {Local}

Reservation == [id : Nat, holder : Callers, pattern : Patterns, upto : Nat]

Token == [name : Names, tok : Nat, upto : Nat]

(* What a request is about to do, for whom, and what it has learnt.        *)
Idle == [op |-> "idle"]

Request ==
  {Idle}
  \cup [op : {"reinstate", "create"}, name : Names, upto : Nat]
  \cup [op : {"heartbeat"}, who : Names, online : BOOLEAN]
  \cup [op : {"check"}, who : Callers, patterns : SUBSET Patterns]
  \cup [op : {"reserve"}, who : Callers, patterns : SUBSET Patterns, upto : Nat]

Init ==
  /\ agents = [n \in Names |-> Unknown]
  /\ resv = {} /\ lastId = 0 /\ req = [c \in Clients |-> Idle]
  /\ issued = {} /\ cut = [n \in Names |-> 0]

Last == Cardinality(issued)

Doing(c, op) == req[c].op = op

-----------------------------------------------------------------------------
(* Faulty variants, unused.                                                *)

(* Presence is updated whatever became of the agent.                       *)
PresentAlways(n) == agents[n].row

(* Only what is reserved is taken for a glob, not what is asked for.       *)
ConflictsOneWay(who, patterns) ==
  \E r \in resv : /\ r.holder # who
                  /\ \E p \in patterns : <<r.pattern, p>> \in Matches

(* An active agent can register again.                                     *)
MayRegisterAgain(n) == TRUE

(* The comparison with the cutoff is the wrong way round.                  *)
ReapableRecent(n) == agents[n].online /\ agents[n].fresh /\ ~agents[n].revoked

-----------------------------------------------------------------------------
(* Agents.                                                                 *)

(* A registration of a name that is in use is refused.                     *)
MayRegister(n) == ~agents[n].row \/ agents[n].revoked

(* handleAgentRegister looks the name up ...                               *)
RegisterLookup(c, n) ==
  /\ Doing(c, "idle") /\ Last < MaxTokens /\ MayRegister(n)
  /\ req' = [req EXCEPT ![c] = [op |-> IF agents[n].row THEN "reinstate" ELSE "create",
                                name |-> n, upto |-> Last]]
  /\ UNCHANGED <<agents, resv, lastId, issued, cut>>

(* ... and answers with a new token.                                       *)
Register(c, row) ==
  LET n == req[c].name IN
    /\ Last < MaxTokens
    /\ agents' = [agents EXCEPT ![n] = row]
    /\ issued' = issued \cup {[name |-> n, tok |-> Last + 1, upto |-> req[c].upto]}
    /\ req' = [req EXCEPT ![c] = Idle]
    /\ UNCHANGED <<resv, lastId, cut>>

(* CreateAgent: the insert fails if the name was taken meanwhile (Drop).   *)
CreateAgent(c) ==
  /\ Doing(c, "create") /\ ~agents[req[c].name].row
  /\ Register(c, [row |-> TRUE, token |-> Last + 1, revoked |-> FALSE,
                  online |-> FALSE, fresh |-> FALSE])

(* ReinstateAgent: whatever became of the row.                             *)
ReinstateAgent(c) ==
  /\ Doing(c, "reinstate")
  /\ Register(c, [row |-> TRUE, token |-> Last + 1, revoked |-> FALSE,
                  online |-> FALSE, fresh |-> TRUE])

Works(t) ==
  agents[t.name].row /\ ~agents[t.name].revoked /\ agents[t.name].token = t.tok

(* authenticate: by a token that works now, or by the local one, which is  *)
(* looked up nowhere.                                                      *)
Authentic(n) == n = Local \/ \E t \in issued : t.name = n /\ Works(t)

Authenticate(c, r) ==
  /\ Doing(c, "idle") /\ req' = [req EXCEPT ![c] = r]
  /\ UNCHANGED <<agents, resv, lastId, issued, cut>>

BeginRequest(c) ==
  \/ \E n \in Names, b \in BOOLEAN :
       Authentic(n) /\ Authenticate(c, [op |-> "heartbeat", who |-> n, online |-> b])
  \/ \E who \in Callers, ps \in SUBSET Patterns \ {{}} :
       Authentic(who) /\ Authenticate(c, [op |-> "check", who |-> who, patterns |-> ps])

(* RevokeAgent.  Whoever asks for it: the local token can, at any moment.  *)
Revoke(n) ==
  /\ agents[n].row /\ ~agents[n].revoked
  /\ agents' = [agents EXCEPT ![n].revoked = TRUE, ![n].online = FALSE]
  /\ cut' = [cut EXCEPT ![n] = Last]
  /\ UNCHANGED <<resv, lastId, req, issued>>

(* A request ends with nothing more done: the row it wants is not there, a *)
(* statement fails, the client leaves, the server stops.                   *)
Drop(c) ==
  /\ ~Doing(c, "idle") /\ req' = [req EXCEPT ![c] = Idle]
  /\ UNCHANGED <<agents, resv, lastId, issued, cut>>

-----------------------------------------------------------------------------
(* Presence.                                                               *)

Present(n) == agents[n].row /\ ~agents[n].revoked

(* UpdatePresence                                                          *)
Heartbeat(c) ==
  LET n == req[c].who IN
    /\ Doing(c, "heartbeat")
    /\ agents' = IF Present(n)
                 THEN [agents EXCEPT ![n].online = req[c].online, ![n].fresh = TRUE]
                 ELSE agents
    /\ req' = [req EXCEPT ![c] = Idle]
    /\ UNCHANGED <<resv, lastId, issued, cut>>

(* Time passes without a heartbeat.                                        *)
GrowStale(n) ==
  /\ agents[n].fresh /\ agents' = [agents EXCEPT ![n].fresh = FALSE]
  /\ UNCHANGED <<resv, lastId, req, issued, cut>>

(* ReapOfflineAgents                                                       *)
Reapable(n) == agents[n].online /\ ~agents[n].fresh /\ ~agents[n].revoked

Reap ==
  /\ agents' = [n \in Names |->
                  IF Reapable(n) THEN [agents[n] EXCEPT !.online = FALSE] ELSE agents[n]]
  /\ UNCHANGED <<resv, lastId, req, issued, cut>>

-----------------------------------------------------------------------------
(* Reservations.                                                           *)

(* CheckConflicts: whether either is exclusive does not matter.            *)
Conflicts(who, patterns) ==
  \E r \in resv : /\ r.holder # who
                  /\ \E p \in patterns : {<<r.pattern, p>>, <<p, r.pattern>>} \cap Matches # {}

(* handleReservationCreate checks all patterns at once.  When the check    *)
(* fails its error is ignored, and nothing was seen.                       *)
Check(c) ==
  /\ Doing(c, "check")
  /\ \E upto \in {0, lastId} :
       /\ upto = lastId => ~Conflicts(req[c].who, req[c].patterns)
       /\ req' = [req EXCEPT ![c] = [op |-> "reserve", who |-> req[c].who,
                                     patterns |-> req[c].patterns, upto |-> upto]]
  /\ UNCHANGED <<agents, resv, lastId, issued, cut>>

(* Then it reserves them one by one.                                       *)
CreateReservation(c) ==
  /\ Doing(c, "reserve") /\ lastId < MaxReservations
  /\ lastId' = lastId + 1
  /\ \E p \in req[c].patterns :
       /\ resv' = resv \cup {[id |-> lastId + 1, holder |-> req[c].who, pattern |-> p,
                              upto |-> req[c].upto]}
       /\ req' = [req EXCEPT ![c] = IF req[c].patterns = {p} THEN Idle
                                    ELSE [req[c] EXCEPT !.patterns = @ \ {p}]]
  /\ UNCHANGED <<agents, issued, cut>>

(* ReleaseReservation, for whoever knows the ID; or expires_at is over.    *)
End(r) ==
  /\ resv' = resv \ {r}
  /\ UNCHANGED <<agents, lastId, req, issued, cut>>

-----------------------------------------------------------------------------
Next ==
  \/ Reap
  \/ \E n \in Names : GrowStale(n) \/ Revoke(n)
  \/ \E r \in resv : End(r)
  \/ \E c \in Clients :
       \/ \E n \in Names : RegisterLookup(c, n)
       \/ CreateAgent(c) \/ ReinstateAgent(c)
       \/ BeginRequest(c) \/ Drop(c) \/ Heartbeat(c)
       \/ Check(c) \/ CreateReservation(c)

Spec == Init /\ [][Next]_vars

(* Time passes, and the reaper's ticker ticks.                             *)
FairSpec ==
  /\ Spec /\ WF_vars(Reap)
  /\ \A n \in Names : WF_vars(GrowStale(n))

-----------------------------------------------------------------------------
(* Properties.                                                             *)

(* Types, and an agent that was revoked is offline, whatever heartbeats of *)
(* its were under way.                                                     *)
TypeOK ==
  /\ agents \in [Names -> Agent] /\ resv \subseteq Reservation /\ lastId \in Nat
  /\ req \in [Clients -> Request] /\ issued \subseteq Token /\ cut \in [Names -> Nat]
  /\ \A n \in Names : agents[n].revoked => ~agents[n].online

(* Two agents hold reservations one of which matches the other only if     *)
(* their requests raced: the later one had checked, if its check worked at *)
(* all, before the other's insert.                                         *)
Overlap(r, s) == {<<r.pattern, s.pattern>>, <<s.pattern, r.pattern>>} \cap Matches # {}

NoConflictUnlessRaced ==
  \A r, s \in resv :
    r.holder # s.holder /\ Overlap(r, s) /\ r.id < s.id
      => s.upto < r.id

(* The token that a registration was answered with works until its agent   *)
(* is revoked, unless another registration of the name raced with it.      *)
TokenWorksUnlessRaced ==
  \A t \in issued :
    Works(t) \/ cut[t.name] >= t.tok
      \/ \E u \in issued : u.name = t.name /\ u.upto < t.tok /\ t.tok < u.tok

(* An agent that does not send heartbeats for ever ends up offline.        *)
HeartbeatOf(n) == \E c \in Clients : Heartbeat(c) /\ req[c].who = n

SilentGoesOffline ==
  \A n \in Names :
    []<><<HeartbeatOf(n)>>_vars \/ <>[]~agents[n].online
=============================================================================
