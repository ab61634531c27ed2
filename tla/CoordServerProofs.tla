--------------------------- MODULE CoordServerProofs --------------------------
(***************************************************************************)
(* Safety of the coordination server's agents and reservations, for any    *)
(* number of clients, names and patterns, and whatever globs match.        *)
(*                                                                         *)
(* The inductive invariant adds to the three properties what a request     *)
(* still knows when it writes: that no token issued before it looked is    *)
(* good any more (Looked), and that no reservation made before it checked  *)
(* stands in its way (Checked); and that numbers are given out in order.   *)
(***************************************************************************)
EXTENDS CoordServer, FiniteSetTheorems, TLAPS

USE CoordServerAssumption

Spent(t) ==
  \/ cut[t.name] >= t.tok
  \/ \E u \in issued : u.name = t.name /\ u.upto < t.tok /\ t.tok < u.tok

Registering(c) == Doing(c, "reinstate") \/ Doing(c, "create")

Numbering ==
  /\ IsFiniteSet(issued)
  /\ \A t \in issued : t.tok <= Last
  /\ \A n \in Names : cut[n] <= Last
  /\ \A r \in resv : r.id >= 1 /\ r.id <= lastId

Looked ==
  \A c \in Clients : Registering(c) =>
    /\ req[c].upto <= Last
    /\ \A t \in issued : t.name = req[c].name /\ t.tok <= req[c].upto => Spent(t)

Clash(p, q) == {<<p, q>>, <<q, p>>} \cap Matches # {}

Checked ==
  \A c \in Clients : Doing(c, "reserve") =>
    /\ req[c].upto <= lastId
    /\ \A r \in resv : r.holder # req[c].who /\ r.id <= req[c].upto =>
         \A p \in req[c].patterns : ~Clash(r.pattern, p)

IInv ==
  /\ TypeOK /\ Numbering /\ Looked /\ Checked
  /\ NoConflictUnlessRaced /\ TokenWorksUnlessRaced

-----------------------------------------------------------------------------
(* What a request holds.                                                   *)

LEMMA Requests ==
  ASSUME TypeOK, NEW c \in Clients
  PROVE  /\ Registering(c) => req[c] \in [op : {"reinstate", "create"}, name : Names, upto : Nat]
         /\ Doing(c, "heartbeat") => req[c] \in [op : {"heartbeat"}, who : Names, online : BOOLEAN]
         /\ Doing(c, "check") => req[c] \in [op : {"check"}, who : Callers, patterns : SUBSET Patterns]
         /\ Doing(c, "reserve") =>
              req[c] \in [op : {"reserve"}, who : Callers, patterns : SUBSET Patterns, upto : Nat]
  BY DEF TypeOK, Request, Idle, Registering, Doing

LEMMA LastIsNat ==
  ASSUME Numbering PROVE Last \in Nat
  BY FS_CardinalityType DEF Numbering, Last

(* A new token is the next one.                                            *)
LEMMA NextToken ==
  ASSUME Numbering, TypeOK, NEW t \in Token, t.tok = Last + 1,
         issued' = issued \cup {t}
  PROVE  Last' = Last + 1 /\ IsFiniteSet(issued)'
<1>1. Last \in Nat
  BY LastIsNat
<1>2. t \notin issued
  BY <1>1 DEF Numbering, Token
<1> QED
  BY <1>1, <1>2, FS_AddElement DEF Numbering, Last

-----------------------------------------------------------------------------
LEMMA InitIInv == Init => IInv
<1> SUFFICES ASSUME Init PROVE IInv
  OBVIOUS
<1>1. IsFiniteSet(issued) /\ Last = 0
  BY FS_EmptySet DEF Init, Last
<1>2. TypeOK
  BY DEF Init, TypeOK, Agent, Unknown, Request, Idle
<1>3. \A c \in Clients : ~Registering(c) /\ ~Doing(c, "reserve")
  BY DEF Init, Registering, Doing, Idle
<1> QED
  BY <1>1, <1>2, <1>3 DEF Init, IInv, Numbering, Looked, Checked,
     NoConflictUnlessRaced, TokenWorksUnlessRaced

-----------------------------------------------------------------------------
(* Frames: steps that leave a part's variables alone.                      *)

LEMMA Frame ==
  ASSUME Numbering
  PROVE  /\ UNCHANGED <<issued, cut, resv, lastId>> => Numbering'
         /\ UNCHANGED issued => Last' = Last
         /\ UNCHANGED <<issued, cut>> => \A t : Spent(t)' <=> Spent(t)
  BY DEF Numbering, Last, Spent

(* One request becomes another one that is not registering or reserving.   *)
LEMMA RequestOnly ==
  ASSUME IInv, NEW c \in Clients, NEW r, req' = [req EXCEPT ![c] = r],
         r.op \notin {"reinstate", "create", "reserve"},
         UNCHANGED <<issued, cut, resv, lastId>>
  PROVE  Numbering' /\ Looked' /\ Checked' /\ NoConflictUnlessRaced'
<1>0. req'[c] = r /\ \A d \in Clients : d # c => req'[d] = req[d]
  BY DEF IInv, TypeOK
<1>1. Numbering' /\ Last' = Last /\ \A t : Spent(t)' <=> Spent(t)
  BY Frame DEF IInv
<1>2. Looked'
  BY <1>0, <1>1 DEF IInv, Looked, Registering, Doing
<1>3. Checked'
  BY <1>0 DEF IInv, Checked, Doing, Clash
<1>4. NoConflictUnlessRaced'
  BY DEF IInv, NoConflictUnlessRaced, Overlap
<1> QED
  BY <1>1, <1>2, <1>3, <1>4

(* Spent is for ever: revocations and registrations only add to it.        *)
LEMMA SpentStays ==
  ASSUME Numbering, issued \subseteq issued',
         \A n \in Names : cut'[n] = cut[n] \/ cut'[n] >= Last,
         NEW t \in issued, t \in Token, cut \in [Names -> Nat], cut' \in [Names -> Nat]
  PROVE  Spent(t) => Spent(t)'
<1>1. Last \in Nat /\ t.name \in Names /\ t.tok \in Nat
  BY LastIsNat DEF Token
<1>2. cut[t.name] >= t.tok => cut'[t.name] >= t.tok
  BY <1>1 DEF Numbering
<1> QED
  BY <1>1, <1>2 DEF Spent

-----------------------------------------------------------------------------
(* Registration.                                                           *)

(* When a name may be registered, all the tokens it had are spent.         *)
LEMMA LookupIInv ==
  ASSUME IInv, NEW c \in Clients, NEW n \in Names, RegisterLookup(c, n)
  PROVE  IInv'
<1> DEFINE r == [op |-> IF agents[n].row THEN "reinstate" ELSE "create",
                 name |-> n, upto |-> Last]
<1>0. /\ req' = [req EXCEPT ![c] = r] /\ req'[c] = r
      /\ \A d \in Clients : d # c => req'[d] = req[d]
      /\ UNCHANGED <<agents, resv, lastId, issued, cut>> /\ MayRegister(n)
  BY DEF IInv, TypeOK, RegisterLookup
<1>1. Last \in Nat /\ Numbering' /\ Last' = Last /\ \A t : Spent(t)' <=> Spent(t)
  BY <1>0, Frame, LastIsNat DEF IInv
<1>2. r \in Request
  BY <1>1 DEF Request
<1>3. TypeOK'
  BY <1>0, <1>2 DEF IInv, TypeOK
<1>4. \A t \in issued : t.name = n => Spent(t)
  BY <1>0 DEF IInv, TokenWorksUnlessRaced, Works, MayRegister, Spent
<1>5. Looked'
  <2> SUFFICES ASSUME NEW d \in Clients, Registering(d)'
               PROVE  /\ req'[d].upto <= Last'
                      /\ \A t \in issued' : t.name = req'[d].name /\ t.tok <= req'[d].upto => Spent(t)'
    BY DEF Looked
  <2>1. CASE d = c
    BY <1>0, <1>1, <1>4, <2>1
  <2>2. CASE d # c
    BY <1>0, <1>1, <2>2 DEF IInv, Looked, Registering, Doing
  <2> QED
    BY <2>1, <2>2
<1>6. Checked'
  BY <1>0 DEF IInv, Checked, Doing, Clash
<1>7. NoConflictUnlessRaced' /\ TokenWorksUnlessRaced'
  BY <1>0 DEF IInv, NoConflictUnlessRaced, Overlap, TokenWorksUnlessRaced, Works
<1> QED
  BY <1>1, <1>3, <1>5, <1>6, <1>7 DEF IInv

(* A registration is the newest token of its name.  A token that stops     *)
(* working was issued after the request looked: had it been there, it      *)
(* would be spent.                                                         *)
LEMMA RegisterIInv ==
  ASSUME IInv, NEW c \in Clients, Registering(c), NEW row \in Agent,
         Register(c, row), row.row, ~row.revoked, ~row.online, row.token = Last + 1
  PROVE  IInv'
<1> DEFINE n == req[c].name
           u == [name |-> n, tok |-> Last + 1, upto |-> req[c].upto]
<1>0. /\ n \in Names /\ req[c].upto \in Nat /\ Last \in Nat /\ req[c].upto <= Last
      /\ agents \in [Names -> Agent] /\ issued \subseteq Token /\ cut \in [Names -> Nat]
  BY Requests, LastIsNat DEF IInv, Looked, TypeOK
<1>1. /\ issued' = issued \cup {u} /\ agents' = [agents EXCEPT ![n] = row]
      /\ req' = [req EXCEPT ![c] = Idle] /\ UNCHANGED <<resv, lastId, cut>>
  BY DEF Register
<1>2. u \in Token
  BY <1>0 DEF Token
<1>3. Last' = Last + 1 /\ IsFiniteSet(issued)'
  BY <1>0, <1>1, <1>2, NextToken DEF IInv
<1>4. \A t \in issued : t \in Token /\ t.tok <= Last /\ (Spent(t) => Spent(t)')
  BY <1>0, <1>1, SpentStays DEF IInv, Numbering
<1>5. TypeOK'
  BY <1>0, <1>1, <1>2 DEF IInv, TypeOK, Request, Agent
<1>6. Numbering'
  BY <1>0, <1>1, <1>3, <1>4 DEF IInv, Numbering, Token
<1>7. req'[c] = Idle /\ \A d \in Clients : d # c => req'[d] = req[d]
  BY <1>1 DEF IInv, TypeOK
<1>8. Looked'
  <2> SUFFICES ASSUME NEW d \in Clients, Registering(d)'
               PROVE  /\ req'[d].upto <= Last'
                      /\ \A t \in issued' : t.name = req'[d].name /\ t.tok <= req'[d].upto => Spent(t)'
    BY DEF Looked
  <2>1. d # c /\ Registering(d) /\ req'[d] = req[d]
    BY <1>7 DEF Registering, Doing, Idle
  <2>2. req[d].upto \in Nat /\ req[d].upto <= Last
    BY <2>1, Requests DEF IInv, Looked
  <2>3. \A t \in issued : t.name = req[d].name /\ t.tok <= req[d].upto => Spent(t)'
    BY <1>4, <2>1 DEF IInv, Looked
  <2>4. ~(u.tok <= req[d].upto)
    BY <1>0, <2>2
  <2> QED
    BY <1>0, <1>1, <1>3, <2>1, <2>2, <2>3, <2>4
<1>9. Checked'
  BY <1>1, <1>7 DEF IInv, Checked, Doing, Clash, Idle
<1>10. NoConflictUnlessRaced'
  BY <1>1 DEF IInv, NoConflictUnlessRaced, Overlap
<1>11. TokenWorksUnlessRaced'
  <2> SUFFICES ASSUME NEW t \in issued' PROVE Works(t)' \/ Spent(t)'
    BY DEF TokenWorksUnlessRaced, Spent
  <2>1. CASE t = u
    BY <1>0, <1>1, <2>1 DEF Works
  <2>2. CASE t \in issued /\ t.name = n
    <3>1. t.tok <= req[c].upto => Spent(t)'
      BY <1>4, <2>2 DEF IInv, Looked
    <3>2. req[c].upto < t.tok => Spent(t)'
      <4>1. t.tok < u.tok
        BY <1>0, <1>4, <2>2 DEF Token
      <4>2. u \in issued' /\ u.name = t.name /\ u.upto = req[c].upto
        BY <1>1, <2>2
      <4> QED
        BY <4>1, <4>2 DEF Spent
    <3> QED
      BY <1>0, <1>4, <2>2, <3>1, <3>2 DEF Token
  <2>3. CASE t \in issued /\ t.name # n
    <3>1. Works(t) => Works(t)'
      BY <1>0, <1>1, <2>3 DEF Works, Token
    <3> QED
      BY <1>4, <2>3, <3>1 DEF IInv, TokenWorksUnlessRaced, Spent
  <2> QED
    BY <1>1, <2>1, <2>2, <2>3
<1> QED
  BY <1>5, <1>6, <1>8, <1>9, <1>10, <1>11 DEF IInv

LEMMA CreateAgentIInv ==
  ASSUME IInv, NEW c \in Clients, CreateAgent(c) PROVE IInv'
<1> DEFINE row == [row |-> TRUE, token |-> Last + 1, revoked |-> FALSE,
                   online |-> FALSE, fresh |-> FALSE]
<1>1. Last \in Nat
  BY LastIsNat DEF IInv
<1>2. row \in Agent /\ row.row /\ ~row.revoked /\ ~row.online /\ row.token = Last + 1
  BY <1>1 DEF Agent
<1>3. Registering(c) /\ Register(c, row)
  BY DEF CreateAgent, Registering
<1> HIDE DEF row
<1> QED
  BY <1>2, <1>3, RegisterIInv

LEMMA ReinstateAgentIInv ==
  ASSUME IInv, NEW c \in Clients, ReinstateAgent(c) PROVE IInv'
<1> DEFINE row == [row |-> TRUE, token |-> Last + 1, revoked |-> FALSE,
                   online |-> FALSE, fresh |-> TRUE]
<1>1. Last \in Nat
  BY LastIsNat DEF IInv
<1>2. row \in Agent /\ row.row /\ ~row.revoked /\ ~row.online /\ row.token = Last + 1
  BY <1>1 DEF Agent
<1>3. Registering(c) /\ Register(c, row)
  BY DEF ReinstateAgent, Registering
<1> HIDE DEF row
<1> QED
  BY <1>2, <1>3, RegisterIInv

LEMMA RevokeIInv ==
  ASSUME IInv, NEW n \in Names, Revoke(n) PROVE IInv'
<1>0. /\ Last \in Nat /\ Last' = Last /\ agents \in [Names -> Agent]
      /\ issued \subseteq Token /\ cut \in [Names -> Nat] /\ cut' = [cut EXCEPT ![n] = Last]
      /\ UNCHANGED <<resv, lastId, req, issued>>
      /\ agents' = [agents EXCEPT ![n].revoked = TRUE, ![n].online = FALSE]
  BY LastIsNat, Frame DEF IInv, TypeOK, Revoke
<1>1. TypeOK'
  BY <1>0, ZenonT(60) DEF IInv, TypeOK, Agent
<1>2. Numbering'
  BY <1>0 DEF IInv, Numbering
<1>3. \A t \in issued : Spent(t) => Spent(t)'
  BY <1>0, SpentStays DEF IInv
<1>4. Looked'
  BY <1>0, <1>3 DEF IInv, Looked, Registering, Doing
<1>5. Checked' /\ NoConflictUnlessRaced'
  BY <1>0 DEF IInv, Checked, NoConflictUnlessRaced, Overlap, Doing, Clash
<1>6. TokenWorksUnlessRaced'
  <2> SUFFICES ASSUME NEW t \in issued PROVE Works(t)' \/ Spent(t)'
    BY <1>0 DEF TokenWorksUnlessRaced, Spent
  <2>1. CASE t.name = n
    BY <1>0, <2>1 DEF Spent, IInv, Numbering
  <2>2. CASE t.name # n
    BY <1>0, <1>3, <2>2 DEF Works, IInv, TokenWorksUnlessRaced, Spent, Token
  <2> QED
    BY <2>1, <2>2
<1> QED
  BY <1>1, <1>2, <1>4, <1>5, <1>6 DEF IInv

-----------------------------------------------------------------------------
(* The other steps.                                                        *)

(* Presence does not touch tokens.                                         *)
LEMMA WorksFrame ==
  ASSUME UNCHANGED <<issued, cut>>,
         \A n \in Names : /\ agents'[n].row = agents[n].row
                         /\ agents'[n].revoked = agents[n].revoked
                         /\ agents'[n].token = agents[n].token,
         issued \subseteq Token, TokenWorksUnlessRaced
  PROVE  TokenWorksUnlessRaced'
  BY DEF TokenWorksUnlessRaced, Works, Token

LEMMA BeginRequestIInv ==
  ASSUME IInv, NEW c \in Clients, BeginRequest(c) PROVE IInv'
<1>1. PICK r \in Request : Authenticate(c, r) /\ r.op \notin {"reinstate", "create", "reserve"}
  <2>1. CASE \E n \in Names, b \in BOOLEAN :
               Authenticate(c, [op |-> "heartbeat", who |-> n, online |-> b])
    BY <2>1 DEF Request
  <2>2. CASE \E who \in Callers, ps \in SUBSET Patterns \ {{}} :
               Authenticate(c, [op |-> "check", who |-> who, patterns |-> ps])
    BY <2>2 DEF Request
  <2> QED
    BY <2>1, <2>2 DEF BeginRequest
<1>2. req' = [req EXCEPT ![c] = r] /\ UNCHANGED <<agents, resv, lastId, issued, cut>>
  BY <1>1 DEF Authenticate
<1>3. TypeOK'
  BY <1>1, <1>2 DEF IInv, TypeOK
<1>4. TokenWorksUnlessRaced'
  BY <1>2, WorksFrame DEF IInv, TypeOK
<1> QED
  BY <1>1, <1>2, <1>3, <1>4, RequestOnly DEF IInv

LEMMA DropIInv ==
  ASSUME IInv, NEW c \in Clients, Drop(c) PROVE IInv'
<1>1. Idle \in Request /\ Idle.op \notin {"reinstate", "create", "reserve"}
  BY DEF Request, Idle
<1>2. req' = [req EXCEPT ![c] = Idle] /\ UNCHANGED <<agents, resv, lastId, issued, cut>>
  BY DEF Drop
<1>3. TypeOK'
  BY <1>1, <1>2 DEF IInv, TypeOK
<1>4. TokenWorksUnlessRaced'
  BY <1>2, WorksFrame DEF IInv, TypeOK
<1> QED
  BY <1>1, <1>2, <1>3, <1>4, RequestOnly DEF IInv

(* A heartbeat of an agent that was revoked meanwhile changes nothing.     *)
LEMMA HeartbeatIInv ==
  ASSUME IInv, NEW c \in Clients, Heartbeat(c) PROVE IInv'
<1>1. Idle \in Request /\ Idle.op \notin {"reinstate", "create", "reserve"}
  BY DEF Request, Idle
<1>2. req[c].who \in Names /\ req[c].online \in BOOLEAN
  BY Requests DEF IInv, Heartbeat
<1>3. /\ req' = [req EXCEPT ![c] = Idle] /\ UNCHANGED <<resv, lastId, issued, cut>>
      /\ agents' = IF Present(req[c].who)
                   THEN [agents EXCEPT ![req[c].who].online = req[c].online,
                                       ![req[c].who].fresh = TRUE]
                   ELSE agents
  BY DEF Heartbeat
<1>4. TypeOK'
  BY <1>1, <1>2, <1>3 DEF IInv, TypeOK, Agent, Present
<1>5. TokenWorksUnlessRaced'
  BY <1>2, <1>3, WorksFrame DEF IInv, TypeOK, Agent
<1> QED
  BY <1>1, <1>3, <1>4, <1>5, RequestOnly DEF IInv

(* Time and the reaper touch presence only.                                *)
LEMMA PresenceIInv ==
  ASSUME IInv, UNCHANGED <<resv, lastId, req, issued, cut>>, agents' \in [Names -> Agent],
         \A n \in Names : /\ agents'[n].row = agents[n].row
                         /\ agents'[n].revoked = agents[n].revoked
                         /\ agents'[n].token = agents[n].token,
         \A n \in Names : agents'[n].online => agents[n].online
  PROVE  IInv'
<1>1. \A n \in Names : agents'[n].revoked => ~agents'[n].online
  <2> SUFFICES ASSUME NEW n \in Names PROVE agents'[n].revoked => ~agents'[n].online
    OBVIOUS
  <2>1. agents[n] \in Agent /\ agents'[n] \in Agent /\ (agents[n].revoked => ~agents[n].online)
    BY DEF IInv, TypeOK
  <2>2. agents'[n].revoked = agents[n].revoked /\ (agents'[n].online => agents[n].online)
    OBVIOUS
  <2> QED
    BY <2>1, <2>2, Zenon
<1>5. TypeOK'
  BY <1>1 DEF IInv, TypeOK
<1>2. Numbering' /\ Last' = Last /\ \A t : Spent(t)' <=> Spent(t)
  BY Frame DEF IInv
<1>3. Looked' /\ Checked' /\ NoConflictUnlessRaced'
  BY <1>2 DEF IInv, Looked, Registering, Checked, Doing, Clash, NoConflictUnlessRaced, Overlap
<1>4. TokenWorksUnlessRaced'
  BY WorksFrame DEF IInv, TypeOK
<1> QED
  BY <1>2, <1>3, <1>4, <1>5 DEF IInv

LEMMA GrowStaleIInv ==
  ASSUME IInv, NEW n \in Names, GrowStale(n) PROVE IInv'
<1>1. agents \in [Names -> Agent] /\ agents' = [agents EXCEPT ![n].fresh = FALSE]
  BY DEF IInv, TypeOK, GrowStale
<1>2. agents' \in [Names -> Agent]
  BY <1>1 DEF Agent
<1> QED
  BY <1>1, <1>2, PresenceIInv DEF GrowStale, Agent

LEMMA ReapIInv ==
  ASSUME IInv, Reap PROVE IInv'
<1>1. agents \in [Names -> Agent]
  BY DEF IInv, TypeOK
<1>2. \A n \in Names : agents'[n] = IF Reapable(n) THEN [agents[n] EXCEPT !.online = FALSE]
                                    ELSE agents[n]
  BY DEF Reap
<1>3. agents' \in [Names -> Agent]
  <2>1. \A n \in Names : agents'[n] \in Agent
    BY <1>1, <1>2 DEF Agent
  <2> QED
    BY <2>1 DEF Reap
<1> QED
  BY <1>1, <1>2, <1>3, PresenceIInv DEF Reap, Agent

-----------------------------------------------------------------------------
(* Reservations.                                                           *)

(* A check that worked saw every reservation there was; one that failed    *)
(* counts as having looked before the first.                               *)
LEMMA CheckIInv ==
  ASSUME IInv, NEW c \in Clients, Check(c) PROVE IInv'
<1>1. req[c].who \in Callers /\ req[c].patterns \in SUBSET Patterns
  BY Requests DEF IInv, Check
<1>2. PICK upto \in {0, lastId} :
        /\ upto = lastId => ~Conflicts(req[c].who, req[c].patterns)
        /\ req' = [req EXCEPT ![c] = [op |-> "reserve", who |-> req[c].who,
                                      patterns |-> req[c].patterns, upto |-> upto]]
  BY DEF Check
<1> DEFINE r == [op |-> "reserve", who |-> req[c].who, patterns |-> req[c].patterns, upto |-> upto]
<1>3. /\ UNCHANGED <<agents, resv, lastId, issued, cut>> /\ req'[c] = r
      /\ \A d \in Clients : d # c => req'[d] = req[d]
  BY <1>2 DEF Check, IInv, TypeOK
<1>4. lastId \in Nat /\ upto \in Nat /\ upto <= lastId /\ r \in Request
  BY <1>1 DEF IInv, TypeOK, Request
<1>5. TypeOK'
  BY <1>2, <1>3, <1>4 DEF IInv, TypeOK
<1>6. Numbering' /\ Last' = Last /\ \A t : Spent(t)' <=> Spent(t)
  BY <1>3, Frame DEF IInv
<1>7. Looked'
  BY <1>3, <1>6 DEF IInv, Looked, Registering, Doing
<1>8. \A s \in resv : s.holder # r.who /\ s.id <= upto =>
        \A p \in r.patterns : ~Clash(s.pattern, p)
  <2>1. CASE upto = lastId
    BY <1>2, <2>1 DEF Conflicts, Clash
  <2>2. CASE upto = 0
    BY <2>2 DEF IInv, Numbering, TypeOK, Reservation
  <2> QED
    BY <2>1, <2>2
<1>9. Checked'
  BY <1>3, <1>4, <1>8 DEF IInv, Checked, Doing, Clash
<1>10. NoConflictUnlessRaced' /\ TokenWorksUnlessRaced'
  BY <1>3, WorksFrame DEF IInv, NoConflictUnlessRaced, Overlap, TypeOK
<1> QED
  BY <1>5, <1>6, <1>7, <1>9, <1>10 DEF IInv

LEMMA Fewer ==
  ASSUME NEW r \in [op : {"reserve"}, who : Callers, patterns : SUBSET Patterns, upto : Nat],
         NEW ps
  PROVE  [r EXCEPT !.patterns = ps]
         = [op |-> "reserve", who |-> r.who, patterns |-> ps, upto |-> r.upto]
  OBVIOUS

(* The new reservation has the highest ID: it can only conflict with one   *)
(* made after its check.                                                   *)
LEMMA CreateReservationIInv ==
  ASSUME IInv, NEW c \in Clients, CreateReservation(c) PROVE IInv'
<1>1. /\ req[c].who \in Callers /\ req[c].patterns \in SUBSET Patterns
      /\ req[c].upto \in Nat /\ req[c].op = "reserve"
      /\ lastId \in Nat /\ resv \subseteq Reservation
  BY Requests DEF IInv, TypeOK, CreateReservation, Doing
<1>2. PICK p \in req[c].patterns :
        /\ resv' = resv \cup {[id |-> lastId + 1, holder |-> req[c].who, pattern |-> p,
                               upto |-> req[c].upto]}
        /\ req' = [req EXCEPT ![c] = IF req[c].patterns = {p} THEN Idle
                                     ELSE [req[c] EXCEPT !.patterns = @ \ {p}]]
  BY DEF CreateReservation
<1> DEFINE new == [id |-> lastId + 1, holder |-> req[c].who, pattern |-> p, upto |-> req[c].upto]
           rest == [op |-> "reserve", who |-> req[c].who, patterns |-> req[c].patterns \ {p},
                    upto |-> req[c].upto]
<1>3. new \in Reservation /\ lastId' = lastId + 1 /\ UNCHANGED <<agents, issued, cut>>
  BY <1>1 DEF Reservation, CreateReservation
<1>4. rest = [req[c] EXCEPT !.patterns = @ \ {p}] /\ rest \in Request /\ Idle \in Request
  <2>1. req[c] \in [op : {"reserve"}, who : Callers, patterns : SUBSET Patterns, upto : Nat]
    BY Requests DEF IInv, CreateReservation
  <2>3. rest = [req[c] EXCEPT !.patterns = @ \ {p}]
    BY <2>1, Fewer
  <2>4. rest \in Request /\ Idle \in Request
    BY <1>1 DEF Request
  <2> QED
    BY <2>3, <2>4
<1>5. /\ req'[c] \in {Idle, rest} /\ req' \in [Clients -> Request]
      /\ \A d \in Clients : d # c => req'[d] = req[d]
  <2>1. PICK q \in {Idle, rest} : req' = [req EXCEPT ![c] = q]
    BY <1>2, <1>4
  <2>2. req \in [Clients -> Request] /\ q \in Request
    BY <1>4, <2>1 DEF IInv, TypeOK
  <2> HIDE DEF rest
  <2> QED
    BY <2>1, <2>2
<1>6. TypeOK'
  BY <1>1, <1>2, <1>3, <1>5 DEF IInv, TypeOK
<1>7. Numbering' /\ Last' = Last /\ \A t : Spent(t)' <=> Spent(t)
  BY <1>1, <1>2, <1>3, Frame DEF IInv, Numbering, Reservation, Last, Spent
<1>8. Looked'
  BY <1>5, <1>7, <1>3 DEF IInv, Looked, Registering, Doing, Idle
<1>9. Checked'
  <2> SUFFICES ASSUME NEW d \in Clients, Doing(d, "reserve")'
               PROVE  /\ req'[d].upto <= lastId'
                      /\ \A r \in resv' : r.holder # req'[d].who /\ r.id <= req'[d].upto =>
                           \A q \in req'[d].patterns : ~Clash(r.pattern, q)
    BY DEF Checked, Clash
  <2>1. /\ Doing(d, "reserve") /\ req'[d].upto = req[d].upto /\ req'[d].who = req[d].who
        /\ req'[d].patterns \subseteq req[d].patterns
    BY <1>1, <1>5 DEF Doing, Idle
  <2>2. req[d].upto \in Nat /\ req[d].upto <= lastId
    BY <2>1, Requests DEF IInv, Checked
  <2>3. \A r \in resv : r.holder # req[d].who /\ r.id <= req[d].upto =>
          \A q \in req[d].patterns : ~Clash(r.pattern, q)
    BY <2>1 DEF IInv, Checked
  <2>4. ~(new.id <= req[d].upto)
    BY <1>1, <2>2
  <2> QED
    BY <1>1, <1>2, <1>3, <2>1, <2>2, <2>3, <2>4
<1>10. NoConflictUnlessRaced'
  <2> SUFFICES ASSUME NEW r \in resv', NEW s \in resv', r.holder # s.holder,
                      Overlap(r, s), r.id < s.id
               PROVE  s.upto < r.id
    BY DEF NoConflictUnlessRaced, Overlap
  <2>1. r \in resv
    BY <1>1, <1>2, <1>3 DEF IInv, Numbering, Reservation
  <2>2. CASE s = new
    <3>1. r.id <= req[c].upto => ~Clash(r.pattern, p)
      BY <1>1, <2>1, <2>2 DEF IInv, Checked, Doing
    <3>2. Clash(r.pattern, p)
      BY <2>2 DEF Clash, Overlap
    <3> QED
      BY <1>1, <2>1, <2>2, <3>1, <3>2 DEF Reservation
  <2>3. CASE s \in resv
    BY <2>1, <2>3 DEF IInv, NoConflictUnlessRaced
  <2> QED
    BY <1>2, <2>2, <2>3
<1>11. TokenWorksUnlessRaced'
  BY <1>3, WorksFrame DEF IInv, TypeOK
<1> QED
  BY <1>6, <1>7, <1>8, <1>9, <1>10, <1>11 DEF IInv

LEMMA EndIInv ==
  ASSUME IInv, NEW r \in resv, End(r) PROVE IInv'
<1>1. resv' = resv \ {r} /\ UNCHANGED <<agents, lastId, req, issued, cut>>
  BY DEF End
<1>2. TypeOK'
  BY <1>1 DEF IInv, TypeOK
<1>3. Numbering' /\ Last' = Last /\ \A t : Spent(t)' <=> Spent(t)
  BY <1>1, Frame DEF IInv, Numbering, Last, Spent
<1>4. Looked' /\ Checked' /\ NoConflictUnlessRaced'
  BY <1>1, <1>3 DEF IInv, Looked, Registering, Checked, Doing, Clash, NoConflictUnlessRaced, Overlap
<1>5. TokenWorksUnlessRaced'
  BY <1>1, WorksFrame DEF IInv, TypeOK
<1> QED
  BY <1>2, <1>3, <1>4, <1>5 DEF IInv

-----------------------------------------------------------------------------
LEMMA StepIInv == IInv /\ [Next]_vars => IInv'
<1> SUFFICES ASSUME IInv, [Next]_vars PROVE IInv'
  OBVIOUS
<1>1. CASE Reap
  BY <1>1, ReapIInv
<1>2. ASSUME NEW n \in Names, GrowStale(n) \/ Revoke(n) PROVE IInv'
  BY <1>2, GrowStaleIInv, RevokeIInv
<1>3. ASSUME NEW r \in resv, End(r) PROVE IInv'
  BY <1>3, EndIInv
<1>4. ASSUME NEW c \in Clients, NEW n \in Names, RegisterLookup(c, n) PROVE IInv'
  BY <1>4, LookupIInv
<1>5. ASSUME NEW c \in Clients, CreateAgent(c) \/ ReinstateAgent(c) PROVE IInv'
  BY <1>5, CreateAgentIInv, ReinstateAgentIInv
<1>6. ASSUME NEW c \in Clients, BeginRequest(c) \/ Drop(c) \/ Heartbeat(c) PROVE IInv'
  BY <1>6, BeginRequestIInv, DropIInv, HeartbeatIInv
<1>7. ASSUME NEW c \in Clients, Check(c) \/ CreateReservation(c) PROVE IInv'
  BY <1>7, CheckIInv, CreateReservationIInv
<1>8. CASE UNCHANGED vars
  <2>1. UNCHANGED <<agents, resv, lastId, req, issued, cut>>
    BY <1>8 DEF vars
  <2> QED
    BY <2>1, PresenceIInv DEF IInv, TypeOK
<1> QED
  BY <1>1, <1>2, <1>3, <1>4, <1>5, <1>6, <1>7, <1>8 DEF Next

(* The inductive invariant holds in every state.                           *)
THEOREM Inductive == Spec => []IInv
  BY InitIInv, StepIInv, PTL DEF Spec

(* Types; and an agent that was revoked is offline, even if a heartbeat    *)
(* of its was under way (UpdatePresence).                                  *)
THEOREM TypeCorrect == Spec => []TypeOK
<1>1. IInv => TypeOK
  BY DEF IInv
<1> QED
  BY <1>1, Inductive, PTL

(* handleReservationCreate grants conflicting reservations only to         *)
(* requests that raced, or whose check failed.                             *)
THEOREM NoConflict == Spec => []NoConflictUnlessRaced
<1>1. IInv => NoConflictUnlessRaced
  BY DEF IInv
<1> QED
  BY <1>1, Inductive, PTL

(* handleAgentRegister answers with a token that works until revoked, but  *)
(* for registrations of the same name that raced.                          *)
THEOREM TokenWorks == Spec => []TokenWorksUnlessRaced
<1>1. IInv => TokenWorksUnlessRaced
  BY DEF IInv
<1> QED
  BY <1>1, Inductive, PTL

=============================================================================
