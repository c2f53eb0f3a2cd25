--------------------------- MODULE GlueServerProofs ---------------------------
(***************************************************************************)
(* The safety properties of GlueServer, proved for any number of clients,  *)
(* connections, sessions, flow IDs and sockets and for any limits.         *)
(*                                                                         *)
(* None of them is inductive.  Four things are missing.  A flow ID points  *)
(* to an open socket that was made for it (FlowsAreOpen); hence closing a  *)
(* set of flows closes as many sockets as slots are given back             *)
(* (ClosingFlows), and the reader of a socket removes its flow exactly if  *)
(* the socket was open.  At most one handler is inside flow() of a session *)
(* (OneInFlow: it holds s.mu), so that what it found at the start - the    *)
(* flow ID points to nothing, the session has room - still holds when it   *)
(* takes the socket (FlowIsUnbound, SessionHasRoom).  Slots beyond the     *)
(* limit are only ever held by handlers about to give them back            *)
(* (QuotaIsKept counts those that will be used).  And a session that left  *)
(* the registry is as good as new (UnknownAreOccupied).                    *)
(***************************************************************************)
EXTENDS GlueServer, FiniteSetTheorems, TLAPS

(* A reader knows its flow as long as it runs, and every open socket has one. *)
ReadersKnowTheirFlow ==
  \A k \in Sockets :
    /\ socket[k].reader # "gone" => socket[k].sess \in Sessions /\ socket[k].f \in FlowIDs
    /\ socket[k].open => socket[k].reader # "gone"

(* What a flow ID points to is an open socket of that session and flow ID. *)
FlowsAreOpen ==
  \A s \in Sessions, f \in FlowIDs : flows[s][f] # None =>
    LET k == flows[s][f] IN socket[k].open /\ socket[k].sess = s /\ socket[k].f = f

(* What a handler has in its hands at each of its steps. *)
HandlersAreTidy ==
  \A c \in Conns :
    /\ pc[c] = "idle" <=> at[c] = None
    /\ pc[c] = "write" <=> uses[c] # None
    /\ pc[c] \in {"frame", "write"} \union InFlow =>
         want[c].f \in FlowIDs /\ want[c].dst \in Dsts

OneInFlow ==
  \A c, d \in Conns : pc[c] \in InFlow /\ pc[d] \in InFlow /\ at[c] = at[d] => c = d

(* Inside flow() the flow ID points to nothing, *)
FlowIsUnbound ==
  \A c \in Conns : pc[c] \in InFlow => flows[at[c]][want[c].f] = None

(* and once a slot is taken the session has room for the flow. *)
SessionHasRoom ==
  \A c \in Conns : pc[c] \in {"reserved", "overshot"} =>
    Cardinality(FlowsOf(at[c])) < MaxFlowsPerSession

Reserved == {c \in Conns : pc[c] = "reserved"}

QuotaIsKept ==
  /\ total = Cardinality(OpenSockets) + Cardinality(Reserving)
  /\ Cardinality(OpenSockets) + Cardinality(Reserved) <= MaxTotalFlows

RegistryLimits ==
  /\ Cardinality(Registered) <= MaxGlueSessions
  /\ \A k \in Keys : Cardinality(SessionsOf(k)) <= MaxSessionsPerClient

(* The limits of a session, registered or not. *)
FlowLimit == \A s \in Sessions : Cardinality(FlowsOf(s)) <= MaxFlowsPerSession
PathLimit == \A s \in Sessions : Cardinality(Paths(s)) <= MaxPathsPerSession

UnknownAreOccupied == \A s \in Sessions \ Registered : emptyAge[s] = Occupied

WritersHaveAccepted ==
  /\ \A c \in writers : pc[c] \notin {"idle", "attached"}
  /\ \A c \in Conns : pc[c] \notin {"idle", "attached"} => "accept" \in wire[c]
  /\ AcceptComesFirst

IInv ==
  /\ TypeOK
  /\ ReadersKnowTheirFlow /\ FlowsAreOpen /\ OpenSocketsAreReachable
  /\ HandlersAreTidy /\ OneInFlow /\ FlowIsUnbound /\ SessionHasRoom
  /\ PayloadsReachTheirDestination
  /\ QuotaIsKept /\ RegistryLimits /\ FlowLimit /\ PathLimit
  /\ UnknownAreOccupied /\ PathsKeepTheirSession
  /\ WritersHaveAccepted

-----------------------------------------------------------------------------
(* Finite sets.                                                            *)
LEMMA RegistryIsFinite ==
  ASSUME NEW r \in [SIDs -> Sessions \union {None}]
  PROVE  /\ IsFiniteSet({r[id] : id \in SIDs})
         /\ IsFiniteSet({r[id] : id \in SIDs} \ {None})
<1> DEFINE R == {r[id] : id \in SIDs}
<1>1. r \in Surjection(SIDs, R)
  BY DEF Surjection
<1>2. IsFiniteSet(R)
  BY <1>1, FS_Surjection, GlueServerAssumption
<1> QED
  BY <1>2, FS_RemoveElement

LEMMA FiniteSets ==
  /\ IsFiniteSet(OpenSockets) /\ IsFiniteSet(Reserving) /\ IsFiniteSet(Reserved)
  /\ \A s : IsFiniteSet(FlowsOf(s)) /\ IsFiniteSet(Paths(s))
<1>1. /\ OpenSockets \in SUBSET Sockets
      /\ Reserving \in SUBSET Conns /\ Reserved \in SUBSET Conns
      /\ \A s : FlowsOf(s) \in SUBSET FlowIDs /\ Paths(s) \in SUBSET Conns
  BY DEF OpenSockets, Reserving, Reserved, FlowsOf, Paths
<1> QED
  BY <1>1, FS_Subset, GlueServerAssumption

LEMMA FiniteSetsPrimed ==
  /\ IsFiniteSet(OpenSockets') /\ IsFiniteSet(Reserving') /\ IsFiniteSet(Reserved')
  /\ \A s : IsFiniteSet(FlowsOf(s)') /\ IsFiniteSet(Paths(s)')
<1>1. /\ OpenSockets' \in SUBSET Sockets
      /\ Reserving' \in SUBSET Conns /\ Reserved' \in SUBSET Conns
      /\ \A s : FlowsOf(s)' \in SUBSET FlowIDs /\ Paths(s)' \in SUBSET Conns
  BY DEF OpenSockets, Reserving, Reserved, FlowsOf, Paths
<1> QED
  BY <1>1, FS_Subset, GlueServerAssumption

LEMMA SmallerSet ==
  ASSUME NEW S, NEW T, IsFiniteSet(T), S \subseteq T
  PROVE  /\ IsFiniteSet(S) /\ Cardinality(S) \in Nat /\ Cardinality(T) \in Nat
         /\ Cardinality(S) <= Cardinality(T)
  BY FS_Subset, FS_CardinalityType

LEMMA ClosingSocket ==
  ASSUME TypeOK, NEW k \in Sockets
  PROVE  /\ Closed(k) \in SocketStates
         /\ ~Closed(k).open
         /\ Closed(k).reader = socket[k].reader
         /\ Closed(k).sess = socket[k].sess /\ Closed(k).f = socket[k].f
<1> DEFINE r == socket[k]
<1>1. r \in SocketStates
  BY DEF TypeOK
<1>2. 0 \in 0 .. FlowIdle + 1
  BY GlueServerAssumption
<1>3. Closed(k) = [r EXCEPT !.open = FALSE, !.dst = None, !.age = 0]
  BY DEF Closed
<1> HIDE DEF r
<1>4. /\ Closed(k) \in SocketStates
      /\ ~Closed(k).open /\ Closed(k).reader = r.reader
      /\ Closed(k).sess = r.sess /\ Closed(k).f = r.f
  BY <1>1, <1>2, <1>3 DEF SocketStates
<1> QED
  BY <1>4 DEF r

(* What CloseFlows does. *)
LEMMA ClosingFlows ==
  ASSUME TypeOK, FlowsAreOpen, NEW s \in Sessions, NEW F \in SUBSET FlowsOf(s),
         CloseFlows(s, F)
  PROVE  /\ flows' \in [Sessions -> [FlowIDs -> Sockets \union {None}]]
         /\ socket' \in [Sockets -> SocketStates]
         /\ \A r \in Sessions, f \in FlowIDs :
              flows'[r][f] = IF r = s /\ f \in F THEN None ELSE flows[r][f]
         /\ \A k \in Sockets :
              /\ socket'[k].reader = socket[k].reader
              /\ socket'[k].sess = socket[k].sess /\ socket'[k].f = socket[k].f
              /\ socket'[k].open <=> socket[k].open /\ \A f \in F : flows[s][f] # k
              /\ socket'[k].open => socket'[k].dst = socket[k].dst
         /\ total' = total - Cardinality(F)
         /\ Cardinality(F) \in Nat
         /\ Cardinality(OpenSockets') = Cardinality(OpenSockets) - Cardinality(F)
<1> USE DEF CloseFlows
<1>1. flows' \in [Sessions -> [FlowIDs -> Sockets \union {None}]]
  BY DEF TypeOK
<1>2. \A r \in Sessions, f \in FlowIDs :
        flows'[r][f] = IF r = s /\ f \in F THEN None ELSE flows[r][f]
  BY DEF TypeOK
<1>3. \A k \in Sockets : Closed(k) \in SocketStates
  BY ClosingSocket
<1>4. socket' \in [Sockets -> SocketStates]
  BY <1>3 DEF TypeOK
<1>5. \A k \in Sockets :
        /\ socket'[k].reader = socket[k].reader
        /\ socket'[k].sess = socket[k].sess /\ socket'[k].f = socket[k].f
        /\ socket'[k].open <=> socket[k].open /\ \A f \in F : flows[s][f] # k
        /\ socket'[k].open => socket'[k].dst = socket[k].dst
  BY ClosingSocket DEF TypeOK, SocketStates
<1> DEFINE G == {flows[s][f] : f \in F}
           point == [f \in F |-> flows[s][f]]
<1>6. point \in Bijection(F, G)
  <2>1. point \in [F -> G] /\ \A k \in G : \E f \in F : point[f] = k
    OBVIOUS
  <2>2. \A f, g \in F : flows[s][f] = flows[s][g] => f = g
    BY DEF FlowsOf, FlowsAreOpen
  <2>3. IsInjective(point)
    BY <2>2 DEF IsInjective
  <2> HIDE DEF point, G
  <2> QED
    BY <2>1, <2>3 DEF Bijection, Injection, Surjection
<1>7. IsFiniteSet(F)
  BY FiniteSets, FS_Subset
<1>8. IsFiniteSet(G) /\ Cardinality(G) = Cardinality(F)
  BY <1>6, <1>7, FS_Bijection DEF ExistsBijection
<1>9. OpenSockets' = OpenSockets \ G /\ OpenSockets \cap G = G
  <2>1. \A k \in G : k \in Sockets /\ socket[k].open
    BY GlueServerAssumption DEF FlowsOf, FlowsAreOpen, TypeOK
  <2>2. \A k \in Sockets : k \in OpenSockets' <=> k \in OpenSockets /\ k \notin G
    BY <1>5 DEF OpenSockets
  <2> QED
    BY <2>1, <2>2 DEF OpenSockets
<1> HIDE DEF CloseFlows, G, point
<1>10. Cardinality(OpenSockets') = Cardinality(OpenSockets) - Cardinality(F)
  <2>1. Cardinality(OpenSockets \ G) =
          Cardinality(OpenSockets) - Cardinality(OpenSockets \cap G)
    BY FS_Difference, FiniteSets
  <2> QED
    BY <2>1, <1>8, <1>9
<1>11. Cardinality(F) \in Nat
  BY <1>7, FS_CardinalityType
<1>12. total' = total - Cardinality(F)
  BY DEF CloseFlows
<1> QED
  BY <1>1, <1>2, <1>4, <1>5, <1>10, <1>11, <1>12

-----------------------------------------------------------------------------
(* What a step leaves alone stays as it was.                               *)

LEMMA SessionsSteady ==
  ASSUME IInv, UNCHANGED <<registry, owner, emptyAge, peer, at>>,
         \A c \in Conns : pc'[c] = "idle" <=> pc[c] = "idle"
  PROVE  UnknownAreOccupied' /\ PathsKeepTheirSession' /\ RegistryLimits' /\ PathLimit'
<1>1. Registered' = Registered /\ \A k : SessionsOf(k)' = SessionsOf(k)
  BY DEF Registered, SessionsOf
<1>2. \A s : Paths(s)' = Paths(s)
  BY DEF Paths
<1> QED
  BY <1>1, <1>2 DEF IInv, UnknownAreOccupied, PathsKeepTheirSession, RegistryLimits, PathLimit

LEMMA FlowsSteady ==
  ASSUME IInv,
         \A s \in Sessions, f \in FlowIDs : flows[s][f] = None => flows'[s][f] = None,
         \A c \in Conns : pc'[c] \in {"reserved", "overshot"} =>
           pc[c] \in {"reserved", "overshot"} /\ at'[c] = at[c]
  PROVE  SessionHasRoom' /\ FlowLimit'
<1>1. \A s \in Sessions : FlowsOf(s)' \subseteq FlowsOf(s)
  BY DEF FlowsOf
<1>2. ASSUME NEW s \in Sessions
      PROVE  /\ Cardinality(FlowsOf(s)') \in Nat /\ Cardinality(FlowsOf(s)) \in Nat
             /\ Cardinality(FlowsOf(s)') <= Cardinality(FlowsOf(s))
  <2>1. IsFiniteSet(FlowsOf(s)) /\ FlowsOf(s)' \subseteq FlowsOf(s)
    BY <1>1, FiniteSets
  <2> QED
    BY <2>1, SmallerSet
<1>3. FlowLimit'
  <2> SUFFICES ASSUME NEW s \in Sessions
               PROVE  Cardinality(FlowsOf(s)') <= MaxFlowsPerSession
    BY DEF FlowLimit
  <2>1. Cardinality(FlowsOf(s)) <= MaxFlowsPerSession
    BY DEF IInv, FlowLimit
  <2> QED
    BY <2>1, <1>2, GlueServerAssumption
<1>4. SessionHasRoom'
  <2> SUFFICES ASSUME NEW c \in Conns, pc'[c] \in {"reserved", "overshot"}
               PROVE  (Cardinality(FlowsOf(at[c])) < MaxFlowsPerSession)'
    BY DEF SessionHasRoom
  <2>1. at'[c] = at[c] /\ at[c] \in Sessions
    BY DEF IInv, TypeOK, HandlersAreTidy
  <2>2. Cardinality(FlowsOf(at[c])) < MaxFlowsPerSession
    BY DEF IInv, SessionHasRoom
  <2>3. PICK s \in Sessions : s = at[c]
    BY <2>1
  <2>4. Cardinality(FlowsOf(s)') < MaxFlowsPerSession
    BY <1>2, <2>2, <2>3, GlueServerAssumption
  <2>5. (FlowsOf(at[c]))' = FlowsOf(s)'
    BY <2>1, <2>3 DEF FlowsOf
  <2> QED
    BY <2>4, <2>5
<1> QED
  BY <1>3, <1>4

LEMMA QuotaSteady ==
  ASSUME IInv, total' = total,
         \A k \in Sockets : socket'[k].open <=> socket[k].open,
         \A c \in Conns : /\ pc'[c] = "reserved" <=> pc[c] = "reserved"
                          /\ pc'[c] = "overshot" <=> pc[c] = "overshot"
  PROVE  QuotaIsKept'
<1>1. OpenSockets' = OpenSockets
  BY DEF OpenSockets
<1>2. Reserving' = Reserving /\ Reserved' = Reserved
  BY DEF Reserving, Reserved
<1> QED
  BY <1>1, <1>2 DEF IInv, QuotaIsKept

(* What readers and the clock change of a socket tells no two flows apart. *)
SocketsKept ==
  \A k \in Sockets :
    /\ socket'[k].open = socket[k].open
    /\ socket'[k].sess = socket[k].sess /\ socket'[k].f = socket[k].f
    /\ socket'[k].dst = socket[k].dst
    /\ socket'[k].reader = "gone" <=> socket[k].reader = "gone"

LEMMA SocketsSteady ==
  ASSUME IInv, socket' \in [Sockets -> SocketStates], SocketsKept,
         UNCHANGED <<registry, flows>>
  PROVE  ReadersKnowTheirFlow' /\ FlowsAreOpen' /\ OpenSocketsAreReachable'
<1> USE GlueServerAssumption DEF SocketsKept, IInv
<1>1. ReadersKnowTheirFlow'
  BY DEF ReadersKnowTheirFlow
<1>2. FlowsAreOpen'
  BY DEF FlowsAreOpen, TypeOK
<1>3. OpenSocketsAreReachable'
  BY DEF OpenSocketsAreReachable, OpenSockets, Registered
<1> QED
  BY <1>1, <1>2, <1>3

LEMMA SocketsUntouched ==
  ASSUME IInv, UNCHANGED <<registry, flows, socket>>
  PROVE  ReadersKnowTheirFlow' /\ FlowsAreOpen' /\ OpenSocketsAreReachable'
<1>1. SocketsKept
  BY DEF SocketsKept
<1> QED
  BY <1>1, SocketsSteady DEF IInv, TypeOK

LEMMA HandlersSteady ==
  ASSUME IInv, UNCHANGED <<pc, want, uses, at>>,
         \A s \in Sessions, f \in FlowIDs : flows[s][f] = None => flows'[s][f] = None
  PROVE  HandlersAreTidy' /\ OneInFlow' /\ FlowIsUnbound'
<1>1. HandlersAreTidy' /\ OneInFlow'
  BY DEF IInv, HandlersAreTidy, OneInFlow
<1>2. FlowIsUnbound'
  BY DEF IInv, FlowIsUnbound, HandlersAreTidy, InFlow, TypeOK
<1> QED
  BY <1>1, <1>2

LEMMA WritersSteady ==
  ASSUME IInv, UNCHANGED <<writers, wire>>,
         \A c \in Conns : pc'[c] \in {"idle", "attached"} <=> pc[c] \in {"idle", "attached"}
  PROVE  WritersHaveAccepted'
  BY DEF IInv, WritersHaveAccepted, AcceptComesFirst, TypeOK

(* One socket moves on. *)
LEMMA SocketMoves ==
  ASSUME TypeOK, NEW k \in Sockets, NEW q \in SocketStates,
         socket' = [socket EXCEPT ![k] = q],
         q.open = socket[k].open, q.sess = socket[k].sess, q.f = socket[k].f,
         q.dst = socket[k].dst, q.reader # "gone", socket[k].reader # "gone"
  PROVE  socket' \in [Sockets -> SocketStates] /\ SocketsKept
  BY DEF TypeOK, SocketsKept

(* What a frame to connections that have seen the accept message does. *)
LEMMA Sending ==
  ASSUME IInv, NEW C \in SUBSET Conns, SendTo(C), UNCHANGED <<pc, writers>>,
         \A c \in C : pc[c] \notin {"idle", "attached"}
  PROVE  wire' \in [Conns -> SUBSET {"accept", "frame"}] /\ WritersHaveAccepted'
<1>1. ASSUME NEW c \in Conns
      PROVE  /\ wire'[c] \in SUBSET {"accept", "frame"}
             /\ "accept" \in wire[c] => "accept" \in wire'[c]
             /\ "frame" \in wire'[c] => "frame" \in wire[c] \/ c \in C
  BY DEF SendTo, IInv, TypeOK
<1>2. wire' \in [Conns -> SUBSET {"accept", "frame"}]
  BY <1>1 DEF SendTo
<1> QED
  BY <1>1, <1>2 DEF IInv, WritersHaveAccepted, AcceptComesFirst

(* A slot of the quota that was taken for a flow is given back. *)
LEMMA SlotGivenBack ==
  ASSUME IInv, NEW c \in Conns, pc[c] \in {"reserved", "overshot"},
         total' = total - 1, UNCHANGED socket, pc' = [pc EXCEPT ![c] = "serving"]
  PROVE  QuotaIsKept' /\ total' \in Nat
<1>1. OpenSockets' = OpenSockets
  BY DEF OpenSockets
<1>2. /\ Reserving' = Reserving \ {c} /\ c \in Reserving
      /\ Reserved' \subseteq Reserved
  BY DEF Reserving, Reserved, IInv, TypeOK
<1>3. /\ Cardinality(Reserving') = Cardinality(Reserving) - 1
      /\ Cardinality(Reserving) \in Nat /\ Cardinality(Reserving') \in Nat
  BY <1>2, FiniteSets, FS_RemoveElement, FS_CardinalityType
<1>4. /\ Cardinality(Reserved') <= Cardinality(Reserved)
      /\ Cardinality(Reserved) \in Nat /\ Cardinality(Reserved') \in Nat
  BY <1>2, FiniteSets, SmallerSet
<1>5. Cardinality(OpenSockets) \in Nat
  BY FiniteSets, FS_CardinalityType
<1>6. /\ total = Cardinality(OpenSockets) + Cardinality(Reserving)
      /\ Cardinality(OpenSockets) + Cardinality(Reserved) <= MaxTotalFlows
  BY DEF IInv, QuotaIsKept
<1> QED
  BY <1>1, <1>3, <1>4, <1>5, <1>6, GlueServerAssumption DEF QuotaIsKept

(* Closing flows frees their slots of the quota, and no others. *)
LEMMA FlowsClosed ==
  ASSUME IInv, NEW s \in Sessions, NEW F \in SUBSET FlowsOf(s), CloseFlows(s, F),
         \A c \in Conns : /\ pc'[c] = "reserved" <=> pc[c] = "reserved"
                          /\ pc'[c] = "overshot" <=> pc[c] = "overshot"
  PROVE  /\ flows' \in [Sessions -> [FlowIDs -> Sockets \union {None}]]
         /\ socket' \in [Sockets -> SocketStates]
         /\ total' \in Nat
         /\ ReadersKnowTheirFlow' /\ FlowsAreOpen' /\ QuotaIsKept'
         /\ \A r \in Sessions, f \in FlowIDs :
              flows'[r][f] = IF r = s /\ f \in F THEN None ELSE flows[r][f]
         /\ \A k \in Sockets :
              /\ socket'[k].sess = socket[k].sess /\ socket'[k].f = socket[k].f
              /\ socket'[k].open <=> socket[k].open /\ \A f \in F : flows[s][f] # k
              /\ socket'[k].open => socket'[k].dst = socket[k].dst
         /\ \A k \in OpenSockets' :
              /\ socket'[k].sess \in Registered
              /\ flows'[socket'[k].sess][socket'[k].f] = k
              /\ ~(socket'[k].sess = s /\ socket'[k].f \in F)
<1> DEFINE n == Cardinality(F)
<1>1. /\ flows' \in [Sessions -> [FlowIDs -> Sockets \union {None}]]
      /\ socket' \in [Sockets -> SocketStates]
      /\ \A r \in Sessions, f \in FlowIDs :
           flows'[r][f] = IF r = s /\ f \in F THEN None ELSE flows[r][f]
      /\ \A k \in Sockets :
           /\ socket'[k].reader = socket[k].reader
           /\ socket'[k].sess = socket[k].sess /\ socket'[k].f = socket[k].f
           /\ socket'[k].open <=> socket[k].open /\ \A f \in F : flows[s][f] # k
           /\ socket'[k].open => socket'[k].dst = socket[k].dst
      /\ total' = total - n
      /\ n \in Nat
      /\ Cardinality(OpenSockets') = Cardinality(OpenSockets) - n
  BY ClosingFlows DEF IInv
<1> HIDE DEF n
<1>2. ReadersKnowTheirFlow'
  BY <1>1 DEF IInv, ReadersKnowTheirFlow
<1>3. FlowsAreOpen'
  <2> SUFFICES ASSUME NEW r \in Sessions, NEW f \in FlowIDs, flows'[r][f] # None
               PROVE  /\ socket'[flows'[r][f]].open
                      /\ socket'[flows'[r][f]].sess = r /\ socket'[flows'[r][f]].f = f
    BY DEF FlowsAreOpen
  <2>1. PICK k \in Sockets : k = flows[r][f]
    BY <1>1 DEF IInv, TypeOK
  <2>2. /\ flows'[r][f] = k /\ ~(r = s /\ f \in F)
        /\ socket[k].open /\ socket[k].sess = r /\ socket[k].f = f
    BY <1>1, <2>1 DEF IInv, FlowsAreOpen
  <2>3. ASSUME NEW g \in F PROVE flows[s][g] # k
    <3>1. g \in FlowIDs /\ flows[s][g] # None
      BY DEF FlowsOf
    <3>2. socket[flows[s][g]].sess = s /\ socket[flows[s][g]].f = g
      BY <3>1 DEF IInv, FlowsAreOpen
    <3> QED
      BY <3>2, <2>2
  <2> QED
    BY <1>1, <2>2, <2>3
<1>4. Reserving' = Reserving /\ Reserved' = Reserved
  BY DEF Reserving, Reserved
<1>5. QuotaIsKept' /\ total' \in Nat
  <2>1. /\ Cardinality(OpenSockets') \in Nat /\ Cardinality(OpenSockets) \in Nat
        /\ Cardinality(Reserving) \in Nat /\ Cardinality(Reserved) \in Nat
    BY FiniteSets, FiniteSetsPrimed, FS_CardinalityType
  <2>2. /\ total = Cardinality(OpenSockets) + Cardinality(Reserving)
        /\ Cardinality(OpenSockets) + Cardinality(Reserved) <= MaxTotalFlows
    BY DEF IInv, QuotaIsKept
  <2> QED
    BY <1>1, <1>4, <2>1, <2>2, GlueServerAssumption DEF QuotaIsKept
<1>6. ASSUME NEW k \in OpenSockets'
      PROVE  /\ socket'[k].sess \in Registered
             /\ flows'[socket'[k].sess][socket'[k].f] = k
             /\ ~(socket'[k].sess = s /\ socket'[k].f \in F)
  <2>1. /\ k \in Sockets /\ k \in OpenSockets
        /\ \A f \in F : flows[s][f] # k
        /\ socket'[k].sess = socket[k].sess /\ socket'[k].f = socket[k].f
    BY <1>1 DEF OpenSockets
  <2>2. socket[k].sess \in Registered /\ flows[socket[k].sess][socket[k].f] = k
    BY <2>1 DEF IInv, OpenSocketsAreReachable
  <2>3. socket[k].sess \in Sessions /\ socket[k].f \in FlowIDs
    BY <2>1 DEF IInv, ReadersKnowTheirFlow, OpenSockets
  <2> QED
    BY <1>1, <2>1, <2>2, <2>3
<1> HIDE DEF OpenSockets
<1> QED
  BY <1>1, <1>2, <1>3, <1>5, <1>6

-----------------------------------------------------------------------------
(* Joining and leaving.                                                    *)
LEMMA JoinIInv ==
  ASSUME IInv, NEW c \in Conns, NEW id \in SIDs, NEW k \in Keys, Join(c, id, k)
  PROVE  IInv'
<1> USE GlueServerAssumption DEF Join, Enter, flowVars
<1>0. PICK s \in Sessions : s = registry[id]
  BY DEF IInv, TypeOK
<1>a. s \in Sessions /\ s \in Registered /\ owner[s] = k /\ at[c] = None
  BY <1>0 DEF IInv, TypeOK, Registered, HandlersAreTidy
<1>b. emptyAge' = [emptyAge EXCEPT ![s] = Occupied] /\ at' = [at EXCEPT ![c] = s]
  BY <1>0
<1>i. Cardinality(Paths(s)) < MaxPathsPerSession
  BY <1>0
<1>c. /\ Paths(s)' = Paths(s) \union {c} /\ c \notin Paths(s)
      /\ \A r \in Sessions \ {s} : Paths(r)' = Paths(r)
  <2>1. pc'[c] # "idle" /\ at'[c] = s /\ at[c] # s
    BY <1>a, <1>b DEF IInv, TypeOK
  <2>2. \A d \in Conns \ {c} : pc'[d] = pc[d] /\ at'[d] = at[d]
    BY <1>b DEF IInv, TypeOK
  <2> HIDE DEF Join
  <2>3. \A r \in Sessions, d \in Conns : d \in Paths(r)' <=> d \in Paths(r) \/ (d = c /\ r = s)
    BY <2>1, <2>2, <1>a DEF Paths, IInv, HandlersAreTidy
  <2>4. \A r \in Sessions : Paths(r)' \subseteq Conns /\ Paths(r) \subseteq Conns
    BY DEF Paths
  <2>5. c \notin Paths(s)
    BY <2>1 DEF Paths
  <2> QED
    BY <2>3, <2>4, <2>5, <1>a
<1>e. Registered' = Registered /\ \A j : SessionsOf(j)' = SessionsOf(j)
  BY DEF Registered, SessionsOf
<1>1. TypeOK'
  BY <1>a, <1>b DEF IInv, TypeOK, Steps
<1>2. ReadersKnowTheirFlow' /\ FlowsAreOpen' /\ OpenSocketsAreReachable'
  BY SocketsUntouched
<1>3. HandlersAreTidy'
  BY <1>a, <1>b DEF IInv, HandlersAreTidy, TypeOK, InFlow
<1>4. OneInFlow'
  BY DEF IInv, OneInFlow, Unlocked, InFlow, TypeOK
<1>5. FlowIsUnbound'
  BY DEF IInv, FlowIsUnbound, InFlow, TypeOK
<1>6. SessionHasRoom' /\ FlowLimit'
  BY FlowsSteady DEF IInv, TypeOK
<1>7. PayloadsReachTheirDestination'
  BY DEF IInv, PayloadsReachTheirDestination, HandlersAreTidy, TypeOK
<1>8. QuotaIsKept'
  BY QuotaSteady DEF IInv, TypeOK
<1>9. RegistryLimits'
  BY <1>e DEF IInv, RegistryLimits
<1>10. PathLimit'
  <2>1. Cardinality(Paths(s)') = Cardinality(Paths(s)) + 1
    BY <1>c, FiniteSets, FS_AddElement
  <2>2. Cardinality(Paths(s)) \in Nat
    BY FiniteSets, FS_CardinalityType
  <2>3. Cardinality(Paths(s)') <= MaxPathsPerSession
    BY <2>1, <2>2, <1>i
  <2>4. \A r \in Sessions \ {s} : Cardinality(Paths(r)') <= MaxPathsPerSession
    <3>1. \A r \in Sessions : Cardinality(Paths(r)) <= MaxPathsPerSession
      BY DEF IInv, PathLimit
    <3> HIDE DEF Join
    <3> QED
      BY <1>c, <3>1
  <2> QED
    BY <2>3, <2>4 DEF PathLimit
<1>11. UnknownAreOccupied'
  BY <1>a, <1>b, <1>e DEF IInv, UnknownAreOccupied, TypeOK
<1>12. PathsKeepTheirSession'
  <2>1. ASSUME NEW r \in Registered'
        PROVE  (Paths(r) = {} <=> emptyAge[r] # Occupied)'
    <3>1. r \in Registered /\ r \in Sessions
      BY <1>e DEF Registered, IInv, TypeOK
    <3>2. Paths(r) = {} <=> emptyAge[r] # Occupied
      BY <3>1 DEF IInv, PathsKeepTheirSession
    <3>3. emptyAge'[r] = IF r = s THEN Occupied ELSE emptyAge[r]
      BY <3>1, <1>b DEF IInv, TypeOK
    <3> HIDE DEF Join
    <3>4. CASE r = s
      BY <3>3, <3>4, <1>c
    <3>5. CASE r # s
      BY <3>1, <3>2, <3>3, <3>5, <1>c
    <3> QED
      BY <3>4, <3>5
  <2>2. ASSUME NEW d \in Conns, pc'[d] # "idle"
        PROVE  at'[d] \in Registered' /\ owner'[at'[d]] = peer'[d]
    <3>1. CASE d = c
      BY <3>1, <1>a, <1>b, <1>e DEF IInv, TypeOK
    <3>2. CASE d # c
      BY <3>2, <2>2, <1>b, <1>e DEF IInv, PathsKeepTheirSession, TypeOK
    <3> QED
      BY <3>1, <3>2
  <2> QED
    BY <2>1, <2>2 DEF PathsKeepTheirSession
<1>13. WritersHaveAccepted'
  BY DEF IInv, WritersHaveAccepted, AcceptComesFirst, TypeOK
<1> QED
  BY <1>1, <1>2, <1>3, <1>4, <1>5, <1>6, <1>7, <1>8, <1>9, <1>10, <1>11,
    <1>12, <1>13 DEF IInv

LEMMA CreateIInv ==
  ASSUME IInv, NEW c \in Conns, NEW id \in SIDs, NEW k \in Keys, Create(c, id, k)
  PROVE  IInv'
<1> USE GlueServerAssumption DEF Enter
<1>0. /\ pc[c] = "idle" /\ registry[id] = None /\ at[c] = None
  BY DEF Create, IInv, HandlersAreTidy
<1>1. PICK evicted \in RoomFor(k), new \in UnusedSessions :
       /\ Cardinality(Registered \ evicted) < MaxGlueSessions
       /\ registry' = [i \in SIDs |->
                         IF i = id THEN new
                         ELSE IF registry[i] \in evicted THEN None
                         ELSE registry[i]]
       /\ owner' = [s \in Sessions |->
                      IF s = new THEN k ELSE IF s \in evicted THEN None ELSE owner[s]]
       /\ emptyAge' = [s \in Sessions |-> IF s \in evicted THEN Occupied ELSE emptyAge[s]]
       /\ \/ evicted = {} /\ UNCHANGED flowVars
          \/ \E s \in evicted : CloseFlows(s, FlowsOf(s))
       /\ Enter(c, k, new)
  BY DEF Create
<1>2. /\ pc' = [pc EXCEPT ![c] = "attached"]
      /\ peer' = [peer EXCEPT ![c] = k]
      /\ at' = [at EXCEPT ![c] = new]
      /\ UNCHANGED <<want, uses, writers, wire>>
  BY <1>1
<1> HIDE DEF Enter
<1> USE <1>2
<1>3. Registered \subseteq Sessions /\ IsFiniteSet(Registered)
  <2>1. registry \in [SIDs -> Sessions \union {None}]
    BY DEF IInv, TypeOK
  <2>2. IsFiniteSet(Registered)
    BY <2>1, RegistryIsFinite DEF Registered
  <2> QED
    BY <2>1, <2>2 DEF Registered
<1>4. /\ new \in Sessions /\ new \notin Registered /\ new # None
      /\ \A d \in Conns : at[d] # new
      /\ \A j \in Sockets : socket[j].sess # new
  BY DEF UnusedSessions
<1>5. SessionsOf(k) \subseteq Registered
  BY DEF SessionsOf
<1>6. \/ evicted = {} /\ Cardinality(SessionsOf(k)) < MaxSessionsPerClient
      \/ \E s \in SessionsOf(k) : evicted = {s} /\ Paths(s) = {}
  BY DEF RoomFor
<1>7. evicted \subseteq Sessions /\ new \notin evicted /\ evicted \subseteq Registered
  BY <1>3, <1>4, <1>5, <1>6
<1>8. Registered' = (Registered \ evicted) \union {new}
  <2> DEFINE R == {registry[i] : i \in SIDs}
  <2>1. R \ {None} = Registered
    BY DEF Registered
  <2>2. None \notin evicted
    BY <1>7
  <2>3. {registry'[i] : i \in SIDs} \ {None} = ((R \ {None}) \ evicted) \union {new}
    BY <1>0, <1>1, <1>4, <2>2
  <2> QED
    BY <2>1, <2>3 DEF Registered
<1>9. \A r \in Sessions : /\ r \notin evicted /\ r # new => owner'[r] = owner[r]
                          /\ r \notin evicted => emptyAge'[r] = emptyAge[r]
                          /\ r \in evicted => emptyAge'[r] = Occupied
  BY <1>1
<1>10. owner'[new] = k /\ emptyAge'[new] = Occupied
  BY <1>1, <1>4, <1>7 DEF IInv, UnknownAreOccupied
<1>11. \A d \in Conns : d # c => pc'[d] = pc[d] /\ at'[d] = at[d] /\ peer'[d] = peer[d]
  BY DEF IInv, TypeOK
<1>12. pc'[c] = "attached" /\ at'[c] = new /\ peer'[c] = k
  BY DEF IInv, TypeOK
<1>13. Paths(new)' = {c} /\ \A r \in Sessions \ {new} : Paths(r)' = Paths(r)
  <2>1. \A r \in Sessions, d \in Conns :
          d \in Paths(r)' <=> (d # c /\ d \in Paths(r)) \/ (d = c /\ r = new)
    BY <1>0, <1>11, <1>12 DEF Paths
  <2>2. /\ \A r \in Sessions : Paths(r)' \subseteq Conns /\ Paths(r) \subseteq Conns
        /\ Paths(new) = {} /\ \A r : c \notin Paths(r)
    BY <1>0, <1>4 DEF Paths
  <2> QED
    BY <2>1, <2>2, <1>4
<1>14. \A d \in Conns : pc[d] # "idle" => at[d] \in Registered \ evicted
  <2>1. \A d \in Conns : pc[d] # "idle" => at[d] \in Registered /\ d \in Paths(at[d])
    BY DEF IInv, PathsKeepTheirSession, Paths
  <2> QED
    BY <1>6, <2>1
<1>15. /\ flows' \in [Sessions -> [FlowIDs -> Sockets \union {None}]]
       /\ socket' \in [Sockets -> SocketStates]
       /\ total' \in Nat
       /\ ReadersKnowTheirFlow' /\ FlowsAreOpen' /\ QuotaIsKept'
       /\ \A r \in Sessions, f \in FlowIDs : flows[r][f] = None => flows'[r][f] = None
       /\ \A j \in Sockets :
            /\ socket'[j].sess = socket[j].sess /\ socket'[j].f = socket[j].f
            /\ socket'[j].open => socket[j].open /\ socket'[j].dst = socket[j].dst
       /\ \A j \in OpenSockets' :
            /\ socket'[j].sess \in Registered \ evicted
            /\ flows'[socket'[j].sess][socket'[j].f] = j
  <2>1. \A d \in Conns : /\ pc'[d] = "reserved" <=> pc[d] = "reserved"
                         /\ pc'[d] = "overshot" <=> pc[d] = "overshot"
    BY <1>0, <1>11, <1>12
  <2>2. CASE evicted = {} /\ UNCHANGED flowVars
    <3>1. UNCHANGED <<flows, socket, total>>
      BY <2>2 DEF flowVars
    <3>2. QuotaIsKept'
      BY <3>1, <2>1, QuotaSteady
    <3>3. OpenSockets' = OpenSockets
      BY <3>1 DEF OpenSockets
    <3>4. \A j \in OpenSockets' : /\ socket'[j].sess \in Registered \ evicted
                                  /\ flows'[socket'[j].sess][socket'[j].f] = j
      BY <2>2, <3>1, <3>3 DEF IInv, OpenSocketsAreReachable
    <3> QED
      BY <3>1, <3>2, <3>4 DEF IInv, TypeOK, ReadersKnowTheirFlow, FlowsAreOpen
  <2>3. CASE \E s \in evicted : CloseFlows(s, FlowsOf(s))
    <3>1. PICK s \in evicted : CloseFlows(s, FlowsOf(s))
      BY <2>3
    <3>2. s \in Sessions /\ evicted = {s}
      BY <1>6, <1>7
    <3> DEFINE F == FlowsOf(s)
    <3>3. F \in SUBSET FlowsOf(s) /\ CloseFlows(s, F)
      BY <3>1
    <3> HIDE DEF F
    <3>4. /\ flows' \in [Sessions -> [FlowIDs -> Sockets \union {None}]]
          /\ socket' \in [Sockets -> SocketStates]
          /\ total' \in Nat
          /\ ReadersKnowTheirFlow' /\ FlowsAreOpen' /\ QuotaIsKept'
          /\ \A r \in Sessions, f \in FlowIDs :
               flows'[r][f] = IF r = s /\ f \in F THEN None ELSE flows[r][f]
          /\ \A j \in Sockets :
               /\ socket'[j].sess = socket[j].sess /\ socket'[j].f = socket[j].f
               /\ socket'[j].open <=> socket[j].open /\ \A f \in F : flows[s][f] # j
               /\ socket'[j].open => socket'[j].dst = socket[j].dst
          /\ \A j \in OpenSockets' :
               /\ socket'[j].sess \in Registered
               /\ flows'[socket'[j].sess][socket'[j].f] = j
               /\ ~(socket'[j].sess = s /\ socket'[j].f \in F)
      BY <2>1, <3>2, <3>3, FlowsClosed
    <3>5. ASSUME NEW j \in OpenSockets' PROVE socket'[j].sess # s
      <4>1. j \in Sockets /\ socket'[j].open /\ socket'[j].f \in FlowIDs
        BY <3>4 DEF OpenSockets, ReadersKnowTheirFlow
      <4>2. CASE socket'[j].sess = s
        <5>1. flows'[s][socket'[j].f] = j /\ socket'[j].f \notin F
          BY <3>4, <4>2
        <5>2. flows[s][socket'[j].f] = j
          BY <3>2, <3>4, <4>1, <5>1, GlueServerAssumption
        <5> QED
          BY <4>1, <5>1, <5>2, GlueServerAssumption DEF F, FlowsOf
      <4> QED
        BY <4>2
    <3> QED
      BY <3>2, <3>4, <3>5
  <2> QED
    BY <1>1, <2>2, <2>3
<1>16. TypeOK'
  <2>1. /\ registry' \in [SIDs -> Sessions \union {None}]
        /\ owner' \in [Sessions -> Keys \union {None}]
        /\ emptyAge' \in [Sessions -> {Occupied} \union 0 .. SessionIdle + 1]
    BY <1>1, <1>4 DEF IInv, TypeOK
  <2>2. /\ pc' \in [Conns -> Steps] /\ peer' \in [Conns -> Keys \union {None}]
        /\ at' \in [Conns -> Sessions \union {None}]
    BY <1>4 DEF IInv, TypeOK, Steps
  <2> QED
    BY <1>15, <2>1, <2>2 DEF IInv, TypeOK
<1>17. OpenSocketsAreReachable'
  BY <1>8, <1>15 DEF OpenSocketsAreReachable
<1>18. HandlersAreTidy' /\ OneInFlow'
  <2>1. HandlersAreTidy'
    BY <1>0, <1>4, <1>11, <1>12, GlueServerAssumption DEF IInv, HandlersAreTidy, InFlow
  <2>2. OneInFlow'
    BY <1>11, <1>12 DEF IInv, OneInFlow, InFlow
  <2> QED
    BY <2>1, <2>2
<1>19. FlowIsUnbound'
  <2> SUFFICES ASSUME NEW d \in Conns, pc'[d] \in InFlow
               PROVE  flows'[at'[d]][want[d].f] = None
    BY DEF FlowIsUnbound
  <2>1. pc[d] \in InFlow /\ at'[d] = at[d]
    BY <1>11, <1>12 DEF InFlow
  <2>2. at[d] \in Sessions /\ want[d].f \in FlowIDs /\ flows[at[d]][want[d].f] = None
    BY <2>1 DEF IInv, TypeOK, HandlersAreTidy, FlowIsUnbound, InFlow
  <2> QED
    BY <1>15, <2>1, <2>2
<1>20. SessionHasRoom' /\ FlowLimit'
  BY <1>11, <1>12, <1>15, FlowsSteady
<1>21. PayloadsReachTheirDestination'
  <2> SUFFICES ASSUME NEW d \in Conns, uses[d] # None, socket'[uses[d]].open
               PROVE  /\ socket'[uses[d]].sess = at'[d] /\ socket'[uses[d]].f = want[d].f
                      /\ socket'[uses[d]].dst = want[d].dst
    BY DEF PayloadsReachTheirDestination
  <2>1. uses[d] \in Sockets /\ at'[d] = at[d]
    BY <1>0, <1>11 DEF IInv, TypeOK, HandlersAreTidy
  <2> QED
    BY <1>15, <2>1 DEF IInv, PayloadsReachTheirDestination
<1>22. RegistryLimits'
  <2>1. IsFiniteSet(Registered \ evicted) /\ new \notin Registered \ evicted
    BY <1>3, <1>4, FS_Subset
  <2>2. Cardinality(Registered') <= MaxGlueSessions
    <3>1. Cardinality(Registered') = Cardinality(Registered \ evicted) + 1
      BY <1>8, <2>1, FS_AddElement
    <3>2. Cardinality(Registered \ evicted) \in Nat
      BY <2>1, FS_CardinalityType
    <3> QED
      BY <3>1, <3>2, <1>1, GlueServerAssumption
  <2>3. IsFiniteSet(SessionsOf(k)) /\ Cardinality(SessionsOf(k)) \in Nat
    BY <1>3, <1>5, FS_Subset, FS_CardinalityType
  <2>4. SessionsOf(k)' = (SessionsOf(k) \ evicted) \union {new} /\ new \notin SessionsOf(k)
    BY <1>3, <1>4, <1>8, <1>9, <1>10 DEF SessionsOf
  <2>5. Cardinality(SessionsOf(k)) <= MaxSessionsPerClient
    BY DEF IInv, RegistryLimits
  <2>6. /\ Cardinality(SessionsOf(k) \ evicted) \in Nat
        /\ Cardinality(SessionsOf(k) \ evicted) < MaxSessionsPerClient
    <3>1. CASE evicted = {} /\ Cardinality(SessionsOf(k)) < MaxSessionsPerClient
      <4>1. SessionsOf(k) \ evicted = SessionsOf(k)
        BY <3>1
      <4> QED
        BY <3>1, <4>1, <2>3
    <3>2. CASE \E s \in SessionsOf(k) : evicted = {s} /\ Paths(s) = {}
      <4>1. PICK s \in SessionsOf(k) : evicted = {s}
        BY <3>2
      <4>2. /\ Cardinality(SessionsOf(k) \ {s}) = Cardinality(SessionsOf(k)) - 1
            /\ IsFiniteSet(SessionsOf(k) \ {s})
        BY <2>3, FS_RemoveElement
      <4>3. Cardinality(SessionsOf(k) \ {s}) \in Nat
        BY <4>2, FS_CardinalityType
      <4> QED
        BY <4>1, <4>2, <4>3, <2>3, <2>5, GlueServerAssumption
    <3> QED
      BY <1>6, <3>1, <3>2
  <2>7. Cardinality(SessionsOf(k)') = Cardinality(SessionsOf(k) \ evicted) + 1
    <3>1. IsFiniteSet(SessionsOf(k) \ evicted) /\ new \notin SessionsOf(k) \ evicted
      BY <2>3, <2>4, FS_Subset
    <3> QED
      BY <2>4, <3>1, FS_AddElement
  <2>8. Cardinality(SessionsOf(k)') <= MaxSessionsPerClient
    BY <2>6, <2>7, GlueServerAssumption
  <2>9. ASSUME NEW j \in Keys, j # k
        PROVE  Cardinality(SessionsOf(j)') <= MaxSessionsPerClient
    <3>1. SessionsOf(j)' \subseteq SessionsOf(j)
      BY <1>3, <1>8, <1>9, <1>10, <2>9 DEF SessionsOf
    <3>2. IsFiniteSet(SessionsOf(j))
      BY <1>3, FS_Subset DEF SessionsOf
    <3>3. /\ Cardinality(SessionsOf(j)') <= Cardinality(SessionsOf(j))
          /\ Cardinality(SessionsOf(j)') \in Nat /\ Cardinality(SessionsOf(j)) \in Nat
      BY <3>1, <3>2, SmallerSet
    <3>4. Cardinality(SessionsOf(j)) <= MaxSessionsPerClient
      BY DEF IInv, RegistryLimits
    <3> QED
      BY <3>3, <3>4, GlueServerAssumption
  <2> QED
    BY <2>2, <2>8, <2>9 DEF RegistryLimits
<1>23. PathLimit'
  <2>1. Cardinality(Paths(new)') <= MaxPathsPerSession
    <3>1. Cardinality({c}) = 1
      BY FS_Singleton
    <3> QED
      BY <3>1, <1>13, GlueServerAssumption
  <2>2. \A r \in Sessions : Cardinality(Paths(r)) <= MaxPathsPerSession
    BY DEF IInv, PathLimit
  <2>3. \A r \in Sessions \ {new} : Cardinality(Paths(r)') <= MaxPathsPerSession
    BY <1>13, <2>2
  <2> QED
    BY <2>1, <2>3 DEF PathLimit
<1>24. UnknownAreOccupied'
  BY <1>7, <1>8, <1>9, <1>10 DEF IInv, UnknownAreOccupied
<1>25. PathsKeepTheirSession'
  <2>1. ASSUME NEW r \in Registered'
        PROVE  (Paths(r) = {} <=> emptyAge[r] # Occupied)'
    <3>1. CASE r = new
      BY <3>1, <1>10, <1>13
    <3>2. CASE r # new
      <4>1. r \in Registered \ evicted /\ r \in Sessions
        BY <3>2, <1>3, <1>8
      <4>2. Paths(r) = {} <=> emptyAge[r] # Occupied
        BY <4>1 DEF IInv, PathsKeepTheirSession
      <4> QED
        BY <3>2, <4>1, <4>2, <1>9, <1>13
    <3> QED
      BY <3>1, <3>2
  <2>2. ASSUME NEW d \in Conns, pc'[d] # "idle"
        PROVE  at'[d] \in Registered' /\ owner'[at'[d]] = peer'[d]
    <3>1. CASE d = c
      BY <3>1, <1>8, <1>10, <1>12
    <3>2. CASE d # c
      <4>1. pc[d] # "idle" /\ at'[d] = at[d] /\ peer'[d] = peer[d]
        BY <2>2, <3>2, <1>11
      <4>2. at[d] \in Registered \ evicted /\ at[d] \in Sessions /\ at[d] # new
        BY <4>1, <1>3, <1>4, <1>14
      <4>3. owner[at[d]] = peer[d]
        BY <4>1 DEF IInv, PathsKeepTheirSession
      <4> QED
        BY <4>1, <4>2, <4>3, <1>8, <1>9
    <3> QED
      BY <3>1, <3>2
  <2> QED
    BY <2>1, <2>2 DEF PathsKeepTheirSession
<1>26. WritersHaveAccepted'
  BY <1>0, <1>11, <1>12 DEF IInv, WritersHaveAccepted, AcceptComesFirst
<1> QED
  BY <1>15, <1>16, <1>17, <1>18, <1>19, <1>20, <1>21, <1>22, <1>23, <1>24, <1>25,
     <1>26 DEF IInv

LEMMA WriteAcceptIInv ==
  ASSUME IInv, NEW c \in Conns, WriteAccept(c)
  PROVE  IInv'
<1> USE GlueServerAssumption DEF WriteAccept, sessionVars, flowVars
<1>1. TypeOK'
  BY DEF IInv, TypeOK, Steps, InFlow
<1>2. ReadersKnowTheirFlow' /\ FlowsAreOpen' /\ OpenSocketsAreReachable'
  BY SocketsUntouched
<1>3. HandlersAreTidy'
  BY DEF IInv, HandlersAreTidy, TypeOK, InFlow
<1>4. OneInFlow'
  BY DEF IInv, OneInFlow, Unlocked, InFlow, TypeOK
<1>5. FlowIsUnbound'
  BY DEF IInv, FlowIsUnbound, InFlow, TypeOK
<1>6. SessionHasRoom' /\ FlowLimit'
  BY FlowsSteady DEF IInv, TypeOK
<1>7. PayloadsReachTheirDestination'
  BY DEF IInv, PayloadsReachTheirDestination, HandlersAreTidy, TypeOK
<1>8. QuotaIsKept'
  BY QuotaSteady DEF IInv, TypeOK
<1>9. RegistryLimits' /\ PathLimit' /\ UnknownAreOccupied' /\ PathsKeepTheirSession'
  BY SessionsSteady DEF IInv, TypeOK
<1>10. WritersHaveAccepted'
  BY DEF IInv, WritersHaveAccepted, AcceptComesFirst, TypeOK
<1> QED
  BY <1>1, <1>2, <1>3, <1>4, <1>5, <1>6, <1>7, <1>8, <1>9, <1>10 DEF IInv

LEMMA SetWriterIInv ==
  ASSUME IInv, NEW c \in Conns, SetWriter(c)
  PROVE  IInv'
<1> USE GlueServerAssumption DEF SetWriter, sessionVars, flowVars
<1>1. TypeOK'
  BY DEF IInv, TypeOK, Steps, InFlow
<1>2. ReadersKnowTheirFlow' /\ FlowsAreOpen' /\ OpenSocketsAreReachable'
  BY SocketsUntouched
<1>3. HandlersAreTidy'
  BY DEF IInv, HandlersAreTidy, TypeOK, InFlow
<1>4. OneInFlow'
  BY DEF IInv, OneInFlow, Unlocked, InFlow, TypeOK
<1>5. FlowIsUnbound'
  BY DEF IInv, FlowIsUnbound, InFlow, TypeOK
<1>6. SessionHasRoom' /\ FlowLimit'
  BY FlowsSteady DEF IInv, TypeOK
<1>7. PayloadsReachTheirDestination'
  BY DEF IInv, PayloadsReachTheirDestination, HandlersAreTidy, TypeOK
<1>8. QuotaIsKept'
  BY QuotaSteady DEF IInv, TypeOK
<1>9. RegistryLimits' /\ PathLimit' /\ UnknownAreOccupied' /\ PathsKeepTheirSession'
  BY SessionsSteady DEF IInv, TypeOK
<1>10. WritersHaveAccepted'
  BY DEF IInv, WritersHaveAccepted, AcceptComesFirst, TypeOK
<1> QED
  BY <1>1, <1>2, <1>3, <1>4, <1>5, <1>6, <1>7, <1>8, <1>9, <1>10 DEF IInv

LEMMA DetachIInv ==
  ASSUME IInv, NEW c \in Conns, Detach(c)
  PROVE  IInv'
<1> USE GlueServerAssumption DEF Detach, flowVars
<1> DEFINE s == at[c]
<1>a. s \in Sessions /\ pc[c] # "idle"
  BY DEF IInv, TypeOK, HandlersAreTidy
<1>b. emptyAge' = IF Paths(s) = {c} THEN [emptyAge EXCEPT ![s] = 0] ELSE emptyAge
  BY DEF EmptyNow
<1> HIDE DEF s
<1>c. /\ \A r \in Sessions : Paths(r)' = Paths(r) \ {c}
      /\ \A r \in Sessions : c \in Paths(r) <=> r = s
  BY <1>a DEF Paths, IInv, TypeOK, s
<1>d. /\ emptyAge' \in [Sessions -> {Occupied} \union 0 .. SessionIdle + 1]
      /\ \A r \in Sessions :
           emptyAge'[r] # Occupied <=> emptyAge[r] # Occupied \/ (r = s /\ Paths(s) = {c})
  <2>1. 0 \in 0 .. SessionIdle + 1
    OBVIOUS
  <2> QED
    BY <1>a, <1>b, <2>1 DEF IInv, TypeOK, Occupied
<1>e. Registered' = Registered /\ \A k : SessionsOf(k)' = SessionsOf(k)
  BY DEF Registered, SessionsOf
<1>f. s \in Registered
  BY <1>a DEF IInv, PathsKeepTheirSession, s
<1>g. /\ pc' \in [Conns -> Steps] /\ peer' \in [Conns -> Keys \union {None}]
      /\ at' \in [Conns -> Sessions \union {None}] /\ writers' \in SUBSET Conns
      /\ wire' \in [Conns -> SUBSET {"accept", "frame"}]
  BY DEF IInv, TypeOK, Steps
<1>1. TypeOK'
  BY <1>d, <1>g DEF IInv, TypeOK
<1>2. ReadersKnowTheirFlow' /\ FlowsAreOpen' /\ OpenSocketsAreReachable'
  BY SocketsUntouched
<1>3. HandlersAreTidy'
  BY DEF IInv, HandlersAreTidy, TypeOK, InFlow
<1>4. OneInFlow'
  BY DEF IInv, OneInFlow, Unlocked, InFlow, TypeOK
<1>5. FlowIsUnbound'
  BY DEF IInv, FlowIsUnbound, InFlow, TypeOK
<1>6. SessionHasRoom' /\ FlowLimit'
  BY FlowsSteady DEF IInv, TypeOK
<1>7. PayloadsReachTheirDestination'
  BY DEF IInv, PayloadsReachTheirDestination, HandlersAreTidy, TypeOK
<1>8. QuotaIsKept'
  BY QuotaSteady DEF IInv, TypeOK
<1>9. RegistryLimits'
  BY <1>e DEF IInv, RegistryLimits
<1>10. PathLimit'
  <2> SUFFICES ASSUME NEW r \in Sessions
               PROVE  Cardinality(Paths(r)') <= MaxPathsPerSession
    BY DEF PathLimit
  <2>1. Cardinality(Paths(r)) <= MaxPathsPerSession /\ Paths(r)' \subseteq Paths(r)
    BY <1>c DEF IInv, PathLimit
  <2>2. /\ Cardinality(Paths(r)') \in Nat /\ Cardinality(Paths(r)) \in Nat
        /\ Cardinality(Paths(r)') <= Cardinality(Paths(r))
    BY <2>1, SmallerSet, FiniteSets
  <2> QED
    BY <2>1, <2>2
<1>11. UnknownAreOccupied'
  BY <1>d, <1>e, <1>f DEF IInv, UnknownAreOccupied
<1>12. PathsKeepTheirSession'
  <2>1. ASSUME NEW r \in Registered'
        PROVE  (Paths(r) = {} <=> emptyAge[r] # Occupied)'
    <3>1. r \in Registered /\ r \in Sessions
      BY <1>e DEF Registered, IInv, TypeOK
    <3>2. Paths(r) = {} <=> emptyAge[r] # Occupied
      BY <3>1 DEF IInv, PathsKeepTheirSession
    <3>3. CASE r = s
      BY <3>1, <3>2, <3>3, <1>c, <1>d
    <3>4. CASE r # s
      BY <3>1, <3>2, <3>4, <1>c, <1>d
    <3> QED
      BY <3>3, <3>4
  <2>2. \A d \in Conns : pc'[d] # "idle" =>
          d # c /\ pc[d] # "idle" /\ at'[d] = at[d] /\ peer'[d] = peer[d]
    BY DEF IInv, TypeOK
  <2>3. \A d \in Conns : pc'[d] # "idle" => at'[d] \in Registered' /\ owner'[at'[d]] = peer'[d]
    BY <2>2, <1>e DEF IInv, PathsKeepTheirSession
  <2> QED
    BY <2>1, <2>3 DEF PathsKeepTheirSession
<1>13. WritersHaveAccepted'
  BY DEF IInv, WritersHaveAccepted, AcceptComesFirst, TypeOK
<1> QED
  BY <1>1, <1>2, <1>3, <1>4, <1>5, <1>6, <1>7, <1>8, <1>9, <1>10, <1>11,
    <1>12, <1>13 DEF IInv

-----------------------------------------------------------------------------
(* Serving a path.                                                         *)
LEMMA PingIInv ==
  ASSUME IInv, NEW c \in Conns, Ping(c)
  PROVE  IInv'
<1> USE GlueServerAssumption DEF Ping, sessionVars, flowVars, handlerVars
<1>a. PICK C \in SUBSET Conns : SendTo(C) /\ \A d \in C : pc[d] \notin {"idle", "attached"}
  BY DEF Receivers, Paths, IInv, WritersHaveAccepted
<1>b. wire' \in [Conns -> SUBSET {"accept", "frame"}] /\ WritersHaveAccepted'
  BY <1>a, Sending
<1>1. TypeOK'
  BY <1>b DEF IInv, TypeOK, Steps, InFlow
<1>2. ReadersKnowTheirFlow' /\ FlowsAreOpen' /\ OpenSocketsAreReachable'
  BY SocketsUntouched
<1>3. HandlersAreTidy' /\ OneInFlow' /\ FlowIsUnbound'
  BY HandlersSteady
<1>4. SessionHasRoom' /\ FlowLimit'
  BY FlowsSteady DEF IInv, TypeOK
<1>5. PayloadsReachTheirDestination'
  BY DEF IInv, PayloadsReachTheirDestination, HandlersAreTidy, TypeOK
<1>6. QuotaIsKept'
  BY QuotaSteady DEF IInv, TypeOK
<1>7. RegistryLimits' /\ PathLimit' /\ UnknownAreOccupied' /\ PathsKeepTheirSession'
  BY SessionsSteady DEF IInv, TypeOK
<1>8. WritersHaveAccepted'
  BY <1>b
<1> QED
  BY <1>1, <1>2, <1>3, <1>4, <1>5, <1>6, <1>7, <1>8 DEF IInv

LEMMA FrameIInv ==
  ASSUME IInv, NEW c \in Conns, NEW f \in FlowIDs, NEW d \in Dsts, Frame(c, f, d)
  PROVE  IInv'
<1> USE GlueServerAssumption DEF Frame, sessionVars, flowVars, pathVars
<1>1. TypeOK'
  BY DEF IInv, TypeOK, Steps, InFlow
<1>2. ReadersKnowTheirFlow' /\ FlowsAreOpen' /\ OpenSocketsAreReachable'
  BY SocketsUntouched
<1>3. HandlersAreTidy'
  BY DEF IInv, HandlersAreTidy, TypeOK, InFlow
<1>4. OneInFlow'
  BY DEF IInv, OneInFlow, Unlocked, InFlow, TypeOK
<1>5. FlowIsUnbound'
  BY DEF IInv, FlowIsUnbound, InFlow, TypeOK
<1>6. SessionHasRoom' /\ FlowLimit'
  BY FlowsSteady DEF IInv, TypeOK
<1>7. PayloadsReachTheirDestination'
  BY DEF IInv, PayloadsReachTheirDestination, HandlersAreTidy, TypeOK
<1>8. QuotaIsKept'
  BY QuotaSteady DEF IInv, TypeOK
<1>9. RegistryLimits' /\ PathLimit' /\ UnknownAreOccupied' /\ PathsKeepTheirSession'
  BY SessionsSteady DEF IInv, TypeOK
<1>10. WritersHaveAccepted'
  BY WritersSteady DEF IInv, TypeOK
<1> QED
  BY <1>1, <1>2, <1>3, <1>4, <1>5, <1>6, <1>7, <1>8, <1>9, <1>10 DEF IInv

LEMMA KnownFlowIInv ==
  ASSUME IInv, NEW c \in Conns, KnownFlow(c)
  PROVE  IInv'
<1> USE GlueServerAssumption DEF KnownFlow, sessionVars, pathVars
<1> DEFINE k == SocketFor(c)
<1>a. /\ k \in Sockets /\ k = flows[at[c]][want[c].f]
       /\ at[c] \in Sessions /\ want[c].f \in FlowIDs
       /\ socket[k].dst = want[c].dst
  <2>1. at[c] \in Sessions /\ want[c].f \in FlowIDs
    BY DEF IInv, TypeOK, HandlersAreTidy
  <2>2. k # None /\ k = flows[at[c]][want[c].f] /\ socket[k].dst = want[c].dst
    BY DEF SocketFor
  <2>3. k \in Sockets
    BY <2>1, <2>2 DEF IInv, TypeOK
  <2> QED
    BY <2>1, <2>2, <2>3
<1>b. socket[k].open /\ socket[k].sess = at[c] /\ socket[k].f = want[c].f
  <2> HIDE DEF k, KnownFlow
  <2>1. FlowsAreOpen
    BY DEF IInv
  <2>2. at[c] \in Sessions /\ want[c].f \in FlowIDs
    BY <1>a
  <2>3. k # None /\ k = flows[at[c]][want[c].f]
    BY <1>a
  <2> QED
    BY <2>1, <2>2, <2>3 DEF FlowsAreOpen
<1>c. socket' \in [Sockets -> SocketStates] /\ SocketsKept
  <2> DEFINE r == socket[k]
             q == [r EXCEPT !.age = 0]
  <2>1. socket' = [socket EXCEPT ![k] = q] /\ r \in SocketStates /\ r.reader # "gone"
    BY <1>a, <1>b DEF IInv, TypeOK, ReadersKnowTheirFlow
  <2> HIDE DEF r
  <2>2. /\ q \in SocketStates /\ q.open = r.open /\ q.sess = r.sess /\ q.f = r.f
        /\ q.dst = r.dst /\ q.reader = r.reader
    BY <2>1 DEF SocketStates
  <2> QED
    BY <1>a, <2>1, <2>2, SocketMoves DEF r, IInv
<1>d. uses' = [uses EXCEPT ![c] = k]
  OBVIOUS
<1> HIDE DEF k
<1>1. TypeOK'
  BY <1>c, <1>d, <1>a DEF IInv, TypeOK, Steps, InFlow
<1>2. ReadersKnowTheirFlow' /\ FlowsAreOpen' /\ OpenSocketsAreReachable'
  BY <1>c, SocketsSteady
<1>3. HandlersAreTidy'
  BY <1>d, <1>a DEF IInv, HandlersAreTidy, TypeOK, InFlow
<1>4. OneInFlow'
  BY DEF IInv, OneInFlow, Unlocked, InFlow, TypeOK
<1>5. FlowIsUnbound'
  BY DEF IInv, FlowIsUnbound, InFlow, TypeOK
<1>6. SessionHasRoom' /\ FlowLimit'
  BY FlowsSteady DEF IInv, TypeOK
<1>7. PayloadsReachTheirDestination'
  <2>1. /\ PayloadsReachTheirDestination /\ UNCHANGED <<at, want>>
        /\ uses \in [Conns -> Sockets \union {None}]
    BY DEF IInv, TypeOK
  <2> HIDE DEF KnownFlow
  <2>2. ASSUME NEW d \in Conns, uses'[d] # None, socket'[uses'[d]].open
        PROVE  /\ socket'[uses'[d]].sess = at[d]
               /\ socket'[uses'[d]].f = want[d].f
               /\ socket'[uses'[d]].dst = want[d].dst
    <3>1. CASE d = c
      <4>1. uses'[d] = k
        BY <1>d, <2>1, <3>1
      <4>2. /\ socket'[k].sess = socket[k].sess /\ socket'[k].f = socket[k].f
            /\ socket'[k].dst = socket[k].dst
        BY <1>a, <1>c DEF SocketsKept
      <4> QED
        BY <1>a, <1>b, <3>1, <4>1, <4>2
    <3>2. CASE d # c
      <4>1. uses'[d] = uses[d] /\ uses[d] \in Sockets
        BY <1>d, <2>1, <2>2, <3>2
      <4>2. socket[uses[d]].open
        BY <1>c, <2>2, <4>1 DEF SocketsKept
      <4> QED
        BY <1>c, <2>1, <2>2, <4>1, <4>2 DEF SocketsKept, PayloadsReachTheirDestination
    <3> QED
      BY <3>1, <3>2
  <2> QED
    BY <2>1, <2>2 DEF PayloadsReachTheirDestination
<1>8. QuotaIsKept'
  BY <1>c, QuotaSteady DEF IInv, TypeOK, SocketsKept
<1>9. RegistryLimits' /\ PathLimit' /\ UnknownAreOccupied' /\ PathsKeepTheirSession'
  BY SessionsSteady DEF IInv, TypeOK
<1>10. WritersHaveAccepted'
  BY WritersSteady DEF IInv, TypeOK
<1> QED
  BY <1>1, <1>2, <1>3, <1>4, <1>5, <1>6, <1>7, <1>8, <1>9, <1>10 DEF IInv

LEMMA UnbindIInv ==
  ASSUME IInv, NEW c \in Conns, Unbind(c)
  PROVE  IInv'
<1> USE GlueServerAssumption DEF Unbind, sessionVars, pathVars
<1> DEFINE s == at[c]
           F == {want[c].f} \intersect FlowsOf(s)
<1>a. s \in Sessions /\ want[c].f \in FlowIDs
  BY DEF IInv, TypeOK, HandlersAreTidy
<1>b. F \in SUBSET FlowsOf(s) /\ CloseFlows(s, F)
  OBVIOUS
<1>c. want[c].f \in F \/ flows[s][want[c].f] = None
  BY <1>a DEF FlowsOf
<1> HIDE DEF s, F
<1>d. /\ flows' \in [Sessions -> [FlowIDs -> Sockets \union {None}]]
      /\ socket' \in [Sockets -> SocketStates]
      /\ total' \in Nat
      /\ ReadersKnowTheirFlow' /\ FlowsAreOpen' /\ QuotaIsKept'
      /\ \A r \in Sessions, f \in FlowIDs :
           flows'[r][f] = IF r = s /\ f \in F THEN None ELSE flows[r][f]
      /\ \A k \in Sockets :
           /\ socket'[k].sess = socket[k].sess /\ socket'[k].f = socket[k].f
           /\ socket'[k].open <=> socket[k].open /\ \A f \in F : flows[s][f] # k
           /\ socket'[k].open => socket'[k].dst = socket[k].dst
      /\ \A k \in OpenSockets' :
           /\ socket'[k].sess \in Registered
           /\ flows'[socket'[k].sess][socket'[k].f] = k
           /\ ~(socket'[k].sess = s /\ socket'[k].f \in F)
  BY <1>a, <1>b, FlowsClosed DEF IInv, TypeOK
<1>1. TypeOK'
  BY <1>d DEF IInv, TypeOK, Steps, InFlow
<1>2. ReadersKnowTheirFlow' /\ FlowsAreOpen' /\ QuotaIsKept'
  BY <1>d
<1>3. OpenSocketsAreReachable'
  BY <1>d DEF OpenSocketsAreReachable, Registered
<1>4. HandlersAreTidy'
  BY DEF IInv, HandlersAreTidy, TypeOK, InFlow
<1>5. OneInFlow'
  BY DEF IInv, OneInFlow, Unlocked, InFlow, TypeOK
<1>6. FlowIsUnbound'
  BY <1>a, <1>c, <1>d DEF IInv, FlowIsUnbound, HandlersAreTidy, InFlow, TypeOK, s
<1>7. SessionHasRoom' /\ FlowLimit'
  BY <1>d, FlowsSteady DEF IInv, TypeOK
<1>8. PayloadsReachTheirDestination'
  <2> SUFFICES ASSUME NEW d \in Conns, uses[d] # None, socket'[uses[d]].open
               PROVE  /\ socket'[uses[d]].sess = at[d] /\ socket'[uses[d]].f = want[d].f
                      /\ socket'[uses[d]].dst = want[d].dst
    BY DEF PayloadsReachTheirDestination
  <2>1. uses[d] \in Sockets
    BY DEF IInv, TypeOK
  <2> QED
    BY <1>d, <2>1 DEF IInv, PayloadsReachTheirDestination
<1>9. RegistryLimits' /\ PathLimit' /\ UnknownAreOccupied' /\ PathsKeepTheirSession'
  BY SessionsSteady DEF IInv, TypeOK
<1>10. WritersHaveAccepted'
  BY WritersSteady DEF IInv, TypeOK
<1> QED
  BY <1>1, <1>2, <1>3, <1>4, <1>5, <1>6, <1>7, <1>8, <1>9, <1>10 DEF IInv

LEMMA ReserveIInv ==
  ASSUME IInv, NEW c \in Conns, Reserve(c)
  PROVE  IInv'
<1> USE GlueServerAssumption DEF Reserve, GiveUp, NoFrame, IsOver, sessionVars, pathVars
<1>a. QuotaIsKept' /\ total' \in Nat
  <2>1. OpenSockets' = OpenSockets
    BY DEF OpenSockets
  <2>2. /\ Cardinality(OpenSockets) \in Nat
        /\ Cardinality(Reserving) \in Nat /\ Cardinality(Reserved) \in Nat
    BY FiniteSets, FS_CardinalityType
  <2>3. /\ total = Cardinality(OpenSockets) + Cardinality(Reserving)
        /\ Cardinality(OpenSockets) + Cardinality(Reserved) <= MaxTotalFlows
    BY DEF IInv, QuotaIsKept
  <2>4. Reserved \subseteq Reserving
    BY DEF Reserved, Reserving
  <2>5. Cardinality(Reserved) <= Cardinality(Reserving)
    BY <2>4, FiniteSets, SmallerSet
  <2>6. c \notin Reserving /\ c \notin Reserved
    BY DEF Reserving, Reserved
  <2>7. CASE Cardinality(FlowsOf(at[c])) >= MaxFlowsPerSession
    BY <2>7, QuotaSteady DEF IInv, TypeOK
  <2>8. CASE ~(Cardinality(FlowsOf(at[c])) >= MaxFlowsPerSession)
    <3>1. /\ total' = total + 1
          /\ pc' = [pc EXCEPT ![c] =
                      IF total + 1 > MaxTotalFlows THEN "overshot" ELSE "reserved"]
      BY <2>8
    <3>2. Reserving' = Reserving \union {c}
      BY <3>1 DEF Reserving, IInv, TypeOK
    <3>3. Cardinality(Reserving') = Cardinality(Reserving) + 1
      BY <3>2, <2>6, FiniteSets, FS_AddElement
    <3>4. CASE total + 1 > MaxTotalFlows
      <4>1. Reserved' = Reserved
        BY <3>1, <3>4, <2>6 DEF Reserved, IInv, TypeOK
      <4> QED
        BY <4>1, <2>1, <2>2, <2>3, <3>1, <3>3 DEF QuotaIsKept
    <3>5. CASE ~(total + 1 > MaxTotalFlows)
      <4>1. Reserved' = Reserved \union {c}
        BY <3>1, <3>5 DEF Reserved, IInv, TypeOK
      <4>2. Cardinality(Reserved') = Cardinality(Reserved) + 1
        BY <4>1, <2>6, FiniteSets, FS_AddElement
      <4> QED
        BY <4>2, <2>1, <2>2, <2>3, <2>5, <3>1, <3>3, <3>5 DEF QuotaIsKept
    <3> QED
      BY <3>4, <3>5
  <2> QED
    BY <2>7, <2>8
<1>1. TypeOK'
  <2>1. pc' \in [Conns -> Steps]
    <3>1. PICK step \in {"serving", "overshot", "reserved"} : pc' = [pc EXCEPT ![c] = step]
      BY Zenon
    <3> QED
      BY <3>1 DEF IInv, TypeOK, Steps, InFlow
  <2>2. want' \in [Conns -> [f : FlowIDs \union {None}, dst : Dsts \union {None}]]
    BY DEF IInv, TypeOK
  <2> QED
    BY <1>a, <2>1, <2>2 DEF IInv, TypeOK
<1>2. ReadersKnowTheirFlow' /\ FlowsAreOpen' /\ OpenSocketsAreReachable'
  BY SocketsUntouched
<1>3. HandlersAreTidy'
  BY DEF IInv, HandlersAreTidy, TypeOK, InFlow
<1>4. OneInFlow'
  BY DEF IInv, OneInFlow, Unlocked, InFlow, TypeOK
<1>5. FlowIsUnbound'
  BY DEF IInv, FlowIsUnbound, InFlow, TypeOK
<1>6. SessionHasRoom'
  <2>1. \A s : FlowsOf(s)' = FlowsOf(s)
    BY DEF FlowsOf
  <2>2. at[c] \in Sessions
    BY DEF IInv, TypeOK, HandlersAreTidy
  <2>3. Cardinality(FlowsOf(at[c])) \in Nat
    BY FiniteSets, FS_CardinalityType
  <2> QED
    BY <2>1, <2>2, <2>3 DEF IInv, SessionHasRoom, TypeOK
<1>7. PayloadsReachTheirDestination'
  BY DEF IInv, PayloadsReachTheirDestination, HandlersAreTidy, TypeOK
<1>8. QuotaIsKept'
  BY <1>a
<1>9. RegistryLimits' /\ PathLimit' /\ UnknownAreOccupied' /\ PathsKeepTheirSession'
  BY SessionsSteady DEF IInv, TypeOK
<1>10. FlowLimit'
  BY DEF IInv, FlowLimit, FlowsOf
<1>11. WritersHaveAccepted'
  BY WritersSteady DEF IInv, TypeOK
<1> QED
  BY <1>1, <1>2, <1>3, <1>4, <1>5, <1>6, <1>7, <1>8, <1>9, <1>10,
    <1>11 DEF IInv

(* Overshot and DialFails: the slot goes back and the frame is given up. *)
LEMMA GivingUpIInv ==
  ASSUME IInv, NEW c \in Conns, pc[c] \in {"reserved", "overshot"},
         total' = GiveBack(total), GiveUp(c),
         UNCHANGED <<sessionVars, pathVars, uses, flows, socket>>
  PROVE  IInv'
<1> USE GlueServerAssumption DEF GiveUp, GiveBack, NoFrame, sessionVars, pathVars
<1>a. QuotaIsKept' /\ total' \in Nat
  BY SlotGivenBack
<1>1. TypeOK'
  BY <1>a DEF IInv, TypeOK, Steps, InFlow
<1>2. ReadersKnowTheirFlow' /\ FlowsAreOpen' /\ OpenSocketsAreReachable'
  BY SocketsUntouched
<1>3. HandlersAreTidy'
  BY DEF IInv, HandlersAreTidy, TypeOK, InFlow
<1>4. OneInFlow'
  BY DEF IInv, OneInFlow, Unlocked, InFlow, TypeOK
<1>5. FlowIsUnbound'
  BY DEF IInv, FlowIsUnbound, InFlow, TypeOK
<1>6. SessionHasRoom' /\ FlowLimit'
  BY FlowsSteady DEF IInv, TypeOK
<1>7. PayloadsReachTheirDestination'
  BY DEF IInv, PayloadsReachTheirDestination, HandlersAreTidy, TypeOK
<1>8. QuotaIsKept'
  BY <1>a
<1>9. RegistryLimits' /\ PathLimit' /\ UnknownAreOccupied' /\ PathsKeepTheirSession'
  BY SessionsSteady DEF IInv, TypeOK
<1>10. WritersHaveAccepted'
  BY WritersSteady DEF IInv, TypeOK
<1> QED
  BY <1>1, <1>2, <1>3, <1>4, <1>5, <1>6, <1>7, <1>8, <1>9, <1>10 DEF IInv

LEMMA DialIInv ==
  ASSUME IInv, NEW c \in Conns, NEW k \in Sockets, Dial(c, k)
  PROVE  IInv'
<1> USE GlueServerAssumption DEF Dial, sessionVars, pathVars
<1>0. PICK s \in Sessions, f \in FlowIDs : s = at[c] /\ f = want[c].f
  BY DEF IInv, TypeOK, HandlersAreTidy, InFlow
<1> DEFINE q == [open |-> TRUE, reader |-> "blocked", sess |-> s,
                 f |-> f, dst |-> want[c].dst, age |-> 0]
<1>a. s \in Sessions /\ f \in FlowIDs /\ want[c].dst \in Dsts /\ flows[s][f] = None
  BY <1>0 DEF IInv, TypeOK, HandlersAreTidy, InFlow, FlowIsUnbound
<1>b. /\ q \in SocketStates /\ q.open /\ q.reader # "gone"
      /\ q.sess = s /\ q.f = f /\ q.dst = want[c].dst
  BY <1>a DEF SocketStates
<1>c. ~socket[k].open /\ \A d \in Conns : uses[d] # k
  BY DEF UnusedSockets, FreeSocket
<1>d. socket' = [socket EXCEPT ![k] = q] /\ flows' = [flows EXCEPT ![s][f] = k]
  BY <1>0
<1> HIDE DEF q
<1>e. /\ socket' \in [Sockets -> SocketStates] /\ socket'[k] = q
      /\ \A j \in Sockets \ {k} : socket'[j] = socket[j]
  <2> HIDE DEF Dial
  <2>1. socket \in [Sockets -> SocketStates]
    BY DEF IInv, TypeOK
  <2> QED
    BY <1>b, <1>d, <2>1
<1>f. /\ flows' \in [Sessions -> [FlowIDs -> Sockets \union {None}]]
      /\ \A r \in Sessions, g \in FlowIDs :
           flows'[r][g] = IF r = s /\ g = f THEN k ELSE flows[r][g]
  <2> HIDE DEF Dial
  <2>1. flows \in [Sessions -> [FlowIDs -> Sockets \union {None}]]
    BY DEF IInv, TypeOK
  <2> QED
    BY <1>a, <1>d, <2>1
<1>g. \A r \in Sessions, g \in FlowIDs : flows[r][g] # k
  BY <1>c DEF IInv, FlowsAreOpen
<1>h. \A d \in Conns : pc'[d] \in InFlow => d # c /\ pc'[d] = pc[d] /\ at[d] # s
  BY <1>0 DEF IInv, OneInFlow, InFlow, TypeOK
<1>1. TypeOK'
  BY <1>e, <1>f DEF IInv, TypeOK, Steps, InFlow
<1>2. ReadersKnowTheirFlow'
  BY <1>a, <1>b, <1>e DEF IInv, TypeOK, ReadersKnowTheirFlow
<1>3. FlowsAreOpen'
  <2> HIDE DEF Dial
  <2> SUFFICES ASSUME NEW r \in Sessions, NEW g \in FlowIDs, flows'[r][g] # None
               PROVE  /\ socket'[flows'[r][g]].open
                      /\ socket'[flows'[r][g]].sess = r /\ socket'[flows'[r][g]].f = g
    BY DEF FlowsAreOpen
  <2>1. CASE r = s /\ g = f
    BY <2>1, <1>b, <1>e, <1>f
  <2>2. CASE ~(r = s /\ g = f)
    <3>1. flows'[r][g] = flows[r][g] /\ flows[r][g] # k /\ flows[r][g] # None
      BY <1>f, <1>g, <2>2
    <3>2. flows[r][g] \in Sockets
      BY <3>1 DEF IInv, TypeOK
    <3> QED
      BY <3>1, <3>2, <1>e DEF IInv, FlowsAreOpen
  <2> QED
    BY <2>1, <2>2
<1>4. OpenSocketsAreReachable'
  <2> SUFFICES ASSUME NEW j \in Sockets, socket'[j].open
               PROVE  /\ socket'[j].sess \in Registered
                      /\ flows'[socket'[j].sess][socket'[j].f] = j
    BY DEF OpenSocketsAreReachable, OpenSockets, Registered
  <2>1. CASE j = k
    <3>1. s \in Registered
      BY <1>0 DEF IInv, PathsKeepTheirSession
    <3> QED
      BY <2>1, <3>1, <1>a, <1>b, <1>e, <1>f
  <2>2. CASE j # k
    <3>1. socket'[j] = socket[j] /\ socket[j].open
      BY <1>e, <2>2
    <3>2. socket[j].sess \in Registered /\ flows[socket[j].sess][socket[j].f] = j
      BY <3>1 DEF IInv, OpenSocketsAreReachable, OpenSockets
    <3>3. socket[j].sess \in Sessions /\ socket[j].f \in FlowIDs
      BY <3>1 DEF IInv, ReadersKnowTheirFlow
    <3>4. ~(socket[j].sess = s /\ socket[j].f = f)
      BY <3>2, <1>a, GlueServerAssumption
    <3> QED
      BY <3>1, <3>2, <3>3, <3>4, <1>f
  <2> QED
    BY <2>1, <2>2
<1>5. HandlersAreTidy'
  BY DEF IInv, HandlersAreTidy, TypeOK, InFlow
<1>6. OneInFlow'
  BY DEF IInv, OneInFlow, Unlocked, InFlow, TypeOK
<1>7. FlowIsUnbound'
  <2> SUFFICES ASSUME NEW d \in Conns, pc'[d] \in InFlow
               PROVE  flows'[at[d]][want[d].f] = None
    BY DEF FlowIsUnbound
  <2>1. pc[d] \in InFlow /\ at[d] # s
    BY <1>h
  <2>2. at[d] \in Sessions /\ want[d].f \in FlowIDs /\ flows[at[d]][want[d].f] = None
    BY <2>1 DEF IInv, TypeOK, HandlersAreTidy, FlowIsUnbound, InFlow
  <2> QED
    BY <2>1, <2>2, <1>f
<1>8. SessionHasRoom'
  <2> SUFFICES ASSUME NEW d \in Conns, pc'[d] \in {"reserved", "overshot"}
               PROVE  (Cardinality(FlowsOf(at[d])) < MaxFlowsPerSession)'
    BY DEF SessionHasRoom
  <2>1. pc[d] \in {"reserved", "overshot"} /\ at[d] # s /\ at[d] \in Sessions
    BY <1>h DEF InFlow, IInv, TypeOK, HandlersAreTidy
  <2>2. Cardinality(FlowsOf(at[d])) < MaxFlowsPerSession
    BY <2>1 DEF IInv, SessionHasRoom
  <2>3. FlowsOf(at[d])' = FlowsOf(at[d])
    BY <2>1, <1>f DEF FlowsOf
  <2> QED
    BY <2>2, <2>3
<1>9. PayloadsReachTheirDestination'
  <2> SUFFICES ASSUME NEW d \in Conns, uses'[d] # None, socket'[uses'[d]].open
               PROVE  /\ socket'[uses'[d]].sess = at[d] /\ socket'[uses'[d]].f = want[d].f
                      /\ socket'[uses'[d]].dst = want[d].dst
    BY DEF PayloadsReachTheirDestination
  <2>1. CASE d = c
    <3>1. uses'[c] = k
      BY DEF IInv, TypeOK
    <3> QED
      BY <2>1, <3>1, <1>0, <1>b, <1>e
  <2>2. CASE d # c
    <3>1. uses'[d] = uses[d] /\ uses[d] # k /\ uses[d] \in Sockets
      BY <2>2, <1>c DEF IInv, TypeOK
    <3>2. socket'[uses'[d]] = socket[uses[d]]
      BY <3>1, <1>e
    <3> QED
      BY <3>1, <3>2 DEF IInv, PayloadsReachTheirDestination
  <2> QED
    BY <2>1, <2>2
<1>10. QuotaIsKept'
  <2>1. /\ OpenSockets' = OpenSockets \union {k} /\ k \notin OpenSockets
        /\ Reserving' = Reserving \ {c} /\ c \in Reserving
        /\ Reserved' = Reserved \ {c} /\ c \in Reserved
    BY <1>b, <1>c, <1>e DEF OpenSockets, Reserving, Reserved, IInv, TypeOK
  <2>2. /\ Cardinality(OpenSockets') = Cardinality(OpenSockets) + 1
        /\ Cardinality(Reserving') = Cardinality(Reserving) - 1
        /\ Cardinality(Reserved') = Cardinality(Reserved) - 1
    BY <2>1, FiniteSets, FS_AddElement, FS_RemoveElement
  <2>3. /\ Cardinality(OpenSockets) \in Nat
        /\ Cardinality(Reserving) \in Nat /\ Cardinality(Reserved) \in Nat
    BY FiniteSets, FS_CardinalityType
  <2>4. /\ total = Cardinality(OpenSockets) + Cardinality(Reserving)
        /\ Cardinality(OpenSockets) + Cardinality(Reserved) <= MaxTotalFlows
    BY DEF IInv, QuotaIsKept
  <2> QED
    BY <2>2, <2>3, <2>4 DEF QuotaIsKept
<1>11. RegistryLimits' /\ PathLimit' /\ UnknownAreOccupied' /\ PathsKeepTheirSession'
  BY SessionsSteady DEF IInv, TypeOK
<1>12. FlowLimit'
  <2> SUFFICES ASSUME NEW r \in Sessions
               PROVE  Cardinality(FlowsOf(r)') <= MaxFlowsPerSession
    BY DEF FlowLimit
  <2>1. CASE r = s
    <3>1. FlowsOf(s)' = FlowsOf(s) \union {f} /\ f \notin FlowsOf(s)
      <4> HIDE DEF Dial
      <4>1. k # None
        BY GlueServerAssumption
      <4>2. \A g \in FlowIDs : flows'[s][g] # None <=> flows[s][g] # None \/ g = f
        BY <4>1, <1>a, <1>f
      <4> QED
        BY <4>2, <1>a DEF FlowsOf
    <3>2. Cardinality(FlowsOf(s)') = Cardinality(FlowsOf(s)) + 1
      BY <3>1, FiniteSets, FS_AddElement
    <3>3. Cardinality(FlowsOf(s)) \in Nat
      BY FiniteSets, FS_CardinalityType
    <3>4. Cardinality(FlowsOf(s)) < MaxFlowsPerSession
      BY <1>0 DEF IInv, SessionHasRoom
    <3> HIDE DEF Dial
    <3>5. Cardinality(FlowsOf(s)') <= MaxFlowsPerSession
      BY <3>2, <3>3, <3>4
    <3> QED
      BY <2>1, <3>5
  <2>2. CASE r # s
    <3>1. FlowsOf(r)' = FlowsOf(r)
      BY <2>2, <1>f DEF FlowsOf
    <3> QED
      BY <3>1 DEF IInv, FlowLimit
  <2> QED
    BY <2>1, <2>2
<1>13. WritersHaveAccepted'
  BY WritersSteady DEF IInv, TypeOK
<1> QED
  BY <1>1, <1>2, <1>3, <1>4, <1>5, <1>6, <1>7, <1>8, <1>9, <1>10, <1>11,
    <1>12, <1>13 DEF IInv

LEMMA WriteIInv ==
  ASSUME IInv, NEW c \in Conns, Write(c)
  PROVE  IInv'
<1> USE GlueServerAssumption DEF Write, GiveUp, NoFrame, sessionVars, flowVars, pathVars
<1>1. TypeOK'
  BY DEF IInv, TypeOK, Steps, InFlow
<1>2. ReadersKnowTheirFlow' /\ FlowsAreOpen' /\ OpenSocketsAreReachable'
  BY SocketsUntouched
<1>3. HandlersAreTidy'
  BY DEF IInv, HandlersAreTidy, TypeOK, InFlow
<1>4. OneInFlow'
  BY DEF IInv, OneInFlow, Unlocked, InFlow, TypeOK
<1>5. FlowIsUnbound'
  BY DEF IInv, FlowIsUnbound, InFlow, TypeOK
<1>6. SessionHasRoom' /\ FlowLimit'
  BY FlowsSteady DEF IInv, TypeOK
<1>7. PayloadsReachTheirDestination'
  BY DEF IInv, PayloadsReachTheirDestination, HandlersAreTidy, TypeOK
<1>8. QuotaIsKept'
  BY QuotaSteady DEF IInv, TypeOK
<1>9. RegistryLimits' /\ PathLimit' /\ UnknownAreOccupied' /\ PathsKeepTheirSession'
  BY SessionsSteady DEF IInv, TypeOK
<1>10. WritersHaveAccepted'
  BY WritersSteady DEF IInv, TypeOK
<1> QED
  BY <1>1, <1>2, <1>3, <1>4, <1>5, <1>6, <1>7, <1>8, <1>9, <1>10 DEF IInv

-----------------------------------------------------------------------------
(* The readers, the janitor and the clock.                                 *)
(* Read and ReadFails. *)
LEMMA ReaderMovesIInv ==
  ASSUME IInv, NEW k \in Sockets, NEW step \in {"read", "failed"},
         socket[k].reader = "blocked", socket' = Goes(k, step),
         UNCHANGED <<sessionVars, handlerVars, pathVars, flows, total>>
  PROVE  IInv'
<1> USE GlueServerAssumption DEF Goes, sessionVars, handlerVars, pathVars
<1>a. socket' \in [Sockets -> SocketStates] /\ SocketsKept
  <2> DEFINE r == socket[k]
             q == [r EXCEPT !.reader = step]
  <2>1. socket' = [socket EXCEPT ![k] = q] /\ r \in SocketStates /\ r.reader # "gone"
    BY DEF IInv, TypeOK
  <2> HIDE DEF r
  <2>2. /\ q \in SocketStates /\ q.open = r.open /\ q.sess = r.sess /\ q.f = r.f
        /\ q.dst = r.dst /\ q.reader # "gone"
    BY <2>1 DEF SocketStates
  <2> QED
    BY <2>1, <2>2, SocketMoves DEF r, IInv
<1>1. TypeOK'
  BY <1>a DEF IInv, TypeOK
<1>2. ReadersKnowTheirFlow' /\ FlowsAreOpen' /\ OpenSocketsAreReachable'
  BY <1>a, SocketsSteady
<1>3. HandlersAreTidy' /\ OneInFlow' /\ FlowIsUnbound'
  BY HandlersSteady
<1>4. SessionHasRoom' /\ FlowLimit'
  BY FlowsSteady DEF IInv, TypeOK
<1>5. PayloadsReachTheirDestination'
  BY <1>a DEF IInv, SocketsKept, PayloadsReachTheirDestination, TypeOK
<1>6. QuotaIsKept'
  BY <1>a, QuotaSteady DEF SocketsKept
<1>7. RegistryLimits' /\ PathLimit' /\ UnknownAreOccupied' /\ PathsKeepTheirSession'
  BY SessionsSteady DEF IInv, TypeOK
<1>8. WritersHaveAccepted'
  BY WritersSteady
<1> QED
  BY <1>1, <1>2, <1>3, <1>4, <1>5, <1>6, <1>7, <1>8 DEF IInv

LEMMA ForwardIInv ==
  ASSUME IInv, NEW k \in Sockets, Forward(k)
  PROVE  IInv'
<1> USE GlueServerAssumption DEF Forward, sessionVars, handlerVars
<1>a. socket' \in [Sockets -> SocketStates] /\ SocketsKept
  <2> DEFINE r == socket[k]
             p == [r EXCEPT !.reader = "blocked"]
             q == [p EXCEPT !.age = 0]
  <2>1. socket' = [socket EXCEPT ![k] = q] /\ r \in SocketStates /\ r.reader # "gone"
    BY DEF IInv, TypeOK
  <2> HIDE DEF r
  <2>2. /\ p \in SocketStates /\ p.open = r.open /\ p.sess = r.sess /\ p.f = r.f
        /\ p.dst = r.dst /\ p.reader # "gone"
    BY <2>1 DEF SocketStates
  <2> HIDE DEF p
  <2>3. /\ q \in SocketStates /\ q.open = r.open /\ q.sess = r.sess /\ q.f = r.f
        /\ q.dst = r.dst /\ q.reader # "gone"
    BY <2>2 DEF SocketStates
  <2> QED
    BY <2>1, <2>3, SocketMoves DEF r, IInv
<1>b. wire' \in [Conns -> SUBSET {"accept", "frame"}] /\ WritersHaveAccepted'
  <2>1. PICK C \in SUBSET Conns : SendTo(C) /\ \A d \in C : pc[d] \notin {"idle", "attached"}
    BY DEF Receivers, Paths, IInv, WritersHaveAccepted
  <2> QED
    BY <2>1, Sending
<1>1. TypeOK'
  BY <1>a, <1>b DEF IInv, TypeOK
<1>2. ReadersKnowTheirFlow' /\ FlowsAreOpen' /\ OpenSocketsAreReachable'
  BY <1>a, SocketsSteady
<1>3. HandlersAreTidy' /\ OneInFlow' /\ FlowIsUnbound'
  BY HandlersSteady
<1>4. SessionHasRoom' /\ FlowLimit'
  BY FlowsSteady DEF IInv, TypeOK
<1>5. PayloadsReachTheirDestination'
  BY <1>a DEF IInv, SocketsKept, PayloadsReachTheirDestination, TypeOK
<1>6. QuotaIsKept'
  BY <1>a, QuotaSteady DEF SocketsKept
<1>7. RegistryLimits' /\ PathLimit' /\ UnknownAreOccupied' /\ PathsKeepTheirSession'
  BY SessionsSteady DEF IInv, TypeOK
<1>8. WritersHaveAccepted'
  BY <1>b
<1> QED
  BY <1>1, <1>2, <1>3, <1>4, <1>5, <1>6, <1>7, <1>8 DEF IInv

LEMMA RemoveFlowIInv ==
  ASSUME IInv, NEW k \in Sockets, RemoveFlow(k)
  PROVE  IInv'
<1> USE GlueServerAssumption DEF RemoveFlow, sessionVars, handlerVars, pathVars
<1> DEFINE s == socket[k].sess
           f == socket[k].f
<1>a. /\ socket[k] \in SocketStates /\ s \in Sessions /\ f \in FlowIDs
      /\ socket' = [socket EXCEPT ![k] = FreeSocket]
  BY DEF IInv, TypeOK, ReadersKnowTheirFlow
<1>b. flows[s][f] = k <=> socket[k].open
  BY <1>a DEF IInv, FlowsAreOpen, OpenSocketsAreReachable, OpenSockets
<1>c. /\ socket[k].open => flows' = [flows EXCEPT ![s][f] = None] /\ total' = total - 1
      /\ ~socket[k].open => UNCHANGED <<flows, total>>
  BY <1>b DEF IsCurrent
<1> HIDE DEF s, f
<1>d. FreeSocket \in SocketStates /\ ~FreeSocket.open /\ FreeSocket.reader = "gone"
  BY DEF FreeSocket, SocketStates
<1>e. /\ socket' \in [Sockets -> SocketStates]
      /\ ~socket'[k].open
      /\ \A j \in Sockets \ {k} : socket'[j] = socket[j]
  BY <1>a, <1>d DEF IInv, TypeOK
<1>f. \A j \in Sockets : socket'[j].open => socket[j].open /\ socket'[j] = socket[j] /\ j # k
  BY <1>e
<1>g. \A r \in Sessions, g \in FlowIDs :
        flows'[r][g] = IF flows[r][g] = k THEN None ELSE flows[r][g]
  <2>1. \A r \in Sessions, g \in FlowIDs : flows[r][g] = k => r = s /\ g = f /\ socket[k].open
    BY DEF IInv, FlowsAreOpen, s, f
  <2>2. CASE socket[k].open
    BY <1>a, <1>b, <1>c, <2>1, <2>2 DEF IInv, TypeOK
  <2>3. CASE ~socket[k].open
    BY <1>c, <2>1, <2>3
  <2> QED
    BY <2>2, <2>3
<1>h. flows' \in [Sessions -> [FlowIDs -> Sockets \union {None}]]
  <2>1. CASE socket[k].open
    BY <1>a, <1>c, <2>1 DEF IInv, TypeOK
  <2> QED
    BY <1>c, <2>1 DEF IInv, TypeOK
<1>i. QuotaIsKept' /\ total' \in Nat
  <2>1. Reserving' = Reserving /\ Reserved' = Reserved
    BY DEF Reserving, Reserved
  <2>2. /\ Cardinality(OpenSockets) \in Nat /\ Cardinality(OpenSockets') \in Nat
        /\ Cardinality(Reserving) \in Nat /\ Cardinality(Reserved) \in Nat
    BY FiniteSets, FiniteSetsPrimed, FS_CardinalityType
  <2>3. /\ total = Cardinality(OpenSockets) + Cardinality(Reserving)
        /\ Cardinality(OpenSockets) + Cardinality(Reserved) <= MaxTotalFlows
    BY DEF IInv, QuotaIsKept
  <2>4. CASE socket[k].open
    <3>1. OpenSockets' = OpenSockets \ {k} /\ k \in OpenSockets
      BY <1>e, <2>4 DEF OpenSockets
    <3>2. Cardinality(OpenSockets') = Cardinality(OpenSockets) - 1
      BY <3>1, FiniteSets, FS_RemoveElement
    <3> QED
      BY <1>c, <2>1, <2>2, <2>3, <2>4, <3>2 DEF QuotaIsKept
  <2>5. CASE ~socket[k].open
    <3>1. OpenSockets' = OpenSockets
      BY <1>e, <2>5 DEF OpenSockets
    <3> QED
      BY <1>c, <2>1, <2>2, <2>3, <2>5, <3>1 DEF QuotaIsKept
  <2> QED
    BY <2>4, <2>5
<1>1. TypeOK'
  BY <1>e, <1>h, <1>i DEF IInv, TypeOK
<1>2. ReadersKnowTheirFlow'
  BY <1>d, <1>a, <1>e DEF IInv, TypeOK, ReadersKnowTheirFlow
<1>3. FlowsAreOpen'
  <2> SUFFICES ASSUME NEW r \in Sessions, NEW g \in FlowIDs, flows'[r][g] # None
               PROVE  /\ socket'[flows'[r][g]].open
                      /\ socket'[flows'[r][g]].sess = r /\ socket'[flows'[r][g]].f = g
    BY DEF FlowsAreOpen
  <2>1. flows'[r][g] = flows[r][g] /\ flows[r][g] # k /\ flows[r][g] # None
    BY <1>g
  <2>2. flows[r][g] \in Sockets
    BY <2>1 DEF IInv, TypeOK
  <2> QED
    BY <2>1, <2>2, <1>e DEF IInv, FlowsAreOpen
<1>4. OpenSocketsAreReachable'
  <2> SUFFICES ASSUME NEW j \in Sockets, socket'[j].open
               PROVE  /\ socket'[j].sess \in Registered
                      /\ flows'[socket'[j].sess][socket'[j].f] = j
    BY DEF OpenSocketsAreReachable, OpenSockets, Registered
  <2>1. socket'[j] = socket[j] /\ j # k /\ socket[j].open
    BY <1>f
  <2>2. socket[j].sess \in Registered /\ flows[socket[j].sess][socket[j].f] = j
    BY <2>1 DEF IInv, OpenSocketsAreReachable, OpenSockets
  <2>3. socket[j].sess \in Sessions /\ socket[j].f \in FlowIDs
    BY <2>1 DEF IInv, ReadersKnowTheirFlow
  <2> QED
    BY <2>1, <2>2, <2>3, <1>g
<1>5. HandlersAreTidy' /\ OneInFlow' /\ FlowIsUnbound'
  BY <1>g, HandlersSteady
<1>6. SessionHasRoom' /\ FlowLimit'
  BY <1>g, FlowsSteady
<1>7. PayloadsReachTheirDestination'
  <2>1. \A d \in Conns : uses[d] \in Sockets \union {None}
    BY DEF IInv, TypeOK
  <2> QED
    BY <2>1, <1>f DEF IInv, PayloadsReachTheirDestination
<1>8. QuotaIsKept'
  BY <1>i
<1>9. RegistryLimits' /\ PathLimit' /\ UnknownAreOccupied' /\ PathsKeepTheirSession'
  BY SessionsSteady DEF IInv, TypeOK
<1>10. WritersHaveAccepted'
  BY WritersSteady
<1> QED
  BY <1>1, <1>2, <1>3, <1>4, <1>5, <1>6, <1>7, <1>8, <1>9, <1>10 DEF IInv

LEMMA JanitorIInv ==
  ASSUME IInv, NEW s \in Sessions, Janitor(s)
  PROVE  IInv'
<1> USE GlueServerAssumption DEF Janitor, handlerVars, pathVars
<1> DEFINE F == IF Gone(s) THEN FlowsOf(s)
                ELSE {f \in FlowsOf(s) : socket[flows[s][f]].age > FlowIdle}
<1>a. F \in SUBSET FlowsOf(s) /\ CloseFlows(s, F) /\ (Gone(s) => F = FlowsOf(s))
  OBVIOUS
<1>b. \/ Gone(s)
         /\ registry' = [id \in SIDs |-> IF registry[id] = s THEN None ELSE registry[id]]
         /\ owner' = [owner EXCEPT ![s] = None]
         /\ emptyAge' = [emptyAge EXCEPT ![s] = Occupied]
      \/ ~Gone(s) /\ UNCHANGED <<registry, owner, emptyAge>>
  BY DEF sessionVars
<1>c. UNCHANGED <<pc, want, uses, peer, at, writers, wire>>
  OBVIOUS
<1> HIDE DEF F, Janitor
<1> USE <1>c
<1>d. /\ flows' \in [Sessions -> [FlowIDs -> Sockets \union {None}]]
      /\ socket' \in [Sockets -> SocketStates]
      /\ total' \in Nat
      /\ ReadersKnowTheirFlow' /\ FlowsAreOpen' /\ QuotaIsKept'
      /\ \A r \in Sessions, f \in FlowIDs :
           flows'[r][f] = IF r = s /\ f \in F THEN None ELSE flows[r][f]
      /\ \A k \in Sockets :
           /\ socket'[k].sess = socket[k].sess /\ socket'[k].f = socket[k].f
           /\ socket'[k].open <=> socket[k].open /\ \A f \in F : flows[s][f] # k
           /\ socket'[k].open => socket'[k].dst = socket[k].dst
      /\ \A k \in OpenSockets' :
           /\ socket'[k].sess \in Registered
           /\ flows'[socket'[k].sess][socket'[k].f] = k
           /\ ~(socket'[k].sess = s /\ socket'[k].f \in F)
  BY <1>a, FlowsClosed DEF IInv, TypeOK
<1>e. /\ Registered' = IF Gone(s) THEN Registered \ {s} ELSE Registered
      /\ s \notin Registered \/ ~Gone(s) \/ Paths(s) = {}
  <2>1. s # None
    BY GlueServerAssumption
  <2>2. CASE Gone(s)
    <3>1. registry' = [id \in SIDs |-> IF registry[id] = s THEN None ELSE registry[id]]
      BY <1>b, <2>2
    <3> QED
      BY <2>1, <2>2, <3>1 DEF Registered, Gone
  <2>3. CASE ~Gone(s)
    BY <1>b, <2>3 DEF Registered
  <2> QED
    BY <2>2, <2>3
<1>f. /\ registry' \in [SIDs -> Sessions \union {None}]
      /\ owner' \in [Sessions -> Keys \union {None}]
      /\ emptyAge' \in [Sessions -> {Occupied} \union 0 .. SessionIdle + 1]
  BY <1>b DEF IInv, TypeOK
<1>g. \A r \in Sessions \ {s} : owner'[r] = owner[r] /\ emptyAge'[r] = emptyAge[r]
  BY <1>b DEF IInv, TypeOK
<1>h. /\ Gone(s) => emptyAge'[s] = Occupied
      /\ ~Gone(s) => owner'[s] = owner[s] /\ emptyAge'[s] = emptyAge[s]
  BY <1>b DEF IInv, TypeOK
<1>i. \A r : Paths(r)' = Paths(r)
  BY DEF Paths
<1>j. Registered \subseteq Sessions
  BY DEF Registered, IInv, TypeOK
<1>1. TypeOK'
  BY <1>d, <1>f DEF IInv, TypeOK
<1>2. ReadersKnowTheirFlow' /\ FlowsAreOpen' /\ QuotaIsKept'
  BY <1>d
<1>3. OpenSocketsAreReachable'
  <2> SUFFICES ASSUME NEW k \in OpenSockets'
               PROVE  /\ socket'[k].sess \in Registered'
                      /\ flows'[socket'[k].sess][socket'[k].f] = k
    BY DEF OpenSocketsAreReachable
  <2>1. /\ socket'[k].sess \in Registered
        /\ flows'[socket'[k].sess][socket'[k].f] = k
        /\ ~(socket'[k].sess = s /\ socket'[k].f \in F)
    BY <1>d
  <2>2. ASSUME Gone(s), socket'[k].sess = s PROVE FALSE
    <3>1. k \in Sockets /\ socket'[k].open /\ socket'[k].f \in FlowIDs
      BY <1>d DEF OpenSockets, ReadersKnowTheirFlow
    <3>2. k # None
      BY <3>1, GlueServerAssumption
    <3>3. flows[s][socket'[k].f] = k
      BY <1>d, <2>1, <2>2, <3>1, <3>2
    <3> QED
      BY <1>a, <2>1, <2>2, <3>1, <3>2, <3>3 DEF FlowsOf
  <2> QED
    BY <1>e, <2>1, <2>2
<1>4. HandlersAreTidy' /\ OneInFlow' /\ FlowIsUnbound'
  BY <1>d, HandlersSteady
<1>5. SessionHasRoom' /\ FlowLimit'
  BY <1>d, FlowsSteady
<1>6. PayloadsReachTheirDestination'
  <2> SUFFICES ASSUME NEW d \in Conns, uses[d] # None, socket'[uses[d]].open
               PROVE  /\ socket'[uses[d]].sess = at'[d] /\ socket'[uses[d]].f = want[d].f
                      /\ socket'[uses[d]].dst = want[d].dst
    BY DEF PayloadsReachTheirDestination
  <2>1. uses[d] \in Sockets
    BY DEF IInv, TypeOK
  <2>2. at'[d] = at[d]
    BY DEF IInv, HandlersAreTidy, TypeOK
  <2> QED
    BY <1>d, <2>1, <2>2 DEF IInv, PayloadsReachTheirDestination
<1>7. RegistryLimits'
  <2>1. /\ Registered' \subseteq Registered
        /\ \A k \in Keys : SessionsOf(k)' \subseteq SessionsOf(k)
    BY <1>e, <1>g, <1>h, <1>j DEF SessionsOf
  <2>2. IsFiniteSet(Registered)
    BY RegistryIsFinite DEF Registered, IInv, TypeOK
  <2>3. \A k \in Keys : IsFiniteSet(SessionsOf(k))
    BY <2>2, FS_Subset DEF SessionsOf
  <2>4. Cardinality(Registered') <= MaxGlueSessions
    <3>1. /\ Cardinality(Registered') <= Cardinality(Registered)
          /\ Cardinality(Registered') \in Nat /\ Cardinality(Registered) \in Nat
      BY <2>1, <2>2, SmallerSet
    <3>2. Cardinality(Registered) <= MaxGlueSessions
      BY DEF IInv, RegistryLimits
    <3> QED
      BY <3>1, <3>2
  <2>5. ASSUME NEW k \in Keys PROVE Cardinality(SessionsOf(k)') <= MaxSessionsPerClient
    <3>1. /\ Cardinality(SessionsOf(k)') <= Cardinality(SessionsOf(k))
          /\ Cardinality(SessionsOf(k)') \in Nat /\ Cardinality(SessionsOf(k)) \in Nat
      BY <2>1, <2>3, SmallerSet
    <3>2. Cardinality(SessionsOf(k)) <= MaxSessionsPerClient
      BY DEF IInv, RegistryLimits
    <3> QED
      BY <3>1, <3>2
  <2> QED
    BY <2>4, <2>5 DEF RegistryLimits
<1>8. PathLimit'
  BY <1>i DEF IInv, PathLimit
<1>9. UnknownAreOccupied'
  BY <1>e, <1>g, <1>h DEF IInv, UnknownAreOccupied
<1>10. PathsKeepTheirSession'
  <2>1. ASSUME NEW r \in Registered'
        PROVE  (Paths(r) = {} <=> emptyAge[r] # Occupied)'
    <3>1. r \in Registered /\ r \in Sessions /\ emptyAge'[r] = emptyAge[r]
      BY <1>e, <1>g, <1>h, <1>j
    <3> QED
      BY <3>1, <1>i DEF IInv, PathsKeepTheirSession
  <2>2. ASSUME NEW d \in Conns, pc[d] # "idle"
        PROVE  at[d] \in Registered' /\ owner'[at[d]] = peer[d]
    <3>1. at[d] \in Registered /\ owner[at[d]] = peer[d] /\ d \in Paths(at[d])
      BY <2>2 DEF IInv, PathsKeepTheirSession, Paths
    <3>2. Gone(s) => at[d] # s
      BY <3>1 DEF Gone
    <3> QED
      BY <3>1, <3>2, <1>e, <1>g, <1>h, <1>j
  <2> QED
    BY <2>1, <2>2 DEF PathsKeepTheirSession
<1>11. WritersHaveAccepted'
  BY WritersSteady
<1> QED
  BY <1>1, <1>2, <1>3, <1>4, <1>5, <1>6, <1>7, <1>8, <1>9, <1>10,
    <1>11 DEF IInv

LEMMA TickIInv ==
  ASSUME IInv, Tick
  PROVE  IInv'
<1> USE GlueServerAssumption DEF Tick, handlerVars, pathVars
<1>a. socket' \in [Sockets -> SocketStates] /\ SocketsKept
  <2> SUFFICES ASSUME NEW k \in Sockets
               PROVE  /\ socket'[k] \in SocketStates
                      /\ socket'[k].open = socket[k].open
                      /\ socket'[k].sess = socket[k].sess /\ socket'[k].f = socket[k].f
                      /\ socket'[k].dst = socket[k].dst
                      /\ socket'[k].reader = socket[k].reader
    BY DEF SocketsKept
  <2> DEFINE r == socket[k]
             older == Lesser(r.age + 1, FlowIdle + 1)
             q == [r EXCEPT !.age = older]
  <2>1. r \in SocketStates /\ socket'[k] = IF r.open THEN q ELSE r
    BY DEF IInv, TypeOK
  <2> HIDE DEF r
  <2>2. r.age \in 0 .. FlowIdle + 1
    BY <2>1 DEF SocketStates
  <2>3. older \in 0 .. FlowIdle + 1
    BY <2>2 DEF Lesser
  <2> HIDE DEF older
  <2>4. /\ q \in SocketStates /\ q.open = r.open /\ q.sess = r.sess /\ q.f = r.f
        /\ q.dst = r.dst /\ q.reader = r.reader
    BY <2>1, <2>3 DEF SocketStates
  <2> QED
    BY <2>1, <2>4 DEF r
<1>b. /\ emptyAge' \in [Sessions -> {Occupied} \union 0 .. SessionIdle + 1]
      /\ \A s \in Sessions : emptyAge'[s] = Occupied <=> emptyAge[s] = Occupied
  <2> SUFFICES ASSUME NEW s \in Sessions
               PROVE  /\ emptyAge'[s] \in {Occupied} \union 0 .. SessionIdle + 1
                      /\ emptyAge'[s] = Occupied <=> emptyAge[s] = Occupied
    OBVIOUS
  <2>1. emptyAge[s] \in {Occupied} \union 0 .. SessionIdle + 1
    BY DEF IInv, TypeOK
  <2>2. emptyAge'[s] = IF emptyAge[s] = Occupied THEN Occupied
                       ELSE Lesser(emptyAge[s] + 1, SessionIdle + 1)
    OBVIOUS
  <2> QED
    BY <2>1, <2>2 DEF Lesser, Occupied
<1>1. TypeOK'
  BY <1>a, <1>b DEF IInv, TypeOK
<1>2. ReadersKnowTheirFlow' /\ FlowsAreOpen' /\ OpenSocketsAreReachable'
  BY <1>a, SocketsSteady
<1>3. HandlersAreTidy' /\ OneInFlow' /\ FlowIsUnbound'
  BY HandlersSteady
<1>4. SessionHasRoom' /\ FlowLimit'
  BY FlowsSteady DEF IInv, TypeOK
<1>5. PayloadsReachTheirDestination'
  BY <1>a DEF IInv, SocketsKept, PayloadsReachTheirDestination, TypeOK
<1>6. QuotaIsKept'
  BY <1>a, QuotaSteady DEF SocketsKept
<1>7. RegistryLimits'
  BY DEF IInv, RegistryLimits, SessionsOf, Registered
<1>8. PathLimit'
  BY DEF IInv, PathLimit, Paths
<1>9. UnknownAreOccupied'
  BY <1>b DEF IInv, UnknownAreOccupied, Registered
<1>10. PathsKeepTheirSession'
  BY <1>b DEF IInv, PathsKeepTheirSession, Paths, Registered, TypeOK
<1>11. WritersHaveAccepted'
  BY WritersSteady
<1> QED
  BY <1>1, <1>2, <1>3, <1>4, <1>5, <1>6, <1>7, <1>8, <1>9, <1>10,
    <1>11 DEF IInv

-----------------------------------------------------------------------------
LEMMA InitIInv == Init => IInv
<1> SUFFICES ASSUME Init PROVE IInv
  OBVIOUS
<1> USE GlueServerAssumption DEF Init
<1>1. FreeSocket \in SocketStates /\ ~FreeSocket.open /\ FreeSocket.reader = "gone"
  BY DEF FreeSocket, SocketStates
<1>2. TypeOK
  BY <1>1 DEF TypeOK, Steps, NoFrame
<1>3. /\ Registered = {} /\ OpenSockets = {} /\ Reserving = {} /\ Reserved = {}
      /\ \A k : SessionsOf(k) = {}
  BY <1>1 DEF Registered, OpenSockets, Reserving, Reserved, SessionsOf
<1>4. \A s \in Sessions : FlowsOf(s) = {} /\ Paths(s) = {}
  BY DEF FlowsOf, Paths
<1>5. Cardinality({}) = 0
  BY FS_EmptySet
<1>6. ReadersKnowTheirFlow /\ FlowsAreOpen /\ OpenSocketsAreReachable
  BY <1>1, <1>3 DEF ReadersKnowTheirFlow, FlowsAreOpen, OpenSocketsAreReachable
<1>7. /\ HandlersAreTidy /\ OneInFlow /\ FlowIsUnbound /\ SessionHasRoom
      /\ PayloadsReachTheirDestination /\ WritersHaveAccepted
  BY DEF HandlersAreTidy, OneInFlow, FlowIsUnbound, SessionHasRoom, InFlow,
         PayloadsReachTheirDestination, WritersHaveAccepted, AcceptComesFirst
<1>8. QuotaIsKept /\ RegistryLimits
  BY <1>3, <1>5 DEF QuotaIsKept, RegistryLimits
<1>9. FlowLimit /\ PathLimit
  <2>1. ASSUME NEW s \in Sessions
        PROVE  /\ Cardinality(FlowsOf(s)) <= MaxFlowsPerSession
               /\ Cardinality(Paths(s)) <= MaxPathsPerSession
    <3> HIDE DEF Init
    <3>1. Cardinality(FlowsOf(s)) = 0 /\ Cardinality(Paths(s)) = 0
      BY <1>4, <1>5
    <3> QED
      BY <3>1
  <2> QED
    BY <2>1 DEF FlowLimit, PathLimit
<1>10. UnknownAreOccupied /\ PathsKeepTheirSession
  BY <1>3 DEF UnknownAreOccupied, PathsKeepTheirSession
<1> QED
  BY <1>2, <1>6, <1>7, <1>8, <1>9, <1>10 DEF IInv

LEMMA NextIInv == IInv /\ [Next]_vars => IInv'
<1> SUFFICES ASSUME IInv, [Next]_vars PROVE IInv'
  OBVIOUS
<1>1. ASSUME NEW c \in Conns, Overshot(c) \/ DialFails(c) PROVE IInv'
  BY <1>1, GivingUpIInv DEF Overshot, DialFails
<1>2. ASSUME NEW c \in Conns, HandlerStep(c) PROVE IInv'
  BY <1>2, JoinIInv, CreateIInv, WriteAcceptIInv, SetWriterIInv, DetachIInv, PingIInv,
     FrameIInv, KnownFlowIInv, UnbindIInv, ReserveIInv, <1>1, DialIInv, WriteIInv
  DEF HandlerStep
<1>3. ASSUME NEW k \in Sockets, ReaderStep(k) PROVE IInv'
  <2>1. CASE Read(k) \/ ReadFails(k)
    BY <2>1, ReaderMovesIInv DEF Read, ReadFails
  <2> QED
    BY <1>3, <2>1, ForwardIInv, RemoveFlowIInv DEF ReaderStep
<1>4. CASE UNCHANGED vars
  <2> USE <1>4 DEF vars, sessionVars, flowVars, handlerVars, pathVars
  <2>1. UnknownAreOccupied' /\ PathsKeepTheirSession' /\ RegistryLimits' /\ PathLimit'
    BY SessionsSteady
  <2>2. SessionHasRoom' /\ FlowLimit' /\ QuotaIsKept'
    BY FlowsSteady, QuotaSteady
  <2>3. TypeOK'
    BY DEF IInv, TypeOK
  <2>4. ReadersKnowTheirFlow' /\ FlowsAreOpen' /\ OpenSocketsAreReachable'
    BY SocketsUntouched
  <2>5. HandlersAreTidy' /\ OneInFlow' /\ FlowIsUnbound' /\ WritersHaveAccepted'
    BY HandlersSteady, WritersSteady
  <2>6. PayloadsReachTheirDestination'
    BY DEF IInv, PayloadsReachTheirDestination
  <2> QED
    BY <2>1, <2>2, <2>3, <2>4, <2>5, <2>6 DEF IInv
<1> QED
  BY <1>2, <1>3, <1>4, JanitorIInv, TickIInv DEF Next

(* The inductive invariant holds in every reachable state. *)
THEOREM InductiveInvariant == Spec => []IInv
  BY InitIInv, NextIInv, PTL DEF Spec

(* The types of all variables: among them that the quota counter never     *)
(* becomes negative (glue.go:63-86, 241-253).                              *)
THEOREM TypeCorrect == Spec => []TypeOK
<1>1. IInv => TypeOK
  BY DEF IInv
<1> QED
  BY <1>1, InductiveInvariant, PTL

LEMMA IInvGivesQuota == IInv => QuotaIsExact
<1> SUFFICES ASSUME IInv PROVE QuotaIsExact
  OBVIOUS
<1>1. /\ Cardinality(OpenSockets) \in Nat /\ Cardinality(Reserved) \in Nat
  BY FiniteSets, FS_CardinalityType
<1>2. Cardinality(OpenSockets) <= MaxTotalFlows
  BY <1>1, GlueServerAssumption DEF IInv, QuotaIsKept
<1>3. Registered \subseteq Sessions
  BY DEF IInv, TypeOK, Registered
<1> QED
  BY <1>2, <1>3 DEF IInv, QuotaIsKept, QuotaIsExact, RegistryLimits, FlowLimit, PathLimit

(* The quota counter is the number of open sockets and of slots being      *)
(* reserved, and all limits hold at once: per session, per client, of the  *)
(* registry and of the server (glue.go:63-86, 194-205, 241-253).           *)
THEOREM QuotaCorrect == Spec => []QuotaIsExact
  BY IInvGivesQuota, InductiveInvariant, PTL

(* Every open socket is what its flow ID points to in a session the server *)
(* knows, so that the janitor or an eviction can close it (glue.go:194-  *)
(* 205).                                                                   *)
THEOREM SocketsReachable == Spec => []OpenSocketsAreReachable
<1>1. IInv => OpenSocketsAreReachable
  BY DEF IInv
<1> QED
  BY <1>1, InductiveInvariant, PTL

(* No session is removed, evicted or handed to another key while a path is *)
(* attached to it, and the clock of every session without one runs         *)
(* (glue.go:138, 151-181, 211-220, 325-348).                               *)
THEOREM SessionsKept == Spec => []PathsKeepTheirSession
<1>1. IInv => PathsKeepTheirSession
  BY DEF IInv
<1> QED
  BY <1>1, InductiveInvariant, PTL

(* A payload is written to no open socket but one for its own session,     *)
(* flow ID and destination (glue.go:446-454).                              *)
THEOREM PayloadsCorrect == Spec => []PayloadsReachTheirDestination
<1>1. IInv => PayloadsReachTheirDestination
  BY DEF IInv
<1> QED
  BY <1>1, InductiveInvariant, PTL

(* No connection is sent a frame before its accept message                 *)
(* (glue.go:379-388).                                                      *)
THEOREM AcceptFirst == Spec => []AcceptComesFirst
<1>1. IInv => AcceptComesFirst
  BY DEF IInv, WritersHaveAccepted
<1> QED
  BY <1>1, InductiveInvariant, PTL
===============================================================================
