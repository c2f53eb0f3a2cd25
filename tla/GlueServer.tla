----------------------------- MODULE GlueServer -----------------------------
(***************************************************************************)
(* The server side of game traffic (cmd/server/glue.go).  Client           *)
(* connections ("paths") join sessions by session ID; a session owns the   *)
(* UDP sockets ("flows") to the game servers, and one reader goroutine per *)
(* socket sends the replies to all paths of the session.  A janitor closes *)
(* idle flows and removes sessions nobody is connected to.                 *)
(*                                                                         *)
(* Sessions and Sockets are pools standing for the objects the code        *)
(* allocates: a slot is taken again only when no goroutine of the old      *)
(* object is left.  Times are kept as ages that stop growing at the first  *)
(* value the janitor acts on.  What a frame must pass before it gets here  *)
(* (frame.Receiver, the destination policy) is modelled elsewhere: any     *)
(* frame may turn up, or not.                                              *)
(***************************************************************************)
EXTENDS Integers, FiniteSets

CONSTANTS
  Keys,                  \* authorized clients
  SIDs,                  \* session IDs, chosen by the clients
  Conns,                 \* connections (handler goroutines)
  FlowIDs, Dsts,         \* flow IDs and game servers, chosen by the clients
  Sessions, Sockets,     \* pools of session objects and UDP sockets
  None,
  MaxFlowsPerSession, MaxGlueSessions, MaxSessionsPerClient,
  MaxPathsPerSession, MaxTotalFlows,
  FlowIdle, SessionIdle  \* glueFlowIdle, glueSessionIdle

ASSUME GlueServerAssumption ==
  /\ IsFiniteSet(Conns) /\ IsFiniteSet(Sockets) /\ IsFiniteSet(SIDs)
  /\ IsFiniteSet(FlowIDs)
  /\ None \notin Sessions \union Sockets \union FlowIDs \union Dsts
  /\ MaxFlowsPerSession \in Nat /\ MaxGlueSessions \in Nat
  /\ MaxSessionsPerClient \in Nat \ {0} /\ MaxPathsPerSession \in Nat \ {0}
  /\ MaxTotalFlows \in Nat
  /\ FlowIdle \in Nat /\ SessionIdle \in Nat

VARIABLES
  registry,   \* glueSessions.m
  owner,      \* s.owner
  flows,      \* s.udpFlows
  emptyAge,   \* time since s.emptySince, Occupied when that is zero
  pc,         \* where the handler of a connection is
  peer, at,   \* the key it authenticated with and the session it joined
  want,       \* the flow ID and destination of the frame in its hands
  uses,       \* the socket flow() gave it
  writers,    \* the connections with a PathWriter in s.paths
  wire,       \* history: what a connection was sent
  socket,     \* the UDP sockets and where their readers are
  total       \* totalFlows

sessionVars == <<registry, owner, emptyAge>>
flowVars    == <<flows, socket, total>>
handlerVars == <<pc, want, uses>>
pathVars    == <<peer, at, writers, wire>>

vars == <<sessionVars, flowVars, handlerVars, pathVars>>

Occupied == -1

NoFrame == [f |-> None, dst |-> None]

FreeSocket ==
  [open |-> FALSE, reader |-> "gone", sess |-> None, f |-> None, dst |-> None,
   age |-> 0]

(* A socket's reader is blocked in Read, has just read a packet, or its    *)
(* Read has failed and it is about to remove the flow.                     *)
SocketStates ==
  [open : BOOLEAN, reader : {"gone", "blocked", "read", "failed"},
   sess : Sessions \union {None}, f : FlowIDs \union {None},
   dst : Dsts \union {None}, age : 0 .. FlowIdle + 1]

(* "unbound", "reserved" and "overshot" are inside flow(), which holds     *)
(* s.mu throughout.                                                        *)
InFlow == {"unbound", "reserved", "overshot"}

Steps == {"idle", "attached", "accepted", "serving", "frame", "write"} \union InFlow

TypeOK ==
  /\ registry \in [SIDs -> Sessions \union {None}]
  /\ owner \in [Sessions -> Keys \union {None}]
  /\ flows \in [Sessions -> [FlowIDs -> Sockets \union {None}]]
  /\ emptyAge \in [Sessions -> {Occupied} \union 0 .. SessionIdle + 1]
  /\ pc \in [Conns -> Steps]
  /\ peer \in [Conns -> Keys \union {None}]
  /\ at \in [Conns -> Sessions \union {None}]
  /\ want \in [Conns -> [f : FlowIDs \union {None}, dst : Dsts \union {None}]]
  /\ uses \in [Conns -> Sockets \union {None}]
  /\ writers \in SUBSET Conns
  /\ wire \in [Conns -> SUBSET {"accept", "frame"}]
  /\ socket \in [Sockets -> SocketStates]
  /\ total \in Nat

-----------------------------------------------------------------------------
Registered == {registry[id] : id \in SIDs} \ {None}

OpenSockets == {k \in Sockets : socket[k].open}

Reserving == {c \in Conns : pc[c] \in {"reserved", "overshot"}}

(* The keys of s.paths: a path is there from attachGluePath to detachPath. *)
Paths(s) == {c \in Conns : pc[c] # "idle" /\ at[c] = s}

FlowsOf(s) == {f \in FlowIDs : flows[s][f] # None}

SessionsOf(k) == {s \in Registered : owner[s] = k}

Unlocked(s) == \A c \in Conns : at[c] = s => pc[c] \notin InFlow

(* Pool slots that nothing refers to any more. *)
UnusedSessions ==
  {s \in Sessions :
     /\ s \notin Registered
     /\ \A c \in Conns : at[c] # s
     /\ \A k \in Sockets : socket[k].sess # s}

UnusedSockets ==
  {k \in Sockets : socket[k] = FreeSocket /\ \A c \in Conns : uses[c] # k}

Lesser(a, b) == IF a < b THEN a ELSE b

-----------------------------------------------------------------------------
(* Closing flows.                                                          *)

(* f.dst and f.lastSeen of a closed socket are not read any more. *)
Closed(k) == [socket[k] EXCEPT !.open = FALSE, !.dst = None, !.age = 0]

(* The identity check of closeFlowLocked: the map entry and the quota slot *)
(* go only if the flow ID still points to this socket.                     *)
IsCurrent(s, f, k) == flows[s][f] = k

(* Flows F of session s are closed: sockets, map entries, quota slots. *)
\* Variant with a bug: the sockets stay open.
ForgetFlows(s, F) ==
  /\ socket' = socket
  /\ flows' = [flows EXCEPT ![s] = [f \in FlowIDs |-> IF f \in F THEN None ELSE @[f]]]
  /\ total' = total - Cardinality(F)
CloseFlows(s, F) ==
  /\ socket' = [k \in Sockets |->
                  IF \E f \in F : flows[s][f] = k THEN Closed(k) ELSE socket[k]]
  /\ flows' = [flows EXCEPT ![s] = [f \in FlowIDs |-> IF f \in F THEN None ELSE @[f]]]
  /\ total' = total - Cardinality(F)

-----------------------------------------------------------------------------
Init ==
  /\ registry = [id \in SIDs |-> None]
  /\ owner = [s \in Sessions |-> None]
  /\ flows = [s \in Sessions |-> [f \in FlowIDs |-> None]]
  /\ emptyAge = [s \in Sessions |-> Occupied]
  /\ pc = [c \in Conns |-> "idle"]
  /\ peer = [c \in Conns |-> None]
  /\ at = [c \in Conns |-> None]
  /\ want = [c \in Conns |-> NoFrame]
  /\ uses = [c \in Conns |-> None]
  /\ writers = {}
  /\ wire = [c \in Conns |-> {}]
  /\ socket = [k \in Sockets |-> FreeSocket]
  /\ total = 0

-----------------------------------------------------------------------------
(* Joining and leaving.  A refused connection leaves nothing behind.       *)

Enter(c, k, s) ==
  /\ pc' = [pc EXCEPT ![c] = "attached"]
  /\ peer' = [peer EXCEPT ![c] = k]
  /\ at' = [at EXCEPT ![c] = s]
  /\ UNCHANGED <<want, uses, writers, wire>>

(* attachGluePath for a session that exists. *)
Join(c, id, k) ==
  LET s == registry[id] IN
  /\ pc[c] = "idle"
  /\ s # None
  /\ owner[s] = k
  /\ Unlocked(s)
  /\ Cardinality(Paths(s)) < MaxPathsPerSession
  /\ emptyAge' = [emptyAge EXCEPT ![s] = Occupied]
  /\ Enter(c, k, s)
  /\ UNCHANGED <<registry, owner, flowVars>>

(* makeRoomForSession: below the limit nothing has to go, at the limit the *)
(* session that has been empty for longest, if there is one.               *)
\* Variant with a bug: the sessions in use are candidates too.
AnyOldest(k) ==
  IF Cardinality(SessionsOf(k)) < MaxSessionsPerClient THEN {{}}
  ELSE {{s} : s \in {s \in SessionsOf(k) :
                       \A r \in SessionsOf(k) : emptyAge[r] <= emptyAge[s]}}
RoomFor(k) ==
  LET empty == {s \in SessionsOf(k) : Paths(s) = {}} IN
  IF Cardinality(SessionsOf(k)) < MaxSessionsPerClient THEN {{}}
  ELSE {{s} : s \in {s \in empty : \A r \in empty : emptyAge[r] <= emptyAge[s]}}

(* attachGluePath for a new session, with what makes room for it.  Once a  *)
(* session was evicted the registry is below its limit, so no refusal      *)
(* follows an eviction.                                                    *)
Create(c, id, k) ==
  /\ pc[c] = "idle"
  /\ registry[id] = None
  /\ \A s \in SessionsOf(k) : Unlocked(s)
  /\ \E evicted \in RoomFor(k), new \in UnusedSessions :
       /\ Cardinality(Registered \ evicted) < MaxGlueSessions
       /\ registry' = [i \in SIDs |->
                         IF i = id THEN new
                         ELSE IF registry[i] \in evicted THEN None
                         ELSE registry[i]]
       /\ owner' = [s \in Sessions |->
                      IF s = new THEN k ELSE IF s \in evicted THEN None ELSE owner[s]]
       /\ emptyAge' = [s \in Sessions |-> IF s \in evicted THEN Occupied ELSE emptyAge[s]]
       /\ \/ evicted = {} /\ UNCHANGED flowVars
          \/ \E s \in evicted : CloseFlows(s, FlowsOf(s))
       /\ Enter(c, k, new)

(* The accept message is written before the path has a writer. *)
WriteAccept(c) ==
  /\ pc[c] = "attached"
  /\ pc' = [pc EXCEPT ![c] = "accepted"]
  /\ wire' = [wire EXCEPT ![c] = @ \union {"accept"}]
  /\ UNCHANGED <<sessionVars, flowVars, want, uses, peer, at, writers>>

SetWriter(c) ==
  /\ pc[c] = "accepted"
  /\ Unlocked(at[c])
  /\ pc' = [pc EXCEPT ![c] = "serving"]
  /\ writers' = writers \union {c}
  /\ UNCHANGED <<sessionVars, flowVars, want, uses, peer, at, wire>>

(* detachPath, when the accept message could not be written or the         *)
(* connection fails.                                                       *)
EmptyNow(s, c) ==
  IF Paths(s) = {c} THEN [emptyAge EXCEPT ![s] = 0] ELSE emptyAge

Detach(c) ==
  /\ pc[c] \in {"attached", "serving"}
  /\ Unlocked(at[c])
  /\ emptyAge' = EmptyNow(at[c], c)
  /\ pc' = [pc EXCEPT ![c] = "idle"]
  /\ peer' = [peer EXCEPT ![c] = None]
  /\ at' = [at EXCEPT ![c] = None]
  /\ writers' = writers \ {c}
  /\ wire' = [wire EXCEPT ![c] = {}]
  /\ UNCHANGED <<registry, owner, flowVars, want, uses>>
-----------------------------------------------------------------------------
(* Serving a path.                                                         *)

(* broadcast sends to the paths that have a writer. *)
\* Variant with a bug: to all paths.
AllPaths(s) == Paths(s)
Receivers(s) == Paths(s) \intersect writers

SendTo(C) ==
  wire' = [c \in Conns |-> IF c \in C THEN wire[c] \union {"frame"} ELSE wire[c]]

(* A path ping is answered on its own path, a ping on all of them. *)
Ping(c) ==
  /\ pc[c] = "serving"
  /\ \/ SendTo({c})
     \/ Unlocked(at[c]) /\ SendTo(Receivers(at[c]))
  /\ UNCHANGED <<sessionVars, flowVars, handlerVars, peer, at, writers>>

(* A data frame that the receiver and the destination policy let through. *)
Frame(c, f, d) ==
  /\ pc[c] = "serving"
  /\ pc' = [pc EXCEPT ![c] = "frame"]
  /\ want' = [want EXCEPT ![c] = [f |-> f, dst |-> d]]
  /\ UNCHANGED <<sessionVars, flowVars, pathVars, uses>>

(* flow(): the socket of the flow ID, if it goes to the destination.       *)
\* Variant with a bug: any socket of the flow ID will do.
AnySocket(c) == flows[at[c]][want[c].f]
SocketFor(c) ==
  LET k == flows[at[c]][want[c].f] IN
  IF k # None /\ socket[k].dst = want[c].dst THEN k ELSE None

KnownFlow(c) ==
  LET k == SocketFor(c) IN
  /\ pc[c] = "frame" /\ Unlocked(at[c])
  /\ k # None
  /\ socket' = [socket EXCEPT ![k].age = 0]
  /\ uses' = [uses EXCEPT ![c] = k]
  /\ pc' = [pc EXCEPT ![c] = "write"]
  /\ UNCHANGED <<sessionVars, pathVars, want, flows, total>>

(* No such socket: one with another destination is closed first. *)
Unbind(c) ==
  /\ pc[c] = "frame" /\ Unlocked(at[c])
  /\ SocketFor(c) = None
  /\ CloseFlows(at[c], {want[c].f} \intersect FlowsOf(at[c]))
  /\ pc' = [pc EXCEPT ![c] = "unbound"]
  /\ UNCHANGED <<sessionVars, pathVars, want, uses>>

(* The frame is given up: back to the next one. *)
GiveUp(c) ==
  /\ pc' = [pc EXCEPT ![c] = "serving"]
  /\ want' = [want EXCEPT ![c] = NoFrame]

(* reserveFlow adds first and then checks what it got; other sessions see  *)
(* the sum in between.                                                     *)
IsOver(n) == n > MaxTotalFlows

Reserve(c) ==
  /\ pc[c] = "unbound"
  /\ IF Cardinality(FlowsOf(at[c])) >= MaxFlowsPerSession
       THEN GiveUp(c) /\ UNCHANGED total
       ELSE /\ total' = total + 1
            /\ pc' = [pc EXCEPT ![c] =
                        IF IsOver(total + 1) THEN "overshot" ELSE "reserved"]
            /\ UNCHANGED want
  /\ UNCHANGED <<sessionVars, pathVars, uses, flows, socket>>

\* Variant with a bug: the slot is not given back.
KeepSlot(n) == n
GiveBack(n) == n - 1

Overshot(c) ==
  /\ pc[c] = "overshot"
  /\ total' = GiveBack(total)
  /\ GiveUp(c)
  /\ UNCHANGED <<sessionVars, pathVars, uses, flows, socket>>

DialFails(c) ==
  /\ pc[c] = "reserved"
  /\ total' = GiveBack(total)
  /\ GiveUp(c)
  /\ UNCHANGED <<sessionVars, pathVars, uses, flows, socket>>

(* DialUDP, and the new socket's reader is started. *)
Dial(c, k) ==
  /\ pc[c] = "reserved"
  /\ k \in UnusedSockets
  /\ flows' = [flows EXCEPT ![at[c]][want[c].f] = k]
  /\ socket' = [socket EXCEPT ![k] =
       [open |-> TRUE, reader |-> "blocked", sess |-> at[c],
        f |-> want[c].f, dst |-> want[c].dst, age |-> 0]]
  /\ uses' = [uses EXCEPT ![c] = k]
  /\ pc' = [pc EXCEPT ![c] = "write"]
  /\ UNCHANGED <<sessionVars, pathVars, want, total>>

(* The payload goes into the socket, which may have been closed meanwhile. *)
Write(c) ==
  /\ pc[c] = "write"
  /\ GiveUp(c)
  /\ uses' = [uses EXCEPT ![c] = None]
  /\ UNCHANGED <<sessionVars, flowVars, pathVars>>

-----------------------------------------------------------------------------
(* readFlow, the reader goroutine of a socket.                             *)

Goes(k, step) == [socket EXCEPT ![k].reader = step]

Read(k) ==
  /\ socket[k].reader = "blocked" /\ socket[k].open
  /\ socket' = Goes(k, "read")
  /\ UNCHANGED <<sessionVars, handlerVars, pathVars, flows, total>>

(* The reply is broadcast even if the flow was closed after the Read. *)
Forward(k) ==
  LET s == socket[k].sess IN
  /\ socket[k].reader = "read"
  /\ Unlocked(s)
  /\ socket' = [socket EXCEPT ![k].reader = "blocked", ![k].age = 0]
  /\ SendTo(Receivers(s))
  /\ UNCHANGED <<sessionVars, handlerVars, peer, at, writers, flows, total>>

(* The socket was closed, or it failed by itself.  (ECONNREFUSED only      *)
(* makes the reader read again.)                                           *)
ReadFails(k) ==
  /\ socket[k].reader = "blocked"
  /\ socket' = Goes(k, "failed")
  /\ UNCHANGED <<sessionVars, handlerVars, pathVars, flows, total>>

RemoveFlow(k) ==
  LET s == socket[k].sess
      f == socket[k].f IN
  /\ socket[k].reader = "failed"
  /\ Unlocked(s)
  /\ socket' = [socket EXCEPT ![k] = FreeSocket]
  /\ IF IsCurrent(s, f, k)
       THEN /\ flows' = [flows EXCEPT ![s][f] = None]
            /\ total' = total - 1
       ELSE UNCHANGED <<flows, total>>
  /\ UNCHANGED <<sessionVars, handlerVars, pathVars>>

-----------------------------------------------------------------------------
(* cleanupGlue's visit to one session.                                     *)
Gone(s) == Paths(s) = {} /\ emptyAge[s] # Occupied /\ emptyAge[s] > SessionIdle

Janitor(s) ==
  LET idle == {f \in FlowsOf(s) : socket[flows[s][f]].age > FlowIdle} IN
  /\ s \in Registered
  /\ Unlocked(s)
  /\ CloseFlows(s, IF Gone(s) THEN FlowsOf(s) ELSE idle)
  /\ IF Gone(s)
       THEN /\ registry' = [id \in SIDs |-> IF registry[id] = s THEN None ELSE registry[id]]
            /\ owner' = [owner EXCEPT ![s] = None]
            /\ emptyAge' = [emptyAge EXCEPT ![s] = Occupied]
       ELSE UNCHANGED sessionVars
  /\ UNCHANGED <<handlerVars, pathVars>>

Tick ==
  /\ emptyAge' = [s \in Sessions |->
       IF emptyAge[s] = Occupied THEN Occupied
       ELSE Lesser(emptyAge[s] + 1, SessionIdle + 1)]
  /\ socket' = [k \in Sockets |->
       IF socket[k].open THEN [socket[k] EXCEPT !.age = Lesser(@ + 1, FlowIdle + 1)]
       ELSE socket[k]]
  /\ UNCHANGED <<registry, owner, flows, total, handlerVars, pathVars>>

-----------------------------------------------------------------------------
HandlerStep(c) ==
  \/ \E id \in SIDs, k \in Keys : Join(c, id, k) \/ Create(c, id, k)
  \/ WriteAccept(c) \/ SetWriter(c) \/ Detach(c) \/ Ping(c)
  \/ \E f \in FlowIDs, d \in Dsts : Frame(c, f, d)
  \/ KnownFlow(c) \/ Unbind(c) \/ Reserve(c) \/ Overshot(c) \/ DialFails(c)
  \/ \E k \in Sockets : Dial(c, k)
  \/ Write(c)

ReaderStep(k) == Read(k) \/ Forward(k) \/ ReadFails(k) \/ RemoveFlow(k)

Next ==
  \/ \E c \in Conns : HandlerStep(c)
  \/ \E k \in Sockets : ReaderStep(k)
  \/ \E s \in Sessions : Janitor(s)
  \/ Tick

Spec == Init /\ [][Next]_vars

-----------------------------------------------------------------------------
(* The quota counter is exactly the number of open sockets and of slots    *)
(* being reserved: whichever of handler, reader, janitor and eviction      *)
(* closes a flow, its slot is freed once, and always (glue.go:194-205,     *)
(* 241-253).  With it all limits hold at once, also while two sessions     *)
(* compete for the last slot of the quota (glue.go:63-86).                 *)
QuotaIsExact ==
  /\ total = Cardinality(OpenSockets) + Cardinality(Reserving)
  /\ Cardinality(OpenSockets) <= MaxTotalFlows
  /\ Cardinality(Registered) <= MaxGlueSessions
  /\ \A k \in Keys : Cardinality(SessionsOf(k)) <= MaxSessionsPerClient
  /\ \A s \in Registered :
       /\ Cardinality(FlowsOf(s)) <= MaxFlowsPerSession
       /\ Cardinality(Paths(s)) <= MaxPathsPerSession

(* No socket is left behind: an open one is what its flow ID points to in  *)
(* a session the server still knows, so that a janitor or an eviction can  *)
(* close it.  In particular the reader of a rebound flow does not remove   *)
(* the new socket (glue.go:194-205), and a removed session has none.       *)
OpenSocketsAreReachable ==
  \A k \in OpenSockets :
    /\ socket[k].sess \in Registered
    /\ flows[socket[k].sess][socket[k].f] = k

(* Whichever connections join and leave a session in whatever order, the   *)
(* clock that removes it runs exactly while it has no path: no empty       *)
(* session stays for good, and while a path is attached its session is not *)
(* removed, evicted or handed to another key (glue.go:138, 151-181,        *)
(* 211-220, 325-348).                                                      *)
PathsKeepTheirSession ==
  /\ \A s \in Registered : Paths(s) = {} <=> emptyAge[s] # Occupied
  /\ \A c \in Conns : pc[c] # "idle" =>
       /\ at[c] \in Registered
       /\ owner[at[c]] = peer[c]

(* A payload is written to no socket but one for its own session, flow ID  *)
(* and destination, whatever other paths did to the flow after flow()      *)
(* returned (glue.go:446-454).                                             *)
PayloadsReachTheirDestination ==
  \A c \in Conns : uses[c] # None /\ socket[uses[c]].open =>
    /\ socket[uses[c]].sess = at[c]
    /\ socket[uses[c]].f = want[c].f
    /\ socket[uses[c]].dst = want[c].dst

(* No frame gets in front of the accept message (glue.go:379-388).         *)
AcceptComesFirst == \A c \in Conns : "frame" \in wire[c] => "accept" \in wire[c]
=============================================================================
