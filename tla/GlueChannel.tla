---------------------------- MODULE GlueChannel ----------------------------
(***************************************************************************)
(* One client's game traffic end to end: the paths of the client           *)
(* (cmd/client/gluepaths.go), the session they join on the server          *)
(* (cmd/server/glue.go) and the frames in both directions.                 *)
(*                                                                         *)
(* Every packet is sent over every path and every reply comes back over    *)
(* every path; each side drops the copies with a frame.Receiver.  The      *)
(* server numbers its sessions with epochs: after a restart, or when a     *)
(* session without paths was removed, the next path gets a new session     *)
(* whose replies count from zero, and the client must start its window     *)
(* anew.                                                                   *)
(*                                                                         *)
(* Frames in flight on a path form a set: concurrent senders may queue     *)
(* them in any order, the queue drops some, and one that is never received *)
(* is lost.  Frames dropped for their age are in Receiver.                 *)
(*                                                                         *)
(* The two ends of a connection end at different times: a handler of a     *)
(* connection that the client has given up lingers in the session, beside  *)
(* that of the path's next connection, until a read fails.                 *)
(***************************************************************************)
EXTENDS SeqWindow, FiniteSets

CONSTANTS
  Paths,       \* the connections of the client, by index
  MaxPathsPerSession,
  MaxEpoch,    \* bound: server sessions are numbered 1 .. MaxEpoch
  MaxReply,    \* bound: replies of a session are numbered 0 .. MaxReply
  MaxPacket,   \* bound: packets of the client are numbered 0 .. MaxPacket
  MaxFaults    \* bound: how often a connection or a dial breaks or the server
               \* restarts

ASSUME GlueChannelAssumption ==
  /\ IsFiniteSet(Paths)
  /\ MaxEpoch \in Nat /\ MaxReply \in Nat /\ MaxPacket \in Nat /\ MaxFaults \in Nat
  /\ MaxPathsPerSession \in Nat
  /\ MaxReply < Half /\ MaxPacket < Half

NoEpoch == 0

Epochs  == 1 .. MaxEpoch
Replies == [path : Paths, epoch : Epochs, seq : 0 .. MaxReply]
Packets == [path : Paths, epoch : Epochs, seq : 0 .. MaxPacket]

VARIABLES
  \* the server
  session,     \* the epoch of the client's session, NoEpoch if there is none
  lastEpoch,   \* the newest epoch handed out
  attached,    \* the paths whose connection is in the session
  lingering,   \* how many connections in the session the client has left
  replySeq,
  packetsIn,   \* the session's receiver
  \* the network
  toServer, toClient,
  \* the client
  pc,          \* keepPath: "down", "dialed" (accept read), "up" (servePath),
               \* "stopped" by a permanent error
  joined,      \* the epoch the path joined
  epoch,       \* replyHandler.epoch
  repliesIn,   \* replyHandler.recv
  packetSeq,
  inHand,      \* frames held by reader goroutines of closed connections
  \* history
  forwarded,   \* how often each packet was written to its game server
  delivered,   \* how often each reply was written to the TUN
  adopted,     \* how often each epoch became replyHandler.epoch
  faults

serverVars == <<session, lastEpoch, attached, lingering, replySeq, packetsIn>>
clientVars == <<pc, joined, epoch, repliesIn, packetSeq, inHand>>
vars == <<serverVars, clientVars, toServer, toClient, forwarded, delivered,
          adopted, faults>>

TypeOK ==
  /\ session \in Epochs \union {NoEpoch}
  /\ lastEpoch \in 0 .. MaxEpoch
  /\ attached \in SUBSET Paths
  /\ lingering \in Nat
  /\ session = NoEpoch => attached = {} /\ lingering = 0
  /\ replySeq \in 0 .. MaxReply + 1
  /\ packetsIn \in WindowStates
  /\ toServer \in SUBSET Packets
  /\ toClient \in SUBSET Replies
  /\ pc \in [Paths -> {"down", "dialed", "up", "stopped"}]
  /\ joined \in [Paths -> Epochs \union {NoEpoch}]
  /\ epoch \in Epochs \union {NoEpoch}
  /\ repliesIn \in WindowStates
  /\ packetSeq \in 0 .. MaxPacket + 1
  /\ inHand \in SUBSET Replies
  /\ forwarded \in [0 .. MaxPacket -> Nat]
  /\ delivered \in [Epochs \X (0 .. MaxReply) -> Nat]
  /\ adopted \in [Epochs -> Nat]
  /\ faults \in 0 .. MaxFaults

Init ==
  /\ session = NoEpoch /\ lastEpoch = 0 /\ attached = {} /\ lingering = 0
  /\ replySeq = 0
  /\ packetsIn = EmptyWindow
  /\ toServer = {} /\ toClient = {}
  /\ pc = [i \in Paths |-> "down"]
  /\ joined = [i \in Paths |-> NoEpoch]
  /\ epoch = NoEpoch /\ repliesIn = EmptyWindow
  /\ packetSeq = 0 /\ inHand = {}
  /\ forwarded = [n \in 0 .. MaxPacket |-> 0]
  /\ delivered = [r \in Epochs \X (0 .. MaxReply) |-> 0]
  /\ adopted = [e \in Epochs |-> 0]
  /\ faults = 0

-----------------------------------------------------------------------------
(* Connecting.                                                             *)

(* attachGluePath: a connection joins the session, a new one if there is   *)
(* none.                                                                   *)
HasRoom == Cardinality(attached) + lingering < MaxPathsPerSession

Join ==
  /\ HasRoom
  /\ IF session # NoEpoch
       THEN UNCHANGED <<session, lastEpoch, replySeq, packetsIn>>
       ELSE /\ lastEpoch < MaxEpoch
            /\ session' = lastEpoch + 1
            /\ lastEpoch' = lastEpoch + 1
            /\ replySeq' = 0
            /\ packetsIn' = EmptyWindow

(* dialServer: the client reads the accept with the epoch of the session.  *)
Dial(i) ==
  /\ pc[i] = "down"
  /\ Join
  /\ attached' = attached \union {i}
  /\ joined' = [joined EXCEPT ![i] = session']
  /\ pc' = [pc EXCEPT ![i] = "dialed"]
  /\ UNCHANGED <<lingering, epoch, repliesIn, packetSeq, inHand, toServer, toClient,
                 forwarded, delivered, adopted, faults>>

(* The connection breaks before the accept arrives, and the path dials     *)
(* again.  A dial that fails earlier changes nothing.                      *)
DialLost(i) ==
  /\ faults < MaxFaults /\ faults' = faults + 1
  /\ pc[i] = "down"
  /\ Join
  /\ lingering' = lingering + 1
  /\ UNCHANGED <<attached, clientVars, toServer, toClient, forwarded, delivered, adopted>>

(* The server closes the connection during the handshake, because it ends  *)
(* or its deadline passes.  That counts as a rejected key: the path stops  *)
(* for good, and onFatal ends the client.                                  *)
DialRejected(i) ==
  /\ faults < MaxFaults /\ faults' = faults + 1
  /\ pc[i] = "down"
  /\ pc' = [pc EXCEPT ![i] = "stopped"]
  /\ UNCHANGED <<serverVars, joined, epoch, repliesIn, packetSeq, inHand, toServer,
                 toClient, forwarded, delivered, adopted>>

Ended == \A i \in Paths : pc[i] = "stopped"

ClientEnds ==
  /\ ~Ended /\ \E i \in Paths : pc[i] = "stopped"
  /\ pc' = [i \in Paths |-> "stopped"]
  /\ attached' = {} /\ lingering' = lingering + Cardinality(attached)
  /\ toClient' = {} /\ inHand' = {}
  /\ UNCHANGED <<session, lastEpoch, replySeq, packetsIn, joined, epoch, repliesIn,
                 packetSeq, toServer, forwarded, delivered, adopted, faults>>

(* setEpoch: the window after a path announced epoch e. *)
\* Variant with a bug: the old window is kept.
KeepWindow(e) == repliesIn
WindowFor(e) == IF e = epoch THEN repliesIn ELSE EmptyWindow

\* Variant with a bug: only the first epoch is ever taken.
FirstEpoch(e) == IF epoch = NoEpoch THEN e ELSE epoch
EpochAfter(e) == e

(* keepPath after a successful dial: onEpoch, then the path's writer. *)
Announce(i) ==
  /\ pc[i] = "dialed"
  /\ epoch' = EpochAfter(joined[i])
  /\ repliesIn' = WindowFor(joined[i])
  /\ adopted' = [adopted EXCEPT ![joined[i]] =
                   IF epoch = joined[i] THEN @ ELSE @ + 1]
  /\ pc' = [pc EXCEPT ![i] = "up"]
  /\ UNCHANGED <<serverVars, joined, packetSeq, inHand, toServer, toClient,
                 forwarded, delivered, faults>>

(* servePath returns and closes the connection.  Its reader goroutine may  *)
(* still hold the frame it has just read, and the handler on the server    *)
(* does not know yet.                                                      *)
Disconnect(i) ==
  /\ pc[i] = "up"
  /\ pc' = [pc EXCEPT ![i] = "down"]
  /\ \E held \in {{}} \union {{r} : r \in {r \in toClient : r.path = i}} :
       inHand' = inHand \union held
  /\ toClient' = {r \in toClient : r.path # i}
  /\ attached' = attached \ {i}
  /\ lingering' = IF i \in attached THEN lingering + 1 ELSE lingering
  /\ UNCHANGED <<session, lastEpoch, replySeq, packetsIn, joined, epoch, repliesIn,
                 packetSeq, toServer, forwarded, delivered, adopted>>

(* The server has dropped the connection: Read fails, or the path pings    *)
(* are not answered for pathDeadAfter.                                     *)
NoticeDead(i) == i \notin attached /\ Disconnect(i) /\ UNCHANGED faults

(* A path that is merely slow is given up as well. *)
GiveUpPath(i) ==
  /\ faults < MaxFaults /\ faults' = faults + 1
  /\ i \in attached
  /\ Disconnect(i)

-----------------------------------------------------------------------------
(* The server side coming and going.                                       *)

(* A handler sees its connection fail and detaches the path; what was on   *)
(* its way to the client may still arrive.                                 *)
ServerDetaches(i) ==
  /\ faults < MaxFaults /\ faults' = faults + 1
  /\ i \in attached
  /\ attached' = attached \ {i}
  /\ UNCHANGED <<session, lastEpoch, lingering, replySeq, packetsIn, clientVars, toServer,
                 toClient, forwarded, delivered, adopted>>

(* The handler of a connection that the client has left: Read fails, or    *)
(* nothing came for glueReadTimeout.                                       *)
ServerNotices ==
  /\ lingering > 0 /\ lingering' = lingering - 1
  /\ UNCHANGED <<session, lastEpoch, attached, replySeq, packetsIn, clientVars, toServer,
                 toClient, forwarded, delivered, adopted, faults>>

(* The session ends; nobody reads what is still on its way to it. *)
EndSession ==
  /\ session # NoEpoch
  /\ lastEpoch < MaxEpoch
  /\ session' = NoEpoch
  /\ toServer' = {}
  /\ UNCHANGED <<lastEpoch, replySeq, packetsIn, clientVars, toClient, forwarded,
                 delivered, adopted>>

(* The janitor or makeRoomForSession removes a session without paths. *)
Remove ==
  /\ attached = {} /\ lingering = 0
  /\ EndSession
  /\ UNCHANGED <<attached, lingering, faults>>

Restart ==
  /\ faults < MaxFaults /\ faults' = faults + 1
  /\ EndSession
  /\ attached' = {} /\ lingering' = 0

-----------------------------------------------------------------------------
(* Frames.                                                                 *)

(* gluePaths.send: one packet, a copy on every path that is up. *)
SendPacket ==
  /\ ~Ended
  /\ packetSeq <= MaxPacket
  /\ packetSeq' = packetSeq + 1
  /\ toServer' = toServer \union
       {[path |-> i, epoch |-> session, seq |-> packetSeq] :
          i \in {i \in attached : pc[i] = "up"}}
  /\ UNCHANGED <<serverVars, pc, joined, epoch, repliesIn, inHand, toClient,
                 forwarded, delivered, adopted, faults>>

(* handleGlueConn: a frame of a handler of the session.  The copies of one *)
(* packet meet in the session's receiver.                                  *)
\* Variant with a bug: every copy is new.
EveryCopy(seq) == TRUE
IsNewPacket(seq) == Fresh(packetsIn, seq)

Forward(p) ==
  /\ p.epoch = session
  /\ toServer' = toServer \ {p}
  /\ packetsIn' = AcceptSeq(packetsIn, p.seq)
  /\ forwarded' = IF IsNewPacket(p.seq) THEN [forwarded EXCEPT ![p.seq] = @ + 1]
                                        ELSE forwarded
  /\ UNCHANGED <<session, lastEpoch, attached, lingering, replySeq, clientVars, toClient,
                 delivered, adopted, faults>>

(* broadcast: one reply, a copy to every path of the session. *)
Reply ==
  /\ session # NoEpoch
  /\ replySeq <= MaxReply
  /\ replySeq' = replySeq + 1
  /\ toClient' = toClient \union
       {[path |-> i, epoch |-> session, seq |-> replySeq] : i \in attached}
  /\ UNCHANGED <<session, lastEpoch, attached, lingering, packetsIn, clientVars, toServer,
                 forwarded, delivered, adopted, faults>>

(* replyHandler.handle, with the epoch of the path the frame came on. *)
\* Variant with a bug: the epoch is not compared.
AnyEpoch(r) == Fresh(repliesIn, r.seq)
Accepted(r) == r.epoch = epoch /\ Fresh(repliesIn, r.seq)

Handle(r) ==
  /\ IF Accepted(r)
       THEN /\ repliesIn' = AcceptSeq(repliesIn, r.seq)
            /\ delivered' = [delivered EXCEPT ![<<r.epoch, r.seq>>] = @ + 1]
       ELSE UNCHANGED <<repliesIn, delivered>>
  /\ UNCHANGED <<serverVars, pc, joined, epoch, packetSeq, toServer, forwarded,
                 adopted, faults>>

Receive(r) ==
  /\ pc[r.path] = "up"
  /\ r.epoch = joined[r.path]
  /\ toClient' = toClient \ {r}
  /\ Handle(r)
  /\ UNCHANGED inHand

(* The reader of a connection closed meanwhile hands over its last frame. *)
ReceiveLate(r) ==
  /\ inHand' = inHand \ {r}
  /\ Handle(r)
  /\ UNCHANGED toClient

-----------------------------------------------------------------------------
PathStep(i) == Dial(i) \/ Announce(i) \/ NoticeDead(i)

Next ==
  \/ \E i \in Paths : \/ PathStep(i) \/ GiveUpPath(i) \/ ServerDetaches(i)
                      \/ DialLost(i) \/ DialRejected(i)
  \/ ClientEnds \/ ServerNotices
  \/ Remove \/ Restart
  \/ SendPacket \/ Reply
  \/ \E p \in toServer : Forward(p)
  \/ \E r \in toClient : Receive(r)
  \/ \E r \in inHand : ReceiveLate(r)

Spec == Init /\ [][Next]_vars

(* keepPath's goroutines run: they dial again and again, and the path      *)
(* pings find a dead connection, as does the deadline of the server's      *)
(* reads; a client that has to end ends.                                   *)
FairSpec ==
  /\ Spec
  /\ \A i \in Paths : WF_vars(PathStep(i))
  /\ WF_vars(ServerNotices) /\ WF_vars(ClientEnds)

-----------------------------------------------------------------------------
(* A packet of the client reaches its game server at most once: the copies *)
(* on the other paths are dropped, and a new session never sees a packet   *)
(* that the old one forwarded (glue.go:424-429, 101-104).                  *)
PacketsForwardedOnce == \A n \in 0 .. MaxPacket : forwarded[n] <= 1

(* While the handler stays with a session, no reply of it is delivered     *)
(* twice, and replies of other sessions are not delivered at all: a second *)
(* delivery takes a second adoption of the same epoch                      *)
(* (gluepaths.go:283-312).                                                 *)
OncePerAdoption ==
  \A e \in Epochs, n \in 0 .. MaxReply : delivered[<<e, n>>] <= adopted[e]

(* The replies of a new session are heard from the first one on, although  *)
(* they count from zero (gluepaths.go:278-282): a reply of the session the *)
(* handler is with that was never delivered, and is not Window behind a    *)
(* delivered one, is accepted when it comes.                               *)
NewRepliesAreHeard ==
  \A r \in toClient :
    /\ r.epoch = epoch
    /\ delivered[<<r.epoch, r.seq>>] = 0
    /\ \A n \in 0 .. MaxReply : delivered[<<epoch, n>>] > 0 => r.seq > n - Window
    => Accepted(r)

(* Once connections stop breaking, all paths end up in the server's        *)
(* session and the handler with its epoch, whatever stale epoch was        *)
(* announced on the way and whatever old connections filled the session;   *)
(* or a path met a permanent error, and the client has ended as a whole    *)
(* instead of going on with fewer paths (gluepaths.go:151-197, 283-294,    *)
(* glue.go:133).                                                           *)
InStep ==
  /\ session # NoEpoch /\ epoch = session
  /\ \A i \in Paths : pc[i] = "up" /\ i \in attached /\ joined[i] = session
EventuallyInStep == <>[](InStep \/ Ended)
=============================================================================
