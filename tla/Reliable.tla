------------------------------ MODULE Reliable ------------------------------
(***************************************************************************)
(* The reliable channel, both ends: the SOCKS5 client (cmd/client/socks.go)*)
(* opens one smux stream per app connection inside its session with the    *)
(* server, which dials a target for every stream (cmd/server/reliable.go)  *)
(* and counts streams and connections (streamLimiter, acceptLoop).         *)
(*                                                                         *)
(* Sessions and Apps are pools.  Member a of Apps stands for one app       *)
(* connection, its handleApp, its stream and the handleStream of it, and   *)
(* is used again when both are gone.  smux is external: a stream ends when *)
(* its session does, and both ends notice a lost connection sooner or      *)
(* later.  What is relayed, the target names and the SOCKS5 bytes are left *)
(* out, and so is the growth of the backoff.                               *)
(***************************************************************************)
EXTENDS Integers, FiniteSets

CONSTANTS
  Clients,                     \* client programs, each with its own key
  Sessions, Apps, None,
  AppsOf,                      \* the members of Apps a client may use
  Watched,                     \* the app the liveness properties are about, any
  MaxPerKey, MaxTotal,         \* maxStreamsPerKey, maxOutboundTCP
  MaxActiveConns

ASSUME ReliableAssumption ==
  /\ AppsOf \in [Clients -> SUBSET Apps] /\ Watched \in Apps
  /\ MaxPerKey \in Nat \ {0} /\ MaxTotal \in Nat \ {0} /\ MaxActiveConns \in Nat \ {0}
  /\ None \notin Sessions \union Apps \union Clients

VARIABLES
  run,       \* "off", "starting" (the first dial), or "up"
  sess,      \* s.sess, None when it is nil or known to be closed
  dialed,    \* the session a dial is setting up, None if there is no dial
  holder,    \* the app that holds s.mu over a dial
  waits,     \* s.nextDial lies ahead
  fatal,     \* s.fatal is set
  session,   \* the connections and both ends of them
  stream,    \* the apps and where their handlers are
  perKey, total, \* streams
  slots      \* how full the channel of acceptLoop is

clientVars == <<run, sess, dialed, holder, waits, fatal>>
countVars  == <<perKey, total, slots>>
vars == <<clientVars, session, stream, countVars>>

(* client: the end of the client is open.  server: where the handler is.   *)
(* ok: authOK is under way.  cut: the network lost the connection.         *)
NoSession == [owner |-> None, client |-> FALSE, server |-> "done", ok |-> FALSE, cut |-> FALSE]
NewSession(c) == [NoSession EXCEPT !.owner = c, !.client = TRUE, !.server = "pending"]

(* app: where handleApp is.  srv: where the handler of the stream is.      *)
NoStream == [app |-> "none", srv |-> "done", of |-> None, on |-> None, answer |-> "none"]

Working == {"setup", "dialing", "relay", "half"}
WorkingFor(c) == {a \in Apps : stream[a].srv \in Working /\ stream[a].of = c}
Handling == {s \in Sessions : session[s].server \in {"handshake", "serving"}}

TypeOK ==
  /\ run \in [Clients -> {"off", "starting", "up"}]
  /\ sess \in [Clients -> Sessions \union {None}]
  /\ dialed \in [Clients -> Sessions \union {None}]
  /\ holder \in [Clients -> Apps \union {None}]
  /\ waits \in [Clients -> BOOLEAN] /\ fatal \in [Clients -> BOOLEAN]
  /\ session \in [Sessions -> [owner : Clients \union {None}, client : BOOLEAN,
       server : {"pending", "refused", "handshake", "serving", "done"},
       ok : BOOLEAN, cut : BOOLEAN]]
  /\ stream \in [Apps -> [app : {"none", "opening", "dialing", "target", "status", "relay", "half"},
       srv : {"coming", "done"} \union Working, of : Clients \union {None},
       on : Sessions \union {None}, answer : {"none", "ok", "failed"}]]
  /\ perKey \in [Clients -> 0 .. MaxPerKey] /\ total \in 0 .. MaxTotal
  /\ slots \in 0 .. MaxActiveConns

Init ==
  /\ run = [c \in Clients |-> "off"]
  /\ sess = [c \in Clients |-> None] /\ dialed = sess /\ holder = sess
  /\ waits = [c \in Clients |-> FALSE] /\ fatal = waits
  /\ session = [s \in Sessions |-> NoSession]
  /\ stream = [a \in Apps |-> NoStream]
  /\ perKey = [c \in Clients |-> 0] /\ total = 0 /\ slots = 0

-----------------------------------------------------------------------------
(* What nobody can tell apart any more is forgotten. *)
Tidy(r) ==
  LET ended == r.server \in {"refused", "done"} IN
  IF ~r.client /\ ended THEN NoSession
  ELSE [r EXCEPT !.cut = @ /\ r.client /\ ~ended, !.ok = @ /\ r.client]
TidyStream(r) ==
  IF r.app # "none" THEN r
  ELSE IF r.srv = "done" THEN NoStream ELSE [r EXCEPT !.answer = "none"]

Put(s, r) == [session EXCEPT ![s] = Tidy(r)]
ClosedByClient(s) == Put(s, [session[s] EXCEPT !.client = FALSE])
PutStream(a, r) == stream' = [stream EXCEPT ![a] = TidyStream(r)]

AppAt(a, pc) == PutStream(a, [stream[a] EXCEPT !.app = pc])
AppGone(a) == AppAt(a, "none")

Unused(s) ==
  /\ session[s] = NoSession
  /\ \A a \in Apps : stream[a].on # s
Fresh == CHOOSE s \in Sessions : Unused(s)

-----------------------------------------------------------------------------
(* The client.  runSocksMode dials before it listens. *)
Start(c) ==
  /\ run[c] = "off" /\ \E s \in Sessions : Unused(s)
  /\ run' = [run EXCEPT ![c] = "starting"]
  /\ dialed' = [dialed EXCEPT ![c] = Fresh]
  /\ session' = Put(Fresh, NewSession(c))
  /\ UNCHANGED <<sess, holder, waits, fatal, stream, countVars>>

(* An app connects and is through with the SOCKS5 handshake. *)
Connect(a, c) ==
  /\ run[c] = "up" /\ a \in AppsOf[c] /\ stream[a] = NoStream
  /\ stream' = [stream EXCEPT ![a].app = "opening", ![a].of = c]
  /\ UNCHANGED <<clientVars, session, countVars>>

(* sess.OpenStream.  It does not need the server. *)
Opened(a, s) ==
  stream' = [stream EXCEPT ![a].app = "target", ![a].on = s,
               ![a].srv = IF session[s].server = "done" THEN "done" ELSE "coming"]

(* openStream with a session that is not known to be closed. *)
OpenStream(a) ==
  LET c == stream[a].of IN
  /\ stream[a].app = "opening" /\ holder[c] = None
  /\ sess[c] # None
  /\ Opened(a, sess[c])
  /\ UNCHANGED <<clientVars, session, countVars>>

(* s.sess.Close() *)
\* Variant with a bug: the lost session is only forgotten.
ForgetLost(c) == session
CloseLost(c) == IF sess[c] = None THEN session ELSE ClosedByClient(sess[c])

(* openStream when there is none, it was closed, or OpenStream failed:     *)
(* fail right away, or dial, holding the mutex.                            *)
MayDial(c) == ~fatal[c] /\ ~waits[c]

Redial(a) ==
  LET c == stream[a].of IN
  /\ stream[a].app = "opening" /\ holder[c] = None
  /\ sess' = [sess EXCEPT ![c] = None]
  /\ \/ /\ ~MayDial(c)
        /\ session' = CloseLost(c) /\ AppGone(a)
        /\ UNCHANGED <<dialed, holder>>
     \/ /\ MayDial(c)
        /\ \E s \in Sessions : Unused(s)
        /\ session' = [CloseLost(c) EXCEPT ![Fresh] = NewSession(c)]
        /\ dialed' = [dialed EXCEPT ![c] = Fresh] /\ holder' = [holder EXCEPT ![c] = a]
        /\ AppAt(a, "dialing")
  /\ UNCHANGED <<run, waits, fatal, countVars>>

(* The end of a dial, for the app that holds the mutex or at the start.    *)
EndDial(c) ==
  /\ dialed' = [dialed EXCEPT ![c] = None]
  /\ holder' = [holder EXCEPT ![c] = None]

(* ClientHandshake reads authOK.  The OpenStream that follows may fail.    *)
DialSucceeds(c) ==
  LET s == dialed[c] IN
  /\ s # None /\ session[s].ok
  /\ EndDial(c)
  /\ sess' = [sess EXCEPT ![c] = s]
  /\ session' = Put(s, [session[s] EXCEPT !.ok = FALSE])
  /\ run' = [run EXCEPT ![c] = "up"] /\ waits' = [waits EXCEPT ![c] = FALSE]
  /\ IF holder[c] = None THEN UNCHANGED stream
     ELSE Opened(holder[c], s) \/ AppGone(holder[c])
  /\ UNCHANGED <<fatal, countVars>>

DialEnded(c, permanent) ==
  LET a == holder[c] IN
  /\ EndDial(c)
  /\ session' = ClosedByClient(dialed[c])
  /\ IF a = None
       THEN run' = [run EXCEPT ![c] = "off"] /\ UNCHANGED <<stream, waits, fatal>>
       ELSE /\ AppGone(a)
            /\ waits' = [waits EXCEPT ![c] = @ \/ ~permanent]
            /\ fatal' = [fatal EXCEPT ![c] = permanent]
            /\ UNCHANGED run
  /\ UNCHANGED <<sess, countVars>>

(* A network error, a server without a free slot, or a timeout. *)
DialFails(c) == dialed[c] # None /\ DialEnded(c, FALSE)

(* The connection ended without authOK: ErrRejected. *)
DialRejected(c) ==
  /\ dialed[c] # None
  /\ session[dialed[c]].server = "done" /\ ~session[dialed[c]].ok
  /\ DialEnded(c, TRUE)

BackoffEnds(c) ==
  /\ waits[c] /\ waits' = [waits EXCEPT ![c] = FALSE]
  /\ UNCHANGED <<run, sess, dialed, holder, fatal, session, stream, countVars>>

(* smux finds the connection gone, and the session is closed. *)
NoticeLoss(c) ==
  /\ sess[c] # None
  /\ session[sess[c]].cut \/ session[sess[c]].server = "done"
  /\ session' = ClosedByClient(sess[c])
  /\ sess' = [sess EXCEPT ![c] = None]
  /\ UNCHANGED <<run, dialed, holder, waits, fatal, stream, countVars>>

(* The program ends, by the permanent error or at any time by the user.    *)
Off(c) ==
  /\ run[c] # "off"
  /\ run' = [run EXCEPT ![c] = "off"]
  /\ sess' = [sess EXCEPT ![c] = None]
  /\ waits' = [waits EXCEPT ![c] = FALSE] /\ fatal' = [fatal EXCEPT ![c] = FALSE]
  /\ EndDial(c)
  /\ session' = [s \in Sessions |->
       IF session[s].owner = c THEN Tidy([session[s] EXCEPT !.client = FALSE]) ELSE session[s]]
  /\ stream' = [a \in Apps |->
       IF stream[a].of = c THEN TidyStream([stream[a] EXCEPT !.app = "none"]) ELSE stream[a]]
  /\ UNCHANGED countVars

-----------------------------------------------------------------------------
(* handleApp, from the open stream on.                                     *)
ClosedForApp(a) == ~session[stream[a].on].client
NoMoreForApp(a) == ClosedForApp(a) \/ stream[a].srv = "done"

WriteTarget(a) ==
  /\ stream[a].app = "target"
  /\ AppAt(a, IF ClosedForApp(a) THEN "none" ELSE "status")
  /\ UNCHANGED <<clientVars, session, countVars>>

ReadStatus(a) ==
  /\ stream[a].app = "status"
  /\ \/ stream[a].answer = "ok" /\ AppAt(a, "relay")
     \/ stream[a].answer = "failed" /\ AppGone(a)
     \/ NoMoreForApp(a) /\ AppGone(a)
  /\ UNCHANGED <<clientVars, session, countVars>>

(* Relay: one direction ends, by the app or because the stream did;        *)
AppHalf(a) ==
  /\ stream[a].app = "relay" /\ AppAt(a, "half")
  /\ UNCHANGED <<clientVars, session, countVars>>

(* the other one ends as well, or relayDrainTimeout is over.               *)
AppDrained(a) ==
  /\ stream[a].app = "half" /\ AppGone(a)
  /\ UNCHANGED <<clientVars, session, countVars>>

-----------------------------------------------------------------------------
(* The server: acceptLoop and handleConn.                                  *)
Accept(s) ==
  /\ session[s].server = "pending"
  /\ IF slots < MaxActiveConns
       THEN /\ slots' = slots + 1
            /\ session' = Put(s, [session[s] EXCEPT !.server = "handshake"])
       ELSE /\ session' = Put(s, [session[s] EXCEPT !.server = "refused"])
            /\ UNCHANGED slots
  /\ UNCHANGED <<clientVars, stream, perKey, total>>

HandshakeSucceeds(s) ==
  /\ session[s].server = "handshake" /\ session[s].client /\ ~session[s].cut
  /\ session' = Put(s, [session[s] EXCEPT !.server = "serving", !.ok = TRUE])
  /\ UNCHANGED <<clientVars, stream, countVars>>

(* A wrong key, a banned address, a lost connection, or handshakeTimeout.  *)
HandshakeFails(s) ==
  /\ session[s].server = "handshake"
  /\ session' = Put(s, [session[s] EXCEPT !.server = "done"])
  /\ slots' = slots - 1
  /\ UNCHANGED <<clientVars, stream, perKey, total>>

(* AcceptStream fails; sess.Close ends all streams of the session.         *)
HandlerEnds(s) ==
  /\ session[s].server = "serving" /\ (session[s].cut \/ ~session[s].client)
  /\ session' = Put(s, [session[s] EXCEPT !.server = "done"])
  /\ slots' = slots - 1
  /\ stream' = [a \in Apps |->
       IF stream[a].on = s /\ stream[a].srv = "coming"
       THEN TidyStream([stream[a] EXCEPT !.srv = "done"]) ELSE stream[a]]
  /\ UNCHANGED <<clientVars, perKey, total>>

acquire(c) ==
  /\ perKey[c] < MaxPerKey /\ total < MaxTotal
  /\ perKey' = [perKey EXCEPT ![c] = @ + 1] /\ total' = total + 1

(* A refused stream is told so and closed. *)
\* Variant with a bug: it is neither told nor closed.
DropSilently(a) == UNCHANGED stream
Refuse(a) == PutStream(a, [stream[a] EXCEPT !.srv = "done", !.answer = "failed"])

AcceptStream(a) ==
  LET s == stream[a].on c == stream[a].of IN
  /\ stream[a].srv = "coming" /\ session[s].server = "serving"
  /\ \/ acquire(c) /\ PutStream(a, [stream[a] EXCEPT !.srv = "setup"])
     \/ (perKey[c] >= MaxPerKey \/ total >= MaxTotal)
        /\ Refuse(a) /\ UNCHANGED <<perKey, total>>
  /\ UNCHANGED <<clientVars, session, slots>>

-----------------------------------------------------------------------------
(* handleStream, and the release after it.                                 *)
release(c) == perKey' = [perKey EXCEPT ![c] = @ - 1] /\ total' = total - 1

\* Variant with a bug: only a relayed stream gives its place back.
FinishRelayed(a, answer) ==
  /\ PutStream(a, [stream[a] EXCEPT !.srv = "done", !.answer = answer])
  /\ IF stream[a].srv = "half" THEN release(stream[a].of) ELSE UNCHANGED <<perKey, total>>
  /\ UNCHANGED <<clientVars, session, slots>>
Finish(a, answer) ==
  /\ PutStream(a, [stream[a] EXCEPT !.srv = "done", !.answer = answer])
  /\ release(stream[a].of)
  /\ UNCHANGED <<clientVars, session, slots>>

ClosedForServer(a) == session[stream[a].on].server = "done"

(* An app that went away may or may not have sent the target. *)
ReadTarget(a) ==
  /\ stream[a].srv = "setup" /\ stream[a].app # "target" /\ ~ClosedForServer(a)
  /\ PutStream(a, [stream[a] EXCEPT !.srv = "dialing"])
  /\ UNCHANGED <<clientVars, session, countVars>>

(* The stream ends, or setupTimeout is over. *)
SetupFails(a) == stream[a].srv = "setup" /\ Finish(a, "none")

TargetAnswers(a) ==
  /\ stream[a].srv = "dialing" /\ ~ClosedForServer(a)
  /\ PutStream(a, [stream[a] EXCEPT !.srv = "relay", !.answer = "ok"])
  /\ UNCHANGED <<clientVars, session, countVars>>

(* The dial fails, in its timeout, or the status cannot be written. *)
TargetFails(a) ==
  /\ stream[a].srv = "dialing"
  /\ Finish(a, IF ClosedForServer(a) THEN "none" ELSE "failed")

(* Relay: the first direction ends by itself or with the stream. *)
NoMoreForServer(a) == ClosedForServer(a) \/ stream[a].app = "none"

ServerHalf(a) ==
  /\ stream[a].srv = "relay"
  /\ PutStream(a, [stream[a] EXCEPT !.srv = "half"])
  /\ UNCHANGED <<clientVars, session, countVars>>

(* The other one ends, or relayDrainTimeout is over. *)
\* Variant with a bug: there is no timeout, and the target keeps silent.
DrainForGood(a) == FALSE
ServerDrained(a) == stream[a].srv = "half" /\ Finish(a, stream[a].answer)

(* The network loses a connection that both ends hold open. *)
Cut(s) ==
  /\ session[s].client /\ session[s].server \notin {"refused", "done"}
  /\ ~session[s].cut
  /\ session' = [session EXCEPT ![s].cut = TRUE]
  /\ UNCHANGED <<clientVars, stream, countVars>>

-----------------------------------------------------------------------------
AppStep(a) == OpenStream(a) \/ Redial(a)
HandleApp(a) == WriteTarget(a) \/ ReadStatus(a) \/ AppDrained(a)
HandleStream(a) ==
  \/ AcceptStream(a) \/ ReadTarget(a) \/ SetupFails(a)
  \/ TargetAnswers(a) \/ TargetFails(a) \/ ServerDrained(a)
HandleConn(s) ==
  Accept(s) \/ HandshakeSucceeds(s) \/ HandshakeFails(s) \/ HandlerEnds(s)
Dialing(c) == DialSucceeds(c) \/ DialFails(c) \/ DialRejected(c)

Next ==
  \/ \E c \in Clients :
       Start(c) \/ Dialing(c) \/ BackoffEnds(c) \/ NoticeLoss(c) \/ Off(c)
  \/ \E a \in Apps, c \in Clients : Connect(a, c)
  \/ \E a \in Apps :
       AppStep(a) \/ HandleApp(a) \/ AppHalf(a) \/ HandleStream(a) \/ ServerHalf(a)
  \/ \E s \in Sessions : HandleConn(s) \/ Cut(s)

Spec == Init /\ [][Next]_vars

(* The goroutines run: dials, handshakes, the setup of a stream and the    *)
(* rest of a relay have timeouts, smux notices a dead connection by its    *)
(* keep-alive, a relay notices that its stream has ended, and a sync.Mutex *)
(* is given to whoever has waited for a millisecond.                       *)
FairSpec ==
  /\ Spec
  /\ \A c \in Clients : WF_vars(Dialing(c) \/ NoticeLoss(c))
  /\ \A s \in Sessions : WF_vars(HandleConn(s))
  /\ \A a \in Apps :
       /\ SF_vars(AppStep(a))
       /\ WF_vars(HandleApp(a) \/ (AppHalf(a) /\ NoMoreForApp(a)))
       /\ WF_vars(HandleStream(a) \/ (ServerHalf(a) /\ NoMoreForServer(a)))

-----------------------------------------------------------------------------
(* Streams are taken up by the accept loops of many connections and given  *)
(* back by goroutines that may outlive them: the counts stay those of the  *)
(* goroutines that run, within the limits, for every key and in total, and *)
(* the slots those of the handlers (reliable.go:55-77, 109-114,            *)
(* main.go:265-278).                                                       *)
CountersAreExact ==
  /\ \A c \in Clients :
       perKey[c] = Cardinality(WorkingFor(c)) /\ perKey[c] <= MaxPerKey
  /\ total = Cardinality({a \in Apps : stream[a].srv \in Working}) /\ total <= MaxTotal
  /\ slots = Cardinality(Handling) /\ slots <= MaxActiveConns

(* Whatever apps find the session lost at the same time, the client has    *)
(* one session at most, the one in s.sess or the one being dialed, and     *)
(* after a permanent error none, for "no more dials are made"              *)
(* (socks.go:105-107, 117-154).                                            *)
OneSession ==
  /\ \A s \in Sessions : session[s].client =>
       LET c == session[s].owner IN s \in {sess[c], dialed[c]} /\ None \in {sess[c], dialed[c]}
  /\ \A c \in Clients : fatal[c] => sess[c] = None /\ dialed[c] = None

(* Every app gets an answer, although it may wait for a dial of another    *)
(* app, its stream may be refused, and the session may be lost at any      *)
(* point (socks.go:165-201, reliable.go:109-116, 150-175).                 *)
AppsAreAnswered ==
  stream[Watched].app \in {"opening", "target", "status"}
    ~> stream[Watched].app \in {"relay", "none"}

(* A stream whose app or session is gone is not counted for good, even if  *)
(* its target keeps silent (target.go:93-116, reliable.go:112-115).        *)
StreamsEnd ==
  stream[Watched].srv \in Working /\ NoMoreForServer(Watched)
    ~> stream[Watched].srv \notin Working
=============================================================================
