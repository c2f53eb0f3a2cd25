----------------------------- MODULE VPNChannel -----------------------------
(***************************************************************************)
(* Who has the vpn channel: the reconnecting link of each client           *)
(* (cmd/client/vpnlink.go) and the server, whose TUN has room for one      *)
(* client at a time (cmd/server/vpn.go).                                   *)
(*                                                                         *)
(* A connection has two ends that are closed independently, and the        *)
(* network may stop forwarding without telling anyone; the client notices  *)
(* after 7 seconds, the server after 30, so handlers of connections that   *)
(* the client has given up run beside the handler of the next one, in any  *)
(* order.  Packets are left out: whose packets are served is decided by    *)
(* currentVPN alone.                                                       *)
(***************************************************************************)
EXTENDS Naturals

CONSTANTS
  Clients,     \* each with a key of its own
  Conns,       \* bound: connections at the same time
  MaxFaults,   \* bound: how often a connection breaks or the TUN fails
  None

ASSUME VPNChannelAssumption == MaxFaults \in Nat /\ None \notin Clients \union Conns

VARIABLES
  \* the server
  authorized,  \* the clients in authorized_keys.json
  current,     \* currentVPN
  stopped,     \* vpnStopped
  toClose,     \* stopVPN: the connection it has yet to close
  \* the clients
  link,        \* link[k].pc: run; .at: its connection; .conn: vpnLink.conn
  life,        \* "new" up to the first connection, "run", then "closed":
               \* vpnLink.closed
  \* the connections
  conn,        \* both ends and the server's handler
  faults

vars == <<authorized, current, stopped, toClose, link, life, conn, faults>>

(* Handler: "auth" up to the authOK byte, "authed" before claimVPN,        *)
(* "claimed" before the old connection (.old) is closed, "serving",        *)
(* "leaving" before the deferred function, "done".                         *)
NoConn == [owner |-> None, handler |-> "done", old |-> None,
           server |-> FALSE, client |-> FALSE, ok |-> FALSE, broken |-> FALSE]
NewConn(k) == [NoConn EXCEPT !.owner = k, !.handler = "auth",
                             !.server = TRUE, !.client = TRUE]

NoLink == [pc |-> "waiting", at |-> None, conn |-> None]

Handlers == {"auth", "authed", "claimed", "serving", "leaving", "done"}

(* A connection between claimVPN and the end of its handler. *)
Claimed(c) == conn[c].handler \in {"claimed", "serving", "leaving"}

TypeOK ==
  /\ authorized \in SUBSET Clients
  /\ current \in Conns \union {None}
  /\ stopped \in BOOLEAN
  /\ toClose \in Conns \union {None}
  /\ link \in [Clients -> [pc : {"waiting", "dialing", "dialed", "serving", "gave up", "returned"},
                           at : Conns \union {None}, conn : Conns \union {None}]]
  /\ life \in [Clients -> {"new", "run", "closed"}]
  /\ conn \in [Conns -> [owner : Clients \union {None}, handler : Handlers,
                         old : Conns \union {None},
                         server : BOOLEAN, client : BOOLEAN, ok : BOOLEAN, broken : BOOLEAN]]
  /\ faults \in 0 .. MaxFaults
  /\ \A k \in Clients : link[k].pc \in {"dialing", "dialed", "serving"} <=> link[k].at # None
  /\ \A k \in Clients : link[k].conn = IF link[k].pc = "serving" THEN link[k].at ELSE None

(* runVPNMode starts with a dial of its own: "new". *)
Init ==
  /\ authorized \in SUBSET Clients
  /\ current = None /\ stopped = FALSE /\ toClose = None
  /\ link = [k \in Clients |-> NoLink]
  /\ life = [k \in Clients |-> "new"]
  /\ conn = [c \in Conns |-> NoConn]
  /\ faults = 0

-----------------------------------------------------------------------------
(* conn after an end of connection c was closed, which made it r.  Being   *)
(* broken makes no difference any more, and a connection that nobody uses  *)
(* is forgotten.                                                           *)
Put(c, r) ==
  [conn EXCEPT ![c] = IF r.handler = "done" /\ ~r.client THEN NoConn
                      ELSE [r EXCEPT !.broken = FALSE]]

ClosedByClient(c) == Put(c, [conn[c] EXCEPT !.client = FALSE, !.ok = FALSE])
ClosedByServer(c) == Put(c, [conn[c] EXCEPT !.server = FALSE])

(* No pointer to c is left on either side. *)
Unused(c) ==
  /\ conn[c] = NoConn /\ toClose # c
  /\ \A d \in Conns : conn[d].old # c
  /\ \A k \in Clients : link[k].at # c

serverVars == <<authorized, current, stopped, toClose>>

-----------------------------------------------------------------------------
(* The client: run, with dialVPN and serve.                                *)
IsClosed(k) == life[k] = "closed"
At(k) == conn[link[k].at]

(* The loop of run: isClosed, then dial.  A dial that does not reach the   *)
(* server changes nothing.  The names of connections do not matter.        *)
Dial(k) ==
  LET c == CHOOSE c \in Conns : Unused(c) IN
  /\ link[k].pc = "waiting" /\ ~IsClosed(k)
  /\ \E d \in Conns : Unused(d)
  /\ conn' = [conn EXCEPT ![c] = NewConn(k)]
  /\ link' = [link EXCEPT ![k] = [pc |-> "dialing", at |-> c, conn |-> None]]
  /\ UNCHANGED <<serverVars, life, faults>>

Return(k) ==
  /\ link[k].pc = "waiting" /\ IsClosed(k)
  /\ link' = [link EXCEPT ![k].pc = "returned"]
  /\ UNCHANGED <<serverVars, life, conn, faults>>

(* ClientHandshake reads the authOK byte, *)
DialSucceeds(k) ==
  /\ link[k].pc = "dialing" /\ At(k).ok
  /\ link' = [link EXCEPT ![k].pc = "dialed"]
  /\ conn' = [conn EXCEPT ![link[k].at].ok = FALSE]
  /\ life' = [life EXCEPT ![k] = IF @ = "new" THEN "run" ELSE @]
  /\ UNCHANGED <<serverVars, faults>>

(* or finds the connection closed instead.  To run, which redials, that is *)
(* a permanent error.                                                      *)
DialRejected(k) ==
  /\ link[k].pc = "dialing" /\ ~At(k).ok /\ ~At(k).server
  /\ life[k] # "new"
  /\ conn' = ClosedByClient(link[k].at)
  /\ link' = [link EXCEPT ![k] = [pc |-> "gave up", at |-> None, conn |-> None]]
  /\ UNCHANGED <<serverVars, life, faults>>

(* Or it gets a network error or a timeout, and dials again.  On the first *)
(* dial any error ends the program, which may be started again.            *)
DialFails(k) ==
  /\ link[k].pc = "dialing" /\ (At(k).broken \/ ~At(k).server)
  /\ conn' = ClosedByClient(link[k].at)
  /\ \/ link' = [link EXCEPT ![k] = NoLink]
     \/ /\ life[k] = "new"
        /\ link' = [link EXCEPT ![k] = [NoLink EXCEPT !.pc = "returned"]]
  /\ UNCHANGED <<serverVars, life, faults>>

(* The start of serve. *)
ClosedMeanwhile(k) == IsClosed(k)

Serve(k) ==
  /\ link[k].pc = "dialed"
  /\ IF ClosedMeanwhile(k)
       THEN /\ conn' = ClosedByClient(link[k].at)
            /\ link' = [link EXCEPT ![k] = NoLink]
       ELSE /\ link' = [link EXCEPT ![k].pc = "serving", ![k].conn = link[k].at]
            /\ UNCHANGED conn
  /\ UNCHANGED <<serverVars, life, faults>>

(* ReadFrame fails: either end was closed, or nothing came for             *)
(* vpnReadTimeout.  The deferred function closes the connection.           *)
\* Variant with a bug: the connection stays open.
LeaveOpen(c) == conn
DeferredClose(c) == ClosedByClient(c)

Unlinked(k) == IF link[k].conn = link[k].at THEN None ELSE link[k].conn

Lost(k) ==
  /\ link[k].pc = "serving"
  /\ At(k).broken \/ ~At(k).server \/ ~At(k).client
  /\ conn' = DeferredClose(link[k].at)
  /\ link' = [link EXCEPT ![k] = [NoLink EXCEPT !.conn = Unlinked(k)]]
  /\ UNCHANGED <<serverVars, life, faults>>

(* write fails and closes the connection it took from the link. *)
WriteFails(k) ==
  /\ link[k].conn # None
  /\ conn[link[k].conn].broken \/ ~conn[link[k].conn].server
  /\ conn[link[k].conn].client
  /\ conn' = ClosedByClient(link[k].conn)
  /\ UNCHANGED <<serverVars, link, life, faults>>

(* vpnLink.close, when runVPNMode returns. *)
Close(k) ==
  /\ life[k] = "run" /\ life' = [life EXCEPT ![k] = "closed"]
  /\ conn' = IF link[k].conn = None THEN conn ELSE ClosedByClient(link[k].conn)
  /\ UNCHANGED <<serverVars, link, faults>>

-----------------------------------------------------------------------------
(* The server: handleVPNConn.                                              *)
EndHandler(c) == Put(c, [conn[c] EXCEPT !.handler = "done", !.server = FALSE, !.old = None])

(* checkAuth: the key is good, *)
AuthOK(c) ==
  /\ conn[c].handler = "auth" /\ conn[c].owner \in authorized
  /\ conn' = [conn EXCEPT ![c].handler = "authed",
                            ![c].ok = conn[c].client]
  /\ UNCHANGED <<serverVars, link, life, faults>>

(* or it is not, or the deadline passes: the connection is closed.         *)
AuthFails(c) ==
  /\ conn[c].handler = "auth"
  /\ conn[c].owner \notin authorized \/ conn[c].broken \/ ~conn[c].client
  /\ conn' = EndHandler(c)
  /\ UNCHANGED <<serverVars, link, life, faults>>

(* claimVPN *)
UsedByOther(c) == current # None /\ conn[current].owner # conn[c].owner

Claim(c) ==
  /\ conn[c].handler = "authed"
  /\ ~stopped /\ ~UsedByOther(c)
  /\ current' = c
  /\ conn' = [conn EXCEPT ![c].handler = "claimed", ![c].old = current]
  /\ UNCHANGED <<authorized, stopped, toClose, link, life, faults>>

Refuse(c) ==
  /\ conn[c].handler = "authed"
  /\ stopped \/ UsedByOther(c)
  /\ conn' = EndHandler(c)
  /\ UNCHANGED <<serverVars, link, life, faults>>

CloseReplaced(c) ==
  LET old == conn[c].old IN
  IF old = None THEN conn ELSE ClosedByServer(old)

CloseOld(c) ==
  /\ conn[c].handler = "claimed"
  /\ conn' = [CloseReplaced(c) EXCEPT ![c].handler = "serving", ![c].old = None]
  /\ UNCHANGED <<serverVars, link, life, faults>>

(* The read loop ends: either end was closed, or nothing came for          *)
(* vpnReadTimeout.                                                         *)
ReadFails(c) ==
  /\ conn[c].handler = "serving"
  /\ conn[c].broken \/ ~conn[c].server \/ ~conn[c].client
  /\ conn' = [conn EXCEPT ![c].handler = "leaving"]
  /\ UNCHANGED <<serverVars, link, life, faults>>

(* writeLoop fails and closes the connection. *)
WriteLoopFails(c) ==
  /\ conn[c].handler = "serving" /\ conn[c].server
  /\ conn[c].broken \/ ~conn[c].client
  /\ conn' = ClosedByServer(c)
  /\ UNCHANGED <<serverVars, link, life, faults>>

(* The deferred function, then conn.Close. *)
\* Variants with a bug: the slot is freed whoever has it, or kept.
AlwaysFree(c) == None
NeverFree(c) == current
FreeSlot(c) == IF current = c THEN None ELSE current

Leave(c) ==
  /\ conn[c].handler = "leaving"
  /\ current' = FreeSlot(c)
  /\ conn' = EndHandler(c)
  /\ UNCHANGED <<authorized, stopped, toClose, link, life, faults>>

(* stopVPN: the TUN has failed. *)
StopVPN ==
  /\ faults < MaxFaults /\ faults' = faults + 1
  /\ ~stopped /\ stopped' = TRUE
  /\ toClose' = current
  /\ current' = None
  /\ UNCHANGED <<authorized, link, life, conn>>

CloseStopped ==
  /\ toClose # None /\ toClose' = None
  /\ conn' = ClosedByServer(toClose)
  /\ UNCHANGED <<authorized, current, stopped, link, life, faults>>

-----------------------------------------------------------------------------
(* The network stops forwarding a connection, for so long that deadlines   *)
(* pass; what was sent may still arrive.                                   *)
Break(c) ==
  /\ faults < MaxFaults /\ faults' = faults + 1
  /\ conn[c].server /\ conn[c].client /\ ~conn[c].broken
  /\ conn' = [conn EXCEPT ![c].broken = TRUE]
  /\ UNCHANGED <<serverVars, link, life>>

ClientStep(k) ==
  \/ Dial(k) \/ Return(k) \/ DialSucceeds(k) \/ DialRejected(k) \/ DialFails(k)
  \/ Serve(k) \/ Lost(k)

HandlerStep(c) ==
  AuthOK(c) \/ AuthFails(c) \/ Claim(c) \/ Refuse(c) \/ CloseOld(c) \/ ReadFails(c) \/ Leave(c)

Next ==
  \/ \E k \in Clients : ClientStep(k) \/ WriteFails(k) \/ Close(k)
  \/ \E c \in Conns : HandlerStep(c) \/ WriteLoopFails(c) \/ Break(c)
  \/ StopVPN \/ CloseStopped

Spec == Init /\ [][Next]_vars

(* The goroutines run: every wait of theirs has a deadline or ends when    *)
(* the connection is closed.                                               *)
FairSpec ==
  /\ Spec
  /\ \A k \in Clients : WF_vars(ClientStep(k))
  /\ \A c \in Conns : WF_vars(HandlerStep(c))
  /\ WF_vars(CloseStopped)

-----------------------------------------------------------------------------
(* No connection is left behind.  While a handler serves a connection that *)
(* is not the current one, the connection is closed or somebody is about   *)
(* to close it (vpn.go:149-161, 192-201, 208-213); and when run has        *)
(* returned no connection of the client is open, even if the link was      *)
(* closed during a dial (vpnlink.go:94-103, 111-128).                      *)
NoConnectionLeft ==
  /\ \A c \in Conns : Claimed(c) /\ c # current /\ conn[c].server =>
       \/ conn[c].handler = "leaving"
       \/ toClose = c
       \/ \E d \in Conns : conn[d].handler = "claimed" /\ conn[d].old = c
  /\ \A k \in Clients : link[k].pc \in {"returned", "gave up"} =>
       \A c \in Conns : conn[c].owner = k => ~conn[c].client

(* The channel is never kept by a handler that is gone, whichever order    *)
(* the handlers of old and new connections end in, and never by anybody    *)
(* once it is stopped (vpn.go:152-155, 168-179, 208-213).                  *)
CurrentIsServed == current # None => Claimed(current) /\ ~stopped

(* Nobody takes the channel from another client (vpn.go:173-178): the      *)
(* server closes a connection it has served only when the connection broke *)
(* or the client closed it, when the TUN failed, or when a newer           *)
(* connection of the same client replaced it.                              *)
StrangersWait ==
  [][\A c \in Conns : Claimed(c) /\ conn[c].server /\ ~conn'[c].server =>
       \/ conn[c].broken \/ ~conn[c].client
       \/ stopped
       \/ \E d \in Conns : conn[d].old = c /\ conn[d].owner = conn[c].owner]_vars

(* Once nothing breaks any more, run has returned in every client that was *)
(* closed, and some client whose program goes on has the channel for good, *)
(* although old connections of its own were still claiming the channel     *)
(* (vpnlink.go:61-103, vpn.go:168-213).                                    *)
Done(k) == link[k].pc \in {"returned", "gave up"}
Served(k) ==
  /\ link[k].pc = "serving" /\ link[k].at = current
  /\ conn[current].handler = "serving" /\ conn[current].server /\ conn[current].client
SettlesDown ==
  <>[](/\ \A k \in Clients : IsClosed(k) => Done(k)
       /\ \/ stopped
          \/ \A k \in authorized : Done(k)
          \/ \E k \in Clients : Served(k))

(* "isPermanentDialError is true for errors that won't go away by          *)
(* reconnecting: wrong key or a different server certificate"              *)
(* (vpnlink.go:40-41): once it was connected, a client whose key is        *)
(* authorized does not stop redialing.                                     *)
GoodKeysKeepTrying ==
  \A k \in authorized : link[k].pc # "gave up"
=============================================================================
