-------------------------- MODULE VPNChannelProofs --------------------------
(***************************************************************************)
(* The safety properties of VPNChannel, proved for any number of clients   *)
(* and connections and any number of faults, and those of Scheduler, the   *)
(* queue in front of the vpn connection, for any number of flows, sizes    *)
(* and limits.                                                             *)
(*                                                                         *)
(* VPNChannel's inductive invariant adds what the properties leave out.   *)
(* A handler holds an old connection only between claimVPN and the close,  *)
(* and it is one of its own client (OldIsOurs), so closing it takes the    *)
(* channel from nobody.  stopVPN has a connection to close only once the   *)
(* channel is stopped (StoppedFirst).  A handler leaves only when its      *)
(* connection is gone (LeavingHasReason).  And a client has no connection  *)
(* open but the one run has in its hands (OpenAreLinked), at every step of *)
(* run and not only at its end.                                            *)
(*                                                                         *)
(* The second part is about Scheduler.  Its totals are folds of the        *)
(* community modules, so the facts about sums are proved first, by         *)
(* removing one element at a time.  Its invariant, FQIInv, adds that a     *)
(* flow whose packet CoDel dropped is still the one whose turn it is       *)
(* (TurnGoesOn), and that while the first packet of an idle flow waits,    *)
(* each of the flows before it has had no more than what its quantum has   *)
(* lost (FirstWaits).                                                      *)
(***************************************************************************)
EXTENDS VPNChannel, MCScheduler, Integers, Sequences, FiniteSetTheorems,
        WellFoundedInduction, TLAPS

ConnStates ==
  [owner : Clients \union {None}, handler : Handlers, old : Conns \union {None},
   server : BOOLEAN, client : BOOLEAN, ok : BOOLEAN, broken : BOOLEAN]

(* A handler that is done has closed its end; before, it has an owner. *)
HandlersAreDone ==
  \A c \in Conns : IF conn[c].handler = "done" THEN ~conn[c].server ELSE conn[c].owner # None

(* Only a handler between claimVPN and the close has an old connection in  *)
(* its hands, and that one is of the same client or already forgotten.     *)
OldIsOurs ==
  \A d \in Conns : conn[d].old # None =>
    /\ conn[d].handler = "claimed" /\ conn[d].old # d
    /\ conn[conn[d].old].owner \in {None, conn[d].owner}

StoppedFirst == toClose # None => stopped

(* The two halves of NoConnectionLeft: on the server, *)
ReplacedAreClosed ==
  \A c \in Conns : Claimed(c) /\ c # current /\ conn[c].server =>
    \/ conn[c].handler = "leaving"
    \/ toClose = c
    \/ \E d \in Conns : conn[d].handler = "claimed" /\ conn[d].old = c

(* and on the client, at every step of run: what is open is what run has   *)
(* in its hands.                                                           *)
OpenAreLinked ==
  \A k \in Clients, c \in Conns : conn[c].owner = k /\ conn[c].client => link[k].at = c

LeavingHasReason ==
  \A c \in Conns : conn[c].handler = "leaving" /\ conn[c].server =>
    conn[c].broken \/ ~conn[c].client

IInv ==
  /\ TypeOK /\ HandlersAreDone
  /\ OldIsOurs /\ StoppedFirst /\ CurrentIsServed /\ ReplacedAreClosed
  /\ OpenAreLinked /\ LeavingHasReason

-----------------------------------------------------------------------------
(* What closing an end of a connection does.                               *)
LEMMA NoConnIs ==
  /\ NoConn \in ConnStates
  /\ NoConn.owner = None /\ NoConn.handler = "done" /\ NoConn.old = None
  /\ NoConn.server = FALSE /\ NoConn.client = FALSE
  BY DEF NoConn, ConnStates, Handlers

LEMMA Putting ==
  ASSUME TypeOK, NEW c \in Conns, NEW r \in ConnStates,
         r.handler = "done" => r.old = None /\ ~r.server
  PROVE  LET q == Put(c, r)[c] IN
         /\ Put(c, r) \in [Conns -> ConnStates]
         /\ \A d \in Conns : d # c => Put(c, r)[d] = conn[d]
         /\ q.handler = r.handler /\ q.old = r.old
         /\ q.server = r.server /\ q.client = r.client
         /\ q.owner = r.owner \/ (q.owner = None /\ q.handler = "done")
<1> DEFINE whole == [r EXCEPT !.broken = FALSE]
           new == IF r.handler = "done" /\ ~r.client THEN NoConn ELSE whole
<1>1. /\ whole \in ConnStates
      /\ whole.handler = r.handler /\ whole.old = r.old /\ whole.owner = r.owner
      /\ whole.server = r.server /\ whole.client = r.client
  BY DEF ConnStates
<1>2. Put(c, r) = [conn EXCEPT ![c] = new]
  BY DEF Put
<1> HIDE DEF whole
<1>3. /\ new \in ConnStates
      /\ new.handler = r.handler /\ new.old = r.old
      /\ new.server = r.server /\ new.client = r.client
      /\ new.owner = r.owner \/ (new.owner = None /\ new.handler = "done")
  <2>1. CASE r.handler = "done" /\ ~r.client
    BY <2>1, NoConnIs DEF ConnStates
  <2>2. CASE ~(r.handler = "done" /\ ~r.client)
    BY <2>2, <1>1
  <2> QED
    BY <2>1, <2>2
<1>4. conn \in [Conns -> ConnStates]
  BY DEF TypeOK, ConnStates
<1> HIDE DEF new
<1> QED
  BY <1>2, <1>3, <1>4

(* The fields of a connection that the invariant speaks of. *)
SameHandler(d) == conn'[d].handler = conn[d].handler /\ conn'[d].old = conn[d].old

SameOwner(d) ==
  \/ conn'[d].owner = conn[d].owner
  \/ conn'[d].owner = None /\ conn'[d].handler = "done"

OthersSame(c) == \A d \in Conns : d # c => conn'[d] = conn[d]

LEMMA ClientCloses ==
  ASSUME IInv, NEW c \in Conns, conn' = ClosedByClient(c)
  PROVE  /\ conn' \in [Conns -> ConnStates] /\ OthersSame(c)
         /\ SameHandler(c) /\ SameOwner(c)
         /\ conn'[c].server = conn[c].server /\ ~conn'[c].client
<1> DEFINE r == conn[c]
           p == [r EXCEPT !.client = FALSE]
           q == [p EXCEPT !.ok = FALSE]
<1>1. r \in ConnStates /\ (r.handler = "done" => r.old = None /\ ~r.server)
  BY DEF IInv, TypeOK, ConnStates, OldIsOurs, HandlersAreDone
<1>2. conn' = Put(c, q)
  BY DEF ClosedByClient
<1> HIDE DEF r
<1>3. /\ p \in ConnStates /\ p.handler = r.handler /\ p.old = r.old /\ p.owner = r.owner
      /\ p.server = r.server /\ ~p.client
  BY <1>1 DEF ConnStates
<1> HIDE DEF p
<1>4. /\ q \in ConnStates /\ q.handler = r.handler /\ q.old = r.old /\ q.owner = r.owner
      /\ q.server = r.server /\ ~q.client
  BY <1>3 DEF ConnStates
<1> HIDE DEF q
<1> QED
  BY <1>1, <1>2, <1>4, Putting DEF IInv, r, OthersSame, SameHandler, SameOwner

LEMMA ServerCloses ==
  ASSUME IInv, NEW c \in Conns
  PROVE  /\ ClosedByServer(c) \in [Conns -> ConnStates]
         /\ \A d \in Conns : d # c => ClosedByServer(c)[d] = conn[d]
         /\ ClosedByServer(c)[c].handler = conn[c].handler
         /\ ClosedByServer(c)[c].old = conn[c].old
         /\ ClosedByServer(c)[c].client = conn[c].client
         /\ ~ClosedByServer(c)[c].server
         /\ \/ ClosedByServer(c)[c].owner = conn[c].owner
            \/ /\ ClosedByServer(c)[c].owner = None
               /\ ClosedByServer(c)[c].handler = "done"
<1> DEFINE r == conn[c]
           q == [r EXCEPT !.server = FALSE]
<1>1. r \in ConnStates /\ (r.handler = "done" => r.old = None)
  BY DEF IInv, TypeOK, ConnStates, OldIsOurs
<1>2. ClosedByServer(c) = Put(c, q)
  BY DEF ClosedByServer
<1> HIDE DEF r
<1>3. /\ q \in ConnStates /\ q.handler = r.handler /\ q.old = r.old /\ q.owner = r.owner
      /\ ~q.server /\ q.client = r.client
  BY <1>1 DEF ConnStates
<1> HIDE DEF q
<1> QED
  BY <1>1, <1>2, <1>3, Putting DEF IInv, r

LEMMA HandlerEnds ==
  ASSUME IInv, NEW c \in Conns, conn' = EndHandler(c)
  PROVE  /\ conn' \in [Conns -> ConnStates] /\ OthersSame(c) /\ SameOwner(c)
         /\ conn'[c].handler = "done" /\ conn'[c].old = None
         /\ ~conn'[c].server /\ conn'[c].client = conn[c].client
<1> DEFINE r == conn[c]
           p == [r EXCEPT !.handler = "done"]
           s == [p EXCEPT !.server = FALSE]
           q == [s EXCEPT !.old = None]
<1>1. r \in ConnStates
  BY DEF IInv, TypeOK, ConnStates
<1>2. conn' = Put(c, q)
  BY DEF EndHandler
<1> HIDE DEF r
<1>3. /\ p \in ConnStates /\ p.handler = "done" /\ p.owner = r.owner /\ p.client = r.client
  BY <1>1 DEF ConnStates, Handlers
<1> HIDE DEF p
<1>4. /\ s \in ConnStates /\ s.handler = "done" /\ s.owner = r.owner /\ s.client = r.client
      /\ ~s.server
  BY <1>3 DEF ConnStates
<1> HIDE DEF s
<1>5. /\ q \in ConnStates /\ q.handler = "done" /\ q.owner = r.owner /\ q.client = r.client
      /\ ~q.server /\ q.old = None
  BY <1>4 DEF ConnStates
<1> HIDE DEF q
<1> QED
  BY <1>1, <1>2, <1>5, Putting DEF IInv, r, OthersSame, SameOwner

LinkStates ==
  [pc : {"waiting", "dialing", "dialed", "serving", "gave up", "returned"},
   at : Conns \union {None}, conn : Conns \union {None}]

LinksOK ==
  /\ link \in [Clients -> LinkStates]
  /\ \A k \in Clients : link[k].pc \in {"dialing", "dialed", "serving"} <=> link[k].at # None
  /\ \A k \in Clients : link[k].conn = IF link[k].pc = "serving" THEN link[k].at ELSE None

(* The parts of TypeOK. *)
LEMMA Types ==
  TypeOK <=>
    /\ LinksOK
    /\ authorized \in SUBSET Clients /\ current \in Conns \union {None}
    /\ stopped \in BOOLEAN /\ toClose \in Conns \union {None}
    /\ life \in [Clients -> {"new", "run", "closed"}]
    /\ conn \in [Conns -> ConnStates] /\ faults \in 0 .. MaxFaults
  BY DEF TypeOK, LinksOK, LinkStates, ConnStates

LEMMA TypesPrimed ==
  TypeOK' <=>
    /\ LinksOK'
    /\ authorized' \in SUBSET Clients /\ current' \in Conns \union {None}
    /\ stopped' \in BOOLEAN /\ toClose' \in Conns \union {None}
    /\ life' \in [Clients -> {"new", "run", "closed"}]
    /\ conn' \in [Conns -> ConnStates] /\ faults' \in 0 .. MaxFaults
  BY DEF TypeOK, LinksOK, LinkStates, ConnStates

-----------------------------------------------------------------------------
(* The client.                                                             *)

(* The handlers see nothing but a closed client end. *)
LEMMA ServerSteady ==
  ASSUME IInv, UNCHANGED serverVars, conn' \in [Conns -> ConnStates],
         \A d \in Conns :
           /\ SameHandler(d) /\ SameOwner(d)
           /\ conn'[d].server = conn[d].server /\ conn'[d].client \in {conn[d].client, FALSE}
           /\ conn[d].broken => conn'[d].broken \/ ~conn'[d].client \/ ~conn'[d].server
  PROVE  /\ HandlersAreDone' /\ OldIsOurs' /\ StoppedFirst' /\ CurrentIsServed'
         /\ ReplacedAreClosed' /\ LeavingHasReason'
<1> USE DEF SameHandler, SameOwner, serverVars, Claimed
<1>1. HandlersAreDone'
  BY DEF IInv, HandlersAreDone
<1>2. OldIsOurs'
  <2> SUFFICES ASSUME NEW d \in Conns, conn'[d].old # None
               PROVE  /\ conn'[d].handler = "claimed" /\ conn'[d].old # d
                      /\ conn'[conn'[d].old].owner \in {None, conn'[d].owner}
    BY DEF OldIsOurs
  <2>1. PICK o \in Conns : o = conn[d].old /\ o = conn'[d].old
    BY Types DEF IInv, ConnStates
  <2>2. conn[d].handler = "claimed" /\ o # d /\ conn[o].owner \in {None, conn[d].owner}
    BY <2>1 DEF IInv, OldIsOurs
  <2>3. conn'[d].handler = "claimed" /\ conn'[d].owner = conn[d].owner
    BY <2>2
  <2>4. conn'[o].owner \in {None, conn[o].owner}
    OBVIOUS
  <2> QED
    BY <2>1, <2>2, <2>3, <2>4
<1>3. CurrentIsServed'
  BY Types DEF IInv, CurrentIsServed
<1>4. ReplacedAreClosed'
  <2> SUFFICES ASSUME NEW c \in Conns, Claimed(c)', c # current, conn'[c].server,
                      conn'[c].handler # "leaving", toClose # c
               PROVE  \E d \in Conns : conn'[d].handler = "claimed" /\ conn'[d].old = c
    BY DEF ReplacedAreClosed
  <2>1. PICK d \in Conns : conn[d].handler = "claimed" /\ conn[d].old = c
    BY DEF IInv, ReplacedAreClosed
  <2> QED
    BY <2>1
<1>5. LeavingHasReason' /\ StoppedFirst'
  BY Types DEF IInv, LeavingHasReason, ConnStates, StoppedFirst
<1> QED
  BY <1>1, <1>2, <1>3, <1>4, <1>5

(* The client closes a connection, and the link no longer holds it. *)
LEMMA ClientClosesIInv ==
  ASSUME IInv, NEW c \in Conns, conn' = ClosedByClient(c),
         UNCHANGED <<serverVars, faults>>, LinksOK',
         life' \in [Clients -> {"new", "run", "closed"}],
         \A k \in Clients : link'[k].at = link[k].at \/ link[k].at = c
  PROVE  IInv'
<1>1. /\ conn' \in [Conns -> ConnStates] /\ OthersSame(c)
      /\ SameHandler(c) /\ SameOwner(c)
      /\ conn'[c].server = conn[c].server /\ ~conn'[c].client
  BY ClientCloses
<1>2. TypeOK'
  BY <1>1, Types, TypesPrimed DEF IInv, serverVars
<1>3. /\ HandlersAreDone' /\ OldIsOurs' /\ StoppedFirst' /\ CurrentIsServed'
      /\ ReplacedAreClosed' /\ LeavingHasReason'
  BY <1>1, ServerSteady, Types DEF OthersSame, SameHandler, SameOwner, ConnStates, IInv
<1>4. OpenAreLinked'
  BY <1>1 DEF OthersSame, IInv, OpenAreLinked
<1> QED
  BY <1>2, <1>3, <1>4 DEF IInv

(* run gives its connection up and dials again, or not. *)
LEMMA LetsGo ==
  ASSUME LinksOK, NEW k \in Clients, NEW step \in {"waiting", "gave up", "returned"},
         link' = [link EXCEPT ![k] = [pc |-> step, at |-> None, conn |-> None]]
  PROVE  LinksOK' /\ \A j \in Clients : link'[j].at = link[j].at \/ j = k
  BY DEF LinksOK, LinkStates

LEMMA GivingUpIInv ==
  ASSUME IInv, NEW k \in Clients, link[k].at # None,
         conn' = ClosedByClient(link[k].at), NEW step \in {"waiting", "gave up", "returned"},
         link' = [link EXCEPT ![k] = [pc |-> step, at |-> None, conn |-> None]],
         UNCHANGED <<serverVars, life, faults>>
  PROVE  IInv'
<1>1. link[k].at \in Conns /\ LinksOK
  BY Types DEF IInv, LinksOK, LinkStates
<1>2. LinksOK' /\ \A j \in Clients : link'[j].at = link[j].at \/ link[j].at = link[k].at
  BY <1>1, LetsGo
<1> QED
  BY <1>1, <1>2, ClientClosesIInv, Types DEF IInv

LEMMA DialIInv ==
  ASSUME IInv, NEW k \in Clients, Dial(k)
  PROVE  IInv'
<1>1. PICK c \in Conns : /\ Unused(c)
                         /\ conn' = [conn EXCEPT ![c] = NewConn(k)]
                         /\ link' = [link EXCEPT ![k] = [pc |-> "dialing", at |-> c, conn |-> None]]
  BY DEF Dial
<1>2. /\ conn[c] = NoConn /\ toClose # c /\ UNCHANGED <<serverVars, life, faults>>
      /\ \A d \in Conns : conn[d].old # c
      /\ \A j \in Clients : link[j].at # c
      /\ link[k].pc = "waiting"
  BY <1>1 DEF Unused, Dial
<1>3. /\ conn \in [Conns -> ConnStates] /\ LinksOK
  BY Types DEF IInv
<1> DEFINE new == NewConn(k)
<1>4. /\ new \in ConnStates /\ new.owner = k /\ new.handler = "auth" /\ new.old = None
      /\ new.server /\ new.client
  BY DEF NewConn, NoConn, ConnStates, Handlers
<1>5. /\ conn' \in [Conns -> ConnStates] /\ OthersSame(c) /\ conn'[c] = new
  BY <1>1, <1>3, <1>4 DEF OthersSame
<1> HIDE DEF new
<1>6. LinksOK'
  BY <1>1, <1>3, VPNChannelAssumption DEF LinksOK, LinkStates
<1>7. TypeOK'
  BY <1>2, <1>5, <1>6, Types, TypesPrimed DEF IInv, serverVars
<1> USE DEF OthersSame
<1>8. HandlersAreDone' /\ LeavingHasReason'
  BY <1>4, <1>5, VPNChannelAssumption DEF IInv, HandlersAreDone, LeavingHasReason
<1>9. OldIsOurs'
  BY <1>2, <1>3, <1>4, <1>5 DEF IInv, OldIsOurs, ConnStates
<1>10. StoppedFirst' /\ CurrentIsServed'
  <2>1. current # c
    BY <1>2, NoConnIs DEF IInv, CurrentIsServed, Claimed
  <2>2. current \in Conns \union {None}
    BY Types DEF IInv
  <2> QED
    BY <1>2, <1>5, <2>1, <2>2 DEF IInv, StoppedFirst, CurrentIsServed, Claimed, serverVars
<1>11. ReplacedAreClosed'
  <2> SUFFICES ASSUME NEW e \in Conns, Claimed(e)', e # current, conn'[e].server,
                      conn'[e].handler # "leaving", toClose # e
               PROVE  \E d \in Conns : conn'[d].handler = "claimed" /\ conn'[d].old = e
    BY <1>2 DEF ReplacedAreClosed, serverVars
  <2>1. e # c /\ conn'[e] = conn[e]
    BY <1>4, <1>5 DEF Claimed
  <2>2. PICK d \in Conns : conn[d].handler = "claimed" /\ conn[d].old = e
    BY <2>1 DEF IInv, ReplacedAreClosed, Claimed
  <2>3. d # c
    BY <2>2, <1>2, NoConnIs
  <2> QED
    BY <2>2, <2>3, <1>5
<1>12. OpenAreLinked'
  <2>1. link'[k].at = c /\ link[k].at = None /\ \A j \in Clients : j # k => link'[j] = link[j]
    BY <1>1, <1>2, <1>3 DEF LinksOK, LinkStates
  <2> QED
    BY <2>1, <1>4, <1>5, VPNChannelAssumption DEF IInv, OpenAreLinked
<1> QED
  BY <1>7, <1>8, <1>9, <1>10, <1>11, <1>12 DEF IInv

(* A step of run that closes nothing. *)
LEMMA LinkMoves ==
  ASSUME IInv, NEW k \in Clients, UNCHANGED <<serverVars, faults>>, LinksOK',
         life' \in [Clients -> {"new", "run", "closed"}], conn' \in [Conns -> ConnStates],
         \A d \in Conns :
           /\ SameHandler(d) /\ conn'[d].owner = conn[d].owner
           /\ conn'[d].server = conn[d].server /\ conn'[d].client = conn[d].client
           /\ conn'[d].broken = conn[d].broken,
         \A j \in Clients : link'[j].at = link[j].at
  PROVE  IInv'
<1>1. TypeOK'
  BY Types, TypesPrimed DEF IInv, serverVars
<1>2. /\ HandlersAreDone' /\ OldIsOurs' /\ StoppedFirst' /\ CurrentIsServed'
      /\ ReplacedAreClosed' /\ LeavingHasReason'
  BY ServerSteady DEF SameOwner
<1>3. OpenAreLinked'
  BY DEF IInv, OpenAreLinked
<1> QED
  BY <1>1, <1>2, <1>3 DEF IInv

LEMMA ReturnIInv ==
  ASSUME IInv, NEW k \in Clients, Return(k)
  PROVE  IInv'
<1>1. LinksOK
  BY Types DEF IInv
<1>2. /\ link[k].pc = "waiting" /\ link' = [link EXCEPT ![k].pc = "returned"]
      /\ UNCHANGED <<serverVars, life, conn, faults>>
  BY DEF Return
<1>3. LinksOK' /\ \A j \in Clients : link'[j].at = link[j].at
  BY <1>1, <1>2 DEF LinksOK, LinkStates
<1> QED
  BY <1>2, <1>3, LinkMoves, Types DEF IInv, SameHandler

LEMMA DialSucceedsIInv ==
  ASSUME IInv, NEW k \in Clients, DialSucceeds(k)
  PROVE  IInv'
<1>1. LinksOK /\ conn \in [Conns -> ConnStates] /\ life \in [Clients -> {"new", "run", "closed"}]
  BY Types DEF IInv
<1>2. /\ link[k].pc = "dialing" /\ link' = [link EXCEPT ![k].pc = "dialed"]
      /\ conn' = [conn EXCEPT ![link[k].at].ok = FALSE]
      /\ life' = [life EXCEPT ![k] = IF @ = "new" THEN "run" ELSE @]
      /\ UNCHANGED <<serverVars, faults>>
  BY DEF DialSucceeds
<1>3. LinksOK' /\ \A j \in Clients : link'[j].at = link[j].at
  <2> DEFINE l == link[k]
             m == [l EXCEPT !.pc = "dialed"]
  <2>1. l \in LinkStates /\ link' = [link EXCEPT ![k] = m]
    BY <1>1, <1>2 DEF LinksOK
  <2> HIDE DEF l
  <2>2. m \in LinkStates /\ m.at = l.at /\ m.conn = l.conn /\ m.pc = "dialed"
    BY <2>1 DEF LinkStates
  <2>3. l.pc = "dialing"
    BY <1>2 DEF l
  <2> HIDE DEF m
  <2>4. /\ link' \in [Clients -> LinkStates] /\ link'[k] = m
        /\ \A j \in Clients : link'[j] = IF j = k THEN m ELSE link[j]
    BY <1>1, <2>1, <2>2 DEF LinksOK
  <2> QED
    BY <1>1, <2>2, <2>3, <2>4 DEF l, LinksOK
<1>4. /\ conn' \in [Conns -> ConnStates]
      /\ \A d \in Conns : /\ SameHandler(d) /\ conn'[d].owner = conn[d].owner
                          /\ conn'[d].server = conn[d].server
                          /\ conn'[d].client = conn[d].client
                          /\ conn'[d].broken = conn[d].broken
  <2> DEFINE c == link[k].at
             r == conn[c]
             q == [r EXCEPT !.ok = FALSE]
  <2>1. CASE c \in Conns
    <3>1. r \in ConnStates /\ conn' = [conn EXCEPT ![c] = q]
      BY <1>1, <1>2, <2>1
    <3> HIDE DEF c, r
    <3>2. /\ q \in ConnStates /\ q.owner = r.owner /\ q.server = r.server
          /\ q.client = r.client /\ q.broken = r.broken
          /\ q.handler = r.handler /\ q.old = r.old
      BY <3>1 DEF ConnStates
    <3> HIDE DEF q
    <3> QED
      BY <1>1, <1>2, <2>1, <3>1, <3>2 DEF r, SameHandler
  <2>2. CASE c \notin Conns
    <3>1. conn' = conn
      BY <1>1, <1>2, <2>2
    <3> QED
      BY <1>1, <1>2, <3>1 DEF SameHandler
  <2> QED
    BY <2>1, <2>2
<1>5. life' \in [Clients -> {"new", "run", "closed"}]
  BY <1>1, <1>2
<1> QED
  BY <1>2, <1>3, <1>4, <1>5, LinkMoves

LEMMA DialEndsIInv ==
  ASSUME IInv, NEW k \in Clients, DialRejected(k) \/ DialFails(k)
  PROVE  IInv'
<1>1. link[k].at # None /\ conn' = ClosedByClient(link[k].at) /\ UNCHANGED <<serverVars, life, faults>>
  BY Types DEF IInv, LinksOK, DialRejected, DialFails
<1>2. PICK step \in {"waiting", "gave up", "returned"} :
        link' = [link EXCEPT ![k] = [pc |-> step, at |-> None, conn |-> None]]
  BY DEF DialRejected, DialFails, NoLink
<1> QED
  BY <1>1, <1>2, GivingUpIInv

LEMMA ServeIInv ==
  ASSUME IInv, NEW k \in Clients, Serve(k)
  PROVE  IInv'
<1>1. LinksOK /\ link[k].pc = "dialed" /\ link[k].at # None
  BY Types DEF IInv, Serve, LinksOK
<1>2. CASE ClosedMeanwhile(k)
  BY <1>1, <1>2, GivingUpIInv DEF Serve, NoLink
<1>3. CASE ~ClosedMeanwhile(k)
  <2>1. /\ link' = [link EXCEPT ![k].pc = "serving", ![k].conn = link[k].at]
        /\ UNCHANGED <<serverVars, conn, life, faults>>
    BY <1>3 DEF Serve
  <2> DEFINE r == link[k]
             p == [r EXCEPT !.pc = "serving"]
             q == [p EXCEPT !.conn = r.at]
  <2>2. link' = [link EXCEPT ![k] = q] /\ r \in LinkStates /\ r.at # None
    BY <1>1, <2>1 DEF LinksOK
  <2> HIDE DEF r
  <2>3. p \in LinkStates /\ p.pc = "serving" /\ p.at = r.at
    BY <2>2 DEF LinkStates
  <2> HIDE DEF p
  <2>4. q \in LinkStates /\ q.pc = "serving" /\ q.at = r.at /\ q.conn = r.at
    BY <2>2, <2>3 DEF LinkStates
  <2> HIDE DEF q
  <2>5. LinksOK' /\ \A j \in Clients : link'[j].at = link[j].at
    BY <1>1, <2>2, <2>4 DEF LinksOK, r
  <2> QED
    BY <2>1, <2>5, LinkMoves, Types DEF IInv, SameHandler
<1> QED
  BY <1>2, <1>3

LEMMA LostIInv ==
  ASSUME IInv, NEW k \in Clients, Lost(k)
  PROVE  IInv'
<1>1. /\ LinksOK /\ link[k].pc = "serving"
      /\ link' = [link EXCEPT ![k] = [NoLink EXCEPT !.conn = Unlinked(k)]]
      /\ conn' = ClosedByClient(link[k].at) /\ UNCHANGED <<serverVars, life, faults>>
  BY Types DEF IInv, Lost, DeferredClose
<1>2. link[k].at # None /\ Unlinked(k) = None
  BY <1>1 DEF LinksOK, Unlinked
<1>3. [NoLink EXCEPT !.conn = Unlinked(k)] = [pc |-> "waiting", at |-> None, conn |-> None]
  BY <1>2 DEF NoLink
<1> QED
  BY <1>1, <1>2, <1>3, GivingUpIInv

LEMMA WriteFailsIInv ==
  ASSUME IInv, NEW k \in Clients, WriteFails(k)
  PROVE  IInv'
<1>1. /\ link[k].conn # None /\ conn' = ClosedByClient(link[k].conn)
      /\ UNCHANGED <<serverVars, link, life, faults>>
  BY DEF WriteFails
<1>2. LinksOK /\ LinksOK' /\ link[k].conn \in Conns
  BY <1>1, Types DEF IInv, LinksOK, LinkStates
<1> QED
  BY <1>1, <1>2, ClientClosesIInv, Types DEF IInv

LEMMA CloseIInv ==
  ASSUME IInv, NEW k \in Clients, Close(k)
  PROVE  IInv'
<1>1. /\ life' = [life EXCEPT ![k] = "closed"] /\ UNCHANGED <<serverVars, link, faults>>
      /\ conn' = IF link[k].conn = None THEN conn ELSE ClosedByClient(link[k].conn)
  BY DEF Close
<1>2. LinksOK /\ LinksOK' /\ link[k].conn \in Conns \union {None}
  BY <1>1, Types DEF IInv, LinksOK, LinkStates
<1>3. life' \in [Clients -> {"new", "run", "closed"}] /\ conn \in [Conns -> ConnStates]
  BY <1>1, Types DEF IInv
<1>4. CASE link[k].conn = None
  BY <1>1, <1>2, <1>3, <1>4, LinkMoves DEF SameHandler
<1>5. CASE link[k].conn # None
  BY <1>1, <1>2, <1>3, <1>5, ClientClosesIInv
<1> QED
  BY <1>4, <1>5

-----------------------------------------------------------------------------
(* The handlers of the server.                                             *)
clientVars == <<link, life>>

(* What a step of a handler leaves to show. *)
LEMMA HandlerMoves ==
  ASSUME IInv, NEW c \in Conns, UNCHANGED <<clientVars, faults>>,
         conn' \in [Conns -> ConnStates], OthersSame(c),
         conn'[c].client = conn[c].client, conn'[c].owner \in {conn[c].owner, None},
         authorized' \in SUBSET Clients, current' \in Conns \union {None},
         stopped' \in BOOLEAN, toClose' \in Conns \union {None}
  PROVE  TypeOK' /\ OpenAreLinked'
<1>1. LinksOK /\ LinksOK'
  BY Types DEF IInv, clientVars, LinksOK
<1>2. TypeOK'
  BY <1>1, Types, TypesPrimed DEF IInv, clientVars
<1>3. OpenAreLinked'
  BY VPNChannelAssumption DEF IInv, OpenAreLinked, OthersSame, clientVars
<1> QED
  BY <1>2, <1>3

(* Before claimVPN a handler concerns nobody else. *)
LEMMA BeforeClaim ==
  ASSUME IInv, NEW c \in Conns, conn[c].handler \in {"auth", "authed"},
         UNCHANGED <<serverVars, clientVars, faults>>,
         conn' \in [Conns -> ConnStates], OthersSame(c), SameOwner(c),
         conn'[c].client = conn[c].client, conn'[c].old = None,
         conn'[c].handler \in {"authed", "done"},
         conn'[c].handler = "done" => ~conn'[c].server
  PROVE  IInv'
<1> USE DEF OthersSame, SameOwner, serverVars
<1>1. current # c
  BY VPNChannelAssumption DEF IInv, CurrentIsServed, Claimed
<1>2. TypeOK' /\ OpenAreLinked'
  BY HandlerMoves, Types DEF IInv
<1>3. HandlersAreDone' /\ LeavingHasReason' /\ StoppedFirst'
  BY DEF IInv, HandlersAreDone, LeavingHasReason, StoppedFirst
<1>4. OldIsOurs'
  BY Types DEF IInv, OldIsOurs, ConnStates
<1>5. CurrentIsServed'
  BY <1>1, Types DEF IInv, CurrentIsServed, Claimed
<1>6. ReplacedAreClosed'
  <2> SUFFICES ASSUME NEW e \in Conns, Claimed(e)', e # current, conn'[e].server,
                      conn'[e].handler # "leaving", toClose # e
               PROVE  \E d \in Conns : conn'[d].handler = "claimed" /\ conn'[d].old = e
    BY DEF ReplacedAreClosed
  <2>1. e # c /\ conn'[e] = conn[e]
    BY DEF Claimed
  <2>2. PICK d \in Conns : conn[d].handler = "claimed" /\ conn[d].old = e
    BY <2>1 DEF IInv, ReplacedAreClosed, Claimed
  <2> QED
    BY <2>2
<1> QED
  BY <1>2, <1>3, <1>4, <1>5, <1>6 DEF IInv

LEMMA AuthOKIInv ==
  ASSUME IInv, NEW c \in Conns, AuthOK(c)
  PROVE  IInv'
<1> DEFINE r == conn[c]
           p == [r EXCEPT !.handler = "authed"]
           q == [p EXCEPT !.ok = r.client]
<1>1. conn \in [Conns -> ConnStates] /\ r \in ConnStates /\ r.handler = "auth" /\ r.old = None
  BY Types DEF IInv, OldIsOurs, AuthOK
<1>2. conn' = [conn EXCEPT ![c] = q] /\ UNCHANGED <<serverVars, clientVars, faults>>
  BY <1>1 DEF AuthOK, clientVars
<1> HIDE DEF r
<1>3. /\ p \in ConnStates /\ p.handler = "authed" /\ p.owner = r.owner /\ p.old = r.old
      /\ p.client = r.client
  BY <1>1 DEF ConnStates, Handlers
<1> HIDE DEF p
<1>4. r.client \in BOOLEAN
  BY <1>1 DEF ConnStates
<1>5. /\ q \in ConnStates /\ q.handler = "authed" /\ q.owner = r.owner /\ q.old = r.old
      /\ q.client = r.client
  BY <1>3, <1>4 DEF ConnStates
<1> HIDE DEF q
<1>6. conn' \in [Conns -> ConnStates] /\ OthersSame(c) /\ conn'[c] = q
  BY <1>1, <1>2, <1>5 DEF OthersSame
<1> QED
  BY <1>1, <1>2, <1>5, <1>6, BeforeClaim DEF r, SameOwner

LEMMA RejectedIInv ==
  ASSUME IInv, NEW c \in Conns, AuthFails(c) \/ Refuse(c)
  PROVE  IInv'
<1>1. /\ conn[c].handler \in {"auth", "authed"} /\ conn' = EndHandler(c)
      /\ UNCHANGED <<serverVars, clientVars, faults>>
  BY DEF AuthFails, Refuse, clientVars
<1>2. /\ conn' \in [Conns -> ConnStates] /\ OthersSame(c) /\ SameOwner(c)
      /\ conn'[c].handler = "done" /\ conn'[c].old = None
      /\ ~conn'[c].server /\ conn'[c].client = conn[c].client
  BY <1>1, HandlerEnds
<1> QED
  BY <1>1, <1>2, BeforeClaim

LEMMA ClaimIInv ==
  ASSUME IInv, NEW c \in Conns, Claim(c)
  PROVE  IInv'
<1> DEFINE r == conn[c]
           p == [r EXCEPT !.handler = "claimed"]
           q == [p EXCEPT !.old = current]
<1>1. /\ conn \in [Conns -> ConnStates] /\ r \in ConnStates /\ r.handler = "authed"
      /\ current \in Conns \union {None} /\ current # c
      /\ ~stopped /\ (current # None => conn[current].owner = r.owner)
  <2>1. conn \in [Conns -> ConnStates] /\ current \in Conns \union {None}
    BY Types DEF IInv
  <2>2. /\ conn[c].handler = "authed" /\ ~stopped
        /\ current # None => conn[current].owner = conn[c].owner
    BY DEF Claim, UsedByOther
  <2>3. current # c
    BY <2>2, VPNChannelAssumption DEF IInv, CurrentIsServed, Claimed
  <2> QED
    BY <2>1, <2>2, <2>3
<1>2. /\ conn' = [conn EXCEPT ![c] = q] /\ current' = c
      /\ UNCHANGED <<authorized, stopped, toClose, clientVars, faults>>
  BY <1>1 DEF Claim, clientVars
<1> HIDE DEF r
<1>3. /\ p \in ConnStates /\ p.handler = "claimed" /\ p.owner = r.owner
      /\ p.client = r.client /\ p.server = r.server
  BY <1>1 DEF ConnStates, Handlers
<1> HIDE DEF p
<1>4. /\ q \in ConnStates /\ q.handler = "claimed" /\ q.owner = r.owner /\ q.old = current
      /\ q.client = r.client /\ q.server = r.server
  BY <1>1, <1>3 DEF ConnStates
<1> HIDE DEF q
<1>5. conn' \in [Conns -> ConnStates] /\ OthersSame(c) /\ conn'[c] = q
  BY <1>1, <1>2, <1>4 DEF OthersSame
<1> USE DEF OthersSame
<1>6. TypeOK' /\ OpenAreLinked'
  BY <1>2, <1>4, <1>5, HandlerMoves, Types DEF r, IInv
<1>7. HandlersAreDone' /\ LeavingHasReason' /\ StoppedFirst'
  BY <1>1, <1>2, <1>4, <1>5 DEF IInv, HandlersAreDone, LeavingHasReason, StoppedFirst, r
<1>8. OldIsOurs'
  BY <1>1, <1>4, <1>5 DEF IInv, OldIsOurs, ConnStates, r
<1>9. CurrentIsServed'
  BY <1>1, <1>2, <1>4, <1>5 DEF CurrentIsServed, Claimed
<1>10. ReplacedAreClosed'
  <2> SUFFICES ASSUME NEW e \in Conns, Claimed(e)', e # c, conn'[e].server,
                      conn'[e].handler # "leaving", toClose # e
               PROVE  \E d \in Conns : conn'[d].handler = "claimed" /\ conn'[d].old = e
    BY <1>2 DEF ReplacedAreClosed
  <2>1. conn'[e] = conn[e]
    BY <1>5
  <2>2. CASE e = current
    BY <2>2, <1>4, <1>5
  <2>3. CASE e # current
    <3>1. PICK d \in Conns : conn[d].handler = "claimed" /\ conn[d].old = e
      BY <2>1, <2>3 DEF IInv, ReplacedAreClosed, Claimed
    <3>2. d # c
      BY <1>1, <3>1 DEF r
    <3> QED
      BY <3>1, <3>2, <1>5
  <2> QED
    BY <2>2, <2>3
<1> QED
  BY <1>6, <1>7, <1>8, <1>9, <1>10 DEF IInv

LEMMA CloseOldIInv ==
  ASSUME IInv, NEW c \in Conns, CloseOld(c)
  PROVE  IInv'
<1> DEFINE o == conn[c].old
           K == CloseReplaced(c)
           r == conn[c]
           p == [r EXCEPT !.handler = "serving"]
           q == [p EXCEPT !.old = None]
<1>1. /\ conn \in [Conns -> ConnStates] /\ r \in ConnStates /\ r.handler = "claimed"
      /\ o \in Conns \union {None} /\ o # c
  BY Types, VPNChannelAssumption DEF IInv, OldIsOurs, CloseOld, ConnStates
<1>2. /\ K \in [Conns -> ConnStates] /\ K[c] = r
      /\ \A d \in Conns : d # o => K[d] = conn[d]
      /\ \A d \in Conns : d = o =>
           /\ K[d].handler = conn[d].handler /\ K[d].old = conn[d].old
           /\ K[d].client = conn[d].client /\ ~K[d].server
           /\ K[d].owner = conn[d].owner \/ (K[d].owner = None /\ K[d].handler = "done")
  <2>1. CASE o = None
    BY <2>1, <1>1, VPNChannelAssumption DEF CloseReplaced
  <2>2. CASE o # None
    <3>1. o \in Conns /\ K = ClosedByServer(o)
      BY <2>2, <1>1 DEF CloseReplaced
    <3> QED
      BY <1>1, <3>1, ServerCloses
  <2> QED
    BY <2>1, <2>2
<1>3. conn' = [K EXCEPT ![c] = q] /\ UNCHANGED <<serverVars, clientVars, faults>>
  BY <1>2 DEF CloseOld, clientVars
<1> HIDE DEF r, K, o
<1>4. /\ p \in ConnStates /\ p.handler = "serving" /\ p.owner = r.owner
      /\ p.client = r.client /\ p.server = r.server /\ p.broken = r.broken
  BY <1>1 DEF ConnStates, Handlers
<1> HIDE DEF p
<1>5. /\ q \in ConnStates /\ q.handler = "serving" /\ q.owner = r.owner /\ q.old = None
      /\ q.client = r.client /\ q.server = r.server
  BY <1>4 DEF ConnStates
<1> HIDE DEF q
<1>6. /\ conn' \in [Conns -> ConnStates] /\ conn'[c] = q
      /\ \A d \in Conns : d # c /\ d # o => conn'[d] = conn[d]
      /\ \A d \in Conns : d = o =>
           /\ conn'[d].handler = conn[d].handler /\ conn'[d].old = conn[d].old
           /\ conn'[d].client = conn[d].client /\ ~conn'[d].server
           /\ conn'[d].owner = conn[d].owner \/ (conn'[d].owner = None /\ conn'[d].handler = "done")
  BY <1>1, <1>2, <1>3, <1>5
<1>7. \A d \in Conns : d # c =>
        /\ conn'[d].handler = conn[d].handler /\ conn'[d].old = conn[d].old
        /\ conn'[d].client = conn[d].client
        /\ conn'[d].server => conn'[d] = conn[d]
        /\ conn'[d].owner = conn[d].owner \/ (conn'[d].owner = None /\ conn'[d].handler = "done")
  BY <1>6
<1>8. TypeOK'
  <2>1. LinksOK'
    BY <1>3, Types DEF IInv, LinksOK, clientVars
  <2> QED
    BY <1>3, <1>6, <2>1, Types, TypesPrimed DEF IInv, clientVars, serverVars
<1>9. OpenAreLinked'
  BY <1>3, <1>5, <1>6, <1>7, VPNChannelAssumption DEF IInv, OpenAreLinked, clientVars, r
<1>10. HandlersAreDone' /\ LeavingHasReason' /\ StoppedFirst'
  BY <1>1, <1>3, <1>5, <1>6, <1>7
  DEF IInv, HandlersAreDone, LeavingHasReason, StoppedFirst, serverVars, r
<1>11. OldIsOurs'
  <2> SUFFICES ASSUME NEW d \in Conns, conn'[d].old # None
               PROVE  /\ conn'[d].handler = "claimed" /\ conn'[d].old # d
                      /\ conn'[conn'[d].old].owner \in {None, conn'[d].owner}
    BY DEF OldIsOurs
  <2>1. d # c
    BY <1>5, <1>6
  <2>2. PICK x \in Conns : x = conn[d].old /\ x = conn'[d].old
    BY <2>1, <1>1, <1>7 DEF ConnStates
  <2>3. conn[d].handler = "claimed" /\ x # d /\ conn[x].owner \in {None, conn[d].owner}
    BY <2>2 DEF IInv, OldIsOurs
  <2>4. conn'[d].handler = "claimed" /\ conn'[d].owner = conn[d].owner
    BY <2>1, <2>3, <1>7
  <2>5. conn'[x].owner \in {None, conn[x].owner}
    BY <1>5, <1>6, <1>7 DEF r
  <2> QED
    BY <2>2, <2>3, <2>4, <2>5
<1>12. CurrentIsServed'
  BY <1>3, <1>5, <1>6, <1>7, Types DEF IInv, CurrentIsServed, Claimed, serverVars
<1>13. ReplacedAreClosed'
  <2> SUFFICES ASSUME NEW e \in Conns, Claimed(e)', e # current, conn'[e].server,
                      conn'[e].handler # "leaving", toClose # e
               PROVE  \E d \in Conns : conn'[d].handler = "claimed" /\ conn'[d].old = e
    BY <1>3 DEF ReplacedAreClosed, serverVars
  <2>1. Claimed(e) /\ conn[e].server /\ conn[e].handler # "leaving" /\ e # o
    BY <1>1, <1>5, <1>6, <1>7 DEF Claimed, r
  <2>2. PICK d \in Conns : conn[d].handler = "claimed" /\ conn[d].old = e
    BY <2>1 DEF IInv, ReplacedAreClosed
  <2>3. d # c
    BY <2>1, <2>2 DEF o
  <2> QED
    BY <2>2, <2>3, <1>7
<1> QED
  BY <1>8, <1>9, <1>10, <1>11, <1>12, <1>13 DEF IInv

LEMMA ReadFailsIInv ==
  ASSUME IInv, NEW c \in Conns, ReadFails(c)
  PROVE  IInv'
<1> DEFINE r == conn[c]
           q == [r EXCEPT !.handler = "leaving"]
<1>1. /\ conn \in [Conns -> ConnStates] /\ r \in ConnStates /\ r.handler = "serving"
      /\ r.old = None /\ (r.broken \/ ~r.server \/ ~r.client)
  BY Types DEF IInv, OldIsOurs, ReadFails
<1>2. conn' = [conn EXCEPT ![c] = q] /\ UNCHANGED <<serverVars, clientVars, faults>>
  BY <1>1 DEF ReadFails, clientVars
<1> HIDE DEF r
<1>3. /\ q \in ConnStates /\ q.handler = "leaving" /\ q.owner = r.owner /\ q.old = None
      /\ q.client = r.client /\ q.server = r.server /\ q.broken = r.broken
  BY <1>1 DEF ConnStates, Handlers
<1> HIDE DEF q
<1>4. conn' \in [Conns -> ConnStates] /\ OthersSame(c) /\ conn'[c] = q
  BY <1>1, <1>2, <1>3 DEF OthersSame
<1> USE DEF OthersSame, serverVars
<1>5. TypeOK' /\ OpenAreLinked'
  BY <1>2, <1>3, <1>4, HandlerMoves, Types DEF r, IInv
<1>6. HandlersAreDone' /\ LeavingHasReason' /\ StoppedFirst'
  BY <1>1, <1>2, <1>3, <1>4 DEF IInv, HandlersAreDone, LeavingHasReason, StoppedFirst, r
<1>7. OldIsOurs'
  BY <1>1, <1>3, <1>4 DEF IInv, OldIsOurs, ConnStates, r
<1>8. CurrentIsServed'
  BY <1>2, <1>3, <1>4, Types DEF IInv, CurrentIsServed, Claimed
<1>9. ReplacedAreClosed'
  <2> SUFFICES ASSUME NEW e \in Conns, Claimed(e)', e # current, conn'[e].server,
                      conn'[e].handler # "leaving", toClose # e
               PROVE  \E d \in Conns : conn'[d].handler = "claimed" /\ conn'[d].old = e
    BY <1>2 DEF ReplacedAreClosed
  <2>1. conn'[e] = conn[e]
    BY <1>3, <1>4
  <2>2. PICK d \in Conns : conn[d].handler = "claimed" /\ conn[d].old = e
    BY <2>1 DEF IInv, ReplacedAreClosed, Claimed
  <2>3. d # c
    BY <1>1, <2>2 DEF r
  <2> QED
    BY <2>2, <2>3, <1>4
<1> QED
  BY <1>5, <1>6, <1>7, <1>8, <1>9 DEF IInv

(* writeLoop and stopVPN close a connection. *)
LEMMA ServerClosesIInv ==
  ASSUME IInv, NEW c \in Conns, conn' = ClosedByServer(c),
         UNCHANGED <<authorized, current, stopped, clientVars, faults>>,
         toClose' = toClose \/ (toClose = c /\ toClose' = None)
  PROVE  IInv'
<1>1. /\ conn' \in [Conns -> ConnStates] /\ OthersSame(c) /\ SameOwner(c)
      /\ conn'[c].handler = conn[c].handler /\ conn'[c].old = conn[c].old
      /\ conn'[c].client = conn[c].client /\ ~conn'[c].server
  BY ServerCloses DEF OthersSame, SameOwner
<1> USE DEF OthersSame, SameOwner
<1>2. TypeOK' /\ OpenAreLinked'
  BY <1>1, HandlerMoves, Types DEF IInv
<1>3. HandlersAreDone' /\ LeavingHasReason' /\ StoppedFirst'
  BY <1>1 DEF IInv, HandlersAreDone, LeavingHasReason, StoppedFirst
<1>4. OldIsOurs'
  <2> SUFFICES ASSUME NEW d \in Conns, conn'[d].old # None
               PROVE  /\ conn'[d].handler = "claimed" /\ conn'[d].old # d
                      /\ conn'[conn'[d].old].owner \in {None, conn'[d].owner}
    BY DEF OldIsOurs
  <2>1. PICK x \in Conns : x = conn[d].old /\ x = conn'[d].old
    BY <1>1, Types DEF IInv, ConnStates
  <2>2. conn[d].handler = "claimed" /\ x # d /\ conn[x].owner \in {None, conn[d].owner}
    BY <2>1 DEF IInv, OldIsOurs
  <2>3. conn'[d].handler = "claimed" /\ conn'[d].owner = conn[d].owner
    BY <2>2, <1>1
  <2>4. conn'[x].owner \in {None, conn[x].owner}
    BY <1>1
  <2> QED
    BY <2>1, <2>2, <2>3, <2>4
<1>5. CurrentIsServed'
  BY <1>1, Types DEF IInv, CurrentIsServed, Claimed
<1>6. ReplacedAreClosed'
  <2> SUFFICES ASSUME NEW e \in Conns, Claimed(e)', e # current, conn'[e].server,
                      conn'[e].handler # "leaving", toClose' # e
               PROVE  \E d \in Conns : conn'[d].handler = "claimed" /\ conn'[d].old = e
    BY DEF ReplacedAreClosed
  <2>1. e # c /\ conn'[e] = conn[e] /\ toClose # e
    BY <1>1
  <2>2. PICK d \in Conns : conn[d].handler = "claimed" /\ conn[d].old = e
    BY <2>1 DEF IInv, ReplacedAreClosed, Claimed
  <2> QED
    BY <2>2, <1>1
<1> QED
  BY <1>2, <1>3, <1>4, <1>5, <1>6 DEF IInv

LEMMA LeaveIInv ==
  ASSUME IInv, NEW c \in Conns, Leave(c)
  PROVE  IInv'
<1>1. /\ conn' \in [Conns -> ConnStates] /\ OthersSame(c) /\ SameOwner(c)
      /\ conn'[c].handler = "done" /\ conn'[c].old = None
      /\ ~conn'[c].server /\ conn'[c].client = conn[c].client
  BY HandlerEnds DEF Leave
<1>2. /\ conn[c].handler = "leaving" /\ UNCHANGED <<authorized, stopped, toClose, clientVars, faults>>
      /\ current' = IF current = c THEN None ELSE current
  BY DEF Leave, FreeSlot, clientVars
<1> USE DEF OthersSame, SameOwner
<1>3. TypeOK' /\ OpenAreLinked'
  BY <1>1, <1>2, HandlerMoves, Types DEF IInv
<1>4. HandlersAreDone' /\ LeavingHasReason' /\ StoppedFirst'
  BY <1>1, <1>2 DEF IInv, HandlersAreDone, LeavingHasReason, StoppedFirst
<1>5. OldIsOurs'
  BY <1>1, <1>2, Types DEF IInv, OldIsOurs, ConnStates
<1>6. CurrentIsServed'
  BY <1>1, <1>2, Types DEF IInv, CurrentIsServed, Claimed
<1>7. ReplacedAreClosed'
  <2> SUFFICES ASSUME NEW e \in Conns, Claimed(e)', e # current', conn'[e].server,
                      conn'[e].handler # "leaving", toClose # e
               PROVE  \E d \in Conns : conn'[d].handler = "claimed" /\ conn'[d].old = e
    BY <1>2 DEF ReplacedAreClosed
  <2>1. e # c /\ conn'[e] = conn[e] /\ e # current
    BY <1>1, <1>2
  <2>2. PICK d \in Conns : conn[d].handler = "claimed" /\ conn[d].old = e
    BY <2>1 DEF IInv, ReplacedAreClosed, Claimed
  <2>3. d # c
    BY <1>2, <2>2
  <2> QED
    BY <2>2, <2>3, <1>1
<1> QED
  BY <1>3, <1>4, <1>5, <1>6, <1>7 DEF IInv

LEMMA StopVPNIInv ==
  ASSUME IInv, StopVPN
  PROVE  IInv'
<1>1. /\ ~stopped /\ stopped' = TRUE /\ toClose' = current /\ current' = None
      /\ faults < MaxFaults /\ faults' = faults + 1
      /\ UNCHANGED <<authorized, clientVars, conn>>
  BY DEF StopVPN, clientVars
<1>2. toClose = None
  BY <1>1 DEF IInv, StoppedFirst
<1>3. LinksOK'
  BY <1>1, Types DEF IInv, LinksOK, clientVars
<1>4. TypeOK'
  BY <1>1, <1>3, Types, TypesPrimed, VPNChannelAssumption DEF IInv, clientVars
<1>5. HandlersAreDone' /\ LeavingHasReason' /\ StoppedFirst' /\ CurrentIsServed'
  BY <1>1 DEF IInv, HandlersAreDone, LeavingHasReason, StoppedFirst, CurrentIsServed
<1>6. OldIsOurs' /\ OpenAreLinked'
  BY <1>1 DEF IInv, OldIsOurs, OpenAreLinked, clientVars
<1>7. ReplacedAreClosed'
  BY <1>1, <1>2, VPNChannelAssumption DEF IInv, ReplacedAreClosed, Claimed
<1> QED
  BY <1>4, <1>5, <1>6, <1>7 DEF IInv

LEMMA BreakIInv ==
  ASSUME IInv, NEW c \in Conns, Break(c)
  PROVE  IInv'
<1> DEFINE r == conn[c]
           q == [r EXCEPT !.broken = TRUE]
<1>1. /\ conn \in [Conns -> ConnStates] /\ r \in ConnStates
      /\ conn' = [conn EXCEPT ![c] = q] /\ UNCHANGED <<serverVars, clientVars>>
      /\ faults < MaxFaults /\ faults' = faults + 1
  BY Types DEF IInv, Break, clientVars
<1> HIDE DEF r
<1>2. /\ q \in ConnStates /\ q.handler = r.handler /\ q.owner = r.owner /\ q.old = r.old
      /\ q.client = r.client /\ q.server = r.server /\ q.broken
  BY <1>1 DEF ConnStates
<1> HIDE DEF q
<1>3. conn' \in [Conns -> ConnStates] /\ OthersSame(c) /\ conn'[c] = q
  BY <1>1, <1>2 DEF OthersSame
<1>4. LinksOK'
  BY <1>1, Types DEF IInv, LinksOK, clientVars
<1>5. TypeOK'
  BY <1>1, <1>3, <1>4, Types, TypesPrimed, VPNChannelAssumption DEF IInv, clientVars, serverVars
<1>6. /\ HandlersAreDone' /\ OldIsOurs' /\ StoppedFirst' /\ CurrentIsServed'
      /\ ReplacedAreClosed' /\ LeavingHasReason'
  BY <1>1, <1>2, <1>3, ServerSteady DEF OthersSame, SameHandler, SameOwner, r
<1>7. OpenAreLinked'
  BY <1>1, <1>2, <1>3 DEF IInv, OpenAreLinked, OthersSame, clientVars, r
<1> QED
  BY <1>5, <1>6, <1>7 DEF IInv

-----------------------------------------------------------------------------
(* All steps together.                                                     *)
LEMMA InitIInv == Init => IInv
<1> SUFFICES ASSUME Init PROVE IInv
  OBVIOUS
<1>1. /\ authorized \in SUBSET Clients /\ current = None /\ stopped = FALSE /\ toClose = None
      /\ life = [k \in Clients |-> "new"] /\ faults = 0
      /\ \A c \in Conns : conn[c] = NoConn
      /\ conn = [c \in Conns |-> NoConn] /\ link = [k \in Clients |-> NoLink]
  BY DEF Init
<1>2. LinksOK
  BY <1>1 DEF LinksOK, LinkStates, NoLink
<1> HIDE DEF Init
<1>3. TypeOK
  <2>1. conn \in [Conns -> ConnStates] /\ life \in [Clients -> {"new", "run", "closed"}]
    BY <1>1, NoConnIs
  <2>2. 0 \in 0 .. MaxFaults
    BY VPNChannelAssumption
  <2> QED
    BY <1>1, <1>2, <2>1, <2>2, Types
<1>4. HandlersAreDone /\ OldIsOurs /\ StoppedFirst /\ CurrentIsServed
  BY <1>1, NoConnIs DEF HandlersAreDone, OldIsOurs, StoppedFirst, CurrentIsServed
<1>5. ReplacedAreClosed /\ OpenAreLinked /\ LeavingHasReason
  BY <1>1, NoConnIs DEF ReplacedAreClosed, OpenAreLinked, LeavingHasReason, Claimed
<1> QED
  BY <1>3, <1>4, <1>5 DEF IInv

(* Every step of a client, of a handler, of the two ends of a connection.  *)
LEMMA NextIInv == IInv /\ [Next]_vars => IInv'
<1> SUFFICES ASSUME IInv, [Next]_vars PROVE IInv'
  OBVIOUS
<1>1. ASSUME NEW k \in Clients, ClientStep(k) PROVE IInv'
  BY <1>1, DialIInv, ReturnIInv, DialSucceedsIInv, DialEndsIInv, ServeIInv, LostIInv
  DEF ClientStep
<1>2. ASSUME NEW c \in Conns, HandlerStep(c) PROVE IInv'
  BY <1>2, AuthOKIInv, RejectedIInv, ClaimIInv, CloseOldIInv, ReadFailsIInv, LeaveIInv
  DEF HandlerStep
<1>3. ASSUME NEW c \in Conns, WriteLoopFails(c) PROVE IInv'
  BY <1>3, ServerClosesIInv DEF WriteLoopFails, serverVars, clientVars
<1>4. CASE CloseStopped
  <2>1. toClose \in Conns
    BY <1>4, Types DEF IInv, CloseStopped
  <2> QED
    BY <1>4, <2>1, ServerClosesIInv DEF CloseStopped, clientVars
<1>5. CASE UNCHANGED vars
  <2>1. UNCHANGED <<serverVars, clientVars, conn, faults>>
    BY <1>5 DEF vars, serverVars, clientVars
  <2>2. LinksOK'
    BY <2>1, Types DEF IInv, LinksOK, clientVars
  <2>3. TypeOK'
    BY <2>1, <2>2, Types, TypesPrimed DEF IInv, serverVars, clientVars
  <2>4. /\ HandlersAreDone' /\ OldIsOurs' /\ StoppedFirst' /\ CurrentIsServed'
        /\ ReplacedAreClosed' /\ LeavingHasReason'
    BY <2>1, ServerSteady, Types DEF IInv, SameHandler, SameOwner
  <2>5. OpenAreLinked'
    BY <2>1 DEF IInv, OpenAreLinked, clientVars
  <2> QED
    BY <2>3, <2>4, <2>5 DEF IInv
<1> QED
  BY <1>1, <1>2, <1>3, <1>4, <1>5, WriteFailsIInv, CloseIInv, BreakIInv, StopVPNIInv DEF Next

(* The inductive invariant holds in every reachable state. *)
THEOREM InductiveInvariant == Spec => []IInv
  BY InitIInv, NextIInv, PTL DEF Spec

(* The types of all variables: among them that the link has a connection   *)
(* to write to exactly while run serves it (vpnlink.go:105-142).           *)
THEOREM TypeCorrect == Spec => []TypeOK
<1>1. IInv => TypeOK
  BY DEF IInv
<1> QED
  BY <1>1, InductiveInvariant, PTL

(* The channel is never kept by a handler that is gone, whichever order    *)
(* the handlers of old and new connections end in, and by nobody once it   *)
(* is stopped (vpn.go:152-155, 168-179, 208-213).                          *)
THEOREM SlotIsServed == Spec => []CurrentIsServed
<1>1. IInv => CurrentIsServed
  BY DEF IInv
<1> QED
  BY <1>1, InductiveInvariant, PTL

(* A connection that lost the channel is closed, or somebody is about to   *)
(* close it, and a client whose run has returned has no connection open    *)
(* (vpn.go:149-161, 192-201, 208-213; vpnlink.go:94-103, 111-128).         *)
THEOREM NothingLeft == Spec => []NoConnectionLeft
<1>1. ASSUME IInv PROVE NoConnectionLeft
  <2>1. ASSUME NEW k \in Clients, link[k].pc \in {"returned", "gave up"},
               NEW c \in Conns, conn[c].owner = k
        PROVE  ~conn[c].client
    <3>1. link[k].at = None
      BY <1>1, <2>1, Types DEF IInv, LinksOK
    <3> QED
      BY <1>1, <2>1, <3>1, VPNChannelAssumption DEF IInv, OpenAreLinked
  <2> QED
    BY <1>1, <2>1 DEF IInv, ReplacedAreClosed, NoConnectionLeft
<1> QED
  BY <1>1, InductiveInvariant, PTL

ClosedForAReason(c) ==
  \/ conn[c].broken \/ ~conn[c].client
  \/ stopped
  \/ \E d \in Conns : conn[d].old = c /\ conn[d].owner = conn[c].owner

LEMMA CloseOldHasReason ==
  ASSUME IInv, NEW c \in Conns, NEW d \in Conns, CloseOld(d),
         Claimed(c), conn[c].server, ~conn'[c].server
  PROVE  ClosedForAReason(c)
<1> DEFINE o == conn[d].old
           K == CloseReplaced(d)
<1>1. /\ conn \in [Conns -> ConnStates] /\ conn[d].handler = "claimed"
      /\ o \in Conns \union {None}
  BY Types DEF IInv, CloseOld, ConnStates
<1>2. conn' = [K EXCEPT ![d].handler = "serving", ![d].old = None]
  BY DEF CloseOld
<1>3. K \in [Conns -> ConnStates] /\ \A e \in Conns : e # o => K[e] = conn[e]
  BY <1>1, ServerCloses DEF CloseReplaced
<1> HIDE DEF K
<1>4. conn'[c].server = K[c].server
  BY <1>2, <1>3 DEF ConnStates
<1>5. conn[d].old = c
  BY <1>3, <1>4
<1>6. conn[c].owner # None /\ conn[c].owner \in {None, conn[d].owner}
  BY <1>5, VPNChannelAssumption DEF IInv, OldIsOurs, HandlersAreDone, Claimed
<1> QED
  BY <1>5, <1>6 DEF ClosedForAReason

LEMMA ClosingHasReason ==
  ASSUME IInv, [Next]_vars, NEW c \in Conns, Claimed(c), conn[c].server, ~conn'[c].server
  PROVE  ClosedForAReason(c)
<1>1. conn \in [Conns -> ConnStates] /\ LinksOK
  BY Types DEF IInv
<1>2. ASSUME NEW x \in Conns, conn' = ClosedByClient(x) PROVE FALSE
  BY <1>2, ClientCloses DEF OthersSame
<1>3. ASSUME NEW k \in Clients, ClientStep(k) \/ WriteFails(k) \/ Close(k) PROVE FALSE
  <2>1. link[k].at \in Conns \union {None} /\ link[k].conn \in Conns \union {None}
    BY <1>1 DEF LinksOK, LinkStates
  <2>2. CASE Dial(k)
    BY <2>2, <1>1, NoConnIs DEF Dial, NewConn, Unused, ConnStates
  <2>3. CASE Return(k) \/ DialSucceeds(k)
    BY <2>3, <1>1 DEF Return, DialSucceeds, ConnStates
  <2>4. CASE DialRejected(k) \/ DialFails(k) \/ Serve(k) \/ Lost(k)
    <3>1. link[k].at \in Conns
      BY <2>1, <2>4, <1>1 DEF LinksOK, DialRejected, DialFails, Serve, Lost
    <3> QED
      BY <3>1, <2>4, <1>2 DEF DialRejected, DialFails, Serve, Lost, DeferredClose
  <2>5. CASE WriteFails(k) \/ Close(k)
    BY <2>5, <2>1, <1>2 DEF WriteFails, Close
  <2> QED
    BY <1>3, <2>2, <2>3, <2>4, <2>5 DEF ClientStep
<1>4. ASSUME NEW d \in Conns, HandlerStep(d) \/ WriteLoopFails(d) \/ Break(d)
      PROVE  ClosedForAReason(c)
  <2>1. CASE AuthFails(d) \/ Refuse(d) \/ Leave(d)
    <3>1. /\ OthersSame(d)
          /\ conn[d].handler \in {"auth", "authed", "leaving"}
      BY <2>1, HandlerEnds DEF AuthFails, Refuse, Leave
    <3>2. c = d /\ conn[c].handler = "leaving"
      BY <3>1 DEF OthersSame, Claimed
    <3> QED
      BY <3>2 DEF IInv, LeavingHasReason, ClosedForAReason
  <2>2. CASE AuthOK(d) \/ Claim(d) \/ ReadFails(d) \/ Break(d)
    BY <2>2, <1>1 DEF AuthOK, Claim, ReadFails, Break, ConnStates
  <2>3. CASE WriteLoopFails(d)
    BY <2>3, ServerCloses DEF WriteLoopFails, ClosedForAReason
  <2> QED
    BY <1>4, <2>1, <2>2, <2>3, CloseOldHasReason DEF HandlerStep
<1>5. CASE CloseStopped
  BY <1>5 DEF CloseStopped, IInv, StoppedFirst, ClosedForAReason
<1> QED
  BY <1>3, <1>4, <1>5 DEF Next, StopVPN, vars

(* The server closes a connection it has served only when it broke or the  *)
(* client closed it, when the TUN failed, or when a newer connection of    *)
(* the same client replaced it: nobody takes the channel from another      *)
(* client (vpn.go:173-178).                                                *)
THEOREM NobodyTakesTheChannel == Spec => StrangersWait
<1>1. IInv /\ [Next]_vars =>
        [\A c \in Conns : Claimed(c) /\ conn[c].server /\ ~conn'[c].server =>
           ClosedForAReason(c)]_vars
  BY ClosingHasReason
<1> QED
  BY <1>1, InductiveInvariant, PTL DEF Spec, StrangersWait, ClosedForAReason

-----------------------------------------------------------------------------
(* Scheduler.  What the provers need of induction: a set of natural        *)
(* numbers has a least element, so a property that 0 has and every next    *)
(* number inherits, all have; and likewise for subsets of a finite set.    *)
LEMMA LeastNat ==
  ASSUME NEW T, T \subseteq Nat, T # {}
  PROVE  \E x \in T : \A y \in T : x <= y
<1>1. \E x \in T : \A y \in T : <<y, x>> \notin OpToRel(<, Nat)
  BY NatLessThanWellFounded, WFMin, Zenon
<1>2. PICK x \in T : \A y \in T : <<y, x>> \notin OpToRel(<, Nat)
  BY <1>1
<1>3. ASSUME NEW y \in T, ~(x <= y) PROVE FALSE
  <2>1. x \in Nat /\ y \in Nat
    OBVIOUS
  <2>2. y < x
    BY <1>3, <2>1
  <2>3. <<y, x>> \in OpToRel(<, Nat)
    BY <2>1, <2>2 DEF OpToRel
  <2> QED
    BY <1>2, <2>3, Zenon
<1> QED
  BY <1>3

LEMMA UpTo ==
  ASSUME NEW S, 0 \in S, \A n \in Nat : n \in S => n + 1 \in S
  PROVE  Nat \subseteq S
<1> SUFFICES ASSUME Nat \ S # {} PROVE FALSE
  OBVIOUS
<1>1. PICK x \in Nat \ S : \A y \in Nat \ S : x <= y
  BY LeastNat
<1>2. x # 0 /\ x \in Nat
  BY <1>1
<1>3. x - 1 \in Nat /\ ~(x <= x - 1) /\ (x - 1) + 1 = x
  BY <1>2
<1>4. x - 1 \in S
  BY <1>1, <1>3
<1> QED
  BY <1>1, <1>3, <1>4

LEMMA SubsetsOneByOne ==
  ASSUME NEW D, IsFiniteSet(D), NEW S,
         {} \in S,
         \A s \in SUBSET D : s # {} /\ (\A x \in s : s \ {x} \in S) => s \in S
  PROVE  SUBSET D \subseteq S
<1> DEFINE Bad(n) == \E s \in SUBSET D : s \notin S /\ Cardinality(s) = n
           T == {n \in Nat : Bad(n)}
<1> SUFFICES ASSUME NEW s \in SUBSET D, s \notin S PROVE FALSE
  OBVIOUS
<1>1. \A t \in SUBSET D : IsFiniteSet(t) /\ Cardinality(t) \in Nat
  BY FS_Subset, FS_CardinalityType
<1>2. T \subseteq Nat /\ T # {}
  BY <1>1
<1>3. PICK n \in T : \A m \in T : n <= m
  BY <1>2, LeastNat
<1>4. PICK t \in SUBSET D : t \notin S /\ Cardinality(t) = n
  BY <1>3
<1>5. PICK x \in t : t \ {x} \notin S
  BY <1>4
<1>6. Cardinality(t \ {x}) = n - 1
  BY <1>1, <1>4, <1>5, FS_RemoveElement
<1>7. n - 1 \in Nat /\ ~(n <= n - 1)
  BY <1>1, <1>2, <1>6
<1>8. n - 1 \in T
  BY <1>5, <1>6, <1>7
<1> QED
  BY <1>3, <1>7, <1>8

-----------------------------------------------------------------------------
(* The folds of the community modules take the elements of a set one by    *)
(* one, in the order of CHOOSE.                                            *)
OneOf(s) == CHOOSE x \in s : TRUE
IsFold(g, v) ==
  g = [s \in SUBSET DOMAIN v |-> IF s = {} THEN 0 ELSE v[OneOf(s)] + g[s \ {OneOf(s)}]]
Fold(v) == CHOOSE g : IsFold(g, v)
Sum(v) == Fold(v)[DOMAIN v]

LEMMA FoldExists ==
  ASSUME NEW D, IsFiniteSet(D), NEW v \in [D -> Int]
  PROVE  \E g : IsFold(g, v)
<1> DEFINE Small(n) == {s \in SUBSET D : Cardinality(s) <= n}
           Def(g, s) == IF s = {} THEN 0 ELSE v[OneOf(s)] + g[s \ {OneOf(s)}]
           S == {n \in Nat : \E g : \A s \in Small(n) : g[s] = Def(g, s)}
<1>1. \A s \in SUBSET D : IsFiniteSet(s) /\ Cardinality(s) \in Nat
  BY FS_Subset, FS_CardinalityType
<1>2. ASSUME NEW s \in SUBSET D, s # {}
      PROVE  /\ OneOf(s) \in s /\ s \ {OneOf(s)} \in SUBSET D
             /\ Cardinality(s \ {OneOf(s)}) = Cardinality(s) - 1
  <2>1. OneOf(s) \in s
    BY <1>2 DEF OneOf
  <2> QED
    BY <2>1, <1>1, FS_RemoveElement
<1>3. 0 \in S
  <2>1. \A s \in Small(0) : s = {}
    BY <1>1, FS_EmptySet
  <2> DEFINE g0 == [s \in SUBSET D |-> 0]
  <2>2. \A s \in Small(0) : g0[s] = Def(g0, s)
    BY <2>1
  <2> QED
    BY <2>2
<1>4. ASSUME NEW n \in Nat, n \in S PROVE n + 1 \in S
  <2>1. PICK g : \A s \in Small(n) : g[s] = Def(g, s)
    BY <1>4
  <2> DEFINE h == [s \in SUBSET D |-> Def(g, s)]
  <2>2. \A s \in Small(n) : h[s] = g[s]
    BY <2>1
  <2>3. ASSUME NEW s \in Small(n + 1) PROVE h[s] = Def(h, s)
    <3>1. CASE s = {}
      BY <3>1
    <3>2. CASE s # {}
      <4>1. s \ {OneOf(s)} \in Small(n)
        <5>1. s \in SUBSET D /\ Cardinality(s) <= n + 1 /\ Cardinality(s) \in Nat
          BY <1>1
        <5>2. /\ s \ {OneOf(s)} \in SUBSET D
              /\ Cardinality(s \ {OneOf(s)}) = Cardinality(s) - 1
          BY <1>2, <3>2, <5>1
        <5> QED
          BY <5>1, <5>2
      <4>2. h[s \ {OneOf(s)}] = g[s \ {OneOf(s)}]
        BY <2>2, <4>1
      <4>3. h[s] = v[OneOf(s)] + g[s \ {OneOf(s)}]
        <5>1. s \in SUBSET D
          OBVIOUS
        <5> HIDE DEF Small
        <5> QED
          BY <3>2, <5>1
      <4>4. Def(h, s) = v[OneOf(s)] + h[s \ {OneOf(s)}]
        BY <3>2
      <4> HIDE DEF h, Def, Small
      <4> QED
        BY <4>2, <4>3, <4>4
    <3> QED
      BY <3>1, <3>2
  <2> HIDE DEF h, Def, Small
  <2>4. \E f : \A s \in Small(n + 1) : f[s] = Def(f, s)
    BY <2>3
  <2> QED
    BY <2>4
<1>5. Cardinality(D) \in S /\ Cardinality(D) \in Nat
  <2>1. Nat \subseteq S
    BY <1>3, <1>4, UpTo
  <2> QED
    BY <1>1, <2>1
<1>6. Small(Cardinality(D)) = SUBSET D
  BY <1>1, FS_Subset
<1>7. PICK g : \A s \in SUBSET D : g[s] = Def(g, s)
  BY <1>5, <1>6
<1> DEFINE h == [s \in SUBSET D |-> g[s]]
<1>8. \A s \in SUBSET D : h[s] = Def(h, s)
  BY <1>2, <1>7
<1>9. h = [s \in SUBSET D |-> Def(h, s)]
  <2> HIDE DEF Def
  <2> QED
    BY <1>8
<1>10. IsFold(h, v)
  BY <1>9 DEF IsFold
<1> QED
  BY <1>10

LEMMA FoldIs ==
  ASSUME NEW D, IsFiniteSet(D), NEW v \in [D -> Int]
  PROVE  /\ Fold(v)[{}] = 0
         /\ \A s \in SUBSET D : s # {} =>
              OneOf(s) \in s /\ Fold(v)[s] = v[OneOf(s)] + Fold(v)[s \ {OneOf(s)}]
<1>1. IsFold(Fold(v), v)
  BY FoldExists DEF Fold
<1>2. \A s : s # {} => OneOf(s) \in s
  BY DEF OneOf
<1>3. \A s \in SUBSET D :
         Fold(v)[s] = IF s = {} THEN 0 ELSE v[OneOf(s)] + Fold(v)[s \ {OneOf(s)}]
  BY <1>1 DEF IsFold
<1> QED
  BY <1>2, <1>3

LEMMA FoldType ==
  ASSUME NEW D, IsFiniteSet(D), NEW v \in [D -> Int]
  PROVE  \A s \in SUBSET D : Fold(v)[s] \in Int
<1> DEFINE S == {s \in SUBSET D : Fold(v)[s] \in Int}
<1>9. \A s \in SUBSET D : s # {} =>
         OneOf(s) \in s /\ Fold(v)[s] = v[OneOf(s)] + Fold(v)[s \ {OneOf(s)}]
  BY FoldIs
<1>1. {} \in S
  BY FoldIs
<1>2. ASSUME NEW s \in SUBSET D, s # {}, \A x \in s : s \ {x} \in S PROVE s \in S
  <2>1. OneOf(s) \in s /\ Fold(v)[s] = v[OneOf(s)] + Fold(v)[s \ {OneOf(s)}]
    BY <1>2, <1>9
  <2>2. v[OneOf(s)] \in Int /\ Fold(v)[s \ {OneOf(s)}] \in Int
    BY <1>2, <2>1
  <2> QED
    BY <2>1, <2>2
<1>3. SUBSET D \subseteq S
  <2> HIDE DEF S
  <2> QED
    BY <1>1, <1>2, SubsetsOneByOne
<1> QED
  BY <1>3

(* The order does not matter. *)
SplitsAnywhere(D, v) ==
  \A r \in SUBSET D : \A e \in r : Fold(v)[r] = v[e] + Fold(v)[r \ {e}]

LEMMA FoldAny ==
  ASSUME NEW D, IsFiniteSet(D), NEW v \in [D -> Int]
  PROVE  SplitsAnywhere(D, v)
<1> DEFINE S == {s \in SUBSET D : \A x \in s : Fold(v)[s] = v[x] + Fold(v)[s \ {x}]}
<1>9. \A s \in SUBSET D : s # {} =>
         OneOf(s) \in s /\ Fold(v)[s] = v[OneOf(s)] + Fold(v)[s \ {OneOf(s)}]
  BY FoldIs
<1>1. {} \in S
  OBVIOUS
<1>2. ASSUME NEW s \in SUBSET D, s # {}, \A x \in s : s \ {x} \in S PROVE s \in S
  <2> SUFFICES ASSUME NEW x \in s PROVE Fold(v)[s] = v[x] + Fold(v)[s \ {x}]
    OBVIOUS
  <2>0. OneOf(s) \in s /\ Fold(v)[s] = v[OneOf(s)] + Fold(v)[s \ {OneOf(s)}]
    BY <1>2, <1>9
  <2>1. PICK c \in s : Fold(v)[s] = v[c] + Fold(v)[s \ {c}]
    BY <2>0
  <2>2. CASE x = c
    BY <2>1, <2>2
  <2>3. CASE x # c
    <3>1. s \ {c} \in S /\ x \in s \ {c} /\ s \ {x} \in S /\ c \in s \ {x}
      BY <1>2, <2>3
    <3>2. /\ Fold(v)[s \ {c}] = v[x] + Fold(v)[(s \ {c}) \ {x}]
          /\ Fold(v)[s \ {x}] = v[c] + Fold(v)[(s \ {x}) \ {c}]
      BY <3>1
    <3>3. (s \ {c}) \ {x} = (s \ {x}) \ {c} /\ (s \ {c}) \ {x} \in SUBSET D
      OBVIOUS
    <3>4. v[x] \in Int /\ v[c] \in Int /\ Fold(v)[(s \ {c}) \ {x}] \in Int
      BY <3>3, FoldType
    <3> HIDE DEF S
    <3>5. Fold(v)[s] = v[c] + (v[x] + Fold(v)[(s \ {c}) \ {x}])
      BY <2>1, <3>2
    <3>6. Fold(v)[s \ {x}] = v[c] + Fold(v)[(s \ {c}) \ {x}]
      BY <3>2, <3>3
    <3> QED
      BY <3>4, <3>5, <3>6
  <2> QED
    BY <2>2, <2>3
<1>3. SUBSET D \subseteq S
  <2> HIDE DEF S
  <2> QED
    BY <1>1, <1>2, SubsetsOneByOne
<1> QED
  BY <1>3 DEF SplitsAnywhere

(* What is elsewhere does not matter. *)
LEMMA FoldAgrees ==
  ASSUME NEW D, IsFiniteSet(D), NEW v \in [D -> Int],
         NEW E, IsFiniteSet(E), NEW w \in [E -> Int],
         NEW t, t \subseteq D, t \subseteq E, \A x \in t : v[x] = w[x]
  PROVE  Fold(v)[t] = Fold(w)[t]
<1> DEFINE S == {s \in SUBSET t : Fold(v)[s] = Fold(w)[s]}
<1>1. {} \in S
  BY FoldIs
<1>2. ASSUME NEW s \in SUBSET t, s # {}, \A x \in s : s \ {x} \in S PROVE s \in S
  <2>1. PICK x : x \in s
    BY <1>2
  <2>2. Fold(v)[s] = v[x] + Fold(v)[s \ {x}] /\ Fold(w)[s] = w[x] + Fold(w)[s \ {x}]
    <3>1. s \in SUBSET D /\ s \in SUBSET E
      OBVIOUS
    <3> HIDE DEF S
    <3> QED
      BY <2>1, <3>1, FoldAny DEF SplitsAnywhere
  <2> QED
    BY <1>2, <2>1, <2>2
<1>3. IsFiniteSet(t)
  BY FS_Subset
<1>4. SUBSET t \subseteq S
  <2> HIDE DEF S
  <2> QED
    BY <1>1, <1>2, <1>3, SubsetsOneByOne
<1> QED
  BY <1>4

LEMMA FoldNatural ==
  ASSUME NEW D, IsFiniteSet(D), NEW v \in [D -> Nat]
  PROVE  \A s \in SUBSET D : Fold(v)[s] \in Nat
<1> DEFINE S == {s \in SUBSET D : Fold(v)[s] \in Nat}
<1>0. v \in [D -> Int]
  OBVIOUS
<1>9. \A s \in SUBSET D : s # {} =>
         OneOf(s) \in s /\ Fold(v)[s] = v[OneOf(s)] + Fold(v)[s \ {OneOf(s)}]
  BY <1>0, FoldIs
<1>1. {} \in S
  BY <1>0, FoldIs
<1>2. ASSUME NEW s \in SUBSET D, s # {}, \A x \in s : s \ {x} \in S PROVE s \in S
  <2>1. OneOf(s) \in s /\ Fold(v)[s] = v[OneOf(s)] + Fold(v)[s \ {OneOf(s)}]
    BY <1>2, <1>9
  <2>2. v[OneOf(s)] \in Nat /\ Fold(v)[s \ {OneOf(s)}] \in Nat
    BY <1>2, <2>1
  <2> QED
    BY <2>1, <2>2
<1>3. SUBSET D \subseteq S
  <2> HIDE DEF S
  <2> QED
    BY <1>1, <1>2, SubsetsOneByOne
<1> QED
  BY <1>3

LEMMA FoldZero ==
  ASSUME NEW D, IsFiniteSet(D), NEW v \in [D -> Int], \A x \in D : v[x] = 0
  PROVE  \A s \in SUBSET D : Fold(v)[s] = 0
<1> DEFINE S == {s \in SUBSET D : Fold(v)[s] = 0}
<1>9. \A s \in SUBSET D : s # {} =>
         OneOf(s) \in s /\ Fold(v)[s] = v[OneOf(s)] + Fold(v)[s \ {OneOf(s)}]
  BY FoldIs
<1>1. {} \in S
  BY FoldIs
<1>2. ASSUME NEW s \in SUBSET D, s # {}, \A x \in s : s \ {x} \in S PROVE s \in S
  <2>1. OneOf(s) \in s /\ Fold(v)[s] = v[OneOf(s)] + Fold(v)[s \ {OneOf(s)}]
    BY <1>2, <1>9
  <2>2. v[OneOf(s)] = 0 /\ Fold(v)[s \ {OneOf(s)}] = 0
    BY <1>2, <2>1
  <2> QED
    BY <2>1, <2>2
<1>3. SUBSET D \subseteq S
  <2> HIDE DEF S
  <2> QED
    BY <1>1, <1>2, SubsetsOneByOne
<1> QED
  BY <1>3

(* One element of a sum changes. *)
LEMMA SumChanges ==
  ASSUME NEW D, IsFiniteSet(D), NEW v \in [D -> Int], NEW w \in [D -> Int],
         NEW b \in D, \A x \in D \ {b} : v[x] = w[x]
  PROVE  Sum(w) = Sum(v) - v[b] + w[b] /\ Sum(v) \in Int /\ Sum(w) \in Int
<1>1. Sum(v) = v[b] + Fold(v)[D \ {b}] /\ Sum(w) = w[b] + Fold(w)[D \ {b}]
  <2>1. DOMAIN v = D /\ DOMAIN w = D /\ D \in SUBSET D
    OBVIOUS
  <2>2. Fold(v)[D] = v[b] + Fold(v)[D \ {b}] /\ Fold(w)[D] = w[b] + Fold(w)[D \ {b}]
    <3>1. \A x \in D : Fold(v)[D] = v[x] + Fold(v)[D \ {x}]
      BY <2>1, FoldAny DEF SplitsAnywhere
    <3>2. \A x \in D : Fold(w)[D] = w[x] + Fold(w)[D \ {x}]
      BY <2>1, FoldAny DEF SplitsAnywhere
    <3> QED
      BY <3>1, <3>2
  <2> QED
    BY <2>1, <2>2 DEF Sum
<1>2. Fold(v)[D \ {b}] = Fold(w)[D \ {b}] /\ Fold(v)[D \ {b}] \in Int
  BY FoldAgrees, FoldType
<1> QED
  BY <1>1, <1>2

(* The folds of the model. *)
LEMMA AllBytesIs ==
  ASSUME IsFiniteSet(Buckets), bytes \in [Buckets -> Int]
  PROVE  FQ!AllBytes = Sum(bytes)
<1>1. PICK g : IsFold(g, bytes)
  BY FoldExists
<1> QED
  BY FoldExists DEF FQ!AllBytes, FQ!FoldFunction, FQ!FoldFunctionOnSet, FQ!MapThenFoldSet, Sum, Fold, IsFold, OneOf

LEMMA FoldUnique ==
  ASSUME NEW D, IsFiniteSet(D), NEW v \in [D -> Int], NEW g, IsFold(g, v)
  PROVE  \A s \in SUBSET D : g[s] = Fold(v)[s]
<1> DEFINE S == {s \in SUBSET D : g[s] = Fold(v)[s]}
<1>1. \A s \in SUBSET D : g[s] = IF s = {} THEN 0 ELSE v[OneOf(s)] + g[s \ {OneOf(s)}]
  BY DEF IsFold
<1>2. \A s \in SUBSET D : s # {} =>
         OneOf(s) \in s /\ Fold(v)[s] = v[OneOf(s)] + Fold(v)[s \ {OneOf(s)}]
  BY FoldIs
<1>3. {} \in S
  BY <1>1, FoldIs
<1>4. ASSUME NEW s \in SUBSET D, s # {}, \A x \in s : s \ {x} \in S PROVE s \in S
  <2>1. OneOf(s) \in s /\ Fold(v)[s] = v[OneOf(s)] + Fold(v)[s \ {OneOf(s)}]
    BY <1>2, <1>4
  <2>2. g[s] = v[OneOf(s)] + g[s \ {OneOf(s)}]
    BY <1>1, <1>4
  <2>3. g[s \ {OneOf(s)}] = Fold(v)[s \ {OneOf(s)}]
    BY <1>4, <2>1
  <2> QED
    BY <2>1, <2>2, <2>3
<1>5. SUBSET D \subseteq S
  <2> HIDE DEF S
  <2> QED
    BY <1>3, <1>4, SubsetsOneByOne
<1> QED
  BY <1>5

-----------------------------------------------------------------------------
SizesOf(s) == [i \in DOMAIN s |-> s[i].size]

LEMMA BytesInIs ==
  ASSUME NEW s \in Seq(FQ!Packets), Sizes \subseteq Nat
  PROVE  /\ IsFiniteSet(DOMAIN s) /\ SizesOf(s) \in [DOMAIN s -> Nat]
         /\ FQ!BytesIn(s) = Sum(SizesOf(s))
<1>1. DOMAIN s = 1 .. Len(s) /\ Len(s) \in Nat
  OBVIOUS
<1>2. IsFiniteSet(DOMAIN s)
  BY <1>1, FS_Interval
<1>3. \A i \in DOMAIN s : s[i] \in FQ!Packets
  BY <1>1
<1>4. \A i \in DOMAIN s : s[i].size \in Nat
  BY <1>3 DEF FQ!Packets
<1>5. SizesOf(s) \in [DOMAIN s -> Nat]
  BY <1>4 DEF SizesOf
<1>6. SizesOf(s) \in [DOMAIN s -> Int]
  BY <1>5
<1> DEFINE Def(g) == [t \in SUBSET DOMAIN s |->
                        IF t = {} THEN 0 ELSE s[OneOf(t)].size + g[t \ {OneOf(t)}]]
<1>7. \A g : IsFold(g, SizesOf(s)) <=> g = Def(g)
  <2>1. DOMAIN SizesOf(s) = DOMAIN s
    BY DEF SizesOf
  <2>2. \A t \in SUBSET DOMAIN s : t # {} => SizesOf(s)[OneOf(t)] = s[OneOf(t)].size
    BY DEF OneOf, SizesOf
  <2>3. ASSUME NEW g
        PROVE  [t \in SUBSET DOMAIN s |->
                 IF t = {} THEN 0 ELSE SizesOf(s)[OneOf(t)] + g[t \ {OneOf(t)}]] = Def(g)
    BY <2>2
  <2> HIDE DEF Def
  <2> QED
    BY <2>1, <2>3 DEF IsFold
<1> DEFINE K == CHOOSE g : g = Def(g)
<1>8. K = Def(K)
  <2>1. \E g : IsFold(g, SizesOf(s))
    BY <1>2, <1>6, FoldExists
  <2> HIDE DEF Def
  <2> QED
    BY <1>7, <2>1
<1>9. FQ!BytesIn(s) = K[DOMAIN s]
  BY DEF FQ!BytesIn, FQ!FoldSeq, FQ!FoldFunction, FQ!FoldFunctionOnSet, FQ!MapThenFoldSet, OneOf
<1>10. K[DOMAIN s] = Fold(SizesOf(s))[DOMAIN s]
  <2>1. IsFold(K, SizesOf(s))
    BY <1>7, <1>8
  <2> HIDE DEF K
  <2> QED
    BY <1>2, <1>6, <2>1, FoldUnique
<1> QED
  BY <1>2, <1>5, <1>9, <1>10 DEF Sum

LEMMA BytesNatural ==
  ASSUME NEW s \in Seq(FQ!Packets), Sizes \subseteq Nat
  PROVE  FQ!BytesIn(s) \in Nat /\ (s = <<>> => FQ!BytesIn(s) = 0)
<1>1. /\ IsFiniteSet(DOMAIN s) /\ SizesOf(s) \in [DOMAIN s -> Nat]
      /\ FQ!BytesIn(s) = Sum(SizesOf(s))
  BY BytesInIs
<1>2. DOMAIN SizesOf(s) = DOMAIN s /\ DOMAIN s \in SUBSET DOMAIN s
  BY DEF SizesOf
<1>3. Fold(SizesOf(s))[DOMAIN s] \in Nat
  BY <1>1, <1>2, FoldNatural
<1>4. ASSUME s = <<>> PROVE FQ!BytesIn(s) = 0
  <2>1. DOMAIN s = {}
    BY <1>4
  <2>2. SizesOf(s) \in [{} -> Int] /\ IsFiniteSet({})
    BY <1>1, <2>1, FS_EmptySet
  <2>3. Fold(SizesOf(s))[{}] = 0
    BY <2>2, FoldIs
  <2> QED
    BY <1>1, <1>2, <2>1, <2>3 DEF Sum
<1> QED
  BY <1>1, <1>2, <1>3, <1>4 DEF Sum

LEMMA BytesAppend ==
  ASSUME NEW s \in Seq(FQ!Packets), NEW p \in FQ!Packets, Sizes \subseteq Nat
  PROVE  FQ!BytesIn(Append(s, p)) = FQ!BytesIn(s) + p.size
<1> DEFINE r == Append(s, p)
           v == SizesOf(s)
           w == SizesOf(r)
           top == Len(s) + 1
           A == 1 .. Len(s)
           B == 1 .. top
<1>1. r \in Seq(FQ!Packets) /\ DOMAIN s = A /\ DOMAIN r = B
  OBVIOUS
<1>2. r[top] = p /\ \A i \in A : r[i] = s[i]
  OBVIOUS
<1>3. top \in B /\ B \in SUBSET B /\ B \ {top} = A /\ A \subseteq B /\ A \in SUBSET A
  OBVIOUS
<1> HIDE DEF r, top, A, B
<1>4. /\ IsFiniteSet(A) /\ v \in [A -> Nat] /\ FQ!BytesIn(s) = Sum(v)
      /\ IsFiniteSet(B) /\ w \in [B -> Nat] /\ FQ!BytesIn(r) = Sum(w)
  BY <1>1, BytesInIs
<1>5. w[top] = p.size /\ \A i \in A : v[i] = w[i]
  BY <1>1, <1>2, <1>3 DEF SizesOf
<1> HIDE DEF v, w
<1>6. v \in [A -> Int] /\ w \in [B -> Int] /\ DOMAIN v = A /\ DOMAIN w = B
  BY <1>4
<1>7. Fold(w)[B] = w[top] + Fold(w)[B \ {top}]
  BY <1>3, <1>4, <1>6, FoldAny DEF SplitsAnywhere
<1>8. Fold(v)[A] = Fold(w)[A]
  BY <1>3, <1>4, <1>5, <1>6, FoldAgrees
<1>9. Fold(v)[A] \in Nat /\ w[top] \in Nat
  BY <1>3, <1>4, FoldNatural
<1>10. FQ!BytesIn(s) = Fold(v)[A] /\ FQ!BytesIn(r) = Fold(w)[B]
  BY <1>4, <1>6 DEF Sum
<1>11. Fold(w)[B \ {top}] = Fold(w)[A]
  BY <1>3
<1>12. FQ!BytesIn(r) = FQ!BytesIn(s) + p.size
  BY <1>5, <1>7, <1>8, <1>9, <1>10, <1>11
<1> QED
  BY <1>12 DEF r

(* A function on 1 .. n + 1, and the same from its second place on. *)
LEMMA ShiftedSum ==
  ASSUME NEW n \in Nat, NEW rest \in [1 .. n -> Nat], NEW whole \in [1 .. n + 1 -> Nat],
         \A i \in 1 .. n : rest[i] = whole[i + 1]
  PROVE  Sum(rest) \in Nat /\ whole[1] \in Nat /\ Sum(whole) = Sum(rest) + whole[1]
<1> DEFINE To(m) == 1 .. m
           A == To(n)
           B == To(n + 1)
<1>1. /\ rest \in [A -> Nat] /\ whole \in [B -> Nat]
      /\ \A i \in A : rest[i] = whole[i + 1]
  OBVIOUS
<1>2. IsFiniteSet(A) /\ IsFiniteSet(B)
  BY FS_Interval
<1>3. 1 \in B /\ B \in SUBSET B /\ A \in SUBSET A
  OBVIOUS
<1>4. ASSUME NEW m \in Nat, m <= n
      PROVE  To(m) \in SUBSET A /\ To(m + 1) \in SUBSET B
  BY <1>4
<1>5. ASSUME NEW m \in Nat, m + 1 <= n
      PROVE  m + 1 \in To(m + 1) /\ To(m + 1) \ {m + 1} = To(m) /\ m + 1 \in A
  <2>1. m + 1 \in To(m + 1) /\ m + 1 \in A
    BY <1>5
  <2>2. To(m + 1) \ {m + 1} = To(m)
    OBVIOUS
  <2> QED
    BY <2>1, <2>2
<1>6. ASSUME NEW m \in Nat
      PROVE  (m + 1) + 1 \in To((m + 1) + 1) /\ To((m + 1) + 1) \ {(m + 1) + 1} = To(m + 1)
  OBVIOUS
<1>7. To(0) = {} /\ To(0 + 1) = {1}
  OBVIOUS
<1> HIDE DEF To, A, B
<1>8. IsFiniteSet(A) /\ rest \in [A -> Nat] /\ IsFiniteSet(B) /\ whole \in [B -> Nat]
  BY <1>1, <1>2
<1>9. \A i \in A : rest[i] = whole[i + 1]
  BY <1>1
<1>10. rest \in [A -> Int] /\ whole \in [B -> Int] /\ DOMAIN rest = A /\ DOMAIN whole = B
  BY <1>8
<1>11. SplitsAnywhere(A, rest) /\ SplitsAnywhere(B, whole)
  <2>1. IsFiniteSet(A) /\ rest \in [A -> Int]
    BY <1>8, <1>10
  <2>2. IsFiniteSet(B) /\ whole \in [B -> Int]
    BY <1>8, <1>10
  <2>3. SplitsAnywhere(A, rest)
    BY <2>1, FoldAny
  <2>4. SplitsAnywhere(B, whole)
    BY <2>2, FoldAny
  <2> QED
    BY <2>3, <2>4
<1> DEFINE S == {m \in Nat : m <= n => Fold(rest)[To(m)] + whole[1] = Fold(whole)[To(m + 1)]}
<1>12. 0 \in S
  <2>1. Fold(rest)[{}] = 0 /\ Fold(whole)[{}] = 0
    BY <1>8, <1>10, FoldIs
  <2> DEFINE T == To(0 + 1)
  <2>2. T \in SUBSET B /\ 1 \in T /\ T \ {1} = {}
    BY <1>3, <1>7
  <2> HIDE DEF T
  <2>3. Fold(whole)[T] = whole[1] + Fold(whole)[T \ {1}]
    BY <1>11, <2>2 DEF SplitsAnywhere
  <2>4. whole[1] \in Nat
    BY <1>3, <1>8
  <2>5. Fold(rest)[To(0)] + whole[1] = Fold(whole)[To(0 + 1)]
    <3>1. Fold(rest)[To(0)] = 0 /\ Fold(whole)[T \ {1}] = 0
      BY <1>7, <2>1, <2>2
    <3>2. Fold(whole)[T] = whole[1]
      BY <2>3, <2>4, <3>1
    <3> QED
      BY <2>4, <3>1, <3>2 DEF T
  <2> QED
    BY <2>5
<1>13. ASSUME NEW m \in Nat, m \in S PROVE m + 1 \in S
  <2> SUFFICES ASSUME m + 1 <= n
               PROVE  Fold(rest)[To(m + 1)] + whole[1] = Fold(whole)[To((m + 1) + 1)]
    OBVIOUS
  <2>1. m <= n /\ m + 1 \in Nat
    OBVIOUS
  <2>2. Fold(rest)[To(m)] + whole[1] = Fold(whole)[To(m + 1)]
    BY <1>13, <2>1
  <2> HIDE DEF S
  <2>3. /\ To(m) \in SUBSET A /\ To(m + 1) \in SUBSET A
        /\ To(m + 1) \in SUBSET B /\ To((m + 1) + 1) \in SUBSET B
    BY <1>4, <2>1
  <2>4. Fold(rest)[To(m + 1)] = rest[m + 1] + Fold(rest)[To(m + 1) \ {m + 1}]
    <3>1. m + 1 \in To(m + 1) /\ To(m + 1) \in SUBSET A
      BY <1>5, <2>3
    <3> QED
      BY <1>11, <3>1 DEF SplitsAnywhere
  <2>5. Fold(whole)[To((m + 1) + 1)] = whole[(m + 1) + 1] + Fold(whole)[To((m + 1) + 1) \ {(m + 1) + 1}]
    <3>1. (m + 1) + 1 \in To((m + 1) + 1) /\ To((m + 1) + 1) \in SUBSET B
      BY <1>6, <2>3
    <3> QED
      BY <1>11, <3>1 DEF SplitsAnywhere
  <2>6. rest[m + 1] = whole[(m + 1) + 1] /\ rest[m + 1] \in Nat
    BY <1>5, <1>8, <1>9
  <2>7. Fold(rest)[To(m)] \in Nat /\ whole[1] \in Nat /\ Fold(whole)[To(m + 1)] \in Nat
    BY <1>3, <1>8, <2>3, FoldNatural
  <2>8. Fold(rest)[To(m + 1)] = rest[m + 1] + Fold(rest)[To(m)]
    BY <1>5, <2>4
  <2>9. Fold(whole)[To((m + 1) + 1)] = whole[(m + 1) + 1] + Fold(whole)[To(m + 1)]
    BY <1>6, <2>5
  <2> QED
    BY <2>2, <2>6, <2>7, <2>8, <2>9
<1>14. n \in S
  <2>1. Nat \subseteq S
    <3> HIDE DEF S
    <3> QED
      BY <1>12, <1>13, UpTo
  <2> QED
    BY <2>1
<1>15. Fold(rest)[A] + whole[1] = Fold(whole)[B]
  BY <1>14 DEF A, B
<1> HIDE DEF S
<1>16. Fold(rest)[A] \in Nat /\ whole[1] \in Nat
  BY <1>3, <1>8, FoldNatural
<1> QED
  BY <1>10, <1>15, <1>16 DEF Sum

LEMMA BytesTail ==
  ASSUME NEW s \in Seq(FQ!Packets), s # <<>>, Sizes \subseteq Nat
  PROVE  /\ FQ!BytesIn(Tail(s)) = FQ!BytesIn(s) - Head(s).size
         /\ Head(s) \in FQ!Packets /\ Tail(s) \in Seq(FQ!Packets)
<1> DEFINE r == Tail(s)
           n == Len(s) - 1
<1>1. r \in Seq(FQ!Packets) /\ n \in Nat /\ DOMAIN r = 1 .. n /\ DOMAIN s = 1 .. n + 1
  OBVIOUS
<1>2. /\ s[1] = Head(s) /\ Head(s) \in FQ!Packets
      /\ \A i \in 1 .. n : r[i] = s[i + 1] /\ i + 1 \in 1 .. n + 1
  OBVIOUS
<1> HIDE DEF r, n
<1>3. /\ SizesOf(r) \in [1 .. n -> Nat] /\ FQ!BytesIn(r) = Sum(SizesOf(r))
      /\ SizesOf(s) \in [1 .. n + 1 -> Nat] /\ FQ!BytesIn(s) = Sum(SizesOf(s))
  BY <1>1, BytesInIs
<1>4. 1 \in 1 .. n + 1
  BY <1>1
<1>5. SizesOf(s)[1] = Head(s).size /\ \A i \in 1 .. n : SizesOf(r)[i] = SizesOf(s)[i + 1]
  BY <1>1, <1>2, <1>4 DEF SizesOf
<1>6. /\ Sum(SizesOf(r)) \in Nat /\ SizesOf(s)[1] \in Nat
      /\ Sum(SizesOf(s)) = Sum(SizesOf(r)) + SizesOf(s)[1]
  BY <1>1, <1>3, <1>5, ShiftedSum
<1>7. FQ!BytesIn(r) = FQ!BytesIn(s) - Head(s).size
  BY <1>3, <1>5, <1>6
<1> QED
  BY <1>1, <1>2, <1>7 DEF r

(* Only the lengths count. *)
LEMMA BytesAged ==
  ASSUME NEW s \in Seq(FQ!Packets), NEW r \in Seq(FQ!Packets), Sizes \subseteq Nat,
         DOMAIN r = DOMAIN s, \A i \in DOMAIN s : r[i].size = s[i].size
  PROVE  FQ!BytesIn(r) = FQ!BytesIn(s)
<1>1. SizesOf(r) = SizesOf(s)
  BY DEF SizesOf
<1> QED
  BY <1>1, BytesInIs

-----------------------------------------------------------------------------
Turns == {"loop", "first drop", "dropping"}

(* What is queued, and counted. *)
QueuesCounted ==
  /\ queues \in [Buckets -> Seq(FQ!Packets)]
  /\ bytes = [b \in Buckets |-> FQ!BytesIn(queues[b])]
  /\ total = Sum(bytes)

(* The lists of flows. *)
FlowsListed ==
  /\ active \subseteq Buckets /\ inNew \subseteq active
  /\ newFlows \in Seq(Buckets) /\ oldFlows \in Seq(Buckets)
  /\ FQ!ToSet(newFlows) = inNew /\ FQ!ToSet(oldFlows) = active \ inNew
  /\ FQ!IsInjective(newFlows) /\ FQ!IsInjective(oldFlows)
  /\ \A b \in Buckets : queues[b] # <<>> => b \in active

Deficits == deficit \in [Buckets -> 1 - FQ!MaxSize .. Quantum]

CodelStates == [above : {FQ!Never} \union 0 .. Interval,
                dropNext : 0 .. Interval, dropping : BOOLEAN]

(* Whoever takes a packet holds the lock, and a flow whose packet CoDel    *)
(* dropped still has its turn, and another packet: CoDel drops none when   *)
(* no more than maxPacket would stay.                                      *)
TurnGoesOn ==
  /\ lock \in {"nobody", "enqueuer", "dequeuer"}
  /\ pc \in {"writing", "loop", "first drop", "dropping", "waiting", "ended"}
  /\ lock = "dequeuer" <=> pc \in Turns
  /\ pc \in {"first drop", "dropping"} =>
       FQ!HasNext /\ deficit[FQ!NextFlow] > 0 /\ queues[FQ!NextFlow] # <<>>
  /\ lock # "enqueuer" => total <= LimitBytes

(* While the first packet of the watched flow waits, the flows before it   *)
(* have no more than what is left of their quantum.                        *)
FirstWaits ==
  first =>
    /\ Watched \in inNew /\ queues[Watched] # <<>> /\ deficit[Watched] > 0
    /\ \A i, j \in DOMAIN newFlows :
         newFlows[j] = Watched /\ i < j =>
           /\ ahead[newFlows[i]] >= 0
           /\ ahead[newFlows[i]] + deficit[newFlows[i]] <= Quantum

Histories ==
  /\ first \in BOOLEAN
  /\ ahead \in [Buckets -> {FQ!Barred} \union 0 .. FQ!TooMuch]
  /\ FQ!NewFlowsComeFirst

OtherTypes ==
  /\ codel \in [Buckets -> CodelStates]
  /\ closed \in BOOLEAN /\ single \in BOOLEAN /\ batch \in Nat

FQIInv ==
  /\ QueuesCounted /\ FlowsListed /\ Deficits /\ TurnGoesOn
  /\ FirstWaits /\ Histories /\ OtherTypes

LEMMA FQConstants ==
  /\ IsFiniteSet(Buckets) /\ Watched \in Buckets
  /\ Sizes \subseteq Nat \ {0} /\ Sizes \subseteq Nat
  /\ FQ!MaxSize \in Sizes /\ (\A m \in Sizes : m <= FQ!MaxSize)
  /\ FQ!MaxSize \in Nat \ {0}
  /\ Quantum \in Nat \ {0} /\ LimitBytes \in Nat \ {0}
  /\ Target \in Nat \ {0} /\ Interval \in Nat \ {0}
  /\ MaxPacket \in Nat /\ MaxBatch \in Nat
<1>1. /\ FQ!IsFiniteSet(Buckets) /\ Watched \in Buckets
      /\ Sizes \subseteq Nat \ {0}
      /\ \E n \in Sizes : \A m \in Sizes : m <= n
      /\ Quantum \in Nat \ {0} /\ LimitBytes \in Nat \ {0}
      /\ Target \in Nat \ {0} /\ Interval \in Nat \ {0}
      /\ MaxPacket \in Nat /\ MaxBatch \in Nat
  BY FairQueueAssumption DEF FQ!SchedulerAssumption
<1>2. IsFiniteSet(Buckets)
  BY <1>1 DEF FQ!IsFiniteSet, IsFiniteSet
<1>3. FQ!MaxSize \in Sizes /\ (\A m \in Sizes : m <= FQ!MaxSize)
  BY <1>1 DEF FQ!MaxSize
<1> QED
  BY <1>1, <1>2, <1>3

-----------------------------------------------------------------------------
(* Queues, and the bytes in them. *)
LEMMA BytesFinite ==
  ASSUME QueuesCounted
  PROVE  bytes \in [Buckets -> Nat] /\ total \in Nat
<1>1. \A b \in Buckets : FQ!BytesIn(queues[b]) \in Nat
  BY FQConstants, BytesNatural DEF QueuesCounted
<1>2. bytes \in [Buckets -> Nat]
  BY <1>1 DEF QueuesCounted
<1>3. DOMAIN bytes = Buckets /\ Buckets \in SUBSET Buckets
  BY <1>2
<1>4. Fold(bytes)[Buckets] \in Nat
  BY <1>2, <1>3, FQConstants, FoldNatural
<1> QED
  BY <1>2, <1>3, <1>4 DEF QueuesCounted, Sum

LEMMA QueueChanges ==
  ASSUME QueuesCounted, NEW b \in Buckets, NEW s \in Seq(FQ!Packets),
         queues' = [queues EXCEPT ![b] = s],
         bytes' = [bytes EXCEPT ![b] = FQ!BytesIn(s)],
         total' = total - FQ!BytesIn(queues[b]) + FQ!BytesIn(s)
  PROVE  QueuesCounted'
<1>1. bytes \in [Buckets -> Int] /\ total \in Nat
  BY BytesFinite
<1>2. FQ!BytesIn(s) \in Nat
  BY FQConstants, BytesNatural
<1>3. bytes' \in [Buckets -> Int] /\ bytes'[b] = FQ!BytesIn(s)
  BY <1>1, <1>2
<1>9. \A c \in Buckets \ {b} : bytes[c] = bytes'[c]
  BY <1>1
<1>10. IsFiniteSet(Buckets)
  BY FQConstants
<1>4. bytes[b] = FQ!BytesIn(queues[b])
  BY DEF QueuesCounted
<1>5. Sum(bytes') = Sum(bytes) - bytes[b] + bytes'[b]
  <2>1. bytes \in [Buckets -> Int]
    BY <1>1
  <2>2. bytes' \in [Buckets -> Int]
    BY <1>3
  <2>3. PICK w \in [Buckets -> Int] : w = bytes'
    BY <2>2
  <2>4. \A c \in Buckets \ {b} : bytes[c] = w[c]
    BY <1>9, <2>3
  <2>5. Sum(w) = Sum(bytes) - bytes[b] + w[b]
    BY <1>10, <2>1, <2>4, SumChanges
  <2> QED
    BY <2>3, <2>5
<1>6. total' = Sum(bytes')
  BY <1>3, <1>4, <1>5 DEF QueuesCounted
<1>7. queues' \in [Buckets -> Seq(FQ!Packets)] /\ queues'[b] = s
      /\ \A c \in Buckets : c # b => queues'[c] = queues[c]
  BY DEF QueuesCounted
<1>8. bytes' = [c \in Buckets |-> FQ!BytesIn(queues'[c])]
  BY <1>1, <1>2, <1>7 DEF QueuesCounted
<1> QED
  BY <1>6, <1>7, <1>8 DEF QueuesCounted, Sum, Fold, IsFold

LEMMA QueuePops ==
  ASSUME QueuesCounted, NEW b \in Buckets, queues[b] # <<>>, FQ!PopHead(b)
  PROVE  /\ QueuesCounted' /\ total' < total
         /\ Head(queues[b]) \in FQ!Packets
         /\ \A c \in Buckets : c # b => queues'[c] = queues[c]
<1>1. queues[b] \in Seq(FQ!Packets)
  BY DEF QueuesCounted
<1>2. /\ FQ!BytesIn(Tail(queues[b])) = FQ!BytesIn(queues[b]) - Head(queues[b]).size
      /\ Head(queues[b]) \in FQ!Packets /\ Tail(queues[b]) \in Seq(FQ!Packets)
  BY <1>1, FQConstants, BytesTail
<1>3. Head(queues[b]).size \in Nat \ {0}
  BY <1>2, FQConstants DEF FQ!Packets
<1>4. FQ!BytesIn(queues[b]) \in Nat /\ total \in Nat /\ bytes[b] = FQ!BytesIn(queues[b])
  BY <1>1, FQConstants, BytesNatural, BytesFinite DEF QueuesCounted
<1>5. /\ queues' = [queues EXCEPT ![b] = Tail(queues[b])]
      /\ bytes' = [bytes EXCEPT ![b] = FQ!BytesIn(Tail(queues[b]))]
      /\ total' = total - FQ!BytesIn(queues[b]) + FQ!BytesIn(Tail(queues[b]))
  <2>1. queues' = [queues EXCEPT ![b] = Tail(queues[b])]
    BY DEF FQ!PopHead
  <2>2. bytes' = [bytes EXCEPT ![b] = FQ!BytesIn(Tail(queues[b]))]
    BY <1>2, <1>4 DEF FQ!PopHead
  <2>3. total' = total - Head(queues[b]).size
    BY DEF FQ!PopHead
  <2> QED
    BY <1>2, <1>3, <1>4, <2>1, <2>2, <2>3
<1>6. QueuesCounted'
  BY <1>2, <1>5, QueueChanges
<1> QED
  <2>1. total' < total
    BY <1>3, <1>4 DEF FQ!PopHead
  <2>2. \A c \in Buckets : c # b => queues'[c] = queues[c]
    BY <1>5 DEF QueuesCounted
  <2> QED
    BY <1>2, <1>6, <2>1, <2>2

LEMMA QueueGrows ==
  ASSUME QueuesCounted, NEW b \in Buckets, NEW n \in Sizes, NEW p, p = [size |-> n, age |-> 0],
         queues' = [queues EXCEPT ![b] = Append(@, p)],
         bytes' = [bytes EXCEPT ![b] = @ + n],
         total' = total + n
  PROVE  /\ QueuesCounted' /\ queues'[b] # <<>>
         /\ \A c \in Buckets : c # b => queues'[c] = queues[c]
<1>1. queues[b] \in Seq(FQ!Packets) /\ bytes[b] = FQ!BytesIn(queues[b])
  BY DEF QueuesCounted
<1>2. p \in FQ!Packets /\ p.size = n /\ n \in Nat
  BY FQConstants DEF FQ!Packets
<1>3. FQ!BytesIn(Append(queues[b], p)) = FQ!BytesIn(queues[b]) + n
  BY <1>1, <1>2, FQConstants, BytesAppend
<1>4. FQ!BytesIn(queues[b]) \in Nat /\ total \in Nat
  BY <1>1, FQConstants, BytesNatural, BytesFinite
<1>5. Append(queues[b], p) \in Seq(FQ!Packets) /\ Append(queues[b], p) # <<>>
  BY <1>1, <1>2
<1>6. /\ queues' = [queues EXCEPT ![b] = Append(queues[b], p)]
      /\ bytes' = [bytes EXCEPT ![b] = FQ!BytesIn(Append(queues[b], p))]
      /\ total' = total - FQ!BytesIn(queues[b]) + FQ!BytesIn(Append(queues[b], p))
  <2>1. queues' = [queues EXCEPT ![b] = Append(queues[b], p)]
    OBVIOUS
  <2>2. bytes' = [bytes EXCEPT ![b] = FQ!BytesIn(Append(queues[b], p))]
    BY <1>1, <1>3
  <2>3. total' = total - FQ!BytesIn(queues[b]) + FQ!BytesIn(Append(queues[b], p))
    BY <1>2, <1>3, <1>4
  <2> QED
    BY <2>1, <2>2, <2>3
<1>7. QueuesCounted'
  BY <1>5, <1>6, QueueChanges
<1> QED
  BY <1>5, <1>6, <1>7 DEF QueuesCounted

-----------------------------------------------------------------------------
LEMMA TailOfList ==
  ASSUME NEW S, NEW s \in Seq(S), s # <<>>, FQ!IsInjective(s)
  PROVE  /\ Tail(s) \in Seq(S) /\ Head(s) \in S /\ Head(s) \in FQ!ToSet(s)
         /\ Head(s) = s[1] /\ 1 \in DOMAIN s
         /\ FQ!ToSet(Tail(s)) = FQ!ToSet(s) \ {Head(s)}
         /\ FQ!IsInjective(Tail(s))
         /\ \A i \in DOMAIN Tail(s) : i + 1 \in DOMAIN s /\ Tail(s)[i] = s[i + 1] /\ i \in Nat
         /\ FQ!RemoveFirst(s, Head(s)) = Tail(s)
<1>1. /\ Tail(s) \in Seq(S) /\ Head(s) \in S /\ Head(s) = s[1] /\ Len(s) \in Nat /\ Len(s) >= 1
      /\ DOMAIN s = 1 .. Len(s) /\ DOMAIN Tail(s) = 1 .. Len(s) - 1
      /\ \A i \in 1 .. Len(s) - 1 : Tail(s)[i] = s[i + 1]
  OBVIOUS
<1>2. \A i, j \in 1 .. Len(s) : s[i] = s[j] => i = j
  BY <1>1 DEF FQ!IsInjective
<1>3. FQ!ToSet(s) = {s[i] : i \in 1 .. Len(s)}
  BY <1>1 DEF FQ!ToSet
<1>4. FQ!ToSet(Tail(s)) = {s[i + 1] : i \in 1 .. Len(s) - 1}
  BY <1>1 DEF FQ!ToSet
<1>5. FQ!ToSet(Tail(s)) = FQ!ToSet(s) \ {Head(s)}
  <2>1. ASSUME NEW e \in FQ!ToSet(Tail(s)) PROVE e \in FQ!ToSet(s) \ {Head(s)}
    <3>1. PICK i \in 1 .. Len(s) - 1 : e = s[i + 1]
      BY <1>4
    <3>2. i + 1 \in 1 .. Len(s) /\ i + 1 # 1 /\ 1 \in 1 .. Len(s)
      BY <1>1
    <3> QED
      BY <1>1, <1>2, <1>3, <3>1, <3>2
  <2>2. ASSUME NEW e \in FQ!ToSet(s) \ {Head(s)} PROVE e \in FQ!ToSet(Tail(s))
    <3>1. PICK i \in 1 .. Len(s) : e = s[i]
      BY <1>3
    <3>2. i - 1 \in 1 .. Len(s) - 1 /\ (i - 1) + 1 = i
      BY <1>1, <2>2, <3>1
    <3> QED
      BY <1>4, <3>1, <3>2
  <2> QED
    BY <2>1, <2>2
<1>6. FQ!IsInjective(Tail(s))
  <2> SUFFICES ASSUME NEW i \in 1 .. Len(s) - 1, NEW j \in 1 .. Len(s) - 1, s[i + 1] = s[j + 1]
               PROVE  i = j
    BY <1>1 DEF FQ!IsInjective
  <2>1. i + 1 \in 1 .. Len(s) /\ j + 1 \in 1 .. Len(s)
    BY <1>1
  <2>2. i + 1 = j + 1
    BY <1>2, <2>1
  <2> QED
    BY <2>2
<1>7. FQ!RemoveFirst(s, Head(s)) = Tail(s)
  <2>1. 1 \in 1 .. Len(s)
    BY <1>1
  <2>2. {i \in 1 .. Len(s) : s[i] = Head(s)} = {1}
    BY <1>1, <1>2, <2>1
  <2>3. FQ!Min({1}) = 1
    BY DEF FQ!Min
  <2>4. FQ!SelectInSeq(s, LAMBDA v : v = Head(s)) = 1
    BY <2>2, <2>3 DEF FQ!SelectInSeq
  <2>5. FQ!RemoveFirst(s, Head(s)) = FQ!RemoveAt(s, 1)
    BY <1>1, <2>1, <2>4 DEF FQ!RemoveFirst
  <2>6. SubSeq(s, 1, 0) = <<>> /\ SubSeq(s, 2, Len(s)) = Tail(s)
    BY <1>1
  <2>7. <<>> \o Tail(s) = Tail(s)
    BY <1>1
  <2> QED
    BY <2>5, <2>6, <2>7 DEF FQ!RemoveAt
<1>8. Head(s) \in FQ!ToSet(s) /\ 1 \in DOMAIN s
  BY <1>1, <1>3
<1> QED
  BY <1>1, <1>5, <1>6, <1>7, <1>8

LEMMA ListGrows ==
  ASSUME NEW S, NEW s \in Seq(S), FQ!IsInjective(s), NEW e \in S, e \notin FQ!ToSet(s)
  PROVE  /\ Append(s, e) \in Seq(S)
         /\ FQ!ToSet(Append(s, e)) = FQ!ToSet(s) \union {e}
         /\ FQ!IsInjective(Append(s, e))
         /\ Len(s) \in Nat /\ DOMAIN s = 1 .. Len(s) /\ DOMAIN Append(s, e) = 1 .. Len(s) + 1
         /\ (\A i \in 1 .. Len(s) : Append(s, e)[i] = s[i] /\ s[i] \in FQ!ToSet(s))
         /\ Append(s, e)[Len(s) + 1] = e
<1> DEFINE r == Append(s, e)
           n == Len(s)
<1>1. /\ r \in Seq(S) /\ n \in Nat /\ DOMAIN s = 1 .. n /\ DOMAIN r = 1 .. n + 1
      /\ (\A i \in 1 .. n : r[i] = s[i]) /\ r[n + 1] = e
  OBVIOUS
<1> HIDE DEF r, n
<1>2. \A i \in 1 .. n : s[i] \in FQ!ToSet(s)
  BY <1>1 DEF FQ!ToSet
<1>3. FQ!ToSet(r) = FQ!ToSet(s) \union {e}
  BY <1>1 DEF FQ!ToSet
<1>4. FQ!IsInjective(r)
  <2> SUFFICES ASSUME NEW i \in 1 .. n + 1, NEW j \in 1 .. n + 1, r[i] = r[j] PROVE i = j
    BY <1>1 DEF FQ!IsInjective
  <2>1. \A k1 \in 1 .. n + 1 : k1 \in 1 .. n \/ k1 = n + 1
    BY <1>1
  <2>2. \A k1, k2 \in 1 .. n : s[k1] = s[k2] => k1 = k2
    BY <1>1 DEF FQ!IsInjective
  <2> QED
    BY <1>1, <1>2, <2>1, <2>2
<1> QED
  BY <1>1, <1>2, <1>3, <1>4 DEF r, n

LEMMA NextFlowIs ==
  ASSUME FlowsListed, FQ!HasNext, NEW b, b = FQ!NextFlow
  PROVE  /\ b \in active /\ b \in Buckets
         /\ newFlows # <<>> => /\ b \in inNew /\ b = newFlows[1]
                               /\ FQ!NewWithout(b) = Tail(newFlows) /\ FQ!OldWithout(b) = oldFlows
         /\ newFlows = <<>> => /\ b \notin inNew /\ oldFlows # <<>> /\ b = Head(oldFlows)
                               /\ FQ!NewWithout(b) = newFlows
                               /\ FQ!OldWithout(b) = Tail(oldFlows)
<1>1. CASE newFlows # <<>>
  <2>1. b = Head(newFlows)
    BY <1>1 DEF FQ!NextFlow
  <2>2. /\ b \in inNew /\ b = newFlows[1] /\ b \in Buckets
        /\ FQ!RemoveFirst(newFlows, b) = Tail(newFlows)
    BY <1>1, <2>1, TailOfList DEF FlowsListed
  <2> QED
    BY <1>1, <2>2 DEF FQ!NewWithout, FQ!OldWithout, FlowsListed
<1>2. CASE newFlows = <<>>
  <2>1. b = Head(oldFlows) /\ oldFlows # <<>>
    BY <1>2 DEF FQ!NextFlow, FQ!HasNext
  <2>2. /\ b \in active \ inNew /\ b \in Buckets
        /\ FQ!RemoveFirst(oldFlows, b) = Tail(oldFlows)
    BY <2>1, TailOfList DEF FlowsListed
  <2> QED
    BY <1>2, <2>1, <2>2 DEF FQ!NewWithout, FQ!OldWithout
<1> QED
  BY <1>1, <1>2

LEMMA MoveKeepsLists ==
  ASSUME FlowsListed, FQ!HasNext, NEW b, b = FQ!NextFlow, FQ!moveToOld(b), queues' = queues
  PROVE  /\ FlowsListed'
         /\ newFlows' = IF newFlows # <<>> THEN Tail(newFlows) ELSE newFlows
         /\ inNew' = inNew \ {b} /\ active' = active
<1>1. /\ newFlows' = FQ!NewWithout(b) /\ oldFlows' = Append(FQ!OldWithout(b), b)
      /\ inNew' = inNew \ {b} /\ active' = active
  BY DEF FQ!moveToOld
<1>2. b \in active /\ b \in Buckets
  BY NextFlowIs
<1>3. CASE newFlows # <<>>
  <2>1. b \in inNew /\ newFlows' = Tail(newFlows) /\ oldFlows' = Append(oldFlows, b)
    BY <1>1, <1>3, NextFlowIs
  <2>2. /\ Tail(newFlows) \in Seq(Buckets) /\ FQ!IsInjective(Tail(newFlows))
        /\ FQ!ToSet(Tail(newFlows)) = inNew \ {b}
    BY <1>3, TailOfList DEF FlowsListed, FQ!NextFlow
  <2>3. /\ Append(oldFlows, b) \in Seq(Buckets) /\ FQ!IsInjective(Append(oldFlows, b))
        /\ FQ!ToSet(Append(oldFlows, b)) = (active \ inNew) \union {b}
    BY <1>2, <2>1, ListGrows DEF FlowsListed
  <2>4. (active \ inNew) \union {b} = active' \ inNew'
    BY <1>1, <1>2, <2>1 DEF FlowsListed
  <2> QED
    BY <1>1, <1>3, <2>1, <2>2, <2>3, <2>4 DEF FlowsListed, FQ!ToSet, FQ!IsInjective
<1>4. CASE newFlows = <<>>
  <2>1. b \notin inNew /\ newFlows' = newFlows /\ oldFlows' = Append(Tail(oldFlows), b)
        /\ oldFlows # <<>> /\ b = Head(oldFlows)
    BY <1>1, <1>4, NextFlowIs
  <2>2. /\ Tail(oldFlows) \in Seq(Buckets) /\ FQ!IsInjective(Tail(oldFlows))
        /\ FQ!ToSet(Tail(oldFlows)) = (active \ inNew) \ {b}
    BY <2>1, TailOfList DEF FlowsListed
  <2>3. /\ Append(Tail(oldFlows), b) \in Seq(Buckets) /\ FQ!IsInjective(Append(Tail(oldFlows), b))
        /\ FQ!ToSet(Append(Tail(oldFlows), b)) = ((active \ inNew) \ {b}) \union {b}
    <3> DEFINE rest == Tail(oldFlows)
    <3>1. /\ rest \in Seq(Buckets) /\ FQ!IsInjective(rest)
          /\ FQ!ToSet(rest) = (active \ inNew) \ {b} /\ b \notin FQ!ToSet(rest)
      BY <2>2
    <3> HIDE DEF rest
    <3>2. /\ Append(rest, b) \in Seq(Buckets) /\ FQ!IsInjective(Append(rest, b))
          /\ FQ!ToSet(Append(rest, b)) = FQ!ToSet(rest) \union {b}
      BY <1>2, <3>1, ListGrows
    <3> QED
      BY <3>1, <3>2 DEF rest
  <2>4. ((active \ inNew) \ {b}) \union {b} = active' \ inNew' /\ inNew' = inNew
    BY <1>1, <1>2, <2>1
  <2> QED
    BY <1>1, <1>4, <2>1, <2>2, <2>3, <2>4 DEF FlowsListed, FQ!ToSet, FQ!IsInjective
<1> QED
  BY <1>3, <1>4

LEMMA DeactivateKeepsLists ==
  ASSUME FlowsListed, FQ!HasNext, NEW b, b = FQ!NextFlow, FQ!deactivate(b), queues' = queues,
         queues[b] = <<>>
  PROVE  /\ FlowsListed'
         /\ newFlows' = IF newFlows # <<>> THEN Tail(newFlows) ELSE newFlows
         /\ inNew' = inNew \ {b}
<1>1. /\ newFlows' = FQ!NewWithout(b) /\ oldFlows' = FQ!OldWithout(b)
      /\ inNew' = inNew \ {b} /\ active' = active \ {b}
  BY DEF FQ!deactivate
<1>2. b \in active /\ b \in Buckets
  BY NextFlowIs
<1>3. /\ active' \subseteq Buckets /\ inNew' \subseteq active'
      /\ \A c \in Buckets : queues'[c] # <<>> => c \in active'
  BY <1>1 DEF FlowsListed
<1>4. CASE newFlows # <<>>
  <2>1. b \in inNew /\ newFlows' = Tail(newFlows) /\ oldFlows' = oldFlows
    BY <1>1, <1>4, NextFlowIs
  <2>2. /\ Tail(newFlows) \in Seq(Buckets) /\ FQ!IsInjective(Tail(newFlows))
        /\ FQ!ToSet(Tail(newFlows)) = inNew \ {b}
    BY <1>4, TailOfList DEF FlowsListed, FQ!NextFlow
  <2>3. active \ inNew = active' \ inNew'
    BY <1>1, <2>1 DEF FlowsListed
  <2> QED
    BY <1>1, <1>3, <1>4, <2>1, <2>2, <2>3 DEF FlowsListed, FQ!ToSet, FQ!IsInjective
<1>5. CASE newFlows = <<>>
  <2>1. /\ b \notin inNew /\ newFlows' = newFlows /\ oldFlows' = Tail(oldFlows)
        /\ oldFlows # <<>> /\ b = Head(oldFlows)
    BY <1>1, <1>5, NextFlowIs
  <2>2. /\ Tail(oldFlows) \in Seq(Buckets) /\ FQ!IsInjective(Tail(oldFlows))
        /\ FQ!ToSet(Tail(oldFlows)) = (active \ inNew) \ {b}
    BY <2>1, TailOfList DEF FlowsListed
  <2>3. (active \ inNew) \ {b} = active' \ inNew' /\ inNew' = inNew
    BY <1>1, <2>1
  <2> QED
    BY <1>1, <1>3, <1>5, <2>1, <2>2, <2>3 DEF FlowsListed, FQ!ToSet, FQ!IsInjective
<1> QED
  BY <1>4, <1>5

LEMMA ActivateKeepsLists ==
  ASSUME FlowsListed, NEW b \in Buckets, b \notin active, FQ!Activate(b),
         \A c \in Buckets : c # b => queues'[c] = queues[c]
  PROVE  FlowsListed'
<1>1. /\ active' = active \union {b} /\ inNew' = inNew \union {b}
      /\ newFlows' = Append(newFlows, b) /\ oldFlows' = oldFlows
  BY DEF FQ!Activate
<1>2. b \notin FQ!ToSet(newFlows)
  BY DEF FlowsListed
<1>3. /\ Append(newFlows, b) \in Seq(Buckets) /\ FQ!IsInjective(Append(newFlows, b))
      /\ FQ!ToSet(Append(newFlows, b)) = inNew \union {b}
  BY <1>2, ListGrows DEF FlowsListed
<1>4. active \ inNew = active' \ inNew'
  BY <1>1
<1>5. /\ active' \subseteq Buckets /\ inNew' \subseteq active'
      /\ \A c \in Buckets : queues'[c] # <<>> => c \in active'
  BY <1>1 DEF FlowsListed
<1> QED
  BY <1>1, <1>3, <1>4, <1>5 DEF FlowsListed, FQ!ToSet, FQ!IsInjective

LEMMA SameLists ==
  ASSUME FlowsListed, UNCHANGED <<active, inNew, newFlows, oldFlows>>,
         \A c \in Buckets : queues'[c] # <<>> => queues[c] # <<>> \/ c \in active
  PROVE  FlowsListed'
BY DEF FlowsListed, FQ!ToSet, FQ!IsInjective

-----------------------------------------------------------------------------
(* The flows before the watched one, when lists change. *)
LEMMA HeadLeaves ==
  ASSUME FlowsListed, FirstWaits, FQ!HasNext, NEW b, b = FQ!NextFlow,
         first => b # Watched,
         newFlows' = (IF newFlows # <<>> THEN Tail(newFlows) ELSE newFlows),
         inNew' = inNew \ {b}, queues' = queues, UNCHANGED <<first, ahead>>,
         \A c \in Buckets : c # b => deficit'[c] = deficit[c]
  PROVE  FirstWaits'
<1> SUFFICES ASSUME first PROVE FirstWaits'
  BY DEF FirstWaits
<1>1. /\ Watched \in inNew /\ queues[Watched] # <<>> /\ deficit[Watched] > 0
      /\ \A i, j \in DOMAIN newFlows :
           newFlows[j] = Watched /\ i < j =>
             /\ ahead[newFlows[i]] >= 0
             /\ ahead[newFlows[i]] + deficit[newFlows[i]] <= Quantum
  BY DEF FirstWaits
<1>2. newFlows # <<>>
  BY <1>1 DEF FlowsListed, FQ!ToSet
<1>3. /\ newFlows' = Tail(newFlows) /\ b = newFlows[1] /\ 1 \in DOMAIN newFlows
      /\ \A i \in DOMAIN Tail(newFlows) : /\ i + 1 \in DOMAIN newFlows /\ i \in Nat
                                         /\ Tail(newFlows)[i] = newFlows[i + 1]
  BY <1>2, TailOfList DEF FlowsListed, FQ!NextFlow
<1>4. Watched \in inNew' /\ queues'[Watched] # <<>> /\ deficit'[Watched] > 0
  BY <1>1, FQConstants
<1>5. ASSUME NEW i \in DOMAIN newFlows', NEW j \in DOMAIN newFlows',
             newFlows'[j] = Watched, i < j
      PROVE  /\ ahead'[newFlows'[i]] >= 0
             /\ ahead'[newFlows'[i]] + deficit'[newFlows'[i]] <= Quantum
  <2>1. /\ i + 1 \in DOMAIN newFlows /\ j + 1 \in DOMAIN newFlows /\ i \in Nat /\ j \in Nat
        /\ newFlows'[i] = newFlows[i + 1] /\ newFlows[j + 1] = Watched
    BY <1>3, <1>5
  <2>2. newFlows[i + 1] # b /\ newFlows[i + 1] \in Buckets
    <3>1. i + 1 # 1
      BY <2>1
    <3> QED
      BY <1>3, <2>1, <3>1 DEF FlowsListed, FQ!IsInjective
  <2>3. i + 1 < j + 1
    BY <1>5, <2>1
  <2>4. /\ ahead[newFlows[i + 1]] >= 0
        /\ ahead[newFlows[i + 1]] + deficit[newFlows[i + 1]] <= Quantum
    BY <1>1, <2>1, <2>3
  <2>5. deficit'[newFlows[i + 1]] = deficit[newFlows[i + 1]] /\ ahead' = ahead
    BY <2>2
  <2> QED
    BY <2>1, <2>4, <2>5
<1> QED
  BY <1>4, <1>5 DEF FirstWaits

-----------------------------------------------------------------------------
(* A flow that was idle comes behind the new ones. *)
LEMMA ActivateKeepsTurns ==
  ASSUME FlowsListed, FirstWaits, Histories, Deficits, NEW b \in Buckets, b \notin active,
         FQ!Activate(b), queues'[b] # <<>>,
         \A c \in Buckets : c # b => queues'[c] = queues[c]
  PROVE  FirstWaits' /\ Histories' /\ Deficits'
<1>1. /\ inNew' = inNew \union {b} /\ newFlows' = Append(newFlows, b)
      /\ deficit' = [deficit EXCEPT ![b] = Quantum]
  BY DEF FQ!Activate
<1>2. Quantum \in Nat \ {0} /\ FQ!MaxSize \in Nat \ {0} /\ Watched \in Buckets
  BY FQConstants
<1>3. Deficits' /\ deficit'[b] = Quantum /\ \A c \in Buckets \ {b} : deficit'[c] = deficit[c]
  BY <1>1, <1>2 DEF Deficits, FQ!MaxSize
<1>4. b \notin FQ!ToSet(newFlows) /\ FQ!ToSet(newFlows) = inNew /\ newFlows \in Seq(Buckets)
      /\ inNew \subseteq Buckets /\ b \notin inNew
  BY DEF FlowsListed
<1> DEFINE n == Len(newFlows)
<1>5. /\ n \in Nat /\ DOMAIN newFlows = 1 .. n /\ DOMAIN newFlows' = 1 .. n + 1
      /\ \A i \in 1 .. n : newFlows'[i] = newFlows[i] /\ newFlows[i] \in inNew
      /\ newFlows'[n + 1] = b
  <2>1. FQ!IsInjective(newFlows)
    BY DEF FlowsListed
  <2> QED
    BY <1>1, <1>4, <2>1, ListGrows
<1> HIDE DEF n
<1>6. CASE b = Watched
  <2>1. first' = TRUE /\ ahead' = [c \in Buckets |-> IF c \in inNew THEN 0 ELSE FQ!Barred]
    BY <1>6 DEF FQ!Activate
  <2>2. Histories'
    <3>1. ahead' \in [Buckets -> {FQ!Barred} \union 0 .. FQ!TooMuch]
      BY <1>2, <2>1 DEF FQ!TooMuch
    <3>2. \A c \in Buckets : ahead'[c] < FQ!TooMuch
      BY <1>2, <2>1 DEF FQ!TooMuch, FQ!Barred
    <3> QED
      BY <2>1, <3>1, <3>2 DEF Histories, FQ!NewFlowsComeFirst, FQ!TooMuch, FQ!MaxSize
  <2>3. ASSUME NEW i \in DOMAIN newFlows', NEW j \in DOMAIN newFlows',
               newFlows'[j] = Watched, i < j
        PROVE  ahead'[newFlows'[i]] >= 0 /\ ahead'[newFlows'[i]] + deficit'[newFlows'[i]] <= Quantum
    <3>1. i \in 1 .. n
      BY <1>5, <2>3
    <3>2. newFlows'[i] \in inNew /\ newFlows'[i] \in Buckets \ {b}
      BY <1>4, <1>5, <3>1
    <3>3. ahead'[newFlows'[i]] = 0 /\ deficit'[newFlows'[i]] = deficit[newFlows'[i]]
      BY <1>3, <2>1, <3>2
    <3>4. deficit[newFlows'[i]] \in 1 - FQ!MaxSize .. Quantum
      BY <3>2 DEF Deficits
    <3> QED
      BY <1>2, <3>3, <3>4
  <2>4. Watched \in inNew' /\ queues'[Watched] # <<>> /\ deficit'[Watched] > 0
    BY <1>1, <1>2, <1>3, <1>6
  <2> QED
    BY <1>3, <2>2, <2>3, <2>4 DEF FirstWaits
<1>7. CASE b # Watched
  <2>1. first' = first /\ ahead' = ahead
    BY <1>7 DEF FQ!Activate, FQ!histVars
  <2>2. Histories'
    BY <2>1 DEF Histories, FQ!NewFlowsComeFirst, FQ!TooMuch, FQ!MaxSize
  <2>3. FirstWaits'
    <3> SUFFICES ASSUME first PROVE FirstWaits'
      BY <2>1 DEF FirstWaits
    <3>1. /\ Watched \in inNew /\ queues[Watched] # <<>> /\ deficit[Watched] > 0
          /\ \A i, j \in DOMAIN newFlows :
               newFlows[j] = Watched /\ i < j =>
                 /\ ahead[newFlows[i]] >= 0
                 /\ ahead[newFlows[i]] + deficit[newFlows[i]] <= Quantum
      BY DEF FirstWaits
    <3>2. Watched \in inNew' /\ queues'[Watched] # <<>> /\ deficit'[Watched] > 0
      BY <1>1, <1>2, <1>3, <1>7, <3>1
    <3>3. ASSUME NEW i \in DOMAIN newFlows', NEW j \in DOMAIN newFlows',
                 newFlows'[j] = Watched, i < j
          PROVE  /\ ahead'[newFlows'[i]] >= 0
                 /\ ahead'[newFlows'[i]] + deficit'[newFlows'[i]] <= Quantum
      <4>1. j # n + 1
        BY <1>5, <1>7, <3>3
      <4>2. i \in 1 .. n /\ j \in 1 .. n
        BY <1>5, <3>3, <4>1
      <4>3. newFlows'[i] = newFlows[i] /\ newFlows[j] = Watched /\ newFlows[i] \in Buckets \ {b}
        BY <1>4, <1>5, <3>3, <4>2
      <4>4. /\ ahead[newFlows[i]] >= 0
            /\ ahead[newFlows[i]] + deficit[newFlows[i]] <= Quantum
        BY <1>5, <3>1, <3>3, <4>2, <4>3
      <4> QED
        BY <1>3, <2>1, <4>3, <4>4
    <3> QED
      BY <3>2, <3>3 DEF FirstWaits
  <2> QED
    BY <1>3, <2>2, <2>3
<1> QED
  BY <1>6, <1>7

(* A packet is gone: only the watched flow's history cares. *)
LEMMA LeavingKeepsTurns ==
  ASSUME FirstWaits, Histories, NEW b \in Buckets, FQ!PacketLeft(b),
         UNCHANGED <<deficit, active, inNew, newFlows, oldFlows>>,
         \A c \in Buckets : c # b => queues'[c] = queues[c]
  PROVE  FirstWaits' /\ Histories'
<1>1. Watched \in Buckets /\ Quantum \in Nat \ {0} /\ FQ!MaxSize \in Nat \ {0}
  BY FQConstants
<1>2. CASE b = Watched
  <2>1. first' = FALSE /\ ahead' = [c \in Buckets |-> FQ!Barred]
    BY <1>2 DEF FQ!PacketLeft
  <2>2. \A c \in Buckets : ahead'[c] < FQ!TooMuch
    BY <1>1, <2>1 DEF FQ!TooMuch, FQ!Barred
  <2> QED
    BY <2>1, <2>2 DEF FirstWaits, Histories, FQ!NewFlowsComeFirst, FQ!TooMuch, FQ!MaxSize
<1>3. CASE b # Watched
  <2>1. first' = first /\ ahead' = ahead /\ queues'[Watched] = queues[Watched]
    BY <1>1, <1>3 DEF FQ!PacketLeft, FQ!histVars
  <2>2. Histories'
    BY <2>1 DEF Histories, FQ!NewFlowsComeFirst, FQ!TooMuch, FQ!MaxSize
  <2>3. FirstWaits'
    BY <2>1 DEF FirstWaits
  <2> QED
    BY <2>2, <2>3
<1> QED
  BY <1>2, <1>3

-----------------------------------------------------------------------------
(* A packet is delivered, and the flow's turn shortened by it. *)
LEMMA DeliveryKeepsTurns ==
  ASSUME FlowsListed, FirstWaits, Histories, Deficits, FQ!HasNext, NEW b, b = FQ!NextFlow,
         deficit[b] > 0, NEW p, p.size \in Sizes, FQ!Deliver(b, p),
         \A c \in Buckets : c # b => queues'[c] = queues[c]
  PROVE  FirstWaits' /\ Histories' /\ Deficits'
<1>1. /\ Watched \in Buckets /\ Quantum \in Nat \ {0} /\ FQ!MaxSize \in Nat \ {0}
      /\ p.size \in Nat \ {0} /\ p.size <= FQ!MaxSize
  BY FQConstants
<1>2. b \in Buckets /\ (newFlows # <<>> => b = newFlows[1])
  BY NextFlowIs
<1>3. /\ deficit' = [deficit EXCEPT ![b] = @ - p.size]
      /\ inNew' = inNew /\ newFlows' = newFlows
      /\ FQ!PacketServed(b, p.size)
  BY DEF FQ!Deliver
<1>4. deficit[b] \in 1 .. Quantum /\ deficit \in [Buckets -> 1 - FQ!MaxSize .. Quantum]
  BY <1>1, <1>2 DEF Deficits
<1>5. deficit[b] - p.size \in 1 - FQ!MaxSize .. Quantum
  BY <1>1, <1>4
<1>6. /\ Deficits' /\ deficit'[b] = deficit[b] - p.size
      /\ \A c \in Buckets \ {b} : deficit'[c] = deficit[c]
  BY <1>2, <1>3, <1>4, <1>5 DEF Deficits, FQ!MaxSize
<1>7. CASE first /\ b # Watched
  <2>1. /\ Watched \in inNew /\ queues[Watched] # <<>> /\ deficit[Watched] > 0
        /\ \A i, j \in DOMAIN newFlows :
             newFlows[j] = Watched /\ i < j =>
               /\ ahead[newFlows[i]] >= 0
               /\ ahead[newFlows[i]] + deficit[newFlows[i]] <= Quantum
    BY <1>7 DEF FirstWaits
  <2>2. /\ ahead' = [ahead EXCEPT ![b] = FQ!Overtook(b, p.size)]
        /\ first' = first /\ ahead \in [Buckets -> {FQ!Barred} \union 0 .. FQ!TooMuch]
    BY <1>3, <1>7 DEF FQ!PacketServed, Histories
  <2>3. PICK k \in DOMAIN newFlows : newFlows[k] = Watched
    BY <2>1 DEF FlowsListed, FQ!ToSet
  <2>4. newFlows \in Seq(Buckets) /\ newFlows # <<>>
    BY <2>3 DEF FlowsListed
  <2>5. 1 \in DOMAIN newFlows /\ k \in Nat /\ k >= 1 /\ newFlows[1] = b
    BY <1>2, <2>3, <2>4
  <2>6. 1 < k
    BY <1>7, <2>3, <2>5
  <2>7. ahead[b] >= 0 /\ ahead[b] + deficit[b] <= Quantum
    BY <2>1, <2>3, <2>5, <2>6
  <2>8. ahead[b] \in 0 .. FQ!TooMuch /\ ahead[b] # FQ!Barred
    BY <1>1, <1>2, <2>2, <2>7 DEF FQ!Barred, FQ!TooMuch
  <2>9. /\ FQ!Overtook(b, p.size) = ahead[b] + p.size
        /\ ahead[b] + p.size \in 0 .. FQ!TooMuch - 1
    BY <1>1, <1>4, <2>7, <2>8 DEF FQ!Overtook, FQ!Lesser, FQ!TooMuch
  <2>10. /\ ahead'[b] = ahead[b] + p.size
         /\ \A c \in Buckets \ {b} : ahead'[c] = ahead[c]
    BY <1>2, <2>2, <2>9
  <2>11. ahead' \in [Buckets -> {FQ!Barred} \union 0 .. FQ!TooMuch]
    <3> DEFINE v == FQ!Overtook(b, p.size)
               T == {FQ!Barred} \union 0 .. FQ!TooMuch
    <3>1. FQ!TooMuch \in Nat
      BY <1>1 DEF FQ!TooMuch
    <3>2. v \in T
      BY <2>9, <3>1
    <3>3. ahead' = [ahead EXCEPT ![b] = v] /\ ahead \in [Buckets -> T]
      BY <2>2
    <3> HIDE DEF v, T
    <3>4. ahead' \in [Buckets -> T]
      BY <3>2, <3>3
    <3> QED
      BY <3>4 DEF T
  <2>12. \A c \in Buckets : ahead'[c] < FQ!TooMuch
    BY <1>1, <2>9, <2>10 DEF Histories, FQ!NewFlowsComeFirst, FQ!TooMuch
  <2>13. Histories'
    BY <2>2, <2>11, <2>12 DEF Histories, FQ!NewFlowsComeFirst, FQ!TooMuch, FQ!MaxSize
  <2>14. ASSUME NEW i \in DOMAIN newFlows, NEW j \in DOMAIN newFlows,
                newFlows[j] = Watched, i < j
         PROVE  ahead'[newFlows[i]] >= 0 /\ ahead'[newFlows[i]] + deficit'[newFlows[i]] <= Quantum
    <3>1. PICK c \in Buckets : c = newFlows[i]
      BY <2>4
    <3>2. ahead[c] >= 0 /\ ahead[c] + deficit[c] <= Quantum
      BY <2>1, <2>14, <3>1
    <3>3. ahead'[c] >= 0 /\ ahead'[c] + deficit'[c] <= Quantum
      <4>1. CASE c = b
        <5>1. ahead'[c] = ahead[b] + p.size /\ deficit'[c] = deficit[b] - p.size
          BY <1>6, <2>10, <4>1
        <5>2. ahead[b] \in Int /\ deficit[b] \in Int /\ p.size \in Nat
          BY <1>1, <1>4, <2>8 DEF FQ!TooMuch
        <5>3. /\ (ahead[b] + p.size) + (deficit[b] - p.size) <= Quantum
              /\ ahead[b] + p.size >= 0
          BY <1>1, <2>7, <5>2
        <5> QED
          BY <5>1, <5>3
      <4>2. CASE c # b
        <5>1. ahead'[c] = ahead[c] /\ deficit'[c] = deficit[c]
          BY <1>6, <2>10, <4>2
        <5> QED
          BY <3>2, <5>1
      <4> QED
        BY <4>1, <4>2
    <3> QED
      BY <3>1, <3>3
  <2>15. queues'[Watched] # <<>> /\ deficit'[Watched] > 0 /\ Watched \in inNew'
    BY <1>1, <1>3, <1>6, <1>7, <2>1
  <2>16. FirstWaits'
    BY <1>3, <2>14, <2>15 DEF FirstWaits
  <2> QED
    BY <1>6, <2>13, <2>16
<1>8. CASE ~(first /\ b # Watched)
  <2>1. FQ!PacketLeft(b)
    BY <1>3, <1>8 DEF FQ!PacketServed
  <2>2. CASE b = Watched
    <3>1. first' = FALSE /\ ahead' = [c \in Buckets |-> FQ!Barred]
      BY <2>1, <2>2 DEF FQ!PacketLeft
    <3>2. \A c \in Buckets : ahead'[c] < FQ!TooMuch
      BY <1>1, <3>1 DEF FQ!TooMuch, FQ!Barred
    <3> QED
      BY <1>6, <3>1, <3>2 DEF FirstWaits, Histories, FQ!NewFlowsComeFirst, FQ!TooMuch, FQ!MaxSize
  <2>3. CASE b # Watched
    <3>1. first' = first /\ ahead' = ahead /\ ~first
      BY <1>8, <2>1, <2>3 DEF FQ!PacketLeft, FQ!histVars
    <3> QED
      BY <1>6, <3>1 DEF FirstWaits, Histories, FQ!NewFlowsComeFirst, FQ!TooMuch, FQ!MaxSize
  <2> QED
    BY <2>2, <2>3
<1> QED
  BY <1>7, <1>8

-----------------------------------------------------------------------------
(* CoDel's state, and the rest. *)
LEMMA CodelKeepsTypes ==
  ASSUME OtherTypes, NEW b \in Buckets, NEW p, NEW d \in BOOLEAN, NEW t \in 0 .. Interval,
         FQ!Codel(b, p, d, t)
  PROVE  codel' \in [Buckets -> CodelStates]
<1>1. Interval \in Nat \ {0}
  BY FQConstants
<1>2. codel[b] \in CodelStates /\ codel \in [Buckets -> CodelStates]
  BY DEF OtherTypes
<1>3. codel[b].above \in {FQ!Never} \union 0 .. Interval
  BY <1>2 DEF CodelStates
<1>4. FQ!AboveAfter(b, p) \in {FQ!Never} \union 0 .. Interval
  BY <1>1, <1>3 DEF FQ!AboveAfter
<1> DEFINE r == [above |-> FQ!AboveAfter(b, p), dropNext |-> t, dropping |-> d]
<1>5. r \in CodelStates
  BY <1>4 DEF CodelStates
<1>6. codel' = [codel EXCEPT ![b] = r]
  BY DEF FQ!Codel
<1> HIDE DEF r
<1> QED
  BY <1>2, <1>5, <1>6

(* What a delivery and a drop do besides. *)
LEMMA DeliveryKeepsTheRest ==
  ASSUME TurnGoesOn, OtherTypes, pc \in Turns, total' <= LimitBytes,
         NEW b, NEW p, p.size \in Nat, FQ!Deliver(b, p), closed' = closed,
         codel' \in [Buckets -> CodelStates]
  PROVE  TurnGoesOn' /\ OtherTypes'
<1>1. lock = "dequeuer" 
  BY DEF TurnGoesOn
<1>3. batch \in Nat /\ batch + p.size \in Nat /\ single \in BOOLEAN
  BY DEF OtherTypes
<1>4. \/ pc' = "loop" /\ batch' = batch + p.size /\ lock' = lock /\ single' = single
      \/ pc' = "writing" /\ lock' = "nobody" /\ single' = FALSE /\ batch' = 0
  BY DEF FQ!Deliver, FQ!Leave
<1>5. TurnGoesOn'
  BY <1>1, <1>4 DEF TurnGoesOn, Turns
<1>6. OtherTypes'
  <2>1. batch' \in Nat /\ single' \in BOOLEAN /\ closed' \in BOOLEAN
    <3>1. batch' \in Nat
      BY <1>3, <1>4, SMT
    <3>2. single' \in BOOLEAN
      BY <1>3, <1>4, Zenon
    <3>3. closed' \in BOOLEAN
      BY DEF OtherTypes
    <3> QED
      BY <3>1, <3>2, <3>3
  <2> QED
    BY <2>1 DEF OtherTypes, CodelStates
<1> QED
  BY <1>5, <1>6

LEMMA DropKeepsTheRest ==
  ASSUME TurnGoesOn, OtherTypes, pc \in Turns, total' <= LimitBytes,
         FQ!HasNext, deficit[FQ!NextFlow] > 0, queues'[FQ!NextFlow] # <<>>,
         NEW b, NEW then \in {"first drop", "dropping"}, FQ!Drop(b, then), closed' = closed,
         codel' \in [Buckets -> CodelStates]
  PROVE  TurnGoesOn' /\ OtherTypes'
<1>1. lock = "dequeuer" 
  BY DEF TurnGoesOn
<1>3. /\ pc' = then /\ lock' = lock /\ single' = single /\ batch' = batch
      /\ deficit' = deficit /\ newFlows' = newFlows /\ oldFlows' = oldFlows
  BY DEF FQ!Drop, FQ!flowVars, FQ!batchVars
<1>4. FQ!HasNext' /\ FQ!NextFlow' = FQ!NextFlow
  BY <1>3 DEF FQ!HasNext, FQ!NextFlow
<1>5. TurnGoesOn'
  BY <1>1, <1>3, <1>4 DEF TurnGoesOn, Turns
<1>6. OtherTypes'
  BY <1>3 DEF OtherTypes, CodelStates
<1> QED
  BY <1>5, <1>6

-----------------------------------------------------------------------------
(* A new queue, and every operation. *)
LEMMA FQInit == FQ!Init => FQIInv
<1> SUFFICES ASSUME FQ!Init PROVE FQIInv
  OBVIOUS
<1>1. /\ queues = [b \in Buckets |-> <<>>] /\ bytes = [b \in Buckets |-> 0]
      /\ deficit = [b \in Buckets |-> 0] /\ codel = [b \in Buckets |-> FQ!NoCodel]
      /\ active = {} /\ inNew = {} /\ newFlows = <<>> /\ oldFlows = <<>>
      /\ total = 0 /\ closed = FALSE
      /\ lock = "nobody" /\ pc = "writing" /\ single = FALSE /\ batch = 0
      /\ first = FALSE /\ ahead = [b \in Buckets |-> FQ!Barred]
  BY DEF FQ!Init
<1>2. /\ IsFiniteSet(Buckets) /\ Sizes \subseteq Nat /\ FQ!MaxSize \in Nat \ {0}
      /\ Quantum \in Nat \ {0} /\ LimitBytes \in Nat \ {0} /\ Interval \in Nat \ {0}
  BY FQConstants
<1>3. QueuesCounted
  <2>1. <<>> \in Seq(FQ!Packets)
    OBVIOUS
  <2>2. FQ!BytesIn(<<>>) = 0
    BY <1>2, <2>1, BytesNatural
  <2>3. bytes \in [Buckets -> Int] /\ \A b \in Buckets : bytes[b] = 0
    BY <1>1
  <2>4. Fold(bytes)[Buckets] = 0
    BY <1>2, <2>3, FoldZero
  <2>5. Sum(bytes) = 0
    BY <2>3, <2>4 DEF Sum
  <2>6. bytes = [b \in Buckets |-> FQ!BytesIn(queues[b])]
    BY <1>1, <2>2
  <2> QED
    BY <1>1, <2>1, <2>5, <2>6 DEF QueuesCounted
<1>4. FlowsListed
  BY <1>1 DEF FlowsListed, FQ!ToSet, FQ!IsInjective
<1>5. Deficits
  BY <1>1, <1>2 DEF Deficits
<1>6. TurnGoesOn
  BY <1>1, <1>2 DEF TurnGoesOn, Turns
<1>7. FirstWaits
  BY <1>1 DEF FirstWaits
<1>8. Histories
  <2>1. ahead \in [Buckets -> {FQ!Barred} \union 0 .. FQ!TooMuch] /\ first \in BOOLEAN
    BY <1>1
  <2>2. FQ!Barred < FQ!TooMuch
    BY <1>2 DEF FQ!TooMuch, FQ!Barred
  <2>3. \A b \in Buckets : ahead[b] < FQ!TooMuch
    BY <1>1, <2>2
  <2> QED
    BY <2>1, <2>3 DEF Histories, FQ!NewFlowsComeFirst
<1>9. OtherTypes
  <2>1. FQ!NoCodel \in CodelStates
    BY <1>2 DEF FQ!NoCodel, CodelStates
  <2> QED
    BY <1>1, <2>1 DEF OtherTypes
<1> QED
  BY <1>3, <1>4, <1>5, <1>6, <1>7, <1>8, <1>9 DEF FQIInv

LEMMA FQEnqueue ==
  ASSUME FQIInv, NEW b \in Buckets, NEW n \in Sizes, FQ!Enqueue(b, n)
  PROVE  FQIInv'
<1>1. /\ QueuesCounted /\ FlowsListed /\ Deficits /\ TurnGoesOn
      /\ FirstWaits /\ Histories /\ OtherTypes
  BY DEF FQIInv
<1> DEFINE p == [size |-> n, age |-> 0]
<1>2. /\ lock = "nobody" /\ lock' = "enqueuer" /\ pc' = pc
      /\ queues' = [queues EXCEPT ![b] = Append(@, p)]
      /\ bytes' = [bytes EXCEPT ![b] = @ + n]
      /\ total' = total + n
      /\ codel' = codel /\ closed' = closed /\ single' = single /\ batch' = batch
  BY DEF FQ!Enqueue, FQ!batchVars
<1>3. /\ QueuesCounted' /\ queues'[b] # <<>>
      /\ \A c \in Buckets : c # b => queues'[c] = queues[c]
  BY <1>1, <1>2, QueueGrows
<1> HIDE DEF p
<1>4. OtherTypes'
  BY <1>1, <1>2 DEF OtherTypes, CodelStates
<1>5. TurnGoesOn'
  BY <1>1, <1>2 DEF TurnGoesOn, Turns
<1>6. FlowsListed' /\ Deficits' /\ FirstWaits' /\ Histories'
  <2>1. CASE b \in active
    <3>1. /\ deficit' = deficit /\ active' = active /\ inNew' = inNew
          /\ newFlows' = newFlows /\ oldFlows' = oldFlows
          /\ first' = first /\ ahead' = ahead
      BY <2>1 DEF FQ!Enqueue, FQ!flowVars, FQ!histVars
    <3>2. FlowsListed'
      BY <1>1, <1>3, <2>1, <3>1, SameLists
    <3>3. Deficits'
      BY <1>1, <3>1 DEF Deficits, FQ!MaxSize
    <3>4. Histories'
      BY <1>1, <3>1 DEF Histories, FQ!NewFlowsComeFirst, FQ!TooMuch, FQ!MaxSize
    <3>5. queues[Watched] # <<>> => queues'[Watched] # <<>>
      BY <1>3, FQConstants
    <3>6. FirstWaits'
      BY <1>1, <3>1, <3>5 DEF FirstWaits
    <3> QED
      BY <3>2, <3>3, <3>4, <3>6
  <2>2. CASE b \notin active
    <3>1. FQ!Activate(b)
      BY <2>2 DEF FQ!Enqueue
    <3>2. FlowsListed'
      BY <1>1, <1>3, <2>2, <3>1, ActivateKeepsLists
    <3>3. FirstWaits' /\ Histories' /\ Deficits'
      BY <1>1, <1>3, <2>2, <3>1, ActivateKeepsTurns
    <3> QED
      BY <3>2, <3>3
  <2> QED
    BY <2>1, <2>2
<1> QED
  BY <1>3, <1>4, <1>5, <1>6 DEF FQIInv

LEMMA FQDropFromFattest ==
  ASSUME FQIInv, NEW b \in Buckets, FQ!DropFromFattest(b)
  PROVE  FQIInv'
<1>1. /\ QueuesCounted /\ FlowsListed /\ Deficits /\ TurnGoesOn
      /\ FirstWaits /\ Histories /\ OtherTypes
  BY DEF FQIInv
<1>2. /\ lock = "enqueuer" /\ lock' = lock /\ pc' = pc
      /\ queues[b] # <<>> /\ FQ!PopHead(b) /\ FQ!PacketLeft(b)
      /\ deficit' = deficit /\ active' = active /\ inNew' = inNew
      /\ newFlows' = newFlows /\ oldFlows' = oldFlows
      /\ codel' = codel /\ closed' = closed /\ single' = single /\ batch' = batch
  BY DEF FQ!DropFromFattest, FQ!IsFattest, FQ!flowVars, FQ!batchVars
<1>3. QueuesCounted' /\ \A c \in Buckets : c # b => queues'[c] = queues[c]
  BY <1>1, <1>2, QueuePops
<1>4. OtherTypes'
  BY <1>1, <1>2 DEF OtherTypes, CodelStates
<1>5. TurnGoesOn'
  BY <1>1, <1>2 DEF TurnGoesOn, Turns
<1>6. FlowsListed'
  BY <1>1, <1>2, <1>3, SameLists
<1>7. Deficits'
  BY <1>1, <1>2 DEF Deficits, FQ!MaxSize
<1>8. FirstWaits' /\ Histories'
  BY <1>1, <1>2, <1>3, LeavingKeepsTurns
<1> QED
  BY <1>3, <1>4, <1>5, <1>6, <1>7, <1>8 DEF FQIInv

(* Nothing about queues and flows changes. *)
LEMMA NothingMoves ==
  ASSUME FQIInv, UNCHANGED <<queues, bytes, codel, FQ!flowVars, total, FQ!histVars>>
  PROVE  QueuesCounted' /\ FlowsListed' /\ Deficits' /\ FirstWaits' /\ Histories'
<1>1. /\ QueuesCounted /\ FlowsListed /\ Deficits /\ FirstWaits /\ Histories
  BY DEF FQIInv
<1>2. /\ queues' = queues /\ bytes' = bytes /\ codel' = codel /\ total' = total
      /\ deficit' = deficit /\ active' = active /\ inNew' = inNew
      /\ newFlows' = newFlows /\ oldFlows' = oldFlows /\ first' = first /\ ahead' = ahead
  BY DEF FQ!flowVars, FQ!histVars
<1>3. QueuesCounted'
  BY <1>1, <1>2 DEF QueuesCounted, Sum, Fold, IsFold
<1>4. FlowsListed'
  BY <1>1, <1>2, SameLists
<1>5. Deficits'
  BY <1>1, <1>2 DEF Deficits, FQ!MaxSize
<1>6. FirstWaits'
  BY <1>1, <1>2 DEF FirstWaits
<1>7. Histories'
  BY <1>1, <1>2 DEF Histories, FQ!NewFlowsComeFirst, FQ!TooMuch, FQ!MaxSize
<1> QED
  BY <1>3, <1>4, <1>5, <1>6, <1>7

-----------------------------------------------------------------------------
LEMMA FQSignal == ASSUME FQIInv, FQ!Signal PROVE FQIInv'
<1>1. QueuesCounted /\ TurnGoesOn /\ OtherTypes
  BY DEF FQIInv
<1>2. /\ lock = "enqueuer" /\ lock' = "nobody" /\ pc' = FQ!Wake
      /\ total <= LimitBytes \/ \A b \in Buckets : queues[b] = <<>>
      /\ UNCHANGED <<queues, bytes, codel, FQ!flowVars, total, FQ!histVars>>
      /\ total' = total /\ codel' = codel /\ closed' = closed
      /\ single' = single /\ batch' = batch
  BY DEF FQ!Signal, FQ!batchVars
<1>3. total <= LimitBytes
  <2>1. CASE \A b \in Buckets : queues[b] = <<>>
    <3>1. IsFiniteSet(Buckets) /\ LimitBytes \in Nat /\ Sizes \subseteq Nat
      BY FQConstants
    <3>2. bytes \in [Buckets -> Int]
      BY <1>1, BytesFinite
    <3>3. \A b \in Buckets : bytes[b] = 0
      <4> SUFFICES ASSUME NEW b \in Buckets PROVE bytes[b] = 0
        OBVIOUS
      <4>1. queues[b] \in Seq(FQ!Packets) /\ bytes[b] = FQ!BytesIn(queues[b])
        BY <1>1 DEF QueuesCounted
      <4> QED
        BY <2>1, <3>1, <4>1, BytesNatural
    <3>4. Fold(bytes)[Buckets] = 0
      BY <3>1, <3>2, <3>3, FoldZero
    <3>5. total = 0
      BY <1>1, <3>2, <3>4 DEF QueuesCounted, Sum
    <3> QED
      BY <3>1, <3>5
  <2> QED
    BY <1>2, <2>1
<1>4. TurnGoesOn'
  BY <1>1, <1>2, <1>3 DEF TurnGoesOn, Turns, FQ!Wake
<1>5. OtherTypes'
  BY <1>1, <1>2 DEF OtherTypes, CodelStates
<1> QED
  BY <1>2, <1>4, <1>5, NothingMoves DEF FQIInv

LEMMA FQClose == ASSUME FQIInv, FQ!Close PROVE FQIInv'
<1>1. TurnGoesOn /\ OtherTypes
  BY DEF FQIInv
<1>2. /\ lock = "nobody" /\ lock' = lock /\ pc' = FQ!Wake /\ closed' = TRUE
      /\ UNCHANGED <<queues, bytes, codel, FQ!flowVars, total, FQ!histVars>>
      /\ total' = total /\ codel' = codel /\ single' = single /\ batch' = batch
  BY DEF FQ!Close, FQ!batchVars
<1>3. TurnGoesOn'
  BY <1>1, <1>2 DEF TurnGoesOn, Turns, FQ!Wake
<1>4. OtherTypes'
  BY <1>1, <1>2 DEF OtherTypes, CodelStates
<1> QED
  BY <1>2, <1>3, <1>4, NothingMoves DEF FQIInv

LEMMA FQCall == ASSUME FQIInv, FQ!Call PROVE FQIInv'
<1>1. TurnGoesOn /\ OtherTypes
  BY DEF FQIInv
<1>2. /\ pc = "writing" /\ lock = "nobody"
      /\ \/ pc' = "ended" /\ lock' = lock /\ single' = single
         \/ pc' = "loop" /\ lock' = "dequeuer" /\ single' \in BOOLEAN
      /\ UNCHANGED <<queues, bytes, codel, FQ!flowVars, total, FQ!histVars>>
      /\ total' = total /\ codel' = codel /\ closed' = closed /\ batch' = batch
  BY DEF FQ!Call
<1>3. TurnGoesOn'
  BY <1>1, <1>2 DEF TurnGoesOn, Turns
<1>4. OtherTypes'
  BY <1>1, <1>2 DEF OtherTypes, CodelStates
<1> QED
  BY <1>2, <1>3, <1>4, NothingMoves DEF FQIInv

LEMMA FQNothingQueued == ASSUME FQIInv, FQ!NothingQueued PROVE FQIInv'
<1>1. TurnGoesOn /\ OtherTypes
  BY DEF FQIInv
<1>2. /\ pc = "loop" /\ pc' \in {"waiting", "writing"} /\ lock' = "nobody"
      /\ single' = FALSE /\ batch' = 0
      /\ UNCHANGED <<queues, bytes, codel, FQ!flowVars, total, FQ!histVars>>
      /\ total' = total /\ codel' = codel /\ closed' = closed
  BY DEF FQ!NothingQueued, FQ!Leave
<1>3. TurnGoesOn'
  BY <1>1, <1>2 DEF TurnGoesOn, Turns
<1>4. OtherTypes'
  BY <1>1, <1>2 DEF OtherTypes, CodelStates
<1> QED
  BY <1>2, <1>3, <1>4, NothingMoves DEF FQIInv

LEMMA FQRecharge == ASSUME FQIInv, FQ!Recharge PROVE FQIInv'
<1>1. /\ QueuesCounted /\ FlowsListed /\ Deficits /\ TurnGoesOn
      /\ FirstWaits /\ Histories /\ OtherTypes
  BY DEF FQIInv
<1>2. PICK b : b = FQ!NextFlow
  OBVIOUS
<1>3. /\ pc = "loop" /\ FQ!HasNext /\ deficit[b] <= 0
      /\ deficit' = [deficit EXCEPT ![b] = @ + Quantum]
      /\ FQ!moveToOld(b)
      /\ queues' = queues /\ bytes' = bytes /\ codel' = codel /\ total' = total
      /\ closed' = closed /\ lock' = lock /\ pc' = pc
      /\ single' = single /\ batch' = batch /\ first' = first /\ ahead' = ahead
  BY <1>2 DEF FQ!Recharge, FQ!UsedUp, FQ!batchVars, FQ!histVars
<1>4. /\ FlowsListed'
      /\ newFlows' = (IF newFlows # <<>> THEN Tail(newFlows) ELSE newFlows)
      /\ inNew' = inNew \ {b}
  BY <1>1, <1>2, <1>3, MoveKeepsLists
<1>5. b \in Buckets
  BY <1>1, <1>2, <1>3, NextFlowIs
<1>6. Quantum \in Nat \ {0} /\ FQ!MaxSize \in Nat \ {0}
  BY FQConstants
<1>7. deficit \in [Buckets -> 1 - FQ!MaxSize .. Quantum] /\ deficit[b] + Quantum \in 1 - FQ!MaxSize .. Quantum
  BY <1>1, <1>3, <1>5, <1>6 DEF Deficits
<1>8. Deficits' /\ \A c \in Buckets : c # b => deficit'[c] = deficit[c]
  BY <1>3, <1>5, <1>7 DEF Deficits, FQ!MaxSize
<1>9. first => b # Watched
  BY <1>1, <1>3, <1>6, <1>7, <1>5 DEF FirstWaits
<1>10. FirstWaits'
  BY <1>1, <1>2, <1>3, <1>4, <1>8, <1>9, HeadLeaves
<1>11. Histories'
  BY <1>1, <1>3 DEF Histories, FQ!NewFlowsComeFirst, FQ!TooMuch, FQ!MaxSize
<1>12. QueuesCounted'
  BY <1>1, <1>3 DEF QueuesCounted, Sum, Fold, IsFold
<1>13. TurnGoesOn'
  BY <1>1, <1>3 DEF TurnGoesOn, Turns
<1>14. OtherTypes'
  BY <1>1, <1>3 DEF OtherTypes, CodelStates
<1> QED
  BY <1>4, <1>8, <1>10, <1>11, <1>12, <1>13, <1>14 DEF FQIInv

LEMMA FQSkipEmpty == ASSUME FQIInv, FQ!SkipEmpty PROVE FQIInv'
<1>1. /\ QueuesCounted /\ FlowsListed /\ Deficits /\ TurnGoesOn
      /\ FirstWaits /\ Histories /\ OtherTypes
  BY DEF FQIInv
<1>2. PICK b : b = FQ!NextFlow
  OBVIOUS
<1>3. /\ pc = "loop" /\ FQ!HasNext /\ queues[b] = <<>>
      /\ queues' = queues /\ bytes' = bytes /\ total' = total
      /\ closed' = closed /\ lock' = lock /\ pc' = pc
      /\ single' = single /\ batch' = batch /\ first' = first /\ ahead' = ahead
  BY <1>2 DEF FQ!SkipEmpty, FQ!batchVars, FQ!histVars
<1>4. \/ /\ FQ!moveToOld(b) /\ deficit' = deficit
         /\ codel' = [codel EXCEPT ![b].above = FQ!Never, ![b].dropping = FALSE]
      \/ /\ FQ!deactivate(b) /\ deficit' = [deficit EXCEPT ![b] = 0]
         /\ codel' = [codel EXCEPT ![b] = FQ!NoCodel]
  BY <1>2 DEF FQ!SkipEmpty
<1>5. /\ FlowsListed'
      /\ newFlows' = (IF newFlows # <<>> THEN Tail(newFlows) ELSE newFlows)
      /\ inNew' = inNew \ {b}
  <2>1. CASE FQ!moveToOld(b)
    BY <1>1, <1>2, <1>3, <2>1, MoveKeepsLists
  <2>2. CASE FQ!deactivate(b)
    BY <1>1, <1>2, <1>3, <2>2, DeactivateKeepsLists
  <2> QED
    BY <1>4, <2>1, <2>2
<1>6. b \in Buckets
  BY <1>1, <1>2, <1>3, NextFlowIs
<1>7. /\ Quantum \in Nat \ {0} /\ FQ!MaxSize \in Nat \ {0} /\ Interval \in Nat
      /\ 0 \in 1 - FQ!MaxSize .. Quantum
  BY FQConstants
<1>8. Deficits' /\ \A c \in Buckets : c # b => deficit'[c] = deficit[c]
  <2>1. deficit \in [Buckets -> 1 - FQ!MaxSize .. Quantum]
    BY <1>1 DEF Deficits
  <2>2. deficit' = deficit \/ deficit' = [deficit EXCEPT ![b] = 0]
    BY <1>4
  <2> QED
    BY <1>6, <1>7, <2>1, <2>2 DEF Deficits, FQ!MaxSize
<1>9. first => b # Watched
  BY <1>1, <1>3 DEF FirstWaits
<1>10. FirstWaits'
  BY <1>1, <1>2, <1>3, <1>5, <1>8, <1>9, HeadLeaves
<1>11. Histories'
  BY <1>1, <1>3 DEF Histories, FQ!NewFlowsComeFirst, FQ!TooMuch, FQ!MaxSize
<1>12. QueuesCounted'
  BY <1>1, <1>3 DEF QueuesCounted, Sum, Fold, IsFold
<1>13. TurnGoesOn'
  BY <1>1, <1>3 DEF TurnGoesOn, Turns
<1>14. OtherTypes'
  <2>1. codel \in [Buckets -> CodelStates] /\ codel[b] \in CodelStates
    BY <1>1, <1>6 DEF OtherTypes
  <2>2. PICK r : r = [codel[b] EXCEPT !.above = FQ!Never, !.dropping = FALSE]
    OBVIOUS
  <2>3. r \in CodelStates /\ FQ!NoCodel \in CodelStates
    <3>1. codel[b].dropNext \in 0 .. Interval
      BY <2>1 DEF CodelStates
    <3>2. r = [above |-> FQ!Never, dropNext |-> codel[b].dropNext, dropping |-> FALSE]
      BY <2>1, <2>2 DEF CodelStates
    <3>3. r \in CodelStates
      BY <3>1, <3>2 DEF CodelStates
    <3>4. FQ!NoCodel \in CodelStates
      BY <1>7 DEF CodelStates, FQ!NoCodel
    <3> QED
      BY <3>3, <3>4
  <2>4. codel' = [codel EXCEPT ![b] = r] \/ codel' = [codel EXCEPT ![b] = FQ!NoCodel]
    BY <1>4, <1>6, <2>1, <2>2
  <2>5. codel' \in [Buckets -> CodelStates]
    BY <1>6, <2>1, <2>3, <2>4
  <2> QED
    BY <1>1, <1>3, <2>5 DEF OtherTypes, CodelStates
<1> QED
  BY <1>5, <1>8, <1>10, <1>11, <1>12, <1>13, <1>14 DEF FQIInv

-----------------------------------------------------------------------------
LEMMA DropLeavesMore ==
  ASSUME QueuesCounted, QueuesCounted', NEW b \in Buckets, queues[b] # <<>>, FQ!PopHead(b),
         NEW p, p = Head(queues[b]), FQ!OkToDrop(b, p)
  PROVE  queues'[b] # <<>>
<1> SUFFICES ASSUME queues'[b] = <<>> PROVE FALSE
  OBVIOUS
<1>1. MaxPacket \in Nat /\ Sizes \subseteq Nat
  BY FQConstants
<1>2. queues'[b] \in Seq(FQ!Packets) /\ bytes'[b] = FQ!BytesIn(queues'[b])
  BY DEF QueuesCounted
<1>3. bytes'[b] = 0
  BY <1>1, <1>2, BytesNatural
<1>4. bytes \in [Buckets -> Nat]
  BY BytesFinite
<1>5. bytes'[b] = bytes[b] - p.size
  BY <1>4 DEF FQ!PopHead
<1>6. ~(bytes[b] - p.size <= MaxPacket)
  BY DEF FQ!OkToDrop, FQ!NotStanding
<1> QED
  BY <1>1, <1>3, <1>5, <1>6

LEMMA TotalShrinks ==
  ASSUME QueuesCounted, QueuesCounted', total' < total, total <= LimitBytes
  PROVE  total' <= LimitBytes
<1>1. total \in Nat /\ LimitBytes \in Nat
  BY BytesFinite, FQConstants
<1>2. (bytes \in [Buckets -> Nat] /\ total \in Nat)'
  BY BytesFinite, PTL
<1> QED
  BY <1>1, <1>2

(* A packet is taken from the flow whose turn it is, and delivered or      *)
(* dropped.                                                                *)
LEMMA PacketTaken ==
  ASSUME FQIInv, pc \in Turns, FQ!HasNext, NEW b, b = FQ!NextFlow, deficit[b] > 0,
         queues[b] # <<>>, FQ!PopHead(b), NEW p, p = Head(queues[b]),
         NEW d \in BOOLEAN, NEW t \in 0 .. Interval, FQ!Codel(b, p, d, t),
         \/ FQ!Deliver(b, p)
         \/ FQ!OkToDrop(b, p) /\ (FQ!Drop(b, "first drop") \/ FQ!Drop(b, "dropping")),
         closed' = closed
  PROVE  FQIInv'
<1>1. /\ QueuesCounted /\ FlowsListed /\ Deficits /\ TurnGoesOn
      /\ FirstWaits /\ Histories /\ OtherTypes
  BY DEF FQIInv
<1>2. b \in Buckets
  BY <1>1, NextFlowIs
<1>3. /\ QueuesCounted' /\ total' < total /\ p \in FQ!Packets
      /\ \A c \in Buckets : c # b => queues'[c] = queues[c]
  BY <1>1, <1>2, QueuePops
<1>4. p.size \in Sizes /\ p.size \in Nat
  BY <1>3, FQConstants DEF FQ!Packets
<1>5. codel' \in [Buckets -> CodelStates]
  BY <1>1, <1>2, CodelKeepsTypes
<1>6. total' <= LimitBytes
  <2>1. total <= LimitBytes
    BY <1>1 DEF TurnGoesOn, Turns
  <2> QED
    BY <1>1, <1>3, <2>1, TotalShrinks
<1>7. CASE FQ!Deliver(b, p)
  <2>1. FirstWaits' /\ Histories' /\ Deficits'
    BY <1>1, <1>3, <1>4, <1>7, DeliveryKeepsTurns
  <2>2. TurnGoesOn' /\ OtherTypes'
    BY <1>1, <1>4, <1>5, <1>6, <1>7, DeliveryKeepsTheRest
  <2>3. active' = active /\ inNew' = inNew /\ newFlows' = newFlows /\ oldFlows' = oldFlows
    BY <1>7 DEF FQ!Deliver
  <2>4. FlowsListed'
    BY <1>1, <1>2, <1>3, <2>3, SameLists DEF FlowsListed
  <2> QED
    BY <1>3, <2>1, <2>2, <2>4 DEF FQIInv
<1>8. ASSUME FQ!OkToDrop(b, p),
             NEW then \in {"first drop", "dropping"}, FQ!Drop(b, then)
      PROVE  FQIInv'
  <2>1. /\ FQ!PacketLeft(b) /\ deficit' = deficit
        /\ active' = active /\ inNew' = inNew /\ newFlows' = newFlows /\ oldFlows' = oldFlows
    BY <1>8 DEF FQ!Drop, FQ!flowVars
  <2>2. FirstWaits' /\ Histories'
    BY <1>1, <1>2, <1>3, <2>1, LeavingKeepsTurns
  <2>3. TurnGoesOn' /\ OtherTypes'
    <3>1. queues'[b] # <<>>
      BY <1>1, <1>2, <1>3, <1>8, DropLeavesMore
    <3> QED
      BY <1>1, <1>5, <1>6, <1>8, <3>1, DropKeepsTheRest
  <2>4. FlowsListed'
    BY <1>1, <1>2, <1>3, <2>1, SameLists DEF FlowsListed
  <2>5. Deficits'
    BY <1>1, <2>1 DEF Deficits, FQ!MaxSize
  <2> QED
    BY <1>3, <2>2, <2>3, <2>4, <2>5 DEF FQIInv
<1> QED
  BY <1>7, <1>8

LEMMA FQTake == ASSUME FQIInv, FQ!Take PROVE FQIInv'
<1>1. TurnGoesOn /\ OtherTypes /\ FlowsListed /\ Deficits
  BY DEF FQIInv
<1>2. PICK b : b = FQ!NextFlow
  OBVIOUS
<1>3. PICK p : p = Head(queues[b])
  OBVIOUS
<1>4. PICK c : c = codel[b]
  OBVIOUS
<1>5. /\ pc = "loop" /\ FQ!HasNext /\ ~FQ!UsedUp(b) /\ queues[b] # <<>>
      /\ FQ!PopHead(b) /\ closed' = closed
      /\ \/ FQ!Codel(b, p, FALSE, c.dropNext) /\ FQ!Deliver(b, p)
         \/ FQ!Codel(b, p, TRUE, c.dropNext) /\ FQ!Deliver(b, p)
         \/ /\ FQ!OkToDrop(b, p) /\ FQ!Codel(b, p, TRUE, c.dropNext)
            /\ FQ!Drop(b, "dropping")
         \/ /\ FQ!OkToDrop(b, p) /\ FQ!Codel(b, p, FALSE, c.dropNext)
            /\ FQ!Drop(b, "first drop")
  BY <1>2, <1>3, <1>4 DEF FQ!Take
<1>6. b \in Buckets
  BY <1>1, <1>2, <1>5, NextFlowIs
<1>7. c \in CodelStates
  BY <1>1, <1>4, <1>6 DEF OtherTypes
<1>8. c.dropNext \in 0 .. Interval
  BY <1>7 DEF CodelStates
<1>9. PICK t \in 0 .. Interval : t = c.dropNext
  BY <1>8
<1>10. deficit[b] > 0
  <2>1. deficit[b] \in 1 - FQ!MaxSize .. Quantum /\ FQ!MaxSize \in Nat /\ Quantum \in Nat
    BY <1>1, <1>6, FQConstants DEF Deficits
  <2>2. ~(deficit[b] <= 0)
    BY <1>5 DEF FQ!UsedUp
  <2>3. deficit[b] \in Int
    BY <2>1
  <2> QED
    BY <2>2, <2>3
<1>11. pc \in Turns
  BY <1>5 DEF Turns
<1>12. \/ FQ!Deliver(b, p)
       \/ FQ!OkToDrop(b, p) /\ (FQ!Drop(b, "first drop") \/ FQ!Drop(b, "dropping"))
  BY <1>5
<1>13. \E d \in BOOLEAN : FQ!Codel(b, p, d, t)
  BY <1>5, <1>9
<1>14. PICK d \in BOOLEAN : FQ!Codel(b, p, d, t)
  BY <1>13
<1> QED
  BY <1>2, <1>3, <1>5, <1>10, <1>11, <1>12, <1>14, PacketTaken

LEMMA FQTakeAfterFirst == ASSUME FQIInv, FQ!TakeAfterFirst PROVE FQIInv'
<1>1. TurnGoesOn
  BY DEF FQIInv
<1>2. PICK b : b = FQ!NextFlow
  OBVIOUS
<1>3. PICK p : p = Head(queues[b])
  OBVIOUS
<1>4. /\ pc = "first drop" /\ queues[b] # <<>>
      /\ FQ!PopHead(b) /\ closed' = closed /\ FQ!Deliver(b, p)
      /\ \E next \in 1 .. Interval : FQ!Codel(b, p, TRUE, next)
  BY <1>2, <1>3 DEF FQ!TakeAfterFirst
<1>5. PICK t \in 1 .. Interval : FQ!Codel(b, p, TRUE, t)
  BY <1>4
<1>6. t \in 0 .. Interval
  BY FQConstants
<1>7. FQ!HasNext /\ deficit[b] > 0 /\ pc \in Turns
  BY <1>1, <1>2, <1>4 DEF TurnGoesOn, Turns
<1> QED
  BY <1>2, <1>3, <1>4, <1>5, <1>6, <1>7, PacketTaken

LEMMA FQTakeAfterDrop == ASSUME FQIInv, FQ!TakeAfterDrop PROVE FQIInv'
<1>1. TurnGoesOn
  BY DEF FQIInv
<1>2. PICK b : b = FQ!NextFlow
  OBVIOUS
<1>3. PICK p : p = Head(queues[b])
  OBVIOUS
<1>4. /\ pc = "dropping" /\ queues[b] # <<>>
      /\ FQ!PopHead(b) /\ closed' = closed
      /\ \/ FQ!Codel(b, p, FALSE, 0) /\ FQ!Deliver(b, p)
         \/ FQ!OkToDrop(b, p) /\ FQ!Codel(b, p, TRUE, 0) /\ FQ!Drop(b, "dropping")
         \/ (\E next \in 1 .. Interval : FQ!Codel(b, p, TRUE, next)) /\ FQ!Deliver(b, p)
  BY <1>2, <1>3 DEF FQ!TakeAfterDrop
<1>5. Interval \in Nat \ {0} /\ 0 \in 0 .. Interval
  BY FQConstants
<1>6. \E d \in BOOLEAN, t \in 0 .. Interval : FQ!Codel(b, p, d, t)
  <2>1. CASE \E next \in 1 .. Interval : FQ!Codel(b, p, TRUE, next)
    <3>1. PICK t \in 1 .. Interval : FQ!Codel(b, p, TRUE, t)
      BY <2>1
    <3>2. t \in 0 .. Interval
      BY <1>5
    <3> QED
      BY <3>1, <3>2
  <2> QED
    BY <1>4, <1>5, <2>1
<1>7. PICK d \in BOOLEAN, t \in 0 .. Interval : FQ!Codel(b, p, d, t)
  BY <1>6
<1>8. FQ!HasNext /\ deficit[b] > 0 /\ pc \in Turns
  BY <1>1, <1>2, <1>4 DEF TurnGoesOn, Turns
<1>9. \/ FQ!Deliver(b, p)
      \/ FQ!OkToDrop(b, p) /\ (FQ!Drop(b, "first drop") \/ FQ!Drop(b, "dropping"))
  BY <1>4
<1> QED
  BY <1>2, <1>3, <1>4, <1>7, <1>8, <1>9, PacketTaken

-----------------------------------------------------------------------------
(* Packets grow older, as the lengths of queues and of packets stay. *)
LEMMA QueueAges ==
  ASSUME NEW s \in Seq(FQ!Packets), NEW r,
         r = [i \in DOMAIN s |-> [s[i] EXCEPT !.age = FQ!Lesser(@ + 1, Target)]]
  PROVE  r \in Seq(FQ!Packets) /\ FQ!BytesIn(r) = FQ!BytesIn(s) /\ (r = <<>> <=> s = <<>>)
<1>1. Len(s) \in Nat /\ DOMAIN s = 1 .. Len(s) /\ \A i \in 1 .. Len(s) : s[i] \in FQ!Packets
  OBVIOUS
<1>2. Target \in Nat \ {0} /\ Sizes \subseteq Nat
  BY FQConstants
<1>3. ASSUME NEW i \in 1 .. Len(s)
      PROVE  r[i] \in FQ!Packets /\ r[i].size = s[i].size
  <2>1. s[i] \in FQ!Packets
    BY <1>1
  <2>2. PICK p \in FQ!Packets : p = s[i]
    BY <2>1
  <2>3. p.age \in 0 .. Target /\ p.size \in Sizes
    BY DEF FQ!Packets
  <2>4. FQ!Lesser(p.age + 1, Target) \in 0 .. Target
    BY <1>2, <2>3 DEF FQ!Lesser
  <2>5. r[i] = [p EXCEPT !.age = FQ!Lesser(p.age + 1, Target)]
    BY <1>1, <2>2
  <2>6. r[i] = [size |-> p.size, age |-> FQ!Lesser(p.age + 1, Target)]
    BY <2>5 DEF FQ!Packets
  <2> QED
    BY <2>2, <2>3, <2>4, <2>6 DEF FQ!Packets
<1>4. r \in Seq(FQ!Packets) /\ DOMAIN r = DOMAIN s /\ Len(r) = Len(s)
  <2>1. DOMAIN r = 1 .. Len(s)
    BY <1>1
  <2>2. r \in [1 .. Len(s) -> FQ!Packets]
    BY <1>1, <1>3, <2>1
  <2> QED
    BY <1>1, <2>1, <2>2
<1>5. FQ!BytesIn(r) = FQ!BytesIn(s)
  BY <1>1, <1>2, <1>3, <1>4, BytesAged
<1>6. r = <<>> <=> s = <<>>
  BY <1>4
<1> QED
  BY <1>4, <1>5, <1>6

LEMMA FQTick == ASSUME FQIInv, FQ!Tick PROVE FQIInv'
<1>1. /\ QueuesCounted /\ FlowsListed /\ Deficits /\ TurnGoesOn
      /\ FirstWaits /\ Histories /\ OtherTypes
  BY DEF FQIInv
<1>2. /\ queues' = [b \in Buckets |-> [i \in DOMAIN queues[b] |->
             [queues[b][i] EXCEPT !.age = FQ!Lesser(@ + 1, Target)]]]
      /\ codel' = [b \in Buckets |->
             [codel[b] EXCEPT !.above = FQ!Less(@), !.dropNext = FQ!Less(@)]]
      /\ bytes' = bytes /\ deficit' = deficit /\ active' = active /\ inNew' = inNew
      /\ newFlows' = newFlows /\ oldFlows' = oldFlows /\ total' = total /\ closed' = closed
      /\ lock = "nobody" /\ lock' = lock /\ pc' = pc /\ single' = single /\ batch' = batch
      /\ first' = first /\ ahead' = ahead
  BY DEF FQ!Tick, FQ!flowVars, FQ!batchVars, FQ!histVars
<1>3. ASSUME NEW b \in Buckets
      PROVE  /\ queues'[b] \in Seq(FQ!Packets)
             /\ FQ!BytesIn(queues'[b]) = FQ!BytesIn(queues[b])
             /\ (queues'[b] = <<>> <=> queues[b] = <<>>)
  <2>1. PICK s \in Seq(FQ!Packets) : s = queues[b]
    BY <1>1 DEF QueuesCounted
  <2>2. PICK r : r = queues'[b]
    OBVIOUS
  <2>3. r = [i \in DOMAIN s |-> [s[i] EXCEPT !.age = FQ!Lesser(@ + 1, Target)]]
    BY <1>2, <2>1, <2>2
  <2> QED
    BY <2>1, <2>2, <2>3, QueueAges
<1>4. QueuesCounted'
  <2>1. queues' \in [Buckets -> Seq(FQ!Packets)]
    BY <1>2, <1>3
  <2>2. bytes' = [b \in Buckets |-> FQ!BytesIn(queues'[b])]
    BY <1>1, <1>2, <1>3 DEF QueuesCounted
  <2> QED
    <3>1. Sum(bytes)' = Sum(bytes)
      BY <1>2 DEF Sum, Fold, IsFold
    <3>2. total' = Sum(bytes)'
      BY <1>1, <1>2, <3>1 DEF QueuesCounted
    <3> QED
      BY <2>1, <2>2, <3>2 DEF QueuesCounted
<1>5. FlowsListed'
  BY <1>1, <1>2, <1>3, SameLists
<1>6. Deficits'
  BY <1>1, <1>2 DEF Deficits, FQ!MaxSize
<1>7. TurnGoesOn'
  BY <1>1, <1>2 DEF TurnGoesOn, Turns
<1>8. FirstWaits'
  <2>1. Watched \in Buckets
    BY FQConstants
  <2> QED
    BY <1>1, <1>2, <1>3, <2>1 DEF FirstWaits
<1>9. Histories'
  BY <1>1, <1>2 DEF Histories, FQ!NewFlowsComeFirst, FQ!TooMuch, FQ!MaxSize
<1>10. OtherTypes'
  <2>1. Interval \in Nat
    BY FQConstants
  <2>2. ASSUME NEW b \in Buckets PROVE codel'[b] \in CodelStates
    <3>1. PICK c \in CodelStates : c = codel[b]
      BY <1>1 DEF OtherTypes
    <3>2. c.above \in {FQ!Never} \union 0 .. Interval /\ c.dropNext \in 0 .. Interval
          /\ c.dropping \in BOOLEAN
      BY DEF CodelStates
    <3>3. FQ!Less(c.above) \in {FQ!Never} \union 0 .. Interval
      BY <2>1, <3>2 DEF FQ!Less, FQ!Never
    <3>4. FQ!Less(c.dropNext) \in 0 .. Interval
      BY <2>1, <3>2 DEF FQ!Less
    <3>5. codel'[b] = [c EXCEPT !.above = FQ!Less(c.above), !.dropNext = FQ!Less(c.dropNext)]
      BY <1>2, <3>1
    <3>6. codel'[b] = [above |-> FQ!Less(c.above), dropNext |-> FQ!Less(c.dropNext),
                       dropping |-> c.dropping]
      BY <3>5 DEF CodelStates
    <3> QED
      BY <3>2, <3>3, <3>4, <3>6 DEF CodelStates
  <2>3. codel' \in [Buckets -> CodelStates]
    BY <1>2, <2>2
  <2> QED
    BY <1>1, <1>2, <2>3 DEF OtherTypes, CodelStates
<1> QED
  BY <1>4, <1>5, <1>6, <1>7, <1>8, <1>9, <1>10 DEF FQIInv

(* Every step keeps the invariant. *)
LEMMA FQStep == ASSUME FQIInv, [FQ!Next]_FQ!vars PROVE FQIInv'
<1>1. ASSUME NEW b \in Buckets, NEW n \in Sizes, FQ!Enqueue(b, n) PROVE FQIInv'
  BY <1>1, FQEnqueue
<1>2. ASSUME NEW b \in Buckets, FQ!DropFromFattest(b) PROVE FQIInv'
  BY <1>2, FQDropFromFattest
<1>3. CASE FQ!Dequeuer
  BY <1>3, FQCall, FQNothingQueued, FQRecharge, FQSkipEmpty, FQTake, FQTakeAfterFirst,
     FQTakeAfterDrop DEF FQ!Dequeuer
<1>4. CASE UNCHANGED FQ!vars
  <2>1. UNCHANGED <<queues, bytes, codel, FQ!flowVars, total, FQ!histVars>>
    BY <1>4 DEF FQ!vars
  <2>2. /\ lock' = lock /\ pc' = pc /\ single' = single /\ batch' = batch
        /\ closed' = closed /\ codel' = codel /\ total' = total
        /\ deficit' = deficit /\ queues' = queues /\ newFlows' = newFlows /\ oldFlows' = oldFlows
    BY <1>4 DEF FQ!vars, FQ!batchVars, FQ!flowVars
  <2>3. FQ!HasNext' = FQ!HasNext /\ FQ!NextFlow' = FQ!NextFlow
    BY <2>2 DEF FQ!HasNext, FQ!NextFlow
  <2>4. TurnGoesOn'
    BY <2>2, <2>3 DEF FQIInv, TurnGoesOn
  <2>5. OtherTypes'
    BY <2>2 DEF FQIInv, OtherTypes, CodelStates
  <2> QED
    BY <2>1, <2>4, <2>5, NothingMoves DEF FQIInv
<1> QED
  BY <1>1, <1>2, <1>3, <1>4, FQSignal, FQClose, FQTick DEF FQ!Next

(* What Enqueue, Dequeue and Close keep of the queue's state (fq.go), for  *)
(* any buckets, sizes and limits, CoDel's times included.                  *)
THEOREM FQInvariant == FQ!Spec => []FQIInv
<1>1. FQIInv /\ [FQ!Next]_FQ!vars => FQIInv'
  BY FQStep
<1> QED
  BY FQInit, <1>1, PTL DEF FQ!Spec

LEMMA FQTypes == FQIInv => FQ!TypeOK
<1> SUFFICES ASSUME FQIInv PROVE FQ!TypeOK
  OBVIOUS
<1>1. bytes \in [Buckets -> Nat] /\ total \in Nat
  BY BytesFinite DEF FQIInv
<1>2. codel \in [Buckets -> [above : {FQ!Never} \union 0 .. Interval,
                             dropNext : 0 .. Interval, dropping : BOOLEAN]]
  BY DEF FQIInv, OtherTypes, CodelStates
<1>3. /\ queues \in [Buckets -> Seq(FQ!Packets)]
      /\ deficit \in [Buckets -> 1 - FQ!MaxSize .. Quantum]
      /\ active \subseteq Buckets /\ inNew \subseteq active
      /\ newFlows \in Seq(Buckets) /\ oldFlows \in Seq(Buckets)
      /\ closed \in BOOLEAN /\ single \in BOOLEAN /\ batch \in Nat
      /\ lock \in {"nobody", "enqueuer", "dequeuer"}
      /\ pc \in {"writing", "loop", "first drop", "dropping", "waiting", "ended"}
      /\ first \in BOOLEAN /\ ahead \in [Buckets -> {FQ!Barred} \union 0 .. FQ!TooMuch]
  BY DEF FQIInv, QueuesCounted, FlowsListed, Deficits, TurnGoesOn, Histories, OtherTypes
<1> QED
  BY <1>1, <1>2, <1>3 DEF FQ!TypeOK

(* Deficits stay above the quantum's debt of one packet and CoDel's times  *)
(* within the interval (fq.go:193-230, 283-330).                           *)
THEOREM FQTypeCorrect == FQ!Spec => []FQ!TypeOK
BY FQInvariant, FQTypes, PTL

LEMMA FQConsistent == FQIInv => QueuesAreConsistent
<1> SUFFICES ASSUME FQIInv PROVE QueuesAreConsistent
  OBVIOUS
<1>1. QueuesCounted /\ FlowsListed /\ TurnGoesOn
  BY DEF FQIInv
<1>2. IsFiniteSet(Buckets)
  BY FQConstants
<1>3. \A b \in Buckets : bytes[b] = FQ!BytesIn(queues[b])
  BY <1>1 DEF QueuesCounted
<1>4. total = FQ!AllBytes
  <2>1. bytes \in [Buckets -> Int]
    BY <1>1, BytesFinite
  <2> QED
    BY <1>1, <1>2, <2>1, AllBytesIs DEF QueuesCounted
<1>5. lock = "nobody" => total <= LimitBytes
  BY <1>1 DEF TurnGoesOn
<1>6. /\ \A b \in Buckets : queues[b] # <<>> => b \in active
      /\ FQ!ToSet(newFlows) = inNew /\ FQ!ToSet(oldFlows) = active \ inNew
      /\ FQ!IsInjective(newFlows) /\ FQ!IsInjective(oldFlows)
  BY <1>1 DEF FlowsListed
<1> QED
  BY <1>3, <1>4, <1>5, <1>6 DEF QueuesAreConsistent, FQ!QueuesAreConsistent

(* Enqueue, overflow drops, CoDel and delivery keep the bytes per flow,    *)
(* the total and the lists of flows in step with what is queued, and the   *)
(* total within the limit whenever the lock is free (fq.go:117-127,        *)
(* 238-281).                                                               *)
THEOREM QueuesConsistent == FQ!Spec => []QueuesAreConsistent
BY FQInvariant, FQConsistent, PTL

(* The first packet of a flow that was idle waits for the flows that were  *)
(* new before it only, and for no more than one turn of each               *)
(* (fq.go:41-44).                                                          *)
THEOREM NewFlowsFirst == FQ!Spec => []NewFlowsComeFirst
<1>1. FQIInv => NewFlowsComeFirst
  BY DEF FQIInv, Histories, NewFlowsComeFirst
<1> QED
  BY FQInvariant, <1>1, PTL
=============================================================================
