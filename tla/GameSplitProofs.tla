-------------------------- MODULE GameSplitProofs --------------------------
(***************************************************************************)
(* The safety properties of GameSplit, proved for all ports, destinations, *)
(* processes and times and any number of flow IDs.                         *)
(*                                                                         *)
(* The two tables are swept from another goroutine than the one that fills *)
(* them, so what a flow keeps is a matter of ages: one that sent within    *)
(* Idle still has the decision its last packet went by (ChannelIsDecided)  *)
(* and over glue the ID as well (SenderHasID), each used no longer ago     *)
(* than it sent; and the route of the packet at hand was used just now     *)
(* (HeldIsFresh).                                                          *)
(***************************************************************************)
EXTENDS GameSplit, FiniteSetTheorems, WellFoundedInduction, TLAPS

RoutesAreSettled ==
  \A k \in Keys :
    /\ routes[k].glue => routes[k].decided
    /\ routes[k].decided => routes[k].known

HeldIsFresh == held # None => routes[held].glue /\ routes[held].age = 0

IDsAreOwned ==
  /\ \A k \in Keys : ids[k] # None => entries[ids[k]].used /\ entries[ids[k]].key = k
  /\ \A i \in IDs : entries[i].used => ids[entries[i].key] = i

(* The refresher that has refreshMu is reading, not about to. *)
HolderReads == holder = "refresher" => refresher = "reading"

(* The flow IDs that are in use for a destination. *)
UsedFor(d) == {i \in IDs : entries[i].used /\ entries[i].key.dst = d}

DstsAreCounted == \A d \in Dsts : dsts[d] = Cardinality(UsedFor(d))

SenderHasID ==
  channel = "glue" => ids[watched] # None /\ entries[ids[watched]].age <= unsent

ChannelIsDecided ==
  channel # "none" =>
    /\ routes[watched].decided
    /\ routes[watched].glue <=> channel = "glue"
    /\ routes[watched].age <= unsent

IInv ==
  /\ TypeOK
  /\ RoutesAreSettled /\ HeldIsFresh
  /\ IDsAreOwned /\ DstsAreCounted
  /\ SenderHasID /\ ChannelIsDecided
  /\ HolderReads /\ UnknownPortsAreLookedUp

-----------------------------------------------------------------------------
(* Types, and what the updates of records do.                              *)

PortTypes ==
  /\ os \in [Ports -> Owners] /\ byPort \in [Ports -> Owners] /\ snap \in [Ports -> Owners]
  /\ holder \in {"nobody", "ticker", "refresher"}
  /\ kicked \in BOOLEAN
  /\ refresher \in {"waiting", "asked", "reading"}
  /\ ticker \in {"waiting", "refreshing", "routes", "flows"}
  /\ wanted \in SUBSET Ports

LoopTypes == held \in Keys \union {None} /\ routes \in [Keys -> RouteStates]

TableTypes ==
  /\ ids \in [Keys -> IDs \union {None}] /\ entries \in [IDs -> EntryStates]
  /\ next \in IDs /\ dsts \in [Dsts -> Nat]

FlowTypes ==
  /\ watched \in Keys
  /\ channel \in {"none", "vpn", "glue"} /\ unsent \in 0 .. Idle

LEMMA Types ==
  /\ TypeOK <=> PortTypes /\ LoopTypes /\ TableTypes /\ FlowTypes
  /\ TypeOK' <=> PortTypes' /\ LoopTypes' /\ TableTypes' /\ FlowTypes'
BY DEF TypeOK, PortTypes, LoopTypes, TableTypes, FlowTypes

(* A key, an ID and None are told apart. *)
LEMMA Distinct ==
  /\ None \notin Keys /\ None \notin IDs /\ IDs \subseteq Int /\ 0 \in IDs
  /\ \A k \in Keys : k.port \in Ports /\ k.dst \in Dsts
  /\ Idle \in Nat /\ UnknownWait \in Nat
  BY GameSplitAssumption DEF IDs

LEMMA EntryFacts ==
  ASSUME NEW e \in EntryStates
  PROVE  /\ e.used \in BOOLEAN
         /\ e.used => e.key \in Keys /\ e.age \in 0 .. Idle + 1
         /\ ~e.used => e = NoEntry
<1>1. CASE e \in [used : {TRUE}, key : Keys, age : 0 .. Idle + 1]
  BY <1>1
<1>2. CASE e = NoEntry
  <2>1. e.used = FALSE
    BY <1>2 DEF NoEntry
  <2> QED
    BY <1>2, <2>1
<1> QED
  BY <1>1, <1>2 DEF EntryStates

LEMMA UsedEntry ==
  ASSUME NEW k \in Keys, NEW a \in 0 .. Idle + 1
  PROVE  LET e == [used |-> TRUE, key |-> k, age |-> a] IN
         e \in EntryStates /\ e.used /\ e.key = k /\ e.age = a
BY DEF EntryStates

LEMMA RouteFacts ==
  ASSUME NEW r \in RouteStates
  PROVE  /\ r.known \in BOOLEAN /\ r.decided \in BOOLEAN /\ r.glue \in BOOLEAN
         /\ r.first \in 0 .. UnknownWait /\ r.age \in 0 .. Idle + 1
BY DEF RouteStates

LEMMA NewRoutes ==
  /\ NewRoute \in RouteStates /\ NoRoute \in RouteStates
  /\ NewRoute.known /\ ~NewRoute.decided /\ ~NewRoute.glue
  /\ ~NoRoute.known /\ ~NoRoute.decided /\ ~NoRoute.glue
<1>1. /\ NewRoute \in RouteStates
      /\ NewRoute.known = TRUE /\ NewRoute.decided = FALSE /\ NewRoute.glue = FALSE
  BY Distinct DEF NewRoute, RouteStates
<1>2. /\ NoRoute \in RouteStates /\ NoRoute.known = FALSE
      /\ NoRoute.decided = NewRoute.decided /\ NoRoute.glue = NewRoute.glue
  BY <1>1 DEF NoRoute, RouteStates
<1> QED
  BY <1>1, <1>2

LEMMA SettledIs ==
  ASSUME NEW r \in RouteStates, NEW g \in BOOLEAN
  PROVE  /\ Settled(r, g) \in RouteStates
         /\ Settled(r, g).known = r.known /\ Settled(r, g).age = r.age
         /\ Settled(r, g).decided /\ Settled(r, g).glue = g
<1> DEFINE d == [r EXCEPT !.decided = TRUE]
           e == [d EXCEPT !.glue = g]
<1>1. d \in RouteStates /\ d.known = r.known /\ d.age = r.age /\ d.decided = TRUE
  BY DEF RouteStates
<1>2. Settled(r, g) = [e EXCEPT !.first = 0]
  BY DEF Settled
<1> HIDE DEF d
<1>3. /\ e \in RouteStates /\ e.known = r.known /\ e.age = r.age /\ e.decided = TRUE
      /\ e.glue = g
  BY <1>1 DEF RouteStates
<1> HIDE DEF e
<1> QED
  BY <1>2, <1>3, Distinct DEF RouteStates

(* A packet makes a route known and fresh and changes no decision.         *)
LEMMA RouteStep ==
  ASSUME IInv, NEW k \in Keys, NEW name \in Owners
  PROVE  LET rt == Decided(RouteOf(k), name) IN
         /\ rt \in RouteStates /\ rt.known /\ rt.age = 0
         /\ rt.glue => rt.decided
         /\ routes[k].decided => rt.decided /\ (rt.glue <=> routes[k].glue)
<1>1. /\ routes[k] \in RouteStates
      /\ routes[k].glue => routes[k].decided
      /\ routes[k].decided => routes[k].known
  BY DEF IInv, TypeOK, RoutesAreSettled
<1>2. PICK r \in RouteStates : r = IF routes[k].known THEN routes[k] ELSE NewRoute
  BY <1>1, NewRoutes
<1>3. /\ r.known /\ (r.glue => r.decided)
      /\ routes[k].decided => r.decided /\ (r.glue <=> routes[k].glue)
  BY <1>1, <1>2, NewRoutes
<1>4. PICK q : q = RouteOf(k)
  OBVIOUS
<1>5. /\ q \in RouteStates /\ q.known = r.known /\ q.age = 0
      /\ q.decided = r.decided /\ q.glue = r.glue
  BY <1>2, <1>4, Distinct DEF RouteOf, RouteStates
<1>6. CASE Decided(q, name) = q
  BY <1>3, <1>4, <1>5, <1>6
<1>7. CASE ~q.decided /\ \E g \in BOOLEAN : Decided(q, name) = Settled(q, g)
  <2>1. PICK g \in BOOLEAN : Decided(q, name) = Settled(q, g)
    BY <1>7
  <2>2. /\ Decided(q, name) \in RouteStates
        /\ Decided(q, name).known = q.known /\ Decided(q, name).age = q.age
        /\ Decided(q, name).decided
    BY <1>5, <2>1, SettledIs
  <2>3. ~routes[k].decided
    BY <1>3, <1>5, <1>7
  <2> QED
    BY <1>3, <1>4, <1>5, <2>2, <2>3
<1>8. Decided(q, name) = q \/ (~q.decided /\ \E g \in BOOLEAN : Decided(q, name) = Settled(q, g))
  BY DEF Decided
<1> QED
  BY <1>6, <1>7, <1>8

-----------------------------------------------------------------------------
(* The steps that leave both tables alone.                                 *)

LEMMA TablesKept ==
  ASSUME IInv, UNCHANGED tableVars
  PROVE  IDsAreOwned' /\ DstsAreCounted'
BY DEF IInv, IDsAreOwned, DstsAreCounted, UsedFor, tableVars

LEMMA ReopenKeeps ==
  ASSUME IInv, NEW p \in Ports, NEW who \in Owners, Reopen(p, who)
  PROVE  IInv'
<1>1. /\ os' = [os EXCEPT ![p] = who]
      /\ (channel' = "none" /\ unsent' = 0) \/ UNCHANGED <<channel, unsent>>
      /\ UNCHANGED <<osVars, kicked, refresher, ticker, loopVars, tableVars, wanted,
                     watched>>
  BY DEF Reopen
<1>2. TypeOK'
  <2>1. PortTypes'
    BY <1>1, Types DEF IInv, PortTypes, osVars
  <2>2. LoopTypes' /\ TableTypes'
    BY <1>1, Types DEF IInv, LoopTypes, TableTypes, loopVars, tableVars
  <2>3. FlowTypes'
    BY <1>1, Types, Distinct DEF IInv, FlowTypes
  <2> QED
    BY <2>1, <2>2, <2>3, Types
<1>3. RoutesAreSettled' /\ HeldIsFresh'
  BY <1>1 DEF IInv, RoutesAreSettled, HeldIsFresh, loopVars
<1>4. SenderHasID' /\ ChannelIsDecided'
  BY <1>1 DEF IInv, SenderHasID, ChannelIsDecided, loopVars, tableVars
<1>5. HolderReads' /\ UnknownPortsAreLookedUp'
  BY <1>1 DEF IInv, HolderReads, UnknownPortsAreLookedUp, osVars
<1> QED
  BY <1>1, <1>2, <1>3, <1>4, <1>5, TablesKept DEF IInv

(* The port table is read and published, by either of its two readers.     *)
LEMMA PortTableKeeps ==
  ASSUME IInv, TakeKick \/ Reload \/ Reloaded \/ TickerReload \/ TickerReloaded
  PROVE  IInv'
<1>1. /\ UNCHANGED <<os, loopVars, tableVars, flowVars>>
      /\ byPort' \in {snap, byPort} /\ snap' \in {os, Nobody, snap}
      /\ kicked' \in {kicked, FALSE} /\ wanted' \in {wanted, {}}
      /\ holder' \in {holder, "nobody", "ticker", "refresher"}
      /\ refresher' \in {refresher, "asked", "reading", "waiting"}
      /\ ticker' \in {ticker, "refreshing", "routes"}
  BY DEF TakeKick, Reload, Reloaded, TickerReload, TickerReloaded, ReadTable, Publish, osVars
<1>2. TypeOK'
  <2>1. Nobody \in [Ports -> Owners]
    BY GameSplitAssumption DEF Nobody
  <2>2. PortTypes'
    <3>1. PortTypes
      BY Types DEF IInv
    <3>2. /\ os' \in [Ports -> Owners] /\ byPort' \in [Ports -> Owners]
          /\ snap' \in [Ports -> Owners]
      <4>1. /\ os \in [Ports -> Owners] /\ byPort \in [Ports -> Owners]
            /\ snap \in [Ports -> Owners]
        BY <3>1 DEF PortTypes
      <4>2. /\ os' = os
            /\ byPort' = snap \/ byPort' = byPort
            /\ snap' = os \/ snap' = Nobody \/ snap' = snap
        BY <1>1
      <4> QED
        BY <2>1, <4>1, <4>2
    <3>3. /\ holder' \in {"nobody", "ticker", "refresher"}
          /\ refresher' \in {"waiting", "asked", "reading"}
          /\ ticker' \in {"waiting", "refreshing", "routes", "flows"}
      BY <1>1, <3>1 DEF PortTypes
    <3>4. kicked' \in BOOLEAN
      BY <1>1, <3>1 DEF PortTypes
    <3>5. wanted' \in SUBSET Ports
      <4>1. wanted \in SUBSET Ports
        BY <3>1 DEF PortTypes
      <4> QED
        BY <1>1, <4>1
    <3> QED
      BY <3>2, <3>3, <3>4, <3>5 DEF PortTypes
  <2>3. LoopTypes' /\ TableTypes' /\ FlowTypes'
    BY <1>1, Types DEF IInv, LoopTypes, TableTypes, FlowTypes, loopVars, tableVars, flowVars
  <2> QED
    BY <2>2, <2>3, Types
<1>3. RoutesAreSettled' /\ HeldIsFresh'
  BY <1>1 DEF IInv, RoutesAreSettled, HeldIsFresh, loopVars
<1>4. SenderHasID' /\ ChannelIsDecided'
  BY <1>1 DEF IInv, SenderHasID, ChannelIsDecided, loopVars, tableVars, flowVars
<1>5. UnknownPortsAreLookedUp'
  <2>1. CASE TakeKick
    BY <2>1 DEF TakeKick, UnknownPortsAreLookedUp
  <2>2. CASE Reload \/ TickerReload
    BY <2>2 DEF Reload, TickerReload, ReadTable, UnknownPortsAreLookedUp
  <2>3. CASE Reloaded
    BY <2>3 DEF IInv, HolderReads, Reloaded, Publish, UnknownPortsAreLookedUp
  <2>4. CASE TickerReloaded
    BY <2>4 DEF IInv, TickerReloaded, UnknownPortsAreLookedUp
  <2> QED
    BY <2>1, <2>2, <2>3, <2>4
<1>6. HolderReads'
  BY DEF IInv, HolderReads, TakeKick, Reload, Reloaded, TickerReload, TickerReloaded,
         ReadTable, Publish, osVars
<1> QED
  BY <1>1, <1>2, <1>3, <1>4, <1>5, <1>6, TablesKept DEF IInv

-----------------------------------------------------------------------------
(* The read loop.                                                          *)

LEMMA FlowTypesKept ==
  ASSUME FlowTypes, NEW k \in Keys, UNCHANGED watched,
         \/ UNCHANGED flowVars
         \/ Sent(k, "vpn") \/ Sent(k, "glue")
  PROVE  FlowTypes'
<1>1. CASE UNCHANGED flowVars
  BY <1>1 DEF FlowTypes, flowVars
<1>2. CASE Sent(k, "vpn") \/ Sent(k, "glue")
  <2>1. CASE k = watched
    <3>1. channel' \in {"vpn", "glue"} /\ unsent' = 0
      BY <1>2, <2>1 DEF Sent
    <3>2. 0 \in 0 .. Idle
      BY Distinct
    <3> QED
      BY <3>1, <3>2 DEF FlowTypes
  <2>2. CASE k # watched
    BY <1>2, <2>2 DEF FlowTypes, Sent
  <2> QED
    BY <2>1, <2>2
<1> QED
  BY <1>1, <1>2

LEMMA ClassifyKeeps ==
  ASSUME IInv, NEW k \in Keys, Classify(k)
  PROVE  IInv'
<1> DEFINE rt == Decided(RouteOf(k), byPort[k.port])
<1>1. byPort[k.port] \in Owners
  BY Types, Distinct DEF IInv, PortTypes
<1>2. /\ rt \in RouteStates /\ rt.known /\ rt.age = 0 /\ (rt.glue => rt.decided)
      /\ routes[k].decided => rt.decided /\ (rt.glue <=> routes[k].glue)
  BY <1>1, RouteStep
<1>3. /\ held = None /\ routes' = [routes EXCEPT ![k] = rt]
      /\ UNCHANGED <<os, osVars, refresher, ticker, tableVars, watched>>
  BY DEF Classify, flowVars
<1>4. \/ rt.glue /\ held' = k /\ UNCHANGED <<kicked, wanted, flowVars>>
      \/ rt.decided /\ ~rt.glue /\ held' = None /\ Sent(k, "vpn") /\ UNCHANGED <<kicked, wanted>>
      \/ ~rt.decided /\ held' = None /\ Kick(k.port) /\ UNCHANGED flowVars
  BY <1>3 DEF Classify
<1> HIDE DEF rt
<1>5. /\ LoopTypes /\ LoopTypes' /\ routes'[k] = rt
      /\ \A j \in Keys : j # k => routes'[j] = routes[j]
  BY <1>2, <1>3, <1>4, Types DEF IInv, LoopTypes
<1>6. TypeOK'
  <2>1. PortTypes'
    BY <1>3, <1>4, Types, Distinct DEF IInv, PortTypes, Kick, Buffered, osVars
  <2>2. FlowTypes'
    BY <1>3, <1>4, Types, FlowTypesKept DEF IInv
  <2>3. TableTypes'
    BY <1>3, Types DEF IInv, TableTypes, tableVars
  <2> QED
    BY <1>5, <2>1, <2>2, <2>3, Types
<1>7. RoutesAreSettled' /\ HeldIsFresh'
  <2>1. RoutesAreSettled'
    BY <1>2, <1>5 DEF IInv, RoutesAreSettled
  <2>2. HeldIsFresh'
    BY <1>2, <1>4, <1>5 DEF HeldIsFresh
  <2> QED
    BY <2>1, <2>2
<1>8. SenderHasID'
  BY <1>2, <1>3, <1>4 DEF IInv, SenderHasID, flowVars, tableVars, Sent
<1>9. ChannelIsDecided'
  <2>1. watched \in Keys /\ unsent \in Nat
    BY Types, Distinct DEF IInv, FlowTypes
  <2>2. CASE k = watched
    <3>1. /\ routes'[watched] = rt /\ watched' = watched
          /\ channel # "none" => rt.decided /\ (rt.glue <=> channel = "glue")
      BY <1>2, <1>3, <1>5, <2>1, <2>2 DEF IInv, ChannelIsDecided
    <3>2. \/ rt.decided /\ UNCHANGED <<channel, unsent>>
          \/ rt.decided /\ ~rt.glue /\ channel' = "vpn" /\ unsent' = 0
          \/ ~rt.decided /\ UNCHANGED <<channel, unsent>>
      BY <1>2, <1>4, <2>2 DEF flowVars, Sent
    <3> QED
      BY <1>2, <2>1, <3>1, <3>2 DEF ChannelIsDecided
  <2>3. CASE k # watched
    BY <1>3, <1>4, <1>5, <2>1, <2>3 DEF IInv, ChannelIsDecided, flowVars, Sent
  <2> QED
    BY <2>2, <2>3
<1>10. HolderReads' /\ UnknownPortsAreLookedUp'
  BY <1>3, <1>4 DEF IInv, HolderReads, UnknownPortsAreLookedUp, osVars, Kick, Buffered
<1> QED
  BY <1>3, <1>6, <1>7, <1>8, <1>9, <1>10, TablesKept DEF IInv

(* A flow ID that is used again.                                           *)
LEMMA TouchedIs ==
  ASSUME IInv, NEW i \in IDs, entries[i].used
  PROVE  /\ Touched(i) \in [IDs -> EntryStates] /\ Touched(i)[i].age = 0
         /\ \A j \in IDs : /\ Touched(i)[j].used = entries[j].used
                           /\ Touched(i)[j].key = entries[j].key
                           /\ j # i => Touched(i)[j] = entries[j]
<1>1. entries \in [IDs -> EntryStates]
  BY Types DEF IInv, TableTypes
<1>2. PICK e : e = entries[i]
  OBVIOUS
<1>3. e \in [used : {TRUE}, key : Keys, age : 0 .. Idle + 1]
  <2>1. e \in EntryStates /\ e # NoEntry
    BY <1>1, <1>2 DEF NoEntry
  <2> QED
    BY <2>1 DEF EntryStates
<1>4. PICK f : f = [e EXCEPT !.age = 0]
  OBVIOUS
<1>5. f \in EntryStates /\ f.used = e.used /\ f.key = e.key /\ f.age = 0
  <2>1. 0 \in 0 .. Idle + 1
    BY Distinct
  <2>2. /\ f \in [used : {TRUE}, key : Keys, age : 0 .. Idle + 1]
        /\ f.used = e.used /\ f.key = e.key /\ f.age = 0
    BY <1>3, <1>4, <2>1
  <2> QED
    BY <2>2 DEF EntryStates
<1>6. Touched(i) = [entries EXCEPT ![i] = f]
  BY <1>2, <1>4 DEF Touched
<1> QED
  BY <1>1, <1>2, <1>5, <1>6

LEMMA UsedForFinite ==
  ASSUME NEW d
  PROVE  IsFiniteSet(IDs) /\ IsFiniteSet(UsedFor(d))
<1>1. IsFiniteSet(IDs)
  BY GameSplitAssumption, FS_Interval DEF IDs
<1> QED
  BY <1>1, FS_Subset DEF UsedFor

LEMMA SameOwners ==
  ASSUME IInv, UNCHANGED <<ids, dsts>>,
         \A j \in IDs : /\ entries'[j].used = entries[j].used
                        /\ entries[j].used => entries'[j].key = entries[j].key
  PROVE  IDsAreOwned' /\ DstsAreCounted'
<1>1. IDsAreOwned'
  BY Types DEF IInv, IDsAreOwned, TableTypes
<1>2. ASSUME NEW d \in Dsts
      PROVE  UsedFor(d)' = UsedFor(d)
  BY DEF UsedFor
<1> QED
  BY <1>1, <1>2 DEF IInv, DstsAreCounted

LEMMA KeepIDKeeps ==
  ASSUME IInv, NEW k \in Keys, KeepID(k)
  PROVE  IInv'
<1>1. /\ held = k /\ ids[k] # None /\ entries' = Touched(ids[k])
      /\ Sent(k, "glue") /\ held' = None
      /\ UNCHANGED <<os, osVars, kicked, refresher, ticker, routes, ids, next, dsts,
                     wanted, watched>>
  BY DEF KeepID
<1>2. ids[k] \in IDs /\ entries[ids[k]].used
  BY <1>1, Types DEF IInv, TableTypes, IDsAreOwned
<1>3. /\ entries' \in [IDs -> EntryStates] /\ entries'[ids[k]].age = 0
      /\ \A j \in IDs : /\ entries'[j].used = entries[j].used
                        /\ entries'[j].key = entries[j].key
                        /\ j # ids[k] => entries'[j] = entries[j]
  BY <1>1, <1>2, TouchedIs
<1>4. TypeOK'
  <2>1. PortTypes' /\ LoopTypes'
    BY <1>1, Types DEF IInv, PortTypes, LoopTypes, osVars
  <2>2. TableTypes'
    BY <1>1, <1>3, Types DEF IInv, TableTypes
  <2>3. FlowTypes'
    BY <1>1, Types, FlowTypesKept DEF IInv
  <2> QED
    BY <2>1, <2>2, <2>3, Types
<1>5. RoutesAreSettled' /\ HeldIsFresh' /\ HolderReads' /\ UnknownPortsAreLookedUp'
  BY <1>1 DEF IInv, RoutesAreSettled, HeldIsFresh, HolderReads,
     UnknownPortsAreLookedUp, osVars
<1>6. watched \in Keys /\ routes[watched].age \in Nat /\ watched # None
  BY Types, RouteFacts, Distinct DEF IInv, FlowTypes, LoopTypes
<1>7. SenderHasID'
  <2>1. CASE k = watched
    BY <1>1, <1>3, <2>1 DEF SenderHasID, Sent
  <2>2. CASE k # watched
    <3>1. ids[watched] \in IDs \union {None} /\ (ids[watched] # None => ids[watched] # ids[k])
      BY <1>1, <1>6, <2>2, Types DEF IInv, TableTypes, IDsAreOwned
    <3> QED
      BY <1>1, <1>3, <1>6, <2>2, <3>1 DEF IInv, SenderHasID, Sent
  <2> QED
    BY <2>1, <2>2
<1>8. ChannelIsDecided'
  BY <1>1, <1>6 DEF IInv, ChannelIsDecided, HeldIsFresh, RoutesAreSettled, Sent
<1> QED
  BY <1>1, <1>3, <1>4, <1>5, <1>7, <1>8, SameOwners DEF IInv

(* The search for the next free ID finds one if there is one.              *)
LEMMA NextFreeIs ==
  ASSUME next \in IDs, Free # {}
  PROVE  NextFree \in Free
<1> DEFINE Steps(i) == (i - next - 1) % NumIDs
           dist == [i \in Free |-> Steps(i)]
           T == {dist[i] : i \in Free}
<1>1. NumIDs \in Nat \ {0} /\ Free \subseteq Int /\ next \in Int
  BY GameSplitAssumption DEF Free, IDs
<1>2. \A i \in Free : Steps(i) \in Nat
  BY <1>1
<1>3. T \subseteq Nat /\ T # {}
  BY <1>2
<1>4. \E x \in T : \A y \in T : <<y, x>> \notin OpToRel(<, Nat)
  BY <1>3, NatLessThanWellFounded, WFMin, Zenon
<1>5. PICK x \in T : \A y \in T : <<y, x>> \notin OpToRel(<, Nat)
  BY <1>4
<1>6. \A y \in T : x <= y
  <2>1. SUFFICES ASSUME NEW y \in T, ~(x <= y) PROVE FALSE
    OBVIOUS
  <2>2. x \in Nat /\ y \in Nat
    BY <1>3
  <2>3. y < x
    BY <2>1, <2>2
  <2>4. <<y, x>> \in OpToRel(<, Nat)
    BY <2>2, <2>3 DEF OpToRel
  <2> QED
    BY <1>5, <2>4, Zenon
<1>7. PICK i \in Free : x = dist[i]
  BY <1>5
<1>8. \A j \in Free : Steps(i) <= Steps(j)
  BY <1>6, <1>7
<1> QED
  BY <1>8 DEF NextFree

LEMMA NewIDKeeps ==
  ASSUME IInv, NEW k \in Keys, NewID(k)
  PROVE  IInv'
<1>1. PICK f : f = NextFree
  OBVIOUS
<1>2. /\ held = k /\ ids[k] = None /\ Free # {} /\ next' = f
      /\ ids' = [ids EXCEPT ![k] = f]
      /\ entries' = [entries EXCEPT ![f] = [used |-> TRUE, key |-> k, age |-> 0]]
      /\ dsts' = [dsts EXCEPT ![k.dst] = @ + 1]
      /\ Sent(k, "glue") /\ held' = None
      /\ UNCHANGED <<os, osVars, kicked, refresher, ticker, routes, wanted, watched>>
  BY <1>1 DEF NewID
<1>3. TableTypes
  BY Types DEF IInv
<1>4. f \in IDs /\ ~entries[f].used
  <2>1. f \in Free
    BY <1>1, <1>2, <1>3, NextFreeIs DEF TableTypes
  <2> QED
    BY <2>1 DEF Free
<1>5. /\ TableTypes'
      /\ ids'[k] = f /\ entries'[f].used /\ entries'[f].key = k /\ entries'[f].age = 0
      /\ \A j \in Keys : j # k => ids'[j] = ids[j]
      /\ \A i \in IDs : i # f => entries'[i] = entries[i]
      /\ dsts'[k.dst] = dsts[k.dst] + 1
      /\ \A d \in Dsts : d # k.dst => dsts'[d] = dsts[d]
  <2>1. 0 \in 0 .. Idle + 1
    BY Distinct
  <2>2. PICK e \in EntryStates : /\ e = [used |-> TRUE, key |-> k, age |-> 0]
                                 /\ e.used /\ e.key = k /\ e.age = 0
    BY <2>1, UsedEntry
  <2>3. entries' = [entries EXCEPT ![f] = e]
    BY <1>2, <2>2
  <2> QED
    BY <1>2, <1>3, <1>4, <2>2, <2>3, Distinct DEF TableTypes
<1>6. TypeOK'
  <2>1. PortTypes' /\ LoopTypes'
    BY <1>2, Types DEF IInv, PortTypes, LoopTypes, osVars
  <2>2. FlowTypes'
    BY <1>2, Types, FlowTypesKept DEF IInv
  <2> QED
    BY <1>5, <2>1, <2>2, Types
<1>7. RoutesAreSettled' /\ HeldIsFresh' /\ HolderReads' /\ UnknownPortsAreLookedUp'
  BY <1>2 DEF IInv, RoutesAreSettled, HeldIsFresh, HolderReads,
     UnknownPortsAreLookedUp, osVars
<1>8. IDsAreOwned'
  <2>1. ASSUME NEW j \in Keys, ids'[j] # None
        PROVE  entries'[ids'[j]].used /\ entries'[ids'[j]].key = j
    BY <1>3, <1>4, <1>5, <2>1 DEF IInv, IDsAreOwned, TableTypes
  <2>2. ASSUME NEW i \in IDs, entries'[i].used
        PROVE  ids'[entries'[i].key] = i
    <3>1. CASE i = f
      BY <1>5, <3>1
    <3>2. CASE i # f
      <4>1. /\ entries[i].used /\ entries[i].key \in Keys /\ ids[entries[i].key] = i
            /\ entries'[i] = entries[i]
        BY <1>3, <1>5, <2>2, <3>2, EntryFacts DEF IInv, IDsAreOwned, TableTypes
      <4>2. entries[i].key # k
        BY <1>2, <4>1, Distinct
      <4> QED
        BY <1>5, <4>1, <4>2
    <3> QED
      BY <3>1, <3>2
  <2> QED
    BY <2>1, <2>2 DEF IDsAreOwned
<1>9. DstsAreCounted'
  <2>1. ASSUME NEW d \in Dsts
        PROVE  dsts'[d] = Cardinality(UsedFor(d)')
    <3>1. IsFiniteSet(UsedFor(d)) /\ dsts[d] = Cardinality(UsedFor(d)) /\ f \notin UsedFor(d)
      BY <1>4, UsedForFinite DEF IInv, DstsAreCounted, UsedFor
    <3>2. CASE d = k.dst
      <4>1. UsedFor(d)' = UsedFor(d) \union {f}
        BY <1>4, <1>5, <3>2 DEF UsedFor
      <4>2. Cardinality(UsedFor(d) \union {f}) = Cardinality(UsedFor(d)) + 1
        BY <3>1, FS_AddElement
      <4> QED
        BY <1>5, <3>1, <3>2, <4>1, <4>2
    <3>3. CASE d # k.dst
      <4>1. UsedFor(d)' = UsedFor(d)
        BY <1>4, <1>5, <3>3 DEF UsedFor
      <4> QED
        BY <1>5, <3>1, <3>3, <4>1
    <3> QED
      BY <3>2, <3>3
  <2> QED
    BY <2>1 DEF DstsAreCounted
<1>10. watched \in Keys /\ routes[watched].age \in Nat /\ watched # None
  BY Types, RouteFacts, Distinct DEF IInv, FlowTypes, LoopTypes
<1>11. SenderHasID'
  <2>1. CASE k = watched
    BY <1>2, <1>4, <1>5, <2>1, Distinct DEF SenderHasID, Sent
  <2>2. CASE k # watched
    <3>1. /\ UNCHANGED <<watched, channel, unsent>>
          /\ ids'[watched] = ids[watched]
      BY <1>2, <1>5, <1>10, <2>2 DEF Sent
    <3>2. ids[watched] # None => ids[watched] \in IDs /\ ids[watched] # f
      BY <1>3, <1>4, <1>10 DEF IInv, IDsAreOwned, TableTypes
    <3> QED
      BY <1>5, <3>1, <3>2 DEF IInv, SenderHasID
  <2> QED
    BY <2>1, <2>2
<1>12. ChannelIsDecided'
  BY <1>2, <1>10 DEF IInv, ChannelIsDecided, HeldIsFresh, RoutesAreSettled, Sent
<1> QED
  BY <1>6, <1>7, <1>8, <1>9, <1>11, <1>12 DEF IInv

LEMMA NoIDKeeps ==
  ASSUME IInv, NEW k \in Keys, NoID(k)
  PROVE  IInv'
<1>1. /\ held = k /\ held' = None
      /\ UNCHANGED <<os, osVars, kicked, refresher, ticker, routes, tableVars, wanted, flowVars>>
  BY DEF NoID
<1>2. TypeOK'
  <2>1. PortTypes' /\ LoopTypes' /\ TableTypes'
    BY <1>1, Types DEF IInv, PortTypes, LoopTypes, TableTypes, osVars, tableVars
  <2>2. FlowTypes'
    BY <1>1, Types DEF IInv, FlowTypes, flowVars
  <2> QED
    BY <2>1, <2>2, Types
<1>3. RoutesAreSettled' /\ HeldIsFresh' /\ HolderReads' /\ UnknownPortsAreLookedUp'
  BY <1>1 DEF IInv, RoutesAreSettled, HeldIsFresh, HolderReads,
     UnknownPortsAreLookedUp, osVars
<1>4. SenderHasID' /\ ChannelIsDecided'
  BY <1>1 DEF IInv, SenderHasID, ChannelIsDecided, flowVars, tableVars
<1> QED
  BY <1>1, <1>2, <1>3, <1>4, TablesKept DEF IInv

(* A reply.                                                                *)
LEMMA GlueReplyKeeps ==
  ASSUME IInv, NEW i \in IDs, GlueReply(i)
  PROVE  IInv'
<1>1. /\ entries[i].used /\ entries' = Touched(i)
      /\ UNCHANGED <<os, osVars, kicked, refresher, ticker, loopVars, ids, next, dsts,
                     wanted, flowVars>>
  BY DEF GlueReply
<1>2. /\ entries' \in [IDs -> EntryStates] /\ entries'[i].age = 0
      /\ \A j \in IDs : /\ entries'[j].used = entries[j].used
                        /\ entries'[j].key = entries[j].key
                        /\ j # i => entries'[j] = entries[j]
  BY <1>1, TouchedIs
<1>3. TypeOK'
  <2>1. PortTypes' /\ LoopTypes' /\ FlowTypes'
    BY <1>1, Types DEF IInv, PortTypes, LoopTypes, FlowTypes, osVars, loopVars, flowVars
  <2>2. TableTypes'
    BY <1>1, <1>2, Types DEF IInv, TableTypes
  <2> QED
    BY <2>1, <2>2, Types
<1>4. RoutesAreSettled' /\ HeldIsFresh' /\ HolderReads' /\ UnknownPortsAreLookedUp'
  BY <1>1 DEF IInv, RoutesAreSettled, HeldIsFresh, HolderReads,
     UnknownPortsAreLookedUp, osVars, loopVars
<1>5. SenderHasID'
  <2>1. watched \in Keys /\ unsent \in Nat /\ ids[watched] \in IDs \union {None}
    BY Types, Distinct DEF IInv, FlowTypes, TableTypes
  <2>2. /\ channel' = channel /\ watched' = watched /\ unsent' = unsent
        /\ ids'[watched] = ids[watched]
    BY <1>1 DEF flowVars
  <2>3. ASSUME channel = "glue"
        PROVE  ids[watched] \in IDs /\ entries[ids[watched]].age <= unsent
    BY <2>1, <2>3 DEF IInv, SenderHasID
  <2>4. ASSUME channel = "glue"
        PROVE  entries'[ids[watched]].age <= unsent
    <3>1. CASE ids[watched] = i
      BY <1>2, <2>1, <3>1
    <3>2. CASE ids[watched] # i
      BY <1>2, <2>3, <2>4, <3>2
    <3> QED
      BY <3>1, <3>2
  <2>5. ASSUME channel = "glue" PROVE ids[watched] # None
    BY <2>5 DEF IInv, SenderHasID
  <2> QED
    BY <2>2, <2>4, <2>5 DEF SenderHasID
<1>6. ChannelIsDecided'
  BY <1>1 DEF IInv, ChannelIsDecided, loopVars, flowVars
<1> QED
  BY <1>1, <1>2, <1>3, <1>4, <1>5, <1>6, SameOwners DEF IInv

-----------------------------------------------------------------------------
(* The ticker.                                                             *)

LEMMA SweepRoutesKeeps ==
  ASSUME IInv, SweepRoutes
  PROVE  IInv'
<1>1. /\ ticker = "routes" /\ ticker' = "flows"
      /\ routes' = [k \in Keys |->
                      IF routes[k].known /\ IsIdle(routes[k].age) THEN NoRoute ELSE routes[k]]
      /\ UNCHANGED <<os, osVars, kicked, refresher, held, tableVars, wanted, flowVars>>
  BY DEF SweepRoutes
<1>2. \A k \in Keys :
        /\ routes[k] \in RouteStates
        /\ routes'[k] = NoRoute \/ routes'[k] = routes[k]
        /\ routes[k].age <= Idle => routes'[k] = routes[k]
        /\ routes'[k].known => routes'[k].age <= Idle
  <2>1. ASSUME NEW k \in Keys
        PROVE  /\ routes[k] \in RouteStates
               /\ routes'[k] = NoRoute \/ routes'[k] = routes[k]
               /\ routes[k].age <= Idle => routes'[k] = routes[k]
               /\ routes'[k].known => routes'[k].age <= Idle
    <3>1. routes[k] \in RouteStates /\ routes[k].age \in Nat
      BY Types, RouteFacts, Distinct DEF IInv, LoopTypes
    <3>2. CASE routes[k].known /\ routes[k].age > Idle
      BY <1>1, <3>1, <3>2, NewRoutes, Distinct DEF IsIdle
    <3>3. CASE ~(routes[k].known /\ routes[k].age > Idle)
      BY <1>1, <3>1, <3>3, Distinct DEF IsIdle
    <3> QED
      BY <3>2, <3>3
  <2> QED
    BY <2>1
<1>3. TypeOK'
  <2>1. PortTypes' /\ TableTypes'
    BY <1>1, Types DEF IInv, PortTypes, TableTypes, osVars, tableVars
  <2>2. LoopTypes'
    BY <1>1, <1>2, NewRoutes, Types DEF IInv, LoopTypes
  <2>3. FlowTypes'
    BY <1>1, Types DEF IInv, FlowTypes, flowVars
  <2> QED
    BY <2>1, <2>2, <2>3, Types
<1>4. RoutesAreSettled' /\ HolderReads' /\ UnknownPortsAreLookedUp'
  BY <1>1, <1>2, NewRoutes DEF IInv, RoutesAreSettled, HolderReads,
     UnknownPortsAreLookedUp, osVars
<1>5. HeldIsFresh'
  BY <1>1, <1>2, Types, Distinct DEF IInv, HeldIsFresh, LoopTypes
<1>6. watched \in Keys /\ unsent \in 0 .. Idle /\ routes[watched].age \in Nat
  BY Types, RouteFacts, Distinct DEF IInv, FlowTypes, LoopTypes
<1>7. SenderHasID'
  BY <1>1 DEF IInv, SenderHasID, tableVars, flowVars
<1>8. ChannelIsDecided'
  BY <1>1, <1>2, <1>6, Distinct DEF IInv, ChannelIsDecided, flowVars
<1> QED
  BY <1>1, <1>3, <1>4, <1>5, <1>7, <1>8, TablesKept DEF IInv

(* What the sweep of the flows leaves.                                     *)
IdleIDs == {i \in IDs : entries[i].used /\ IsIdle(entries[i].age)}

LEMMA SweepFlowsStep ==
  ASSUME IInv, SweepFlows
  PROVE  /\ TableTypes' /\ IDsAreOwned' /\ DstsAreCounted'
         /\ \A k \in Keys : ids[k] # None /\ ids[k] \notin IdleIDs => ids'[k] = ids[k]
         /\ \A i \in IDs : i \notin IdleIDs => entries'[i] = entries[i]
<1>1. /\ entries' = [i \in IDs |-> IF i \in IdleIDs THEN NoEntry ELSE entries[i]]
      /\ ids' = IDsWithout({entries[i].key : i \in IdleIDs})
      /\ dsts' = [d \in Dsts |->
                    dsts[d] - Cardinality({i \in IdleIDs : entries[i].key.dst = d})]
      /\ UNCHANGED next
  BY DEF SweepFlows, IdleIDs
<1>2. TableTypes /\ IDsAreOwned /\ DstsAreCounted
  BY Types DEF IInv
<1>3. NoEntry \in EntryStates /\ NoEntry.used = FALSE
  BY DEF EntryStates, NoEntry
<1>4. /\ entries' \in [IDs -> EntryStates]
      /\ \A i \in IDs : i \notin IdleIDs => entries'[i] = entries[i]
      /\ \A i \in IdleIDs : entries'[i] = NoEntry
  BY <1>1, <1>2, <1>3 DEF TableTypes, IdleIDs
<1>5. ids' = [k \in Keys |-> IF k \in {entries[i].key : i \in IdleIDs} THEN None ELSE ids[k]]
  BY <1>1 DEF IDsWithout
<1>6. \A i \in IdleIDs : entries[i].key \in Keys /\ ids[entries[i].key] = i
  BY <1>2, EntryFacts DEF IDsAreOwned, TableTypes, IdleIDs
<1>7. \A k \in Keys : ids'[k] = IF ids[k] \in IdleIDs THEN None ELSE ids[k]
  <2>1. SUFFICES ASSUME NEW k \in Keys
                 PROVE  ids'[k] = IF ids[k] \in IdleIDs THEN None ELSE ids[k]
    OBVIOUS
  <2>2. CASE \E i \in IdleIDs : entries[i].key = k
    BY <1>5, <1>6, <2>2
  <2>3. CASE ~\E i \in IdleIDs : entries[i].key = k
    <3>1. ids[k] \notin IdleIDs
      BY <1>2, <2>3, Distinct DEF IDsAreOwned, IdleIDs
    <3> QED
      BY <1>5, <2>3, <3>1
  <2> QED
    BY <2>2, <2>3
<1>8. ids' \in [Keys -> IDs \union {None}]
  BY <1>2, <1>5 DEF TableTypes
<1>9. dsts' \in [Dsts -> Nat] /\ DstsAreCounted'
  <2>1. ASSUME NEW d \in Dsts
        PROVE  dsts'[d] \in Nat /\ dsts'[d] = Cardinality(UsedFor(d)')
    <3> DEFINE gone == {i \in IdleIDs : entries[i].key.dst = d}
    <3>1. IsFiniteSet(UsedFor(d)) /\ dsts[d] = Cardinality(UsedFor(d))
      BY <1>2, UsedForFinite DEF DstsAreCounted
    <3>2. UsedFor(d)' = UsedFor(d) \ gone /\ UsedFor(d) \cap gone = gone
      BY <1>3, <1>4 DEF UsedFor, IdleIDs
    <3>3. dsts'[d] = dsts[d] - Cardinality(gone)
      BY <1>1
    <3> HIDE DEF gone
    <3>4. /\ IsFiniteSet(UsedFor(d) \ gone)
          /\ Cardinality(UsedFor(d) \ gone)
               = Cardinality(UsedFor(d)) - Cardinality(UsedFor(d) \cap gone)
      BY <3>1, FS_Difference
    <3>5. dsts'[d] = Cardinality(UsedFor(d) \ gone)
      BY <3>1, <3>2, <3>3, <3>4
    <3> QED
      BY <3>2, <3>4, <3>5, FS_CardinalityType
  <2> QED
    BY <1>1, <2>1 DEF DstsAreCounted
<1>10. IDsAreOwned'
  <2>1. ASSUME NEW k \in Keys, ids'[k] # None
        PROVE  entries'[ids'[k]].used /\ entries'[ids'[k]].key = k
    <3>1. ids'[k] = ids[k] /\ ids[k] \in IDs \ IdleIDs
      BY <1>2, <1>7, <2>1 DEF TableTypes
    <3> QED
      BY <1>2, <1>4, <2>1, <3>1 DEF IDsAreOwned
  <2>2. ASSUME NEW i \in IDs, entries'[i].used
        PROVE  ids'[entries'[i].key] = i
    <3>1. i \notin IdleIDs /\ entries'[i] = entries[i]
      BY <1>3, <1>4, <2>2
    <3>2. entries[i].key \in Keys /\ ids[entries[i].key] = i
      BY <1>2, <2>2, <3>1, EntryFacts DEF IDsAreOwned, TableTypes
    <3> QED
      BY <1>7, <3>1, <3>2
  <2> QED
    BY <2>1, <2>2 DEF IDsAreOwned
<1> QED
  BY <1>1, <1>2, <1>4, <1>7, <1>8, <1>9, <1>10 DEF TableTypes

LEMMA SweepFlowsKeeps ==
  ASSUME IInv, SweepFlows
  PROVE  IInv'
<1>1. /\ ticker = "flows" /\ ticker' = "waiting"
      /\ UNCHANGED <<os, osVars, kicked, refresher, loopVars, wanted, flowVars>>
  BY DEF SweepFlows
<1>2. /\ TableTypes' /\ IDsAreOwned' /\ DstsAreCounted'
      /\ \A k \in Keys : ids[k] # None /\ ids[k] \notin IdleIDs => ids'[k] = ids[k]
      /\ \A i \in IDs : i \notin IdleIDs => entries'[i] = entries[i]
  BY SweepFlowsStep
<1>3. TypeOK'
  <2>1. PortTypes' /\ LoopTypes' /\ FlowTypes'
    BY <1>1, Types DEF IInv, PortTypes, LoopTypes, FlowTypes, osVars, loopVars, flowVars
  <2> QED
    BY <1>2, <2>1, Types
<1>4. RoutesAreSettled' /\ HeldIsFresh' /\ HolderReads' /\ UnknownPortsAreLookedUp'
  BY <1>1 DEF IInv, RoutesAreSettled, HeldIsFresh, HolderReads,
     UnknownPortsAreLookedUp, osVars, loopVars
<1>5. ChannelIsDecided'
  BY <1>1 DEF IInv, ChannelIsDecided, loopVars, flowVars
<1>6. SenderHasID'
  <2>1. SUFFICES ASSUME channel = "glue"
                 PROVE  ids'[watched] # None /\ entries'[ids'[watched]].age <= unsent
    BY <1>1 DEF SenderHasID, flowVars
  <2>2. watched \in Keys /\ unsent \in 0 .. Idle
    BY Types DEF IInv, FlowTypes
  <2>3. ids[watched] \in IDs /\ ids[watched] # None /\ entries[ids[watched]].age <= unsent
    BY <2>1, <2>2, Types DEF IInv, SenderHasID, TableTypes
  <2>4. ids[watched] \notin IdleIDs
    <3>1. PICK e \in EntryStates : e = entries[ids[watched]]
      BY <2>3, Types DEF IInv, TableTypes
    <3>2. e.used => e.age \in Nat
      BY <3>1, EntryFacts, Distinct
    <3>3. ~(e.used /\ e.age > Idle)
      BY <2>2, <2>3, <3>1, <3>2, Distinct
    <3> QED
      BY <3>1, <3>3 DEF IdleIDs, IsIdle
  <2> QED
    BY <1>2, <2>2, <2>3, <2>4
<1> QED
  BY <1>2, <1>3, <1>4, <1>5, <1>6 DEF IInv

-----------------------------------------------------------------------------
(* Time.                                                                   *)

LEMMA OlderIs ==
  ASSUME NEW a \in 0 .. Idle + 1
  PROVE  /\ Older(a) \in 0 .. Idle + 1 /\ a <= Older(a) /\ Older(a) <= a + 1
         /\ \A b \in 0 .. Idle + 1 : a <= b => Older(a) <= Older(b)
BY Distinct DEF Older, Lesser

(* The ages after a tick: those of the routes and of the flows in use grow. *)
LEMMA TickStep ==
  ASSUME IInv, Tick
  PROVE  /\ routes' \in [Keys -> RouteStates] /\ entries' \in [IDs -> EntryStates]
         /\ \A k \in Keys :
              /\ routes'[k].known = routes[k].known
              /\ routes'[k].decided = routes[k].decided /\ routes'[k].glue = routes[k].glue
              /\ routes[k].known => routes'[k].age = Older(routes[k].age)
         /\ \A i \in IDs :
              /\ entries'[i].used = entries[i].used /\ entries'[i].key = entries[i].key
              /\ entries[i].used => entries'[i].age = Older(entries[i].age)
<1>1. /\ routes' = [k \in Keys |->
           IF routes[k].known
             THEN [routes[k] EXCEPT !.first = IF routes[k].decided THEN @
                                              ELSE Lesser(@ + 1, UnknownWait),
                                    !.age = Older(@)]
             ELSE routes[k]]
      /\ entries' = [i \in IDs |->
           IF entries[i].used THEN [entries[i] EXCEPT !.age = Older(@)] ELSE entries[i]]
  BY DEF Tick
<1>2. /\ routes \in [Keys -> RouteStates] /\ entries \in [IDs -> EntryStates]
  BY Types DEF IInv, LoopTypes, TableTypes
<1>3. ASSUME NEW k \in Keys
      PROVE  /\ routes'[k] \in RouteStates
             /\ routes'[k].known = routes[k].known
             /\ routes'[k].decided = routes[k].decided /\ routes'[k].glue = routes[k].glue
             /\ routes[k].known => routes'[k].age = Older(routes[k].age)
  <2>1. CASE ~routes[k].known
    BY <1>1, <1>2, <2>1
  <2>2. CASE routes[k].known
    <3>1. PICK r \in RouteStates : r = routes[k]
      BY <1>2
    <3>2. PICK first \in 0 .. UnknownWait :
            first = IF r.decided THEN r.first ELSE Lesser(r.first + 1, UnknownWait)
      BY <3>1, RouteFacts, Distinct DEF Lesser
    <3>3. PICK q : q = [r EXCEPT !.first = first]
      OBVIOUS
    <3>4. /\ q \in RouteStates /\ q.known = r.known /\ q.decided = r.decided
          /\ q.glue = r.glue /\ q.age = r.age
      BY <3>2, <3>3 DEF RouteStates
    <3>5. PICK age \in 0 .. Idle + 1 : age = Older(r.age)
      BY <3>1, RouteFacts, OlderIs
    <3>6. routes'[k] = [q EXCEPT !.age = age]
      <4>1. routes'[k] = [r EXCEPT !.first = IF r.decided THEN @
                                             ELSE Lesser(@ + 1, UnknownWait),
                                   !.age = Older(@)]
        BY <1>1, <2>2, <3>1
      <4> QED
        BY <3>2, <3>3, <3>4, <3>5, <4>1 DEF RouteStates
    <3>7. /\ routes'[k] \in RouteStates /\ routes'[k].known = q.known
          /\ routes'[k].decided = q.decided /\ routes'[k].glue = q.glue
          /\ routes'[k].age = age
      BY <3>4, <3>5, <3>6 DEF RouteStates
    <3> QED
      BY <3>1, <3>4, <3>5, <3>7
  <2> QED
    BY <2>1, <2>2
<1>4. ASSUME NEW i \in IDs
      PROVE  /\ entries'[i] \in EntryStates
             /\ entries'[i].used = entries[i].used /\ entries'[i].key = entries[i].key
             /\ entries[i].used => entries'[i].age = Older(entries[i].age)
  <2>1. CASE ~entries[i].used
    BY <1>1, <1>2, <2>1
  <2>2. CASE entries[i].used
    <3>1. PICK e : e = entries[i]
      OBVIOUS
    <3>2. e \in [used : {TRUE}, key : Keys, age : 0 .. Idle + 1]
      <4>1. e \in EntryStates /\ e # NoEntry
        BY <1>2, <2>2, <3>1 DEF NoEntry
      <4> QED
        BY <4>1 DEF EntryStates
    <3>3. PICK age \in 0 .. Idle + 1 : age = Older(e.age)
      BY <3>2, OlderIs
    <3>4. entries'[i] = [e EXCEPT !.age = age]
      BY <1>1, <2>2, <3>1, <3>2, <3>3
    <3>5. /\ entries'[i] \in [used : {TRUE}, key : Keys, age : 0 .. Idle + 1]
          /\ entries'[i].used = e.used /\ entries'[i].key = e.key /\ entries'[i].age = age
      BY <3>2, <3>3, <3>4
    <3> QED
      BY <3>1, <3>3, <3>5 DEF EntryStates
  <2> QED
    BY <2>1, <2>2
<1> QED
  BY <1>1, <1>3, <1>4

LEMMA TickKeeps ==
  ASSUME IInv, Tick
  PROVE  IInv'
<1>1. /\ held = None /\ ticker = "waiting"
      /\ IF channel = "none" \/ unsent = Idle
           THEN channel' = "none" /\ unsent' = 0
           ELSE unsent' = unsent + 1 /\ UNCHANGED channel
      /\ UNCHANGED <<os, osVars, kicked, refresher, ticker, held, ids, next, dsts,
                     wanted, watched>>
  BY DEF Tick
<1>2. /\ routes' \in [Keys -> RouteStates] /\ entries' \in [IDs -> EntryStates]
      /\ \A k \in Keys :
           /\ routes'[k].known = routes[k].known
           /\ routes'[k].decided = routes[k].decided /\ routes'[k].glue = routes[k].glue
           /\ routes[k].known => routes'[k].age = Older(routes[k].age)
      /\ \A i \in IDs :
           /\ entries'[i].used = entries[i].used /\ entries'[i].key = entries[i].key
           /\ entries[i].used => entries'[i].age = Older(entries[i].age)
  BY TickStep
<1>3. TypeOK'
  <2>1. PortTypes' /\ LoopTypes'
    BY <1>1, <1>2, Types DEF IInv, PortTypes, LoopTypes, osVars
  <2>2. TableTypes'
    BY <1>1, <1>2, Types DEF IInv, TableTypes
  <2>3. FlowTypes'
    BY <1>1, Types, Distinct DEF IInv, FlowTypes
  <2> QED
    BY <2>1, <2>2, <2>3, Types
<1>4. RoutesAreSettled' /\ HeldIsFresh' /\ HolderReads' /\ UnknownPortsAreLookedUp'
  BY <1>1, <1>2 DEF IInv, RoutesAreSettled, HeldIsFresh, HolderReads,
     UnknownPortsAreLookedUp, osVars
<1>5. watched \in Keys /\ unsent \in Nat /\ routes[watched].age \in 0 .. Idle + 1
  BY Types, RouteFacts, Distinct DEF IInv, FlowTypes, LoopTypes
<1>6. SenderHasID'
  <2>1. SUFFICES ASSUME channel' = "glue"
                 PROVE  ids[watched] # None /\ entries'[ids[watched]].age <= unsent'
    BY <1>1 DEF SenderHasID
  <2>2. channel = "glue" /\ unsent' = unsent + 1
    BY <1>1, <2>1
  <2>3. /\ ids[watched] \in IDs /\ ids[watched] # None /\ entries[ids[watched]].used
        /\ entries[ids[watched]].age <= unsent
    BY <1>5, <2>2, Types DEF IInv, SenderHasID, IDsAreOwned, TableTypes
  <2>4. entries[ids[watched]].age \in 0 .. Idle + 1
    BY <2>3, Types, EntryFacts DEF IInv, TableTypes
  <2>5. PICK a \in 0 .. Idle + 1 : a = entries[ids[watched]].age
    BY <2>4
  <2>6. Older(a) \in Nat /\ Older(a) <= a + 1 /\ a \in Nat /\ a <= unsent
    BY <2>3, <2>5, OlderIs, Distinct
  <2>7. entries'[ids[watched]].age = Older(a)
    BY <1>2, <2>3, <2>5
  <2> QED
    BY <1>5, <2>2, <2>3, <2>6, <2>7
<1>7. ChannelIsDecided'
  <2>1. SUFFICES ASSUME channel' # "none"
                 PROVE  /\ routes'[watched].decided
                        /\ routes'[watched].glue <=> channel' = "glue"
                        /\ routes'[watched].age <= unsent'
    BY <1>1 DEF ChannelIsDecided
  <2>2. channel # "none" /\ channel' = channel /\ unsent' = unsent + 1
    BY <1>1, <2>1
  <2>3. /\ routes[watched].decided /\ routes[watched].known
        /\ routes[watched].glue <=> channel = "glue"
        /\ routes[watched].age <= unsent
    BY <1>5, <2>2 DEF IInv, ChannelIsDecided, RoutesAreSettled
  <2>4. /\ Older(routes[watched].age) \in Nat
        /\ Older(routes[watched].age) <= routes[watched].age + 1
    BY <1>5, OlderIs, Distinct
  <2> QED
    BY <1>2, <1>5, <2>2, <2>3, <2>4
<1> QED
  BY <1>1, <1>2, <1>3, <1>4, <1>6, <1>7, SameOwners DEF IInv

-----------------------------------------------------------------------------
LEMMA InitIInv == Init => IInv
<1> SUFFICES ASSUME Init PROVE IInv
  OBVIOUS
<1>1. TypeOK
  <2>1. Nobody \in [Ports -> Owners]
    BY GameSplitAssumption DEF Nobody
  <2>2. NoRoute \in RouteStates /\ NoEntry \in EntryStates
    BY NewRoutes DEF EntryStates
  <2>3. PortTypes /\ LoopTypes
    BY <2>1, <2>2 DEF Init, PortTypes, LoopTypes
  <2>4. TableTypes
    BY <2>2, Distinct DEF Init, TableTypes
  <2>5. FlowTypes
    <3>1. 0 \in 0 .. Idle
      BY Distinct
    <3> QED
      BY <3>1 DEF Init, FlowTypes
  <2> QED
    BY <2>3, <2>4, <2>5, Types
<1>2. RoutesAreSettled /\ HeldIsFresh /\ HolderReads /\ UnknownPortsAreLookedUp
  BY NewRoutes
     DEF Init, RoutesAreSettled, HeldIsFresh, HolderReads, UnknownPortsAreLookedUp
<1>3. \A i \in IDs : entries[i].used = FALSE
  BY DEF Init, NoEntry
<1>4. IDsAreOwned
  BY <1>3 DEF Init, IDsAreOwned
<1>5. DstsAreCounted
  <2>1. \A d \in Dsts : UsedFor(d) = {}
    BY <1>3 DEF UsedFor
  <2> QED
    BY <2>1, FS_EmptySet DEF Init, DstsAreCounted
<1>6. SenderHasID /\ ChannelIsDecided
  BY NewRoutes DEF Init, SenderHasID, ChannelIsDecided
<1> QED
  BY <1>1, <1>2, <1>4, <1>5, <1>6 DEF IInv

LEMMA NextIInv == IInv /\ [Next]_vars => IInv'
<1> SUFFICES ASSUME IInv, [Next]_vars PROVE IInv'
  OBVIOUS
<1>1. ASSUME NEW p \in Ports, NEW who \in Owners, Reopen(p, who)
      PROVE  IInv'
  BY <1>1, ReopenKeeps
<1>2. ASSUME NEW k \in Keys, Classify(k) \/ KeepID(k) \/ NewID(k) \/ NoID(k)
      PROVE  IInv'
  BY <1>2, ClassifyKeeps, KeepIDKeeps, NewIDKeeps, NoIDKeeps
<1>3. ASSUME NEW i \in IDs, GlueReply(i)
      PROVE  IInv'
  BY <1>3, GlueReplyKeeps
<1>4. CASE TakeKick \/ Reload \/ Reloaded \/ TickerReload \/ TickerReloaded
  BY <1>4, PortTableKeeps
<1>5. CASE SweepRoutes
  BY <1>5, SweepRoutesKeeps
<1>6. CASE SweepFlows
  BY <1>6, SweepFlowsKeeps
<1>7. CASE Tick
  BY <1>7, TickKeeps
<1>8. CASE UNCHANGED vars
  <2>1. TypeOK'
    BY <1>8 DEF IInv, TypeOK, vars, osVars, loopVars, tableVars, flowVars
  <2>2. /\ RoutesAreSettled' /\ HeldIsFresh' /\ HolderReads'
        /\ UnknownPortsAreLookedUp'
    BY <1>8 DEF IInv, RoutesAreSettled, HeldIsFresh, HolderReads,
       UnknownPortsAreLookedUp, vars, osVars, loopVars
  <2>3. SenderHasID' /\ ChannelIsDecided'
    BY <1>8 DEF IInv, SenderHasID, ChannelIsDecided, vars, loopVars, tableVars, flowVars
  <2>4. IDsAreOwned' /\ DstsAreCounted'
    BY <1>8, TablesKept DEF vars
  <2> QED
    BY <2>1, <2>2, <2>3, <2>4 DEF IInv
<1> QED
  BY <1>1, <1>2, <1>3, <1>4, <1>5, <1>6, <1>7, <1>8 DEF Next

-----------------------------------------------------------------------------
(* The routes, the flow IDs and the port table fit each other and the      *)
(* recent past of a flow (router.go:50-86, flows.go:54-112) in every       *)
(* reachable state.                                                        *)
THEOREM InductiveInvariant == Spec => []IInv
<1> QED
  BY InitIInv, NextIInv, PTL DEF Spec

(* The variables keep their types (router.go:20-38, flows.go:28-43).       *)
THEOREM TypeCorrect == Spec => []TypeOK
<1>1. IInv => TypeOK
  BY DEF IInv
<1> QED
  BY <1>1, InductiveInvariant, PTL

(* The two maps and the counters of the flow table agree with each other   *)
(* after any sequence of packets, replies and sweeps (flows.go:54-112).    *)
THEOREM TablesCorrect == Spec => []TablesAgree
<1>1. IInv => TablesAgree
  <2> SUFFICES ASSUME IInv PROVE TablesAgree
    OBVIOUS
  <2>1. ASSUME NEW d \in Dsts
        PROVE  HasDst(d) <=> \E k \in Keys : k.dst = d /\ ids[k] # None
    <3>1. IsFiniteSet(UsedFor(d)) /\ dsts[d] = Cardinality(UsedFor(d)) /\ dsts[d] \in Nat
      BY UsedForFinite, Types DEF IInv, DstsAreCounted, TableTypes
    <3>2. HasDst(d) <=> UsedFor(d) # {}
      BY <3>1, FS_EmptySet DEF HasDst
    <3>3. ASSUME NEW i \in UsedFor(d)
          PROVE  \E k \in Keys : k.dst = d /\ ids[k] # None
      <4>1. i \in IDs /\ entries[i].used /\ entries[i].key.dst = d
        BY DEF UsedFor
      <4>2. entries[i].key \in Keys /\ ids[entries[i].key] = i
        BY <4>1, EntryFacts, Types DEF IInv, IDsAreOwned, TableTypes
      <4> QED
        BY <4>1, <4>2, Distinct
    <3>4. ASSUME NEW k \in Keys, k.dst = d, ids[k] # None
          PROVE  ids[k] \in UsedFor(d)
      BY <3>4, Types DEF IInv, IDsAreOwned, TableTypes, UsedFor
    <3> QED
      BY <3>2, <3>3, <3>4
  <2> QED
    BY <2>1 DEF IInv, IDsAreOwned, TablesAgree
<1> QED
  BY <1>1, InductiveInvariant, PTL

(* A packet dropped because of its port always has a refresh coming that   *)
(* has not read the table yet (router.go:70-72, 88-111).                   *)
THEOREM UnknownPortsAsked == Spec => []UnknownPortsAreLookedUp
<1>1. IInv => UnknownPortsAreLookedUp
  BY DEF IInv
<1> QED
  BY <1>1, InductiveInvariant, PTL

(* A flow that sends at least every Idle never changes its channel, be it  *)
(* that its port table, its route or its ID is reloaded, swept or replaced *)
(* in between (router.go:10-13, 50-86).                                    *)
THEOREM SendersAreKept == Spec => SendersKeepTheirChannel
<1>1. ASSUME IInv, [Next]_vars, channel # "none", channel' # "none"
      PROVE  channel' = channel
  <2>1. watched \in Keys /\ channel \in {"none", "vpn", "glue"}
    BY <1>1, Types DEF IInv, FlowTypes
  <2>2. /\ routes[watched].decided
        /\ routes[watched].glue <=> channel = "glue"
    BY <1>1 DEF IInv, ChannelIsDecided
  <2>3. ASSUME NEW k \in Keys, Classify(k)
        PROVE  channel' = channel
    <3> DEFINE rt == Decided(RouteOf(k), byPort[k.port])
    <3>1. byPort[k.port] \in Owners
      BY <1>1, Types, Distinct DEF IInv, PortTypes
    <3>2. routes[k].decided => rt.decided /\ (rt.glue <=> routes[k].glue)
      BY <1>1, <3>1, RouteStep
    <3>3. UNCHANGED channel \/ (rt.decided /\ ~rt.glue /\ Sent(k, "vpn"))
      BY <2>3 DEF Classify, flowVars
    <3> HIDE DEF rt
    <3> QED
      BY <2>1, <2>2, <1>1, <3>2, <3>3 DEF Sent
  <2>4. ASSUME NEW k \in Keys, KeepID(k) \/ NewID(k)
        PROVE  channel' = channel
    <3>1. held = k /\ Sent(k, "glue")
      BY <2>4 DEF KeepID, NewID
    <3>2. routes[k].glue
      BY <1>1, <3>1, Distinct DEF IInv, HeldIsFresh
    <3> QED
      BY <2>2, <3>1, <3>2 DEF Sent
  <2>5. ASSUME NEW p \in Ports, NEW who \in Owners, Reopen(p, who)
        PROVE  channel' = channel
    BY <1>1, <2>5 DEF Reopen
  <2>6. CASE Tick
    BY <1>1, <2>6 DEF Tick
  <2>7. ASSUME NEW k \in Keys, NoID(k)
        PROVE  channel' = channel
    BY <2>7 DEF NoID, flowVars
  <2>8. ASSUME NEW i \in IDs, GlueReply(i)
        PROVE  channel' = channel
    BY <2>8 DEF GlueReply, flowVars
  <2>9. CASE TakeKick \/ Reload \/ Reloaded \/ TickerReload \/ TickerReloaded
             \/ SweepRoutes \/ SweepFlows \/ UNCHANGED vars
    BY <2>9 DEF TakeKick, Reload, Reloaded, TickerReload, TickerReloaded, SweepRoutes,
       SweepFlows, vars, flowVars
  <2> QED
    BY <1>1, <2>3, <2>4, <2>5, <2>6, <2>7, <2>8, <2>9 DEF Next
<1>2. IInv /\ [Next]_vars => [channel # "none" /\ channel' # "none" => channel' = channel]_vars
  BY <1>1
<1> QED
  BY <1>2, InductiveInvariant, PTL DEF Spec, SendersKeepTheirChannel

(* A game flow that sends at least every Idle is never given another ID,   *)
(* whenever the two tables are swept and however many flows compete for    *)
(* the IDs (flows.go:54-100, vpn.go:177-178).                              *)
THEOREM IDsAreKept == Spec => SendersKeepTheirID
<1>1. ASSUME IInv, [Next]_vars, channel = "glue", channel' = "glue"
      PROVE  ids'[watched] = ids[watched]
  <2>1. /\ watched \in Keys /\ unsent \in 0 .. Idle
        /\ ids[watched] \in IDs /\ ids[watched] # None
        /\ entries[ids[watched]].age <= unsent
    BY <1>1, Types DEF IInv, FlowTypes, TableTypes, SenderHasID
  <2>2. ASSUME NEW k \in Keys, NewID(k)
        PROVE  ids'[watched] = ids[watched]
    <3>1. ids[k] = None /\ ids' = [ids EXCEPT ![k] = NextFree]
      BY <2>2 DEF NewID
    <3> QED
      BY <1>1, <2>1, <3>1, Types DEF IInv, TableTypes
  <2>3. CASE SweepFlows
    <3>1. \A k \in Keys : ids[k] # None /\ ids[k] \notin IdleIDs => ids'[k] = ids[k]
      BY <1>1, <2>3, SweepFlowsStep
    <3>2. PICK e \in EntryStates : e = entries[ids[watched]]
      BY <1>1, <2>1, Types DEF IInv, TableTypes
    <3>3. e.used => e.age \in Nat
      BY <3>2, EntryFacts, Distinct
    <3>4. ids[watched] \notin IdleIDs
      BY <2>1, <3>2, <3>3, Distinct DEF IdleIDs, IsIdle
    <3> QED
      BY <2>1, <3>1, <3>4
  <2>4. ASSUME NEW p \in Ports, NEW who \in Owners, Reopen(p, who)
        PROVE  ids' = ids
    BY <2>4 DEF Reopen, tableVars
  <2>5. ASSUME NEW k \in Keys, Classify(k) \/ KeepID(k) \/ NoID(k)
        PROVE  ids' = ids
    BY <2>5 DEF Classify, KeepID, NoID, tableVars
  <2>6. ASSUME NEW i \in IDs, GlueReply(i)
        PROVE  ids' = ids
    BY <2>6 DEF GlueReply
  <2>7. CASE TakeKick \/ Reload \/ Reloaded \/ TickerReload \/ TickerReloaded
             \/ SweepRoutes \/ Tick \/ UNCHANGED vars
    BY <2>7 DEF TakeKick, Reload, Reloaded, TickerReload, TickerReloaded, SweepRoutes,
       Tick, vars, tableVars
  <2> QED
    BY <1>1, <2>2, <2>3, <2>4, <2>5, <2>6, <2>7 DEF Next
<1>2. IInv /\ [Next]_vars =>
        [channel = "glue" /\ channel' = "glue" => ids'[watched] = ids[watched]]_vars
  BY <1>1
<1> QED
  BY <1>2, InductiveInvariant, PTL DEF Spec, SendersKeepTheirID
=============================================================================
