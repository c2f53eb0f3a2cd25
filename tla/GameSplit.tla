----------------------------- MODULE GameSplit -----------------------------
(***************************************************************************)
(* How the client picks the channel of every UDP packet when               *)
(* game_processes is set (cmd/client/router.go, flows.go, vpn.go 137-181): *)
(* the router decides by the process that owns the local port, and packets *)
(* of games get a glue flow ID.                                            *)
(*                                                                         *)
(* Four goroutines share the tables: the TUN read loop classifies packets, *)
(* the reply handler looks flow IDs up, a ticker refreshes the port table  *)
(* and sweeps both tables, and a refresher reloads the port table when the *)
(* read loop met an unknown port.                                          *)
(*                                                                         *)
(* Times are kept as ages that stop growing at the first value they are    *)
(* compared with.  An age counts at the "now" that the loop or the ticker  *)
(* took before it started, so no time passes while either is under way.    *)
(* The history is kept for one flow, whichever it is.                      *)
(***************************************************************************)
EXTENDS Integers, FiniteSets

CONSTANTS
  Ports, Dsts,
  Keys,          \* the 4-tuples that occur, as [port, dst]
  Owners,        \* what the port table can say of a port; "other" is also a
                 \* process without a name
  NumIDs,        \* how many flow IDs there are (2^16 in the code)
  UnknownWait,   \* udpRouter.unknownWait
  Idle,          \* gameFlowIdleTimeout
  None

ASSUME GameSplitAssumption ==
  /\ Keys \subseteq [port : Ports, dst : Dsts]
  /\ IsFiniteSet(Keys)
  /\ "absent" \in Owners /\ Owners \subseteq {"game", "other", "absent"}
  /\ NumIDs \in Nat \ {0} /\ UnknownWait \in Nat /\ Idle \in Nat
  /\ None \notin Keys \union Int

IDs == 0 .. NumIDs - 1

VARIABLES
  os,        \* who has the port open now
  byPort,    \* procmap.Table.byPort: who had, when the table was last read
  holder,    \* who holds refreshMu: "nobody", "ticker" or "refresher"
  snap,      \* the table its holder has just read
  kicked,    \* refresher.kicks: a refresh is asked for
  refresher, \* "waiting", "asked" (has taken a kick) or "reading"
  ticker,    \* "waiting", "refreshing", "routes" or "flows"
  held,      \* the game packet between classify and flowTable.id, if any
  routes,    \* udpRouter.routes
  ids,       \* flowTable.ids
  entries,   \* flowTable.flows
  next,      \* flowTable.next
  dsts,      \* flowTable.dsts
  \* history
  wanted,    \* ports looked up in vain since the table was last read
  watched,   \* the flow the rest is about
  channel,   \* the channel of its last packet that was sent; "none" when
             \* that was longer than Idle ago
  unsent     \* how long ago that was

osVars    == <<byPort, holder, snap>>
loopVars  == <<held, routes>>
tableVars == <<ids, entries, next, dsts>>
flowVars  == <<watched, channel, unsent>>
vars == <<os, osVars, kicked, refresher, ticker, loopVars, tableVars, wanted, flowVars>>

Nobody   == [p \in Ports |-> "absent"]
NewRoute == [known |-> TRUE, decided |-> FALSE, glue |-> FALSE, first |-> 0, age |-> 0]
NoRoute  == [NewRoute EXCEPT !.known = FALSE]
NoEntry  == [used |-> FALSE, key |-> None, age |-> 0]

RouteStates ==
  [known : BOOLEAN, decided : BOOLEAN, glue : BOOLEAN,
   first : 0 .. UnknownWait, age : 0 .. Idle + 1]
EntryStates ==
  [used : {TRUE}, key : Keys, age : 0 .. Idle + 1] \union {NoEntry}

TypeOK ==
  /\ os \in [Ports -> Owners] /\ byPort \in [Ports -> Owners] /\ snap \in [Ports -> Owners]
  /\ holder \in {"nobody", "ticker", "refresher"}
  /\ kicked \in BOOLEAN
  /\ refresher \in {"waiting", "asked", "reading"}
  /\ ticker \in {"waiting", "refreshing", "routes", "flows"}
  /\ held \in Keys \union {None}
  /\ routes \in [Keys -> RouteStates]
  /\ ids \in [Keys -> IDs \union {None}]
  /\ entries \in [IDs -> EntryStates]
  /\ next \in IDs
  /\ dsts \in [Dsts -> Nat]
  /\ wanted \in SUBSET Ports
  /\ watched \in Keys
  /\ channel \in {"none", "vpn", "glue"}
  /\ unsent \in 0 .. Idle

Init ==
  /\ os = Nobody /\ byPort = Nobody /\ snap = Nobody
  /\ holder = "nobody" /\ kicked = FALSE
  /\ refresher = "waiting" /\ ticker = "waiting"
  /\ held = None
  /\ routes = [k \in Keys |-> NoRoute]
  /\ ids = [k \in Keys |-> None]
  /\ entries = [i \in IDs |-> NoEntry]
  /\ next = 0
  /\ dsts = [d \in Dsts |-> 0]
  /\ wanted = {}
  /\ watched \in Keys
  /\ channel = "none" /\ unsent = 0

-----------------------------------------------------------------------------
(* The operating system.                                                   *)

(* A socket is closed, or opened by some process; what is sent from the    *)
(* port then is a new flow.                                                *)
Reopen(p, who) ==
  /\ who # os[p]
  /\ os' = [os EXCEPT ![p] = who]
  /\ IF watched.port = p THEN channel' = "none" /\ unsent' = 0
                         ELSE UNCHANGED <<channel, unsent>>
  /\ UNCHANGED <<osVars, kicked, refresher, ticker, loopVars, tableVars, wanted, watched>>

-----------------------------------------------------------------------------
(* The read loop.                                                          *)

(* A packet of flow k is sent over a channel. *)
Sent(k, where) ==
  IF k = watched
    THEN channel' = where /\ unsent' = 0
    ELSE UNCHANGED <<channel, unsent>>

(* classify: the route after a packet, name being what the table says.     *)
(* The time of the first packet is not read any more after the decision.   *)
Settled(rt, glue) == [rt EXCEPT !.decided = TRUE, !.glue = glue, !.first = 0]

Decided(rt, name) ==
  IF rt.decided THEN rt
  ELSE IF name # "absent" THEN Settled(rt, name = "game")
  ELSE IF rt.first >= UnknownWait THEN Settled(rt, FALSE)
  ELSE rt

RouteOf(k) ==
  [(IF routes[k].known THEN routes[k] ELSE NewRoute) EXCEPT !.age = 0]

(* refresher.kick: the channel holds one kick, a second one is merged.     *)
\* Variant with a bug: the channel has no buffer.
Unbuffered == refresher = "waiting"
Buffered   == TRUE
Kick(p) == kicked' = (kicked \/ Buffered) /\ wanted' = wanted \union {p}

Classify(k) ==
  LET rt == Decided(RouteOf(k), byPort[k.port]) IN
  /\ held = None
  /\ routes' = [routes EXCEPT ![k] = rt]
  /\ \/ rt.decided /\ rt.glue
        /\ held' = k
        /\ UNCHANGED <<kicked, wanted, flowVars>>
     \/ rt.decided /\ ~rt.glue
        /\ Sent(k, "vpn")
        /\ UNCHANGED <<held, kicked, wanted, watched>>
     \/ ~rt.decided
        /\ Kick(k.port)
        /\ UNCHANGED <<held, flowVars>>
  /\ UNCHANGED <<os, osVars, refresher, ticker, tableVars>>

(* flowTable.id: the ID the flow has, or the next free one. *)
Free == {i \in IDs : ~entries[i].used}

NextFree ==
  LET Steps(i) == (i - next - 1) % NumIDs IN
  CHOOSE i \in Free : \A j \in Free : Steps(i) <= Steps(j)

\* Variant with a bug: a packet does not count as activity.
Untouched(i) == entries
Touched(i) == [entries EXCEPT ![i].age = 0]

KeepID(k) ==
  /\ held = k /\ ids[k] # None
  /\ entries' = Touched(ids[k])
  /\ Sent(k, "glue")
  /\ held' = None
  /\ UNCHANGED <<os, osVars, kicked, refresher, ticker, routes, ids, next, dsts,
                 wanted, watched>>

NewID(k) ==
  /\ held = k /\ ids[k] = None /\ Free # {}
  /\ next' = NextFree
  /\ ids' = [ids EXCEPT ![k] = NextFree]
  /\ entries' = [entries EXCEPT ![NextFree] = [used |-> TRUE, key |-> k, age |-> 0]]
  /\ dsts' = [dsts EXCEPT ![k.dst] = @ + 1]
  /\ Sent(k, "glue")
  /\ held' = None
  /\ UNCHANGED <<os, osVars, kicked, refresher, ticker, routes, wanted, watched>>

NoID(k) ==
  /\ held = k /\ ids[k] = None /\ Free = {}
  /\ held' = None
  /\ UNCHANGED <<os, osVars, kicked, refresher, ticker, routes, tableVars, wanted, flowVars>>

(* A fragment is kept off the vpn channel when it may belong to a glue     *)
(* flow.                                                                   *)
HasDst(d) == dsts[d] > 0

-----------------------------------------------------------------------------
(* A reply over glue.  Those that come over vpn touch no table.            *)
GlueReply(i) ==
  /\ entries[i].used
  /\ entries' = Touched(i)
  /\ UNCHANGED <<os, osVars, kicked, refresher, ticker, loopVars, ids, next, dsts,
                 wanted, flowVars>>

-----------------------------------------------------------------------------
(* The port table.                                                         *)

(* Table.Refresh: the system's table is read under refreshMu and published *)
(* unless the call failed.                                                 *)
ReadTable(who) ==
  /\ holder = "nobody"
  /\ holder' = who
  /\ snap' = os
  /\ wanted' = {}
  /\ UNCHANGED byPort

Publish(who) ==
  /\ holder = who
  /\ holder' = "nobody"
  /\ byPort' \in {snap, byPort}
  /\ snap' = Nobody

(* The refresher takes a kick and reloads the table; kicks that come       *)
(* meanwhile are merged into one.                                          *)
TakeKick ==
  /\ refresher = "waiting" /\ kicked
  /\ kicked' = FALSE
  /\ refresher' = "asked"
  /\ UNCHANGED <<os, osVars, ticker, loopVars, tableVars, wanted, flowVars>>

Reload ==
  /\ refresher = "asked"
  /\ ReadTable("refresher")
  /\ refresher' = "reading"
  /\ UNCHANGED <<os, kicked, ticker, loopVars, tableVars, flowVars>>

Reloaded ==
  /\ Publish("refresher")
  /\ refresher' = "waiting"
  /\ UNCHANGED <<os, kicked, ticker, loopVars, tableVars, wanted, flowVars>>

-----------------------------------------------------------------------------
(* The ticker: refresh, then the routes, then the flows.                   *)
TickerReload ==
  /\ ticker = "waiting"
  /\ ReadTable("ticker")
  /\ ticker' = "refreshing"
  /\ UNCHANGED <<os, kicked, refresher, loopVars, tableVars, flowVars>>

TickerReloaded ==
  /\ Publish("ticker")
  /\ ticker' = "routes"
  /\ UNCHANGED <<os, kicked, refresher, loopVars, tableVars, wanted, flowVars>>

\* Variant with a bug: a flow is idle a moment too early.
IdleAlready(age) == age >= Idle
IsIdle(age) == age > Idle

SweepRoutes ==
  /\ ticker = "routes"
  /\ routes' = [k \in Keys |->
                  IF routes[k].known /\ IsIdle(routes[k].age) THEN NoRoute ELSE routes[k]]
  /\ ticker' = "flows"
  /\ UNCHANGED <<os, osVars, kicked, refresher, held, tableVars, wanted, flowVars>>

(* What sweep leaves of the map from 4-tuples to IDs. *)
\* Variant with a bug: only the slots are cleared.
AllIDs(gone) == ids
IDsWithout(gone) == [k \in Keys |-> IF k \in gone THEN None ELSE ids[k]]

SweepFlows ==
  LET idle == {i \in IDs : entries[i].used /\ IsIdle(entries[i].age)} IN
  /\ ticker = "flows"
  /\ entries' = [i \in IDs |-> IF i \in idle THEN NoEntry ELSE entries[i]]
  /\ ids' = IDsWithout({entries[i].key : i \in idle})
  /\ dsts' = [d \in Dsts |-> dsts[d] - Cardinality({i \in idle : entries[i].key.dst = d})]
  /\ ticker' = "waiting"
  /\ UNCHANGED <<os, osVars, kicked, refresher, loopVars, next, wanted, flowVars>>

-----------------------------------------------------------------------------
Lesser(a, b) == IF a < b THEN a ELSE b
Older(age) == Lesser(age + 1, Idle + 1)

Tick ==
  /\ held = None /\ ticker = "waiting"
  /\ routes' = [k \in Keys |->
       IF routes[k].known
         THEN [routes[k] EXCEPT !.first = IF routes[k].decided THEN @
                                          ELSE Lesser(@ + 1, UnknownWait),
                                !.age = Older(@)]
         ELSE routes[k]]
  /\ entries' = [i \in IDs |->
       IF entries[i].used THEN [entries[i] EXCEPT !.age = Older(@)] ELSE entries[i]]
  /\ IF channel = "none" \/ unsent = Idle
       THEN channel' = "none" /\ unsent' = 0
       ELSE unsent' = unsent + 1 /\ UNCHANGED channel
  /\ UNCHANGED <<os, osVars, kicked, refresher, ticker, held, ids, next, dsts,
                 wanted, watched>>

Next ==
  \/ \E p \in Ports, who \in Owners : Reopen(p, who)
  \/ \E k \in Keys : Classify(k) \/ KeepID(k) \/ NewID(k) \/ NoID(k)
  \/ \E i \in IDs : GlueReply(i)
  \/ TakeKick \/ Reload \/ Reloaded
  \/ TickerReload \/ TickerReloaded \/ SweepRoutes \/ SweepFlows
  \/ Tick

Spec == Init /\ [][Next]_vars

-----------------------------------------------------------------------------
(* The three tables of flowTable tell the same story after any sequence of *)
(* packets, replies and sweeps: no two flows share an ID, although the     *)
(* counter wraps and IDs run out, and a fragment is kept off the vpn       *)
(* channel exactly while a glue flow to its destination is alive           *)
(* (flows.go:54-112).                                                      *)
TablesAgree ==
  /\ \A k \in Keys : ids[k] # None => entries[ids[k]].used /\ entries[ids[k]].key = k
  /\ \A i \in IDs : entries[i].used => ids[entries[i].key] = i
  /\ \A d \in Dsts : HasDst(d) <=> \E k \in Keys : k.dst = d /\ ids[k] # None

(* A packet dropped because its port is unknown is not dropped for         *)
(* nothing: until the port table is read once more the refresher is asked  *)
(* to do it, even if it was busy with an older reading at that moment      *)
(* (router.go:70-72, 88-111).                                              *)
UnknownPortsAreLookedUp == wanted # {} => kicked \/ refresher = "asked"

(* A flow that sends at least every Idle stays on its channel, whatever    *)
(* happens to the port table (router.go:10-13, 50-86).                     *)
SendersKeepTheirChannel ==
  [][channel # "none" /\ channel' # "none" => channel' = channel]_vars

(* And a game flow that sends at least every Idle keeps its flow ID, so    *)
(* that the game server does not see a new client in the middle of a game: *)
(* the table of IDs is swept after that of the routes, from another        *)
(* goroutine than the one that looks IDs up, and the wrapping counter      *)
(* hands out no ID that is in use (flows.go:54-100, vpn.go:177-178).       *)
SendersKeepTheirID ==
  [][channel = "glue" /\ channel' = "glue" => ids'[watched] = ids[watched]]_vars
=============================================================================
