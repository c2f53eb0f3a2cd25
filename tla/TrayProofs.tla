----------------------------- MODULE TrayProofs -----------------------------
(***************************************************************************)
(* The safety properties of Tray, proved for any number of clients and of  *)
(* goroutines of disconnect, with restarts and without.                    *)
(*                                                                         *)
(* Two things are missing from the properties.  Between stopClient and     *)
(* the start of the next client nobody is in clientCmd (SlotIsFree), so    *)
(* that the client connect has just started is the only one nobody is      *)
(* about to kill.  And after the last disconnect, as long as something is  *)
(* left of the tunnel, somebody is still going to undo it: a connect that  *)
(* is under way knows that it was cancelled (ConnectIsAware), the client   *)
(* will be taken out of clientCmd (ClientWillBeTaken), and a teardown      *)
(* script is yet to run (RuleWillBeLifted).                                *)
(*                                                                         *)
(* The second part is about ConnectionList.                                *)
(***************************************************************************)
EXTENDS Tray, MCRestarts, Sequences, FiniteSetTheorems, WellFoundedInduction, TLAPS

(* A stopper has a client in its hands only up to the kill. *)
TakenAreKilled ==
  /\ taken[Connect] # None => step \in {"kill", "give up kill", "undo kill"}
  /\ taken[Quit] # None => gui = "kill"
  /\ \A d \in Disconnects : taken[d] # None => disc[d] = "kill"

SlotIsFree == step \in {"kill", "begin", "start", "register"} => clientCmd = None

(* The second half of OneClient. *)
InControl ==
  \A c \in running :
    \/ c = clientCmd
    \/ c = current /\ step = "register"
    \/ \E g \in Stoppers : taken[g] = c

ConnectIsAware ==
  ~later => /\ step \notin {"stop", "kill", "begin"}
            /\ step \in {"startup", "idle"} \/ cancelled

ClientWillBeTaken ==
  ~later /\ clientCmd # None => \E d \in Disconnects : disc[d] = "stop"

(* The steps of connect that lead to a teardown when it was cancelled. *)
BeforeTeardown ==
  {"startup", "script", "probe", "check", "check failed", "undo", "undo kill", "teardown"}

RuleWillBeLifted ==
  ~later /\ rule = "connect" =>
    \/ step \in BeforeTeardown
    \/ \E d \in Disconnects : disc[d] \in {"stop", "kill", "teardown"}

IInv ==
  /\ TypeOK /\ TakenAreKilled /\ SlotIsFree /\ InControl
  /\ ConnectIsAware /\ ClientWillBeTaken /\ RuleWillBeLifted


-----------------------------------------------------------------------------
(* The steps of a disconnect. *)
DiscSteps == {"idle", "clicked", "stop", "kill", "teardown", "report"}

(* stopClient. *)
LEMMA StoppersDiffer ==
  /\ Connect \in Stoppers /\ Quit \in Stoppers /\ Disconnects \subseteq Stoppers
  /\ Connect # Quit /\ Connect \notin Disconnects /\ Quit \notin Disconnects
  BY TrayAssumption DEF Stoppers, Connect, Quit

LEMMA TakeIs ==
  ASSUME TypeOK, NEW g \in Stoppers, Take(g)
  PROVE  /\ taken' \in [Stoppers -> Clients \union {None}]
         /\ taken'[g] = clientCmd /\ \A h \in Stoppers : h # g => taken'[h] = taken[h]
         /\ clientCmd' = None /\ running' = running /\ waiter' = waiter
  BY DEF TypeOK, Take

LEMMA KillIs ==
  ASSUME TypeOK, NEW g \in Stoppers, Kill(g)
  PROVE  /\ taken' \in [Stoppers -> Clients \union {None}]
         /\ taken'[g] = None /\ \A h \in Stoppers : h # g => taken'[h] = taken[h]
         /\ clientCmd' = clientCmd /\ running' = running \ {taken[g]} /\ waiter' = waiter
  BY DEF TypeOK, Kill

(* Taking a client loses none, if the stopper had nothing in its hands.    *)
LEMMA TakeKeepsControl ==
  ASSUME IInv, NEW g \in Stoppers, taken[g] = None, Take(g),
         step = "register" => step' = step /\ current' = current
  PROVE  InControl'
<1> SUFFICES ASSUME NEW c \in running'
             PROVE  \/ c = clientCmd'
                    \/ c = current' /\ step' = "register"
                    \/ \E h \in Stoppers : taken'[h] = c
  BY DEF InControl
<1>1. c \in running /\ c # None
  BY TakeIs, TrayAssumption DEF IInv, TypeOK
<1>2. CASE \E h \in Stoppers : taken[h] = c
  BY <1>1, <1>2, TakeIs DEF IInv
<1> QED
  BY <1>1, <1>2, TakeIs DEF IInv, InControl

LEMMA KillKeepsControl ==
  ASSUME IInv, NEW g \in Stoppers, Kill(g),
         step = "register" => step' = step /\ current' = current
  PROVE  InControl'
<1> SUFFICES ASSUME NEW c \in running'
             PROVE  \/ c = clientCmd'
                    \/ c = current' /\ step' = "register"
                    \/ \E h \in Stoppers : taken'[h] = c
  BY DEF InControl
<1>1. c \in running /\ c # taken[g]
  BY KillIs DEF IInv
<1>2. CASE \E h \in Stoppers : taken[h] = c
  BY <1>1, <1>2, KillIs DEF IInv
<1> QED
  BY <1>1, <1>2, KillIs DEF IInv, InControl

-----------------------------------------------------------------------------
(* Each part of the invariant is kept by every step. *)
LEMMA SlotIsFreeKept == IInv /\ [Next]_vars => SlotIsFree'
<1> SUFFICES ASSUME IInv, [Next]_vars PROVE SlotIsFree'
  OBVIOUS
<1> USE DEF IInv, SlotIsFree, procVars, connVars, Goto, Return, Take, Kill, Fail
<1>1. CASE StartConnect \/ Connecting \/ ClientConnects
  BY <1>1 DEF StartConnect, ClientConnects, Connecting, StopPrevious, StopOld, KillPrevious,
     Begin, CannotStart, Start, Register, KillNew, Connected, OutputEnded, TimedOut, TooLate,
     GiveUp, AddRule, Probe, ScriptFails, Check, UndoCancelled, Undo, Finish, Teardown
<1>2. ASSUME NEW c \in Clients, ClientExits(c) \/ Waiting(c) PROVE SlotIsFree'
  BY <1>2 DEF ClientExits, Waiting, Waited, WaiterTeardown, WaiterReports
<1>3. ASSUME NEW d \in Disconnects, ClickDisconnect(d) \/ Disconnecting(d) PROVE SlotIsFree'
  BY <1>3 DEF ClickDisconnect, Disconnecting, Disconnect, Unaware, DisconnectStops,
     DisconnectTeardown, DisconnectReports
<1>4. CASE \/ QuitStops \/ QuitTeardown \/ Restart
           \/ \E s \in {"script", "teardown"} : OrphanRuns(s)
           \/ UNCHANGED vars
  BY <1>4 DEF QuitStops, QuitTeardown, Restart, OrphanRuns, vars
<1> QED
  BY <1>1, <1>2, <1>3, <1>4 DEF Next

LEMMA TakenAreKilledKept == IInv /\ [Next]_vars => TakenAreKilled'
<1> SUFFICES ASSUME IInv, [Next]_vars PROVE TakenAreKilled'
  OBVIOUS
<1> USE DEF IInv, TakenAreKilled, procVars, connVars, Goto, Return, Fail
<1>1. CASE StopPrevious \/ KillPrevious \/ GiveUp \/ Undo
  BY <1>1, TakeIs, KillIs, StoppersDiffer DEF StopPrevious, StopOld, KillPrevious, GiveUp, Undo
<1>2. CASE Register \/ \E c \in Clients : Start(c) \/ ClientExits(c) \/ Waiting(c)
  BY <1>2 DEF Register, Start, ClientExits, Waiting, Waited, WaiterTeardown, WaiterReports
<1>3. CASE \/ Begin \/ CannotStart \/ Connected \/ OutputEnded \/ TimedOut
           \/ AddRule \/ Probe \/ ScriptFails \/ Check \/ Finish \/ Teardown
           \/ StartConnect \/ ClientConnects \/ QuitTeardown \/ UNCHANGED vars
  BY <1>3 DEF Begin, CannotStart, Connected, OutputEnded, TimedOut, TooLate, AddRule, Probe,
     ScriptFails, Check, UndoCancelled, Finish, Teardown, StartConnect, ClientConnects,
     QuitTeardown, vars
<1>4. ASSUME NEW d \in Disconnects, ClickDisconnect(d) \/ Disconnecting(d) PROVE TakenAreKilled'
  <2>1. disc \in [Disconnects -> DiscSteps]
    BY DEF TypeOK, DiscSteps
  <2>2. CASE ClickDisconnect(d) \/ Disconnect(d) \/ DisconnectTeardown(d) \/ DisconnectReports(d)
    BY <2>1, <2>2 DEF ClickDisconnect, Disconnect, DisconnectTeardown, DisconnectReports
  <2>3. CASE DisconnectStops(d)
    BY <2>1, <2>3, TakeIs, KillIs, StoppersDiffer DEF DisconnectStops
  <2> QED
    BY <1>4, <2>2, <2>3 DEF Disconnecting
<1>5. CASE QuitStops
  BY <1>5, TakeIs, KillIs, StoppersDiffer DEF QuitStops
<1>6. CASE Restart
  BY <1>6, StoppersDiffer DEF Restart
<1>7. ASSUME NEW s \in {"script", "teardown"}, OrphanRuns(s) PROVE TakenAreKilled'
  BY <1>7 DEF OrphanRuns
<1> QED
  BY <1>1, <1>2, <1>3, <1>4, <1>5, <1>6, <1>7 DEF Next, Connecting

LEMMA InControlKept == IInv /\ [Next]_vars => InControl'
<1> SUFFICES ASSUME IInv, [Next]_vars PROVE InControl'
  OBVIOUS
<1> USE DEF IInv, InControl, procVars, connVars, Goto, Return, Fail
<1>1. CASE \/ StopPrevious \/ KillPrevious \/ GiveUp \/ Undo \/ QuitStops
           \/ \E d \in Disconnects : DisconnectStops(d)
  BY <1>1, TakeKeepsControl, KillKeepsControl, StoppersDiffer
  DEF TakenAreKilled, StopPrevious, StopOld, KillPrevious, GiveUp, Undo, QuitStops, DisconnectStops
<1>2. CASE Register
  <2>1. CASE cancelled
    BY <1>2, <2>1 DEF Register, KillNew
  <2>2. CASE ~cancelled
    BY <1>2, <2>2, TrayAssumption DEF Register, SlotIsFree, TypeOK
  <2> QED
    BY <2>1, <2>2
<1>3. CASE \/ Begin \/ CannotStart \/ Connected \/ OutputEnded \/ TimedOut
           \/ AddRule \/ Probe \/ ScriptFails \/ Check \/ Finish \/ Teardown
           \/ StartConnect \/ ClientConnects \/ QuitTeardown \/ UNCHANGED vars
  BY <1>3 DEF Begin, CannotStart, Connected, OutputEnded, TimedOut, TooLate, AddRule, Probe,
     ScriptFails, Check, UndoCancelled, Finish, Teardown, StartConnect, ClientConnects,
     QuitTeardown, vars
<1>4. ASSUME NEW c \in Clients, Start(c) \/ ClientExits(c) \/ Waiting(c) PROVE InControl'
  BY <1>4 DEF Start, ClientExits, Waiting, Waited, WaiterTeardown, WaiterReports
<1>5. ASSUME NEW d \in Disconnects,
             \/ ClickDisconnect(d) \/ Disconnect(d) \/ DisconnectTeardown(d) \/ DisconnectReports(d)
      PROVE  InControl'
  BY <1>5 DEF ClickDisconnect, Disconnect, DisconnectTeardown, DisconnectReports
<1>6. CASE Restart \/ \E s \in {"script", "teardown"} : OrphanRuns(s)
  BY <1>6 DEF Restart, OrphanRuns
<1> QED
  BY <1>1, <1>2, <1>3, <1>4, <1>5, <1>6 DEF Next, Connecting, Disconnecting

LEMMA ConnectIsAwareKept == IInv /\ [Next]_vars => ConnectIsAware'
<1> SUFFICES ASSUME IInv, [Next]_vars PROVE ConnectIsAware'
  OBVIOUS
<1> USE DEF IInv, ConnectIsAware, procVars, connVars, Goto, Return, Take, Kill, Fail
<1>1. CASE StartConnect \/ Connecting \/ ClientConnects
  BY <1>1 DEF StartConnect, ClientConnects, Connecting, StopPrevious, StopOld, KillPrevious,
     Begin, CannotStart, Start, Register, KillNew, Connected, OutputEnded, TimedOut, TooLate,
     GiveUp, AddRule, Probe, ScriptFails, Check, UndoCancelled, Undo, Finish, Teardown
<1>2. ASSUME NEW c \in Clients, ClientExits(c) \/ Waiting(c) PROVE ConnectIsAware'
  BY <1>2 DEF ClientExits, Waiting, Waited, WaiterTeardown, WaiterReports
<1>3. ASSUME NEW d \in Disconnects, ClickDisconnect(d) \/ Disconnecting(d) PROVE ConnectIsAware'
  BY <1>3 DEF ClickDisconnect, Disconnecting, Disconnect, Unaware, DisconnectStops,
     DisconnectTeardown, DisconnectReports
<1>4. CASE \/ QuitStops \/ QuitTeardown \/ Restart
           \/ \E s \in {"script", "teardown"} : OrphanRuns(s)
           \/ UNCHANGED vars
  BY <1>4 DEF QuitStops, QuitTeardown, Restart, OrphanRuns, vars
<1> QED
  BY <1>1, <1>2, <1>3, <1>4 DEF Next

LEMMA ClientWillBeTakenKept == IInv /\ [Next]_vars => ClientWillBeTaken'
<1> SUFFICES ASSUME IInv, [Next]_vars PROVE ClientWillBeTaken'
  OBVIOUS
<1> USE DEF IInv, ClientWillBeTaken, ConnectIsAware, procVars, connVars, Goto, Return, Take, Kill,
       Fail
<1>1. CASE StartConnect \/ Connecting \/ ClientConnects
  BY <1>1 DEF StartConnect, ClientConnects, Connecting, StopPrevious, StopOld, KillPrevious,
     Begin, CannotStart, Start, Register, KillNew, Connected, OutputEnded, TimedOut, TooLate,
     GiveUp, AddRule, Probe, ScriptFails, Check, UndoCancelled, Undo, Finish, Teardown
<1>2. ASSUME NEW c \in Clients, ClientExits(c) \/ Waiting(c) PROVE ClientWillBeTaken'
  BY <1>2 DEF ClientExits, Waiting, Waited, WaiterTeardown, WaiterReports
<1>3. ASSUME NEW d \in Disconnects, ClickDisconnect(d) \/ Disconnecting(d) PROVE ClientWillBeTaken'
  <2>1. disc \in [Disconnects -> DiscSteps]
    BY DEF TypeOK, DiscSteps
  <2> QED
    BY <1>3, <2>1 DEF ClickDisconnect, Disconnecting, Disconnect, Unaware, DisconnectStops,
       DisconnectTeardown, DisconnectReports
<1>4. CASE QuitStops \/ QuitTeardown \/ Restart \/ UNCHANGED vars
  BY <1>4 DEF QuitStops, QuitTeardown, Restart, vars
<1>5. ASSUME NEW s \in {"script", "teardown"}, OrphanRuns(s) PROVE ClientWillBeTaken'
  <2>1. UNCHANGED <<step, disc, clientCmd>> /\ (~later' => ~later /\ (rule' = "connect" => rule = "connect"))
    <3> HIDE DEF IInv, ClientWillBeTaken, ConnectIsAware
    <3> QED
      BY <1>5 DEF OrphanRuns
  <2> QED
    BY <2>1
<1> QED
  BY <1>1, <1>2, <1>3, <1>4, <1>5 DEF Next

LEMMA RuleWillBeLiftedKept == IInv /\ [Next]_vars => RuleWillBeLifted'
<1> SUFFICES ASSUME IInv, [Next]_vars PROVE RuleWillBeLifted'
  OBVIOUS
<1> USE DEF IInv, RuleWillBeLifted, ConnectIsAware, procVars, connVars, Goto, Return, Take, Kill, Fail,
       BeforeTeardown
<1>1. CASE StartConnect \/ Connecting \/ ClientConnects
  BY <1>1 DEF StartConnect, ClientConnects, Connecting, StopPrevious, StopOld, KillPrevious,
     Begin, CannotStart, Start, Register, KillNew, Connected, OutputEnded, TimedOut, TooLate,
     GiveUp, AddRule, Probe, ScriptFails, Check, UndoCancelled, Undo, Finish, Teardown
<1>2. ASSUME NEW c \in Clients, ClientExits(c) \/ Waiting(c) PROVE RuleWillBeLifted'
  BY <1>2 DEF ClientExits, Waiting, Waited, WaiterTeardown, WaiterReports
<1>3. ASSUME NEW d \in Disconnects, ClickDisconnect(d) \/ Disconnecting(d) PROVE RuleWillBeLifted'
  <2>1. disc \in [Disconnects -> DiscSteps]
    BY DEF TypeOK, DiscSteps
  <2> QED
    BY <1>3, <2>1 DEF ClickDisconnect, Disconnecting, Disconnect, Unaware, DisconnectStops,
       DisconnectTeardown, DisconnectReports
<1>4. CASE QuitStops \/ QuitTeardown \/ Restart \/ UNCHANGED vars
  BY <1>4 DEF QuitStops, QuitTeardown, Restart, vars
<1>5. ASSUME NEW s \in {"script", "teardown"}, OrphanRuns(s) PROVE RuleWillBeLifted'
  <2>1. UNCHANGED <<step, disc, clientCmd>> /\ (~later' => ~later /\ (rule' = "connect" => rule = "connect"))
    <3> HIDE DEF IInv, RuleWillBeLifted, ConnectIsAware
    <3> QED
      BY <1>5 DEF OrphanRuns
  <2> QED
    BY <2>1
<1> QED
  BY <1>1, <1>2, <1>3, <1>4, <1>5 DEF Next

LEMMA TypeOKKept == IInv /\ [Next]_vars => TypeOK'
<1> SUFFICES ASSUME IInv, [Next]_vars PROVE TypeOK'
  OBVIOUS
<1> USE DEF IInv, TypeOK, procVars, connVars, Goto, Return, Fail
<1>1. CASE StopPrevious \/ KillPrevious \/ GiveUp \/ Undo \/ QuitStops
  BY <1>1, TakeIs, KillIs, StoppersDiffer
  DEF StopPrevious, StopOld, KillPrevious, GiveUp, Undo, QuitStops
<1>2. CASE Register \/ \E c \in Clients : Start(c) \/ ClientExits(c) \/ Waiting(c)
  <2>1. CASE Register
    BY <2>1 DEF Register, KillNew
  <2>2. ASSUME NEW c \in Clients, Start(c) PROVE TypeOK'
    BY <2>2 DEF Start
  <2>3. ASSUME NEW c \in Clients, ClientExits(c) PROVE TypeOK'
    BY <2>3 DEF ClientExits
  <2>4. ASSUME NEW c \in Clients, Waiting(c) PROVE TypeOK'
    BY <2>4 DEF Waiting, Waited, WaiterTeardown, WaiterReports
  <2> QED
    BY <1>2, <2>1, <2>2, <2>3, <2>4
<1>3. CASE \/ Begin \/ CannotStart \/ Connected \/ OutputEnded \/ TimedOut
           \/ AddRule \/ Probe \/ ScriptFails \/ Check \/ Finish \/ Teardown
           \/ StartConnect \/ ClientConnects \/ QuitTeardown \/ UNCHANGED vars
  BY <1>3 DEF Begin, CannotStart, Connected, OutputEnded, TimedOut, TooLate, AddRule, Probe,
     ScriptFails, Check, UndoCancelled, Finish, Teardown, StartConnect, ClientConnects,
     QuitTeardown, vars
<1>4. ASSUME NEW d \in Disconnects, ClickDisconnect(d) \/ Disconnecting(d) PROVE TypeOK'
  <2>1. CASE ClickDisconnect(d) \/ DisconnectTeardown(d) \/ DisconnectReports(d)
    BY <2>1 DEF ClickDisconnect, DisconnectTeardown, DisconnectReports
  <2>2. CASE Disconnect(d)
    <3>1. disc' \in [Disconnects -> DiscSteps]
      BY <2>2 DEF Disconnect, DiscSteps
    <3>2. /\ UNCHANGED <<said, active, rule>> /\ tunnelUp' = FALSE
          /\ cancelled' \in BOOLEAN /\ later' \in BOOLEAN
      <4> HIDE DEF IInv, TypeOK
      <4> QED
        BY <2>2 DEF Disconnect
    <3> QED
      BY <2>2, <3>1, <3>2 DEF Disconnect, DiscSteps
  <2>3. CASE DisconnectStops(d)
    BY <2>3, TakeIs, KillIs, StoppersDiffer DEF DisconnectStops
  <2> QED
    BY <1>4, <2>1, <2>2, <2>3 DEF Disconnecting
<1>5. CASE Restart
  BY <1>5 DEF Restart, Running
<1>6. ASSUME NEW s \in {"script", "teardown"}, OrphanRuns(s) PROVE TypeOK'
  BY <1>6 DEF OrphanRuns
<1> QED
  BY <1>1, <1>2, <1>3, <1>4, <1>5, <1>6 DEF Next, Connecting

-----------------------------------------------------------------------------
(* All steps together.                                                     *)
LEMMA InitIInv == Init => IInv
<1> SUFFICES ASSUME Init PROVE IInv
  OBVIOUS
<1>1. TypeOK
  BY DEF Init, TypeOK
<1>2. TakenAreKilled /\ SlotIsFree /\ InControl
  BY StoppersDiffer DEF Init, TakenAreKilled, SlotIsFree, InControl
<1>3. ConnectIsAware /\ ClientWillBeTaken /\ RuleWillBeLifted
  BY DEF Init, ConnectIsAware, ClientWillBeTaken, RuleWillBeLifted, BeforeTeardown
<1> QED
  BY <1>1, <1>2, <1>3 DEF IInv

LEMMA NextIInv == IInv /\ [Next]_vars => IInv'
  BY TypeOKKept, TakenAreKilledKept, SlotIsFreeKept, InControlKept, ConnectIsAwareKept,
     ClientWillBeTakenKept, RuleWillBeLiftedKept
  DEF IInv

(* The inductive invariant holds in every reachable state. *)
THEOREM InductiveInvariant == Spec => []IInv
  BY InitIInv, NextIInv, PTL DEF Spec

(* The variables of the tray keep their types. *)
THEOREM TypeCorrect == Spec => []TypeOK
<1>1. IInv => TypeOK
  BY DEF IInv
<1> QED
  BY <1>1, InductiveInvariant, PTL

(* At most one client runs that nobody is about to kill, and every client  *)
(* that runs is in clientCmd or in the hands of a goroutine that will put  *)
(* it there or kill it, whatever connects, disconnects, exits and restarts *)
(* overlap (client.go:20-22, 152-160, 303-314).                            *)
THEOREM OnlyOneClient == Spec => []OneClient
<1>1. ASSUME IInv PROVE OneClient
  <2> DEFINE Free == {c \in running : \A g \in Stoppers : taken[g] # c}
             only == IF step = "register" THEN current ELSE clientCmd
  <2>1. Free \subseteq {only}
    BY <1>1, TrayAssumption DEF IInv, InControl, SlotIsFree, TypeOK
  <2>2. IsFiniteSet({only}) /\ Cardinality({only}) = 1
    BY FS_Singleton
  <2>3. Cardinality(Free) <= 1
    BY <2>1, <2>2, FS_Subset
  <2> QED
    BY <1>1, <2>3 DEF OneClient, IInv, InControl
<1> QED
  BY <1>1, InductiveInvariant, PTL

(* When all goroutines and scripts are done after the last disconnect or a *)
(* restart, no client runs and no rule is left that a connect of this tray *)
(* or of a crashed one had added, at whatever point of a connect, an exit  *)
(* or another disconnect it came (client.go:214-218, 292-301,              *)
(* main.go:243-250).                                                       *)
THEOREM DisconnectUndoes == Spec => []DisconnectCleansUp
<1>1. ASSUME IInv, Quiet, ~later PROVE rule # "connect" /\ running = {}
  <2>1. rule # "connect"
    BY <1>1 DEF IInv, RuleWillBeLifted, BeforeTeardown, Quiet
  <2>2. ASSUME NEW g \in Stoppers PROVE taken[g] = None
    BY <1>1 DEF IInv, TakenAreKilled, Stoppers, Quiet
  <2>3. clientCmd = None
    BY <1>1 DEF IInv, ClientWillBeTaken, Quiet
  <2>4. None \notin running
    BY <1>1, TrayAssumption DEF IInv, TypeOK
  <2> QED
    BY <1>1, <2>1, <2>2, <2>3, <2>4 DEF IInv, InControl, Quiet
<1>2. IInv => DisconnectCleansUp
  BY <1>1 DEF DisconnectCleansUp
<1> QED
  BY <1>2, InductiveInvariant, PTL

-----------------------------------------------------------------------------
(***************************************************************************)
(* The list of connections, whose state has nothing in common with the     *)
(* client's.                                                               *)
(***************************************************************************)

(* onDeleteConnection *)
LEMMA RemoveAtIs ==
  ASSUME NEW S, NEW s \in Seq(S), NEW i \in DOMAIN s
  PROVE  /\ List!RemoveAt(s, i) \in Seq(S)
         /\ Len(List!RemoveAt(s, i)) = Len(s) - 1
         /\ \A j \in DOMAIN List!RemoveAt(s, i) :
              List!RemoveAt(s, i)[j] = IF j < i THEN s[j] ELSE s[j + 1]
<1> DEFINE a == SubSeq(s, 1, i - 1)
           b == SubSeq(s, i + 1, Len(s))
<1>1. i \in 1 .. Len(s) /\ Len(s) \in Nat
  OBVIOUS
<1>2. /\ a \in Seq(S) /\ Len(a) = i - 1
      /\ \A j \in 1 .. i - 1 : a[j] = s[j]
  BY <1>1
<1>3. /\ b \in Seq(S) /\ Len(b) = Len(s) - i
      /\ \A j \in 1 .. Len(s) - i : b[j] = s[i + j]
  BY <1>1
<1>4. List!RemoveAt(s, i) = a \o b
  BY DEF List!RemoveAt
<1> HIDE DEF a, b
<1>5. a \o b \in Seq(S) /\ Len(a \o b) = Len(s) - 1
  BY <1>1, <1>2, <1>3
<1>6. ASSUME NEW j \in DOMAIN (a \o b)
      PROVE  (a \o b)[j] = IF j < i THEN s[j] ELSE s[j + 1]
  <2>1. j \in 1 .. Len(s) - 1
    BY <1>5
  <2>2. (a \o b)[j] = IF j <= Len(a) THEN a[j] ELSE b[j - Len(a)]
    BY <1>1, <1>2, <1>3, <2>1
  <2>3. CASE j < i
    BY <1>1, <1>2, <2>1, <2>2, <2>3
  <2>4. CASE ~(j < i)
    <3>1. j \in Int /\ i \in Int /\ j - (i - 1) \in 1 .. Len(s) - i /\ ~(j <= i - 1)
      BY <1>1, <2>1, <2>4
    <3>2. b[j - (i - 1)] = s[i + (j - (i - 1))] /\ i + (j - (i - 1)) = j + 1
      BY <1>3, <3>1
    <3> QED
      BY <1>2, <2>2, <2>4, <3>1, <3>2
  <2> QED
    BY <2>3, <2>4
<1> QED
  BY <1>4, <1>5, <1>6

(* What the list in memory is on disk once it is saved. *)
Memory == List!EachOf(List!Encoded, connections)

(* The keys that nothing threatens. *)
Safe == kept \ risked

(* They are in connections.json or, before there is one, in                *)
(* client-config.json; the list in memory, once loaded, has them as well.  *)
OnDisk ==
  /\ file.state = "absent" => Safe \subseteq aside \union {configKey}
  /\ file.state # "absent" => Safe \subseteq List!KeysIn(file.entries) \union aside

InMemory ==
  /\ screen \in {"off", "loading"} => connections = <<>>
  /\ screen \notin {"off", "loading"} => Safe \subseteq List!KeysIn(Memory) \union aside

(* Nobody needs client-config.json any more once the import is over. *)
ConfigIsSpare ==
  /\ screen \notin {"off", "loading", "import"} /\ file.state = "absent" => Safe \subseteq aside
  /\ screen = "strip" => file.state # "absent"

Lengths == Len(connections) <= MaxLen /\ Len(file.entries) <= MaxLen

(* The entry that is selected after the write is there. *)
NameIsThere == screen \in {"save", "connect"} => List!Named(fields.name) # {}

ListIInv ==
  /\ List!TypeOK /\ Lengths
  /\ OnDisk /\ InMemory /\ ConfigIsSpare
  /\ NameIsThere

LEMMA KeysInIs ==
  ASSUME NEW s PROVE List!KeysIn(s) = {s[i].key : i \in DOMAIN s} \ {NoKey}
BY DEF List!KeysIn

LEMMA FileKeys ==
  ASSUME List!TypeOK
  PROVE  List!KeysIn(file.entries) \subseteq Keys
<1>1. \A i \in DOMAIN file.entries : file.entries[i] \in List!Entries
  BY DEF List!TypeOK
<1>2. \A i \in DOMAIN file.entries : file.entries[i].key \in Keys \union {NoKey}
  BY <1>1 DEF List!Entries
<1> QED
  BY <1>2, KeysInIs

(* The first of several entries is one of them. *)
LEMMA FirstIs ==
  ASSUME NEW s, s \subseteq Nat, s # {}
  PROVE  List!First(s) \in s
<1>1. \E t \in s : \A j \in s : <<j, t>> \notin OpToRel(<, Nat)
  BY NatLessThanWellFounded, WFMin, Zenon
<1>2. PICK t \in s : \A j \in s : <<j, t>> \notin OpToRel(<, Nat)
  BY <1>1
<1>3. ASSUME NEW j \in s PROVE t <= j
  <2>1. t \in Nat /\ j \in Nat /\ ~(j < t)
    BY <1>2 DEF OpToRel
  <2> QED
    BY <2>1
<1> QED
  BY <1>3 DEF List!First

LEMMA NamedIs ==
  ASSUME List!TypeOK, NEW n, List!Named(n) # {}
  PROVE  List!First(List!Named(n)) \in DOMAIN connections
<1>1. List!Named(n) \subseteq DOMAIN connections /\ List!Named(n) \subseteq Nat
  BY DEF List!Named, List!TypeOK
<1> QED
  BY <1>1, FirstIs

(* A list that is read and written again is the same. *)
LEMMA DecodedIs ==
  ASSUME NEW e \in List!Entries
  PROVE  /\ List!Decoded(e) \in List!Connections
         /\ List!Decoded(e).name = e.name
         /\ List!Encoded(List!Decoded(e)).key = e.key
BY DEF List!Entries, List!Connections, List!Decoded, List!Encoded

LEMMA EncodedIs ==
  ASSUME NEW c \in List!Connections
  PROVE  /\ List!Encoded(c) \in List!Entries
         /\ List!Encoded(c).name = c.name
         /\ List!Encoded(c).key = IF c.key # NoKey THEN c.key ELSE c.sealed
BY DEF List!Entries, List!Connections, List!Encoded, List!Forms

LEMMA MemoryIs ==
  ASSUME List!TypeOK
  PROVE  /\ Memory \in Seq(List!Entries)
         /\ Len(Memory) = Len(connections) /\ DOMAIN Memory = DOMAIN connections
         /\ \A i \in DOMAIN connections :
              /\ Memory[i].name = connections[i].name
              /\ Memory[i].key = IF connections[i].key # NoKey
                                   THEN connections[i].key ELSE connections[i].sealed
         /\ List!KeysIn(connections) \subseteq List!KeysIn(Memory)
<1>1. connections \in Seq(List!Connections)
  BY DEF List!TypeOK
<1>2. Memory = [i \in DOMAIN connections |-> List!Encoded(connections[i])]
  BY DEF Memory, List!EachOf
<1>3. \A i \in DOMAIN connections : Memory[i] = List!Encoded(connections[i])
  BY <1>2
<1>4. \A i \in DOMAIN connections : connections[i] \in List!Connections
  BY <1>1
<1>5. \A i \in DOMAIN connections : Memory[i] \in List!Entries
  BY <1>3, <1>4, EncodedIs
<1>6. /\ Memory \in Seq(List!Entries)
      /\ Len(Memory) = Len(connections) /\ DOMAIN Memory = DOMAIN connections
  BY <1>1, <1>2, <1>5
<1>7. \A i \in DOMAIN connections :
        /\ Memory[i].name = connections[i].name
        /\ Memory[i].key = IF connections[i].key # NoKey
                             THEN connections[i].key ELSE connections[i].sealed
  BY <1>3, <1>4, EncodedIs
<1>8. List!KeysIn(connections) \subseteq List!KeysIn(Memory)
  BY <1>6, <1>7, KeysInIs
<1> QED
  BY <1>6, <1>7, <1>8

(* saveConnections *)
LEMMA SavedIs ==
  ASSUME List!ListAssumption, ListIInv, List!Saved, UNCHANGED <<aside, connections>>,
         screen \notin {"off", "loading"}
  PROVE  /\ file' \in [state : {"absent", "good", "broken"}, entries : Seq(List!Entries)]
         /\ Len(file'.entries) <= MaxLen
         /\ file'.state = "good"
         /\ kept' \in SUBSET Keys /\ risked' \in SUBSET Keys
         /\ Safe' \subseteq List!KeysIn(file'.entries) \union aside
         /\ Safe' \subseteq List!KeysIn(Memory) \union aside
<1>1. List!TypeOK /\ Lengths /\ InMemory
  BY DEF ListIInv
<1>2. file'.state = "good" /\ file'.entries = Memory /\ file' = [state |-> "good", entries |-> Memory]
  BY DEF List!Saved, List!File, Memory
<1>3. kept' = kept \union List!KeysIn(connections) /\ risked' = risked \ List!KeysIn(Memory)
  BY DEF List!Saved, List!Rescue, List!KeysOf, Memory
<1>4. Safe' \subseteq List!KeysIn(Memory) \union aside
  BY <1>1, <1>3, MemoryIs DEF InMemory, Safe
<1>5. List!KeysIn(connections) \subseteq Keys
  <2>1. \A i \in DOMAIN connections : connections[i] \in List!Connections
    BY <1>1 DEF List!TypeOK
  <2>2. \A i \in DOMAIN connections : connections[i].key \in Keys \union {NoKey}
    BY <2>1 DEF List!Connections
  <2> QED
    BY <2>2, KeysInIs
<1>6. kept' \in SUBSET Keys /\ risked' \in SUBSET Keys
  BY <1>1, <1>3, <1>5 DEF List!TypeOK
<1> QED
  BY <1>1, <1>2, <1>4, <1>6, MemoryIs DEF Lengths

-----------------------------------------------------------------------------
LEMMA ListInit == List!ListAssumption /\ List!Init => ListIInv
<1> SUFFICES ASSUME List!ListAssumption, List!Init PROVE ListIInv
  OBVIOUS
<1> DEFINE FileIsFine ==
        /\ file \in [state : {"absent", "good", "broken"}, entries : Seq(List!Entries)]
        /\ Len(file.entries) <= MaxLen
        /\ List!KeysIn(file.entries) \subseteq Keys
<1>1. /\ connections = <<>> /\ screen = "off" /\ subject = 0 /\ aside = {} /\ risked = {}
      /\ loaded = NoKey /\ fields = [name |-> NoKey, key |-> NoKey]
      /\ configKey \in Keys \union {NoKey}
  BY DEF List!Init, List!NoFields
<1>2. \/ file = List!File("absent", <<>>)
      \/ \E st \in {"good", "broken"} : \E e \in List!Entries : file = List!File(st, <<e>>)
  BY DEF List!Init
<1>3. FileIsFine
  <2>1. CASE file = List!File("absent", <<>>)
    BY <2>1, KeysInIs DEF List!File, List!ListAssumption
  <2>2. ASSUME NEW st \in {"good", "broken"}, NEW e \in List!Entries, file = List!File(st, <<e>>)
        PROVE  FileIsFine
    <3>1. file = [state |-> st, entries |-> <<e>>] /\ e \in List!Entries
      BY <2>2 DEF List!File
    <3>2. <<e>> \in Seq(List!Entries) /\ Len(<<e>>) = 1 /\ DOMAIN <<e>> = {1} /\ <<e>>[1] = e
      BY <3>1
    <3>3. e.key \in Keys \union {NoKey}
      BY <3>1 DEF List!Entries
    <3> QED
      BY <3>1, <3>2, <3>3, KeysInIs DEF List!ListAssumption
  <2> QED
    BY <1>2, <2>1, <2>2
<1>4. kept \in SUBSET Keys /\ OnDisk
  <2>1. kept = IF file.state = "absent" THEN {configKey} \ {NoKey} ELSE List!KeysIn(file.entries)
    BY DEF List!Init
  <2> QED
    BY <1>1, <1>3, <2>1 DEF OnDisk, Safe
<1>5. List!TypeOK
  BY <1>1, <1>3, <1>4 DEF List!TypeOK, List!ListAssumption
<1>6. Lengths /\ InMemory /\ ConfigIsSpare /\ NameIsThere
  BY <1>1, <1>3 DEF Lengths, InMemory, ConfigIsSpare, NameIsThere, List!ListAssumption
<1> QED
  BY <1>4, <1>5, <1>6 DEF ListIInv

(* loadConnections *)
LEMMA LoadGoodKeeps ==
  ASSUME List!ListAssumption, ListIInv, List!LoadGood
  PROVE  ListIInv'
<1>1. List!TypeOK /\ Lengths /\ OnDisk /\ InMemory
  BY DEF ListIInv
<1>2. /\ screen = "loading" /\ file.state = "good" /\ screen' \in {"migrate", "idle"}
      /\ UNCHANGED <<file, aside, configKey, fields, loaded, subject, kept>>
      /\ connections' = [i \in DOMAIN file.entries |-> List!Decoded(file.entries[i])]
      /\ risked' = risked \ List!KeysIn(file.entries)
  BY DEF List!LoadGood, List!EachOf, List!diskVars, List!Rescue
<1>3. file.entries \in Seq(List!Entries)
  BY <1>1 DEF List!TypeOK
<1>4. \A i \in DOMAIN file.entries :
        /\ connections'[i] \in List!Connections
        /\ List!Encoded(connections'[i]).key = file.entries[i].key
  <2>1. \A i \in DOMAIN file.entries : file.entries[i] \in List!Entries
    BY <1>3
  <2> QED
    BY <1>2, <2>1, DecodedIs
<1>5. /\ connections' \in Seq(List!Connections) /\ Len(connections') = Len(file.entries)
      /\ DOMAIN connections' = DOMAIN file.entries
  <2>1. DOMAIN file.entries = 1 .. Len(file.entries) /\ Len(file.entries) \in Nat
    BY <1>3
  <2>2. connections' \in [1 .. Len(file.entries) -> List!Connections]
    BY <1>2, <1>4, <2>1
  <2> QED
    BY <2>1, <2>2
<1>6. List!KeysIn(Memory') = List!KeysIn(file.entries)
  <2>1. /\ DOMAIN Memory' = DOMAIN file.entries
        /\ \A i \in DOMAIN file.entries : Memory'[i].key = file.entries[i].key
    BY <1>4, <1>5 DEF Memory, List!EachOf
  <2> QED
    BY <2>1, KeysInIs
<1>7. List!TypeOK' /\ Lengths' /\ NameIsThere'
  BY <1>1, <1>2, <1>5 DEF List!TypeOK, Lengths, NameIsThere
<1>8. OnDisk' /\ InMemory' /\ ConfigIsSpare'
  BY <1>1, <1>2, <1>6 DEF OnDisk, InMemory, ConfigIsSpare, Safe
<1> QED
  BY <1>7, <1>8 DEF ListIInv

LEMMA LoadBrokenKeeps ==
  ASSUME List!ListAssumption, ListIInv, List!LoadBroken
  PROVE  ListIInv'
<1>1. List!TypeOK /\ Lengths /\ OnDisk /\ InMemory
  BY DEF ListIInv
<1>2. /\ screen = "loading" /\ file.state = "broken" /\ screen' = "idle"
      /\ UNCHANGED <<configKey, connections, fields, loaded, subject>>
      /\ Safe \subseteq List!KeysIn(file.entries) \union aside
  BY <1>1 DEF List!LoadBroken, List!windowVars, OnDisk
<1>3. CASE /\ aside' = aside \union List!KeysIn(file.entries)
           /\ file' = List!File("absent", <<>>) /\ UNCHANGED <<kept, risked>>
  <2>1. file'.state = "absent" /\ file'.entries = <<>>
        /\ file' \in [state : {"absent", "good", "broken"}, entries : Seq(List!Entries)]
    BY <1>3 DEF List!File
  <2>2. List!TypeOK' /\ Lengths'
    BY <1>1, <1>2, <1>3, <2>1, FileKeys DEF List!TypeOK, Lengths, List!ListAssumption
  <2>3. OnDisk' /\ InMemory' /\ ConfigIsSpare' /\ NameIsThere'
    BY <1>2, <1>3, <2>1 DEF OnDisk, InMemory, ConfigIsSpare, NameIsThere, Safe
  <2> QED
    BY <2>2, <2>3 DEF ListIInv
<1>4. CASE /\ kept' = kept \ List!KeysIn(file.entries)
           /\ risked' = risked \ List!KeysIn(file.entries)
           /\ UNCHANGED <<file, aside>>
  <2>1. List!TypeOK' /\ Lengths'
    BY <1>1, <1>2, <1>4 DEF List!TypeOK, Lengths
  <2>2. OnDisk' /\ InMemory' /\ ConfigIsSpare' /\ NameIsThere'
    BY <1>2, <1>4 DEF OnDisk, InMemory, ConfigIsSpare, NameIsThere, Safe
  <2> QED
    BY <2>1, <2>2 DEF ListIInv
<1> QED
  BY <1>3, <1>4 DEF List!LoadBroken, List!GiveUp, List!history

LEMMA LoadNothingKeeps ==
  ASSUME List!ListAssumption, ListIInv, List!LoadNothing
  PROVE  ListIInv'
<1>1. /\ List!TypeOK /\ Lengths /\ OnDisk /\ InMemory
      /\ kept \in SUBSET Keys /\ configKey \in Keys \union {NoKey}
      /\ List!KeysIn(file.entries) \subseteq Keys
  BY FileKeys DEF ListIInv, List!TypeOK
<1>2. /\ screen = "loading" /\ connections = <<>>
      /\ UNCHANGED <<file, aside, configKey, fields, loaded, subject, kept>>
  BY <1>1 DEF List!LoadNothing, List!diskVars, InMemory
<1>3. CASE /\ screen' = "idle" /\ UNCHANGED connections
           /\ risked' = risked \union ((List!KeysIn(file.entries) \union {configKey}) \intersect kept)
  <2>1. List!TypeOK' /\ Lengths' /\ NameIsThere'
    BY <1>1, <1>2, <1>3 DEF List!TypeOK, Lengths, NameIsThere
  <2>2. Safe' \subseteq Safe /\ Safe' \subseteq aside
    BY <1>1, <1>2, <1>3 DEF OnDisk, Safe, List!ListAssumption
  <2>3. OnDisk' /\ InMemory' /\ ConfigIsSpare'
    BY <1>1, <1>2, <1>3, <2>2 DEF OnDisk, InMemory, ConfigIsSpare
  <2> QED
    BY <2>1, <2>3 DEF ListIInv
<1>4. CASE /\ configKey # NoKey /\ screen' = "import"
           /\ connections' = <<[name |-> Imported, key |-> configKey, sealed |-> NoKey]>>
           /\ risked' = risked \union (List!KeysIn(file.entries) \intersect kept)
  <2> DEFINE c == [name |-> Imported, key |-> configKey, sealed |-> NoKey]
  <2>1. c \in List!Connections /\ connections' = <<c>> /\ c.key = configKey
    BY <1>1, <1>4 DEF List!Connections, List!ListAssumption
  <2> HIDE DEF c
  <2>2. /\ connections' \in Seq(List!Connections) /\ Len(connections') = 1
        /\ DOMAIN connections' = {1} /\ connections'[1] = c
    BY <2>1
  <2>3. DOMAIN Memory' = {1} /\ Memory'[1].key = configKey
    BY <1>4, <2>1, <2>2 DEF Memory, List!EachOf, List!Encoded
  <2>4. configKey \in List!KeysIn(Memory')
    BY <1>4, <2>3, KeysInIs
  <2>5. List!TypeOK' /\ Lengths' /\ NameIsThere'
    BY <1>1, <1>2, <1>4, <2>2 DEF List!TypeOK, Lengths, NameIsThere, List!ListAssumption
  <2>6. Safe' \subseteq Safe /\ Safe' \subseteq aside \union {configKey}
    BY <1>1, <1>2, <1>4 DEF OnDisk, Safe, List!ListAssumption
  <2>7. OnDisk' /\ InMemory' /\ ConfigIsSpare'
    BY <1>1, <1>2, <1>4, <2>4, <2>6 DEF OnDisk, InMemory, ConfigIsSpare
  <2> QED
    BY <2>5, <2>7 DEF ListIInv
<1> QED
  BY <1>3, <1>4 DEF List!LoadNothing, List!Risk

LEMMA LoadingKeeps ==
  ASSUME List!ListAssumption, ListIInv,
         List!StartTray \/ List!Migrate \/ List!Import \/ List!Strip
  PROVE  ListIInv'
<1>1. List!TypeOK /\ Lengths /\ OnDisk /\ InMemory /\ ConfigIsSpare
  BY DEF ListIInv
<1>2. /\ UNCHANGED <<aside, connections, fields, loaded, subject>>
      /\ screen' \notin {"save", "connect"}
  BY DEF List!StartTray, List!Migrate, List!Import, List!Strip, List!diskVars, List!windowVars
<1>3. NameIsThere' /\ Memory' = Memory
  BY <1>2 DEF NameIsThere, Memory
<1>4. CASE List!StartTray
  <2>1. /\ screen = "off" /\ screen' = "loading"
        /\ UNCHANGED <<file, configKey, kept, risked>>
    BY <1>4 DEF List!StartTray, List!diskVars, List!history
  <2>2. List!TypeOK' /\ Lengths'
    BY <1>1, <1>2, <2>1 DEF List!TypeOK, Lengths
  <2>3. OnDisk' /\ InMemory' /\ ConfigIsSpare'
    BY <1>1, <1>2, <2>1 DEF OnDisk, InMemory, ConfigIsSpare, Safe
  <2> QED
    BY <1>3, <2>2, <2>3 DEF ListIInv
<1>5. CASE List!Saved /\ (List!Migrate \/ List!Import)
  <2>1. /\ screen \in {"migrate", "import"} /\ screen' \in {"idle", "strip"}
        /\ UNCHANGED configKey
    BY <1>5 DEF List!Migrate, List!Import
  <2>2. /\ file' \in [state : {"absent", "good", "broken"}, entries : Seq(List!Entries)]
        /\ Len(file'.entries) <= MaxLen
        /\ file'.state = "good" /\ kept' \in SUBSET Keys /\ risked' \in SUBSET Keys
        /\ Safe' \subseteq List!KeysIn(file'.entries) \union aside
        /\ Safe' \subseteq List!KeysIn(Memory) \union aside
    BY <1>2, <1>5, <2>1, SavedIs
  <2>3. List!TypeOK' /\ Lengths'
    BY <1>1, <1>2, <2>1, <2>2 DEF List!TypeOK, Lengths
  <2>4. OnDisk' /\ InMemory' /\ ConfigIsSpare'
    BY <1>2, <1>3, <2>1, <2>2 DEF OnDisk, InMemory, ConfigIsSpare
  <2> QED
    BY <1>3, <2>3, <2>4 DEF ListIInv
<1>6. CASE /\ List!Import /\ screen' = "idle" /\ UNCHANGED <<file, kept>>
           /\ risked' = risked \union ({configKey} \intersect kept)
  <2>1. screen = "import" /\ UNCHANGED configKey
    BY <1>6 DEF List!Import
  <2>2. List!TypeOK' /\ Lengths'
    BY <1>1, <1>2, <1>6, <2>1 DEF List!TypeOK, Lengths
  <2>3. Safe' \subseteq Safe /\ Safe' \subseteq Safe \ {configKey}
    BY <1>1, <1>6 DEF Safe, List!TypeOK, List!ListAssumption
  <2>4. OnDisk' /\ InMemory' /\ ConfigIsSpare'
    BY <1>1, <1>2, <1>3, <1>6, <2>1, <2>3 DEF OnDisk, InMemory, ConfigIsSpare
  <2> QED
    BY <1>3, <2>2, <2>4 DEF ListIInv
<1>7. CASE List!Strip \/ (List!Migrate /\ List!NotSaved)
  <2>1. /\ screen \in {"strip", "migrate"} /\ screen' = "idle"
        /\ UNCHANGED <<file, kept, risked>>
        /\ configKey' \in {NoKey, configKey}
        /\ screen = "migrate" => UNCHANGED configKey
    BY <1>7 DEF List!Strip, List!Migrate, List!NotSaved, List!Stripped, List!history
  <2>2. List!TypeOK' /\ Lengths'
    BY <1>1, <1>2, <2>1 DEF List!TypeOK, Lengths
  <2>3. OnDisk' /\ InMemory' /\ ConfigIsSpare'
    BY <1>1, <1>2, <1>3, <2>1 DEF OnDisk, InMemory, ConfigIsSpare, Safe
  <2> QED
    BY <1>3, <2>2, <2>3 DEF ListIInv
<1> QED
  BY <1>4, <1>5, <1>6, <1>7 DEF List!Migrate, List!Import, List!Risk

(* The entry that is selected is shown. *)
LEMMA FillIs ==
  ASSUME List!TypeOK, Lengths, List!ListAssumption, NEW i \in DOMAIN connections, List!Fill(i)
  PROVE  /\ fields' \in [name : FileNames \union {NoKey}, key : Keys \union {NoKey}]
         /\ loaded' \in FileNames \union {NoKey} /\ subject' \in 0 .. MaxLen
<1>1. connections[i] \in List!Connections /\ i \in 0 .. MaxLen
  BY DEF List!TypeOK, Lengths, List!ListAssumption
<1>2. connections[i].name \in FileNames /\ connections[i].key \in Keys \union {NoKey}
  BY <1>1 DEF List!Connections
<1> QED
  BY <1>1, <1>2 DEF List!Fill

(* Selecting, typing, and the end of the process. *)
LEMMA WindowKeeps ==
  ASSUME List!ListAssumption, ListIInv,
         \/ \E i \in 1 .. MaxLen : List!Select(i) \/ List!Activate(i)
         \/ List!New
         \/ \E n \in FileNames, key \in Keys \union {NoKey} : List!Type(n, key)
  PROVE  ListIInv'
<1>1. List!TypeOK /\ Lengths /\ OnDisk /\ InMemory /\ ConfigIsSpare
  BY DEF ListIInv
<1>2. /\ screen = "idle" /\ screen' = "idle"
      /\ UNCHANGED <<file, aside, connections, kept, risked>> /\ configKey' \in {NoKey, configKey}
  BY DEF List!Select, List!Activate, List!New, List!Type, List!diskVars, List!history, List!Stripped
<1>3. /\ fields' \in [name : FileNames \union {NoKey}, key : Keys \union {NoKey}]
      /\ loaded' \in FileNames \union {NoKey} /\ subject' \in 0 .. MaxLen
  <2>1. CASE \E i \in 1 .. MaxLen : List!Select(i) \/ List!Activate(i)
    BY <1>1, <2>1, FillIs DEF List!Select, List!Activate
  <2>2. CASE List!New
    BY <2>2, <1>1 DEF List!New, List!Blank, List!NoFields, List!TypeOK, List!ListAssumption
  <2>3. CASE \E n \in FileNames, key \in Keys \union {NoKey} : List!Type(n, key)
    BY <2>3, <1>1 DEF List!Type, List!TypeOK
  <2> QED
    BY <2>1, <2>2, <2>3
<1>4. Memory' = Memory /\ NameIsThere'
  BY <1>2 DEF Memory, NameIsThere
<1>5. List!TypeOK' /\ Lengths'
  BY <1>1, <1>2, <1>3 DEF List!TypeOK, Lengths
<1>6. OnDisk' /\ InMemory' /\ ConfigIsSpare'
  BY <1>1, <1>2, <1>4 DEF OnDisk, InMemory, ConfigIsSpare, Safe
<1> QED
  BY <1>4, <1>5, <1>6 DEF ListIInv

LEMMA ExitKeeps ==
  ASSUME List!ListAssumption, ListIInv, List!Exit
  PROVE  ListIInv'
<1>1. List!TypeOK /\ Lengths /\ OnDisk
  BY DEF ListIInv
<1>2. /\ screen' = "off" /\ connections' = <<>>
      /\ UNCHANGED <<file, aside, configKey, kept, risked>>
      /\ fields' = [name |-> NoKey, key |-> NoKey] /\ loaded' = NoKey /\ subject' = 0
  BY DEF List!Exit, List!Blank, List!NoFields, List!diskVars, List!history
<1>3. List!TypeOK' /\ Lengths'
  BY <1>1, <1>2 DEF List!TypeOK, Lengths, List!ListAssumption
<1>4. OnDisk' /\ InMemory' /\ ConfigIsSpare' /\ NameIsThere'
  BY <1>1, <1>2 DEF OnDisk, InMemory, ConfigIsSpare, NameIsThere, Safe
<1> QED
  BY <1>3, <1>4 DEF ListIInv

(* saveFields and onDeleteConnection from the write on. *)
LEMMA WriteKeeps ==
  ASSUME List!ListAssumption, ListIInv, List!Write
  PROVE  ListIInv'
<1>1. List!TypeOK /\ Lengths /\ OnDisk /\ InMemory /\ ConfigIsSpare /\ NameIsThere
  BY DEF ListIInv
<1>2. /\ screen \in {"save", "connect", "delete"} /\ screen' = "idle"
      /\ UNCHANGED <<aside, connections>>
  BY DEF List!Write
<1>3. Memory' = Memory /\ NameIsThere'
  BY <1>2 DEF Memory, NameIsThere
<1>4. CASE List!NotSaved /\ UNCHANGED <<fields, loaded, subject, configKey>>
  <2>1. UNCHANGED <<file, kept, risked>>
    BY <1>4 DEF List!NotSaved, List!history
  <2>2. List!TypeOK' /\ Lengths'
    BY <1>1, <1>2, <1>4, <2>1 DEF List!TypeOK, Lengths
  <2>3. OnDisk' /\ InMemory' /\ ConfigIsSpare'
    BY <1>1, <1>2, <1>3, <1>4, <2>1 DEF OnDisk, InMemory, ConfigIsSpare, Safe
  <2> QED
    BY <1>3, <2>2, <2>3 DEF ListIInv
<1>5. ASSUME List!Saved, configKey' \in {NoKey, configKey},
             \/ screen \in {"save", "connect"} /\ List!Fill(List!First(List!Named(fields.name)))
             \/ List!Blank
      PROVE  ListIInv'
  <2>1. /\ file' \in [state : {"absent", "good", "broken"}, entries : Seq(List!Entries)]
        /\ Len(file'.entries) <= MaxLen
        /\ file'.state = "good" /\ kept' \in SUBSET Keys /\ risked' \in SUBSET Keys
        /\ Safe' \subseteq List!KeysIn(file'.entries) \union aside
        /\ Safe' \subseteq List!KeysIn(Memory) \union aside
    BY <1>2, <1>5, SavedIs
  <2>2. /\ fields' \in [name : FileNames \union {NoKey}, key : Keys \union {NoKey}]
        /\ loaded' \in FileNames \union {NoKey} /\ subject' \in 0 .. MaxLen
    <3>1. CASE screen \in {"save", "connect"} /\ List!Fill(List!First(List!Named(fields.name)))
      <4>1. List!First(List!Named(fields.name)) \in DOMAIN connections
        BY <1>1, <3>1, NamedIs DEF NameIsThere
      <4> QED
        BY <1>1, <3>1, <4>1, FillIs
    <3>2. CASE List!Blank
      BY <3>2 DEF List!Blank, List!NoFields, List!ListAssumption
    <3> QED
      BY <1>5, <3>1, <3>2
  <2>3. List!TypeOK' /\ Lengths'
    BY <1>1, <1>2, <1>5, <2>1, <2>2 DEF List!TypeOK, Lengths
  <2>4. OnDisk' /\ InMemory' /\ ConfigIsSpare'
    BY <1>2, <1>3, <2>1 DEF OnDisk, InMemory, ConfigIsSpare
  <2> QED
    BY <1>3, <2>3, <2>4 DEF ListIInv
<1> QED
  BY <1>2, <1>4, <1>5 DEF List!Write

LEMMA DeleteKeeps ==
  ASSUME List!ListAssumption, ListIInv, NEW i \in 1 .. MaxLen, List!DeleteEntry(i)
  PROVE  ListIInv'
<1>1. /\ List!TypeOK /\ Lengths /\ OnDisk /\ InMemory /\ ConfigIsSpare
      /\ connections \in Seq(List!Connections)
  BY DEF ListIInv, List!TypeOK
<1>2. /\ screen = "idle" /\ screen' = "delete" /\ subject' = 0 /\ i \in DOMAIN connections
      /\ connections' = List!RemoveAt(connections, i)
      /\ kept' = kept \ ({connections[i].key, connections[i].sealed} \ List!KeysIn(Memory'))
      /\ risked' = risked \ ({connections[i].key, connections[i].sealed} \ List!KeysIn(Memory'))
      /\ UNCHANGED <<file, aside, configKey, fields, loaded>>
  BY DEF List!DeleteEntry, List!GiveUp, List!diskVars, List!KeysOf, Memory
<1>3. /\ connections' \in Seq(List!Connections) /\ Len(connections') = Len(connections) - 1
      /\ \A j \in DOMAIN connections' :
           connections'[j] = IF j < i THEN connections[j] ELSE connections[j + 1]
  BY <1>1, <1>2, RemoveAtIs
<1>4. /\ DOMAIN connections = 1 .. Len(connections) /\ Len(connections) \in Nat
      /\ DOMAIN connections' = 1 .. Len(connections) - 1 /\ i \in Int
  BY <1>1, <1>3
<1>5. List!TypeOK' /\ Lengths' /\ NameIsThere'
  BY <1>1, <1>2, <1>3, <1>4 DEF List!TypeOK, Lengths, NameIsThere, List!ListAssumption
<1>6. Safe' \subseteq List!KeysIn(Memory') \union aside
  <2> SUFFICES ASSUME NEW key \in Safe', key \notin aside, key \notin List!KeysIn(Memory')
               PROVE  FALSE
    OBVIOUS
  <2>1. /\ key \in List!KeysIn(Memory) /\ key \in Keys /\ key \in kept'
    BY <1>1, <1>2 DEF InMemory, List!TypeOK, Safe
  <2>2. PICK j \in DOMAIN connections : Memory[j].key = key
    BY <1>1, <2>1, MemoryIs, KeysInIs
  <2>3. j # i
    BY <1>1, <1>2, <2>1, <2>2, MemoryIs
  <2> DEFINE m == IF j < i THEN j ELSE j - 1
  <2>4. m \in DOMAIN connections' /\ connections'[m] = connections[j]
    <3>1. j \in 1 .. Len(connections) /\ j \in Int /\ j # i
      BY <1>4, <2>2, <2>3
    <3>2. CASE j < i
      <4>1. m = j /\ m \in 1 .. Len(connections) - 1
        BY <1>2, <1>4, <3>1, <3>2
      <4> QED
        BY <1>3, <1>4, <3>2, <4>1
    <3>3. CASE ~(j < i)
      <4>1. m = j - 1 /\ m \in DOMAIN connections' /\ ~(m < i) /\ m + 1 = j
        BY <1>4, <3>1, <3>3
      <4> QED
        BY <1>3, <4>1
    <3> QED
      BY <3>2, <3>3
  <2> HIDE DEF m
  <2>5. DOMAIN Memory' = DOMAIN connections' /\ Memory'[m] = Memory[j]
    BY <2>2, <2>4 DEF Memory, List!EachOf
  <2> QED
    BY <2>1, <2>2, <2>4, <2>5, KeysInIs DEF List!ListAssumption
<1>7. OnDisk' /\ InMemory' /\ ConfigIsSpare'
  BY <1>1, <1>2, <1>6 DEF OnDisk, InMemory, ConfigIsSpare, Safe
<1> QED
  BY <1>5, <1>7 DEF ListIInv

(* upsertConnection replaces one entry: what it had is in the new one, or  *)
(* given up, or at risk.                                                   *)
LEMMA ReplaceKeeps ==
  ASSUME List!ListAssumption, List!TypeOK, InMemory, screen = "idle",
         fields.name \in FileNames, NEW t \in DOMAIN connections, List!Replace(t)
  PROVE  /\ connections' \in Seq(List!Connections) /\ Len(connections') = Len(connections)
         /\ DOMAIN connections' = DOMAIN connections /\ connections'[t].name = fields.name
         /\ kept' \in SUBSET Keys /\ risked' \in SUBSET Keys /\ Safe' \subseteq Safe
         /\ Safe' \subseteq List!KeysIn(Memory') \union aside
<1> DEFINE c == [name |-> fields.name, key |-> fields.key, sealed |-> List!CarrySealed(t)]
           gone == List!Overwritten(t) \ List!KeysIn(Memory')
<1>1. /\ connections \in Seq(List!Connections) /\ connections[t] \in List!Connections
      /\ kept \in SUBSET Keys /\ risked \in SUBSET Keys /\ fields.key \in Keys \union {NoKey}
  BY DEF List!TypeOK
<1>2. /\ connections' = [connections EXCEPT ![t] = c]
      /\ \/ kept' = kept \ gone /\ risked' = risked \ gone
         \/ risked' = risked \union (gone \intersect kept) /\ UNCHANGED kept
  BY DEF List!Replace, List!Risk, List!GiveUp, List!KeysOf, Memory
<1>3. List!CarrySealed(t) = IF fields.key = NoKey THEN connections[t].sealed ELSE NoKey
  BY DEF List!CarrySealed
<1>4. /\ c \in List!Connections /\ c.name = fields.name /\ c.key = fields.key
      /\ c.sealed = IF fields.key = NoKey THEN connections[t].sealed ELSE NoKey
  BY <1>1, <1>3 DEF List!Connections
<1> HIDE DEF c
<1>5. /\ connections' \in Seq(List!Connections) /\ Len(connections') = Len(connections)
      /\ DOMAIN connections' = DOMAIN connections
      /\ connections'[t] = c
      /\ \A j \in DOMAIN connections : j # t => connections'[j] = connections[j]
  BY <1>1, <1>2, <1>4
<1>6. gone \subseteq Keys \union {NoKey}
  BY <1>1 DEF List!Overwritten, List!Connections
<1>7. /\ kept' \in SUBSET Keys /\ risked' \in SUBSET Keys
      /\ Safe' \subseteq Safe \ (gone \ {NoKey}) /\ NoKey \notin Safe
  BY <1>1, <1>2, <1>6 DEF Safe, List!ListAssumption
<1>8. Safe' \subseteq List!KeysIn(Memory') \union aside
  <2> SUFFICES ASSUME NEW key \in Safe', key \notin aside, key \notin List!KeysIn(Memory')
               PROVE  FALSE
    OBVIOUS
  <2>1. key \in List!KeysIn(Memory) /\ key # NoKey /\ key \notin List!Overwritten(t)
    BY <1>7 DEF InMemory, List!ListAssumption
  <2>2. PICK j \in DOMAIN connections : Memory[j].key = key
    BY <2>1, MemoryIs, KeysInIs
  <2>3. DOMAIN Memory' = DOMAIN connections
        /\ \A m \in DOMAIN connections : Memory'[m] = List!Encoded(connections'[m])
    BY <1>5 DEF Memory, List!EachOf
  <2>4. CASE j # t
    <3>1. Memory'[j] = Memory[j]
      BY <1>5, <2>2, <2>3, <2>4 DEF Memory, List!EachOf
    <3> QED
      BY <2>1, <2>2, <2>3, <3>1, KeysInIs
  <2>5. CASE j = t
    <3>1. key = IF connections[t].key # NoKey THEN connections[t].key ELSE connections[t].sealed
      BY <2>2, <2>5, MemoryIs
    <3>2. Memory'[t].key = IF c.key # NoKey THEN c.key ELSE c.sealed
      BY <1>4, <1>5, <2>3, EncodedIs
    <3>3. fields.key = NoKey /\ key = connections[t].sealed
      BY <2>1, <3>1 DEF List!Overwritten
    <3>4. Memory'[t].key = key
      BY <1>4, <3>2, <3>3
    <3> QED
      BY <2>1, <2>3, <3>4, KeysInIs
  <2> QED
    BY <2>4, <2>5
<1> QED
  BY <1>4, <1>5, <1>7, <1>8

LEMMA AddKeeps ==
  ASSUME List!ListAssumption, List!TypeOK, fields.name \in FileNames, List!Add
  PROVE  /\ connections' \in Seq(List!Connections)
         /\ Len(connections') = Len(connections) + 1 /\ Len(connections') <= MaxLen
         /\ \E j \in DOMAIN connections' : connections'[j].name = fields.name
         /\ UNCHANGED <<kept, risked>>
         /\ List!KeysIn(Memory) \subseteq List!KeysIn(Memory')
<1> DEFINE c == [name |-> fields.name, key |-> fields.key, sealed |-> NoKey]
           n == Len(connections) + 1
<1>1. /\ Len(connections) < MaxLen /\ connections' = Append(connections, c)
      /\ UNCHANGED <<kept, risked>>
      /\ connections \in Seq(List!Connections) /\ Len(connections) \in Nat
  BY DEF List!Add, List!TypeOK, List!history
<1>2. c \in List!Connections /\ c.name = fields.name
  BY DEF List!Connections, List!TypeOK
<1> HIDE DEF c
<1>3. /\ connections' \in Seq(List!Connections) /\ Len(connections') = n
      /\ DOMAIN connections' = 1 .. n /\ DOMAIN connections = 1 .. n - 1
      /\ connections'[n] = c
      /\ \A j \in 1 .. n - 1 : connections'[j] = connections[j]
  BY <1>1, <1>2
<1>4. n \in 1 .. n /\ n <= MaxLen
  BY <1>1 DEF List!ListAssumption
<1> HIDE DEF n
<1>5. List!KeysIn(Memory) \subseteq List!KeysIn(Memory')
  <2>1. DOMAIN Memory = 1 .. n - 1 /\ DOMAIN Memory' = 1 .. n
    BY <1>3 DEF Memory, List!EachOf
  <2>2. \A j \in 1 .. n - 1 : j \in 1 .. n /\ Memory'[j] = Memory[j]
    BY <1>3, <1>4 DEF Memory, List!EachOf
  <2> QED
    BY <2>1, <2>2, KeysInIs
<1> QED
  BY <1>1, <1>2, <1>3, <1>4, <1>5 DEF n

LEMMA SaveKeeps ==
  ASSUME List!ListAssumption, ListIInv, NEW then \in {"save", "connect"}, List!Save(then)
  PROVE  ListIInv'
<1>1. List!TypeOK /\ Lengths /\ OnDisk /\ InMemory /\ ConfigIsSpare
  BY DEF ListIInv
<1>2. /\ screen = "idle" /\ screen' = then /\ fields.name # NoKey
      /\ UNCHANGED <<file, aside, configKey, fields, loaded, subject>>
  BY DEF List!Save, List!diskVars
<1>3. fields.name \in FileNames
  BY <1>1, <1>2 DEF List!TypeOK
<1>4. /\ connections' \in Seq(List!Connections) /\ Len(connections') <= MaxLen
      /\ \E j \in DOMAIN connections' : connections'[j].name = fields.name
      /\ kept' \in SUBSET Keys /\ risked' \in SUBSET Keys /\ Safe' \subseteq Safe
      /\ Safe' \subseteq List!KeysIn(Memory') \union aside
  <2>1. CASE List!Targets # {} /\ List!Replace(List!First(List!Targets))
    <3>1. List!First(List!Targets) \in DOMAIN connections
      BY <1>1, <2>1, NamedIs DEF List!Targets
    <3> QED
      BY <1>1, <1>2, <1>3, <2>1, <3>1, ReplaceKeeps DEF Lengths
  <2>2. CASE List!Add
    BY <1>1, <1>2, <1>3, <2>2, AddKeeps DEF Safe, InMemory, List!TypeOK
  <2> QED
    BY <2>1, <2>2 DEF List!Save
<1>5. List!TypeOK' /\ Lengths' /\ NameIsThere'
  BY <1>1, <1>2, <1>4 DEF List!TypeOK, Lengths, NameIsThere, List!Named
<1>6. OnDisk' /\ InMemory' /\ ConfigIsSpare'
  BY <1>1, <1>2, <1>4 DEF OnDisk, InMemory, ConfigIsSpare
<1> QED
  BY <1>5, <1>6 DEF ListIInv

LEMMA ListNext ==
  ASSUME List!ListAssumption, ListIInv, [List!Next]_(List!vars)
  PROVE  ListIInv'
<1>1. CASE UNCHANGED List!vars
  <2>1. UNCHANGED <<file, aside, configKey, screen, connections, fields, loaded, subject, kept, risked>>
    BY <1>1 DEF List!vars, List!diskVars, List!windowVars, List!history
  <2>2. Memory' = Memory /\ List!TypeOK' = List!TypeOK /\ NameIsThere' = NameIsThere
    BY <2>1 DEF Memory, List!TypeOK, NameIsThere, List!Named
  <2> QED
    BY <2>1, <2>2 DEF ListIInv, Lengths, OnDisk, InMemory, ConfigIsSpare, Safe
<1>2. CASE List!Next
  BY <1>2, LoadGoodKeeps, LoadBrokenKeeps, LoadNothingKeeps, LoadingKeeps, WindowKeeps, ExitKeeps,
     WriteKeeps, DeleteKeeps, SaveKeeps DEF List!Next
<1> QED
  BY <1>1, <1>2

(* No key is lost but by the user's will, whatever fails and wherever the  *)
(* tray ends, for any number of keys, names and entries, unless the file   *)
(* that has it cannot be read, its import is not saved, or a save meets    *)
(* its entry instead of the one shown (connections.go:94-106, 145-173,    *)
(* 183-203, 247-254).                                                      *)
THEOREM KeysAreKept ==
  ASSUME List!ListAssumption
  PROVE  List!Spec => []KeysSurvive
<1>1. List!Init => ListIInv
  BY ListInit
<1>2. ListIInv /\ [List!Next]_(List!vars) => ListIInv'
  BY ListNext
<1>3. ListIInv => KeysSurvive
  <2> SUFFICES ASSUME ListIInv PROVE KeysSurvive
    OBVIOUS
  <2>1. Safe \subseteq Keys /\ NoKey \notin Keys /\ OnDisk
    BY DEF ListIInv, List!TypeOK, List!ListAssumption, Safe
  <2>2. KeysSurvive <=> Safe \subseteq List!Stored
    BY DEF KeysSurvive, List!KeysSurvive, Safe
  <2> QED
    BY <2>1, <2>2 DEF OnDisk, List!Stored
<1> QED
  BY <1>1, <1>2, <1>3, PTL DEF List!Spec
=============================================================================
