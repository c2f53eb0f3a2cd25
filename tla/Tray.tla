-------------------------------- MODULE Tray --------------------------------
(***************************************************************************)
(* The tray application (cmd/tray): goroutines that start and stop         *)
(* client.exe, and the PowerShell script they run to set up routes and to  *)
(* block IPv6 while the tunnel is up, or with -Teardown to unblock it.     *)
(*                                                                         *)
(* One goroutine holds connectMu: connect, or the cleanup at startup.      *)
(* Beside it there are goroutines of disconnect, one waiting for every     *)
(* client.exe to exit, and the GUI thread when the user quits.  A program  *)
(* counter has a value for every point between two accesses to what they   *)
(* share: clientCmd under its mutex, connGen, tunnelUp, the buttons, and   *)
(* the firewall.  Scripts take as long as they like.                       *)
(*                                                                         *)
(* Of connGen only matters whether it has changed since connect read it:   *)
(* cancelled.  Status texts, icons and the reason of an exit are left out. *)
(***************************************************************************)
EXTENDS Integers, FiniteSets

CONSTANTS
  Clients,      \* client.exe processes; used again once nobody knows them
  Disconnects,  \* goroutines of disconnect
  Restarts,     \* whether the tray may end and be started again
  None

Connect == "connect"
Quit    == "quit"
Stoppers == Disconnects \union {Connect, Quit}   \* who calls stopClient

ASSUME TrayAssumption ==
  /\ IsFiniteSet(Clients) /\ IsFiniteSet(Disconnects)
  /\ Restarts \in BOOLEAN
  /\ None \notin Clients /\ {Connect, Quit} \cap Disconnects = {}

VARIABLES
  running,     \* the clients that run
  clientCmd,
  taken,       \* the client a stopper took out of clientCmd and will kill
  waiter,      \* what waits for the client to exit: "none", "waiting",
               \* "teardown", "report"
  step,        \* of the holder of connectMu; "idle" if it is free
  current,     \* its client
  said,        \* the client has said that it is connected
  cancelled,   \* disconnect was called since connect read connGen
  disc,        \* disconnect: "idle", "clicked", "stop", "kill", "teardown",
               \* "report"
  gui,         \* the GUI thread: "idle", "kill", "teardown", "exited"
  tunnelUp,
  active,      \* the disconnect button is enabled
  rule,        \* the firewall rule that blocks IPv6: "none", or added by a
               \* "connect" or by a "stray" script of a tray that ended
  orphans,     \* scripts that outlived the tray, by what they will do next
  later       \* history: a connect, or the rest of one, that the last
               \* disconnect or start did not see

procVars == <<running, clientCmd, taken, waiter>>
connVars == <<step, current, said, cancelled>>
vars == <<procVars, connVars, disc, gui, tunnelUp, active, rule, orphans, later>>

TypeOK ==
  /\ running \subseteq Clients
  /\ clientCmd \in Clients \union {None}
  /\ taken \in [Stoppers -> Clients \union {None}]
  /\ waiter \in [Clients -> {"none", "waiting", "teardown", "report"}]
  /\ step \in {"startup", "idle", "stop", "kill", "begin", "start", "register",
               "select", "script", "probe", "check", "check failed", "finish",
               "give up", "give up kill", "undo", "undo kill", "teardown"}
  /\ current \in Clients \union {None}
  /\ disc \in [Disconnects -> {"idle", "clicked", "stop", "kill", "teardown",
                            "report"}]
  /\ gui \in {"idle", "kill", "teardown", "exited"}
  /\ {said, cancelled, tunnelUp, active, later} \subseteq BOOLEAN
  /\ rule \in {"none", "connect", "stray"}
  /\ orphans \subseteq {"script", "teardown"}

(* A tray has just been started; an earlier one may have left the rule. *)
Init ==
  /\ running = {} /\ waiter = [c \in Clients |-> "none"]
  /\ clientCmd = None /\ taken = [g \in Stoppers |-> None]
  /\ step = "startup" /\ current = None /\ said = FALSE /\ cancelled = FALSE
  /\ disc = [d \in Disconnects |-> "idle"] /\ gui = "idle"
  /\ tunnelUp = FALSE /\ active = FALSE
  /\ rule \in {"none", "connect"} /\ orphans = {} /\ later = FALSE

-----------------------------------------------------------------------------
(* stopClient: takes the client under the mutex, kills it afterwards. *)
Take(g) ==
  /\ taken' = [taken EXCEPT ![g] = clientCmd]
  /\ clientCmd' = None
  /\ UNCHANGED <<running, waiter>>

Kill(g) ==
  /\ running' = running \ {taken[g]}
  /\ taken' = [taken EXCEPT ![g] = None]
  /\ UNCHANGED <<clientCmd, waiter>>

(* fail *)
Fail == tunnelUp' = FALSE /\ active' = FALSE

Goto(s) == step' = s /\ UNCHANGED <<current, said, cancelled>>

(* connect returns, and connectMu is unlocked. *)
Return ==
  step' = "idle" /\ current' = None /\ said' = FALSE /\ cancelled' = FALSE

-----------------------------------------------------------------------------
(* startConnect: the button, the menu or a double click.  The last works   *)
(* at any time; a config that cannot be written changes nothing.           *)
StartConnect ==
  /\ gui = "idle" /\ step = "idle"
  /\ step' = "stop" /\ tunnelUp' = FALSE /\ later' = TRUE
  /\ UNCHANGED <<procVars, current, said, cancelled, disc, gui, active, rule, orphans>>

StopOld(s) == Goto(s) /\ Take(Connect)

StopPrevious ==
  /\ step = "stop"
  /\ StopOld("kill")
  /\ UNCHANGED <<disc, gui, tunnelUp, active, rule, orphans, later>>

KillPrevious ==
  /\ step = "kill"
  /\ Goto("begin") /\ Kill(Connect)
  /\ UNCHANGED <<disc, gui, tunnelUp, active, rule, orphans, later>>

(* connGen is read. *)
Begin ==
  /\ step = "begin"
  /\ step' = "start" /\ cancelled' = FALSE
  /\ active' = TRUE
  /\ UNCHANGED <<procVars, current, said, disc, gui, tunnelUp, rule, orphans, later>>

(* A file is missing, or the process cannot be started. *)
CannotStart ==
  /\ step = "start"
  /\ Fail /\ Return
  /\ UNCHANGED <<procVars, disc, gui, rule, orphans, later>>

Forgotten(c) ==
  c \notin running /\ waiter[c] = "none" /\ \A g \in Stoppers : taken[g] # c

Start(c) ==
  /\ step = "start" /\ Forgotten(c)
  /\ running' = running \union {c}
  /\ current' = c /\ step' = "register"
  /\ UNCHANGED <<clientCmd, taken, waiter, said, cancelled, disc, gui, tunnelUp,
                 active, rule, orphans, later>>

\* Variant with a bug: the new client is not killed when connect was cancelled.
LetRun == UNCHANGED running
KillNew == running' = running \ {current}

Register ==
  /\ step = "register"
  /\ \/ /\ cancelled
        /\ KillNew /\ Return
        /\ UNCHANGED <<clientCmd, waiter>>
     \/ /\ ~cancelled
        /\ clientCmd' = current
        /\ waiter' = [waiter EXCEPT ![current] = "waiting"]
        /\ Goto("select")
        /\ UNCHANGED running
  /\ UNCHANGED <<taken, disc, gui, tunnelUp, active, rule, orphans, later>>

-----------------------------------------------------------------------------
(* The select: a line says that the client is connected, or the output     *)
(* ends, or time is up.                                                    *)
Connected ==
  /\ step = "select" /\ said
  /\ \/ cancelled /\ Return /\ UNCHANGED <<tunnelUp, active>>
     \/ ~cancelled /\ Goto("script") /\ UNCHANGED <<tunnelUp, active>>
     \/ ~cancelled /\ Goto("give up") /\ Fail   \* no usable address in it
  /\ UNCHANGED <<procVars, disc, gui, rule, orphans, later>>

OutputEnded ==
  /\ step = "select" /\ current \notin running
  /\ Return
  /\ UNCHANGED <<procVars, disc, gui, tunnelUp, active, rule, orphans, later>>

\* Variant with a bug: no timeout.
NeverTooLate == FALSE
TooLate == step = "select"

TimedOut ==
  /\ TooLate
  /\ IF cancelled THEN Return /\ UNCHANGED <<tunnelUp, active>>
                  ELSE Goto("give up") /\ Fail
  /\ UNCHANGED <<procVars, disc, gui, rule, orphans, later>>

GiveUp ==
  /\ \/ step = "give up" /\ Goto("give up kill") /\ Take(Connect)
     \/ step = "give up kill" /\ Return /\ Kill(Connect)
  /\ UNCHANGED <<disc, gui, tunnelUp, active, rule, orphans, later>>

-----------------------------------------------------------------------------
(* runRouteScript with setupArgs.  An old rule is replaced near the end,   *)
(* then the script probes whether traffic goes through the TUN device,     *)
(* which lives and dies with the client.                                   *)
AddRule ==
  /\ step = "script"
  /\ rule' = "connect" /\ Goto("probe")
  /\ UNCHANGED <<procVars, disc, gui, tunnelUp, active, orphans, later>>

Probe ==
  /\ step = "probe" /\ current \in running
  /\ Goto("check")
  /\ UNCHANGED <<procVars, disc, gui, tunnelUp, active, rule, orphans, later>>

ScriptFails ==
  /\ \/ step = "script" /\ rule' \in {rule, "none"}
     \/ step = "probe" /\ UNCHANGED rule
  /\ Goto("check failed")
  /\ UNCHANGED <<procVars, disc, gui, tunnelUp, active, orphans, later>>

\* Variant with a bug: a cancelled connect leaves the rule to disconnect.
JustReturn == Return
UndoCancelled == Goto("teardown")

Check ==
  /\ step \in {"check", "check failed"}
  /\ \/ cancelled /\ UndoCancelled /\ UNCHANGED <<tunnelUp, active>>
     \/ /\ ~cancelled /\ step = "check" /\ Goto("finish")
        /\ UNCHANGED <<tunnelUp, active>>
     \/ ~cancelled /\ step = "check failed" /\ Goto("undo") /\ Fail
  /\ UNCHANGED <<procVars, disc, gui, rule, orphans, later>>

Undo ==
  /\ \/ step = "undo" /\ Goto("undo kill") /\ Take(Connect)
     \/ step = "undo kill" /\ Goto("teardown") /\ Kill(Connect)
  /\ UNCHANGED <<disc, gui, tunnelUp, active, rule, orphans, later>>

Finish ==
  /\ step = "finish"
  /\ tunnelUp' = TRUE /\ Return
  /\ UNCHANGED <<procVars, disc, gui, active, rule, orphans, later>>

(* teardownRoutes, of a connect and at startup. *)
Teardown ==
  /\ step \in {"startup", "teardown"}
  /\ rule' = "none" /\ Return
  /\ UNCHANGED <<procVars, disc, gui, tunnelUp, active, orphans, later>>

-----------------------------------------------------------------------------
(* client.exe, for all the tray sees of it. *)
ClientConnects ==
  /\ step \in {"register", "select"} /\ current \in running /\ ~said
  /\ said' = TRUE
  /\ UNCHANGED <<procVars, step, current, cancelled, disc, gui, tunnelUp, active,
                 rule, orphans, later>>

ClientExits(c) ==
  /\ c \in running /\ running' = running \ {c}
  /\ UNCHANGED <<clientCmd, taken, waiter, connVars, disc, gui, tunnelUp, active,
                 rule, orphans, later>>

(* The goroutine that waits for it: if nobody has taken the client away,   *)
(* it exited by itself.                                                    *)
Waited(c) ==
  /\ waiter[c] = "waiting" /\ c \notin running
  /\ IF clientCmd = c
       THEN clientCmd' = None /\ waiter' = [waiter EXCEPT ![c] = "teardown"]
       ELSE waiter' = [waiter EXCEPT ![c] = "none"] /\ UNCHANGED clientCmd
  /\ UNCHANGED <<running, taken, connVars, disc, gui, tunnelUp, active, rule,
                 orphans, later>>

WaiterTeardown(c) ==
  /\ waiter[c] = "teardown"
  /\ rule' = "none" /\ waiter' = [waiter EXCEPT ![c] = "report"]
  /\ UNCHANGED <<running, clientCmd, taken, connVars, disc, gui, tunnelUp, active,
                 orphans, later>>

(* reportClientExit *)
WaiterReports(c) ==
  /\ waiter[c] = "report"
  /\ Fail /\ waiter' = [waiter EXCEPT ![c] = "none"]
  /\ UNCHANGED <<running, clientCmd, taken, connVars, disc, gui, rule, orphans, later>>

-----------------------------------------------------------------------------
(* The button starts a goroutine for disconnect. *)
ClickDisconnect(d) ==
  /\ gui = "idle" /\ active /\ disc[d] = "idle"
  /\ disc' = [disc EXCEPT ![d] = "clicked"]
  /\ UNCHANGED <<procVars, connVars, gui, tunnelUp, active, rule, orphans, later>>

(* disconnect.  A connect that has not read connGen yet does not notice.   *)
Unaware == step \in {"startup", "idle", "stop", "kill", "begin"}

Disconnect(d) ==
  /\ disc[d] = "clicked"
  /\ disc' = [disc EXCEPT ![d] = "stop"]
  /\ cancelled' = ~Unaware
  /\ tunnelUp' = FALSE
  /\ later' = (step \in {"stop", "kill", "begin"})
  /\ UNCHANGED <<procVars, step, current, said, gui, active, rule, orphans>>

DisconnectStops(d) ==
  /\ \/ disc[d] = "stop" /\ Take(d) /\ disc' = [disc EXCEPT ![d] = "kill"]
     \/ disc[d] = "kill" /\ Kill(d) /\ disc' = [disc EXCEPT ![d] = "teardown"]
  /\ UNCHANGED <<connVars, gui, tunnelUp, active, rule, orphans, later>>

DisconnectTeardown(d) ==
  /\ disc[d] = "teardown" /\ disc' = [disc EXCEPT ![d] = "report"]
  /\ rule' = "none"
  /\ UNCHANGED <<procVars, connVars, gui, tunnelUp, active, orphans, later>>

DisconnectReports(d) ==
  /\ disc[d] = "report" /\ disc' = [disc EXCEPT ![d] = "idle"]
  /\ active' = FALSE
  /\ UNCHANGED <<procVars, connVars, gui, tunnelUp, rule, orphans, later>>

-----------------------------------------------------------------------------
(* The user quits: the GUI thread does it all.  connGen stays. *)
QuitStops ==
  /\ \/ gui = "idle" /\ Take(Quit) /\ gui' = "kill"
     \/ gui = "kill" /\ Kill(Quit) /\ gui' = "teardown"
  /\ UNCHANGED <<connVars, disc, tunnelUp, active, rule, orphans, later>>

QuitTeardown ==
  /\ gui = "teardown" /\ gui' = "exited"
  /\ rule' = "none"
  /\ UNCHANGED <<procVars, connVars, disc, tunnelUp, active, orphans, later>>

(* The end of the process, by Exit or a crash, and the next start.  The    *)
(* job object takes the clients along, scripts go on; they are over before *)
(* the tray is restarted once more.  A setup script replaces the rule, or  *)
(* fails before or in between.                                             *)
Running ==
  {s \in {"script", "teardown"} :
     \/ s = step
     \/ s = "teardown" /\ \/ step = "startup" \/ gui = "teardown"
                          \/ \E d \in Disconnects : disc[d] = "teardown"
                          \/ \E c \in Clients : waiter[c] = "teardown"}

Restart ==
  /\ Restarts /\ orphans = {}
  /\ running' = {} /\ waiter' = [c \in Clients |-> "none"]
  /\ clientCmd' = None /\ taken' = [g \in Stoppers |-> None]
  /\ step' = "startup" /\ current' = None /\ said' = FALSE /\ cancelled' = FALSE
  /\ disc' = [d \in Disconnects |-> "idle"] /\ gui' = "idle"
  /\ tunnelUp' = FALSE /\ active' = FALSE
  /\ orphans' = Running
  /\ later' = FALSE
  /\ UNCHANGED rule

OrphanRuns(s) ==
  /\ s \in orphans /\ orphans' = orphans \ {s}
  /\ \/ s = "script" /\ rule' \in {rule, "none", IF rule = "none" THEN "stray" ELSE rule}
     \/ s = "teardown" /\ rule' = "none"
  /\ UNCHANGED <<procVars, connVars, disc, gui, tunnelUp, active, later>>

-----------------------------------------------------------------------------
Connecting ==
  \/ StopPrevious \/ KillPrevious \/ Begin \/ CannotStart
  \/ \E c \in Clients : Start(c)
  \/ Register \/ Connected \/ OutputEnded \/ TimedOut \/ GiveUp
  \/ AddRule \/ Probe \/ ScriptFails \/ Check \/ Undo \/ Finish \/ Teardown

Waiting(c) == Waited(c) \/ WaiterTeardown(c) \/ WaiterReports(c)

Disconnecting(d) ==
  \/ Disconnect(d) \/ DisconnectStops(d)
  \/ DisconnectTeardown(d) \/ DisconnectReports(d)

Next ==
  \/ StartConnect \/ Connecting \/ ClientConnects
  \/ \E c \in Clients : ClientExits(c) \/ Waiting(c)
  \/ \E d \in Disconnects : ClickDisconnect(d) \/ Disconnecting(d)
  \/ QuitStops \/ QuitTeardown \/ Restart
  \/ \E s \in {"script", "teardown"} : OrphanRuns(s)

Spec == Init /\ [][Next]_vars

(* Goroutines go on and scripts end; connect waits no longer than its      *)
(* timeout.  Users and clients may do nothing.                             *)
FairSpec ==
  /\ Spec
  /\ WF_vars(Connecting)
  /\ \A c \in Clients : WF_vars(Waiting(c))
  /\ \A d \in Disconnects : WF_vars(Disconnecting(d))

-----------------------------------------------------------------------------
(* "A second click must not start a second client.exe with its own TUN"    *)
(* (client.go:20-22), whatever disconnects and exits are under way: at     *)
(* most one client runs that nobody is about to kill, and none is out of   *)
(* control.  It is in clientCmd, or in the hands of a goroutine that will  *)
(* put it there or kill it (client.go:152-160, 303-314).                   *)
OneClient ==
  /\ Cardinality({c \in running : \A g \in Stoppers : taken[g] # c}) <= 1
  /\ \A c \in running :
       \/ c = clientCmd
       \/ c = current /\ step = "register"
       \/ \E g \in Stoppers : taken[g] = c

Quiet ==
  /\ step = "idle" /\ gui = "idle" /\ orphans = {}
  /\ \A d \in Disconnects : disc[d] = "idle"
  /\ \A c \in Clients : waiter[c] = "none" \/ (waiter[c] = "waiting" /\ c \in running)

(* Disconnect undoes everything, at whatever point of a connect, of an     *)
(* exit or of another disconnect it is clicked, and the next start what a  *)
(* crash has left: when all goroutines and scripts are done and the user   *)
(* has not connected again, no client runs and IPv6 is not blocked by      *)
(* anything this tray or the crash did; by a setup script that outlived    *)
(* its tray it may be, which is RestartCleansUp (client.go:214-218,        *)
(* 292-301, main.go:243-250).  Teardown scripts do not fail here.          *)
DisconnectCleansUp ==
  Quiet /\ ~later => rule # "connect" /\ running = {}

(* connectMu is given back, so the next click is heard (client.go:81-98,   *)
(* 181-193).                                                               *)
ConnectEnds == step # "idle" ~> step = "idle"

(* "a crash or a power loss last time could have left IPv6 blocked"        *)
(* (main.go:243): the teardown at startup is there to lift that block.     *)
RestartCleansUp ==
  Quiet /\ ~later => rule = "none"

(* "While connected, a firewall rule blocks global IPv6"                   *)
(* (README.en.md:197).                                                     *)
BlockedWhileConnected ==
  Quiet /\ tunnelUp /\ clientCmd # None => rule # "none"
=============================================================================
