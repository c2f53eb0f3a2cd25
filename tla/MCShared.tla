------------------------------ MODULE MCShared ------------------------------
(***************************************************************************)
(* What the goroutines of one process share: the bans of a server, under   *)
(* one lock, and the queues of MCScheduler.  They have nothing to do with  *)
(* each other, so a behaviour is about one of them, and the other one      *)
(* stands still.                                                           *)
(*                                                                         *)
(* Of AuthBan these are a few connections of one address, with short times *)
(* in the order the code has them: handshake < ban < memory < trust.       *)
(***************************************************************************)
EXTENDS AuthBan, MCScheduler

VARIABLE part   \* what the behaviour is about

queueVars == <<channel, flowVars, pathVars>>

SharedInit ==
  /\ part \in {"bans", "queues"}
  /\ Init /\ MCInit
  /\ part = "bans" => channel = "glue"

OnBans   == part = "bans" /\ Next /\ UNCHANGED queueVars
OnQueues == part = "queues" /\ MCNext /\ UNCHANGED vars
SharedNext == (OnBans \/ OnQueues) /\ UNCHANGED part

(* The fairness of AuthBan, where the behaviour is about it, and that of   *)
(* the scheduler, which asks nothing of a behaviour whose channel is not   *)
(* the vpn.                                                                *)
SharedFairness ==
  /\ WF_vars(part = "bans" /\ Tick) /\ WF_vars(part = "bans" /\ Cleanup)
  /\ \A c \in Conns : WF_vars(part = "bans" /\ Outcome(c))
  /\ MCFairness

SharedSpec ==
  SharedInit /\ [][SharedNext]_<<part, vars, queueVars>> /\ SharedFairness
=============================================================================
