---------------------------- MODULE MCSequential ----------------------------
(***************************************************************************)
(* The parts that one thread runs by itself and that go wrong, if at all,  *)
(* after a long history: judging the frames that arrive, and what outlives *)
(* a process, the rules and the connections of MCRestarts.  They share     *)
(* nothing, so a behaviour is about one of them.                           *)
(*                                                                         *)
(* Of Receiver this is the smallest window in which sliding steps over a   *)
(* slot, a sequence space of four such windows that wraps around, and two  *)
(* delays that are further apart than the age limit allows.                *)
(***************************************************************************)
EXTENDS Receiver, MCRestarts

VARIABLE part   \* what the behaviour is about

restartVars == <<machine, serverVars, clientVars>>

(* Where it is about frames, the rest starts empty and stays so. *)
Empty == machine = "client" /\ file.state = "absent" /\ configKey = NoKey

SequentialInit ==
  /\ part \in {"frames", "restarts"}
  /\ Init /\ MCInit
  /\ part = "frames" => Empty

OnFrames   == part = "frames" /\ Next /\ UNCHANGED restartVars
OnRestarts == part = "restarts" /\ MCNext /\ UNCHANGED vars
SequentialNext == (OnFrames \/ OnRestarts) /\ UNCHANGED part

SequentialSpec == SequentialInit /\ [][SequentialNext]_<<part, vars, restartVars>>

TwoDelays == {3, 6}
=============================================================================
