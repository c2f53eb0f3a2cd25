---------------------------- MODULE MCScheduler ----------------------------
(***************************************************************************)
(* The two queues of package sched: the scheduler in front of the vpn      *)
(* connection, and the writer of a glue path.  They share nothing, so a    *)
(* behaviour is about one of them, and the other one stands still.         *)
(***************************************************************************)
EXTENDS MCPathWriter

CONSTANTS Buckets, Watched, Sizes, Quantum, LimitBytes, Target, Interval, MaxPacket, MaxBatch

VARIABLES
  channel,
  queues, bytes, deficit, codel, active, inNew, newFlows, oldFlows, total,
  closed, lock, pc, single, batch, first, ahead

pathVars == <<queued, done, writer, sender, attempt, overtaken, open>>
flowVars == <<queues, bytes, deficit, codel, active, inNew, newFlows, oldFlows, total,
              closed, lock, pc, single, batch, first, ahead>>

FQ == INSTANCE Scheduler WITH q <- queues

ASSUME FairQueueAssumption == FQ!SchedulerAssumption

MCInit == channel \in {"vpn", "glue"} /\ FQ!Init /\ Path!Init

OnVPN  == channel = "vpn" /\ FQ!Next /\ UNCHANGED pathVars
OnGlue == channel = "glue" /\ Path!Next /\ UNCHANGED flowVars
MCNext == (OnVPN \/ OnGlue) /\ UNCHANGED channel

(* Writes end, by their deadline if not before, so the dequeuer comes      *)
(* back, and a sync.Mutex is given to whoever has waited for a             *)
(* millisecond, so it gets the lock although others keep enqueuing.        *)
(* Whoever holds the lock goes on.                                         *)
MCFairness ==
  /\ SF_flowVars(channel = "vpn" /\ FQ!Call) /\ WF_flowVars(channel = "vpn" /\ FQ!Dequeuer)
  /\ WF_flowVars(channel = "vpn" /\ (FQ!Signal \/ \E b \in Buckets : FQ!DropFromFattest(b)))

MCSpec == MCInit /\ [][MCNext]_<<channel, flowVars, pathVars>> /\ MCFairness

(* The records of what is queued stay in step (fq.go:117-127, 238-281), a  *)
(* new flow is sent first (fq.go:41-44), and nobody starves                *)
(* (fq.go:221-230).                                                        *)
QueuesAreConsistent == FQ!QueuesAreConsistent
NewFlowsComeFirst == FQ!NewFlowsComeFirst
NobodyStarves == FQ!NobodyStarves
=============================================================================
