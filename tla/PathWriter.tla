----------------------------- MODULE PathWriter -----------------------------
(***************************************************************************)
(* The queue in front of one glue path, on both sides                      *)
(* (internal/sched/pathwriter.go).  Any goroutine may call Send, which     *)
(* takes no lock: it tries a few times to put its frame into the channel,  *)
(* and makes room by taking one out, while a goroutine of the path does    *)
(* the same to write it.                                                   *)
(*                                                                         *)
(* Frames differ in nothing but how long they waited, and any of them may  *)
(* have become too old, so the channel is the number of frames in it.      *)
(***************************************************************************)
EXTENDS Integers, FiniteSets

CONSTANTS
  Senders,    \* goroutines that call Send
  Depth,      \* the size of the channel
  Attempts

(* newPathWriter makes room for a frame at least, Send tries three times   *)
(* (pathwriter.go:38-40, 56).                                              *)
PathAssumption ==
  /\ Depth \in Nat /\ Depth > 0
  /\ Attempts \in Nat /\ Attempts > 1
  /\ IsFiniteSet(Senders)

VARIABLES
  queued,     \* p.ch
  done,       \* p.done is closed, and p.conn with it
  writer,     \* "select", "holding" a frame, or "ended"
  sender,     \* of each goroutine: "out" of Send, or "put" or "take" in it
  attempt,    \* and the number of its attempt
  \* history
  overtaken,  \* another frame got in during its Send
  open        \* the frames neither written nor counted in p.drops

pathVars == <<queued, done, writer, sender, attempt, overtaken, open>>

TypeOK ==
  /\ queued \in 0 .. Depth /\ done \in BOOLEAN
  /\ writer \in {"select", "holding", "ended"}
  /\ sender \in [Senders -> {"out", "put", "take"}]
  /\ attempt \in [Senders -> 1 .. Attempts]
  /\ overtaken \in [Senders -> BOOLEAN]
  /\ open \in Nat

Init ==
  /\ queued = 0 /\ done = FALSE /\ writer = "select"
  /\ sender = [s \in Senders |-> "out"] /\ attempt = [s \in Senders |-> 1]
  /\ overtaken = [s \in Senders |-> FALSE]
  /\ open = 0

Sending == {s \in Senders : sender[s] # "out"}

(* Nothing is counted after the end. *)
Count(n) == open' = IF done THEN open ELSE open + n

Return(s) ==
  /\ sender' = [sender EXCEPT ![s] = "out"]
  /\ attempt' = [attempt EXCEPT ![s] = 1]

Send(s) ==
  /\ sender[s] = "out"
  /\ sender' = [sender EXCEPT ![s] = "put"]
  /\ overtaken' = [overtaken EXCEPT ![s] = FALSE]
  /\ Count(1)
  /\ UNCHANGED <<queued, done, writer, attempt>>

(* The first select of an attempt. *)
Put(s) ==
  /\ sender[s] = "put"
  /\ \/ /\ done /\ Return(s)
        /\ UNCHANGED <<queued, overtaken>>
     \/ /\ queued < Depth /\ queued' = queued + 1
        /\ Return(s)
        /\ overtaken' = [t \in Senders |-> t # s /\ (overtaken[t] \/ t \in Sending)]
     \/ /\ ~done /\ queued = Depth
        /\ sender' = [sender EXCEPT ![s] = "take"]
        /\ UNCHANGED <<queued, attempt, overtaken>>
  /\ UNCHANGED <<done, writer, open>>

(* The second one; after the last attempt the frame itself is dropped.     *)
\* Variant with a bug: there is one attempt.
FirstAttempt(s) == TRUE
LastAttempt(s) == attempt[s] = Attempts

Take(s) ==
  LET taken == IF queued > 0 THEN 1 ELSE 0 IN
  /\ sender[s] = "take"
  /\ queued' = queued - taken
  /\ IF LastAttempt(s)
       THEN Return(s) /\ Count(-taken - 1)
       ELSE /\ sender' = [sender EXCEPT ![s] = "put"]
            /\ attempt' = [attempt EXCEPT ![s] = @ + 1]
            /\ Count(-taken)
  /\ UNCHANGED <<done, writer, overtaken>>

(* run *)
Receive ==
  /\ writer = "select"
  /\ \/ queued > 0 /\ queued' = queued - 1 /\ writer' = "holding"
     \/ done /\ writer' = "ended" /\ UNCHANGED queued
  /\ UNCHANGED <<done, sender, attempt, overtaken, open>>

(* The frame is written, or is too old and counted. *)
Handled ==
  /\ writer = "holding" /\ writer' = "select"
  /\ Count(-1)
  /\ UNCHANGED <<queued, done, sender, attempt, overtaken>>

WriteFails ==
  /\ writer = "holding" /\ writer' = "ended"
  /\ done' = TRUE
  /\ UNCHANGED <<queued, sender, attempt, overtaken, open>>

Close ==
  /\ ~done /\ done' = TRUE
  /\ UNCHANGED <<queued, writer, sender, attempt, overtaken, open>>

Next ==
  \/ \E s \in Senders : Send(s) \/ Put(s) \/ Take(s)
  \/ Receive \/ Handled \/ WriteFails \/ Close

Spec == Init /\ [][Next]_pathVars

-----------------------------------------------------------------------------
(* "If the queue is full the oldest frame is dropped"                      *)
(* (pathwriter.go:52-53), and not the new one: Send gives its own frame up *)
(* only when newer frames of other goroutines took the room it made.  And  *)
(* every frame of an open path that was not written is counted in drops,   *)
(* whoever dropped it, the writer, its own Send or another one             *)
(* (pathwriter.go:54-71, 91-95).                                           *)
TheOldestGo ==
  /\ \A s \in Senders : sender[s] = "take" /\ LastAttempt(s) => overtaken[s]
  /\ ~done => open = queued + Cardinality(Sending) + (IF writer = "holding" THEN 1 ELSE 0)
=============================================================================
