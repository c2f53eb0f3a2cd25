----------------------------- MODULE Scheduler -----------------------------
(***************************************************************************)
(* The FQ-CoDel queue in front of the vpn connection, on both sides        *)
(* (internal/sched/fq.go): one queue per flow, deficit round robin between *)
(* them with new flows first, CoDel on every queue and a limit on the      *)
(* bytes in all of them.                                                   *)
(*                                                                         *)
(* Any goroutine may call Enqueue; one calls Dequeue or DequeueBatch and   *)
(* writes what it got.  They hold the mutex from beginning to end.  The    *)
(* loops inside are steps of their own here, taken while it is held.       *)
(*                                                                         *)
(* A flow is what shares a hash bucket.  Times are kept as ages and as     *)
(* times left.  CoDel's control law, the interval divided by the root of   *)
(* the number of drops, is any time up to the interval, so the number is   *)
(* not kept.                                                               *)
(***************************************************************************)
EXTENDS Integers, SequencesExt

CONSTANTS
  Buckets,
  Watched,      \* the bucket the history is about
  Sizes,        \* lengths of frames
  Quantum, LimitBytes, Target, Interval,   \* Config
  MaxPacket,    \* maxPacket
  MaxBatch      \* maxBytes of DequeueBatch

(* A frame is no longer than what the TUN device or a connection delivers. *)
SchedulerAssumption ==
  /\ IsFiniteSet(Buckets) /\ Watched \in Buckets
  /\ Sizes \subseteq Nat \ {0}
  /\ \E n \in Sizes : \A m \in Sizes : m <= n
  /\ Quantum \in Nat \ {0} /\ LimitBytes \in Nat \ {0}
  /\ Target \in Nat \ {0} /\ Interval \in Nat \ {0}
  /\ MaxPacket \in Nat /\ MaxBatch \in Nat

Never == -1   \* firstAboveTime.IsZero()

VARIABLES
  q,            \* f.q
  bytes,        \* f.bytes
  deficit,      \* f.deficit
  codel,        \* f.codel: time left until firstAboveTime and dropNext; dropping
  active,       \* s.flows, the buckets with f.elem # nil
  inNew,        \* the buckets with f.inNew
  newFlows, oldFlows,
  total,        \* s.total
  closed,
  lock,         \* who holds s.mu: "nobody", "enqueuer" or "dequeuer"
  pc,           \* the dequeuer: "writing", "loop", "first drop", "dropping",
                \* "waiting" or "ended"
  single,       \* its call is Dequeue, not DequeueBatch
  batch,        \* the bytes it has taken so far
  \* history
  first,        \* Watched was idle, and the packet that made it new waits
  ahead         \* the bytes the others got meanwhile

flowVars == <<deficit, active, inNew, newFlows, oldFlows>>
batchVars == <<single, batch>>
histVars == <<first, ahead>>
vars == <<q, bytes, codel, flowVars, total, closed, lock, pc, batchVars, histVars>>

NoCodel == [above |-> Never, dropNext |-> 0, dropping |-> FALSE]
Packets == [size : Sizes, age : 0 .. Target]

(* The frame that was longest, and more than any flow may get at a turn. *)
MaxSize == CHOOSE n \in Sizes : \A m \in Sizes : m <= n
TooMuch == Quantum + MaxSize
Barred  == -1

BytesIn(s) == FoldSeq(LAMBDA p, n : p.size + n, 0, s)
AllBytes   == FoldFunction(+, 0, bytes)

TypeOK ==
  /\ q \in [Buckets -> Seq(Packets)]
  /\ bytes \in [Buckets -> Nat]
  /\ deficit \in [Buckets -> 1 - MaxSize .. Quantum]
  /\ codel \in [Buckets -> [above : {Never} \union 0 .. Interval,
                            dropNext : 0 .. Interval, dropping : BOOLEAN]]
  /\ active \subseteq Buckets /\ inNew \subseteq active
  /\ newFlows \in Seq(Buckets) /\ oldFlows \in Seq(Buckets)
  /\ total \in Nat /\ closed \in BOOLEAN
  /\ lock \in {"nobody", "enqueuer", "dequeuer"}
  /\ pc \in {"writing", "loop", "first drop", "dropping", "waiting", "ended"}
  /\ single \in BOOLEAN /\ batch \in Nat
  /\ first \in BOOLEAN /\ ahead \in [Buckets -> {Barred} \union 0 .. TooMuch]

Init ==
  /\ q = [b \in Buckets |-> <<>>] /\ bytes = [b \in Buckets |-> 0]
  /\ deficit = [b \in Buckets |-> 0] /\ codel = [b \in Buckets |-> NoCodel]
  /\ active = {} /\ inNew = {} /\ newFlows = <<>> /\ oldFlows = <<>>
  /\ total = 0 /\ closed = FALSE
  /\ lock = "nobody" /\ pc = "writing" /\ single = FALSE /\ batch = 0
  /\ first = FALSE /\ ahead = [b \in Buckets |-> Barred]

-----------------------------------------------------------------------------
(* popHead *)
\* Variant with a bug: the total is not reduced.
PopOfFlow(b) ==
  /\ q' = [q EXCEPT ![b] = Tail(@)]
  /\ bytes' = [bytes EXCEPT ![b] = @ - Head(q[b]).size]
  /\ total' = total
PopHead(b) ==
  /\ q' = [q EXCEPT ![b] = Tail(@)]
  /\ bytes' = [bytes EXCEPT ![b] = @ - Head(q[b]).size]
  /\ total' = total - Head(q[b]).size

(* unlink: f.inNew says which list the element is in. *)
NewWithout(b) == IF b \in inNew THEN RemoveFirst(newFlows, b) ELSE newFlows
OldWithout(b) == IF b \in inNew THEN oldFlows ELSE RemoveFirst(oldFlows, b)

\* Variant with a bug: it goes to the front.
PushFront(b) ==
  /\ newFlows' = NewWithout(b) /\ oldFlows' = <<b>> \o OldWithout(b)
  /\ inNew' = inNew \ {b}
  /\ UNCHANGED active
moveToOld(b) ==
  /\ newFlows' = NewWithout(b) /\ oldFlows' = Append(OldWithout(b), b)
  /\ inNew' = inNew \ {b}
  /\ UNCHANGED active

(* The flow is deleted with all its state. *)
deactivate(b) ==
  /\ newFlows' = NewWithout(b) /\ oldFlows' = OldWithout(b)
  /\ inNew' = inNew \ {b} /\ active' = active \ {b}

(* History: the packet Watched became new with is gone, one way or the     *)
(* other; or another flow got n bytes while it waits.                      *)
PacketLeft(b) ==
  IF b = Watched THEN first' = FALSE /\ ahead' = [c \in Buckets |-> Barred]
                 ELSE UNCHANGED histVars

Lesser(m, n) == IF m < n THEN m ELSE n

Overtook(b, n) ==
  IF ahead[b] = Barred THEN TooMuch ELSE Lesser(ahead[b] + n, TooMuch)

PacketServed(b, n) ==
  IF first /\ b # Watched
    THEN ahead' = [ahead EXCEPT ![b] = Overtook(b, n)] /\ UNCHANGED first
    ELSE PacketLeft(b)

-----------------------------------------------------------------------------
(* Enqueue.  An idle flow becomes a new one. *)
Activate(b) ==
  /\ active' = active \union {b} /\ inNew' = inNew \union {b}
  /\ newFlows' = Append(newFlows, b)
  /\ deficit' = [deficit EXCEPT ![b] = Quantum]
  /\ IF b = Watched
       THEN /\ first' = TRUE
            /\ ahead' = [c \in Buckets |-> IF c \in inNew THEN 0 ELSE Barred]
       ELSE UNCHANGED histVars
  /\ UNCHANGED oldFlows

Enqueue(b, n) ==
  /\ lock = "nobody" /\ ~closed
  /\ lock' = "enqueuer"
  /\ q' = [q EXCEPT ![b] = Append(@, [size |-> n, age |-> 0])]
  /\ bytes' = [bytes EXCEPT ![b] = @ + n]
  /\ total' = total + n
  /\ IF b \in active THEN UNCHANGED <<flowVars, histVars>> ELSE Activate(b)
  /\ UNCHANGED <<codel, closed, pc, batchVars>>

(* dropFromFattest, one of the biggest flows if there are several. *)
IsFattest(b) == q[b] # <<>> /\ \A c \in Buckets : q[c] # <<>> => bytes[c] <= bytes[b]

DropFromFattest(b) ==
  /\ lock = "enqueuer" /\ total > LimitBytes
  /\ IsFattest(b)
  /\ PopHead(b)
  /\ PacketLeft(b)
  /\ UNCHANGED <<codel, flowVars, closed, lock, pc, batchVars>>

(* cond.Signal and cond.Broadcast: there is one waiter at most. *)
Wake == IF pc = "waiting" THEN "writing" ELSE pc

Signal ==
  /\ lock = "enqueuer"
  /\ total <= LimitBytes \/ \A b \in Buckets : q[b] = <<>>
  /\ lock' = "nobody" /\ pc' = Wake
  /\ UNCHANGED <<q, bytes, codel, flowVars, total, closed, batchVars, histVars>>

Close ==
  /\ lock = "nobody" /\ ~closed
  /\ closed' = TRUE /\ pc' = Wake
  /\ UNCHANGED <<q, bytes, codel, flowVars, total, lock, batchVars, histVars>>

-----------------------------------------------------------------------------
(* Dequeue and DequeueBatch, and dequeueLocked.  Returned from, the caller *)
(* writes what it got and calls again.  A call that has waited starts from *)
(* the beginning.                                                          *)
Call ==
  /\ pc = "writing" /\ lock = "nobody"
  /\ \/ closed /\ pc' = "ended" /\ UNCHANGED <<lock, single>>
     \/ ~closed /\ pc' = "loop" /\ lock' = "dequeuer" /\ single' \in BOOLEAN
  /\ UNCHANGED <<q, bytes, codel, flowVars, total, closed, batch, histVars>>

Leave(then) == pc' = then /\ lock' = "nobody" /\ single' = FALSE /\ batch' = 0

NothingQueued ==
  /\ pc = "loop" /\ newFlows = <<>> /\ oldFlows = <<>>
  /\ Leave(IF batch = 0 THEN "waiting" ELSE "writing")
  /\ UNCHANGED <<q, bytes, codel, flowVars, total, closed, histVars>>

HasNext == newFlows # <<>> \/ oldFlows # <<>>
\* Variant with a bug: the old flows come first.
OldFirst == IF oldFlows # <<>> THEN Head(oldFlows) ELSE Head(newFlows)
NextFlow == IF newFlows # <<>> THEN Head(newFlows) ELSE Head(oldFlows)

(* A flow whose turn is over gets a new quantum and waits for the next.    *)
UsedUp(b) == deficit[b] <= 0

Recharge ==
  /\ pc = "loop" /\ HasNext
  /\ UsedUp(NextFlow)
  /\ deficit' = [deficit EXCEPT ![NextFlow] = @ + Quantum]
  /\ moveToOld(NextFlow)
  /\ UNCHANGED <<q, bytes, codel, total, closed, lock, pc, batchVars, histVars>>

(* An empty new flow goes to the old list first. *)
GoesToOld(b) == b \in inNew /\ oldFlows # <<>>

SkipEmpty ==
  LET b == NextFlow IN
  /\ pc = "loop" /\ HasNext
  /\ ~UsedUp(b) /\ q[b] = <<>>
  /\ IF GoesToOld(b)
       THEN /\ moveToOld(b)
            /\ codel' = [codel EXCEPT ![b].above = Never, ![b].dropping = FALSE]
            /\ UNCHANGED deficit
       ELSE /\ deactivate(b)
            /\ codel' = [codel EXCEPT ![b] = NoCodel]
            /\ deficit' = [deficit EXCEPT ![b] = 0]
  /\ UNCHANGED <<q, bytes, total, closed, lock, pc, batchVars, histVars>>

-----------------------------------------------------------------------------
(* codelDequeue.  doDequeue, p being the packet it took from flow b: the   *)
(* queue is not standing, or firstAboveTime is set, or it has passed.      *)
NotStanding(b, p) == p.age < Target \/ bytes[b] - p.size <= MaxPacket

AboveAfter(b, p) ==
  IF NotStanding(b, p) THEN Never
  ELSE IF codel[b].above = Never THEN Interval
  ELSE codel[b].above

OkToDrop(b, p) == ~NotStanding(b, p) /\ codel[b].above = 0

Codel(b, p, dropping, dropNext) ==
  codel' = [codel EXCEPT ![b] = [above |-> AboveAfter(b, p), dropNext |-> dropNext,
                                 dropping |-> dropping]]

(* The packet at the head is dropped, *)
Drop(b, then) ==
  /\ PacketLeft(b)
  /\ pc' = then
  /\ UNCHANGED <<flowVars, lock, batchVars>>

(* or it goes into the batch. *)
Deliver(b, p) ==
  /\ deficit' = [deficit EXCEPT ![b] = @ - p.size]
  /\ IF ~single /\ batch + p.size < MaxBatch
       THEN pc' = "loop" /\ batch' = batch + p.size /\ UNCHANGED <<lock, single>>
       ELSE Leave("writing")
  /\ PacketServed(b, p.size)
  /\ UNCHANGED <<active, inNew, newFlows, oldFlows>>

Take ==
  LET b == NextFlow
      p == Head(q[b])
      c == codel[b] IN
  /\ pc = "loop" /\ HasNext
  /\ ~UsedUp(b) /\ q[b] # <<>>
  /\ PopHead(b)
  /\ \/ ~OkToDrop(b, p) /\ Codel(b, p, FALSE, c.dropNext) /\ Deliver(b, p)
     \/ OkToDrop(b, p) /\ c.dropping /\ c.dropNext > 0
        /\ Codel(b, p, TRUE, c.dropNext) /\ Deliver(b, p)
     \/ OkToDrop(b, p) /\ c.dropping /\ c.dropNext = 0
        /\ Codel(b, p, TRUE, c.dropNext) /\ Drop(b, "dropping")
     \/ OkToDrop(b, p) /\ ~c.dropping
        /\ Codel(b, p, FALSE, c.dropNext) /\ Drop(b, "first drop")
  /\ UNCHANGED closed

(* After the first drop of a phase the next packet is delivered. *)
TakeAfterFirst ==
  LET b == NextFlow
      p == Head(q[b]) IN
  /\ pc = "first drop" /\ q[b] # <<>>
  /\ PopHead(b)
  /\ \E next \in 1 .. Interval : Codel(b, p, TRUE, next)
  /\ Deliver(b, p)
  /\ UNCHANGED closed

(* Within a phase drops go on until dropNext is in the future. *)
TakeAfterDrop ==
  LET b == NextFlow
      p == Head(q[b]) IN
  /\ pc = "dropping" /\ q[b] # <<>>
  /\ PopHead(b)
  /\ \/ ~OkToDrop(b, p) /\ Codel(b, p, FALSE, 0) /\ Deliver(b, p)
     \/ OkToDrop(b, p) /\ Codel(b, p, TRUE, 0) /\ Drop(b, "dropping")
     \/ OkToDrop(b, p) /\ (\E next \in 1 .. Interval : Codel(b, p, TRUE, next))
        /\ Deliver(b, p)
  /\ UNCHANGED closed

-----------------------------------------------------------------------------
Less(t) == IF t > 0 THEN t - 1 ELSE t

Tick ==
  /\ lock = "nobody"
  /\ q' = [b \in Buckets |-> [i \in DOMAIN q[b] |->
             [q[b][i] EXCEPT !.age = Lesser(@ + 1, Target)]]]
  /\ codel' = [b \in Buckets |->
       [codel[b] EXCEPT !.above = Less(@), !.dropNext = Less(@)]]
  /\ UNCHANGED <<bytes, flowVars, total, closed, lock, pc, batchVars, histVars>>

Dequeuer ==
  \/ Call \/ NothingQueued \/ Recharge \/ SkipEmpty
  \/ Take \/ TakeAfterFirst \/ TakeAfterDrop

Next ==
  \/ \E b \in Buckets, n \in Sizes : Enqueue(b, n)
  \/ \E b \in Buckets : DropFromFattest(b)
  \/ Signal \/ Close \/ Dequeuer \/ Tick

Spec == Init /\ [][Next]_vars

-----------------------------------------------------------------------------
(* Enqueue, overflow drops, CoDel and delivery keep the three records of   *)
(* what is queued in step.  The bytes, counted per flow and in total, are  *)
(* right, and within the limit whenever the lock is free; every flow with  *)
(* packets is in one list, once, the one that f.inNew names, else unlink   *)
(* would miss it, or its packets would never be sent (fq.go:117-127,       *)
(* 238-257, 259-281).                                                      *)
QueuesAreConsistent ==
  /\ \A b \in Buckets : bytes[b] = BytesIn(q[b])
  /\ total = AllBytes
  /\ lock = "nobody" => total <= LimitBytes
  /\ \A b \in Buckets : q[b] # <<>> => b \in active
  /\ ToSet(newFlows) = inNew /\ ToSet(oldFlows) = active \ inNew
  /\ IsInjective(newFlows) /\ IsInjective(oldFlows)

(* "A download can't make small packets of other flows wait behind it"     *)
(* (fq.go:41-44): the first packet of a flow that was idle waits for no    *)
(* flow that was there before, except for those that were new as well, and *)
(* for them no longer than one turn.                                       *)
NewFlowsComeFirst == \A b \in Buckets : ahead[b] < TooMuch

(* Nobody starves, whatever flows come and go beside it (fq.go:221-230):   *)
(* as long as packets of a flow wait, packets of it are delivered.  The    *)
(* flow is the watched one, which may be any.                              *)
NobodyStarves ==
  \/ <>closed
  \/ []<>(q[Watched] = <<>>)
  \/ []<><<deficit'[Watched] < deficit[Watched]>>_vars
=============================================================================
