------------------------------ MODULE Receiver ------------------------------
(***************************************************************************)
(* frame.Receiver (internal/frame/frame.go): decides for every arriving    *)
(* frame whether it is delivered.  Multipath sends each frame over every   *)
(* path, so copies arrive late, out of order and more than once; frames    *)
(* that are much later than the best delay seen are dropped as well.       *)
(*                                                                         *)
(* A frame is named by its position i in the sender's order; on the wire   *)
(* it carries only Wrap(i).  What Accept reads of the clock is how long    *)
(* ago the current minimum window and the current run of late frames       *)
(* began; these ages are kept instead of the times and stop growing at the *)
(* largest value the code compares them with.                              *)
(***************************************************************************)
EXTENDS SeqWindow

CONSTANTS
  MaxFrame,         \* bound: frames are 0 .. MaxFrame
  Delays,           \* the possible (receive time - send time), clock skew included
  MaxAge,           \* maxAge: how much later than the best delay is too late
  OffsetWindow,     \* offsetWindow
  RebaselineAfter   \* rebaselineAfter

ASSUME ReceiverAssumption ==
  /\ MaxFrame \in Nat
  /\ Delays \subseteq Int
  /\ MaxAge \in Nat
  /\ OffsetWindow \in Nat
  /\ RebaselineAfter \in Nat

Frames == 0 .. MaxFrame

OnTime == -1   \* lateSince.IsZero(): the last frame was on time

VARIABLES
  window,    \* haveTop, top, seen
  offset,    \* have, prev, cur: the two minimum offsets; windowAge, lateAge
  newest,    \* history: the highest frame delivered
  count,     \* history: how often each frame was delivered
  best,      \* history: the smallest delay seen
  drops      \* history: the unbroken run of "ttl exceeded" answers up to now

vars == <<window, offset, newest, count, best, drops>>

Lesser(a, b) == IF a < b THEN a ELSE b

(* have, prevMinOffset and curMinOffset, and the two ages. *)
Ages == {OnTime} \union 0 .. RebaselineAfter

OffsetStates ==
  [have : BOOLEAN, prev : Int, cur : Int,
   windowAge : 0 .. OffsetWindow, lateAge : Ages]

NoOffset ==
  [have |-> FALSE, prev |-> 0, cur |-> 0, windowAge |-> 0, lateAge |-> OnTime]

Baseline(older, current, windowAge, lateAge) ==
  [have |-> TRUE, prev |-> older, cur |-> current,
   windowAge |-> windowAge, lateAge |-> lateAge]

(* The time since the first drop of the current run of "ttl exceeded"      *)
(* answers, and how much of it had passed at its last drop.                *)
DropRuns ==
  [running : BOOLEAN, age : 0 .. RebaselineAfter, span : 0 .. RebaselineAfter]

NoDrops == [running |-> FALSE, age |-> 0, span |-> 0]

Dropped(run) ==
  [running |-> TRUE, age |-> run.age, span |-> run.age]

-----------------------------------------------------------------------------
(* The delay baseline.                                                     *)

(* The first frame opens both minimum windows, later ones lower the        *)
(* current minimum.                                                        *)
Lower(o, raw) ==
  IF o.have THEN Baseline(o.prev, Lesser(o.cur, raw), o.windowAge, o.lateAge)
            ELSE Baseline(raw, raw, 0, o.lateAge)

(* The minimum so far becomes the older one when its window is over. *)
Roll(o, raw) ==
  IF o.windowAge >= OffsetWindow THEN Baseline(o.cur, raw, 0, o.lateAge) ELSE o

Observe(o, raw) == Roll(Lower(o, raw), raw)

Late(o, raw) == raw - Lesser(o.prev, o.cur) > MaxAge

(* How long the run of late frames has lasted when this one joins it. *)
\* Variant with a bug: every late frame starts the run anew.
LateForNone(o) == 0
LateFor(o) == IF o.lateAge = OnTime THEN 0 ELSE o.lateAge

(* Accept drops the frame before looking at its number. *)
TTLExceeded(o, raw) == Late(o, raw) /\ LateFor(o) < RebaselineAfter

(* The baseline once a frame has been judged, o being what Observe left. *)
Judged(o, raw) ==
  IF TTLExceeded(o, raw)
    THEN Baseline(o.prev, o.cur, o.windowAge, LateFor(o))
  ELSE IF Late(o, raw) THEN Baseline(raw, raw, 0, OnTime)
  ELSE Baseline(o.prev, o.cur, o.windowAge, OnTime)

-----------------------------------------------------------------------------
Init ==
  /\ window = EmptyWindow
  /\ offset = NoOffset
  /\ newest = 0
  /\ count = [i \in Frames |-> 0]
  /\ best = [seen |-> FALSE, delay |-> 0]
  /\ drops = NoDrops

(* The network holds a copy back for less than half the sequence space,    *)
(* which is what serial-number arithmetic asks of it.                      *)
Arrivable(i) == window.haveTop => i \in newest - Half .. newest + Half - 1

(* AcceptSeq on frame i, with what it does to the history. *)
Sequence(i) ==
  /\ window' = AcceptSeq(window, Wrap(i))
  /\ IF Fresh(window, Wrap(i))
       THEN /\ count' = [count EXCEPT ![i] = @ + 1]
            /\ newest' = IF window.haveTop /\ i < newest THEN newest ELSE i
       ELSE UNCHANGED <<count, newest>>

(* A ping frame: only its number is checked. *)
RecvPing(i) ==
  /\ Arrivable(i)
  /\ Sequence(i)
  /\ UNCHANGED <<offset, best, drops>>

(* A data frame that took raw to arrive. *)
RecvData(i, raw) ==
  /\ Arrivable(i)
  /\ LET o == Observe(offset, raw) IN
       /\ offset' = Judged(o, raw)
       /\ drops' = IF TTLExceeded(o, raw) THEN Dropped(drops) ELSE NoDrops
       /\ IF TTLExceeded(o, raw)
            THEN UNCHANGED <<window, count, newest>>
            ELSE Sequence(i)
  /\ best' = [seen  |-> TRUE,
              delay |-> IF best.seen THEN Lesser(best.delay, raw) ELSE raw]

OlderLate(age) ==
  IF age = OnTime THEN age ELSE Lesser(age + 1, RebaselineAfter)

OlderRun(run) ==
  IF run.running THEN Lesser(run.age + 1, RebaselineAfter) ELSE run.age

(* Time passes between two frames. *)
Tick ==
  /\ offset' = [have |-> offset.have, prev |-> offset.prev, cur |-> offset.cur,
                 windowAge |-> Lesser(offset.windowAge + 1, OffsetWindow),
                 lateAge   |-> OlderLate(offset.lateAge)]
  /\ drops' = [drops EXCEPT !.age = OlderRun(drops)]
  /\ UNCHANGED <<window, newest, count, best>>

Next ==
  \/ \E i \in Frames : RecvPing(i)
  \/ \E i \in Frames, raw \in Delays : RecvData(i, raw)
  \/ Tick

Spec == Init /\ [][Next]_vars

-----------------------------------------------------------------------------
TypeOK ==
  /\ window \in WindowStates
  /\ offset \in OffsetStates
  /\ newest \in Frames
  /\ count \in [Frames -> Nat]
  /\ best \in [seen : BOOLEAN, delay : Int]
  /\ drops \in DropRuns

(* What the ring bitmap stands for: its top is the newest frame delivered, *)
(* and of the Window frames up to it exactly the delivered ones are        *)
(* marked.  This is the inductive invariant behind the properties below.   *)
WindowInv ==
  /\ \A i \in Frames : count[i] <= 1
  /\ ~window.haveTop =>
       /\ window.seen = {}
       /\ \A i \in Frames : count[i] = 0
  /\ window.haveTop =>
       /\ window.top = Wrap(newest)
       /\ count[newest] = 1
       /\ \A i \in Frames : i > newest => count[i] = 0
       /\ \A i \in Frames : i > newest - Window /\ i <= newest
            => (Slot(i) \in window.seen <=> count[i] = 1)

(* The baseline is a delay that was observed, or was until it grew.        *)
BaselineInv ==
  /\ offset.have = best.seen
  /\ best.seen => best.delay <= Lesser(offset.prev, offset.cur)

(* However the copies of the frames are delayed, reordered and duplicated, *)
(* and across the wrap of the counter, AcceptSeq (frame.go:146) delivers   *)
(* each frame at most once, and nothing from behind the window.            *)
Once == INSTANCE OnceDelivery WITH
  Frames <- Frames, Window <- Window, count <- count
DeliversOnce == Once!Spec

(* The window never refuses what it has not seen: once a frame has been    *)
(* delivered, one that was not and is less than Window behind the newest   *)
(* one would be delivered if it came now, whatever marks the ring still    *)
(* holds (frame.go:155-173).                                               *)
NewFramesGetThrough ==
  window.haveTop =>
    \A i \in Frames :
      Arrivable(i) /\ count[i] = 0 /\ i > newest - Window => Fresh(window, Wrap(i))

(* Accept (frame.go:109) never calls a frame too late whose delay is       *)
(* within MaxAge of the best delay ever seen: however the minimum windows  *)
(* roll, the baseline never falls below a delay that was really observed.  *)
PromptFramesAreOnTime ==
  \A raw \in Delays :
    (best.seen => raw <= best.delay + MaxAge)
      => ~TTLExceeded(Observe(offset, raw), raw)

(* When the route itself has become slower, Accept does not keep dropping  *)
(* everything (frame.go:95-97): no unbroken run of "ttl exceeded" answers  *)
(* lasts RebaselineAfter, whenever its frames arrive.                      *)
LateRunsAreShort == drops.running => drops.span < RebaselineAfter
=============================================================================
