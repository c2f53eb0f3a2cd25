--------------------------- MODULE ReceiverProofs ---------------------------
(***************************************************************************)
(* Receiver implements OnceDelivery for every window and sequence space:   *)
(* the duplicate window neither lets a frame through twice nor holds back  *)
(* a new one, across the wrap of the counter.  Its delay baseline drops no *)
(* prompt frame, and no run of late ones for long.                         *)
(***************************************************************************)
EXTENDS Receiver, TLAPS

(* Arithmetic of numbers that wrap, for every size of the window and of    *)
(* the sequence space.                                                     *)

(* Division with remainder, and that the remainder is the only one.        *)
LEMMA DivMod ==
  ASSUME NEW n \in Int, NEW d \in Nat, d > 0
  PROVE  /\ n \div d \in Int
         /\ n % d \in 0 .. d - 1
         /\ n = d * (n \div d) + (n % d)
  BY SMT

LEMMA MulAtLeast ==
  ASSUME NEW d \in Nat, d > 0, NEW k \in Int, k >= 1
  PROVE  d * k >= d
  BY SMT

LEMMA MulAtMost ==
  ASSUME NEW d \in Nat, d > 0, NEW k \in Int, k <= -1
  PROVE  d * k <= -d
  BY SMT

LEMMA MulAdd ==
  ASSUME NEW d \in Int, NEW a \in Int, NEW b \in Int
  PROVE  /\ d * a \in Int /\ d * b \in Int
         /\ d * (a + b) = d * a + d * b
  BY SMT

LEMMA SmallMultiple ==
  ASSUME NEW d \in Nat, d > 0, NEW k \in Int, d * k < d, d * k > -d
  PROVE  k = 0
<1>1. ~(k >= 1) BY MulAtLeast
<1>2. ~(k <= -1) BY MulAtMost
<1>3. QED BY <1>1, <1>2

LEMMA ModUnique ==
  ASSUME NEW n \in Int, NEW d \in Nat, d > 0, NEW q \in Int,
         NEW r \in 0 .. d - 1, n = d * q + r
  PROVE  n % d = r
<1>1. /\ n \div d \in Int
      /\ n % d \in 0 .. d - 1
      /\ n = d * (n \div d) + (n % d)
  BY DivMod
<1> DEFINE k == q - (n \div d)
<1>2. k \in Int /\ d * k = (n % d) - r
  <2>1. d * k = d * q - d * (n \div d) BY <1>1, SMT
  <2>2. QED BY <2>1, <1>1, SMT
<1> HIDE DEF k
<1>3. k = 0 BY <1>1, <1>2, SmallMultiple
<1>4. d * k = 0 BY <1>3, SMT
<1>5. QED BY <1>1, <1>2, <1>4

-----------------------------------------------------------------------------
LEMMA Sizes ==
  /\ Window \in Nat /\ Window > 0
  /\ Half \in Nat /\ Half >= Window
  /\ SeqSpace \in Nat /\ SeqSpace > 0 /\ SeqSpace = 2 * Half
<1>1. Window \in Nat /\ Window > 0 /\ Laps \in Nat /\ Laps >= 1
  BY SeqWindowAssumption
<1>2. Window * Laps >= Window BY <1>1, MulAtLeast
<1>3. Half \in Nat /\ Half >= Window BY <1>1, <1>2, SMT DEF Half
<1>4. QED BY <1>1, <1>3 DEF SeqSpace

LEMMA WrapType ==
  ASSUME NEW n \in Int
  PROVE  Wrap(n) \in Seqs /\ Wrap(n) \in Int
  BY Sizes, DivMod DEF Wrap, Seqs

LEMMA SlotType ==
  ASSUME NEW n \in Int
  PROVE  Slot(n) \in Slots
  BY Sizes, DivMod DEF Slot, Slots

(* The slot of a wrapped number is the slot of the number itself: the      *)
(* window divides the sequence space.                                      *)
LEMMA SlotOfWrap ==
  ASSUME NEW n \in Int
  PROVE  Slot(Wrap(n)) = Slot(n)
<1> DEFINE q == n \div SeqSpace
           p == Wrap(n) \div Window
<1>1. q \in Int /\ n = SeqSpace * q + Wrap(n)
  BY Sizes, DivMod DEF Wrap
<1>2. /\ p \in Int
      /\ Slot(Wrap(n)) \in 0 .. Window - 1
      /\ Wrap(n) = Window * p + Slot(Wrap(n))
  BY Sizes, WrapType, DivMod DEF Slot
<1> HIDE DEF q, p
<1> DEFINE k == 2 * Laps * q + p
<1>3. n = Window * k + Slot(Wrap(n))
  BY <1>1, <1>2, Sizes, SeqWindowAssumption, SMT DEF SeqSpace, Half
<1>4. k \in Int BY <1>1, <1>2, SeqWindowAssumption
<1> HIDE DEF k
<1>5. n % Window = Slot(Wrap(n))
  BY <1>2, <1>3, <1>4, Sizes, ModUnique
<1>6. QED BY <1>5 DEF Slot

(* Wrapping once more on the way changes nothing. *)
LEMMA WrapAdd ==
  ASSUME NEW n \in Int, NEW k \in Int
  PROVE  Wrap(Wrap(n) + k) = Wrap(n + k)
<1> DEFINE m == Wrap(n) + k
           u == n \div SeqSpace
           v == m \div SeqSpace
<1>1. u \in Int /\ Wrap(n) \in Int /\ n = SeqSpace * u + Wrap(n)
  BY Sizes, DivMod, WrapType DEF Wrap
<1>2. m \in Int /\ m = Wrap(n) + k
  BY <1>1
<1> HIDE DEF m
<1>3. v \in Int /\ Wrap(m) \in 0 .. SeqSpace - 1 /\ m = SeqSpace * v + Wrap(m)
  BY <1>2, Sizes, DivMod DEF Wrap
<1> HIDE DEF u, v
<1> DEFINE x == SeqSpace * u
           y == SeqSpace * v
           z == SeqSpace * (u + v)
           r == Wrap(m)
<1>4. x \in Int /\ y \in Int /\ z = x + y /\ u + v \in Int /\ z = SeqSpace * (u + v)
  BY <1>1, <1>3, Sizes, MulAdd
<1>5. n = x + Wrap(n) /\ m = y + r /\ r \in 0 .. SeqSpace - 1 /\ r \in Int
  BY <1>1, <1>3, Sizes
<1> HIDE DEF x, y, z, r
<1>6. (n + k) % SeqSpace = r
  <2>1. n + k = z + r
    BY <1>1, <1>2, <1>4, <1>5
  <2>2. n + k = SeqSpace * (u + v) + r
    BY <2>1, <1>4
  <2>3. QED BY <2>2, <1>4, <1>5, Sizes, ModUnique
<1>7. QED BY <1>6 DEF Wrap, m, r

(* int32 of the difference of two wrapped numbers is their distance, as    *)
(* long as it fits.                                                        *)
LEMMA SignedExact ==
  ASSUME NEW a \in Int, NEW b \in Int, -Half <= a - b, a - b < Half
  PROVE  Signed(Wrap(a) - Wrap(b)) = a - b
<1> DEFINE n == Wrap(a) - Wrap(b)
           k == (b \div SeqSpace) - (a \div SeqSpace)
           x == SeqSpace * (a \div SeqSpace)
           y == SeqSpace * (b \div SeqSpace)
<1>1. /\ a \div SeqSpace \in Int /\ a = SeqSpace * (a \div SeqSpace) + Wrap(a)
      /\ b \div SeqSpace \in Int /\ b = SeqSpace * (b \div SeqSpace) + Wrap(b)
      /\ Wrap(a) \in Int /\ Wrap(b) \in Int
  BY Sizes, DivMod, WrapType DEF Wrap
<1>2. k \in Int /\ n \in Int
  BY <1>1
<1>3. n = SeqSpace * k + (a - b)
  <2>1. SeqSpace * k = y - x
    BY <1>1, Sizes, SMT
  <2>2. x \in Int /\ y \in Int /\ a = x + Wrap(a) /\ b = y + Wrap(b)
    BY <1>1, Sizes, SMT
  <2> HIDE DEF x, y, k
  <2>3. QED BY <2>1, <2>2, <1>1
<1> HIDE DEF n, k, x, y
<1>4. CASE a - b >= 0
  <2>1. Wrap(n) = a - b
    BY <1>2, <1>3, <1>4, Sizes, ModUnique DEF Wrap
  <2>2. QED BY <2>1, Sizes DEF Signed, n
<1>5. CASE a - b < 0
  <2>1. n = SeqSpace * (k - 1) + (a - b + SeqSpace)
    <3>1. SeqSpace * (k - 1) = SeqSpace * k - SeqSpace BY <1>2, Sizes, SMT
    <3>2. QED BY <3>1, <1>2, <1>3, Sizes
  <2>2. a - b + SeqSpace \in 0 .. SeqSpace - 1 /\ k - 1 \in Int
    BY <1>2, <1>5, Sizes
  <2>3. Wrap(n) = a - b + SeqSpace
    BY <1>2, <2>1, <2>2, Sizes, ModUnique DEF Wrap
  <2>4. QED BY <2>3, <1>5, Sizes DEF Signed, n
<1>6. QED BY <1>4, <1>5

(* Numbers less than a window apart have slots of their own; numbers half  *)
(* the sequence space apart share one.                                     *)
LEMMA SlotsDiffer ==
  ASSUME NEW a \in Int, NEW b \in Int, a - b < Window, b - a < Window,
         Slot(a) = Slot(b)
  PROVE  a = b
<1> DEFINE k == (a \div Window) - (b \div Window)
<1>1. /\ a \div Window \in Int /\ a = Window * (a \div Window) + Slot(a)
      /\ b \div Window \in Int /\ b = Window * (b \div Window) + Slot(b)
      /\ Slot(a) \in Int /\ Slot(b) \in Int
  BY Sizes, DivMod DEF Slot
<1>2. k \in Int /\ Window * k = a - b
  <2>1. Window * k = Window * (a \div Window) - Window * (b \div Window)
    BY <1>1, Sizes, SMT
  <2>2. QED BY <2>1, <1>1, Sizes
<1> HIDE DEF k
<1>3. k = 0 BY <1>2, Sizes, SmallMultiple
<1>4. Window * k = 0 BY <1>3, Sizes, SMT
<1>5. QED BY <1>2, <1>4

LEMMA SlotsAlias ==
  ASSUME NEW a \in Int, NEW b \in Int, a - b = -Half
  PROVE  Slot(a) = Slot(b)
<1>1. /\ b \div Window \in Int
      /\ b = Window * (b \div Window) + Slot(b)
      /\ Slot(b) \in 0 .. Window - 1
  BY Sizes, DivMod DEF Slot
<1>2. Window * ((b \div Window) - Laps) = Window * (b \div Window) - Half
  BY <1>1, Sizes, SeqWindowAssumption, SMT DEF Half
<1>3. a = Window * ((b \div Window) - Laps) + Slot(b)
  BY <1>1, <1>2, Sizes
<1>4. (b \div Window) - Laps \in Int BY <1>1, SeqWindowAssumption
<1>5. a % Window = Slot(b) BY <1>1, <1>3, <1>4, Sizes, ModUnique
<1>6. QED BY <1>5 DEF Slot

-----------------------------------------------------------------------------
(* The frames of Receiver. *)

LEMMA SignedSmall ==
  ASSUME NEW n \in Int, -Half <= n, n < Half
  PROVE  Signed(n) = n
<1>1. Wrap(0) = 0
  <2>1. 0 = SeqSpace * 0 + 0 BY Sizes, SMT
  <2>2. QED BY <2>1, Sizes, ModUnique DEF Wrap
<1>2. CASE n >= 0
  <2>1. n = SeqSpace * 0 + n BY Sizes, SMT
  <2>2. n \in 0 .. SeqSpace - 1 BY <1>2, Sizes
  <2>3. Wrap(n) = n BY <2>1, <2>2, Sizes, ModUnique DEF Wrap
  <2>4. QED BY <2>3 DEF Signed
<1>3. CASE n < 0
  <2>1. n = SeqSpace * (-1) + (n + SeqSpace) BY Sizes, SMT
  <2>2. n + SeqSpace \in 0 .. SeqSpace - 1 BY <1>3, Sizes
  <2>3. Wrap(n) = n + SeqSpace BY <2>1, <2>2, Sizes, ModUnique DEF Wrap
  <2>4. QED BY <2>3, <1>3, Sizes DEF Signed
<1>4. QED BY <1>2, <1>3

LEMMA FrameType ==
  ASSUME NEW i \in Frames
  PROVE  i \in Int /\ i >= 0
BY ReceiverAssumption DEF Frames

(* The distance the code computes is the distance of the frames.           *)
LEMMA DistanceIsExact ==
  ASSUME TypeOK, WindowInv, window.haveTop, NEW i \in Frames, Arrivable(i)
  PROVE  Distance(window, Wrap(i)) = i - newest
<1>1. newest \in Int /\ i \in Int BY FrameType DEF TypeOK
<1>2. -Half <= i - newest /\ i - newest < Half
  BY <1>1, Sizes DEF Arrivable
<1>3. Signed(Wrap(i) - Wrap(newest)) = i - newest
  BY <1>1, <1>2, SignedExact
<1>4. QED BY <1>3 DEF WindowInv, Distance

(* What AcceptSeq's answer means: the frame is new and inside the window.  *)
LEMMA FreshMeans ==
  ASSUME TypeOK, WindowInv, window.haveTop, NEW i \in Frames, Arrivable(i)
  PROVE  /\ Newer(window, Wrap(i)) <=> i > newest
         /\ Fresh(window, Wrap(i)) <=> count[i] = 0 /\ i > newest - Window
<1>1. newest \in Int /\ i \in Int /\ count[i] \in Nat /\ newest \in Frames
  BY FrameType DEF TypeOK
<1>2. Distance(window, Wrap(i)) = i - newest
  BY DistanceIsExact
<1>3. -Half <= i - newest /\ i - newest < Half
  BY <1>1, Sizes DEF Arrivable
<1>4. Newer(window, Wrap(i)) <=> i > newest
  BY <1>1, <1>2 DEF Newer
<1>5. Marked(window, Wrap(i)) <=> Slot(i) \in window.seen
  BY <1>1, SlotOfWrap DEF Marked
<1>6. CASE i > newest
  BY <1>1, <1>4, <1>6, Sizes DEF Fresh, WindowInv
<1>7. CASE i <= newest /\ i - newest # -Half
  <2>1. -(i - newest) \in Int /\ -Half <= -(i - newest) /\ -(i - newest) < Half
    BY <1>1, <1>3, <1>7, Sizes
  <2>2. Signed(-(i - newest)) = -(i - newest)
    BY <2>1, SignedSmall
  <2>3. TooOld(window, Wrap(i)) <=> i <= newest - Window
    BY <1>1, <1>2, <2>2, Sizes DEF TooOld
  <2>4. CASE i <= newest - Window
    BY <1>1, <1>4, <1>7, <2>3, <2>4, Sizes DEF Fresh
  <2>5. CASE i > newest - Window
    BY <1>1, <1>4, <1>5, <1>7, <2>3, <2>5, Sizes DEF Fresh, WindowInv
  <2>6. QED BY <1>1, <2>4, <2>5, Sizes
<1>8. CASE i - newest = -Half
  <2>1. Slot(i) = Slot(newest) BY <1>1, <1>8, SlotsAlias
  <2>2. Slot(newest) \in window.seen
    BY <1>1, Sizes DEF WindowInv
  <2>3. Marked(window, Wrap(i)) BY <1>5, <2>1, <2>2
  <2>4. ~(i > newest) /\ ~(i > newest - Window)
    BY <1>1, <1>8, Sizes
  <2>5. QED BY <1>4, <2>3, <2>4 DEF Fresh
<1>9. QED BY <1>1, <1>4, <1>6, <1>7, <1>8

-----------------------------------------------------------------------------
(* The steps of AcceptSeq.                                                 *)

(* A dropped frame leaves window and history alone.                        *)
LEMMA DropStep ==
  ASSUME NEW i \in Frames, Sequence(i), ~Fresh(window, Wrap(i))
  PROVE  UNCHANGED <<window, count, newest>>
BY DEF Sequence, AcceptSeq

(* The window after sliding to a newer frame: what stays marked is what    *)
(* was delivered and is still inside.                                      *)
LEMMA SlideMeans ==
  ASSUME TypeOK, WindowInv, window.haveTop, NEW i \in Frames, Arrivable(i),
         i > newest,
         NEW j \in Frames, j > i - Window, j < i
  PROVE  Slot(j) \in SlideTo(window, Wrap(i)) <=> count[j] = 1
<1>1. newest \in Int /\ i \in Int /\ j \in Int /\ count[j] \in Nat
  BY FrameType DEF TypeOK
<1>2. Distance(window, Wrap(i)) = i - newest
  BY DistanceIsExact
<1> DEFINE Cleared == {Slot(Wrap(window.top + k)) : k \in 1 .. i - newest}
<1>3. ASSUME NEW k \in 1 .. i - newest
      PROVE  Slot(Wrap(window.top + k)) = Slot(newest + k)
  <2>1. window.top = Wrap(newest) /\ Wrap(newest) \in Int
    BY <1>1, WrapType DEF WindowInv
  <2>2. Wrap(window.top + k) = Wrap(newest + k) /\ newest + k \in Int
    BY <1>1, <2>1, WrapAdd
  <2>3. QED BY <2>2, SlotOfWrap
<1>4. Cleared = {Slot(newest + k) : k \in 1 .. i - newest}
  BY <1>3
<1> HIDE DEF Cleared
<1>5. CASE j > newest
  <2>1. count[j] = 0 BY <1>5 DEF WindowInv
  <2>2. j - newest \in 1 .. i - newest /\ newest + (j - newest) = j
    BY <1>1, <1>5
  <2>3. Slot(j) \in Cleared
    BY <1>4, <2>2
  <2>4. QED BY <1>2, <2>1, <2>3 DEF SlideTo, Cleared
<1>6. CASE j <= newest
  <2>1. i - newest < Window
    BY <1>1, <1>6, Sizes
  <2>2. Slot(j) \notin Cleared
    <3>1. SUFFICES ASSUME NEW k \in 1 .. i - newest, Slot(newest + k) = Slot(j)
                   PROVE  FALSE
      BY <1>4
    <3>2. newest + k - j < Window /\ j - (newest + k) < Window /\ newest + k \in Int
      BY <1>1, <1>6, Sizes
    <3>3. newest + k = j BY <1>1, <3>1, <3>2, SlotsDiffer
    <3>4. QED BY <1>1, <1>6, <3>3
  <2>3. Slot(j) \in window.seen <=> count[j] = 1
    BY <1>1, <1>6, Sizes DEF WindowInv
  <2>4. SlideTo(window, Wrap(i)) = window.seen \ Cleared
    BY <1>1, <1>2, <2>1, Sizes DEF SlideTo, Cleared
  <2>5. QED BY <2>2, <2>3, <2>4
<1>7. QED BY <1>1, <1>5, <1>6

(* A delivered frame was new and inside the window, is counted once, and   *)
(* the window still stands for what was delivered.                         *)
LEMMA DeliverStep ==
  ASSUME TypeOK, WindowInv, NEW i \in Frames, Arrivable(i), Sequence(i),
         Fresh(window, Wrap(i))
  PROVE  /\ window' \in WindowStates /\ newest' \in Frames
         /\ count[i] = 0 /\ count' = [count EXCEPT ![i] = 1]
         /\ \A j \in Frames : count[j] > 0 => i > j - Window
         /\ WindowInv'
<1>1. newest \in Int /\ i \in Int /\ newest \in Frames
  BY FrameType DEF TypeOK
<1>2. Wrap(i) \in Seqs /\ Slot(Wrap(i)) = Slot(i) /\ Slot(i) \in Slots
  BY <1>1, WrapType, SlotOfWrap, SlotType
<1>3. /\ window' = AcceptSeq(window, Wrap(i))
      /\ count' = [count EXCEPT ![i] = @ + 1]
      /\ newest' = IF window.haveTop /\ i < newest THEN newest ELSE i
  BY DEF Sequence
<1>4. \A j \in Frames : count[j] \in Nat /\ count[j] <= 1 /\ j \in Int
  BY FrameType DEF TypeOK, WindowInv
<1>5. ASSUME NEW a \in Frames, NEW b \in Frames, a - b < Window, b - a < Window,
             Slot(a) = Slot(b)
      PROVE  a = b
  BY <1>5, FrameType, SlotsDiffer
<1>6. CASE ~window.haveTop
  <2>1. window' = [haveTop |-> TRUE, top |-> Wrap(i), seen |-> {Slot(i)}]
    BY <1>2, <1>3, <1>6 DEF AcceptSeq, WindowInv
  <2>2. newest' = i /\ count[i] = 0 /\ count' = [count EXCEPT ![i] = 1]
    <3>1. count[i] = 0 BY <1>6 DEF WindowInv
    <3>2. QED BY <1>3, <1>6, <3>1
  <2>3. \A j \in Frames : count[j] = 0
    BY <1>6 DEF WindowInv
  <2>4. \A j \in Frames : count'[j] = IF j = i THEN 1 ELSE 0
    BY <2>2, <2>3 DEF TypeOK
  <2>5. \A j \in Frames : j > i - Window /\ j <= i
          => (Slot(j) \in {Slot(i)} <=> j = i)
    BY <1>1, <1>4, <1>5, Sizes
  <2>6. WindowInv'
    BY <1>1, <2>1, <2>2, <2>4, <2>5 DEF WindowInv
  <2>7. window' \in WindowStates
    BY <1>2, <2>1 DEF WindowStates
  <2>8. QED BY <2>2, <2>3, <2>6, <2>7
<1>7. CASE window.haveTop
  <2>1. /\ Newer(window, Wrap(i)) <=> i > newest
        /\ count[i] = 0 /\ i > newest - Window
    BY <1>7, FreshMeans
  <2>2. count' = [count EXCEPT ![i] = 1]
    BY <1>3, <2>1
  <2>3. \A j \in Frames : count'[j] = IF j = i THEN 1 ELSE count[j]
    BY <2>2 DEF TypeOK
  <2>4. \A j \in Frames : count[j] > 0 => j <= newest
    BY <1>1, <1>4, <1>7 DEF WindowInv
  <2>5. \A j \in Frames : count[j] > 0 => i > j - Window
    BY <1>1, <1>4, <2>1, <2>4, Sizes
  <2>6. CASE i > newest
    <3>1. window' = [haveTop |-> TRUE, top |-> Wrap(i),
                     seen |-> SlideTo(window, Wrap(i)) \union {Slot(i)}]
      BY <1>2, <1>3, <1>7, <2>1, <2>6 DEF AcceptSeq
    <3>2. newest' = i
      BY <1>1, <1>3, <2>6
    <3>3. window' \in WindowStates
      BY <1>2, <3>1 DEF WindowStates, SlideTo, TypeOK
    <3>4. ASSUME NEW j \in Frames, j > i - Window, j <= i
          PROVE  Slot(j) \in window'.seen <=> count'[j] = 1
      <4>1. CASE j = i
        BY <2>3, <3>1, <4>1
      <4>2. CASE j # i
        <5>1. j < i /\ Slot(j) # Slot(i)
          BY <1>1, <1>4, <1>5, <3>4, <4>2, Sizes
        <5>2. Slot(j) \in SlideTo(window, Wrap(i)) <=> count[j] = 1
          BY <1>7, <2>6, <3>4, <5>1, SlideMeans
        <5>3. QED BY <2>3, <3>1, <4>2, <5>1, <5>2
      <4>3. QED BY <4>1, <4>2
    <3>5. \A j \in Frames : j > i => count'[j] = 0
      BY <1>1, <1>4, <2>3, <2>4, <2>6
    <3>6. WindowInv'
      BY <1>1, <1>4, <2>3, <3>1, <3>2, <3>4, <3>5 DEF WindowInv
    <3>7. QED BY <2>1, <2>2, <2>5, <3>2, <3>3, <3>6
  <2>7. CASE ~(i > newest)
    <3>1. i < newest
      BY <1>1, <1>7, <2>1, <2>7 DEF WindowInv
    <3>2. window' = [window EXCEPT !.seen = @ \union {Slot(i)}] /\ newest' = newest
      BY <1>2, <1>3, <1>7, <2>1, <2>7, <3>1 DEF AcceptSeq
    <3>3. /\ window' \in WindowStates /\ window'.haveTop
          /\ window'.top = window.top
          /\ window'.seen = window.seen \union {Slot(i)}
      BY <1>2, <1>7, <3>2 DEF WindowStates, TypeOK
    <3>4. ASSUME NEW j \in Frames, j > newest - Window, j <= newest
          PROVE  Slot(j) \in window'.seen <=> count'[j] = 1
      <4>1. CASE j = i
        BY <2>3, <3>3, <4>1
      <4>2. CASE j # i
        <5>1. Slot(j) # Slot(i)
          BY <1>1, <1>4, <1>5, <2>1, <3>1, <3>4, <4>2, Sizes
        <5>2. Slot(j) \in window.seen <=> count[j] = 1
          BY <1>7, <3>4 DEF WindowInv
        <5>3. QED BY <2>3, <3>3, <4>2, <5>1, <5>2
      <4>3. QED BY <4>1, <4>2
    <3>5. \A j \in Frames : j > newest => count'[j] = 0
      BY <1>1, <1>4, <1>7, <2>3, <3>1 DEF WindowInv
    <3>6. count'[newest] = 1
      BY <1>1, <1>7, <2>3, <3>1 DEF WindowInv
    <3>7. WindowInv'
      BY <1>1, <1>4, <1>7, <2>3, <3>2, <3>3, <3>4, <3>5, <3>6 DEF WindowInv
    <3>8. QED BY <1>1, <2>1, <2>2, <2>5, <3>2, <3>3, <3>7
  <2>8. QED BY <2>6, <2>7
<1>8. QED BY <1>6, <1>7

-----------------------------------------------------------------------------
(* The delay baseline.                                                     *)

LEMMA BaselineType ==
  ASSUME NEW p \in Int, NEW c \in Int, NEW w \in 0 .. OffsetWindow, NEW a \in Ages
  PROVE  /\ Baseline(p, c, w, a) \in OffsetStates
         /\ Baseline(p, c, w, a).have
         /\ Baseline(p, c, w, a).prev = p
         /\ Baseline(p, c, w, a).cur = c
BY DEF Baseline, OffsetStates

LEMMA ObserveStep ==
  ASSUME NEW o \in OffsetStates, NEW raw \in Int, NEW b \in Int, b <= raw,
         o.have => b <= o.prev /\ b <= o.cur
  PROVE  /\ Observe(o, raw) \in OffsetStates
         /\ b <= Observe(o, raw).prev /\ b <= Observe(o, raw).cur
<1> DEFINE l == Lower(o, raw)
<1>1. /\ o.have \in BOOLEAN /\ o.prev \in Int /\ o.cur \in Int
      /\ o.windowAge \in 0 .. OffsetWindow /\ o.lateAge \in Ages
      /\ Lesser(o.cur, raw) \in Int /\ 0 \in 0 .. OffsetWindow
  BY ReceiverAssumption DEF OffsetStates, Lesser
<1>2. l \in OffsetStates /\ b <= l.prev /\ b <= l.cur
  <2>1. CASE o.have
    <3>1. l = Baseline(o.prev, Lesser(o.cur, raw), o.windowAge, o.lateAge)
      BY <2>1 DEF Lower
    <3>2. b <= Lesser(o.cur, raw) BY <1>1, <2>1 DEF Lesser
    <3> HIDE DEF l
    <3>3. QED BY <1>1, <2>1, <3>1, <3>2, BaselineType
  <2>2. CASE ~o.have
    <3>1. l = Baseline(raw, raw, 0, o.lateAge)
      BY <2>2 DEF Lower
    <3> HIDE DEF l
    <3>2. QED BY <1>1, <3>1, BaselineType
  <2>3. QED BY <1>1, <2>1, <2>2
<1>3. Observe(o, raw) = Roll(l, raw) BY DEF Observe
<1> HIDE DEF l
<1>4. /\ l.cur \in Int /\ l.windowAge \in 0 .. OffsetWindow /\ l.lateAge \in Ages
  BY <1>2 DEF OffsetStates
<1>5. CASE l.windowAge >= OffsetWindow
  <2>1. Observe(o, raw) = Baseline(l.cur, raw, 0, l.lateAge)
    BY <1>3, <1>5 DEF Roll
  <2>2. /\ Observe(o, raw) \in OffsetStates
        /\ Observe(o, raw).prev = l.cur /\ Observe(o, raw).cur = raw
    <3>1. l.cur \in Int /\ l.lateAge \in Ages /\ 0 \in 0 .. OffsetWindow
      BY <1>1, <1>4
    <3>2. /\ Baseline(l.cur, raw, 0, l.lateAge) \in OffsetStates
          /\ Baseline(l.cur, raw, 0, l.lateAge).prev = l.cur
          /\ Baseline(l.cur, raw, 0, l.lateAge).cur = raw
      BY <3>1, BaselineType
    <3>3. QED BY <2>1, <3>2
  <2>3. QED BY <1>2, <2>2
<1>6. CASE ~(l.windowAge >= OffsetWindow)
  <2>1. Observe(o, raw) = l BY <1>3, <1>6 DEF Roll
  <2>2. QED BY <1>2, <2>1
<1>7. QED BY <1>5, <1>6

(* A data frame leaves a baseline that is a delay observed before or now,  *)
(* and never one below all of them.                                        *)
LEMMA BaselineStep ==
  ASSUME TypeOK, BaselineInv, NEW i \in Frames, NEW raw \in Delays,
         RecvData(i, raw)
  PROVE  /\ offset' \in OffsetStates
         /\ best' \in [seen : BOOLEAN, delay : Int]
         /\ BaselineInv'
<1>1. raw \in Int BY ReceiverAssumption
<1> DEFINE o == Observe(offset, raw)
           b == IF best.seen THEN Lesser(best.delay, raw) ELSE raw
<1>2. /\ offset \in OffsetStates /\ best.seen \in BOOLEAN /\ best.delay \in Int
      /\ offset.have = best.seen
      /\ best.seen => best.delay <= offset.prev /\ best.delay <= offset.cur
  BY DEF TypeOK, BaselineInv, Lesser, OffsetStates
<1>3. b \in Int /\ b <= raw /\ (offset.have => b <= offset.prev /\ b <= offset.cur)
  BY <1>1, <1>2 DEF Lesser, OffsetStates
<1>4. offset' = Judged(o, raw) /\ best' = [seen |-> TRUE, delay |-> b]
  BY DEF RecvData
<1> HIDE DEF b
<1>5. o \in OffsetStates /\ b <= o.prev /\ b <= o.cur
  BY <1>1, <1>2, <1>3, ObserveStep
<1> HIDE DEF o
<1>6. /\ o.prev \in Int /\ o.cur \in Int /\ o.windowAge \in 0 .. OffsetWindow
      /\ o.lateAge \in Ages /\ LateFor(o) \in Ages /\ OnTime \in Ages
      /\ 0 \in 0 .. OffsetWindow
  BY <1>5, ReceiverAssumption DEF LateFor, OffsetStates, Ages
<1>7. /\ offset' \in OffsetStates /\ offset'.have
      /\ b <= offset'.prev /\ b <= offset'.cur
      /\ offset'.prev \in Int /\ offset'.cur \in Int
  <2>1. CASE TTLExceeded(o, raw)
    BY <1>4, <1>5, <1>6, <2>1, BaselineType DEF Judged
  <2>2. CASE ~TTLExceeded(o, raw) /\ Late(o, raw)
    BY <1>1, <1>3, <1>4, <1>6, <2>2, BaselineType DEF Judged
  <2>3. CASE ~TTLExceeded(o, raw) /\ ~Late(o, raw)
    BY <1>4, <1>5, <1>6, <2>3, BaselineType DEF Judged
  <2>4. QED BY <2>1, <2>2, <2>3
<1>8. best' \in [seen : BOOLEAN, delay : Int] /\ best'.seen /\ best'.delay = b
  BY <1>3, <1>4
<1>9. QED BY <1>7, <1>8 DEF BaselineInv, Lesser

-----------------------------------------------------------------------------
(* The inductive invariant.                                                *)
IInv == TypeOK /\ WindowInv /\ BaselineInv

LEMMA InitIInv == Init => IInv
<1> SUFFICES ASSUME Init PROVE IInv
  OBVIOUS
<1>1. TypeOK
  BY Sizes, ReceiverAssumption
  DEF Init, TypeOK, EmptyWindow, WindowStates, Seqs, NoOffset, OffsetStates,
      Ages, Frames, NoDrops, DropRuns
<1>2. WindowInv
  BY DEF Init, WindowInv, EmptyWindow
<1>3. BaselineInv
  BY DEF Init, BaselineInv, NoOffset
<1>4. QED BY <1>1, <1>2, <1>3 DEF IInv

(* AcceptSeq, whatever its answer, keeps the window invariant, and changes *)
(* the counts only as OnceDelivery may.                                    *)
LEMMA SequenceStep ==
  ASSUME IInv, NEW i \in Frames, Arrivable(i), Sequence(i)
  PROVE  /\ window' \in WindowStates /\ newest' \in Frames
         /\ count' \in [Frames -> Nat]
         /\ WindowInv'
         /\ Once!Deliver(i) \/ UNCHANGED count
<1>1. CASE Fresh(window, Wrap(i))
  <2>1. /\ window' \in WindowStates /\ newest' \in Frames
        /\ count[i] = 0 /\ count' = [count EXCEPT ![i] = 1]
        /\ \A j \in Frames : count[j] > 0 => i > j - Window
        /\ WindowInv'
    BY <1>1, DeliverStep DEF IInv
  <2>2. count' \in [Frames -> Nat] BY <2>1 DEF IInv, TypeOK
  <2>3. QED BY <2>1, <2>2 DEF Once!Deliver
<1>2. CASE ~Fresh(window, Wrap(i))
  <2>1. UNCHANGED <<window, count, newest>> BY <1>2, DropStep
  <2>2. QED BY <2>1 DEF IInv, TypeOK, WindowInv
<1>3. QED BY <1>1, <1>2

LEMMA NextIInv == IInv /\ [Next]_vars => IInv' /\ [Once!Next]_count
<1> SUFFICES ASSUME IInv, [Next]_vars PROVE IInv' /\ [Once!Next]_count
  OBVIOUS
<1>1. ASSUME NEW i \in Frames, RecvPing(i)
      PROVE  IInv' /\ [Once!Next]_count
  <2>1. /\ Arrivable(i) /\ Sequence(i) /\ UNCHANGED <<offset, best, drops>>
    BY <1>1 DEF RecvPing
  <2>2. /\ window' \in WindowStates /\ newest' \in Frames
        /\ count' \in [Frames -> Nat]
        /\ WindowInv'
        /\ Once!Deliver(i) \/ UNCHANGED count
    BY <2>1, SequenceStep
  <2>3. TypeOK' BY <2>1, <2>2 DEF IInv, TypeOK
  <2>4. BaselineInv' BY <2>1 DEF IInv, BaselineInv
  <2>5. QED BY <2>2, <2>3, <2>4 DEF IInv, Once!Next
<1>2. ASSUME NEW i \in Frames, NEW raw \in Delays, RecvData(i, raw)
      PROVE  IInv' /\ [Once!Next]_count
  <2> DEFINE o == Observe(offset, raw)
  <2>1. /\ Arrivable(i)
        /\ drops' = IF TTLExceeded(o, raw) THEN Dropped(drops) ELSE NoDrops
        /\ IF TTLExceeded(o, raw) THEN UNCHANGED <<window, count, newest>>
                                  ELSE Sequence(i)
    BY <1>2 DEF RecvData
  <2>2. /\ offset' \in OffsetStates
        /\ best' \in [seen : BOOLEAN, delay : Int]
        /\ BaselineInv'
    BY <1>2, BaselineStep DEF IInv
  <2>3. drops' \in DropRuns
    <3>1. Dropped(drops) \in DropRuns
      BY DEF IInv, TypeOK, Dropped, DropRuns
    <3>2. NoDrops \in DropRuns
      BY ReceiverAssumption DEF NoDrops, DropRuns
    <3>3. QED BY <2>1, <3>1, <3>2
  <2>4. /\ window' \in WindowStates /\ newest' \in Frames
        /\ count' \in [Frames -> Nat]
        /\ WindowInv'
        /\ Once!Deliver(i) \/ UNCHANGED count
    <3>1. CASE TTLExceeded(o, raw)
      BY <2>1, <3>1 DEF IInv, TypeOK, WindowInv
    <3>2. CASE ~TTLExceeded(o, raw)
      BY <2>1, <3>2, SequenceStep
    <3>3. QED BY <3>1, <3>2
  <2>5. QED BY <2>2, <2>3, <2>4 DEF IInv, TypeOK, Once!Next
<1>3. CASE Tick
  <2>1. /\ offset' = [have |-> offset.have, prev |-> offset.prev, cur |-> offset.cur,
                      windowAge |-> Lesser(offset.windowAge + 1, OffsetWindow),
                      lateAge   |-> OlderLate(offset.lateAge)]
        /\ drops' = [drops EXCEPT !.age = OlderRun(drops)]
        /\ UNCHANGED <<window, newest, count, best>>
    BY <1>3 DEF Tick
  <2>2. /\ offset' \in OffsetStates /\ offset'.have = offset.have
        /\ offset'.prev = offset.prev /\ offset'.cur = offset.cur
    <3>1. offset \in OffsetStates BY DEF IInv, TypeOK
    <3>2. Lesser(offset.windowAge + 1, OffsetWindow) \in 0 .. OffsetWindow
      BY <3>1, ReceiverAssumption DEF OffsetStates, Lesser
    <3>3. OlderLate(offset.lateAge) \in Ages
      BY <3>1, ReceiverAssumption DEF OffsetStates, OlderLate, Ages, OnTime, Lesser
    <3>4. QED BY <2>1, <3>1, <3>2, <3>3 DEF OffsetStates
  <2>3. drops' \in DropRuns
    <3>1. drops \in DropRuns BY DEF IInv, TypeOK
    <3>2. OlderRun(drops) \in 0 .. RebaselineAfter
      BY <3>1, ReceiverAssumption DEF DropRuns, OlderRun, Lesser
    <3>3. QED BY <2>1, <3>1, <3>2 DEF DropRuns
  <2>4. TypeOK' BY <2>1, <2>2, <2>3 DEF IInv, TypeOK
  <2>5. WindowInv' BY <2>1 DEF IInv, WindowInv
  <2>6. BaselineInv' BY <2>1, <2>2 DEF IInv, BaselineInv
  <2>7. QED BY <2>1, <2>4, <2>5, <2>6 DEF IInv
<1>4. CASE UNCHANGED vars
  BY <1>4 DEF IInv, TypeOK, WindowInv, BaselineInv, vars
<1>5. QED BY <1>1, <1>2, <1>3, <1>4 DEF Next

-----------------------------------------------------------------------------
(* The window stands for what was delivered and the baseline for what was  *)
(* observed (frame.go:68-90), in every reachable state.                    *)
THEOREM Invariance == Spec => []IInv
<1>1. Init => IInv BY InitIInv
<1>2. IInv /\ [Next]_vars => IInv' BY NextIInv
<1>3. QED BY <1>1, <1>2, PTL DEF Spec

(* The variables keep their types (frame.go:68-90).                        *)
THEOREM TypeCorrect == Spec => []TypeOK
<1>1. IInv => TypeOK BY DEF IInv
<1>2. QED BY <1>1, Invariance, PTL

(* AcceptSeq (frame.go:146) delivers every frame at most once and none     *)
(* from behind the window: the receiver implements OnceDelivery.           *)
THEOREM ImplementsOnceDelivery == Spec => DeliversOnce
<1>1. Init => Once!Init
  BY DEF Init, Once!Init
<1>2. IInv /\ [Next]_vars => [Once!Next]_count
  BY NextIInv
<1>3. QED BY <1>1, <1>2, Invariance, PTL DEF Spec, DeliversOnce, Once!Spec

(* A frame the receiver has not delivered, and that is not behind the      *)
(* window, is never refused as old or duplicate (frame.go:155-173).        *)
THEOREM NewFramesAreFresh == Spec => []NewFramesGetThrough
<1>1. IInv => NewFramesGetThrough
  <2> SUFFICES ASSUME IInv, window.haveTop, NEW i \in Frames,
                      Arrivable(i), count[i] = 0, i > newest - Window
               PROVE  Fresh(window, Wrap(i))
    BY DEF NewFramesGetThrough
  <2> QED
    BY FreshMeans DEF IInv
<1>2. QED BY <1>1, Invariance, PTL

(* Accept (frame.go:109) never calls a frame too late whose delay is       *)
(* within MaxAge of the best one ever seen.                                *)
THEOREM PromptFramesPass == Spec => []PromptFramesAreOnTime
<1>1. IInv => PromptFramesAreOnTime
  <2> SUFFICES ASSUME IInv, NEW raw \in Delays,
                      best.seen => raw <= best.delay + MaxAge
               PROVE  ~Late(Observe(offset, raw), raw)
    BY DEF PromptFramesAreOnTime, TTLExceeded
  <2>1. raw \in Int /\ MaxAge \in Nat BY ReceiverAssumption
  <2>2. /\ offset \in OffsetStates /\ best.delay \in Int
        /\ offset.have = best.seen
        /\ best.seen => best.delay <= offset.prev /\ best.delay <= offset.cur
    BY DEF IInv, TypeOK, BaselineInv, Lesser, OffsetStates
  <2> DEFINE b == raw - MaxAge
  <2>3. b \in Int /\ b <= raw /\ (offset.have => b <= offset.prev /\ b <= offset.cur)
    BY <2>1, <2>2 DEF OffsetStates
  <2> HIDE DEF b
  <2>4. /\ Observe(offset, raw) \in OffsetStates
        /\ b <= Observe(offset, raw).prev /\ b <= Observe(offset, raw).cur
    BY <2>1, <2>2, <2>3, ObserveStep
  <2>5. QED BY <2>1, <2>4 DEF Late, Lesser, OffsetStates, b
<1>2. QED BY <1>1, Invariance, PTL

-----------------------------------------------------------------------------
(* The clock of a run of late frames, lateSince, is that of the run of     *)
(* drops itself: it starts with the first drop, is kept by every further   *)
(* one and by the minimum windows rolling, and is cleared by any frame     *)
(* that passes.                                                            *)
LateRunInv ==
  IF drops.running
    THEN drops.age = offset.lateAge /\ drops.span < RebaselineAfter
    ELSE offset.lateAge = OnTime /\ drops = NoDrops

(* Observe leaves lateSince alone. *)
LEMMA ObserveKeepsTheRun ==
  ASSUME NEW o \in OffsetStates, NEW raw \in Int
  PROVE  Observe(o, raw).lateAge = o.lateAge
<1> DEFINE l == Lower(o, raw)
<1>1. l.lateAge = o.lateAge
  BY DEF Lower, Baseline
<1>2. Observe(o, raw) = Roll(l, raw)
  BY DEF Observe
<1> HIDE DEF l
<1>3. Roll(l, raw).lateAge = l.lateAge
  BY DEF Roll, Baseline
<1> QED
  BY <1>1, <1>2, <1>3

LEMMA LateRunStep ==
  ASSUME TypeOK, LateRunInv, NEW i \in Frames, NEW raw \in Delays, RecvData(i, raw)
  PROVE  LateRunInv'
<1> DEFINE o == Observe(offset, raw)
<1>1. /\ offset \in OffsetStates /\ raw \in Int /\ drops \in DropRuns
      /\ RebaselineAfter \in Nat
  BY ReceiverAssumption DEF TypeOK
<1>2. o.lateAge = offset.lateAge
  BY <1>1, ObserveKeepsTheRun
<1>3. /\ offset' = Judged(o, raw)
      /\ drops' = IF TTLExceeded(o, raw) THEN Dropped(drops) ELSE NoDrops
  BY DEF RecvData
<1> HIDE DEF o
<1>4. CASE TTLExceeded(o, raw)
  <2>1. drops' = [running |-> TRUE, age |-> drops.age, span |-> drops.age]
    BY <1>3, <1>4 DEF Dropped
  <2>2. offset'.lateAge = LateFor(o) /\ LateFor(o) < RebaselineAfter
    BY <1>3, <1>4 DEF Judged, Baseline, TTLExceeded
  <2>3. LateFor(o) = drops.age
    <3>1. CASE drops.running
      BY <1>1, <1>2, <3>1 DEF LateRunInv, LateFor, DropRuns, OnTime
    <3>2. CASE ~drops.running
      BY <1>2, <3>2 DEF LateRunInv, LateFor, NoDrops
    <3> QED
      BY <3>1, <3>2
  <2> QED
    BY <2>1, <2>2, <2>3 DEF LateRunInv
<1>5. CASE ~TTLExceeded(o, raw)
  <2>1. drops' = NoDrops
    BY <1>3, <1>5
  <2>2. offset'.lateAge = OnTime
    BY <1>3, <1>5 DEF Judged, Baseline
  <2> QED
    BY <2>1, <2>2 DEF LateRunInv, NoDrops
<1> QED
  BY <1>4, <1>5

LEMMA LateRunKept == TypeOK /\ LateRunInv /\ [Next]_vars => LateRunInv'
<1> SUFFICES ASSUME TypeOK, LateRunInv, [Next]_vars PROVE LateRunInv'
  OBVIOUS
<1>1. ASSUME NEW i \in Frames, RecvPing(i)
      PROVE  LateRunInv'
  BY <1>1 DEF RecvPing, LateRunInv
<1>2. ASSUME NEW i \in Frames, NEW raw \in Delays, RecvData(i, raw)
      PROVE  LateRunInv'
  BY <1>2, LateRunStep
<1>3. CASE Tick
  <2>1. /\ offset'.lateAge = OlderLate(offset.lateAge)
        /\ drops' = [drops EXCEPT !.age = OlderRun(drops)]
    BY <1>3 DEF Tick
  <2>2. drops \in DropRuns /\ RebaselineAfter \in Nat
    BY ReceiverAssumption DEF TypeOK
  <2>3. /\ drops'.running = drops.running /\ drops'.span = drops.span
        /\ drops'.age = OlderRun(drops)
    BY <2>1, <2>2 DEF DropRuns
  <2>4. CASE drops.running
    BY <2>1, <2>2, <2>3, <2>4 DEF LateRunInv, OlderLate, OlderRun, DropRuns, OnTime
  <2>5. CASE ~drops.running
    <3>1. drops' = NoDrops
      BY <2>1, <2>2, <2>5 DEF LateRunInv, OlderRun, DropRuns, NoDrops
    <3> QED
      BY <2>1, <2>3, <2>5, <3>1 DEF LateRunInv, OlderLate
  <2> QED
    BY <2>4, <2>5
<1>4. CASE UNCHANGED vars
  BY <1>4 DEF LateRunInv, vars
<1> QED
  BY <1>1, <1>2, <1>3, <1>4 DEF Next

(* No unbroken run of "ttl exceeded" answers lasts RebaselineAfter, for    *)
(* all delays and whenever the frames come (frame.go:126-138).             *)
THEOREM LateRunsEnd == Spec => []LateRunsAreShort
<1>1. Init => LateRunInv
  BY DEF Init, LateRunInv, NoOffset, NoDrops
<1>2. TypeOK /\ LateRunInv /\ [Next]_vars => LateRunInv'
  BY LateRunKept
<1>3. LateRunInv => LateRunsAreShort
  BY DEF LateRunInv, LateRunsAreShort
<1> QED
  BY <1>1, <1>2, <1>3, TypeCorrect, PTL DEF Spec
=============================================================================
