-------------------------- MODULE GlueChannelProofs --------------------------
(***************************************************************************)
(* One client's game traffic end to end, for any number of paths and any   *)
(* bounds below half the sequence space: packets are forwarded once,       *)
(* replies are delivered once while the client stays with a session, and   *)
(* the replies of a new session are heard.                                 *)
(*                                                                         *)
(* The numbers of GlueChannel are those of a counter that has not wrapped, *)
(* so the window compares them as they are.  ReceiverProofs is about       *)
(* counters that wrap.                                                     *)
(***************************************************************************)
EXTENDS GlueChannel, MCPathWriter, FiniteSetTheorems, TLAPS

LEMMA DivMod ==
  ASSUME NEW n \in Int, NEW d \in Nat, d > 0
  PROVE  /\ n \div d \in Int
         /\ n % d \in 0 .. d - 1
         /\ n = d * (n \div d) + (n % d)
  BY SMT

LEMMA MulAtLeast ==
  ASSUME NEW d \in Nat, d > 0, NEW k \in Int, k >= 1
  PROVE  d * k >= d
  BY SMT

LEMMA MulAtMost ==
  ASSUME NEW d \in Nat, d > 0, NEW k \in Int, k <= -1
  PROVE  d * k <= -d
  BY SMT

LEMMA SmallMultiple ==
  ASSUME NEW d \in Nat, d > 0, NEW k \in Int, d * k < d, d * k > -d
  PROVE  k = 0
<1>1. ~(k >= 1) BY MulAtLeast
<1>2. ~(k <= -1) BY MulAtMost
<1>3. QED BY <1>1, <1>2

LEMMA ModUnique ==
  ASSUME NEW n \in Int, NEW d \in Nat, d > 0, NEW q \in Int,
         NEW r \in 0 .. d - 1, n = d * q + r
  PROVE  n % d = r
<1>1. /\ n \div d \in Int
      /\ n % d \in 0 .. d - 1
      /\ n = d * (n \div d) + (n % d)
  BY DivMod
<1> DEFINE k == q - (n \div d)
<1>2. k \in Int /\ d * k = (n % d) - r
  <2>1. d * k = d * q - d * (n \div d) BY <1>1, SMT
  <2>2. QED BY <2>1, <1>1, SMT
<1> HIDE DEF k
<1>3. k = 0 BY <1>1, <1>2, SmallMultiple
<1>4. d * k = 0 BY <1>3, SMT
<1>5. QED BY <1>1, <1>2, <1>4

LEMMA Sizes ==
  /\ Window \in Nat /\ Window > 0
  /\ Half \in Nat /\ Half >= Window
  /\ SeqSpace \in Nat /\ SeqSpace > 0 /\ SeqSpace = 2 * Half
<1>1. Window \in Nat /\ Window > 0 /\ Laps \in Nat /\ Laps >= 1
  BY SeqWindowAssumption
<1>2. Window * Laps >= Window BY <1>1, MulAtLeast
<1>3. Half \in Nat /\ Half >= Window BY <1>1, <1>2, SMT DEF Half
<1>4. QED BY <1>1, <1>3 DEF SeqSpace

LEMMA SlotsDiffer ==
  ASSUME NEW a \in Int, NEW b \in Int, a - b < Window, b - a < Window,
         Slot(a) = Slot(b)
  PROVE  a = b
<1> DEFINE k == (a \div Window) - (b \div Window)
<1>1. /\ a \div Window \in Int /\ a = Window * (a \div Window) + Slot(a)
      /\ b \div Window \in Int /\ b = Window * (b \div Window) + Slot(b)
      /\ Slot(a) \in Int /\ Slot(b) \in Int
  BY Sizes, DivMod DEF Slot
<1>2. k \in Int /\ Window * k = a - b
  <2>1. Window * k = Window * (a \div Window) - Window * (b \div Window)
    BY <1>1, Sizes, SMT
  <2>2. QED BY <2>1, <1>1, Sizes
<1> HIDE DEF k
<1>3. k = 0 BY <1>2, Sizes, SmallMultiple
<1>4. Window * k = 0 BY <1>3, Sizes, SMT
<1>5. QED BY <1>2, <1>4

LEMMA ModSmall ==
  ASSUME NEW d \in Nat, d > 0, NEW n \in 0 .. d - 1
  PROVE  n % d = n
<1>1. n = d * 0 + n
  BY SMT
<1> QED
  BY <1>1, ModUnique

(* 32 bits hold the distance of two small numbers. *)
LEMMA SignedSmall ==
  ASSUME NEW n \in Int, -Half < n, n < Half
  PROVE  Signed(n) = n
<1>1. CASE n >= 0
  BY <1>1, Sizes, ModSmall DEF Signed, Wrap
<1>2. CASE n < 0
  <2>1. n = SeqSpace * (-1) + (n + SeqSpace) /\ n + SeqSpace \in 0 .. SeqSpace - 1
    BY <1>2, Sizes, SMT
  <2>2. Wrap(n) = n + SeqSpace
    BY <2>1, Sizes, ModUnique DEF Wrap
  <2> QED
    BY <1>2, <2>2, Sizes DEF Signed
<1> QED
  BY <1>1, <1>2

-----------------------------------------------------------------------------
(* The window over small numbers. *)

Small == 0 .. Half - 1

SmallWindows == {w \in WindowStates : w.top \in Small}

(* The numbers the window knows to have come. *)
Heard(w) == {n \in Small : w.haveTop /\ n <= w.top /\ w.top - n < Window /\ Slot(n) \in w.seen}

LEMMA SlotType == ASSUME NEW n \in Small PROVE Slot(n) \in Slots
  BY Sizes, DivMod DEF Slot, Slots, Small

LEMMA EmptyIs ==
  /\ EmptyWindow \in SmallWindows /\ ~EmptyWindow.haveTop /\ EmptyWindow.seen = {}
  /\ Heard(EmptyWindow) = {}
  BY Sizes DEF EmptyWindow, SmallWindows, WindowStates, Seqs, Small, Heard

LEMMA FreshIs ==
  ASSUME NEW w \in SmallWindows, NEW n \in Small
  PROVE  /\ Distance(w, n) = n - w.top
         /\ Fresh(w, n) <=> ~w.haveTop \/ n > w.top \/ (w.top - n < Window /\ n \notin Heard(w))
<1>1. w.top \in Small /\ w.top \in Int /\ n \in Int
  BY Sizes DEF SmallWindows, Small
<1>2. Distance(w, n) = n - w.top
  BY <1>1, SignedSmall, Sizes DEF Distance, Small
<1>3. Newer(w, n) <=> n > w.top
  BY <1>1, <1>2 DEF Newer
<1>4. TooOld(w, n) <=> w.top - n >= Window
  <2>1. -Distance(w, n) = w.top - n
    BY <1>1, <1>2
  <2>2. Signed(w.top - n) = w.top - n
    BY <1>1, SignedSmall, Sizes DEF Small
  <2> QED
    BY <2>1, <2>2 DEF TooOld
<1> QED
  BY <1>1, <1>2, <1>3, <1>4, Sizes DEF Fresh, Marked, Heard

(* After a fresh number the window knows it, forgets no number it would    *)
(* drop, and knows no other number than before.                            *)
LEMMA AcceptIs ==
  ASSUME NEW w \in SmallWindows, NEW n \in Small, Fresh(w, n), ~w.haveTop => w.seen = {},
         NEW v, v = AcceptSeq(w, n)
  PROVE  /\ v \in SmallWindows /\ v.haveTop
         /\ v.top = n \/ (w.haveTop /\ v.top = w.top /\ Heard(w) \subseteq Heard(v))
         /\ n \in Heard(v) /\ Heard(v) \subseteq Heard(w) \union {n}
         /\ \A m \in Small : ~Fresh(w, m) => ~Fresh(v, m)
<1>1. /\ w \in WindowStates /\ w.top \in Small /\ w.top \in Seqs /\ n \in Seqs
      /\ w.seen \in SUBSET Slots /\ w.haveTop \in BOOLEAN /\ Slot(n) \in Slots
      /\ w.top \in Int /\ n \in Int /\ Window \in Int /\ Window > 0
      /\ \A m \in Small : m \in Int
  BY Sizes, SlotType DEF SmallWindows, WindowStates, Small, Seqs
<1>d. Distance(w, n) = n - w.top
  BY FreshIs
<1>2. CASE ~w.haveTop \/ n > w.top
  <2> DEFINE u == (IF w.haveTop THEN SlideTo(w, n) ELSE w.seen) \union {Slot(n)}
  <2>1. v = [haveTop |-> TRUE, top |-> n, seen |-> u]
    BY <1>1, <1>2, FreshIs DEF AcceptSeq, Newer, Small
  <2>2. u \in SUBSET Slots /\ Slot(n) \in u
    BY <1>1 DEF SlideTo
  <2>3. ASSUME NEW m \in Small, m # n, m <= n, n - m < Window, Slot(m) \in u
        PROVE  m \in Heard(w)
    <3>1. Slot(m) # Slot(n)
      BY <1>1, <2>3, SlotsDiffer
    <3>2. w.haveTop /\ n > w.top /\ n - w.top < Window /\ Slot(m) \in w.seen
      <4>1. Slot(m) \in IF w.haveTop THEN SlideTo(w, n) ELSE w.seen
        BY <2>3, <3>1
      <4>2. w.haveTop /\ n > w.top /\ Slot(m) \in SlideTo(w, n)
        BY <1>2, <4>1
      <4> QED
        BY <1>1, <1>d, <4>2 DEF SlideTo
    <3>3. m <= w.top
      <4> SUFFICES ASSUME m > w.top PROVE FALSE
        BY <1>1, <2>3 DEF Small
      <4>1. m - w.top \in 1 .. Distance(w, n) /\ Wrap(w.top + (m - w.top)) = m
        BY <1>1, <2>3, FreshIs, Sizes, ModSmall DEF Small, Wrap
      <4>2. Slot(m) \notin SlideTo(w, n)
        BY <1>1, <3>2, <4>1, FreshIs DEF SlideTo, Small
      <4> QED
        BY <2>3, <3>1, <3>2, <4>2
    <3> QED
      BY <1>1, <2>3, <3>2, <3>3, Sizes DEF Heard, Small
  <2>4. ASSUME NEW m \in Small, m # n, w.haveTop, n > w.top, m <= w.top, n - m < Window,
               m \in Heard(w)
        PROVE  Slot(m) \in u
    <3>1. Distance(w, n) = n - w.top /\ n - w.top < Window
      <4>1. m \in Int
        BY <1>1
      <4> QED
        BY <1>1, <1>d, <2>4, <4>1
    <3>2. ASSUME NEW i \in 1 .. Distance(w, n) PROVE Slot(Wrap(w.top + i)) # Slot(m)
      <4>1. PICK a : a = w.top + i
        OBVIOUS
      <4>2. a \in Small /\ Wrap(a) = a
        BY <1>1, <3>1, <4>1, Sizes, ModSmall DEF Small, Wrap
      <4>3. a \in Int /\ m \in Int /\ a > m /\ a - m < Window /\ m - a < Window
        BY <1>1, <2>4, <3>1, <4>1, <4>2
      <4>4. Slot(a) # Slot(m)
        BY <4>3, SlotsDiffer
      <4> QED
        BY <4>1, <4>2, <4>4
    <3>3. Slot(m) \in w.seen
      BY <2>4 DEF Heard
    <3>4. Slot(m) \in SlideTo(w, n)
      BY <1>1, <3>1, <3>2, <3>3 DEF SlideTo
    <3> QED
      BY <2>4, <3>4
  <2> HIDE DEF u
  <2>5. v \in SmallWindows /\ v.haveTop /\ v.top = n /\ v.seen = u
    BY <1>1, <2>1, <2>2 DEF SmallWindows, WindowStates
  <2>6. n \in Heard(v)
    BY <2>2, <2>5, Sizes DEF Heard, Small
  <2>7. Heard(v) \subseteq Heard(w) \union {n}
    BY <2>3, <2>5 DEF Heard
  <2>8. ASSUME NEW m \in Small, ~Fresh(w, m) PROVE ~Fresh(v, m)
    <3>1. w.haveTop /\ m <= w.top /\ (m \in Heard(w) \/ w.top - m >= Window)
      BY <1>1, <2>8, FreshIs, Sizes DEF Small
    <3>2. CASE n - m >= Window
      BY <2>5, <3>2, <3>1, <1>1, <1>2, FreshIs, Sizes DEF Small
    <3>3. CASE n - m < Window
      <4>1. n > w.top /\ m # n /\ m \in Heard(w)
        BY <1>1, <1>2, <3>1, <3>3, Sizes DEF Small
      <4>2. m \in Heard(v)
        BY <1>1, <2>4, <2>5, <3>1, <3>3, <4>1 DEF Heard, Small
      <4> QED
        BY <2>5, <4>2, FreshIs DEF Heard, Small
    <3> QED
      BY <1>1, <3>2, <3>3, Sizes DEF Small
  <2> QED
    BY <2>5, <2>6, <2>7, <2>8
<1>3. CASE w.haveTop /\ n <= w.top
  <2>1. v = [w EXCEPT !.seen = @ \union {Slot(n)}] /\ w.top - n < Window
    BY <1>1, <1>3, FreshIs DEF AcceptSeq, Newer, Small
  <2>2. /\ v \in SmallWindows /\ v.haveTop /\ v.top = w.top
        /\ v.seen = w.seen \union {Slot(n)}
    BY <1>1, <1>3, <2>1 DEF SmallWindows, WindowStates
  <2>3. n \in Heard(v)
    BY <1>1, <1>3, <2>1, <2>2 DEF Heard
  <2>4. ASSUME NEW m \in Heard(v) PROVE m \in Heard(w) \union {n}
    <3>1. Slot(m) = Slot(n) => m = n
      BY <1>1, <1>3, <2>1, <2>2, SlotsDiffer, Sizes DEF Heard, Small
    <3> QED
      BY <1>3, <2>2, <3>1 DEF Heard
  <2>5. Heard(w) \subseteq Heard(v)
    BY <1>3, <2>2 DEF Heard
  <2>6. \A m \in Small : ~Fresh(w, m) => ~Fresh(v, m)
    BY <1>1, <1>3, <2>2, <2>5, FreshIs DEF Small
  <2> QED
    BY <1>3, <2>2, <2>3, <2>4, <2>5, <2>6
<1> QED
  BY <1>1, <1>2, <1>3, Sizes DEF Small

-----------------------------------------------------------------------------
(* The inductive invariant.                                                *)

PacketNumbers == 0 .. MaxPacket
ReplyNumbers  == 0 .. MaxReply

(* What is on its way to the server is on its way to the session there is: *)
(* a session takes with it what was sent to it.                            *)
PacketsAreForTheSession == \A p \in toServer : p.epoch = session /\ p.seq < packetSeq

(* A packet that was forwarded is one of the packets sent, and the session *)
(* still knows it as long as a copy is under way.                          *)
ForwardedIsKnown ==
  /\ \A n \in PacketNumbers : forwarded[n] <= 1 /\ (forwarded[n] > 0 => n < packetSeq)
  /\ \A p \in toServer : forwarded[p.seq] > 0 => ~Fresh(packetsIn, p.seq)

(* A path has a session from the moment it joined one. *)
PathsJoined == \A i \in Paths : pc[i] \in {"dialed", "up"} => joined[i] \in Epochs

(* What the handler would accept it has delivered less often than it came  *)
(* to this session.                                                        *)
FreshIsOwed ==
  \A e \in Epochs, n \in ReplyNumbers :
    /\ delivered[<<e, n>>] <= adopted[e]
    /\ e = epoch /\ Fresh(repliesIn, n) => delivered[<<e, n>>] < adopted[e]

(* And what its window knows was delivered in this session. *)
HeardWasDelivered ==
  /\ repliesIn.haveTop => epoch \in Epochs /\ repliesIn.top \in Heard(repliesIn)
  /\ \A n \in ReplyNumbers :
       epoch \in Epochs /\ n \in Heard(repliesIn) => delivered[<<epoch, n>>] > 0

(* The windows hold numbers that were sent. *)
WindowOK(w, max) ==
  /\ w \in SmallWindows /\ w.top \in 0 .. max
  /\ ~w.haveTop => w.seen = {}

IInv ==
  /\ TypeOK
  /\ WindowOK(packetsIn, MaxPacket) /\ WindowOK(repliesIn, MaxReply)
  /\ PacketsAreForTheSession /\ ForwardedIsKnown
  /\ PathsJoined /\ FreshIsOwed /\ HeardWasDelivered

LEMMA NumbersAreSmall ==
  /\ PacketNumbers \subseteq Small /\ ReplyNumbers \subseteq Small
  /\ MaxPacket \in Nat /\ MaxReply \in Nat /\ MaxEpoch \in Nat /\ MaxFaults \in Nat
  BY GlueChannelAssumption, Sizes DEF PacketNumbers, ReplyNumbers, Small

(* The types, in two halves. *)
ServerTypes ==
  /\ session \in Epochs \union {NoEpoch}
  /\ lastEpoch \in 0 .. MaxEpoch
  /\ attached \in SUBSET Paths
  /\ lingering \in Nat
  /\ session = NoEpoch => attached = {} /\ lingering = 0
  /\ replySeq \in 0 .. MaxReply + 1
  /\ packetsIn \in WindowStates
  /\ toServer \in SUBSET Packets
  /\ forwarded \in [0 .. MaxPacket -> Nat]

ClientTypes ==
  /\ pc \in [Paths -> {"down", "dialed", "up", "stopped"}]
  /\ joined \in [Paths -> Epochs \union {NoEpoch}]
  /\ epoch \in Epochs \union {NoEpoch}
  /\ repliesIn \in WindowStates
  /\ packetSeq \in 0 .. MaxPacket + 1
  /\ toClient \in SUBSET Replies
  /\ inHand \in SUBSET Replies
  /\ delivered \in [Epochs \X (0 .. MaxReply) -> Nat]
  /\ adopted \in [Epochs -> Nat]

LEMMA Types ==
  /\ TypeOK <=> ServerTypes /\ ClientTypes /\ faults \in 0 .. MaxFaults
  /\ TypeOK' <=> ServerTypes' /\ ClientTypes' /\ faults' \in 0 .. MaxFaults
  BY DEF TypeOK, ServerTypes, ClientTypes

(* The invariant in two halves as well: the packets and the replies meet   *)
(* nowhere.                                                                *)
PacketsOK ==
  /\ WindowOK(packetsIn, MaxPacket) /\ PacketsAreForTheSession /\ ForwardedIsKnown

RepliesOK ==
  /\ WindowOK(repliesIn, MaxReply) /\ FreshIsOwed /\ HeardWasDelivered

packetVars == <<session, packetsIn, toServer, packetSeq, forwarded>>
replyVars  == <<epoch, repliesIn, delivered, adopted>>

LEMMA Halves ==
  /\ IInv <=> TypeOK /\ PacketsOK /\ PathsJoined /\ RepliesOK
  /\ IInv' <=> TypeOK' /\ PacketsOK' /\ PathsJoined' /\ RepliesOK'
  BY DEF IInv, PacketsOK, RepliesOK

LEMMA PacketsKept ==
  ASSUME PacketsOK, UNCHANGED packetVars
  PROVE  PacketsOK'
BY DEF PacketsOK, PacketsAreForTheSession, ForwardedIsKnown, WindowOK, packetVars

LEMMA RepliesKept ==
  ASSUME RepliesOK, UNCHANGED replyVars
  PROVE  RepliesOK'
BY DEF RepliesOK, FreshIsOwed, HeardWasDelivered, WindowOK, replyVars

LEMMA PathsKept ==
  ASSUME PathsJoined, UNCHANGED <<pc, joined>>
  PROVE  PathsJoined'
BY DEF PathsJoined

LEMMA InitIInv == Init => IInv
<1> SUFFICES ASSUME Init PROVE IInv
  OBVIOUS
<1> USE DEF Init
<1>1. TypeOK
  BY NumbersAreSmall, EmptyIs DEF TypeOK, SmallWindows, NoEpoch
<1>2. WindowOK(EmptyWindow, MaxPacket) /\ WindowOK(EmptyWindow, MaxReply)
  BY NumbersAreSmall, EmptyIs DEF WindowOK, EmptyWindow
<1>3. PacketsOK
  BY <1>2 DEF PacketsOK, PacketsAreForTheSession, ForwardedIsKnown, PacketNumbers
<1>4. RepliesOK
  BY <1>2, EmptyIs DEF RepliesOK, FreshIsOwed, HeardWasDelivered, ReplyNumbers, Epochs, NoEpoch
<1>5. PathsJoined
  BY DEF PathsJoined
<1> QED
  BY <1>1, <1>3, <1>4, <1>5, Halves

-----------------------------------------------------------------------------
(* Connecting, and the server side coming and going.                       *)

(* A connection joins: the packets under way are those of its session. *)
LEMMA JoinKeeps ==
  ASSUME ServerTypes, PacketsOK, Join, UNCHANGED <<toServer, packetSeq, forwarded>>
  PROVE  /\ session' \in Epochs /\ session' # NoEpoch /\ lastEpoch' \in 0 .. MaxEpoch
         /\ packetsIn' \in WindowStates /\ replySeq' \in 0 .. MaxReply + 1
         /\ PacketsOK'
<1> USE DEF Join
<1>1. session' \in Epochs /\ session' # NoEpoch /\ lastEpoch' \in 0 .. MaxEpoch
  BY NumbersAreSmall DEF ServerTypes, Epochs, NoEpoch
<1>2. packetsIn' \in WindowStates /\ replySeq' \in 0 .. MaxReply + 1
  BY NumbersAreSmall, EmptyIs DEF ServerTypes, SmallWindows
<1>3. CASE session # NoEpoch
  BY <1>1, <1>2, <1>3, PacketsKept DEF packetVars
<1>4. CASE session = NoEpoch
  <2>1. toServer = {}
    BY <1>4, NumbersAreSmall
    DEF PacketsOK, PacketsAreForTheSession, ServerTypes, Packets, Epochs, NoEpoch
  <2>2. packetsIn' = EmptyWindow
    BY <1>4
  <2>3. WindowOK(EmptyWindow, MaxPacket)
    BY NumbersAreSmall, EmptyIs DEF WindowOK, EmptyWindow
  <2>4. PacketsOK'
    BY <2>1, <2>2, <2>3 DEF PacketsOK, PacketsAreForTheSession, ForwardedIsKnown
  <2> QED
    BY <1>1, <1>2, <2>4
<1> QED
  BY <1>3, <1>4

LEMMA DialIInv ==
  ASSUME IInv, NEW i \in Paths, Dial(i)
  PROVE  IInv'
<1> USE DEF Dial
<1>1. ServerTypes /\ ClientTypes /\ PacketsOK /\ RepliesOK /\ PathsJoined
  BY Types, Halves
<1>2. /\ session' \in Epochs /\ session' # NoEpoch /\ lastEpoch' \in 0 .. MaxEpoch
      /\ packetsIn' \in WindowStates /\ replySeq' \in 0 .. MaxReply + 1
      /\ PacketsOK'
  BY <1>1, JoinKeeps
<1>3. TypeOK'
  <2>1. ServerTypes'
    BY <1>1, <1>2 DEF ServerTypes
  <2>2. ClientTypes'
    BY <1>1, <1>2 DEF ClientTypes
  <2> QED
    BY <2>1, <2>2, Types DEF IInv
<1>4. PathsJoined'
  BY <1>1, <1>2 DEF PathsJoined, ClientTypes
<1>5. RepliesOK'
  BY <1>1, RepliesKept DEF replyVars
<1> QED
  BY <1>2, <1>3, <1>4, <1>5, Halves

LEMMA DialLostIInv ==
  ASSUME IInv, NEW i \in Paths, DialLost(i)
  PROVE  IInv'
<1> USE DEF DialLost, clientVars
<1>1. ServerTypes /\ ClientTypes /\ PacketsOK /\ RepliesOK /\ PathsJoined /\ faults \in 0 .. MaxFaults
  BY Types, Halves DEF IInv
<1>2. /\ session' \in Epochs /\ session' # NoEpoch /\ lastEpoch' \in 0 .. MaxEpoch
      /\ packetsIn' \in WindowStates /\ replySeq' \in 0 .. MaxReply + 1
      /\ PacketsOK'
  BY <1>1, JoinKeeps
<1>3. TypeOK'
  <2>1. ServerTypes'
    BY <1>1, <1>2 DEF ServerTypes
  <2>2. ClientTypes'
    BY <1>1 DEF ClientTypes
  <2>3. faults' \in 0 .. MaxFaults
    BY <1>1, NumbersAreSmall
  <2> QED
    BY <2>1, <2>2, <2>3, Types
<1>4. RepliesOK' /\ PathsJoined'
  BY <1>1, RepliesKept, PathsKept DEF replyVars
<1> QED
  BY <1>2, <1>3, <1>4, Halves

LEMMA DialRejectedIInv ==
  ASSUME IInv, NEW i \in Paths, DialRejected(i)
  PROVE  IInv'
<1> USE DEF DialRejected, serverVars
<1>1. ServerTypes /\ ClientTypes /\ PacketsOK /\ RepliesOK /\ PathsJoined /\ faults \in 0 .. MaxFaults
  BY Types, Halves DEF IInv
<1>2. TypeOK'
  <2>1. ServerTypes'
    BY <1>1 DEF ServerTypes
  <2>2. ClientTypes'
    BY <1>1 DEF ClientTypes
  <2>3. faults' \in 0 .. MaxFaults
    BY <1>1, NumbersAreSmall
  <2> QED
    BY <2>1, <2>2, <2>3, Types
<1>3. PathsJoined'
  BY <1>1 DEF PathsJoined, ClientTypes
<1>4. PacketsOK' /\ RepliesOK'
  BY <1>1, PacketsKept, RepliesKept DEF packetVars, replyVars
<1> QED
  BY <1>2, <1>3, <1>4, Halves

(* The client ends and leaves its connections to the server. *)
LEMMA ClientEndsIInv ==
  ASSUME IInv, ClientEnds
  PROVE  IInv'
<1> USE DEF ClientEnds
<1>1. ServerTypes /\ ClientTypes /\ PacketsOK /\ RepliesOK /\ PathsJoined
  BY Types, Halves
<1>2. Cardinality(attached) \in Nat /\ (attached = {} => Cardinality(attached) = 0)
  BY <1>1, GlueChannelAssumption, FS_Subset, FS_CardinalityType, FS_EmptySet DEF ServerTypes
<1>3. TypeOK'
  <2>1. ServerTypes'
    BY <1>1, <1>2 DEF ServerTypes
  <2>2. ClientTypes'
    BY <1>1 DEF ClientTypes
  <2> QED
    BY <2>1, <2>2, Types DEF IInv
<1>4. PathsJoined'
  BY <1>1 DEF PathsJoined
<1>5. PacketsOK' /\ RepliesOK'
  BY <1>1, PacketsKept, RepliesKept DEF packetVars, replyVars
<1> QED
  BY <1>3, <1>4, <1>5, Halves

LEMMA AnnounceIInv ==
  ASSUME IInv, NEW i \in Paths, Announce(i)
  PROVE  IInv'
<1> DEFINE e == joined[i]
<1>1. ServerTypes /\ ClientTypes /\ PacketsOK /\ RepliesOK /\ PathsJoined
  BY Types, Halves
<1>2. /\ pc[i] = "dialed" /\ pc' = [pc EXCEPT ![i] = "up"]
      /\ epoch' = e /\ repliesIn' = IF e = epoch THEN repliesIn ELSE EmptyWindow
      /\ adopted' = [adopted EXCEPT ![e] = IF epoch = e THEN @ ELSE @ + 1]
      /\ UNCHANGED <<serverVars, joined, packetSeq, inHand, toServer, toClient,
                     forwarded, delivered, faults>>
  BY DEF Announce, EpochAfter, WindowFor
<1>3. e \in Epochs
  BY <1>1, <1>2 DEF PathsJoined
<1> HIDE DEF e
<1>4. /\ adopted' \in [Epochs -> Nat]
      /\ \A d \in Epochs : adopted'[d] = IF d = e /\ epoch # e THEN adopted[d] + 1 ELSE adopted[d]
  BY <1>1, <1>2, <1>3 DEF ClientTypes
<1>5. TypeOK'
  <2>1. repliesIn' \in WindowStates
    BY <1>1, <1>2, EmptyIs DEF ClientTypes, SmallWindows
  <2>2. ClientTypes'
    BY <1>1, <1>2, <1>3, <1>4, <2>1 DEF ClientTypes
  <2>3. ServerTypes'
    BY <1>1, <1>2 DEF ServerTypes, serverVars
  <2> QED
    BY <1>2, <2>2, <2>3, Types DEF IInv
<1>6. PacketsOK'
  BY <1>1, <1>2, PacketsKept DEF packetVars, serverVars
<1>7. PathsJoined'
  BY <1>1, <1>2, <1>3 DEF PathsJoined, ClientTypes, e
<1>8. RepliesOK'
  <2>1. CASE e = epoch
    <3>1. adopted' = adopted
      BY <1>1, <1>4, <2>1 DEF ClientTypes
    <3> QED
      BY <1>1, <1>2, <2>1, <3>1, RepliesKept DEF replyVars
  <2>2. CASE e # epoch
    <3>1. WindowOK(EmptyWindow, MaxReply)
      BY NumbersAreSmall, EmptyIs DEF WindowOK, EmptyWindow
    <3>2. HeardWasDelivered'
      BY <1>2, <2>2, EmptyIs DEF HeardWasDelivered
    <3>3. FreshIsOwed'
      <4> SUFFICES ASSUME NEW d \in Epochs, NEW n \in ReplyNumbers
                   PROVE  /\ delivered[<<d, n>>] <= adopted'[d]
                          /\ d = e => delivered[<<d, n>>] < adopted'[d]
        BY <1>2 DEF FreshIsOwed
      <4>1. delivered[<<d, n>>] <= adopted[d] /\ delivered[<<d, n>>] \in Nat /\ adopted[d] \in Nat
        BY <1>1 DEF RepliesOK, FreshIsOwed, ClientTypes, ReplyNumbers
      <4> QED
        BY <1>4, <2>2, <4>1
    <3> QED
      BY <1>2, <2>2, <3>1, <3>2, <3>3 DEF RepliesOK
  <2> QED
    BY <2>1, <2>2
<1> QED
  BY <1>5, <1>6, <1>7, <1>8, Halves

LEMMA DisconnectIInv ==
  ASSUME IInv, NEW i \in Paths, Disconnect(i), faults' \in 0 .. MaxFaults
  PROVE  IInv'
<1>1. ServerTypes /\ ClientTypes /\ PacketsOK /\ RepliesOK /\ PathsJoined
  BY Types, Halves
<1>2. /\ pc' = [pc EXCEPT ![i] = "down"] /\ attached' = attached \ {i}
      /\ lingering' = IF i \in attached THEN lingering + 1 ELSE lingering
      /\ inHand' \in SUBSET Replies /\ toClient' \in SUBSET Replies
      /\ UNCHANGED <<session, lastEpoch, replySeq, packetsIn, joined, epoch, repliesIn,
                     packetSeq, toServer, forwarded, delivered, adopted>>
  BY <1>1 DEF Disconnect, ClientTypes
<1>3. TypeOK'
  <2>1. ServerTypes'
    BY <1>1, <1>2 DEF ServerTypes
  <2>2. ClientTypes'
    BY <1>1, <1>2 DEF ClientTypes
  <2> QED
    BY <2>1, <2>2, Types
<1>4. PathsJoined'
  BY <1>1, <1>2 DEF PathsJoined, ClientTypes
<1>5. PacketsOK' /\ RepliesOK'
  BY <1>1, <1>2, PacketsKept, RepliesKept DEF packetVars, replyVars
<1> QED
  BY <1>3, <1>4, <1>5, Halves

LEMMA ServerDetachesIInv ==
  ASSUME IInv, NEW i \in Paths, ServerDetaches(i)
  PROVE  IInv'
<1> USE DEF ServerDetaches, clientVars
<1>1. ServerTypes /\ ClientTypes /\ PacketsOK /\ RepliesOK /\ PathsJoined /\ faults \in 0 .. MaxFaults
  BY Types, Halves DEF IInv
<1>2. TypeOK'
  <2>1. ServerTypes'
    BY <1>1 DEF ServerTypes
  <2>2. ClientTypes'
    BY <1>1 DEF ClientTypes
  <2>3. faults' \in 0 .. MaxFaults
    BY <1>1, NumbersAreSmall
  <2> QED
    BY <2>1, <2>2, <2>3, Types
<1>3. PacketsOK' /\ RepliesOK' /\ PathsJoined'
  BY <1>1, PacketsKept, RepliesKept, PathsKept DEF packetVars, replyVars
<1> QED
  BY <1>2, <1>3, Halves

LEMMA ServerNoticesIInv ==
  ASSUME IInv, ServerNotices
  PROVE  IInv'
<1> USE DEF ServerNotices, clientVars
<1>1. ServerTypes /\ ClientTypes /\ PacketsOK /\ RepliesOK /\ PathsJoined
  BY Types, Halves
<1>2. TypeOK'
  <2>1. ServerTypes'
    BY <1>1 DEF ServerTypes
  <2>2. ClientTypes'
    BY <1>1 DEF ClientTypes
  <2> QED
    BY <2>1, <2>2, Types DEF IInv
<1>3. PacketsOK' /\ RepliesOK' /\ PathsJoined'
  BY <1>1, PacketsKept, RepliesKept, PathsKept DEF packetVars, replyVars
<1> QED
  BY <1>2, <1>3, Halves

LEMMA EndSessionIInv ==
  ASSUME IInv, EndSession, attached' = {}, lingering' = 0, faults' \in 0 .. MaxFaults
  PROVE  IInv'
<1> USE DEF EndSession, clientVars
<1>1. ServerTypes /\ ClientTypes /\ PacketsOK /\ RepliesOK /\ PathsJoined
  BY Types, Halves
<1>2. TypeOK'
  <2>1. ServerTypes'
    BY <1>1 DEF ServerTypes
  <2>2. ClientTypes'
    BY <1>1 DEF ClientTypes
  <2> QED
    BY <2>1, <2>2, Types
<1>3. PacketsOK'
  BY <1>1 DEF PacketsOK, PacketsAreForTheSession, ForwardedIsKnown, WindowOK
<1>4. RepliesOK' /\ PathsJoined'
  BY <1>1, RepliesKept, PathsKept DEF replyVars
<1> QED
  BY <1>2, <1>3, <1>4, Halves

-----------------------------------------------------------------------------
(* Frames to the server.                                                   *)

LEMMA SendPacketIInv ==
  ASSUME IInv, SendPacket
  PROVE  IInv'
<1> DEFINE n == packetSeq
<1>1. ServerTypes /\ ClientTypes /\ PacketsOK /\ RepliesOK /\ PathsJoined
  BY Types, Halves
<1>2. PICK new : /\ new = {[path |-> i, epoch |-> session, seq |-> packetSeq] :
                              i \in {i \in attached : pc[i] = "up"}}
                 /\ toServer' = toServer \union new
  BY DEF SendPacket
<1>3. /\ n \in PacketNumbers /\ packetSeq' = n + 1
      /\ UNCHANGED <<serverVars, pc, joined, epoch, repliesIn, inHand, toClient,
                     forwarded, delivered, adopted, faults>>
  BY <1>1, NumbersAreSmall DEF SendPacket, ClientTypes, PacketNumbers
<1>4. \A p \in new : p \in Packets /\ p.epoch = session /\ p.seq = n
  <2> SUFFICES ASSUME NEW i \in attached
               PROVE  /\ [path |-> i, epoch |-> session, seq |-> n] \in Packets
    BY <1>2
  <2>1. session \in Epochs /\ i \in Paths
    BY <1>1 DEF ServerTypes
  <2> QED
    BY <1>3, <2>1 DEF Packets, PacketNumbers
<1>5. TypeOK'
  <2>1. ServerTypes'
    BY <1>1, <1>2, <1>3, <1>4 DEF ServerTypes, serverVars
  <2>2. ClientTypes'
    BY <1>1, <1>3, NumbersAreSmall DEF ClientTypes, PacketNumbers
  <2> QED
    BY <1>3, <2>1, <2>2, Types DEF IInv
<1>6. PacketsOK'
  <2>1. /\ packetSeq \in Int /\ packetSeq' \in Int /\ packetSeq' > packetSeq
        /\ \A p \in toServer : p.seq \in Int
    BY <1>1, <1>3 DEF PacketNumbers, ServerTypes, Packets
  <2>2. \A p \in toServer' : p.epoch = session /\ p.seq < packetSeq'
    BY <1>1, <1>2, <1>3, <1>4, <2>1 DEF PacketsOK, PacketsAreForTheSession
  <2>3. ~(forwarded[n] > 0)
    BY <1>1, <1>3, <2>1 DEF PacketsOK, ForwardedIsKnown
  <2>4. ForwardedIsKnown'
    <3>1. \A m \in PacketNumbers : forwarded[m] <= 1 /\ (forwarded[m] > 0 => m < packetSeq')
      BY <1>1, <2>1 DEF PacketsOK, ForwardedIsKnown, PacketNumbers
    <3>2. \A p \in toServer' : forwarded[p.seq] > 0 => ~Fresh(packetsIn, p.seq)
      BY <1>1, <1>2, <1>4, <2>3 DEF PacketsOK, ForwardedIsKnown
    <3> QED
      BY <1>3, <3>1, <3>2 DEF ForwardedIsKnown, serverVars
  <2> QED
    BY <1>1, <1>3, <2>2, <2>4 DEF PacketsOK, PacketsAreForTheSession, WindowOK, serverVars
<1>7. RepliesOK' /\ PathsJoined'
  BY <1>1, <1>3, RepliesKept, PathsKept DEF replyVars
<1> QED
  BY <1>5, <1>6, <1>7, Halves

LEMMA ForwardIInv ==
  ASSUME IInv, NEW p \in toServer, Forward(p)
  PROVE  IInv'
<1> DEFINE n == p.seq
<1>1. ServerTypes /\ ClientTypes /\ PacketsOK /\ RepliesOK /\ PathsJoined
  BY Types, Halves
<1>2. /\ toServer' = toServer \ {p}
      /\ packetsIn' = AcceptSeq(packetsIn, n)
      /\ forwarded' = IF Fresh(packetsIn, n) THEN [forwarded EXCEPT ![n] = @ + 1] ELSE forwarded
      /\ UNCHANGED <<session, lastEpoch, attached, lingering, replySeq, clientVars, toClient,
                     delivered, adopted, faults>>
  BY DEF Forward, IsNewPacket
<1>3. p \in Packets /\ n \in PacketNumbers /\ n \in Small /\ n < packetSeq
  BY <1>1, NumbersAreSmall
  DEF ServerTypes, Packets, PacketNumbers, PacketsOK, PacketsAreForTheSession
<1>4. /\ forwarded \in [PacketNumbers -> Nat]
      /\ packetsIn \in SmallWindows /\ packetsIn.top \in PacketNumbers
      /\ ~packetsIn.haveTop => packetsIn.seen = {}
  BY <1>1 DEF ServerTypes, PacketsOK, WindowOK, PacketNumbers
<1>5. CASE ~Fresh(packetsIn, n)
  <2>1. packetsIn' = packetsIn /\ forwarded' = forwarded
    BY <1>2, <1>5 DEF AcceptSeq
  <2>2. TypeOK'
    <3>1. ServerTypes'
      BY <1>1, <1>2, <2>1 DEF ServerTypes
    <3>2. ClientTypes'
      BY <1>1, <1>2 DEF ClientTypes, clientVars
    <3> QED
      BY <1>2, <3>1, <3>2, Types DEF IInv
  <2>3. PacketsOK'
    BY <1>1, <1>2, <2>1
    DEF PacketsOK, PacketsAreForTheSession, ForwardedIsKnown, WindowOK, clientVars
  <2>4. RepliesOK' /\ PathsJoined'
    BY <1>1, <1>2, RepliesKept, PathsKept DEF replyVars, clientVars
  <2> QED
    BY <2>2, <2>3, <2>4, Halves
<1>6. CASE Fresh(packetsIn, n)
  <2>1. /\ packetsIn' \in SmallWindows /\ packetsIn'.haveTop
        /\ packetsIn'.top \in PacketNumbers /\ n \in Heard(packetsIn')
        /\ \A m \in Small : ~Fresh(packetsIn, m) => ~Fresh(packetsIn', m)
    BY <1>2, <1>3, <1>4, <1>6, AcceptIs
  <2>2. ~Fresh(packetsIn', n)
    <3>1. n \in Int /\ packetsIn'.top \in Int /\ n <= packetsIn'.top
      BY <1>3, <2>1 DEF Heard, PacketNumbers
    <3>2. Fresh(packetsIn', n) <=>
            \/ ~packetsIn'.haveTop \/ n > packetsIn'.top
            \/ packetsIn'.top - n < Window /\ n \notin Heard(packetsIn')
      BY <1>3, <2>1, FreshIs
    <3> QED
      BY <2>1, <3>1, <3>2
  <2>3. forwarded[n] = 0
    BY <1>1, <1>3, <1>4, <1>6 DEF PacketsOK, ForwardedIsKnown
  <2>4. /\ forwarded' \in [PacketNumbers -> Nat]
        /\ \A m \in PacketNumbers : forwarded'[m] = IF m = n THEN 1 ELSE forwarded[m]
    BY <1>2, <1>3, <1>4, <1>6, <2>3
  <2>5. TypeOK'
    <3>1. ServerTypes'
      BY <1>1, <1>2, <2>1, <2>4 DEF ServerTypes, SmallWindows, PacketNumbers
    <3>2. ClientTypes'
      BY <1>1, <1>2 DEF ClientTypes, clientVars
    <3> QED
      BY <1>2, <3>1, <3>2, Types DEF IInv
  <2>6. PacketsOK'
    <3>1. WindowOK(packetsIn, MaxPacket)'
      BY <2>1 DEF WindowOK, PacketNumbers
    <3>2. PacketsAreForTheSession'
      BY <1>1, <1>2 DEF PacketsOK, PacketsAreForTheSession, clientVars
    <3>3. \A m \in PacketNumbers : forwarded'[m] <= 1 /\ (forwarded'[m] > 0 => m < packetSeq)
      BY <1>1, <1>3, <2>4 DEF PacketsOK, ForwardedIsKnown
    <3>4. ASSUME NEW q \in toServer', forwarded'[q.seq] > 0
          PROVE  ~Fresh(packetsIn', q.seq)
      <4>1. q \in toServer /\ q.seq \in PacketNumbers /\ q.seq \in Small
        BY <1>1, <1>2, NumbersAreSmall DEF ServerTypes, Packets, PacketNumbers
      <4>2. CASE q.seq = n
        BY <2>2, <4>2
      <4>3. CASE q.seq # n
        <5>1. forwarded[q.seq] > 0
          BY <2>4, <3>4, <4>1, <4>3
        <5>2. ~Fresh(packetsIn, q.seq)
          BY <1>1, <4>1, <5>1 DEF PacketsOK, ForwardedIsKnown
        <5> QED
          BY <2>1, <4>1, <5>2
      <4> QED
        BY <4>2, <4>3
    <3> QED
      BY <1>2, <3>1, <3>2, <3>3, <3>4 DEF PacketsOK, ForwardedIsKnown, clientVars
  <2>7. RepliesOK' /\ PathsJoined'
    BY <1>1, <1>2, RepliesKept, PathsKept DEF replyVars, clientVars
  <2> QED
    BY <2>5, <2>6, <2>7, Halves
<1> QED
  BY <1>5, <1>6

-----------------------------------------------------------------------------
(* Replies.                                                                *)

LEMMA ReplyIInv ==
  ASSUME IInv, Reply
  PROVE  IInv'
<1> USE DEF Reply, clientVars
<1>1. ServerTypes /\ ClientTypes /\ PacketsOK /\ RepliesOK /\ PathsJoined
  BY Types, Halves
<1>2. replySeq \in ReplyNumbers /\ replySeq' \in 0 .. MaxReply + 1 /\ session \in Epochs
  BY <1>1, NumbersAreSmall DEF ServerTypes, ReplyNumbers
<1>3. toClient' \in SUBSET Replies
  BY <1>1, <1>2 DEF ServerTypes, ClientTypes, Replies, ReplyNumbers
<1>4. TypeOK'
  <2>1. ServerTypes'
    BY <1>1, <1>2 DEF ServerTypes
  <2>2. ClientTypes'
    BY <1>1, <1>3 DEF ClientTypes
  <2> QED
    BY <2>1, <2>2, Types DEF IInv
<1>5. PacketsOK' /\ RepliesOK' /\ PathsJoined'
  BY <1>1, PacketsKept, RepliesKept, PathsKept DEF packetVars, replyVars
<1> QED
  BY <1>4, <1>5, Halves

(* The handler counts the replies it accepts, and only those. *)
LEMMA HandleKeeps ==
  ASSUME ClientTypes, RepliesOK, NEW r \in Replies, Handle(r)
  PROVE  /\ RepliesOK'
         /\ repliesIn' \in WindowStates /\ delivered' \in [Epochs \X (0 .. MaxReply) -> Nat]
<1> DEFINE n == r.seq
           e == r.epoch
<1>1. e \in Epochs /\ n \in ReplyNumbers /\ n \in Small
  BY NumbersAreSmall DEF Replies, ReplyNumbers
<1>2. UNCHANGED <<epoch, adopted>>
  BY DEF Handle
<1>3. CASE ~Accepted(r)
  <2>1. UNCHANGED <<repliesIn, delivered>>
    BY <1>3 DEF Handle
  <2> QED
    BY <1>2, <2>1, RepliesKept DEF replyVars, ClientTypes
<1>4. CASE Accepted(r)
  <2>1. /\ e = epoch /\ Fresh(repliesIn, n)
        /\ repliesIn' = AcceptSeq(repliesIn, n)
        /\ delivered' = [delivered EXCEPT ![<<e, n>>] = @ + 1]
    BY <1>4 DEF Handle, Accepted
  <2>2. /\ repliesIn \in SmallWindows /\ repliesIn.top \in ReplyNumbers
        /\ ~repliesIn.haveTop => repliesIn.seen = {}
    BY DEF RepliesOK, WindowOK, ReplyNumbers
  <2>3. /\ repliesIn' \in SmallWindows /\ repliesIn'.haveTop
        /\ \/ repliesIn'.top = n
           \/ /\ repliesIn.haveTop /\ repliesIn'.top = repliesIn.top
              /\ Heard(repliesIn) \subseteq Heard(repliesIn')
        /\ repliesIn'.top \in ReplyNumbers
        /\ n \in Heard(repliesIn') /\ Heard(repliesIn') \subseteq Heard(repliesIn) \union {n}
        /\ \A m \in Small : ~Fresh(repliesIn, m) => ~Fresh(repliesIn', m)
    BY <1>1, <2>1, <2>2, AcceptIs
  <2>4. ~Fresh(repliesIn', n)
    <3>1. n \in Int /\ repliesIn'.top \in Int /\ n <= repliesIn'.top
      BY <1>1, <2>3 DEF Heard, ReplyNumbers
    <3>2. Fresh(repliesIn', n) <=>
            \/ ~repliesIn'.haveTop \/ n > repliesIn'.top
            \/ repliesIn'.top - n < Window /\ n \notin Heard(repliesIn')
      BY <1>1, <2>3, FreshIs
    <3> QED
      BY <2>3, <3>1, <3>2
  <2>5. /\ delivered' \in [Epochs \X (0 .. MaxReply) -> Nat]
        /\ \A d \in Epochs, m \in ReplyNumbers :
             /\ delivered[<<d, m>>] \in Nat
             /\ delivered'[<<d, m>>] = IF d = e /\ m = n THEN delivered[<<d, m>>] + 1
                                                         ELSE delivered[<<d, m>>]
    <3>1. <<e, n>> \in Epochs \X (0 .. MaxReply)
      BY <1>1 DEF ReplyNumbers
    <3> HIDE DEF e, n
    <3>2. delivered \in [Epochs \X (0 .. MaxReply) -> Nat]
      BY DEF ClientTypes
    <3>3. /\ delivered' \in [Epochs \X (0 .. MaxReply) -> Nat]
          /\ \A x \in Epochs \X (0 .. MaxReply) :
               delivered'[x] = IF x = <<e, n>> THEN delivered[x] + 1 ELSE delivered[x]
      BY <2>1, <3>1, <3>2
    <3>4. ASSUME NEW d \in Epochs, NEW m \in ReplyNumbers
          PROVE  /\ <<d, m>> \in Epochs \X (0 .. MaxReply)
                 /\ <<d, m>> = <<e, n>> <=> d = e /\ m = n
      BY DEF ReplyNumbers
    <3> QED
      BY <3>2, <3>3, <3>4
  <2>6. WindowOK(repliesIn, MaxReply)'
    BY <2>3 DEF WindowOK, ReplyNumbers
  <2>7. FreshIsOwed'
    <3> SUFFICES ASSUME NEW d \in Epochs, NEW m \in ReplyNumbers
                 PROVE  /\ delivered'[<<d, m>>] <= adopted[d]
                        /\ d = epoch /\ Fresh(repliesIn', m) => delivered'[<<d, m>>] < adopted[d]
      BY <1>2 DEF FreshIsOwed
    <3>1. /\ delivered[<<d, m>>] \in Nat /\ adopted[d] \in Nat
          /\ delivered[<<d, m>>] <= adopted[d]
          /\ d = epoch /\ Fresh(repliesIn, m) => delivered[<<d, m>>] < adopted[d]
      BY <2>5 DEF RepliesOK, FreshIsOwed, ClientTypes
    <3>2. m \in Small
      BY NumbersAreSmall
    <3>3. CASE d = e /\ m = n
      BY <2>1, <2>4, <2>5, <3>1, <3>3
    <3>4. CASE ~(d = e /\ m = n)
      BY <2>3, <2>5, <3>1, <3>2, <3>4
    <3> QED
      BY <3>3, <3>4
  <2>8. HeardWasDelivered'
    <3>1. repliesIn'.top \in Heard(repliesIn')
      <4>1. CASE repliesIn'.top = n
        BY <2>3, <4>1
      <4>2. CASE repliesIn'.top # n
        BY <2>3, <4>2 DEF RepliesOK, HeardWasDelivered
      <4> QED
        BY <4>1, <4>2
    <3>2. ASSUME NEW m \in ReplyNumbers, m \in Heard(repliesIn')
          PROVE  delivered'[<<epoch, m>>] > 0
      <4>1. m = n \/ m \in Heard(repliesIn)
        BY <2>3, <3>2
      <4>2. m \in Heard(repliesIn) => delivered[<<epoch, m>>] > 0
        BY <1>1, <2>1 DEF RepliesOK, HeardWasDelivered
      <4> QED
        BY <1>1, <2>1, <2>5, <4>1, <4>2
    <3> QED
      BY <1>1, <1>2, <2>1, <3>1, <3>2 DEF HeardWasDelivered
  <2> QED
    BY <2>3, <2>5, <2>6, <2>7, <2>8 DEF RepliesOK, SmallWindows
<1> QED
  BY <1>3, <1>4

LEMMA FrameIInv ==
  ASSUME IInv, NEW r \in Replies, Handle(r), toClient' \subseteq toClient, inHand' \subseteq inHand
  PROVE  IInv'
<1>1. ServerTypes /\ ClientTypes /\ PacketsOK /\ RepliesOK /\ PathsJoined
  BY Types, Halves
<1>2. UNCHANGED <<serverVars, pc, joined, epoch, packetSeq, toServer, forwarded, adopted, faults>>
  BY DEF Handle
<1>3. /\ RepliesOK'
      /\ repliesIn' \in WindowStates /\ delivered' \in [Epochs \X (0 .. MaxReply) -> Nat]
  BY <1>1, HandleKeeps
<1>4. TypeOK'
  <2>1. ServerTypes'
    BY <1>1, <1>2 DEF ServerTypes, serverVars
  <2>2. ClientTypes'
    BY <1>1, <1>2, <1>3 DEF ClientTypes
  <2> QED
    BY <1>2, <2>1, <2>2, Types DEF IInv
<1>5. PacketsOK' /\ PathsJoined'
  BY <1>1, <1>2, PacketsKept, PathsKept DEF packetVars, serverVars
<1> QED
  BY <1>3, <1>4, <1>5, Halves

LEMMA NextIInv == IInv /\ [Next]_vars => IInv'
<1> SUFFICES ASSUME IInv, [Next]_vars PROVE IInv'
  OBVIOUS
<1>1. TypeOK /\ faults \in 0 .. MaxFaults /\ toClient \subseteq Replies /\ inHand \subseteq Replies
  BY DEF IInv, TypeOK
<1>2. ASSUME faults < MaxFaults, faults' = faults + 1 PROVE faults' \in 0 .. MaxFaults
  BY <1>1, <1>2, NumbersAreSmall
<1>3. ASSUME NEW i \in Paths,
             \/ PathStep(i) \/ GiveUpPath(i) \/ ServerDetaches(i)
             \/ DialLost(i) \/ DialRejected(i)
      PROVE  IInv'
  <2>1. CASE NoticeDead(i) \/ GiveUpPath(i)
    BY <1>1, <1>2, <2>1, DisconnectIInv DEF NoticeDead, GiveUpPath
  <2> QED
    BY <1>3, <2>1, DialIInv, AnnounceIInv, ServerDetachesIInv, DialLostIInv, DialRejectedIInv
    DEF PathStep
<1>4. CASE Remove \/ Restart
  BY <1>1, <1>2, <1>4, EndSessionIInv DEF Remove, Restart
<1>5. CASE SendPacket \/ Reply \/ ClientEnds \/ ServerNotices
  BY <1>5, SendPacketIInv, ReplyIInv, ClientEndsIInv, ServerNoticesIInv
<1>6. CASE \E p \in toServer : Forward(p)
  BY <1>6, ForwardIInv
<1>7. ASSUME NEW r \in toClient, Receive(r) PROVE IInv'
  <2>1. Handle(r) /\ toClient' \subseteq toClient /\ inHand' \subseteq inHand /\ r \in Replies
    BY <1>1, <1>7 DEF Receive
  <2> QED
    BY <2>1, FrameIInv
<1>8. ASSUME NEW r \in inHand, ReceiveLate(r) PROVE IInv'
  <2>1. Handle(r) /\ toClient' \subseteq toClient /\ inHand' \subseteq inHand /\ r \in Replies
    BY <1>1, <1>8 DEF ReceiveLate
  <2> QED
    BY <2>1, FrameIInv
<1>9. CASE UNCHANGED vars
  <2>1. ServerTypes /\ ClientTypes /\ PacketsOK /\ RepliesOK /\ PathsJoined
    BY Types, Halves
  <2>2. TypeOK'
    BY <1>1, <1>9 DEF TypeOK, vars, serverVars, clientVars
  <2>3. PacketsOK' /\ RepliesOK' /\ PathsJoined'
    BY <1>9, <2>1, PacketsKept, RepliesKept, PathsKept
    DEF vars, serverVars, clientVars, packetVars, replyVars
  <2> QED
    BY <2>2, <2>3, Halves
<1> QED
  BY <1>3, <1>4, <1>5, <1>6, <1>7, <1>8, <1>9 DEF Next

-----------------------------------------------------------------------------
(* Sessions, windows and counters fit each other in every state, however   *)
(* often connections break, sessions are replaced and frames come late     *)
(* (gluepaths.go:151-197, 278-312, glue.go:101-104, 424-429).              *)
THEOREM InductiveInvariant == Spec => []IInv
<1> QED
  BY InitIInv, NextIInv, PTL DEF Spec

(* The variables keep their types; a client without a session has no path  *)
(* in one (glue.go:120-151).                                               *)
THEOREM TypeCorrect == Spec => []TypeOK
<1>1. IInv => TypeOK
  BY DEF IInv
<1> QED
  BY <1>1, InductiveInvariant, PTL

(* A packet reaches its game server at most once, over any number of paths *)
(* and across any number of sessions (glue.go:424-429, 101-104).           *)
THEOREM ForwardedOnce == Spec => []PacketsForwardedOnce
<1>1. IInv => PacketsForwardedOnce
  BY DEF IInv, ForwardedIsKnown, PacketNumbers, PacketsForwardedOnce
<1> QED
  BY <1>1, InductiveInvariant, PTL

(* A reply is delivered at most as often as the client adopted its session *)
(* (gluepaths.go:283-312).                                                 *)
THEOREM DeliveredOncePerAdoption == Spec => []OncePerAdoption
<1>1. IInv => OncePerAdoption
  BY DEF IInv, FreshIsOwed, ReplyNumbers, OncePerAdoption
<1> QED
  BY <1>1, InductiveInvariant, PTL

(* A reply of the session the handler is with that was not delivered and   *)
(* is not too old is accepted when it comes, although another session used *)
(* the same numbers before (gluepaths.go:278-282).                         *)
THEOREM NewSessionsAreHeard == Spec => []NewRepliesAreHeard
<1>1. ASSUME IInv, NEW r \in toClient, r.epoch = epoch, delivered[<<r.epoch, r.seq>>] = 0,
             \A n \in 0 .. MaxReply : delivered[<<epoch, n>>] > 0 => r.seq > n - Window
      PROVE  Accepted(r)
  <2>1. epoch \in Epochs /\ r.seq \in ReplyNumbers /\ r.seq \in Small /\ r.seq \in Int
    BY <1>1, NumbersAreSmall DEF IInv, TypeOK, Replies, ReplyNumbers
  <2>2. WindowOK(repliesIn, MaxReply) /\ HeardWasDelivered
    BY <1>1 DEF IInv
  <2>3. r.seq \notin Heard(repliesIn)
    BY <1>1, <2>1, <2>2 DEF HeardWasDelivered
  <2>4. /\ repliesIn \in SmallWindows /\ repliesIn.top \in ReplyNumbers /\ repliesIn.top \in Int
        /\ Window \in Int
    BY <2>2, Sizes DEF WindowOK, ReplyNumbers
  <2>5. repliesIn.haveTop => r.seq > repliesIn.top - Window
    <3> SUFFICES ASSUME repliesIn.haveTop PROVE r.seq > repliesIn.top - Window
      OBVIOUS
    <3>1. delivered[<<epoch, repliesIn.top>>] > 0
      BY <2>1, <2>2, <2>4 DEF HeardWasDelivered
    <3> QED
      BY <1>1, <2>4, <3>1 DEF ReplyNumbers
  <2>6. Fresh(repliesIn, r.seq) <=>
          \/ ~repliesIn.haveTop \/ r.seq > repliesIn.top
          \/ repliesIn.top - r.seq < Window /\ r.seq \notin Heard(repliesIn)
    BY <2>1, <2>4, FreshIs
  <2>7. repliesIn.haveTop => repliesIn.top - r.seq < Window
    BY <2>1, <2>4, <2>5
  <2> QED
    BY <1>1, <2>3, <2>6, <2>7 DEF Accepted
<1>2. IInv => NewRepliesAreHeard
  BY <1>1 DEF NewRepliesAreHeard
<1> QED
  BY <1>2, InductiveInvariant, PTL

-----------------------------------------------------------------------------
(***************************************************************************)
(* The queue in front of each path, by itself: it shares nothing with the  *)
(* rest but the frames.                                                    *)
(***************************************************************************)

Holding == IF writer = "holding" THEN 1 ELSE 0

(* The frames neither written nor counted are somewhere. *)
Balance == ~done => open = queued + Cardinality(Path!Sending) + Holding

(* A goroutine that has made room finds it, or another one was faster. *)
RoomWasMade ==
  \A s \in Senders :
    /\ sender[s] = "out" => attempt[s] = 1
    /\ sender[s] = "put" /\ attempt[s] > 1 /\ ~overtaken[s] => queued < Depth
    /\ sender[s] = "take" /\ attempt[s] > 1 => overtaken[s]

PathIInv == Path!TypeOK /\ Balance /\ RoomWasMade

(* How the goroutines in Send become more and fewer. *)
LEMMA SendingFinite ==
  ASSUME Path!PathAssumption
  PROVE  IsFiniteSet(Path!Sending) /\ Cardinality(Path!Sending) \in Nat
<1>1. Path!Sending \subseteq Senders
  BY DEF Path!Sending
<1> QED
  BY <1>1, FS_Subset, FS_CardinalityType DEF Path!PathAssumption, Path!IsFiniteSet, IsFiniteSet

LEMMA SendingEnters ==
  ASSUME Path!PathAssumption, Path!TypeOK, NEW s \in Senders, sender[s] = "out",
         NEW v \in {"put", "take"}, sender' = [sender EXCEPT ![s] = v]
  PROVE  Cardinality(Path!Sending') = Cardinality(Path!Sending) + 1
<1>1. Path!Sending' = Path!Sending \union {s} /\ s \notin Path!Sending
  BY DEF Path!Sending, Path!TypeOK
<1> QED
  BY <1>1, SendingFinite, FS_AddElement

LEMMA SendingLeaves ==
  ASSUME Path!PathAssumption, Path!TypeOK, NEW s \in Senders, sender[s] # "out",
         sender' = [sender EXCEPT ![s] = "out"]
  PROVE  /\ Cardinality(Path!Sending') = Cardinality(Path!Sending) - 1
         /\ Cardinality(Path!Sending) > 0
<1>1. Path!Sending' = Path!Sending \ {s} /\ s \in Path!Sending
  BY DEF Path!Sending, Path!TypeOK
<1>2. Cardinality(Path!Sending') = Cardinality(Path!Sending) - 1
  BY <1>1, SendingFinite, FS_RemoveElement
<1>3. Cardinality(Path!Sending) # 0
  BY <1>1, SendingFinite, FS_EmptySet
<1> QED
  BY <1>2, <1>3, SendingFinite

LEMMA SendingStays ==
  ASSUME Path!TypeOK, NEW s \in Senders, sender[s] # "out",
         NEW v \in {"put", "take"}, sender' = [sender EXCEPT ![s] = v]
  PROVE  Path!Sending' = Path!Sending
BY DEF Path!Sending, Path!TypeOK

LEMMA PathInit == Path!PathAssumption /\ Path!Init => PathIInv
<1> SUFFICES ASSUME Path!PathAssumption, Path!Init PROVE PathIInv
  OBVIOUS
<1>1. Path!TypeOK
  <2>1. 0 \in 0 .. Depth /\ 1 \in 1 .. Attempts /\ 0 \in Nat
    BY DEF Path!PathAssumption
  <2>2. queued \in 0 .. Depth /\ attempt \in [Senders -> 1 .. Attempts] /\ open \in Nat
    BY <2>1 DEF Path!Init
  <2>3. /\ done \in BOOLEAN /\ writer \in {"select", "holding", "ended"}
        /\ sender \in [Senders -> {"out", "put", "take"}]
        /\ overtaken \in [Senders -> BOOLEAN]
    BY DEF Path!Init
  <2> QED
    BY <2>2, <2>3 DEF Path!TypeOK
<1>2. Path!Sending = {}
  BY DEF Path!Init, Path!Sending
<1>3. Balance
  BY <1>2, FS_EmptySet DEF Path!Init, Balance, Holding
<1>4. RoomWasMade
  BY DEF Path!Init, RoomWasMade
<1> QED
  BY <1>1, <1>3, <1>4 DEF PathIInv

LEMMA PathSend ==
  ASSUME Path!PathAssumption, PathIInv, NEW s \in Senders, Path!Send(s)
  PROVE  PathIInv'
<1> USE DEF Path!Send, Path!Count
<1>1. Path!TypeOK /\ Balance /\ RoomWasMade
  BY DEF PathIInv
<1>2. Path!TypeOK'
  BY <1>1 DEF Path!TypeOK
<1>3. Balance'
  <2>1. Cardinality(Path!Sending') = Cardinality(Path!Sending) + 1
    BY <1>1, SendingEnters
  <2>2. queued \in Int /\ Cardinality(Path!Sending) \in Int /\ open \in Int /\ Holding' = Holding
        /\ Holding \in Int
    BY <1>1, SendingFinite DEF Path!TypeOK, Holding
  <2> QED
    BY <1>1, <2>1, <2>2 DEF Balance
<1>4. RoomWasMade'
  BY <1>1 DEF Path!TypeOK, RoomWasMade
<1> QED
  BY <1>2, <1>3, <1>4 DEF PathIInv

LEMMA PathPut ==
  ASSUME Path!PathAssumption, PathIInv, NEW s \in Senders, Path!Put(s)
  PROVE  PathIInv'
<1>1. Path!TypeOK /\ Balance /\ RoomWasMade /\ sender[s] = "put"
      /\ UNCHANGED <<done, writer, open>>
  BY DEF PathIInv, Path!Put
<1>2. /\ queued \in Int /\ Cardinality(Path!Sending) \in Int /\ open \in Int
      /\ Holding' = Holding /\ Holding \in Int /\ Depth \in Nat /\ Attempts \in Nat
      /\ queued <= Depth /\ queued >= 0
  BY <1>1, SendingFinite DEF Path!TypeOK, Holding, Path!PathAssumption
<1>3. CASE done /\ Path!Return(s) /\ UNCHANGED <<queued, overtaken>>
  <2>1. Path!TypeOK'
    BY <1>1, <1>2, <1>3, Path!PathAssumption DEF Path!TypeOK, Path!Return, Path!PathAssumption
  <2>2. Balance'
    BY <1>1, <1>3 DEF Balance
  <2>3. RoomWasMade'
    BY <1>1, <1>3 DEF RoomWasMade, Path!Return, Path!TypeOK
  <2> QED
    BY <2>1, <2>2, <2>3 DEF PathIInv
<1>4. CASE /\ queued < Depth /\ queued' = queued + 1
           /\ Path!Return(s)
           /\ overtaken' = [t \in Senders |-> t # s /\ (overtaken[t] \/ t \in Path!Sending)]
  <2>1. \A t \in Senders : overtaken'[t] <=> t # s /\ (overtaken[t] \/ t \in Path!Sending)
    BY <1>4
  <2>2. overtaken' \in [Senders -> BOOLEAN]
    BY <1>4
  <2>3. Path!TypeOK'
    BY <1>1, <1>2, <1>4, <2>2 DEF Path!TypeOK, Path!Return, Path!PathAssumption
  <2>4. Balance'
    <3>1. Cardinality(Path!Sending') = Cardinality(Path!Sending) - 1
      BY <1>1, <1>4, SendingLeaves DEF Path!Return
    <3> QED
      BY <1>1, <1>2, <1>4, <3>1 DEF Balance
  <2>5. RoomWasMade'
    <3> SUFFICES ASSUME NEW t \in Senders
                 PROVE  /\ sender'[t] = "out" => attempt'[t] = 1
                        /\ sender'[t] # "out" => overtaken'[t]
      BY DEF RoomWasMade
    <3>1. CASE t = s
      BY <1>1, <1>4, <3>1 DEF Path!Return, Path!TypeOK
    <3>2. CASE t # s
      <4>1. sender'[t] = sender[t] /\ attempt'[t] = attempt[t]
        BY <1>1, <1>4, <3>2 DEF Path!Return, Path!TypeOK
      <4>2. sender'[t] # "out" => t \in Path!Sending
        BY <4>1 DEF Path!Sending
      <4> QED
        BY <1>1, <2>1, <3>2, <4>1, <4>2 DEF RoomWasMade
    <3> QED
      BY <3>1, <3>2
  <2> QED
    BY <2>3, <2>4, <2>5 DEF PathIInv
<1>5. CASE /\ ~done /\ queued = Depth
           /\ sender' = [sender EXCEPT ![s] = "take"]
           /\ UNCHANGED <<queued, attempt, overtaken>>
  <2>1. Path!TypeOK'
    BY <1>1, <1>5 DEF Path!TypeOK
  <2>2. Balance'
    BY <1>1, <1>2, <1>5, SendingStays DEF Balance
  <2>3. RoomWasMade'
    BY <1>1, <1>2, <1>5 DEF RoomWasMade, Path!TypeOK
  <2> QED
    BY <2>1, <2>2, <2>3 DEF PathIInv
<1> QED
  BY <1>3, <1>4, <1>5 DEF Path!Put

LEMMA PathTake ==
  ASSUME Path!PathAssumption, PathIInv, NEW s \in Senders, Path!Take(s)
  PROVE  PathIInv'
<1> DEFINE taken == IF queued > 0 THEN 1 ELSE 0
<1>1. /\ Path!TypeOK /\ Balance /\ RoomWasMade /\ sender[s] = "take"
      /\ queued' = queued - taken /\ UNCHANGED <<done, writer, overtaken>>
  BY DEF PathIInv, Path!Take
<1>2. /\ queued \in Int /\ Cardinality(Path!Sending) \in Int /\ open \in Int
      /\ Holding' = Holding /\ Holding \in {0, 1} /\ Depth \in Nat /\ Depth > 0
      /\ Attempts \in Nat /\ queued <= Depth /\ queued >= 0
      /\ Cardinality(Path!Sending) >= 0 /\ taken \in {0, 1}
  BY <1>1, SendingFinite DEF Path!TypeOK, Holding, Path!PathAssumption
<1>3. queued' \in 0 .. Depth /\ queued' < Depth
  BY <1>1, <1>2
<1>4. attempt[s] \in 1 .. Attempts /\ attempt \in [Senders -> 1 .. Attempts]
  BY <1>1 DEF Path!TypeOK
<1>5. CASE Path!LastAttempt(s)
  <2>1. Path!Return(s) /\ open' = IF done THEN open ELSE open - taken - 1
    BY <1>2, <1>5 DEF Path!Take, Path!Count
  <2>2. /\ Cardinality(Path!Sending') = Cardinality(Path!Sending) - 1
        /\ Cardinality(Path!Sending) > 0
    BY <1>1, <2>1, SendingLeaves DEF Path!Return
  <2> HIDE DEF taken
  <2>3. open' \in Nat /\ Balance'
    <3>1. CASE done
      BY <1>1, <2>1, <3>1 DEF Balance, Path!TypeOK
    <3>2. CASE ~done
      <4>1. open = queued + Cardinality(Path!Sending) + Holding
        BY <1>1, <3>2 DEF Balance
      <4>2. open' = queued' + Cardinality(Path!Sending') + Holding
        BY <1>1, <1>2, <2>1, <2>2, <3>2, <4>1
      <4>3. open' \in Nat
        BY <1>2, <1>3, <2>2, <4>2
      <4> QED
        BY <1>2, <4>2, <4>3 DEF Balance
    <3> QED
      BY <3>1, <3>2
  <2>4. Path!TypeOK'
    BY <1>1, <1>2, <1>3, <2>1, <2>3 DEF Path!TypeOK, Path!Return, Path!PathAssumption
  <2>5. RoomWasMade'
    BY <1>1, <1>3, <1>4, <2>1 DEF RoomWasMade, Path!Return, Path!TypeOK
  <2> QED
    BY <2>3, <2>4, <2>5 DEF PathIInv
<1>6. CASE ~Path!LastAttempt(s)
  <2>1. /\ sender' = [sender EXCEPT ![s] = "put"]
        /\ attempt' = [attempt EXCEPT ![s] = @ + 1]
        /\ open' = IF done THEN open ELSE open - taken
    BY <1>2, <1>6 DEF Path!Take, Path!Count
  <2>2. Path!Sending' = Path!Sending
    BY <1>1, <2>1, SendingStays
  <2>3. attempt[s] + 1 \in 1 .. Attempts
    BY <1>2, <1>4, <1>6 DEF Path!LastAttempt
  <2> HIDE DEF taken
  <2>4. open' \in Nat /\ Balance'
    <3>1. CASE done
      BY <1>1, <2>1, <3>1 DEF Balance, Path!TypeOK
    <3>2. CASE ~done
      <4>1. open = queued + Cardinality(Path!Sending) + Holding
        BY <1>1, <3>2 DEF Balance
      <4>2. open' = queued' + Cardinality(Path!Sending) + Holding
        BY <1>1, <1>2, <2>1, <3>2, <4>1
      <4>3. open' \in Nat
        BY <1>2, <1>3, <4>2
      <4> QED
        BY <1>2, <2>2, <4>2, <4>3 DEF Balance
    <3> QED
      BY <3>1, <3>2
  <2>5. Path!TypeOK'
    BY <1>1, <1>3, <1>4, <2>1, <2>3, <2>4 DEF Path!TypeOK
  <2>6. RoomWasMade'
    BY <1>1, <1>3, <1>4, <2>1 DEF RoomWasMade, Path!TypeOK
  <2> QED
    BY <2>4, <2>5, <2>6 DEF PathIInv
<1> QED
  BY <1>5, <1>6

LEMMA PathWriterSteps ==
  ASSUME Path!PathAssumption, PathIInv,
         Path!Receive \/ Path!Handled \/ Path!WriteFails \/ Path!Close
  PROVE  PathIInv'
<1>1. /\ Path!TypeOK /\ Balance /\ RoomWasMade
      /\ UNCHANGED <<sender, attempt, overtaken>> /\ queued' <= queued
  BY DEF PathIInv, Path!Receive, Path!Handled, Path!WriteFails, Path!Close, Path!TypeOK
<1>2. /\ queued \in Int /\ Cardinality(Path!Sending) \in Int /\ open \in Int
      /\ Depth \in Nat /\ queued <= Depth /\ queued >= 0
      /\ Cardinality(Path!Sending) >= 0 /\ Path!Sending' = Path!Sending
  BY <1>1, SendingFinite DEF Path!TypeOK, Path!PathAssumption, Path!Sending
<1>3. Balance' /\ open' \in Nat
  <2>1. CASE Path!Receive
    BY <1>1, <1>2, <2>1 DEF Path!Receive, Path!TypeOK, Balance, Holding
  <2>2. CASE Path!Handled
    BY <1>1, <1>2, <2>2 DEF Path!Handled, Path!Count, Path!TypeOK, Balance, Holding
  <2>3. CASE Path!WriteFails \/ Path!Close
    BY <1>1, <1>2, <2>3 DEF Path!WriteFails, Path!Close, Path!TypeOK, Balance, Holding
  <2> QED
    BY <2>1, <2>2, <2>3
<1>4. Path!TypeOK'
  <2>1. queued' \in 0 .. Depth
    BY <1>1, <1>2 DEF Path!TypeOK, Path!Receive, Path!Handled, Path!WriteFails, Path!Close
  <2>2. done' \in BOOLEAN /\ writer' \in {"select", "holding", "ended"}
    BY <1>1 DEF Path!TypeOK, Path!Receive, Path!Handled, Path!WriteFails, Path!Close
  <2> QED
    BY <1>1, <1>3, <2>1, <2>2 DEF Path!TypeOK
<1>5. queued' \in Int
  BY <1>4 DEF Path!TypeOK
<1>6. RoomWasMade'
  BY <1>1, <1>2, <1>5 DEF RoomWasMade
<1> QED
  BY <1>3, <1>4, <1>6 DEF PathIInv

LEMMA PathNext ==
  ASSUME Path!PathAssumption, PathIInv, [Path!Next]_(Path!pathVars)
  PROVE  PathIInv'
<1>1. CASE UNCHANGED Path!pathVars
  BY <1>1 DEF PathIInv, Path!TypeOK, Balance, Holding, RoomWasMade, Path!Sending, Path!pathVars
<1> QED
  BY <1>1, PathSend, PathPut, PathTake, PathWriterSteps DEF Path!Next

(* Send gives its own frame up only for newer ones, and no frame of an     *)
(* open path is lost uncounted, for any number of goroutines and any size  *)
(* of the channel (pathwriter.go:52-71, 91-95).                            *)
THEOREM OldestGo ==
  ASSUME Path!PathAssumption
  PROVE  Path!Spec => []TheOldestGo
<1>1. Path!Init => PathIInv
  BY PathInit
<1>2. PathIInv /\ [Path!Next]_(Path!pathVars) => PathIInv'
  BY PathNext
<1>3. PathIInv => TheOldestGo
  <2> SUFFICES ASSUME PathIInv PROVE TheOldestGo
    OBVIOUS
  <2>1. ASSUME NEW s \in Senders, sender[s] = "take", Path!LastAttempt(s) PROVE overtaken[s]
    BY <2>1 DEF PathIInv, RoomWasMade, Path!LastAttempt, Path!PathAssumption
  <2>2. ~done => open = queued + Cardinality(Path!Sending) + Holding
    BY DEF PathIInv, Balance
  <2>3. Path!Cardinality(Path!Sending) = Cardinality(Path!Sending)
    BY DEF Path!Cardinality, Cardinality, Path!IsFiniteSet, IsFiniteSet
  <2> QED
    BY <2>1, <2>2, <2>3 DEF TheOldestGo, Path!TheOldestGo, Holding
<1> QED
  BY <1>1, <1>2, <1>3, PTL DEF Path!Spec
=============================================================================
