------------------------------ MODULE SeqWindow ------------------------------
(***************************************************************************)
(* The duplicate window of frame.Receiver (internal/frame/frame.go): a     *)
(* ring bitmap over the last Window sequence numbers of a counter that     *)
(* wraps around, compared with serial-number arithmetic (RFC 1982).        *)
(*                                                                         *)
(* The code uses uint32 counters, int32 distances and a window of 1024, so *)
(* half the sequence space is a whole number of windows (2^31 = Laps *     *)
(* 1024).  The model keeps that relation and leaves both factors open.     *)
(***************************************************************************)
EXTENDS Integers

CONSTANTS
  Window,   \* seqWindow: how many sequence numbers the bitmap remembers
  Laps      \* how many windows half of the sequence space holds

ASSUME SeqWindowAssumption == Window \in Nat \ {0} /\ Laps \in Nat \ {0}

Half     == Laps * Window
SeqSpace == 2 * Half
Seqs     == 0 .. SeqSpace - 1
Slots    == 0 .. Window - 1

(* uint32(n) and int32(n): what is left of a number in 32 bits. *)
Wrap(n)   == n % SeqSpace
Signed(n) == IF Wrap(n) < Half THEN Wrap(n) ELSE Wrap(n) - SeqSpace

Slot(seq) == seq % Window

(* The bitmap is the set of its marked slots. *)
WindowStates == [haveTop : BOOLEAN, top : Seqs, seen : SUBSET Slots]

EmptyWindow == [haveTop |-> FALSE, top |-> 0, seen |-> {}]

(* int32(seq - top).  The code negates it in 32 bits as well, where the    *)
(* smallest number is its own negation.                                    *)
Distance(w, seq) == Signed(seq - w.top)

Newer(w, seq)  == Distance(w, seq) > 0

TooOld(w, seq) == Signed(-Distance(w, seq)) >= Window

\* Variant with a bug: the marks are not looked at.
NeverMarked(w, seq) == FALSE
Marked(w, seq) == Slot(seq) \in w.seen

(* AcceptSeq's answer: deliver the frame or drop it. *)
Fresh(w, seq) ==
  \/ ~w.haveTop
  \/ Newer(w, seq)
  \/ ~TooOld(w, seq) /\ ~Marked(w, seq)

(* The slots still marked once the window has slid up to seq: all those of *)
(* the sequence numbers it steps over are cleared.                         *)
\* Variant with a bug: the slots stepped over keep their marks.
KeepSteppedOver(w, seq) ==
  IF Distance(w, seq) >= Window THEN {} ELSE w.seen
SlideTo(w, seq) ==
  IF Distance(w, seq) >= Window
    THEN {}
    ELSE w.seen \ {Slot(Wrap(w.top + i)) : i \in 1 .. Distance(w, seq)}

(* The window after AcceptSeq. *)
AcceptSeq(w, seq) ==
  IF ~Fresh(w, seq) THEN w
  ELSE IF ~w.haveTop \/ Newer(w, seq)
    THEN [haveTop |-> TRUE,
          top     |-> seq,
          seen    |-> (IF w.haveTop THEN SlideTo(w, seq) ELSE w.seen)
                        \union {Slot(seq)}]
    ELSE [w EXCEPT !.seen = @ \union {Slot(seq)}]
=============================================================================
