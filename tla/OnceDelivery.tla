---------------------------- MODULE OnceDelivery ----------------------------
(***************************************************************************)
(* What the receiver of a multipath stream promises: every frame is handed *)
(* over at most once, in any order, and never one that lies Window or more *)
(* behind a frame already handed over.                                     *)
(***************************************************************************)
EXTENDS Integers

CONSTANTS
  Frames,   \* the positions of the frames in the sender's order
  Window    \* how far behind the newest delivered frame a late one may be

VARIABLE count   \* how often each frame was handed over

Init == count = [i \in Frames |-> 0]

(* Frame i is new and not too far behind any frame delivered so far. *)
Deliver(i) ==
  /\ count[i] = 0
  /\ \A j \in Frames : count[j] > 0 => i > j - Window
  /\ count' = [count EXCEPT ![i] = 1]

Next == count' # count /\ \E i \in Frames : Deliver(i)

Spec == Init /\ [][Next]_count
=============================================================================
