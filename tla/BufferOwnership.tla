--------------------------- MODULE BufferOwnership ---------------------------
(***************************************************************************)
(* What a swap chain promises: every slot of the shared memory belongs to   *)
(* one side at a time.  The program draws into one slot at a time, one that *)
(* is its own; presenting the frame gives the slot to the compositor, and   *)
(* only the compositor gives it back.                                       *)
(***************************************************************************)
CONSTANT Slots      \* the slots of the shared memory

VARIABLE owner      \* the side each slot belongs to, "drawing" while the program draws

Init == owner = [slot \in Slots |-> "program"]

\* The program chooses a slot for the next frame.
Take(slot) ==
  /\ owner[slot] = "program"
  /\ \A other \in Slots : owner[other] # "drawing"
  /\ owner' = [owner EXCEPT ![slot] = "drawing"]

\* It presents the frame it has drawn.
Submit(slot) ==
  /\ owner[slot] = "drawing"
  /\ owner' = [owner EXCEPT ![slot] = "compositor"]

\* The compositor has finished reading.
GiveBack(slot) ==
  /\ owner[slot] = "compositor"
  /\ owner' = [owner EXCEPT ![slot] = "program"]

Next == \E slot \in Slots : Take(slot) \/ Submit(slot) \/ GiveBack(slot)

Spec == Init /\ [][Next]_owner
==============================================================================
