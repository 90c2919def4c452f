---------------------------- MODULE FrameGeometry ----------------------------
(***************************************************************************)
(* Where the frames of a swap chain lie in its shared memory, in bytes:     *)
(* what SwapChain counts in slots.  renderFrame() computes the size of a    *)
(* frame, mapBuffer() rounds it up to a power of two and lays slot after    *)
(* slot into the pool, and the kernel maps a slot when it begins with a     *)
(* page.  Every slot used so far is out when another one is needed.         *)
(***************************************************************************)
EXTENDS Integers

CONSTANTS
  PixelBytes,    \* four
  U31,           \* the largest u31
  PageBytes,     \* size of a page of memory
  Widths, Heights   \* what the first configure may say

FrameGeometryAssumption ==
  /\ {PixelBytes, U31, PageBytes} \subseteq Nat \ {0}
  /\ Widths \subseteq Nat \ {0} /\ Heights \subseteq Nat \ {0}

VARIABLES
  width, height,      \* the surface, from the first configure
  max_buffer_size,    \* 0 before the first frame
  memory_len,         \* of the pool
  next_frame_index,   \* slots so far
  status              \* "running", or what ended the program

vars == <<width, height, max_buffer_size, memory_len, next_frame_index, status>>

Init ==
  /\ width \in Widths /\ height \in Heights
  /\ max_buffer_size = 0 /\ memory_len = 0 /\ next_frame_index = 0
  /\ status = "running"

FrameBytes == width * height * PixelBytes

Ends(reason) ==
  /\ status' = reason
  /\ UNCHANGED <<width, height, max_buffer_size, memory_len, next_frame_index>>

\* The size does not fit u31 (FrameTooLarge), or no power of two in u31 holds it
\* (Overflow).
FrameTooLarge ==
  /\ status = "running" /\ max_buffer_size = 0
  /\ 2 * FrameBytes > U31 + 1
  /\ Ends("too_large")

\* Mutant: the size stays as it is.
NotRounded(n) == n

\* std.math.ceilPowerOfTwo
CeilPowerOfTwo(n) ==
  LET Powers == {2^k : k \in 0..30} IN
  CHOOSE p \in Powers : p >= n /\ \A q \in Powers : q >= n => p <= q

\* The first frame makes the pool, with room for one slot.
CreatePool ==
  /\ status = "running" /\ max_buffer_size = 0
  /\ 2 * FrameBytes <= U31 + 1
  /\ max_buffer_size' = CeilPowerOfTwo(FrameBytes)
  /\ memory_len' = CeilPowerOfTwo(FrameBytes)
  /\ next_frame_index' = 1
  /\ UNCHANGED <<width, height, status>>

\* Mutant: the pool grows to where the new slot begins.
OneSlotShort == next_frame_index * max_buffer_size

Required == next_frame_index * max_buffer_size + max_buffer_size

\* required_pool_size does not fit u31: the addition traps.
PoolOverflow ==
  /\ status = "running" /\ max_buffer_size > 0
  /\ Required > U31
  /\ Ends("overflow")

Offset(slot) == slot * max_buffer_size

\* mmap() takes no offset inside a page.  The pool has grown by then.
MapFails ==
  /\ status = "running" /\ max_buffer_size > 0
  /\ Required <= U31 /\ Offset(next_frame_index) % PageBytes # 0
  /\ status' = "invalid_offset"
  /\ memory_len' = IF memory_len < Required THEN Required ELSE memory_len
  /\ next_frame_index' = next_frame_index + 1
  /\ UNCHANGED <<width, height, max_buffer_size>>

\* Another slot, for a frame that finds all of them out.
AddSlot ==
  /\ status = "running" /\ max_buffer_size > 0
  /\ Required <= U31 /\ Offset(next_frame_index) % PageBytes = 0
  /\ memory_len' = IF memory_len < Required THEN Required ELSE memory_len
  /\ next_frame_index' = next_frame_index + 1
  /\ UNCHANGED <<width, height, max_buffer_size, status>>

Ended == status # "running" /\ UNCHANGED vars

Next == FrameTooLarge \/ CreatePool \/ PoolOverflow \/ MapFails \/ AddSlot \/ Ended

Spec == Init /\ [][Next]_vars
------------------------------------------------------------------------------
Bytes(slot) == Offset(slot)..(Offset(slot) + FrameBytes - 1)

\* No byte belongs to two frames, none lies outside the pool that the compositor
\* has been told of, and no product leaves u31 (mapBuffer, and the assertion of
\* createBuffer that offset + stride * height <= memory_len).
FramesApart ==
  /\ memory_len <= U31
  /\ \A slot \in 0..(next_frame_index - 1) :
       /\ Bytes(slot) \subseteq 0..(memory_len - 1)
       /\ \A other \in 0..(slot - 1) : Bytes(slot) \cap Bytes(other) = {}

\* A frame of more than half a page never meets an offset that the kernel
\* refuses: its slots are whole pages, or halves of what two of them fill
\* (mapBuffer, line 88).  A smaller one ends the program with its second slot.
LargeFramesMap == status = "invalid_offset" => 2 * FrameBytes <= PageBytes /\ next_frame_index = 2

\* SwapChain's MaxSlots: the pool gives out (2^31 - 1) \div max_buffer_size slots
\* and the next one ends the program, no sooner and no later.
OverflowAtMaxSlots ==
  max_buffer_size > 0 =>
    /\ next_frame_index <= U31 \div max_buffer_size
    /\ status = "overflow" => next_frame_index = U31 \div max_buffer_size
==============================================================================
