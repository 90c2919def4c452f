------------------------------ MODULE ByteQueue ------------------------------
(***************************************************************************)
(* What a buffer of a connection promises: a queue of bytes, whatever the   *)
(* memory behind it looks like.  Bytes are numbered in the order in which   *)
(* they come.                                                               *)
(***************************************************************************)
EXTENDS Naturals, Sequences

CONSTANT Values   \* numbers of bytes, used again and again

VARIABLES
  content,        \* the bytes that are in the buffer
  next            \* number of the next byte

Init == content = <<>> /\ next = 0

\* The next count bytes.
Coming(count) == [i \in 1..count |-> (next + i - 1) % Values]

Put(count) ==
  /\ content' = content \o Coming(count)
  /\ next' = (next + count) % Values

Take(count) ==
  /\ count <= Len(content)
  /\ content' = SubSeq(content, count + 1, Len(content))
  /\ UNCHANGED next

\* What is put or taken shows in the length.
Next ==
  \/ Len(content') >= Len(content) /\ Put(Len(content') - Len(content))
  \/ Len(content') < Len(content) /\ Take(Len(content) - Len(content'))

Spec == Init /\ [][Next]_<<content, next>>
==============================================================================
