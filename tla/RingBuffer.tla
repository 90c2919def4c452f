------------------------------ MODULE RingBuffer ------------------------------
(***************************************************************************)
(* libwayland: struct wl_ring_buffer.  head and tail are machine words that *)
(* run on and wrap around; the memory is a power of two of bytes, grows     *)
(* with what is put in and shrinks when little is left.                     *)
(***************************************************************************)
EXTENDS Integers, Sequences

CONSTANTS
  WordBits,      \* bits of size_t
  DefaultBits,   \* WL_BUFFER_DEFAULT_SIZE_POT
  MaxBits,       \* values of max_size_bits: 0 for unlimited, or at least DefaultBits
  Counts,        \* how many bytes are put or read at once
  Values,        \* bytes are numbered modulo this
  Bound          \* bound: bytes in the buffer

RingBufferAssumption ==
  /\ DefaultBits \in Nat /\ WordBits \in Nat /\ Bound \in Nat
  /\ MaxBits \subseteq {0} \cup DefaultBits..WordBits
  /\ Counts \subseteq Nat /\ Values \in Nat \ {0}
  /\ 2 * Bound < 2^WordBits

VARIABLES
  ring,          \* data, head, tail and size_bits
  max_size_bits,
  next           \* number of the next byte that comes

vars == <<ring, max_size_bits, next>>

size_pot(bits) == 2^bits

Word(n) == n % size_pot(WordBits)

capacity(b) == size_pot(b.size_bits)

ring_buffer_mask(b, i) == i % capacity(b)

\* Mutant: the difference of the offsets, which wrap.
SizeOfOffsets(b) == ring_buffer_mask(b, b.head) - ring_buffer_mask(b, b.tail)

ring_buffer_size(b) == Word(b.head - b.tail)

\* n bytes of the memory from an offset on; the offset does not wrap.
Segment(b, offset, n) == [i \in 1..n |-> b.data[offset + i - 1]]

ring_buffer_copy(b, count) ==
  LET from == ring_buffer_mask(b, b.tail)
      left == capacity(b) - from
  IN  IF count <= left
        THEN Segment(b, from, count)
        ELSE Segment(b, from, left) \o Segment(b, 0, count - left)

\* get_max_size_bits_for_size(): the smallest power of two, at least the default.
BitsToHold(net_size) ==
  CHOOSE bits \in DefaultBits..WordBits :
    /\ size_pot(bits) >= net_size
    /\ \A less \in DefaultBits..(bits - 1) : size_pot(less) < net_size

\* ring_buffer_get_bits_for_size(): no more than the maximum.
BitsFor(net_size, max) ==
  IF max > 0 /\ BitsToHold(net_size) > max THEN max ELSE BitsToHold(net_size)

\* Mutant: new memory, without what was in the old.
NotCopied(b) == <<>>

Kept(b) == ring_buffer_copy(b, ring_buffer_size(b))

ring_buffer_allocate(b, bits) ==
  [data |-> [i \in 0..(size_pot(bits) - 1) |-> IF i < Len(Kept(b)) THEN Kept(b)[i + 1] ELSE 0],
   size_bits |-> bits, head |-> ring_buffer_size(b), tail |-> 0]

\* Mutant: the maximum is for what there was before.
FitsBefore(b, count, max) == ring_buffer_size(b) <= size_pot(BitsFor(ring_buffer_size(b), max))

Fits(b, count, max) == ring_buffer_size(b) + count <= size_pot(BitsFor(ring_buffer_size(b) + count, max))

\* ring_buffer_ensure_space(), where count more bytes fit: more memory, or less if
\* less will do.
Ensured(b, count, max) ==
  LET bits == BitsFor(ring_buffer_size(b) + count, max) IN
  IF bits = b.size_bits THEN b ELSE ring_buffer_allocate(b, bits)

Coming(count) == [i \in 1..count |-> (next + i - 1) % Values]

\* Bytes from an offset on; past the end of the memory they go to its start.
Written(b, offset, bytes) ==
  LET left == capacity(b) - offset IN
  [i \in DOMAIN b.data |->
     IF i >= offset /\ i < offset + Len(bytes) THEN bytes[i - offset + 1]
     ELSE IF i < Len(bytes) - left THEN bytes[i + left + 1]
     ELSE b.data[i]]

ring_buffer_put(b, bytes) ==
  [b EXCEPT !.data = Written(b, ring_buffer_mask(b, b.head), bytes), !.head = Word(@ + Len(bytes))]

\* ring_buffer_put_iov(): offset and length of one or two pieces to read into.
PutIov(b) ==
  LET h == ring_buffer_mask(b, b.head)  t == ring_buffer_mask(b, b.tail) IN
  IF h < t THEN <<[at |-> h, len |-> t - h]>>
  ELSE IF t = 0 THEN <<[at |-> h, len |-> capacity(b) - h]>>
  ELSE <<[at |-> h, len |-> capacity(b) - h], [at |-> 0, len |-> t]>>

\* ring_buffer_get_iov(): where the bytes lie that are to be sent.
GetIov(b) ==
  LET h == ring_buffer_mask(b, b.head)  t == ring_buffer_mask(b, b.tail) IN
  IF t < h THEN <<[at |-> t, len |-> h - t]>>
  ELSE IF h = 0 THEN <<[at |-> t, len |-> capacity(b) - t]>>
  ELSE <<[at |-> t, len |-> capacity(b) - t], [at |-> 0, len |-> h]>>

Length(iov) == IF Len(iov) = 1 THEN iov[1].len ELSE iov[1].len + iov[2].len

\* recvmsg() fills the first bytes of the pieces.
Scattered(b, iov, bytes) ==
  LET first == IF Len(bytes) <= iov[1].len THEN Len(bytes) ELSE iov[1].len IN
  [i \in DOMAIN b.data |->
     IF i >= iov[1].at /\ i < iov[1].at + first THEN bytes[i - iov[1].at + 1]
     ELSE IF i < Len(bytes) - first THEN bytes[first + i + 1]
     ELSE b.data[i]]

\* ring_buffer_is_max_size_reached()
MaxSizeReached == ring_buffer_size(ring) + 1 >= size_pot(BitsFor(ring_buffer_size(ring) + 1, max_size_bits))

Empty(bits) == [data |-> [i \in 0..(size_pot(bits) - 1) |-> 0], head |-> 0, tail |-> 0, size_bits |-> bits]

Init ==
  /\ max_size_bits \in MaxBits
  /\ ring = Empty(DefaultBits) /\ next = 0

\* wl_connection_queue(): ring_buffer_ensure_space() and ring_buffer_put(); E2BIG
\* leaves everything as it is.
Put(count) ==
  /\ ring_buffer_size(ring) + count <= Bound
  /\ Fits(ring, count, max_size_bits)
  /\ ring' = ring_buffer_put(Ensured(ring, count, max_size_bits), Coming(count))
  /\ next' = (next + count) % Values
  /\ UNCHANGED max_size_bits

\* wl_connection_read(), one recvmsg() that finds count bytes.
ReadInto(count) ==
  /\ ring_buffer_size(ring) + count <= Bound
  /\ ~MaxSizeReached /\ Fits(ring, 1, max_size_bits)
  /\ LET b == Ensured(ring, 1, max_size_bits) IN
     /\ count <= Length(PutIov(b))
     /\ ring' = [b EXCEPT !.data = Scattered(b, PutIov(b), Coming(count)), !.head = Word(@ + count)]
  /\ next' = (next + count) % Values
  /\ UNCHANGED max_size_bits

\* wl_connection_consume(), or what sendmsg() took.
Consume(count) ==
  /\ count <= ring_buffer_size(ring)
  /\ ring' = [ring EXCEPT !.tail = Word(@ + count)]
  /\ UNCHANGED <<max_size_bits, next>>

\* wl_connection_set_max_buffer_size(): what does not fit stays as it is.
SetMax(bits) ==
  /\ bits \in MaxBits /\ bits # max_size_bits
  /\ max_size_bits' = bits
  /\ ring' = IF Fits(ring, 0, bits) THEN Ensured(ring, 0, bits) ELSE ring
  /\ UNCHANGED next

Next ==
  \/ \E count \in Counts : Put(count) \/ ReadInto(count) \/ Consume(count)
  \/ \E bits \in MaxBits : SetMax(bits)

Spec == Init /\ [][Next]_vars
------------------------------------------------------------------------------
Content == Kept(ring)

TypeOK ==
  /\ ring.size_bits \in DefaultBits..WordBits /\ max_size_bits \in MaxBits
  /\ ring.data \in [0..(capacity(ring) - 1) -> 0..(Values - 1)]
  /\ {ring.head, ring.tail} \subseteq 0..(size_pot(WordBits) - 1)
  /\ ring_buffer_size(ring) <= capacity(ring)

Queue == INSTANCE ByteQueue WITH content <- Content

\* The ring is a queue of bytes: growing, shrinking, wrapping of the offsets and of
\* head and tail lose, repeat or reorder none (ring_buffer_put, ring_buffer_allocate,
\* wl_connection_read).
QueueSpec == Queue!Spec

Bytes(iov) ==
  Segment(ring, iov[1].at, iov[1].len)
    \o IF Len(iov) = 2 THEN Segment(ring, iov[2].at, iov[2].len) ELSE <<>>

\* What sendmsg() is given is the content of the buffer, and what recvmsg() is given
\* is all of the rest and none of the content, wherever the ring stands
\* (ring_buffer_get_iov, ring_buffer_put_iov).
PiecesCoverRing ==
  /\ ring_buffer_size(ring) > 0 => Bytes(GetIov(ring)) = Content
  /\ ring_buffer_size(ring) < capacity(ring) => Length(PutIov(ring)) = capacity(ring) - ring_buffer_size(ring)

\* Nothing is put into a buffer past its maximum, also when the maximum was lowered
\* under what is there (wl_connection_set_max_buffer_size, ring_buffer_ensure_space).
WithinMax ==
  [][ring_buffer_size(ring') > ring_buffer_size(ring) /\ max_size_bits > 0 =>
       ring_buffer_size(ring') <= size_pot(max_size_bits)]_vars
==============================================================================
