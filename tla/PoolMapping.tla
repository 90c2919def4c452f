----------------------------- MODULE PoolMapping -----------------------------
(***************************************************************************)
(* libwayland, wayland-shm.c: one pool of a client in the compositor, its   *)
(* buffers, and the references by which the compositor keeps pointers into  *)
(* the mapping.  While there are any, a resize, which may move the mapping, *)
(* waits.                                                                   *)
(***************************************************************************)
EXTENDS Integers, FiniteSets

CONSTANTS
  Buffers, None,
  INT32_MAX,
  Numbers,      \* what the client sends
  MaxRefs       \* bound: references of the compositor

\* Where a buffer may lie.
Places == [offset : Nat, height : 1..INT32_MAX, stride : 1..INT32_MAX]

PoolMappingAssumption ==
  /\ IsFiniteSet(Buffers) /\ INT32_MAX \in Nat \ {0}
  /\ Numbers \subseteq (-INT32_MAX - 1)..INT32_MAX /\ MaxRefs \in Nat
  /\ None \notin Places

VARIABLES
  pool,        \* "none", "live", "freed"
  resource,    \* the client's object is there
  internal_refcount, external_refcount,
  size, new_size,
  data,        \* the place of the mapping: a number for every place
  pointer,     \* the place that the compositor knows of while it holds a reference
  buffer,      \* of each buffer: None, or where it lies
  fd,          \* "ours", "closed", "closed twice"
  asked,       \* the size that the client has asked for
  legal,       \* so far the client has asked for nothing that it may not
  referenced,  \* so far the compositor has taken a reference
  error        \* the connection ends

vars == <<pool, resource, internal_refcount, external_refcount, size, new_size, data, pointer, buffer, fd, asked, legal, referenced, error>>
refcounts == <<internal_refcount, external_refcount>>

Init ==
  /\ pool = "none" /\ resource = FALSE /\ internal_refcount = 0 /\ external_refcount = 0
  /\ size = 0 /\ new_size = 0 /\ data = 0 /\ pointer = None
  /\ buffer = [b \in Buffers |-> None] /\ fd = "ours"
  /\ asked = 0 /\ legal = TRUE /\ referenced = FALSE /\ error = FALSE
------------------------------------------------------------------------------
Wrapped(n) == ((n + INT32_MAX + 1) % (2 * INT32_MAX + 2)) - INT32_MAX - 1

\* Mutant: the descriptor of a pool that is mapped stays open.
LeftOpen == UNCHANGED fd

Closed == fd' = IF fd = "ours" THEN "closed" ELSE "closed twice"

\* shm_create_pool(); mmap() or the allocation of the resource may fail.
CreatePool(n) ==
  /\ pool = "none" /\ ~error /\ fd = "ours"
  /\ Closed
  /\ \/ /\ n <= 0 /\ error' = TRUE /\ legal' = FALSE
        /\ UNCHANGED <<pool, resource, refcounts, size, new_size, data, asked>>
     \/ /\ n > 0
        /\ error' = TRUE
        /\ UNCHANGED <<pool, resource, refcounts, size, new_size, data, asked>> /\ legal' = FALSE   \* no mapping, no memory
     \/ /\ n > 0
        /\ pool' = "live" /\ resource' = TRUE /\ internal_refcount' = 1 /\ external_refcount' = 0
        /\ size' = n /\ new_size' = n /\ data' = 1 /\ asked' = n
        /\ UNCHANGED <<legal, error>>
  /\ UNCHANGED <<pointer, buffer, referenced>>

\* Mutant: the product is not looked at for an overflow.
Unwatched(offset, width, height, stride) ==
  offset < 0 \/ width <= 0 \/ height <= 0 \/ stride < width \/ offset > Wrapped(size - Wrapped(stride * height))

\* Mutant: the last byte of the pool is out of bounds.
InvalidAtEnd(offset, width, height, stride) ==
  \/ offset < 0 \/ width <= 0 \/ height <= 0 \/ stride < width
  \/ INT32_MAX \div stride < height
  \/ offset >= size - stride * height

Invalid(offset, width, height, stride) ==
  \/ offset < 0 \/ width <= 0 \/ height <= 0 \/ stride < width
  \/ INT32_MAX \div stride < height
  \/ offset > size - stride * height

Inside(offset, height, stride, n) == offset >= 0 /\ offset + stride * height <= n

\* shm_pool_create_buffer()
CreateBuffer(b, offset, width, height, stride) ==
  /\ resource /\ ~error /\ buffer[b] = None
  /\ IF Invalid(offset, width, height, stride)
       THEN /\ error' = TRUE
            /\ legal' = (legal /\ Inside(offset, height, stride, asked) /\ 0 < width /\ width <= stride /\ 0 < height)
            /\ UNCHANGED <<internal_refcount, buffer>>
       ELSE /\ buffer' = [buffer EXCEPT ![b] = [offset |-> offset, height |-> height, stride |-> stride]]
            /\ internal_refcount' = internal_refcount + 1
            /\ UNCHANGED <<error, legal>>
  /\ UNCHANGED <<pool, resource, external_refcount, size, new_size, data, pointer, fd, asked, referenced>>

\* The allocation fails.
BufferFails == resource /\ ~error /\ error' = TRUE /\ legal' = FALSE
  /\ UNCHANGED <<pool, resource, refcounts, size, new_size, data, pointer, buffer, fd, asked, referenced>>

Shrinks(n) == n < size

\* shm_pool_finish_resize(): the mapping grows, and moves or not, or mremap() fails.
FinishResize(n) ==
  \/ size = n /\ UNCHANGED <<size, data, error>>
  \/ /\ size # n /\ size' = n
     /\ data' \in {data, 3 - data} /\ UNCHANGED error
  \/ size # n /\ UNCHANGED <<size, data>> /\ error' = (error \/ resource)

\* Mutant: the mapping is made larger at once.
AtOnce == TRUE

MayMove == external_refcount = 0

\* shm_pool_resize()
Resize(n) ==
  /\ resource /\ ~error
  /\ IF Shrinks(n)
       THEN /\ error' = TRUE /\ legal' = (legal /\ n >= asked)
            /\ UNCHANGED <<new_size, size, data, asked>>
       ELSE /\ new_size' = n /\ asked' = n
            /\ IF MayMove THEN FinishResize(n) ELSE UNCHANGED <<size, data, error>>
            /\ legal' = (legal /\ n >= asked /\ ~error')
  /\ UNCHANGED <<pool, resource, refcounts, pointer, buffer, fd, referenced>>

\* Mutant: the last external reference frees nothing.
ExternalIgnored == internal_refcount' = 0

NoneLeft == internal_refcount' + external_refcount' = 0

FreeIfUnused == pool' = IF NoneLeft THEN "freed" ELSE pool

\* destroy_buffer()
DestroyBuffer(b) ==
  /\ buffer[b] # None
  /\ buffer' = [buffer EXCEPT ![b] = None]
  /\ internal_refcount' = internal_refcount - 1 /\ UNCHANGED external_refcount
  /\ FreeIfUnused
  /\ UNCHANGED <<resource, size, new_size, data, pointer, fd, asked, legal, referenced, error>>

\* destroy_pool(), by request or when the client is destroyed
DestroyPool ==
  /\ resource /\ resource' = FALSE
  /\ internal_refcount' = internal_refcount - 1 /\ UNCHANGED external_refcount
  /\ FreeIfUnused
  /\ UNCHANGED <<size, new_size, data, pointer, buffer, fd, asked, legal, referenced, error>>

\* wl_shm_buffer_ref_pool(), and then wl_shm_buffer_get_data()
RefPool ==
  /\ external_refcount < MaxRefs /\ \E b \in Buffers : buffer[b] # None
  /\ external_refcount' = external_refcount + 1
  /\ pointer' = data /\ referenced' = TRUE
  /\ UNCHANGED <<pool, resource, internal_refcount, size, new_size, data, buffer, fd, asked, legal, error>>

\* wl_shm_pool_unref()
UnrefPool ==
  /\ external_refcount > 0
  /\ external_refcount' = external_refcount - 1 /\ UNCHANGED internal_refcount
  /\ IF external_refcount' = 0 THEN FinishResize(new_size) /\ pointer' = None
     ELSE UNCHANGED <<size, data, error, pointer>>
  /\ legal' = (legal /\ error' = error)
  /\ FreeIfUnused
  /\ UNCHANGED <<resource, new_size, buffer, fd, asked, referenced>>

Next ==
  \/ \E n \in Numbers : CreatePool(n) \/ Resize(n)
  \/ \E b \in Buffers :
       DestroyBuffer(b) \/ \E o, w, h, s \in Numbers : CreateBuffer(b, o, w, h, s)
  \/ BufferFails \/ DestroyPool \/ RefPool \/ UnrefPool

Spec == Init /\ [][Next]_vars
------------------------------------------------------------------------------
Alive == {b \in Buffers : buffer[b] # None}

CountsOK ==
  /\ pool \in {"none", "live", "freed"} /\ resource \in BOOLEAN
  /\ internal_refcount \in 0..(1 + Cardinality(Buffers)) /\ external_refcount \in 0..MaxRefs

SizesOK ==
  /\ size \in 0..INT32_MAX /\ new_size \in 0..INT32_MAX /\ asked \in 0..INT32_MAX
  /\ data \in 0..2 /\ (pool # "none" => data # 0)

TypeOK ==
  /\ CountsOK
  /\ SizesOK
  /\ pointer \in {None} \cup 0..2
  /\ buffer \in [Buffers -> {None} \cup Places]
  /\ fd \in {"ours", "closed", "closed twice"} /\ legal \in BOOLEAN
  /\ referenced \in BOOLEAN /\ error \in BOOLEAN

\* The pool is there exactly as long as its object, a buffer or a reference of the
\* compositor is (shm_pool_unref).
FreedWithLast ==
  /\ internal_refcount = Cardinality(Alive) + (IF resource THEN 1 ELSE 0)
  /\ pool # "none" => (pool = "freed" <=> ~resource /\ Alive = {} /\ external_refcount = 0)

\* Every buffer lies inside the mapping, whatever is resized later, and whatever numbers
\* it was made with.
BuffersInside == \A b \in Alive : Inside(buffer[b].offset, buffer[b].height, buffer[b].stride, size)

\* "If the compositor has taken references on this pool it may be caching pointers into
\* it": the mapping does not move under them.
PointersStay == external_refcount > 0 => pointer = data

\* The descriptor of a pool is closed once, whatever fails.
FdClosedOnce == fd # "closed twice" /\ (pool # "none" \/ error => fd = "closed")

\* A client whose requests are all within the pool as it has asked for is not refused:
\* the request "will cause the server to remap the backing memory for the pool".  That
\* is so until the compositor takes its first reference: a buffer in the new part of a
\* pool whose resize waits for a reference is refused.
LegalNotRefused == error /\ ~referenced => ~legal

\* A resize that waits makes the mapping larger; and what a lawful client has asked
\* for, it has, as long as no reference has made it wait.
SizesAgree ==
  /\ pool = "none" => ~resource /\ Alive = {} /\ external_refcount = 0
  /\ size <= new_size
  /\ external_refcount > 0 => referenced
  /\ ~referenced /\ legal /\ resource => asked = size

\* The inductive invariant.
Inv ==
  /\ TypeOK /\ FreedWithLast /\ BuffersInside /\ PointersStay /\ FdClosedOnce
  /\ SizesAgree /\ LegalNotRefused
==============================================================================
