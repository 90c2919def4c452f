----------------------------- MODULE CursorPool -----------------------------
(***************************************************************************)
(* The shared memory of a cursor theme (cursor/wayland-cursor.c and        *)
(* cursor/os-compatibility.c): images are put one after the other into a   *)
(* pool that grows when it is full - the file first, then the compositor's *)
(* view of the pool, then the mapping - and each step may fail.  The       *)
(* requests reach the compositor in order, so that it knows at each of     *)
(* them what it was told before.                                           *)
(***************************************************************************)
EXTENDS Naturals, Sequences

CONSTANTS
    InitSize,   \* the size of the pool that a theme starts with
    Lengths,    \* the lengths of images
    MaxImages,  \* bound: the images that are loaded
    MaxTries,   \* bound: the images that are tried
    MapFails    \* whether mmap may fail

CursorPoolAssumption ==
    /\ InitSize \in Nat \ {0}
    /\ Lengths \subseteq Nat \ {0}
    /\ MaxImages \in Nat /\ MaxTries \in Nat
    /\ MapFails \in BOOLEAN

VARIABLES
    size,       \* pool->size
    used,       \* pool->used
    file,       \* the length of the file
    server,     \* the size of the pool, as the compositor was told
    mapped,     \* the length of the mapping, 0 if mmap has failed
    images,     \* the offset and the length of each image, and its wl_buffer
    tries       \* how many images were tried

vars == <<size, used, file, server, mapped, images, tries>>

Image == [offset : Nat, length : Lengths, buffer : BOOLEAN]

TypeOK ==
    /\ size \in Nat /\ used \in 0 .. size /\ file \in Nat /\ server \in Nat /\ mapped \in Nat
    /\ images \in Seq(Image) /\ Len(images) <= MaxImages
    /\ tries \in 0 .. MaxTries

\* shm_pool_create.
Init ==
    /\ size = InitSize /\ file = InitSize /\ server = InitSize /\ mapped = InitSize
    /\ used = 0
    /\ images = <<>>
    /\ tries = 0

Fits(length) == used + length <= size

AddImage(length) ==
    images' = Append(images, [offset |-> used, length |-> length, buffer |-> FALSE])

Try == tries < MaxTries /\ tries' = tries + 1

\* Mutant: an image counts as one.
UsedOneImage(length) == used + 1

UsedAfter(length) == used + length

\* shm_pool_allocate, and the pixels are copied there; without a mapping
\* that ends the process.
Allocate(length) ==
    /\ Try
    /\ Len(images) < MaxImages
    /\ Fits(length)
    /\ mapped # 0
    /\ AddImage(length)
    /\ used' = UsedAfter(length)
    /\ UNCHANGED <<size, file, server, mapped>>

\* Mutant: the pool grows to the image's size.
JustThis(length) == length

Grown(length) == 2 * size + length

\* Mutant: the file stays as long as it is.
ExtendedNot(length) == file

\* posix_fallocate makes the file longer and never shorter.
Extended(length) == IF Grown(length) > file THEN Grown(length) ELSE file

AllocateGrows(length) ==
    /\ Try
    /\ Len(images) < MaxImages
    /\ ~Fits(length)
    /\ file' = Extended(length)
    /\ server' = Grown(length)
    /\ size' = Grown(length)
    /\ mapped' = Grown(length)
    /\ AddImage(length)
    /\ used' = UsedAfter(length)

\* There is no space for the file: the image is not loaded.
NoSpace(length) ==
    /\ Try
    /\ ~Fits(length)
    /\ UNCHANGED <<size, used, file, server, mapped, images>>

\* The file is longer and the compositor told so when the mapping fails.
NoMapping(length) ==
    /\ Try
    /\ MapFails
    /\ ~Fits(length)
    /\ file' = Extended(length)
    /\ server' = Grown(length)
    /\ mapped' = 0
    /\ UNCHANGED <<size, used, images>>

\* wl_cursor_image_get_buffer, at any time after the theme was loaded.
GetBuffer(k) ==
    /\ ~images[k].buffer
    /\ images' = [images EXCEPT ![k].buffer = TRUE]
    /\ UNCHANGED <<size, used, file, server, mapped, tries>>

Next ==
    \/ \E length \in Lengths :
        Allocate(length) \/ AllocateGrows(length) \/ NoSpace(length) \/ NoMapping(length)
    \/ \E k \in DOMAIN images : GetBuffer(k)

Spec == Init /\ [][Next]_vars

-----------------------------------------------------------------------------

End(i) == i.offset + i.length

(* No two images share a byte of the pool: none changes another when it is *)
(* copied there, however often the pool was moved and grown in between.    *)
ImagesApart == \A j, k \in DOMAIN images : j < k => End(images[j]) <= images[k].offset

(* Every image lies in the pool as the compositor knows it, so that no     *)
(* wl_shm_pool.create_buffer is refused, and in the file, so that neither  *)
(* side faults when it reads it.                                           *)
ImagesInPool == \A k \in DOMAIN images :
    End(images[k]) <= server /\ End(images[k]) <= file

(* A pool is never asked to be smaller, which would end the connection     *)
(* (shm_pool_resize; "This request can only be used to make the pool       *)
(* bigger").  It holds unless MapFails: after a mapping that failed the    *)
(* size is the old one here and the new one there.                         *)
NeverShrinks == [][server' >= server]_vars

=============================================================================
