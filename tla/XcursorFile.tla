---------------------------- MODULE XcursorFile -----------------------------
(***************************************************************************)
(* Reading a cursor file (cursor/xcursor.c, xcursor_xc_file_load_images):  *)
(* of a table of contents, the images whose size is nearest to the one     *)
(* wanted are read, which are the frames of one animation.                 *)
(*                                                                         *)
(* A file is its header and, for each entry of its table, the chunk the    *)
(* entry points to: sound, refused (of another type or size than the table *)
(* says, or with a width, height or hot spot that is out of range), or cut *)
(* off in its pixels.                                                      *)
(***************************************************************************)
EXTENDS Integers, Sequences, FiniteSets, SequencesExt

CONSTANTS
    MaxToc,     \* bound: the entries of a file
    Sizes       \* the sizes in files and those asked for

XcursorFileAssumption == MaxToc \in Nat /\ Sizes \subseteq Nat

Chunks == {"sound", "refused", "cut"}
Entry == [image : BOOLEAN, subtype : Sizes, chunk : Chunks]

VARIABLES
    file,       \* the file
    size,       \* the size that is wanted
    status,     \* "unread", "NULL" or "images"
    images      \* the entries whose images were read

vars == <<file, size, status, images>>

TypeOK ==
    /\ file.magic \in BOOLEAN /\ file.ntoc \in Nat /\ file.tocs \in Seq(Entry)
    /\ size \in Sizes
    /\ status \in {"unread", "NULL", "images"}
    /\ images \in Seq(1 .. file.ntoc)

dist(a, b) == IF a > b THEN a - b ELSE b - a

\* A table that is shorter than the header says is not read.
HeaderRead == file.magic /\ Len(file.tocs) >= file.ntoc

tocs == SubSeq(file.tocs, 1, file.ntoc)

\* Mutant: of two sizes as near the later one wins.
NearerOrEqual(this, best) == dist(this, size) <= dist(best, size)

Nearer(this, best) == dist(this, size) < dist(best, size)

\* xcursor_file_best_size: the best size so far and the images that have it;
\* 0 means none.
Best == FoldLeft(
    LAMBDA b, e :
        IF ~e.image THEN b
        ELSE IF b.size = 0 \/ Nearer(e.subtype, b.size) THEN [size |-> e.subtype, n |-> 1]
        ELSE IF e.subtype = b.size THEN [b EXCEPT !.n = @ + 1]
        ELSE b,
    [size |-> 0, n |-> 0], tocs)

\* Mutant: the first of the images of a size is the second.
CountFromOne(n) == n + 1

CountFrom(n) == n

\* xcursor_find_image_toc: the entry of that size with count others before.
Find(s, count) ==
    LET at == {k \in DOMAIN tocs : tocs[k].image /\ tocs[k].subtype = s}
        fits == {k \in at : Cardinality({j \in at : j < k}) = CountFrom(count)} IN
    IF fits = {} THEN -1 ELSE CHOOSE k \in fits : TRUE

\* Mutant: what is damaged in a chunk is not noticed.
ReadableIfThere(e) == e.chunk # "mismatch"

Readable(e) == e.chunk = "sound"

\* The images are read up to the first that fails.
ReadImages ==
    LET toc(n) == Find(Best.size, n)
        fails == {n \in 0 .. Best.n - 1 : toc(n) < 0 \/ ~Readable(tocs[toc(n)])}
        nimage == IF fails = {} THEN Best.n ELSE CHOOSE n \in fails : \A k \in fails : n <= k
    IN [n \in 1 .. nimage |-> toc(n - 1)]

\* Mutant: some of the images are enough.
AnyImage(nimage) == nimage > 0

AllOrNone(nimage) == nimage = Best.n

Init ==
    /\ \E t \in SeqOf(Entry, MaxToc), m \in BOOLEAN, more \in 0 .. 1 :
        file = [magic |-> m, ntoc |-> Len(t) + more, tocs |-> t]
    /\ size \in Sizes
    /\ status = "unread"
    /\ images = <<>>

LoadImages ==
    /\ status = "unread"
    /\ IF HeaderRead /\ Best.size # 0 /\ AllOrNone(Len(ReadImages))
       THEN /\ status' = "images"
            /\ images' = ReadImages
       ELSE /\ status' = "NULL"
            /\ UNCHANGED images
    /\ UNCHANGED <<file, size>>

Next == LoadImages

Spec == Init /\ [][Next]_vars

-----------------------------------------------------------------------------

Read == status = "images"

\* The sizes of a proper file are not 0.
ImageSizes == {file.tocs[k].subtype : k \in {j \in 1 .. file.ntoc : file.tocs[j].image}}
Proper == HeaderRead /\ ImageSizes # {} /\ 0 \notin ImageSizes

(* The images are of one size, and no other image of the file is nearer to *)
(* the size wanted; of two sizes as near, it is the one that comes first   *)
(* (xcursor_file_best_size).                                               *)
NearestSize == Read /\ Proper => LET s == file.tocs[images[1]].subtype IN
    /\ \A k \in DOMAIN images : file.tocs[images[k]].subtype = s
    /\ \A k \in 1 .. file.ntoc : LET e == file.tocs[k] IN e.image =>
        \/ dist(e.subtype, size) > dist(s, size)
        \/ e.subtype = s
        \/ dist(e.subtype, size) = dist(s, size) /\ images[1] < k

(* The animation has all its frames, once each and in the order of the     *)
(* file, although each is looked for anew from the start of the table      *)
(* (xcursor_find_image_toc).                                               *)
AllFramesInOrder == Read /\ Proper => LET s == file.tocs[images[1]].subtype IN
    /\ \A j, k \in DOMAIN images : j < k => images[j] < images[k]
    /\ {images[k] : k \in DOMAIN images} =
           {k \in 1 .. file.ntoc : file.tocs[k].image /\ file.tocs[k].subtype = s}

(* An animation with one frame that cannot be read is not loaded at all;   *)
(* frames of other sizes do no harm.                                       *)
SoundIsLoaded == status = "NULL" /\ Proper =>
    \E k \in 1 .. file.ntoc : LET e == file.tocs[k] IN
        /\ e.image /\ e.chunk # "sound"
        /\ \A s \in ImageSizes : dist(e.subtype, size) <= dist(s, size)

(* And never a frame that is not sound.                                    *)
OnlySound == Read => \A k \in DOMAIN images : file.tocs[images[k]].chunk = "sound"

=============================================================================
