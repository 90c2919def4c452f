---------------------------------- MODULE MCTools ----------------------------------
(***************************************************************************)
(* Programs and libraries beside the protocol: cursor themes, cursor files *)
(* and their images in a pool, and the scanner's checks of a protocol      *)
(* file.  One of the components runs in a behaviour.                       *)
(***************************************************************************)
EXTENDS Integers, Sequences, TLC

CONSTANTS a, b, d, x, Empty, Absent, Wrong, shm, pool

VARIABLES
  part,    \* the component that runs in this behaviour
  files, index, name, stage, stack, cursors,
  file_file, file_size, status, file_images,
  images_size, images_used, images_file, images_server, images_mapped,
  images_images, images_tries,
  unmapped_size, unmapped_used, unmapped_file, unmapped_server, unmapped_mapped,
  unmapped_images, unmapped_tries,
  nodes, open, interface, message, enumeration, entry, describes, result

lookupVars == <<files, index, name, stage, stack, cursors>>
fileVars == <<file_file, file_size, status, file_images>>
imagesVars == <<images_size, images_used, images_file, images_server,
  images_mapped, images_images, images_tries>>
unmappedVars == <<unmapped_size, unmapped_used, unmapped_file, unmapped_server,
  unmapped_mapped, unmapped_images, unmapped_tries>>
checkedVars == <<nodes, open, interface, message, enumeration, entry, describes,
  result>>

\* One message with one argument, and an enumeration with an entry for each of two
\* interfaces.
Few == [request |-> 1, arg |-> 1, enum |-> 2, entry |-> 2, protocol |-> 2, interface |-> 2]

\* As many as there is room for.
Many ==
  [request |-> 6, event |-> 6, enum |-> 6, entry |-> 6, description |-> 6,
   protocol |-> 6, interface |-> 6]

Lookup == INSTANCE CursorThemes WITH
  Themes <- {a, b, d}, Default <- d, Dirs <- 1, Cursors <- {x}, MaxInherits <- 2
Paths == INSTANCE CursorThemes WITH
  Themes <- {a, d}, Default <- d, Dirs <- 2, Cursors <- {x}, MaxInherits <- 1
File == INSTANCE XcursorFile WITH
  file <- file_file, size <- file_size, images <- file_images, MaxToc <- 3,
  Sizes <- {0, 1, 2, 3}
Images == INSTANCE CursorPool WITH
  size <- images_size, used <- images_used, file <- images_file,
  server <- images_server, mapped <- images_mapped, images <- images_images,
  tries <- images_tries, InitSize <- 2, Lengths <- {1, 3, 8}, MaxImages <- 4,
  MaxTries <- 5, MapFails <- FALSE
Unmapped == INSTANCE CursorPool WITH
  size <- unmapped_size, used <- unmapped_used, file <- unmapped_file,
  server <- unmapped_server, mapped <- unmapped_mapped, images <- unmapped_images,
  tries <- unmapped_tries, InitSize <- 2, Lengths <- {1, 3, 8}, MaxImages <- 4,
  MaxTries <- 5, MapFails <- TRUE
Checked == INSTANCE ScannerParse WITH
  Elements <- {"request", "event", "enum", "entry", "description"}, Names <- {shm},
  Begins <- {<<shm, shm>>}, Versions <- {Absent, Wrong, 1, 2},
  Messages <- {"destroy", "other"} \X BOOLEAN, AllowNull <- BOOLEAN, MaxOf <- Many,
  ArgTypes <- {},
  Described <- {"protocol", "interface", "request", "event", "enum", "entry"},
  MaxNodes <- 6
Bitfields == INSTANCE ScannerParse WITH
  Elements <- {"request", "arg", "enum", "entry"}, Names <- {shm, pool},
  Begins <- {<<shm, shm>>, <<pool, pool>>}, Versions <- {Absent},
  Messages <- {<<"other", FALSE>>}, AllowNull <- BOOLEAN, MaxOf <- Few,
  ArgTypes <- {"int", "uint", "object"}, Described <- {}, MaxNodes <- 9

ASSUME MCToolsAssumption ==
  /\ Lookup!CursorThemesAssumption
  /\ Paths!CursorThemesAssumption
  /\ File!XcursorFileAssumption
  /\ Images!CursorPoolAssumption
  /\ Unmapped!CursorPoolAssumption
  /\ Checked!ScannerParseAssumption
  /\ Bitfields!ScannerParseAssumption

\* The parts that do not run stand in an initial state.
Init ==
  /\ part \in {"lookup", "paths", "file", "images", "unmapped", "checked",
       "bitfields"}
  /\ IF part = "lookup" THEN Lookup!Init ELSE IF part = "paths" THEN Paths!Init ELSE
       /\ files = [p \in {} |-> {}]
       /\ index = [p \in {} |-> <<>>]
       /\ name = a
       /\ stage = "named"
       /\ stack = <<>>
       /\ cursors = <<>>
  /\ IF part = "file" THEN File!Init ELSE
       /\ file_file = [magic |-> TRUE, ntoc |-> 0, tocs |-> <<>>]
       /\ file_size = 0
       /\ status = "unread"
       /\ file_images = <<>>
  /\ Images!Init
  /\ Unmapped!Init
  /\ IF part = "bitfields" THEN Bitfields!Init ELSE Checked!Init

Only(p) ==
  /\ part = p /\ UNCHANGED part
  /\ IF p \in {"lookup", "paths"} THEN TRUE ELSE UNCHANGED lookupVars
  /\ IF p = "file" THEN TRUE ELSE UNCHANGED fileVars
  /\ IF p = "images" THEN TRUE ELSE UNCHANGED imagesVars
  /\ IF p = "unmapped" THEN TRUE ELSE UNCHANGED unmappedVars
  /\ IF p \in {"checked", "bitfields"} THEN TRUE ELSE UNCHANGED checkedVars

Next ==
  \/ Only("lookup") /\ Lookup!Next
  \/ Only("paths") /\ Paths!Next
  \/ Only("file") /\ File!Next
  \/ Only("images") /\ Images!Next
  \/ Only("unmapped") /\ Unmapped!Next
  \/ Only("checked") /\ Checked!Next
  \/ Only("bitfields") /\ Bitfields!Next

vars == <<part, lookupVars, fileVars, imagesVars, unmappedVars, checkedVars>>

Spec == Init /\ [][Next]_vars

LookupFairness ==
  WF_lookupVars(part = "lookup" /\ Lookup!Next)
------------------------------------------------------------------------------
\* Themes that inherit one another are all searched, the theme's own cursors
\* first; a file gives all frames of the nearest size in order, or none; and
\* images lie apart, inside the pool as the compositor has it.
CursorsSound ==
  /\ part = "lookup" => Lookup!DepthBounded
  /\ part = "lookup" => Lookup!NothingLeftOut
  /\ part = "lookup" => Lookup!OwnComesFirst
  /\ part = "paths" => Paths!TypeOK
  /\ part = "paths" => Paths!NothingLeftOut
  /\ part = "paths" => Paths!OwnComesFirst
  /\ File!TypeOK
  /\ File!NearestSize
  /\ File!AllFramesInOrder
  /\ File!SoundIsLoaded
  /\ File!OnlySound
  /\ Images!TypeOK
  /\ Images!ImagesApart
  /\ Images!ImagesInPool
  /\ Unmapped!ImagesApart
  /\ Unmapped!ImagesInPool

\* A protocol file that is accepted has its descriptions, versions and
\* enumerations where they belong, stubs can be emitted for it, and no file is
\* refused but for what the scanner means to refuse.
ProtocolsSound ==
  /\ part = "checked" => Checked!TypeOK
  /\ part = "checked" => Checked!DescriptionsInPlace
  /\ part = "checked" => Checked!VersionsFit
  /\ part = "checked" => Checked!StubsCanBeEmitted
  /\ part = "bitfields" => Bitfields!BitfieldsOnUint
  /\ part = "bitfields" => Bitfields!RefusedOnlyForMeant

\* The search through themes ends, whatever cycles they form, and the pool never
\* shrinks.
CursorsLoad ==
  /\ (part = "lookup" /\ LookupFairness => Lookup!Terminates)
  /\ Images!NeverShrinks

==============================================================================
