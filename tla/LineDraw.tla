------------------------------- MODULE LineDraw -------------------------------
(***************************************************************************)
(* drawPercent() into one slot of the shared memory, frame after frame: the *)
(* slot holds what an earlier frame left in it.  The percentage is the one  *)
(* that parseIncomingMessage() clamped, in hundredths, and the product with *)
(* the width is rounded to f32: a whole number may come out just below and  *)
(* be cut to one less, as 26.25 percent of 1920 does.                       *)
(***************************************************************************)
EXTENDS Integers

CONSTANTS
  MaxWidth, MaxHeight,   \* bounds: the size of the surface
  Percents,              \* percentages of messages, in hundredths
  Colors                 \* colours of rules: red, green, blue and alpha, in this order

LineDrawAssumption ==
  /\ MaxWidth \in Nat \ {0} /\ MaxHeight \in Nat \ {0}
  /\ Percents \subseteq 0..10000
  /\ Colors \subseteq [1..4 -> 0..255]

VARIABLES
  width, height,         \* the surface, from the first configure
  orientation, alignment,
  pixels,                \* the slot: four bytes for each pixel
  frame                  \* percentage and colour of the frame last drawn

vars == <<width, height, orientation, alignment, pixels, frame>>

TRANSPARENT  == <<0, 0, 0, 0>>
OPAQUE_WHITE == <<255, 255, 255, 255>>

\* A new slot is zero.
Init ==
  /\ width \in 1..MaxWidth /\ height \in 1..MaxHeight
  /\ orientation \in {"horizontal", "vertical"} /\ alignment \in {"left", "right", "center"}
  /\ pixels = [i \in 0..(width * height - 1) |-> TRANSPARENT]
  /\ frame = [percent |-> 0, color |-> OPAQUE_WHITE]

\* parseHexColor(): the bytes in the order in which "#RRGGBBAA" has them.
ColorBytes(color) == <<color[1], color[2], color[3], color[4]>>

\* fill_width and fill_height
Fills(extent, percent) ==
  LET fill == (extent * percent) \div 10000
      whole == (extent * percent) % 10000 = 0
  IN {fill} \cup (IF whole /\ percent \notin {0, 10000} THEN {fill - 1} ELSE {})

Start(fill) ==
  CASE alignment = "left"   -> 0
    [] alignment = "right"  -> width - fill
    [] alignment = "center" -> (width - fill) \div 2

\* Mutant: what an earlier frame left in the slot stays.
NotCleared == pixels

Cleared == [i \in DOMAIN pixels |-> TRANSPARENT]

\* A vertical line fills from the top, whatever the alignment.
Filled(fill) ==
  IF orientation = "horizontal"
    THEN {row * width + Start(fill) + x : row \in 0..(height - 1), x \in 0..(fill - 1)}
    ELSE {row * width + x : row \in 0..(fill - 1), x \in 0..(width - 1)}

DrawPercent(percent, color) ==
  /\ \E fill \in Fills(IF orientation = "horizontal" THEN width ELSE height, percent) :
       pixels' = [i \in DOMAIN pixels |->
                    IF i \in Filled(fill) THEN ColorBytes(color) ELSE Cleared[i]]
  /\ frame' = [percent |-> percent, color |-> color]
  /\ UNCHANGED <<width, height, orientation, alignment>>

Next == \E percent \in Percents, color \in Colors : DrawPercent(percent, color)

Spec == Init /\ [][Next]_vars
------------------------------------------------------------------------------
Painted(x, y) == pixels[y * width + x] # TRANSPARENT

\* How much of the line is painted, and how much is not before and after it.
Length == IF orientation = "horizontal" THEN width ELSE height
PaintedAt == {k \in 0..(Length - 1) : IF orientation = "horizontal" THEN Painted(k, 0) ELSE Painted(0, k)}
Before == {k \in 0..(Length - 1) : \A p \in PaintedAt : k < p}
After  == {k \in 0..(Length - 1) : \A p \in PaintedAt : k > p}

\* The slot shows the last message and nothing of the frames before it: one run
\* of pixels in the message's colour across the whole thickness, as long as the
\* percentage of the line to within a pixel, at the end or in the middle that
\* the alignment says (drawPercent, mapBuffer's reused slots).
LineShowsMessage ==
  LET size(set) == IF set = {} THEN 0
                   ELSE (CHOOSE k \in set : \A j \in set : j <= k) - (CHOOSE k \in set : \A j \in set : k <= j) + 1
      fill == size(PaintedAt)
  IN /\ \A i \in DOMAIN pixels : pixels[i] \in {TRANSPARENT, ColorBytes(frame.color)}
     /\ \A x \in 0..(width - 1), y \in 0..(height - 1) :
          Painted(x, y) <=> (IF orientation = "horizontal" THEN x ELSE y) \in PaintedAt
     /\ \A a, b \in PaintedAt : a..b \subseteq PaintedAt
     /\ fill * 10000 <= Length * frame.percent /\ Length * frame.percent <= (fill + 1) * 10000
     /\ frame.percent = 10000 => fill = Length
     /\ PaintedAt # {} =>
          CASE orientation = "vertical" \/ alignment = "left" -> Before = {}
            [] orientation = "horizontal" /\ alignment = "right" -> After = {}
            [] OTHER -> size(After) - size(Before) \in {0, 1}

\* The colour of a painted pixel as the compositor reads it: argb8888 is a
\* little-endian word, so blue is its first byte.
Seen(pixel) == [red |-> pixel[3], green |-> pixel[2], blue |-> pixel[1], alpha |-> pixel[4]]

\* The configuration's "#RRGGBB" is the colour on the screen.
ConfiguredColorSeen ==
  \A i \in DOMAIN pixels : pixels[i] # TRANSPARENT =>
    Seen(pixels[i]) = [red |-> frame.color[1], green |-> frame.color[2],
                       blue |-> frame.color[3], alpha |-> frame.color[4]]
==============================================================================
