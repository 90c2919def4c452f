----------------------------- MODULE StatusMessage -----------------------------
(***************************************************************************)
(* A status message from the arguments of zsendvalue to the ParsedMessage   *)
(* of the renderer: "<percentage> <state>,<state>...\n" in one send(), the  *)
(* first RecvBytes of it in one recv(), the number and at most MaxStates    *)
(* states out of that.                                                     *)
(*                                                                         *)
(* Percentages are in hundredths.  The states of a message are numbered in  *)
(* the order they are given, and are letters only; recv() may keep a part   *)
(* of one, which is then another state's name.                              *)
(***************************************************************************)
EXTENDS Integers, SequencesExt

CONSTANTS
  RecvBytes,     \* size of buf in main()
  MaxStates,     \* size of ParsedMessage.states_buf
  NumberBytes,   \* characters of the number
  Percentages,   \* the numbers that senders give, in hundredths
  NaN,           \* "nan" is a number to parseFloat
  Counts,        \* how many states they give
  Lengths        \* how long these are

StatusMessageAssumption ==
  /\ {RecvBytes, MaxStates, NumberBytes} \subseteq Nat \ {0} /\ NumberBytes < RecvBytes
  /\ Percentages \subseteq Int /\ NaN \notin Percentages
  /\ Counts \subseteq Nat /\ Lengths \subseteq Nat \ {0}

VARIABLES
  number,        \* the message: its percentage,
  count,         \* how many states it has,
  len,           \* and the length of each
  pc,            \* "recv", "tokens" or "done"
  percent,       \* ParsedMessage.percent
  states         \* ParsedMessage.states: the characters kept of each

vars == <<number, count, len, pc, percent, states>>

\* zsendvalue parses the number, and sends whatever states it is given.
Init ==
  /\ number \in Percentages \cup {NaN} /\ count \in Counts /\ len \in Lengths
  /\ pc = "recv" /\ percent = 0 /\ states = <<>>

\* The text before the i-th state: the number, a space, the states before it and
\* a comma after each.
Offset(i) == NumberBytes + 1 + (i - 1) * (len + 1)

\* Mutant: there is no upper limit.
NoUpperLimit(value) == IF value # NaN /\ value < 0 THEN 0 ELSE value

\* std.math.clamp is @max(lower, @min(value, upper)), and @min(nan, upper) is upper.
Clamped(value) ==
  CASE value = NaN -> 10000
    [] value # NaN /\ value < 0 -> 0
    [] value # NaN /\ value > 10000 -> 10000
    [] OTHER -> value

\* A number up to one is a fraction, as NaN is not.
Scaled(value) == IF value # NaN /\ value <= 100 THEN value * 100 ELSE value

\* recv(), and the number.
Recv ==
  /\ pc = "recv"
  /\ percent' = Clamped(Scaled(number))
  /\ pc' = "tokens"
  /\ UNCHANGED <<number, count, len, states>>

\* What recv() keeps of the i-th state.
Kept(i) == IF Offset(i) + len <= RecvBytes THEN len ELSE RecvBytes - Offset(i)

\* Mutant: the last place of states_buf is not used.
LeavesOne == Len(states) < MaxStates - 1

Room == Len(states) < MaxStates

\* One round of the tokenizer's loop.
Token ==
  LET next == Len(states) + 1 IN
  /\ pc = "tokens"
  /\ IF next <= count /\ Offset(next) < RecvBytes /\ Room
       THEN states' = Append(states, Kept(next)) /\ UNCHANGED pc
       ELSE pc' = "done" /\ UNCHANGED states
  /\ UNCHANGED <<number, count, len, percent>>

Done == pc = "done" /\ UNCHANGED vars

Next == Recv \/ Token \/ Done

Spec == Init /\ [][Next]_vars
------------------------------------------------------------------------------
\* drawPercent fills a part of the width it is given, so the percentage it gets
\* is one, whatever a sender writes: width - fill_width does not wrap around.
PercentFitsLine == percent \in 0..10000

\* A message that fits into buf, and has no more states than states_buf takes,
\* arrives whole (main, lines 235 to 240; parseIncomingMessage).
ShortMessageArrives ==
  pc = "done" /\ count <= MaxStates /\ Offset(count + 1) <= RecvBytes + 1
    => states = [i \in 1..count |-> len]

\* The providers send whole percentages, 0 to 100 (scripts/battery sends the
\* capacity the kernel gives), and the README says that the receiver accepts
\* them: the percentage sent is the one that the line shows.
WholePercentShown ==
  pc = "done" /\ number \in {100 * n : n \in 0..100} => percent = number

\* The states that zsendvalue is given are the ones that the rules see.
SentStatesActive == pc = "done" => states = [i \in 1..count |-> len]
==============================================================================
