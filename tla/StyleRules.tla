------------------------------ MODULE StyleRules ------------------------------
(***************************************************************************)
(* The colour of the line: the rules that loadStyleConfig() takes from      *)
(* <type>.conf, once, and the one of them that pickColorForStates() chooses *)
(* for each status message.                                                *)
(*                                                                         *)
(* States are compared without regard to case: a state here stands for all  *)
(* the ways to write it.                                                   *)
(***************************************************************************)
EXTENDS Naturals, SequencesExt

CONSTANTS
  States,        \* states that rules and messages name
  Colors,        \* colours that parseHexColor accepts
  White,         \* OPAQUE_WHITE, one of them
  BadColor,      \* a value that it refuses
  NoColor,       \* before the first frame
  MaxLines,      \* bound: lines of the file
  MaxStates      \* bound: states of a key

StyleRulesAssumption ==
  /\ White \in Colors /\ {BadColor, NoColor} \cap Colors = {}
  /\ MaxLines \in Nat /\ MaxStates \in Nat \ {0}

VARIABLES
  file,          \* the lines not yet read
  lines,         \* all the lines, for the properties
  style,         \* StyleConfig: default_color and rules
  active,        \* the states of the message last received
  color          \* the colour drawn with

vars == <<file, lines, style, active, color>>

\* A line sets the default, gives a rule, or is passed over: a comment, a line
\* without a key or a value, a key of separators only.
Keys  == SeqOf(States, MaxStates) \ {<<>>}
Lines == [kind : {"default"}, value : Colors \cup {BadColor}]
           \cup [kind : {"rule"}, states : Keys, value : Colors \cup {BadColor}]
           \cup [kind : {"other"}]

Init ==
  /\ lines \in SeqOf(Lines, MaxLines) /\ file = lines
  /\ style = [default_color |-> White, rules |-> <<>>]
  /\ active = {} /\ color = NoColor

Accepted(line) == line.kind # "other" /\ line.value \in Colors

\* One round of the loop of loadStyleConfig().
LoadLine ==
  /\ file # <<>>
  /\ file' = Tail(file)
  /\ LET line == Head(file) IN
       style' = CASE ~Accepted(line) -> style
                  [] Accepted(line) /\ line.kind = "default" ->
                       [style EXCEPT !.default_color = line.value]
                  [] OTHER ->
                       [style EXCEPT !.rules = Append(@, [states |-> line.states, color |-> line.value])]
  /\ UNCHANGED <<lines, active, color>>

Matches(rule, message) == ToSet(rule.states) \subseteq message

\* Mutant: the rule that matched last wins.
LastMatch(best, rule, message) ==
  IF Matches(rule, message)
    THEN [color |-> rule.color, specificity |-> Len(rule.states)]
    ELSE best

\* A key that repeats a state counts it as often as it stands there.
Better(best, rule, message) ==
  IF Matches(rule, message) /\ Len(rule.states) >= best.specificity
    THEN [color |-> rule.color, specificity |-> Len(rule.states)]
    ELSE best

\* pickColorForStates()
PickColor(message) ==
  FoldLeft(LAMBDA best, rule : Better(best, rule, message),
           [color |-> style.default_color, specificity |-> 0], style.rules).color

\* The first frame is drawn with the default.
FirstFrame ==
  /\ file = <<>> /\ color = NoColor
  /\ color' = style.default_color
  /\ UNCHANGED <<file, lines, style, active>>

Receive(message) ==
  /\ color # NoColor
  /\ active' = message
  /\ color' = PickColor(message)
  /\ UNCHANGED <<file, lines, style>>

Next == LoadLine \/ FirstFrame \/ \E message \in SUBSET States : Receive(message)

Spec == Init /\ [][Next]_vars
------------------------------------------------------------------------------
Wins(i) ==
  /\ lines[i].kind = "rule" /\ lines[i].value \in Colors
  /\ ToSet(lines[i].states) \subseteq active

\* The colour follows from the file as its author wrote it: of the rules whose
\* states are all active the longest, of equally long ones the last; without
\* any, the last default, and white without a default.  Lines that cannot be
\* used, and the order of defaults and rules among each other, change nothing.
ColorFollowsFile ==
  [][active' # active \/ color' # color =>
       LET winners  == {i \in DOMAIN lines : Wins(i)'}
           longest  == {i \in winners : \A j \in winners : Len(lines[j].states) <= Len(lines[i].states)}
           defaults == {i \in DOMAIN lines : lines[i].kind = "default" /\ lines[i].value \in Colors}
           LastOf(set) == CHOOSE i \in set : \A j \in set : j <= i
       IN color' = CASE winners # {} -> lines[LastOf(longest)].value
                     [] winners = {} /\ defaults # {} -> lines[LastOf(defaults)].value
                     [] OTHER -> White]_vars
==============================================================================
