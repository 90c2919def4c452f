------------------------------ MODULE StatusLine ------------------------------
(***************************************************************************)
(* What a renderer promises the programs that send it status messages.  The *)
(* line shows messages one at a time, in the order in which their senders   *)
(* connected, each at most once; only a message that cannot be used is      *)
(* passed over.  Messages not shown are lost when the line goes off.        *)
(***************************************************************************)
EXTENDS Sequences

CONSTANTS
  Senders,       \* connections that can be open at a time
  Messages,      \* what a sender may write
  Valid,         \* the messages that the renderer understands
  Unsent,        \* nothing written yet
  Nothing,       \* closed without a message
  Off, Empty     \* no line on the screen; a line of length zero

VARIABLES
  shown,         \* what the line shows
  inbox          \* connections not yet served, oldest first

vars == <<shown, inbox>>

Init == shown = Off /\ inbox = <<>>

Arrive(sender) ==
  /\ \A i \in DOMAIN inbox : inbox[i].from # sender
  /\ inbox' = Append(inbox, [from |-> sender, body |-> Unsent])
  /\ UNCHANGED shown

\* A sender writes its message, or goes away without one.
Write(i, body) ==
  /\ inbox[i].body = Unsent
  /\ inbox' = [inbox EXCEPT ![i].body = body]
  /\ UNCHANGED shown

Show ==
  /\ shown # Off /\ inbox # <<>> /\ Head(inbox).body \in Valid
  /\ shown' = Head(inbox).body
  /\ inbox' = Tail(inbox)

PassOver ==
  /\ shown # Off /\ inbox # <<>> /\ Head(inbox).body \in {Nothing} \cup (Messages \ Valid)
  /\ inbox' = Tail(inbox)
  /\ UNCHANGED shown

TurnOn == shown = Off /\ shown' = Empty /\ UNCHANGED inbox

TurnOff == shown' = Off /\ inbox' = <<>>

Next ==
  \/ \E sender \in Senders : Arrive(sender)
  \/ \E i \in DOMAIN inbox, body \in Messages \cup {Nothing} : Write(i, body)
  \/ Show \/ PassOver \/ TurnOn \/ TurnOff

Spec == Init /\ [][Next]_vars
==============================================================================
