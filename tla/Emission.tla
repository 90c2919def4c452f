------------------------------- MODULE Emission -------------------------------
(***************************************************************************)
(* libwayland: what the comments of wayland-server.c promise of a signal.   *)
(* Every listener that is installed when an emission begins is called once  *)
(* by it, unless it is removed before its turn; those added meanwhile wait  *)
(* for the next.  A callback may add, remove and emit again.                *)
(***************************************************************************)
EXTENDS Sequences, Integers

CONSTANTS Listeners, MaxDepth, None

EmissionAssumption == None \notin Listeners /\ MaxDepth \in Nat

VARIABLES
  installed,   \* the listeners of the signal
  calls        \* emissions, innermost last: who is due, and who is called now

vars == <<installed, calls>>

Init == installed \in SUBSET Listeners /\ calls = <<>>

Top == calls[Len(calls)]

\* User code runs: nobody emits, or a listener is called.
Running == calls # <<>> => Top.in # None

Replace(t) == [calls EXCEPT ![Len(calls)] = t]

AddListener(l) == Running /\ l \notin installed /\ installed' = installed \cup {l} /\ UNCHANGED calls

RemoveListener(l) ==
  /\ Running /\ l \in installed
  /\ installed' = installed \ {l}
  /\ calls' = [c \in DOMAIN calls |-> [calls[c] EXCEPT !.due = @ \ {l}]]

Emit ==
  /\ Running /\ Len(calls) < MaxDepth
  /\ calls' = Append(calls, [due |-> installed, in |-> None])
  /\ UNCHANGED installed

Notify(l) ==
  /\ ~Running /\ l \in Top.due
  /\ calls' = Replace([due |-> Top.due \ {l}, in |-> l])
  /\ UNCHANGED installed

Return == Running /\ calls # <<>> /\ calls' = Replace([Top EXCEPT !.in = None]) /\ UNCHANGED installed

Done == ~Running /\ Top.due = {} /\ calls' = SubSeq(calls, 1, Len(calls) - 1) /\ UNCHANGED installed

Next == Emit \/ Return \/ Done \/ \E l \in Listeners : AddListener(l) \/ RemoveListener(l) \/ Notify(l)

Spec == Init /\ [][Next]_vars
==============================================================================
