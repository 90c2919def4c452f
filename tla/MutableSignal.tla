---------------------------- MODULE MutableSignal ----------------------------
(***************************************************************************)
(* libwayland: wl_signal with wl_signal_emit_mutable(), which walks the     *)
(* list with two markers of its own in it, a cursor behind the listener     *)
(* that is called and an end.                                               *)
(***************************************************************************)
EXTENDS SequencesExt, Integers

CONSTANTS Listeners, MaxDepth, None

MutableSignalAssumption == None \notin Listeners /\ MaxDepth \in Nat

VARIABLES
  list,     \* of listeners and markers, a record of kind and which
  calls     \* emissions, innermost last: the listener that is called, or None

vars == <<list, calls>>

Listener(l) == [kind |-> "listener", which |-> l]
Cursor(d) == [kind |-> "cursor", which |-> d]
EndMark(d) == [kind |-> "end", which |-> d]

Init ==
  /\ \E order \in SetToSeqs(Listeners) : \E n \in 0..Len(order) :
       list = [i \in 1..n |-> Listener(order[i])]
  /\ calls = <<>>

Depth == Len(calls)

Running == Depth > 0 => calls[Depth] # None

Without(s, e) == SelectSeq(s, LAMBDA x : x # e)

At(e) == CHOOSE i \in DOMAIN list : list[i] = e

Installed == {l \in Listeners : Listener(l) \in Range(list)}
------------------------------------------------------------------------------
\* wl_signal_add()
AddListener(l) ==
  /\ Running /\ l \notin Installed
  /\ list' = Append(list, Listener(l))
  /\ UNCHANGED calls

\* wl_list_remove(), of itself, of the next or of any other
RemoveListener(l) ==
  /\ Running /\ l \in Installed
  /\ list' = Without(list, Listener(l))
  /\ UNCHANGED calls

\* Mutant: the end is put behind the first listener.
EndTooSoon(d) ==
  IF list = <<>> THEN <<Cursor(d), EndMark(d)>> ELSE <<Cursor(d), Head(list), EndMark(d)>> \o Tail(list)

\* The end is put behind the last listener, the cursor before the first.
Marked(d) == Append(<<Cursor(d)>> \o list, EndMark(d))

\* wl_signal_emit_mutable()
Emit ==
  /\ Running /\ Depth < MaxDepth
  /\ calls' = Append(calls, None)
  /\ list' = Marked(Depth + 1)

\* The cursor goes behind the one that comes next.
Moved(p) == [list EXCEPT ![p] = list[p + 1], ![p + 1] = list[p]]

\* The next is another emission's marker: handle_noop()
SkipMarker ==
  /\ ~Running
  /\ LET p == At(Cursor(Depth)) IN
     /\ list[p + 1].kind # "listener" /\ list[p + 1] # EndMark(Depth)
     /\ list' = Moved(p)
  /\ UNCHANGED calls

Notify ==
  /\ ~Running
  /\ LET p == At(Cursor(Depth)) IN
     /\ list[p + 1].kind = "listener"
     /\ list' = Moved(p)
     /\ calls' = [calls EXCEPT ![Depth] = list[p + 1].which]

Return == Running /\ calls # <<>> /\ calls' = [calls EXCEPT ![Depth] = None] /\ UNCHANGED list

Done ==
  /\ ~Running
  /\ list[At(Cursor(Depth)) + 1] = EndMark(Depth)
  /\ list' = Without(Without(list, Cursor(Depth)), EndMark(Depth))
  /\ calls' = SubSeq(calls, 1, Depth - 1)

Next == Emit \/ SkipMarker \/ Notify \/ Return \/ Done \/ \E l \in Listeners : AddListener(l) \/ RemoveListener(l)

Spec == Init /\ [][Next]_vars
------------------------------------------------------------------------------
TypeOK ==
  /\ \A i, j \in DOMAIN list : list[i] = list[j] => i = j
  /\ \A d \in 1..Depth : At(Cursor(d)) < At(EndMark(d))
  /\ {m \in Range(list) : m.kind # "listener"} = {Cursor(d) : d \in 1..Depth} \cup {EndMark(d) : d \in 1..Depth}

\* Who is due lies between the markers.
Due(d) == {l \in Listeners : Listener(l) \in {list[i] : i \in At(Cursor(d))..At(EndMark(d))}}

Abstract == INSTANCE Emission WITH
  installed <- Installed,
  calls <- [d \in 1..Depth |-> [due |-> Due(d), in |-> calls[d]]]

\* Each emission calls exactly the listeners that were there when it began and are
\* not removed first, whatever the callbacks add, remove and emit
\* (wl_signal_emit_mutable and its comment, wayland-server.c:2264).
EmissionSpec == Abstract!Spec
==============================================================================
