----------------------------- MODULE PrivSignal -----------------------------
(***************************************************************************)
(* libwayland: struct wl_priv_signal of displays, clients and resources.    *)
(* wl_priv_signal_emit() moves the listeners into emit_list and takes them  *)
(* back one by one; wl_priv_signal_final_emit() isolates each, so that its  *)
(* owner may free it without removing it.                                   *)
(***************************************************************************)
EXTENDS SequencesExt, Integers

CONSTANTS Listeners, MaxDepth, None

PrivSignalAssumption == None \notin Listeners /\ MaxDepth \in Nat

VARIABLES
  listener_list, emit_list,
  calls,      \* emissions, innermost last: the listener called or None, and who was there and is still due
  final,      \* the final emission has begun
  freed       \* listeners that were freed in its callbacks without being removed

vars == <<listener_list, emit_list, calls, final, freed>>

Init ==
  /\ listener_list \in {<<>>} \cup UNION {{s \in [1..n -> Listeners] : \A i, j \in 1..n : s[i] = s[j] => i = j} : n \in 1..Cardinality(Listeners)}
  /\ emit_list = <<>> /\ calls = <<>> /\ final = FALSE /\ freed = {}

Depth == Len(calls)
Top == calls[Depth]
Running == Depth > 0 => Top.in # None
Installed == Range(listener_list) \cup Range(emit_list)
Without(s, l) == SelectSeq(s, LAMBDA x : x # l)
Calling(t) == [calls EXCEPT ![Depth] = t]
------------------------------------------------------------------------------
\* wl_priv_signal_add()
AddListener(l) ==
  /\ Running /\ ~final /\ l \notin Installed \cup freed
  /\ listener_list' = Append(listener_list, l)
  /\ UNCHANGED <<emit_list, calls, final, freed>>

\* wl_list_remove()
RemoveListener(l) ==
  /\ Running /\ l \in Installed
  /\ listener_list' = Without(listener_list, l) /\ emit_list' = Without(emit_list, l)
  /\ calls' = [d \in 1..Depth |-> [calls[d] EXCEPT !.due = @ \ {l}]]
  /\ UNCHANGED <<final, freed>>

\* wl_priv_signal_emit()
Emit ==
  /\ Running /\ ~final /\ Depth < MaxDepth
  /\ emit_list' = listener_list \o emit_list /\ listener_list' = <<>>
  /\ calls' = Append(calls, [in |-> None, due |-> Installed])
  /\ UNCHANGED <<final, freed>>

\* Mutant: the listener stays where it is until it has been called.
FirstStays == emit_list

FirstTaken == Tail(emit_list)

\* It goes to the front of listener_list.
Notify ==
  /\ ~Running /\ ~final /\ emit_list # <<>>
  /\ LET l == Head(emit_list) IN
     /\ emit_list' = FirstTaken
     /\ listener_list' = <<l>> \o listener_list
     /\ calls' = Calling([in |-> l, due |-> Top.due \ {l}])
  /\ UNCHANGED <<final, freed>>

\* wl_priv_signal_final_emit(), when the owner goes
FinalEmit ==
  /\ Depth = 0 /\ ~final
  /\ final' = TRUE
  /\ calls' = <<[in |-> None, due |-> Installed]>>
  /\ UNCHANGED <<listener_list, emit_list, freed>>

\* Mutant: the listener is only passed by.
NotIsolated == Append(Tail(listener_list), Head(listener_list))

\* Mutant: the list is initialised, not the listener.
ListInitialised == <<>>

Isolated == Tail(listener_list)

NotifyFinal ==
  /\ ~Running /\ final /\ listener_list # <<>>
  /\ calls' = Calling([in |-> Head(listener_list), due |-> Top.due \ {Head(listener_list)}])
  /\ listener_list' = Isolated
  /\ UNCHANGED <<emit_list, final, freed>>

\* The callback of a destruction frees the structure that holds the listener.
Free ==
  /\ Running /\ final /\ Depth > 0 /\ Top.in \notin freed
  /\ freed' = freed \cup {Top.in}
  /\ UNCHANGED <<listener_list, emit_list, calls, final>>

Return ==
  /\ Running /\ Depth > 0
  /\ calls' = Calling([Top EXCEPT !.in = None])
  /\ UNCHANGED <<listener_list, emit_list, final, freed>>

Done ==
  /\ ~Running /\ (IF final THEN listener_list = <<>> ELSE emit_list = <<>>)
  /\ calls' = SubSeq(calls, 1, Depth - 1)
  /\ UNCHANGED <<listener_list, emit_list, final, freed>>

Next ==
  \/ Emit \/ Notify \/ FinalEmit \/ NotifyFinal \/ Free \/ Return \/ Done
  \/ \E l \in Listeners : AddListener(l) \/ RemoveListener(l)

Spec == Init /\ [][Next]_vars
------------------------------------------------------------------------------
Abstract == INSTANCE Emission WITH
  installed <- IF final THEN {} ELSE Installed,
  calls <- IF final THEN <<>> ELSE calls

\* Each emission that is not the last calls the listeners that were there when it
\* began, each once, those aside that are removed first ("Iterate over all the
\* listeners added to this signal and call their notify function pointer",
\* wl_priv_signal_emit).  It holds for MaxDepth = 1: one that a callback begins takes
\* the listeners that are still due from the one around it.
EmissionSpec == [][final' \/ Abstract!Next]_vars

\* No listener that was freed is reached from the list again
\* (wl_priv_signal_final_emit).
FreedUnreachable == freed \cap Installed = {}

\* The last emission calls every listener before the owner goes, those too whose
\* neighbours were removed or freed by the callbacks before them.
FinalCallsAll ==
  [][final /\ calls # <<>> /\ calls' = <<>> => calls[1].due = {}]_vars
==============================================================================
