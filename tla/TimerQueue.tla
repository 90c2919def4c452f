------------------------------ MODULE TimerQueue ------------------------------
(***************************************************************************)
(* libwayland: what the timers of an event loop promise.  A dispatch calls  *)
(* precisely the timers whose deadline has passed, each once, in the order  *)
(* of their deadlines.  Disarming or setting a timer again does not take it *)
(* back from the dispatch that runs; removing it does.                      *)
(***************************************************************************)
EXTENDS Sequences, Integers

CONSTANTS Timers, Times, None

VARIABLES
  now,
  deadline,   \* of each timer, or None
  due,        \* the timers of the dispatch that runs, the one called now first
  removed     \* those of them that have been removed

vars == <<now, deadline, due, removed>>

Init == now \in Times /\ deadline = [t \in Timers |-> None] /\ due = <<>> /\ removed = {}

Arm(t, time) ==
  /\ t \notin removed
  /\ deadline' = [deadline EXCEPT ![t] = time]
  /\ UNCHANGED <<now, due, removed>>

Disarm(t) ==
  /\ deadline' = [deadline EXCEPT ![t] = None]
  /\ UNCHANGED <<now, due, removed>>

Cancel(t) ==
  /\ deadline' = [deadline EXCEPT ![t] = None]
  /\ removed' = {r \in removed \cup {t} : \E i \in DOMAIN due : due[i] = r}
  /\ UNCHANGED <<now, due>>

Dispatch ==
  /\ due = <<>>
  /\ \E order \in [1..Len(due') -> Timers] :
       /\ due' = order
       /\ \A t \in Timers : deadline[t] # None /\ deadline[t] <= now <=> \E i \in DOMAIN order : order[i] = t
       /\ \A i, j \in DOMAIN order : i < j => order[i] # order[j] /\ deadline[order[i]] <= deadline[order[j]]
       /\ deadline' = [t \in Timers |-> IF \E i \in DOMAIN order : order[i] = t THEN None ELSE deadline[t]]
  /\ UNCHANGED <<now, removed>>

\* The next one, past those that were removed.
Returned ==
  /\ due # <<>>
  /\ \E n \in 1..Len(due) :
       /\ due' = SubSeq(due, n + 1, Len(due))
       /\ \A i \in 2..n : due[i] \in removed
       /\ n < Len(due) => due[n + 1] \notin removed
  /\ removed' = {r \in removed : \E i \in DOMAIN due' : due'[i] = r}
  /\ UNCHANGED <<now, deadline>>

Tick == now' \in Times /\ now' > now /\ UNCHANGED <<deadline, due, removed>>

Next ==
  \/ \E t \in Timers : Disarm(t) \/ Cancel(t) \/ \E time \in Times : Arm(t, time)
  \/ Dispatch \/ Returned \/ Tick

Spec == Init /\ [][Next]_vars
==============================================================================
