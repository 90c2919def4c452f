----------------------------- MODULE SigbusGuard -----------------------------
(***************************************************************************)
(* libwayland, wayland-shm.c: the compositor's threads read pools of        *)
(* several clients, whose files may be shorter than they say.  Each thread  *)
(* remembers the pool it reads; the handler of SIGBUS, which is one for all *)
(* of them, puts zeros in its place, and the client is told afterwards.     *)
(***************************************************************************)
EXTENDS Sequences, Integers

CONSTANTS Threads, Pools, None, MaxNest

SigbusGuardAssumption == None \notin Pools /\ MaxNest \in Nat

VARIABLES
  sigbus_is_impossible,   \* of a pool: the file is long enough and stays so
  mapping,                \* of a pool: "file", or "zeros" after a fault
  installed,              \* the handler
  sigbus_data,            \* of a thread
  access,                 \* of a thread: the pool it reads, once for every call
  error,                  \* of a pool: its client has been told
  killed

vars == <<sigbus_is_impossible, mapping, installed, sigbus_data, access, error, killed>>

NoData == [current_pool |-> None, access_count |-> 0, fallback_mapping_used |-> FALSE]

Init ==
  /\ sigbus_is_impossible \in [Pools -> BOOLEAN]
  /\ mapping = [p \in Pools |-> "file"] /\ installed = FALSE
  /\ sigbus_data = [t \in Threads |-> NoData]
  /\ access = [t \in Threads |-> <<>>]
  /\ error = [p \in Pools |-> FALSE] /\ killed = FALSE

\* Mutant: every access starts anew.
StartsAnew(data, p) == [current_pool |-> p, access_count |-> data.access_count + 1, fallback_mapping_used |-> FALSE]

Entered(data, p) == [data EXCEPT !.current_pool = p, !.access_count = @ + 1]

\* wl_shm_buffer_begin_access(); "it is safe to nest calls [...] as long as the nested
\* calls are all accessing the same buffer".
Begin(t, p) ==
  /\ ~killed /\ Len(access[t]) < MaxNest
  /\ access[t] # <<>> => access[t][1] = p
  /\ access' = [access EXCEPT ![t] = Append(@, p)]
  /\ IF sigbus_is_impossible[p] THEN UNCHANGED <<installed, sigbus_data, killed>>
     ELSE /\ installed' = TRUE
          /\ sigbus_data' = [sigbus_data EXCEPT ![t] = Entered(@, p)]
          /\ killed' = (sigbus_data[t].current_pool \notin {None, p})   \* the assertion
  /\ UNCHANGED <<sigbus_is_impossible, mapping, error>>

\* A read behind the end of the file: sigbus_handler(), or reraise_sigbus().
Fault(t) ==
  /\ ~killed /\ access[t] # <<>>
  /\ LET p == access[t][1] IN
     /\ ~sigbus_is_impossible[p] /\ mapping[p] = "file"
     /\ IF installed /\ sigbus_data[t].current_pool = p
          THEN /\ mapping' = [mapping EXCEPT ![p] = "zeros"]
               /\ sigbus_data' = [sigbus_data EXCEPT ![t].fallback_mapping_used = TRUE]
               /\ UNCHANGED killed
          ELSE killed' = TRUE /\ UNCHANGED <<mapping, sigbus_data>>
  /\ UNCHANGED <<sigbus_is_impossible, installed, access, error>>

\* Mutant: the inner call ends the access.
InnerEnds(data) == [NoData EXCEPT !.access_count = data.access_count - 1]

\* Mutant: the fault is remembered after it has been told.
FaultStays(data) ==
  IF data.access_count = 1 THEN [data EXCEPT !.access_count = 0, !.current_pool = None] ELSE [data EXCEPT !.access_count = @ - 1]

Left(data) == IF data.access_count = 1 THEN NoData ELSE [data EXCEPT !.access_count = @ - 1]

\* wl_shm_buffer_end_access()
End(t) ==
  /\ ~killed /\ access[t] # <<>>
  /\ access' = [access EXCEPT ![t] = Tail(@)]
  /\ LET p == access[t][1] IN
     IF sigbus_is_impossible[p] THEN UNCHANGED <<sigbus_data, error>>
     ELSE /\ sigbus_data' = [sigbus_data EXCEPT ![t] = Left(@)]
          /\ error' = [error EXCEPT ![p] = @ \/ (sigbus_data[t].access_count = 1 /\ sigbus_data[t].fallback_mapping_used)]
  /\ UNCHANGED <<sigbus_is_impossible, mapping, installed, killed>>

Next == \E t \in Threads : Fault(t) \/ End(t) \/ \E p \in Pools : Begin(t, p)

Spec == Init /\ [][Next]_vars
------------------------------------------------------------------------------
\* The thread reads a pool that may have a fault.
Guarded(t) == access[t] # <<>> /\ ~sigbus_is_impossible[access[t][1]]

\* What a thread remembers is the pool of its calls and their number.
TypeOK ==
  /\ sigbus_is_impossible \in [Pools -> BOOLEAN] /\ mapping \in [Pools -> {"file", "zeros"}]
  /\ installed \in BOOLEAN /\ error \in [Pools -> BOOLEAN] /\ killed \in BOOLEAN
  /\ access \in [Threads -> Seq(Pools)]
  /\ \A t \in Threads : \A i \in 1..Len(access[t]) : access[t][i] = access[t][1]
  /\ sigbus_data \in [Threads -> [current_pool : Pools \cup {None}, access_count : 0..MaxNest,
                                fallback_mapping_used : BOOLEAN]]
  /\ \A t \in Threads : IF Guarded(t)
       THEN sigbus_data[t].current_pool = access[t][1] /\ sigbus_data[t].access_count = Len(access[t])
       ELSE sigbus_data[t] = NoData

\* No client's file ends the compositor, in whatever thread and however deep in nested
\* calls it is read (sigbus_handler, wl_shm_buffer_begin_access).
NeverKilled == ~killed

\* The client that is told of a fault is the one whose pool had it
\* (wl_shm_buffer_end_access).
BlamesRightClient == \A p \in Pools : error[p] => mapping[p] = "zeros"

\* "the client will be sent an error event when wl_shm_buffer_end_access is called": when
\* nobody reads a pool with a fault any longer, its client has been told.
FaultTold == \A p \in Pools : mapping[p] = "zeros" /\ (\A t \in Threads : access[t] = <<>> \/ access[t][1] # p) => error[p]

\* A fault that is not yet told is remembered by a thread that still reads the pool,
\* and the handler is there while a thread may need it.
FaultsRemembered ==
  /\ \A t \in Threads : Guarded(t) => installed
  /\ \A t \in Threads : sigbus_data[t].fallback_mapping_used => mapping[access[t][1]] = "zeros"
  /\ \A p \in Pools : mapping[p] = "zeros" /\ ~error[p] =>
       \E t \in Threads : Guarded(t) /\ access[t][1] = p /\ sigbus_data[t].fallback_mapping_used

\* The inductive invariant.
Inv == TypeOK /\ NeverKilled /\ BlamesRightClient /\ FaultsRemembered
==============================================================================
