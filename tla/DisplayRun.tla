----------------------------- MODULE DisplayRun -----------------------------
(***************************************************************************)
(* wl_display_run and wl_display_terminate (wayland-server.c).  The loop   *)
(* is ended by a flag, which other threads or a callback clear while it    *)
(* sleeps in epoll_wait; an eventfd wakes it so that it sees the flag.  A  *)
(* compositor may run the display again after it has returned.             *)
(***************************************************************************)
EXTENDS Integers, FiniteSets

CONSTANTS
    Threads,    \* the threads that may call wl_display_terminate
    MaxCalls,   \* bound: how often each of them calls it
    MaxRuns     \* bound: how often wl_display_run is called

DisplayRunAssumption ==
    /\ IsFiniteSet(Threads)
    /\ MaxCalls \in Nat /\ MaxRuns \in Nat \ {0}

VARIABLES
    run,            \* display->run
    terminate_efd,  \* the count of the eventfd
    main,           \* where the thread of wl_display_run is
    ready,          \* whether another source of the loop is ready
    runs,           \* how often wl_display_run was called
    term,           \* where each call of wl_display_terminate is
    calls           \* how often each thread has called it

vars == <<run, terminate_efd, main, ready, runs, term, calls>>

TypeOK ==
    /\ run \in BOOLEAN /\ terminate_efd \in Nat /\ ready \in BOOLEAN
    /\ main \in {"out", "check", "dispatch", "callback", "terminating"}
    /\ runs \in 0 .. MaxRuns
    /\ term \in [Threads -> {"out", "write"}]
    /\ calls \in [Threads -> 0 .. MaxCalls]

Init ==
    /\ run = FALSE /\ terminate_efd = 0 /\ ready = FALSE
    /\ main = "out"
    /\ runs = 0
    /\ term = [t \in Threads |-> "out"]
    /\ calls = [t \in Threads |-> 0]

Run ==
    /\ main = "out"
    /\ runs < MaxRuns
    /\ run' = TRUE
    /\ main' = "check"
    /\ runs' = runs + 1
    /\ UNCHANGED <<terminate_efd, ready, term, calls>>

\* while (display->run): the clients are flushed and the loop goes to sleep.
Check ==
    /\ main = "check"
    /\ main' = IF run THEN "dispatch" ELSE "out"
    /\ UNCHANGED <<run, terminate_efd, ready, runs, term, calls>>

\* Mutant: the event descriptor is not read.
EfdNotRead == terminate_efd

EfdAfterRead == 0

\* Mutant: terminate_efd wakes nobody.
WokenByOthers == ready

Woken == terminate_efd > 0 \/ ready

\* epoll_wait returns: the eventfd is read, the other source is dispatched.
Dispatch ==
    /\ main = "dispatch"
    /\ Woken
    /\ terminate_efd' = EfdAfterRead
    /\ ready' = FALSE
    /\ main' = IF ready THEN "callback" ELSE "check"
    /\ UNCHANGED <<run, runs, term, calls>>

CallbackReturns ==
    /\ main = "callback"
    /\ main' = "check"
    /\ UNCHANGED <<run, terminate_efd, ready, runs, term, calls>>

\* The callback calls wl_display_terminate.
CallbackClears ==
    /\ main = "callback"
    /\ run' = FALSE
    /\ main' = "terminating"
    /\ UNCHANGED <<terminate_efd, ready, runs, term, calls>>

CallbackWrites ==
    /\ main = "terminating"
    /\ terminate_efd' = terminate_efd + 1
    /\ main' = "check"
    /\ UNCHANGED <<run, ready, runs, term, calls>>

\* wl_event_loop_dispatch fails.
DispatchFails ==
    /\ main = "dispatch"
    /\ main' = "out"
    /\ UNCHANGED <<run, terminate_efd, ready, runs, term, calls>>

SourceReady ==
    /\ ~ready
    /\ ready' = TRUE
    /\ UNCHANGED <<run, terminate_efd, main, runs, term, calls>>

ClearRun(t) ==
    /\ term[t] = "out"
    /\ calls[t] < MaxCalls
    /\ run' = FALSE
    /\ term' = [term EXCEPT ![t] = "write"]
    /\ calls' = [calls EXCEPT ![t] = @ + 1]
    /\ UNCHANGED <<terminate_efd, main, ready, runs>>

WriteEfd(t) ==
    /\ term[t] = "write"
    /\ terminate_efd' = terminate_efd + 1
    /\ term' = [term EXCEPT ![t] = "out"]
    /\ UNCHANGED <<run, main, ready, runs, calls>>

Next ==
    \/ Run \/ Check \/ Dispatch \/ DispatchFails
    \/ CallbackReturns \/ CallbackClears \/ CallbackWrites
    \/ SourceReady
    \/ \E t \in Threads : ClearRun(t) \/ WriteEfd(t)

\* The threads go on; nothing makes another source ready.
Fairness ==
    /\ WF_vars(Check) /\ WF_vars(Dispatch)
    /\ WF_vars(CallbackReturns \/ CallbackClears) /\ WF_vars(CallbackWrites)
    /\ \A t \in Threads : WF_vars(WriteEfd(t))

Spec == Init /\ [][Next]_vars /\ Fairness

-----------------------------------------------------------------------------

(* Once wl_display_terminate has cleared the flag of a running display,    *)
(* wl_display_run returns, wherever its thread was: about to sleep, asleep *)
(* or in a callback, and whatever else happens or does not.                *)
TerminateEnds == (main # "out" /\ ~run) ~> main = "out"

(* What woke the loop is gone when it has been seen, also what a call left *)
(* behind that came after wl_display_run had returned: a display that is   *)
(* run again does not spin (handle_display_terminate).                     *)
NoBusyLoop ==
    (main # "out" /\ terminate_efd > 0) ~> (terminate_efd = 0 \/ main = "out")

=============================================================================
