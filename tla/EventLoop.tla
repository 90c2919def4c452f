------------------------------ MODULE EventLoop ------------------------------
(***************************************************************************)
(* libwayland, event-loop.c: one dispatch of an event loop after another.   *)
(* Callbacks may add, check and remove sources, the one that is called and  *)
(* those that are still to be called too.  The timers have a module of      *)
(* their own, TimerHeap; their callbacks are one here, Timer.               *)
(***************************************************************************)
EXTENDS SequencesExt, FiniteSetsExt, Integers

CONSTANTS
  Fds, Signals, Idles,   \* sources: file descriptors, one signal's, idle tasks
  None, Lost, Timer,
  MaxEvents,             \* 32: the events of one epoll_wait()
  NextMayGo,             \* whether a callback of post_dispatch_check() may remove the source after its own
  MaxEffects             \* bound: side effects of callbacks on other sources in one dispatch

Sources == Fds \cup Signals \cup Idles

EventLoopAssumption ==
  /\ MaxEvents \in Nat \ {0} /\ NextMayGo \in BOOLEAN /\ MaxEffects \in Nat
  /\ {None, Lost, Timer} \cap Sources = {} /\ Fds \cap Signals = {} /\ Idles \cap (Fds \cup Signals) = {}

VARIABLES
  pc,           \* where wl_event_loop_dispatch() is
  source,       \* "none", "live", "removed" (on destroy_list, fd is -1)
  check_list, idle_list,
  batch,        \* events of the last epoll_wait() that are still to be dispatched
  callee,       \* the source whose callback runs
  next,         \* of the wl_list_for_each_safe() over check_list
  recheck,      \* needs_recheck
  input,        \* a file descriptor is readable
  pending,      \* the signal is pending
  backlog,      \* a source has work that no file descriptor tells of
  effects       \* side effects that callbacks may still have

sources == <<source, check_list, idle_list>>
world == <<input, pending>>
vars == <<pc, source, check_list, idle_list, batch, callee, next, recheck, input, pending, backlog, effects>>

Init ==
  /\ pc = "out"
  /\ source = [s \in Sources |-> "none"]
  /\ check_list = <<>> /\ idle_list = <<>> /\ batch = <<>>
  /\ callee = None /\ next = None /\ recheck = FALSE
  /\ input = [s \in Fds |-> FALSE] /\ pending = FALSE
  /\ backlog = [s \in Fds |-> FALSE] /\ effects = MaxEffects

Live(s) == source[s] = "live"

\* User code runs: between two dispatches, or in a callback.
Running == pc = "out" \/ callee # None
------------------------------------------------------------------------------
add_source(s) ==
  /\ Running /\ source[s] = "none"
  /\ source' = [source EXCEPT ![s] = "live"]
  /\ UNCHANGED <<pc, check_list, idle_list, batch, callee, next, recheck, input, pending, backlog, effects>>

AddFd(s) == s \in Fds /\ add_source(s)
AddSignal(s) == s \in Signals /\ add_source(s)

\* wl_event_loop_add_idle()
AddIdle(s) ==
  /\ Running /\ source[s] = "none" /\ s \in Idles
  /\ source' = [source EXCEPT ![s] = "live"]
  /\ idle_list' = Append(idle_list, s)
  /\ UNCHANGED <<pc, check_list, batch, callee, next, recheck, input, pending, backlog, effects>>

\* wl_event_source_check()
Check(s) ==
  /\ Running /\ Live(s) /\ s \in Fds /\ s \notin Range(check_list)
  /\ check_list' = Append(check_list, s)
  /\ UNCHANGED <<pc, source, idle_list, batch, callee, next, recheck, input, pending, backlog, effects>>

Without(list, s) == SelectSeq(list, LAMBDA x : x # s)

\* Mutant: the memory of a removed source is freed at once.
FreedAtOnce(s) == "none"

Kept(s) == "removed"

\* wl_event_source_remove()
Taken(s) ==
  /\ source' = [source EXCEPT ![s] = Kept(s)]
  /\ check_list' = Without(check_list, s) /\ idle_list' = Without(idle_list, s)

\* "Calling wl_event_source_remove() after or from within the callback [of an idle task]
\* results in undefined behaviour."
RemoveSource(s) ==
  /\ Running /\ Live(s)
  /\ s = callee => s \notin Idles
  /\ s = next => NextMayGo
  /\ Taken(s)
  /\ backlog' = [t \in Fds |-> t # s /\ backlog[t]]
  /\ UNCHANGED <<pc, batch, callee, next, recheck, input, pending, effects>>

\* The world
Arrive(s) ==
  /\ ~input[s] /\ input' = [input EXCEPT ![s] = TRUE]
  /\ UNCHANGED <<pc, source, check_list, idle_list, batch, callee, next, recheck, pending, backlog, effects>>

Raise ==
  /\ ~pending /\ pending' = TRUE
  /\ UNCHANGED <<pc, source, check_list, idle_list, batch, callee, next, recheck, input, backlog, effects>>
------------------------------------------------------------------------------
\* wl_event_loop_dispatch()
Begin ==
  /\ pc = "out" /\ pc' = "idle before"
  /\ effects' = MaxEffects
  /\ UNCHANGED <<sources, batch, callee, next, recheck, world, backlog>>

\* wl_event_loop_dispatch_idle()
DispatchIdle ==
  /\ pc \in {"idle before", "idle after"} /\ callee = None /\ idle_list # <<>>
  /\ callee' = Head(idle_list)
  /\ UNCHANGED <<pc, sources, batch, next, recheck, world, backlog, effects>>

\* A callback may leave work for a source that is re-checked.
Effect ==
  \/ UNCHANGED <<backlog, effects>>
  \/ /\ effects > 0 /\ effects' = effects - 1
     /\ \E s \in Range(check_list) : backlog' = [backlog EXCEPT ![s] = TRUE]

\* Mutant: an idle task stays in its list.
StillIdle(s) == UNCHANGED sources

IdleGone(s) == Taken(s)

TimersReturn ==
  /\ callee = Timer /\ callee' = None
  /\ Effect
  /\ UNCHANGED <<pc, sources, batch, next, recheck, world>>

IdleReturns ==
  /\ callee \in Idles
  /\ IdleGone(callee) /\ callee' = None
  /\ Effect
  /\ UNCHANGED <<pc, batch, next, recheck, world>>

IdlesDone ==
  /\ pc \in {"idle before", "idle after"} /\ callee = None /\ idle_list = <<>>
  /\ IF pc = "idle before" THEN pc' = "wait" /\ UNCHANGED <<next, recheck>>
     ELSE pc' = "check" /\ next' = (IF check_list = <<>> THEN None ELSE Head(check_list)) /\ recheck' = FALSE
  /\ UNCHANGED <<sources, batch, callee, world, backlog, effects>>

\* Mutant: signals come first.
SignalsFirst ==
  IF pending /\ \E s \in Signals : Live(s) THEN {s \in Signals : Live(s)} ELSE {s \in Fds : Live(s) /\ input[s]}

Ready == {s \in Fds : Live(s) /\ input[s]} \cup {s \in Signals : Live(s) /\ pending}

\* epoll_wait(), in any order; an event of the timerfd counts, and is dispatched first.
Wait ==
  /\ pc = "wait" /\ pc' = "dispatch"
  /\ \E S \in SUBSET Ready, timers \in {None, Timer} :
       /\ Cardinality(S) = Min({Cardinality(Ready), IF timers = Timer THEN MaxEvents - 1 ELSE MaxEvents})
       /\ batch' \in SetToSeqs(S)
       /\ callee' = timers
  /\ UNCHANGED <<sources, next, recheck, world, backlog, effects>>

WaitFails == pc = "wait" /\ pc' = "out" /\ UNCHANGED <<sources, batch, callee, next, recheck, world, backlog, effects>>

\* Mutant: whatever was reported is dispatched.
Reported(s) == TRUE

\* Mutant: a signal that has been read away is skipped.
StillPending(s) == Live(s) /\ (s \in Signals => pending)

StillThere(s) == Live(s)

\* wl_event_source_signal_dispatch() reads the signal, which may have been read already.
ReadAway(s) == pending /\ s \notin Signals

\* One event of the batch
DispatchEvent ==
  /\ pc = "dispatch" /\ callee = None /\ batch # <<>>
  /\ batch' = Tail(batch)
  /\ callee' = IF StillThere(Head(batch)) THEN Head(batch) ELSE None
  /\ pending' = ReadAway(callee')
  /\ UNCHANGED <<pc, sources, next, recheck, input, backlog, effects>>

\* Mutant: only the last answer counts.
LastAnswer(result) == result

Recheck(result) == recheck \/ result

\* A callback returns: whether it had something to do.  A file descriptor may stay
\* readable, but the backlog is looked at.
SourceReturns(s) ==
  /\ callee = s /\ callee' = None
  /\ \E read \in BOOLEAN :
       /\ read => s \in Fds /\ input[s]
       /\ LET did == read \/ (s \in Fds /\ backlog[s]) IN
          /\ recheck' = IF pc = "check" THEN Recheck(did) ELSE recheck
          /\ IF did
               THEN /\ input' = [input EXCEPT ![s] = @ /\ ~read]
                    /\ \/ UNCHANGED effects /\ backlog' = [backlog EXCEPT ![s] = FALSE]
                       \/ /\ effects > 0 /\ effects' = effects - 1
                          /\ \E t \in Range(check_list) : backlog' = [backlog EXCEPT ![s] = FALSE, ![t] = TRUE]
               ELSE UNCHANGED <<input, backlog, effects>>
  /\ UNCHANGED <<pc, sources, batch, next, pending>>

\* wl_event_loop_process_destroy_list()
Dispatched ==
  /\ pc = "dispatch" /\ callee = None /\ batch = <<>>
  /\ pc' = "idle after"
  /\ source' = [s \in Sources |-> IF source[s] = "removed" THEN "none" ELSE source[s]]
  /\ UNCHANGED <<check_list, idle_list, batch, callee, next, recheck, world, backlog, effects>>

After(s) ==
  IF s \notin Range(check_list) THEN Lost
  ELSE LET i == CHOOSE j \in DOMAIN check_list : check_list[j] = s IN
       IF i = Len(check_list) THEN None ELSE check_list[i + 1]

\* post_dispatch_check(): the walk knows its next source before it calls this one.
CheckNext ==
  /\ pc = "check" /\ callee = None /\ next \notin {None, Lost}
  /\ callee' = next /\ next' = After(next)
  /\ UNCHANGED <<pc, sources, batch, recheck, world, backlog, effects>>

CheckEnds ==
  /\ pc = "check" /\ callee = None /\ next = None
  /\ IF recheck
       THEN next' = (IF check_list = <<>> THEN None ELSE Head(check_list)) /\ recheck' = FALSE /\ UNCHANGED pc
       ELSE pc' = "out" /\ UNCHANGED <<next, recheck>>
  /\ UNCHANGED <<sources, batch, callee, world, backlog, effects>>

Next ==
  \/ \E s \in Sources : AddFd(s) \/ AddSignal(s) \/ AddIdle(s) \/ Check(s) \/ RemoveSource(s)
  \/ (\E s \in Fds : Arrive(s)) \/ Raise
  \/ Begin \/ DispatchIdle \/ IdleReturns \/ TimersReturn \/ IdlesDone \/ Wait \/ WaitFails \/ DispatchEvent
  \/ (\E s \in Fds \cup Signals : SourceReturns(s)) \/ Dispatched \/ CheckNext \/ CheckEnds

\* The program dispatches again and again, callbacks return, and epoll_wait() does not
\* fail for ever.
Fairness ==
  /\ WF_vars(Begin) /\ WF_vars(DispatchIdle) /\ WF_vars(IdleReturns) /\ WF_vars(TimersReturn)
  /\ WF_vars(IdlesDone) /\ SF_vars(Wait)
  /\ WF_vars(DispatchEvent) /\ (\A s \in Fds \cup Signals : WF_vars(SourceReturns(s)))
  /\ WF_vars(Dispatched) /\ WF_vars(CheckNext) /\ WF_vars(CheckEnds)

Spec == Init /\ [][Next]_vars
LiveSpec == Spec /\ Fairness
------------------------------------------------------------------------------
TypeOK ==
  /\ Range(check_list) \subseteq {s \in Fds : Live(s)} /\ IsInjective(check_list)
  /\ Range(idle_list) = {s \in Idles : Live(s)} /\ IsInjective(idle_list)
  /\ Range(batch) \subseteq Fds \cup Signals
  /\ callee \in Sources \cup {None, Timer} /\ next \in Fds \cup {None, Lost}

\* The loop touches no source whose memory has been freed: one that a callback removes
\* stays until the events of the dispatch are done (wl_event_source_remove,
\* wl_event_loop_process_destroy_list).
NoUseAfterFree == \A s \in Range(batch) \cup ({callee, next} \ {None, Lost, Timer}) : source[s] # "none"

\* "The dispatch function of the source will no longer be called through this source"
\* once wl_event_source_remove() has been called.  It holds unless NextMayGo.
NotCalledOnceRemoved == [][callee' \notin {None, Timer, callee} => source[callee'] = "live"]_vars

\* "Re-checking ensures all the incoming events have been fully drained before
\* wl_event_loop_dispatch() returns" (post_dispatch_check).
DrainedAtReturn == [][pc = "check" /\ pc' = "out" => \A s \in Range(check_list) : ~backlog[s]]_vars

\* Re-checking goes on while a checked source gets input faster than its callback says
\* that there is none; what follows holds of a loop that does not do so for ever.
Rechecking == <>[](pc = "check")

\* An idle task is called, or removed before (wl_event_loop_dispatch_idle).
IdlesFire == Rechecking \/ \A s \in Idles : Live(s) ~> ~Live(s)

\* The callback of a source that stays readable is called, unless the source is removed
\* (wl_event_loop_dispatch).
ReadableServed == Rechecking \/ \A s \in Fds : (Live(s) /\ input[s]) ~> (callee = s \/ ~(Live(s) /\ input[s]))

\* Every source of a signal is called for it, though the first one reads it away
\* (wl_event_source_signal_dispatch; test event_loop_multiple_same_signals).
AllHearSignal == \A s \in Signals : (pc = "dispatch" /\ s \in Range(batch)) ~> (callee = s \/ ~Live(s))
==============================================================================
