------------------------------ MODULE Roundtrip ------------------------------
(***************************************************************************)
(* libwayland, the client: wl_display_roundtrip_queue().  A thread asks the *)
(* compositor for a callback and dispatches its own queue until the         *)
(* callback is done, while another thread dispatches the default queue.     *)
(* The callback is made through a wrapper of the display, so that it never  *)
(* belongs to the default queue.                                            *)
(***************************************************************************)
EXTENDS FiniteSets, SequencesExt, Integers

CONSTANTS
  Callers,       \* threads that do roundtrips, with a queue each
  Default,       \* the default queue, and the thread that dispatches it
  MaxTrips,      \* bound: roundtrips of a caller
  Nobody

RoundtripAssumption == Default \notin Callers /\ Nobody \notin Callers /\ MaxTrips \in Nat

VARIABLES
  pc,            \* where a caller is
  trips,         \* roundtrips begun
  wrappers,      \* queues of the wrappers that exist, by caller
  callback,      \* the callback of the roundtrip, or Gone, by caller
  requests,      \* sync requests on their way
  events,        \* done events on their way
  queue,         \* done events in the queues
  done,
  failed         \* last_error is set

proxies == <<wrappers, callback>>
vars == <<pc, trips, proxies, requests, events, queue, done, failed>>

Gone == [queue |-> Nobody, listener |-> FALSE]

Init ==
  /\ pc = [c \in Callers |-> "idle"] /\ trips = [c \in Callers |-> 0]
  /\ wrappers = [c \in Callers |-> Nobody] /\ callback = [c \in Callers |-> Gone]
  /\ requests = <<>> /\ events = <<>>
  /\ queue = [q \in Callers \cup {Default} |-> <<>>]
  /\ done = [c \in Callers |-> FALSE] /\ failed = FALSE

Goto(c, where) == pc' = [pc EXCEPT ![c] = where]

\* Mutant: the flag of the last roundtrip stays.
KeepDone(c) == done

Reset(c) == [done EXCEPT ![c] = FALSE]

\* wl_proxy_create_wrapper(): the wrapper is in the display's queue at first.
CreateWrapper(c) ==
  /\ pc[c] = "idle" /\ trips[c] < MaxTrips
  /\ trips' = [trips EXCEPT ![c] = @ + 1]
  /\ wrappers' = [wrappers EXCEPT ![c] = Default]
  /\ done' = Reset(c)
  /\ Goto(c, "wrapped")
  /\ UNCHANGED <<callback, requests, events, queue, failed>>

\* wl_proxy_set_queue() of the wrapper
SetQueue(c) ==
  /\ pc[c] = "wrapped"
  /\ wrappers' = [wrappers EXCEPT ![c] = c]
  /\ Goto(c, "routed")
  /\ UNCHANGED <<trips, callback, requests, events, queue, done, failed>>

\* Mutant: the request is made with the display itself.
OfDisplay(c) == Default

QueueOfNew(c) == wrappers[c]

\* wl_display_sync(): the callback inherits the queue; after an error nothing is sent.
Sync(c) ==
  /\ pc[c] = "routed"
  /\ callback' = [callback EXCEPT ![c] = [queue |-> QueueOfNew(c), listener |-> FALSE]]
  /\ requests' = IF failed THEN requests ELSE Append(requests, c)
  /\ Goto(c, "asked")
  /\ UNCHANGED <<trips, wrappers, events, queue, done, failed>>

\* wl_proxy_wrapper_destroy()
DestroyWrapper(c) ==
  /\ pc[c] = "asked"
  /\ wrappers' = [wrappers EXCEPT ![c] = Nobody]
  /\ Goto(c, "listening")
  /\ UNCHANGED <<trips, callback, requests, events, queue, done, failed>>

AddListener(c) ==
  /\ pc[c] = "listening"
  /\ callback' = [callback EXCEPT ![c] = [queue |-> @.queue, listener |-> TRUE]]
  /\ Goto(c, "waiting")
  /\ UNCHANGED <<trips, wrappers, requests, events, queue, done, failed>>

\* sync_callback(), if the callback has a listener by now.
Handle(c) ==
  IF callback[c].listener
    THEN done' = [done EXCEPT ![c] = TRUE] /\ callback' = [callback EXCEPT ![c] = Gone]
    ELSE UNCHANGED <<done, callback>>

\* wl_display_dispatch_queue_pending() of one event.
DispatchOwn(c) ==
  /\ pc[c] = "waiting" /\ ~failed /\ ~done[c] /\ queue[c] # <<>>
  /\ Handle(Head(queue[c]))
  /\ queue' = [queue EXCEPT ![c] = Tail(@)]
  /\ UNCHANGED <<pc, trips, wrappers, requests, events, failed>>

DispatchDefault ==
  /\ ~failed /\ queue[Default] # <<>>
  /\ Handle(Head(queue[Default]))
  /\ queue' = [queue EXCEPT ![Default] = Tail(@)]
  /\ UNCHANGED <<pc, trips, wrappers, requests, events, failed>>

\* The loop ends with the answer, or with an error, which leaves the callback to be
\* destroyed here.
Return(c) ==
  /\ pc[c] = "waiting" /\ (done[c] \/ failed)
  /\ callback' = [callback EXCEPT ![c] = Gone]
  /\ Goto(c, IF done[c] THEN "idle" ELSE "failed")
  /\ UNCHANGED <<trips, wrappers, requests, events, queue, done, failed>>

\* The compositor answers in order.
Answer ==
  /\ requests # <<>>
  /\ events' = Append(events, Head(requests))
  /\ requests' = Tail(requests)
  /\ UNCHANGED <<pc, trips, proxies, queue, done, failed>>

\* read_events(), by any thread that dispatches: EventQueues has how they agree.
Read ==
  /\ events # <<>> /\ ~failed
  /\ events' = Tail(events)
  /\ LET c == Head(events) IN
     IF callback[c] = Gone THEN UNCHANGED queue
     ELSE queue' = [queue EXCEPT ![callback[c].queue] = Append(@, c)]
  /\ UNCHANGED <<pc, trips, proxies, requests, done, failed>>

Fail ==
  /\ ~failed /\ failed' = TRUE
  /\ UNCHANGED <<pc, trips, proxies, requests, events, queue, done>>

Caller(c) ==
  \/ CreateWrapper(c) \/ SetQueue(c) \/ Sync(c) \/ DestroyWrapper(c) \/ AddListener(c)
  \/ DispatchOwn(c) \/ Return(c)

Next == (\E c \in Callers : Caller(c)) \/ DispatchDefault \/ Answer \/ Read \/ Fail

\* The compositor answers and some thread reads.
Fairness ==
  /\ \A c \in Callers : WF_vars(Caller(c))
  /\ WF_vars(DispatchDefault) /\ WF_vars(Answer) /\ WF_vars(Read)

Spec == Init /\ [][Next]_vars /\ Fairness
------------------------------------------------------------------------------
TypeOK ==
  /\ pc \in [Callers -> {"idle", "wrapped", "routed", "asked", "listening", "waiting", "failed"}]
  /\ trips \in [Callers -> 0..MaxTrips]
  /\ wrappers \in [Callers -> Callers \cup {Default, Nobody}]
  /\ callback \in [Callers -> [queue : Callers \cup {Default, Nobody}, listener : BOOLEAN]]
  /\ requests \in Seq(Callers) /\ events \in Seq(Callers)
  /\ queue \in [Callers \cup {Default} -> Seq(Callers)]
  /\ done \in [Callers -> BOOLEAN] /\ failed \in BOOLEAN

\* The answer is dispatched by the thread that waits for it, which has set the
\* listener by then, however early it is read (wl_display_roundtrip_queue,
\* wl_proxy_create_wrapper).
AnswerWaitsForListener ==
  \A q \in DOMAIN queue : \A i \in DOMAIN queue[q] :
    LET c == queue[q][i] IN q = c /\ (pc[c] = "waiting" => callback[c].listener \/ done[c] \/ failed)

\* Every roundtrip ends.
RoundtripEnds == \A c \in Callers : pc[c] = "wrapped" ~> pc[c] \in {"idle", "failed"}

\* A thread is back from its roundtrip with an answer only when the compositor has
\* handled the request it sent for it.
AnsweredMeansHandled ==
  \A c \in Callers : done[c] => \A i \in DOMAIN requests : requests[i] # c

\* Where a caller is tells what it has: the wrapper with its queue, the callback, and
\* the listener.
TripsFit == \A c \in Callers :
  /\ pc[c] = "routed" => wrappers[c] = c
  /\ pc[c] \in {"asked", "listening"} => callback[c] = [queue |-> c, listener |-> FALSE]
  /\ pc[c] = "waiting" /\ ~done[c] => callback[c] = [queue |-> c, listener |-> TRUE]
  /\ done[c] => pc[c] \in {"waiting", "idle"}
  /\ pc[c] = "failed" => failed

\* The request, the event and the queued event of a roundtrip are one and the same
\* answer under way, and a caller begins another roundtrip only without one.
Once(s) == \A i, j \in DOMAIN s : s[i] = s[j] => i = j

UnderWay == ToSet(requests) \cup ToSet(events) \cup {c \in Callers : queue[c] # <<>>}

AnswersFit ==
  /\ Once(requests) /\ Once(events) /\ ToSet(requests) \cap ToSet(events) = {}
  /\ queue[Default] = <<>>
  /\ \A c \in Callers :
       /\ queue[c] \in {<<>>, <<c>>}
       /\ queue[c] # <<>> => c \notin ToSet(requests) \cup ToSet(events)
  /\ \A c \in UnderWay : ~done[c] /\ pc[c] \in {"asked", "listening", "waiting", "failed"}

Inv == TypeOK /\ TripsFit /\ AnswersFit /\ AnswerWaitsForListener /\ AnsweredMeansHandled
==============================================================================
