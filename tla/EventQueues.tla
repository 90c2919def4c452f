----------------------------- MODULE EventQueues -----------------------------
(***************************************************************************)
(* libwayland, the client: several threads read one socket.  Each thread    *)
(* has an event queue of its own and goes round wl_display_dispatch_queue():*)
(* it announces that it will read, polls, reads together with the others    *)
(* that announced it, and dispatches.  Every action is what happens under   *)
(* one hold of the display's mutex.                                         *)
(***************************************************************************)
EXTENDS FiniteSets, SequencesExt, Integers

CONSTANTS
  Threads,       \* one event queue each, with the thread's name
  Proxies,       \* objects whose events are queued
  Display,       \* the display object, and the name of its queue
  Home,          \* which queue a proxy has at first
  MaxEvents,     \* bound: events the compositor sends
  MaxMoves       \* bound: calls of wl_proxy_set_queue()

EventQueuesAssumption ==
  /\ IsFiniteSet(Threads) /\ Display \notin Threads \cup Proxies
  /\ Home \in [Proxies -> Threads]
  /\ MaxEvents \in Nat /\ MaxMoves \in Nat

VARIABLES
  socket,        \* events the compositor sent and nobody read
  closed,        \* the compositor closed its end
  sent,          \* events sent
  queue,         \* event_list of every queue
  proxyQueue,    \* wl_proxy.queue
  moves,         \* calls of wl_proxy_set_queue()
  reader_count,
  waits,         \* threads whose serial is still read_serial
  last_error,    \* errno, or "none"
  pc,            \* where a thread is
  handling,      \* the event whose handler a thread runs
  handled        \* numbers of the events whose handlers ran

wire == <<socket, closed, sent>>
routes == <<proxyQueue, moves>>
work == <<handling, handled>>
vars == <<wire, queue, routes, reader_count, waits, last_error, pc, work>>

NoEvent == [n |-> 0, proxy |-> Display, kind |-> "none"]

Init ==
  /\ socket = <<>> /\ closed = FALSE /\ sent = 0
  /\ queue = [q \in Threads \cup {Display} |-> <<>>]
  /\ proxyQueue = Home /\ moves = 0
  /\ reader_count = 0 /\ waits = {} /\ last_error = "none"
  /\ pc = [t \in Threads |-> "idle"]
  /\ handling = [t \in Threads |-> NoEvent] /\ handled = {}

Goto(t, where) == pc' = [pc EXCEPT ![t] = where]

\* Mutant: the condition is broadcast, read_serial stays.
BroadcastOnly == waits' = waits

\* display_wakeup_threads(): every sleeping thread finds another read_serial.
display_wakeup_threads == waits' = {}

\* display_fatal_error(): the first error counts.
display_fatal_error(error) ==
  IF last_error # "none"
    THEN UNCHANGED <<last_error, waits>>
    ELSE last_error' = error /\ display_wakeup_threads

\* Mutant: the last reader to cancel tells nobody.
CancelSilently ==
  /\ reader_count' = reader_count - 1
  /\ UNCHANGED waits

cancel_read ==
  /\ reader_count' = reader_count - 1
  /\ IF reader_count = 1 THEN display_wakeup_threads ELSE UNCHANGED waits
------------------------------------------------------------------------------
\* The compositor sends an event, or an error and nothing after it.
Send(p, kind) ==
  /\ sent < MaxEvents /\ ~closed
  /\ kind \in (IF p = Display THEN {"delete_id", "error"} ELSE {"event", "malformed"})
  /\ sent' = sent + 1
  /\ socket' = Append(socket, [n |-> sent + 1, proxy |-> p, kind |-> kind])
  /\ closed' = (kind = "error")
  /\ UNCHANGED <<queue, routes, reader_count, waits, last_error, pc, work>>

HangUp ==
  /\ ~closed /\ closed' = TRUE
  /\ UNCHANGED <<socket, sent, queue, routes, reader_count, waits, last_error, pc, work>>

\* Events that are queued stay where they are.
wl_proxy_set_queue(p, t) ==
  /\ moves < MaxMoves /\ proxyQueue[p] # t
  /\ proxyQueue' = [proxyQueue EXCEPT ![p] = t]
  /\ moves' = moves + 1
  /\ UNCHANGED <<wire, queue, reader_count, waits, last_error, pc, work>>

\* Mutant: a thread may announce a read with events in its queue.
AnnounceAnyway(t) ==
  /\ pc[t] = "idle"
  /\ reader_count' = reader_count + 1 /\ Goto(t, "prepared")
  /\ UNCHANGED <<wire, queue, routes, waits, last_error, work>>

\* wl_display_prepare_read_queue()
PrepareRead(t) ==
  /\ pc[t] = "idle"
  /\ IF queue[t] # <<>>
       THEN Goto(t, "dispatching") /\ UNCHANGED reader_count
       ELSE reader_count' = reader_count + 1 /\ Goto(t, "prepared")
  /\ UNCHANGED <<wire, queue, routes, waits, last_error, work>>

\* wl_display_flush(): an error but EPIPE makes the thread give up.
Flush(t) ==
  /\ pc[t] = "prepared"
  /\ last_error \in {"none", "EPIPE"} /\ Goto(t, "polling")
  /\ UNCHANGED <<wire, queue, routes, reader_count, waits, last_error, work>>

FlushRefused(t) ==
  /\ pc[t] = "prepared"
  /\ last_error \notin {"none", "EPIPE"}
  /\ cancel_read /\ Goto(t, "failed")
  /\ UNCHANGED <<wire, queue, routes, last_error, work>>

FatalInFlush == {"ENOMEM"}

\* sendmsg() fails for good; cancel_read comes under the next hold of the mutex.
FlushFails(t, error) ==
  /\ pc[t] = "prepared" /\ last_error = "none"
  /\ error \in FatalInFlush /\ (error = "EPIPE" => closed)
  /\ display_fatal_error(error)
  /\ UNCHANGED <<wire, queue, routes, reader_count, pc, work>>

\* wl_display_poll(): the socket stays readable until somebody reads it.
Poll(t) ==
  /\ pc[t] = "polling" /\ (socket # <<>> \/ closed)
  /\ Goto(t, "readable")
  /\ UNCHANGED <<wire, queue, routes, reader_count, waits, last_error, work>>

\* poll() fails: wl_display_cancel_read().
PollFails(t) ==
  /\ pc[t] = "polling"
  /\ cancel_read /\ Goto(t, "idle")
  /\ UNCHANGED <<wire, queue, routes, last_error, work>>
------------------------------------------------------------------------------
\* wl_display_read_events() once an error is known.
ReadRefused(t) ==
  /\ pc[t] = "readable" /\ last_error # "none"
  /\ cancel_read /\ Goto(t, "failed")
  /\ UNCHANGED <<wire, queue, routes, last_error, work>>

\* Mutant: the first thread that comes reads.
FirstReads == reader_count >= 1

LastReader == reader_count = 1

\* Another thread has announced a read and not come yet.
ReadSleeps(t) ==
  /\ pc[t] = "readable" /\ last_error = "none" /\ ~LastReader
  /\ reader_count' = reader_count - 1
  /\ waits' = waits \cup {t} /\ Goto(t, "sleeping")
  /\ UNCHANGED <<wire, queue, routes, last_error, work>>

\* queue_event()
QueueOf(event) == IF event.proxy = Display THEN Display ELSE proxyQueue[event.proxy]

Queued(events) ==
  [q \in DOMAIN queue |-> queue[q] \o SelectSeq(events, LAMBDA e : QueueOf(e) = q)]

Malformed(events) == {i \in DOMAIN events : events[i].kind = "malformed"}

\* The last reader takes what is there, n events; a malformed one is fatal, and
\* what came with it and after it is not queued.
ReadEvents(t, n) ==
  /\ pc[t] = "readable" /\ last_error = "none" /\ LastReader
  /\ n \in 1..Len(socket)
  /\ LET events == SubSeq(socket, 1, n)
         bad == Malformed(events)
     IN  IF bad = {}
           THEN /\ queue' = Queued(events)
                /\ display_wakeup_threads /\ Goto(t, "dispatching")
                /\ UNCHANGED last_error
           ELSE /\ queue' = Queued(SubSeq(events, 1, Min(bad) - 1))
                /\ display_fatal_error("EINVAL") /\ Goto(t, "failed")
  /\ socket' = SubSeq(socket, n + 1, Len(socket))
  /\ reader_count' = reader_count - 1
  /\ UNCHANGED <<closed, sent, routes, work>>

\* Nothing there but the end of the stream, which is fatal, or nothing at all.
ReadNothing(t) ==
  /\ pc[t] = "readable" /\ last_error = "none" /\ LastReader /\ socket = <<>>
  /\ reader_count' = reader_count - 1
  /\ IF closed
       THEN display_fatal_error("EPIPE") /\ Goto(t, "failed")
       ELSE display_wakeup_threads /\ Goto(t, "dispatching") /\ UNCHANGED last_error
  /\ UNCHANGED <<wire, queue, routes, work>>

Wake(t) ==
  /\ pc[t] = "sleeping" /\ t \notin waits
  /\ Goto(t, IF last_error = "none" THEN "dispatching" ELSE "failed")
  /\ UNCHANGED <<wire, queue, routes, reader_count, waits, last_error, work>>
------------------------------------------------------------------------------
\* dispatch_event(): the event leaves its queue, and the mutex is released.
Begin(t, q) ==
  /\ handling' = [handling EXCEPT ![t] = Head(queue[q])]
  /\ queue' = [queue EXCEPT ![q] = Tail(@)]
  /\ Goto(t, "handler")

\* dispatch_queue(), from where it takes the mutex to where it gives it back:
\* the display's own events first.
Dispatch(t) ==
  /\ pc[t] = "dispatching"
  /\ IF last_error # "none"
       THEN Goto(t, "failed") /\ UNCHANGED <<queue, handling>>
       ELSE IF queue[Display] # <<>> THEN Begin(t, Display)
       ELSE IF queue[t] # <<>> THEN Begin(t, t)
       ELSE Goto(t, "idle") /\ UNCHANGED <<queue, handling>>
  /\ UNCHANGED <<wire, routes, reader_count, waits, last_error, handled>>

\* display_protocol_error() looks at last_error before it takes the mutex.
ErrorChecked(t) ==
  /\ pc[t] = "handler" /\ handling[t].kind = "error"
  /\ Goto(t, IF last_error = "none" THEN "error" ELSE "dispatching")
  /\ UNCHANGED <<wire, queue, routes, reader_count, waits, last_error, work>>

\* It wakes nobody.
ErrorStored(t) ==
  /\ pc[t] = "error"
  /\ last_error' = "EPROTO"
  /\ Goto(t, "dispatching")
  /\ handled' = handled \cup {handling[t].n}
  /\ UNCHANGED <<wire, queue, routes, reader_count, waits, handling>>

\* Any other handler.
Handle(t) ==
  /\ pc[t] = "handler" /\ handling[t].kind # "error"
  /\ handled' = handled \cup {handling[t].n}
  /\ Goto(t, "dispatching")
  /\ UNCHANGED <<wire, queue, routes, reader_count, waits, last_error, handling>>

Step(t) ==
  \/ PrepareRead(t) \/ Flush(t) \/ FlushRefused(t) \/ Poll(t)
  \/ ReadRefused(t) \/ ReadSleeps(t) \/ ReadNothing(t) \/ Wake(t)
  \/ (\E n \in 1..Len(socket) : ReadEvents(t, n))
  \/ Dispatch(t) \/ ErrorChecked(t) \/ ErrorStored(t) \/ Handle(t)

Next ==
  \/ \E t \in Threads : Step(t) \/ PollFails(t) \/ \E error \in {"ENOMEM", "EPIPE"} : FlushFails(t, error)
  \/ \E p \in Proxies \cup {Display}, kind \in {"event", "malformed", "delete_id", "error"} : Send(p, kind)
  \/ HangUp
  \/ \E p \in Proxies, t \in Threads : wl_proxy_set_queue(p, t)

\* Every thread runs, and gets the mutex in time; poll() does not fail for ever on
\* a socket that has something to read.  Nothing is said of the compositor.
Fairness ==
  /\ \A t \in Threads : WF_vars(Step(t)) /\ SF_vars(Poll(t))

Spec == Init /\ [][Next]_vars /\ Fairness
------------------------------------------------------------------------------
Preparing == {"prepared", "polling", "readable"}

TypeOK ==
  /\ reader_count \in 0..Cardinality(Threads)
  /\ waits \subseteq Threads
  /\ DOMAIN queue = Threads \cup {Display} /\ proxyQueue \in [Proxies -> Threads]
  /\ pc \in [Threads -> Preparing \cup {"idle", "sleeping", "dispatching", "handler", "error", "failed"}]
  /\ last_error \in {"none", "EPROTO", "EPIPE", "EINVAL", "ENOMEM"}

Readers == {t \in Threads : pc[t] \in Preparing}

\* The counter counts the threads that have announced a read and neither read nor
\* cancelled, through all errors and cancellations; and whoever sleeps can count
\* on one of them to come (wl_display_read_events, wl_display_cancel_read).
SleepersHaveReader ==
  /\ reader_count = Cardinality(Readers)
  /\ \A t \in waits : pc[t] = "sleeping"
  /\ waits # {} => reader_count > 0

\* Between a thread's announcement and its read nobody fills the queue it found
\* empty, so that it does not poll for what it already has
\* (wl_display_prepare_read_queue: no other thread will read from the fd and
\* queue events in our queue).
NothingToMissInPoll == \A t \in Threads : pc[t] \in Preparing => queue[t] = <<>>

\* The inductive invariant.
Inv == TypeOK /\ SleepersHaveReader /\ NothingToMissInPoll

\* A thread that sleeps in read_events() wakes up, whatever the others do: read,
\* cancel, or fail.
SleeperWakes == \A t \in Threads : pc[t] = "sleeping" ~> pc[t] # "sleeping"

\* An event that a thread read reaches its handler, unless the connection fails;
\* also the display's own events, which any thread dispatches.
EventsHandled ==
  \A n \in 1..MaxEvents :
    (\E q \in DOMAIN queue : \E i \in DOMAIN queue[q] : queue[q][i].n = n)
      ~> (n \in handled \/ last_error # "none")
==============================================================================
