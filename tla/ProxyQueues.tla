----------------------------- MODULE ProxyQueues -----------------------------
(***************************************************************************)
(* libwayland, the client: several threads make, use and destroy objects on *)
(* one connection.  Each thread has an event queue of its own; the first    *)
(* one has the default queue.  A thread that wants the events of what it    *)
(* makes in its own queue sends its requests through a proxy wrapper.       *)
(* The steps of a request are taken with the display's mutex held.          *)
(***************************************************************************)
EXTENDS FiniteSets, SequencesExt, Integers

CONSTANTS
  Threads,       \* each one's event queue has its name
  Main,          \* the one with the default queue
  None,
  ServerIds,     \* ids that the compositor gives, beyond those of the threads
  MaxProxies,    \* bound: objects that the threads make
  MaxEvents      \* bound: events the compositor sends

ProxyQueuesAssumption ==
  /\ Main \in Threads /\ None \notin Threads
  /\ None \notin Seq([n : Nat, to : Nat, new : Nat])
  /\ ServerIds \subseteq Nat /\ (\A id \in ServerIds : id > 100) /\ MaxProxies \in 0..100
  /\ MaxEvents \in Nat

VARIABLES
  mutex,         \* display->mutex: the thread that has it, or None
  pc,            \* where in a request a thread is
  call,          \* the request
  wrapper,       \* the queue of the thread's proxy wrapper, or None
  proxies,       \* all proxies made, by id; no id is used again
  out,           \* requests written
  queue,         \* event_list; None after wl_event_queue_destroy()
  served,        \* how many requests the compositor has read
  sent,          \* events it sent
  taken,         \* how many of them the client has read
  handled,       \* calls of handlers
  last_error,
  aborted        \* why wl_abort() was called, or "no"

requests == <<mutex, pc, call>>
wire == <<out, served, sent, taken>>
vars == <<requests, wrapper, proxies, queue, wire, handled, last_error, aborted>>

NoCall == [new |-> 0, destroys |-> 0, via |-> None]

Init ==
  /\ mutex = None /\ pc = [t \in Threads |-> "idle"] /\ call = [t \in Threads |-> NoCall]
  /\ wrapper = [t \in Threads |-> None]
  /\ proxies = <<>> /\ queue = [t \in Threads |-> <<>>]
  /\ out = <<>> /\ served = 0 /\ sent = <<>> /\ taken = 0
  /\ handled = <<>> /\ last_error = "none" /\ aborted = "no"

Goto(t, where) == pc' = [pc EXCEPT ![t] = where]

\* Mutant: requests do not exclude each other.
NoMutex == TRUE

\* pthread_mutex_lock()
Unlocked == mutex = None

Made == DOMAIN proxies

\* wl_map_insert_new()
NextId == CHOOSE n \in 1..(MaxProxies + 1) : Made \ ServerIds = 1..(n - 1)

\* Mutant: what is made through a wrapper has the default queue.
InDefaultQueue(q, owner) == [queue |-> Main, owner |-> owner, listener |-> FALSE, destroyed |-> FALSE]

\* proxy_create(), and wl_proxy_create_for_id() for an object of the compositor: the
\* queue is the one of the factory.
NewProxy(q, owner) == [queue |-> q, owner |-> owner, listener |-> FALSE, destroyed |-> FALSE]

With(p, x) == [id \in Made \cup {p} |-> IF id = p THEN x ELSE proxies[id]]
------------------------------------------------------------------------------
\* wl_proxy_create_wrapper() and wl_proxy_set_queue() of the wrapper.
CreateWrapper(t) ==
  /\ Unlocked /\ pc[t] = "idle" /\ t # Main /\ wrapper[t] = None
  /\ wrapper' = [wrapper EXCEPT ![t] = t]
  /\ UNCHANGED <<requests, proxies, queue, wire, handled, last_error, aborted>>

\* wl_proxy_wrapper_destroy()
DestroyWrapper(t) ==
  /\ Unlocked /\ pc[t] = "idle" /\ wrapper[t] # None
  /\ wrapper' = [wrapper EXCEPT ![t] = None]
  /\ UNCHANGED <<requests, proxies, queue, wire, handled, last_error, aborted>>

\* wl_proxy_add_listener() of a wrapper.
ListenOnWrapper(t) ==
  /\ pc[t] = "idle" /\ wrapper[t] # None
  /\ aborted' = "wrapper"
  /\ UNCHANGED <<requests, wrapper, proxies, queue, wire, handled, last_error>>

\* The queue of what a thread sends its requests through.
Via(t) == IF t = Main THEN Main ELSE wrapper[t]

\* wl_proxy_marshal_array_flags(), of a request that makes an object ...
MarshalNew(t) ==
  /\ Unlocked /\ pc[t] = "idle" /\ Via(t) # None /\ NextId <= MaxProxies
  /\ mutex' = t /\ Goto(t, "create")
  /\ call' = [call EXCEPT ![t] = [new |-> 0, destroys |-> 0, via |-> Via(t)]]
  /\ UNCHANGED <<wrapper, proxies, queue, wire, handled, last_error, aborted>>

\* ... and of one that destroys one of the thread's own.
MarshalDestroy(t, p) ==
  /\ Unlocked /\ pc[t] = "idle" /\ proxies[p].owner = t /\ ~proxies[p].destroyed
  /\ mutex' = t /\ Goto(t, "write")
  /\ call' = [call EXCEPT ![t] = [new |-> 0, destroys |-> p, via |-> None]]
  /\ UNCHANGED <<wrapper, proxies, queue, wire, handled, last_error, aborted>>

\* create_outgoing_proxy()
CreateOutgoing(t) ==
  /\ pc[t] = "create" /\ Goto(t, "write")
  /\ proxies' = With(NextId, NewProxy(call[t].via, t))
  /\ call' = [call EXCEPT ![t].new = NextId]
  /\ UNCHANGED <<mutex, wrapper, queue, wire, handled, last_error, aborted>>

\* Mutant: the error is not looked at.
AlwaysSends == TRUE

MaySend == last_error = "none"

\* wl_closure_marshal() and wl_closure_send(), which may fail.
Write(t) ==
  /\ pc[t] = "write" /\ Goto(t, "written")
  /\ \/ MaySend /\ out' = Append(out, call[t]) /\ UNCHANGED last_error
     \/ MaySend /\ last_error' = "EINVAL" /\ UNCHANGED out
     \/ ~MaySend /\ UNCHANGED <<out, last_error>>
  /\ UNCHANGED <<mutex, call, wrapper, proxies, queue, served, sent, taken, handled, aborted>>

\* Mutant: WL_MARSHAL_FLAG_DESTROY is not looked at.
KeepProxy(p) == proxies

\* Mutant: the object is not marked as destroyed.
OnlyDetached(p) == [proxies EXCEPT ![p].queue = None]

\* proxy_destroy()
proxy_destroy(p) == [proxies EXCEPT ![p].destroyed = TRUE, ![p].queue = None]

\* err_unlock: the flag WL_MARSHAL_FLAG_DESTROY, and the mutex.
Finish(t) ==
  /\ pc[t] = "written" /\ mutex' = None
  /\ proxies' = IF call[t].destroys = 0 THEN proxies ELSE proxy_destroy(call[t].destroys)
  /\ Goto(t, IF call[t].new = 0 THEN "idle" ELSE "returned")
  /\ UNCHANGED <<call, wrapper, queue, wire, handled, last_error, aborted>>

\* wl_proxy_add_listener() of what was returned, without the mutex.
AddListener(t) ==
  /\ pc[t] = "returned" /\ Goto(t, "idle")
  /\ proxies' = [proxies EXCEPT ![call[t].new].listener = TRUE]
  /\ UNCHANGED <<mutex, call, wrapper, queue, wire, handled, last_error, aborted>>
------------------------------------------------------------------------------
Read == SubSeq(out, 1, served)

\* What the compositor has made, and has not been told to destroy.
Objects ==
  ({Read[i].new : i \in 1..served} \cup {sent[i].new : i \in DOMAIN sent})
    \ ({0} \cup {Read[i].destroys : i \in 1..served})

\* The compositor reads a request.
Serve ==
  /\ served < Len(out) /\ served' = served + 1
  /\ UNCHANGED <<requests, wrapper, proxies, queue, out, sent, taken, handled, last_error, aborted>>

Event(p, new) == [n |-> Len(sent) + 1, to |-> p, new |-> new]

Given == {sent[i].new : i \in DOMAIN sent}

\* It sends an event of an object, with another one that it makes or without.
Send(p, new) ==
  /\ Len(sent) < MaxEvents /\ p \in Objects
  /\ new \in {0} \cup {id \in ServerIds \ Given : \A other \in ServerIds \ Given : id <= other}
  /\ sent' = Append(sent, Event(p, new))
  /\ UNCHANGED <<requests, wrapper, proxies, queue, out, served, taken, handled, last_error, aborted>>
------------------------------------------------------------------------------
\* queue_event(), by any thread: events of an object that is gone are dropped, and
\* so is what they make; there must be a queue.
ReadEvent ==
  /\ Unlocked /\ taken < Len(sent) /\ last_error = "none" /\ taken' = taken + 1
  /\ LET e == sent[taken + 1]
         q == proxies[e.to].queue IN
     IF e.to \notin Made \/ proxies[e.to].destroyed THEN UNCHANGED <<proxies, queue, aborted>>
     ELSE \/ q = None /\ aborted' = "queue" /\ UNCHANGED <<proxies, queue>>
          \/ /\ q # None /\ queue' = [queue EXCEPT ![q] = Append(@, e)]
             /\ proxies' = IF e.new = 0 THEN proxies ELSE With(e.new, NewProxy(q, None))
             /\ UNCHANGED aborted
  /\ UNCHANGED <<requests, wrapper, out, served, sent, handled, last_error>>

\* Mutant: an event reaches an object that was destroyed after it was queued.
AnyReceiver(p) == FALSE

ReceiverGone(p) == proxies[p].destroyed

\* dispatch_event(), and the handler: it sets a listener for an object that came
\* with the event.  Without a listener the event is dropped.
Dispatch(t) ==
  /\ Unlocked /\ pc[t] = "idle" /\ queue[t] # <<>> /\ last_error = "none"
  /\ queue' = [queue EXCEPT ![t] = Tail(@)]
  /\ LET e == Head(queue[t]) IN
     IF ReceiverGone(e.to) \/ ~proxies[e.to].listener
       THEN UNCHANGED <<handled, proxies>>
       ELSE /\ handled' = Append(handled, [event |-> e, thread |-> t, afterDestroy |-> proxies[e.to].destroyed])
            /\ proxies' = IF e.new = 0 THEN proxies
                          ELSE [proxies EXCEPT ![e.new].owner = t, ![e.new].listener = TRUE]
  /\ UNCHANGED <<requests, wrapper, wire, last_error, aborted>>

\* Mutant: the proxies keep pointing to the queue.
StayAttached(q) == proxies

\* wl_event_queue_release(): no queue is left to the proxies.
Detached(q) == [p \in Made |-> IF proxies[p].queue = q THEN [proxies[p] EXCEPT !.queue = None] ELSE proxies[p]]

\* wl_event_queue_destroy(), by a thread that has destroyed all it knows of.
DestroyQueue(t) ==
  /\ Unlocked /\ pc[t] = "idle" /\ t # Main /\ wrapper[t] = None
  /\ \A p \in Made : proxies[p].owner = t => proxies[p].destroyed
  /\ proxies' = Detached(t) /\ queue' = [queue EXCEPT ![t] = None] /\ Goto(t, "gone")
  /\ UNCHANGED <<mutex, call, wrapper, wire, handled, last_error, aborted>>

Next ==
  /\ aborted = "no"
  /\ \/ \E t \in Threads :
          \/ CreateWrapper(t) \/ DestroyWrapper(t) \/ ListenOnWrapper(t)
          \/ MarshalNew(t) \/ CreateOutgoing(t) \/ Write(t) \/ Finish(t) \/ AddListener(t)
          \/ \E p \in Made : MarshalDestroy(t, p)
          \/ Dispatch(t) \/ DestroyQueue(t)
     \/ Serve \/ ReadEvent
     \/ \E p \in Objects, new \in ServerIds \cup {0} : Send(p, new)

Spec == Init /\ [][Next]_vars
------------------------------------------------------------------------------
Events == [n : Nat, to : Nat, new : Nat]

TypeOK ==
  /\ mutex \in Threads \cup {None}
  /\ pc \in [Threads -> {"idle", "create", "write", "written", "returned", "gone"}]
  /\ call \in [Threads -> [new : Nat, destroys : Nat, via : Threads \cup {None}]]
  /\ wrapper \in [Threads -> Threads \cup {None}]
  /\ Made \subseteq 1..MaxProxies \cup ServerIds
  /\ proxies \in [Made -> [queue : Threads \cup {None}, owner : Threads \cup {None},
                           listener : BOOLEAN, destroyed : BOOLEAN]]
  /\ out \in Seq([new : Nat, destroys : Nat, via : Threads \cup {None}]) /\ served \in 0..Len(out)
  /\ sent \in Seq(Events) /\ taken \in 0..Len(sent)
  /\ queue \in [Threads -> Seq(Events) \cup {None}]
  /\ handled \in Seq([event : Events, thread : Threads, afterDestroy : BOOLEAN])
  /\ last_error \in {"none", "EINVAL"} /\ aborted \in {"no", "queue", "wrapper"}

\* The ids of new objects come to the compositor one after the other, whichever
\* threads make them: its map takes no other (wl_proxy_marshal_array_flags makes the
\* object and writes the request under one hold of the mutex).
NewIdsInOrder ==
  \A i \in DOMAIN out : out[i].new # 0 => {out[j].new : j \in 1..(i - 1)} \ {0} = 1..(out[i].new - 1)

\* "the proxy is destroyed atomically with the marshalling in order to prevent races
\* that can occur if the display lock is dropped between" (WL_MARSHAL_FLAG_DESTROY):
\* whoever has the mutex next finds no object whose destructor is written.
DestroyedWithRequest ==
  mutex = None => \A i \in DOMAIN out : out[i].destroys # 0 => proxies[out[i].destroys].destroyed

\* After the connection has failed no request goes out, whichever thread was about to
\* send one (last_error, looked at under the mutex).
NothingAfterError == [][last_error # "none" => out' = out]_vars

\* An object made through a wrapper misses none of its events while its owner sets the
\* listener, and they are handled in the order in which they were sent ("To ensure
\* that all events for a newly created proxy are dispatched on a particular queue, it
\* is necessary to use a proxy wrapper"): before an event was handled, exactly those
\* that the object was sent earlier were.
NoEventMissed ==
  \A i \in DOMAIN handled :
    LET e == handled[i].event IN
    /\ e.n \in DOMAIN sent /\ e = sent[e.n]
    /\ \A k \in DOMAIN sent : sent[k].to = e.to =>
         (k < e.n <=> \E j \in 1..(i - 1) : handled[j].event = sent[k])

\* They are handled in the thread that made the object, and none after it was
\* destroyed (proxy_create, dispatch_event).
HandledByOwner ==
  \A i \in DOMAIN handled :
    /\ handled[i].thread = proxies[handled[i].event.to].owner
    /\ ~handled[i].afterDestroy

\* An event that was discarded with its queue, and the object that it brought.
Discarded(p) == p \in ServerIds /\ p \in Made /\ proxies[p].owner = None /\ proxies[p].queue = None

\* A thread that destroys all the objects it knows, then its queue, does not end the
\* program (queue_event: "Tried to add event to destroyed queue"): unless an event
\* that was discarded with the queue had brought an object that nobody can destroy.
AbortsOnlyForDiscarded == aborted = "queue" => \E p \in Made : Discarded(p)

\* No event goes into a queue that is gone.
QueuesExist == \A p \in Made : proxies[p].queue # None => queue[proxies[p].queue] # None
------------------------------------------------------------------------------
(* What makes these inductive. *)

\* A thread's place, its call, its wrapper and its queue agree, and what it is making
\* is its own and has no listener yet.
CallsFit ==
  \A t \in Threads :
    /\ pc[t] \in {"create", "write", "written"} <=> mutex = t
    /\ wrapper[t] \in {None, t}
    /\ pc[t] = "gone" <=> queue[t] = None
    /\ pc[t] = "create" => call[t] = [new |-> 0, destroys |-> 0, via |-> t]
    /\ pc[t] = "returned" => call[t].new # 0
    /\ pc[t] \in {"write", "written", "returned"} /\ call[t].new # 0 =>
         /\ call[t].new \in Made \ ServerIds /\ call[t].destroys = 0
         /\ proxies[call[t].new] = NewProxy(t, t)
    /\ pc[t] \in {"write", "written"} /\ call[t].destroys # 0 =>
         call[t].destroys \in Made /\ proxies[call[t].destroys].owner = t

\* An object is in its owner's queue until it is destroyed; one that has no owner is the
\* compositor's.  Its owner gives it a listener before it does anything else.
ProxiesFit ==
  \A p \in Made :
    LET x == proxies[p] IN
    /\ x.queue # None => pc[x.queue] # "gone" /\ x.owner \in {None, x.queue}
    /\ x.destroyed => x.queue = None
    /\ x.queue = None /\ ~x.destroyed => x.owner = None
    /\ x.owner = None => p \in ServerIds /\ ~x.listener
    /\ x.owner # None /\ ~x.listener =>
         call[x.owner].new = p /\ pc[x.owner] \in {"write", "written", "returned"}

\* The threads' ids are given out in order; all but the newest are written, unless the
\* connection has failed.
Written == {out[i].new : i \in DOMAIN out} \ {0}

IdsFit ==
  /\ \E n \in 0..MaxProxies : Made \ ServerIds = 1..n
  /\ Written \subseteq Made \ ServerIds
  /\ \A t \in Threads : pc[t] = "create" => Made \ ServerIds # 1..MaxProxies
  /\ \A t \in Threads : pc[t] = "write" /\ call[t].new # 0 =>
       call[t].new \notin Written /\ Made \ ServerIds = 1..call[t].new
  /\ last_error = "none" => \A p \in Made \ ServerIds :
       p \in Written \/ \E t \in Threads : pc[t] = "write" /\ call[t].new = p

\* What a written destructor destroys is destroyed before the mutex is free.
DestroysFit ==
  \A i \in DOMAIN out : out[i].destroys # 0 =>
    /\ out[i].destroys \in Made
    /\ \/ proxies[out[i].destroys].destroyed
       \/ \E t \in Threads : pc[t] = "written" /\ call[t].destroys = out[i].destroys

\* Events are for objects that were written or came with an earlier event, and bring
\* each object once.
EventsFit ==
  /\ \A k \in DOMAIN sent :
       /\ sent[k].n = k /\ sent[k].new \in ServerIds \cup {0}
       /\ sent[k].to \in Written \/ (sent[k].to # 0 /\ \E j \in 1..(k - 1) : sent[j].new = sent[k].to)
  /\ \A j, k \in DOMAIN sent : sent[j].new = sent[k].new /\ sent[j].new # 0 => j = k
  /\ \A p \in Made \cap ServerIds : \E k \in 1..taken : sent[k].new = p

\* The events in a thread's queue.
Lying(t) == IF queue[t] = None THEN {} ELSE ToSet(queue[t])

Increasing(s) == \A i, j \in DOMAIN s : i < j => s[i].n < s[j].n

QueuesFit ==
  \A t \in Threads :
    /\ queue[t] # None => Increasing(queue[t])
    /\ \A e \in Lying(t) :
         /\ e.n \in 1..taken /\ e = sent[e.n]
         /\ e.to \in Made /\ (proxies[e.to].destroyed \/ proxies[e.to].queue = t)
         /\ e.new # 0 => e.new \in Made /\ proxies[e.new] = NewProxy(t, None)

\* Events are handled before those that lie in queues, in order, and without gaps.
HandledFit ==
  \A i \in DOMAIN handled :
    LET e == handled[i].event IN
    /\ e.n \in 1..taken /\ e = sent[e.n] /\ e.to \in Made
    /\ \A t \in Threads : \A f \in Lying(t) : f.to = e.to => e.n < f.n
    /\ \A j \in 1..(i - 1) : handled[j].event.to = e.to => handled[j].event.n < e.n
    /\ \A k \in 1..(e.n - 1) : sent[k].to = e.to => \E j \in DOMAIN handled : handled[j].event = sent[k]

\* An object that has an owner, or will have one when the event that brings it is
\* handled.
Awaited(p) == proxies[p].owner # None \/ \E t \in Threads : \E e \in Lying(t) : e.new = p

\* None of its events is lost.
Followed ==
  \A p \in Made : Awaited(p) /\ proxies[p].queue # None =>
    \A k \in 1..taken : sent[k].to = p =>
      sent[k] \in Lying(proxies[p].queue) \/ \E i \in DOMAIN handled : handled[i].event = sent[k]

Inv ==
  /\ TypeOK /\ CallsFit /\ ProxiesFit /\ IdsFit /\ DestroysFit /\ EventsFit /\ QueuesFit
  /\ HandledFit /\ Followed /\ NewIdsInOrder /\ HandledByOwner /\ AbortsOnlyForDiscarded
==============================================================================
