------------------------------ MODULE ProxyLife ------------------------------
(***************************************************************************)
(* libwayland, the client: how long a proxy lives.  The client destroys     *)
(* objects while events for them are on their way, lie in a queue, or are   *)
(* being handled without the mutex; the compositor destroys its side when   *)
(* it reads the request, and tells the client with delete_id.  Ids are used *)
(* again.                                                                   *)
(***************************************************************************)
EXTENDS FiniteSets, SequencesExt, Integers, FiniteSetTheorems, TLAPS

CONSTANTS
  ClientIds,     \* ids below WL_SERVER_ID_START
  ServerIds,     \* ids from WL_SERVER_ID_START on
  MaxProxies,    \* bound: proxies made
  MaxEvents      \* bound: events the compositor sends, delete_id aside

ProxyLifeAssumption ==
  /\ ClientIds \subseteq 1..100
  /\ ServerIds \subseteq Nat /\ \A id \in ServerIds : id > 100
  /\ MaxProxies \in Nat /\ MaxEvents \in Nat

VARIABLES
  map,           \* display->objects: a proxy's number, or one of the below
  proxies,       \* all proxies ever made; refcount 0 is memory given back
  out,           \* requests on their way
  resource,      \* the compositor's objects: which one an id stands for
  in,            \* events on their way
  fds,           \* file descriptors on their way, named by their event
  sent,          \* events sent
  queue,         \* closures in the event queue
  display_queue, \* ids of delete_id events
  running,       \* the closure whose handler runs, if any
  last_error

server == <<resource, sent>>
vars == <<map, proxies, out, server, in, fds, queue, display_queue, running, last_error>>

Ids == ClientIds \cup ServerIds

Free == 0        \* no entry, or one in the free list
Zombie == -1
Absent == -2     \* an entry without an object

\* once: the compositor destroys the object by itself, like a wl_callback.
Object(by, number, once) == [by |-> by, number |-> number, once |-> once]
NoObject == Object("nobody", 0, FALSE)

Nothing == [n |-> 0, proxy |-> 0, arg |-> 0, meant |-> NoObject, argMeant |-> NoObject, fd |-> 0, kind |-> "none"]

Init ==
  /\ map = [id \in Ids |-> Free]
  /\ resource = [id \in Ids |-> NoObject]
  /\ proxies = <<>> /\ out = <<>> /\ in = <<>> /\ fds = <<>> /\ sent = 0
  /\ queue = <<>> /\ display_queue = <<>> /\ running = Nothing
  /\ last_error = "none"
------------------------------------------------------------------------------
NewProxy(id, object) == [id |-> id, is |-> object, refcount |-> 1, destroyed |-> FALSE, deleted |-> FALSE]

\* wl_proxy_unref(), once for every member of the sequence.
Uses(p, s) == Cardinality({i \in DOMAIN s : s[i] = p})

unref(s, all) == [p \in DOMAIN all |-> [all[p] EXCEPT !.refcount = @ - Uses(p, s)]]

ref(s, all) == [p \in DOMAIN all |-> [all[p] EXCEPT !.refcount = @ + Uses(p, s)]]

\* wl_proxy_marshal_array_flags() with a new id: after an error nothing is sent.
Create(id, once) ==
  /\ Len(proxies) < MaxProxies /\ map[id] = Free
  /\ LET object == Object("client", Len(proxies) + 1, once) IN
     /\ proxies' = Append(proxies, NewProxy(id, object))
     /\ out' = IF last_error # "none" THEN out ELSE Append(out, [req |-> "create", id |-> id, object |-> object])
  /\ map' = [map EXCEPT ![id] = Len(proxies) + 1]
  /\ UNCHANGED <<server, in, fds, queue, display_queue, running, last_error>>

\* Mutants: the id is free at once; no zombie stays.
FreeAtOnce(p) == Free
NoZombies(p) == IF proxies[p].deleted THEN Free ELSE Absent

\* proxy_destroy(): the id of an object that the compositor may still name does
\* not become free.
EntryAfter(p) ==
  IF proxies[p].deleted THEN Free
  ELSE IF proxies[p].id \in ClientIds THEN Zombie
  ELSE Absent

\* A request with WL_MARSHAL_FLAG_DESTROY, or wl_proxy_destroy() of an object that
\* the compositor destroys by itself.
Destroy(p) ==
  /\ p \in DOMAIN proxies /\ ~proxies[p].destroyed
  /\ map' = [map EXCEPT ![proxies[p].id] = EntryAfter(p)]
  /\ proxies' = unref(<<p>>, [proxies EXCEPT ![p].destroyed = TRUE])
  /\ out' = IF ~proxies[p].is.once /\ last_error = "none"
              THEN Append(out, [req |-> "destroy", id |-> proxies[p].id, object |-> proxies[p].is])
              ELSE out
  /\ UNCHANGED <<server, in, fds, queue, display_queue, running, last_error>>
------------------------------------------------------------------------------
DeleteEvent(id) == [Nothing EXCEPT !.kind = "delete_id", !.arg = id]

\* The compositor reads a request.
Serve ==
  /\ out # <<>> /\ out' = Tail(out)
  /\ LET r == Head(out) IN
     IF r.req = "create"
       THEN resource' = [resource EXCEPT ![r.id] = r.object] /\ UNCHANGED in
       ELSE /\ resource' = [resource EXCEPT ![r.id] = NoObject]
            /\ in' = IF r.id \in ClientIds THEN Append(in, DeleteEvent(r.id)) ELSE in
  /\ UNCHANGED <<map, proxies, fds, sent, queue, display_queue, running, last_error>>

Event(id, kind, arg) ==
  [Nothing EXCEPT !.n = sent + 1, !.proxy = id, !.kind = kind, !.arg = arg,
                  !.meant = resource[id], !.argMeant = IF arg \in Ids THEN resource[arg] ELSE NoObject]

\* It sends an event of one of its objects: with nothing, a file descriptor, or
\* another one of its objects.
Send(id, kind, arg) ==
  /\ sent < MaxEvents /\ resource[id] # NoObject
  /\ \/ kind \in {"plain", "fd"} /\ arg = 0
     \/ kind = "object" /\ arg \in Ids /\ resource[arg] # NoObject
  /\ sent' = sent + 1
  /\ in' = Append(in, Event(id, kind, arg))
  /\ fds' = IF kind = "fd" THEN Append(fds, sent + 1) ELSE fds
  /\ UNCHANGED <<map, proxies, out, resource, queue, display_queue, running, last_error>>

\* With a new object, whose id is the first one it has free.
SendNew(id, arg) ==
  /\ sent < MaxEvents /\ resource[id] # NoObject
  /\ arg \in ServerIds /\ resource[arg] = NoObject
  /\ \A other \in ServerIds : other < arg => resource[other] # NoObject
  /\ LET object == Object("server", sent + 1, FALSE) IN
     /\ resource' = [resource EXCEPT ![arg] = object]
     /\ in' = Append(in, [Event(id, "new", arg) EXCEPT !.argMeant = object])
  /\ sent' = sent + 1
  /\ UNCHANGED <<map, proxies, out, fds, queue, display_queue, running, last_error>>

\* It destroys one of its objects after its last event.
ServerDestroy(id) ==
  /\ resource[id].once
  /\ resource' = [resource EXCEPT ![id] = NoObject]
  /\ in' = Append(in, DeleteEvent(id))
  /\ UNCHANGED <<map, proxies, out, fds, sent, queue, display_queue, running, last_error>>
------------------------------------------------------------------------------
Fails ==
  /\ last_error' = "EINVAL"
  /\ UNCHANGED <<map, proxies, queue, display_queue>>

\* queue_event() of an object that is gone: what zombies are for.
Eat(e) ==
  /\ fds' = IF e.kind = "fd" /\ map[e.proxy] = Zombie THEN Tail(fds) ELSE fds
  /\ UNCHANGED <<map, proxies, queue, display_queue, last_error>>

\* The proxies that a closure keeps.
Held(c) == IF c.arg > 0 THEN <<c.proxy, c.arg>> ELSE <<c.proxy>>

\* Mutant: the closure does not count as a user of its own proxy.
ArgumentsOnly(c) == Tail(Held(c))

\* increase_closure_args_refcount()
Counted(c) == Held(c)

Enqueue(c, all) ==
  /\ queue' = Append(queue, c)
  /\ proxies' = ref(Counted(c), all)
  /\ UNCHANGED <<display_queue, last_error>>

\* A new object of the compositor needs the entry next to those there are, or one
\* of those.
FitsMap(id) == \A other \in ServerIds : other < id => map[other] # Free

EnqueueNew(e) ==
  IF FitsMap(e.arg)
    THEN /\ map' = [map EXCEPT ![e.arg] = Len(proxies) + 1]
         /\ Enqueue([e EXCEPT !.proxy = map[e.proxy], !.arg = Len(proxies) + 1],
                    Append(proxies, NewProxy(e.arg, e.argMeant)))
    ELSE Fails

\* wl_closure_lookup_objects(): a zombie is passed as no object; an id without an
\* object is an error.
EnqueueObject(e) ==
  IF map[e.arg] \in {Free, Absent}
    THEN Fails
    ELSE /\ Enqueue([e EXCEPT !.proxy = map[e.proxy], !.arg = IF map[e.arg] = Zombie THEN 0 ELSE map[e.arg]], proxies)
         /\ UNCHANGED map

\* queue_event(), one event of read_events().
Read ==
  /\ in # <<>> /\ last_error = "none" /\ in' = Tail(in)
  /\ LET e == Head(in) IN
     IF e.kind = "delete_id"
       THEN /\ display_queue' = Append(display_queue, e.arg)
            /\ UNCHANGED <<map, proxies, fds, queue, last_error>>
     ELSE IF map[e.proxy] \in {Free, Absent, Zombie} THEN Eat(e)
     ELSE \/ e.kind = "new" /\ EnqueueNew(e) /\ UNCHANGED fds
          \/ e.kind = "object" /\ EnqueueObject(e) /\ UNCHANGED fds
          \/ /\ e.kind = "fd" /\ Enqueue([e EXCEPT !.proxy = map[e.proxy], !.fd = Head(fds)], proxies)
             /\ fds' = Tail(fds) /\ UNCHANGED map
          \/ /\ e.kind = "plain" /\ Enqueue([e EXCEPT !.proxy = map[e.proxy]], proxies)
             /\ UNCHANGED <<map, fds>>
  /\ UNCHANGED <<out, server, running>>

\* The connection fails for another reason.
Fail ==
  /\ last_error = "none" /\ last_error' = "lost"
  /\ UNCHANGED <<map, proxies, out, server, in, fds, queue, display_queue, running>>
------------------------------------------------------------------------------
\* Mutant: the entry stays a zombie.
EntryStays(id) == map[id]

EntryDeleted(id) == IF map[id] = Zombie THEN Free ELSE map[id]

\* display_handle_delete_id(), by whoever dispatches: a proxy that is still there
\* keeps the id until the client destroys it.
DispatchDeleteId ==
  /\ display_queue # <<>> /\ last_error = "none"
  /\ display_queue' = Tail(display_queue)
  /\ LET id == Head(display_queue) IN
     /\ map' = [map EXCEPT ![id] = EntryDeleted(id)]
     /\ proxies' = IF map[id] > 0 THEN [proxies EXCEPT ![map[id]].deleted = TRUE] ELSE proxies
  /\ UNCHANGED <<out, server, in, fds, queue, running, last_error>>

\* validate_closure_objects(): an argument that was destroyed meanwhile is passed as
\* no object.
Validated(c) == IF c.arg > 0 /\ proxies[c.arg].destroyed THEN [c EXCEPT !.arg = 0] ELSE c

\* Mutant: an event reaches an object that was destroyed after it was queued.
AnyReceiver(c) == FALSE

ReceiverGone(c) == proxies[c.proxy].destroyed

\* dispatch_event(): the handler runs without the mutex, unless the receiver is gone.
Dispatch ==
  /\ queue # <<>> /\ running = Nothing /\ display_queue = <<>> /\ last_error = "none"
  /\ queue' = Tail(queue)
  /\ LET c == Validated(Head(queue)) IN
     IF ReceiverGone(c)
       THEN proxies' = unref(Held(c), proxies) /\ UNCHANGED running
       ELSE running' = c /\ UNCHANGED proxies
  /\ UNCHANGED <<map, out, server, in, fds, display_queue, last_error>>

\* destroy_queued_closure() after the handler.
HandlerReturns ==
  /\ running # Nothing
  /\ proxies' = unref(Held(running), proxies)
  /\ running' = Nothing
  /\ UNCHANGED <<map, out, server, in, fds, queue, display_queue, last_error>>

\* wl_event_queue_release(), at wl_display_disconnect().
ReleaseQueue ==
  /\ last_error # "none" /\ running = Nothing /\ queue # <<>>
  /\ proxies' = unref(Held(Head(queue)), proxies)
  /\ queue' = Tail(queue)
  /\ UNCHANGED <<map, out, server, in, fds, display_queue, running, last_error>>

Next ==
  \/ \E id \in ClientIds : ServerDestroy(id) \/ \E once \in BOOLEAN : Create(id, once)
  \/ \E p \in 1..Len(proxies) : Destroy(p)
  \/ Serve
  \/ \E id \in Ids, kind \in {"plain", "fd", "object"}, arg \in Ids \cup {0} : Send(id, kind, arg)
  \/ \E id \in Ids, arg \in ServerIds : SendNew(id, arg)
  \/ Read \/ Fail
  \/ DispatchDeleteId \/ Dispatch \/ HandlerReturns \/ ReleaseQueue

\* The compositor answers, and the client goes on reading and dispatching.
Fairness ==
  /\ WF_vars(Serve) /\ \A id \in ClientIds : WF_vars(ServerDestroy(id))
  /\ WF_vars(Read) /\ WF_vars(DispatchDeleteId)

Spec == Init /\ [][Next]_vars /\ Fairness
------------------------------------------------------------------------------
Closures == {queue[i] : i \in DOMAIN queue} \cup ({running} \ {Nothing})

Objects == [by : {"nobody", "client", "server"}, number : Nat, once : BOOLEAN]

Events == [n : Nat, proxy : Nat, arg : Nat, meant : Objects, argMeant : Objects, fd : Nat,
           kind : {"none", "delete_id", "plain", "fd", "object", "new"}]

Requests == [req : {"create", "destroy"}, id : Ids, object : Objects]

ProxyRecords == [id : Ids, is : Objects, refcount : Int, destroyed : BOOLEAN, deleted : BOOLEAN]

TypeOK ==
  /\ map \in [Ids -> {Free, Zombie, Absent} \cup Nat]
  /\ proxies \in Seq(ProxyRecords)
  /\ out \in Seq(Requests)
  /\ resource \in [Ids -> Objects] /\ in \in Seq(Events) /\ fds \in Seq(Nat) /\ sent \in Nat
  /\ queue \in Seq(Events) /\ display_queue \in Seq(ClientIds) /\ running \in Events
  /\ last_error \in {"none", "lost", "EINVAL"}

\* How many closures keep a proxy; those that do are numbered by their events.
Keep(S, p) == Cardinality({c \in S : c.proxy = p}) + Cardinality({c \in S : c.arg = p})

Keepers(p) == Keep(Closures, p)

Owner(p) == IF proxies[p].destroyed THEN 0 ELSE 1

\* The memory of a proxy is there as long as the client has not destroyed it, an
\* event for it or with it is queued, or a handler has it (wl_proxy_unref,
\* increase_closure_args_refcount, destroy_queued_closure), also when it is
\* destroyed meanwhile.
NoUseAfterFree == \A p \in DOMAIN proxies : proxies[p].refcount >= Owner(p) + Keepers(p)

\* An event goes to the object that the compositor meant, and so does its argument,
\* and not to another one that got the same id (proxy_destroy, queue_event).
EventsReachTheirObject ==
  \A c \in Closures :
    /\ proxies[c.proxy].is = c.meant
    /\ c.arg > 0 => proxies[c.arg].is = c.argMeant

\* An id that the client may give to a new object means nothing to the compositor
\* any more, and nothing that means the old object is on its way.
FreeIdsUnknown ==
  \A id \in ClientIds : map[id] = Free =>
    /\ resource[id] = NoObject
    /\ \A i \in DOMAIN out : out[i].id # id
    /\ \A i \in DOMAIN in : id \notin {in[i].proxy, in[i].arg}

\* A handler is called for objects that are there (validate_closure_objects,
\* dispatch_event).
HandlersGetLiveObjects ==
  [][running' \notin {Nothing, running} =>
       \A i \in DOMAIN Held(running') : ~proxies[Held(running')[i]].destroyed]_vars

\* "just eat the event (and any FDs, if applicable)" (queue_event): a handler gets
\* the file descriptor that came with its event.  It holds for ServerIds = {}: an
\* object of the compositor leaves no zombie that tells of its descriptors.
FdsFollowEvents == \A c \in Closures : c.kind = "fd" => c.fd = c.n

\* "just eat the event" (queue_event), "references object we've already destroyed
\* client side" (wl_closure_lookup_objects): a compositor that has not heard of a
\* destruction yet does nothing that ends the connection.  It holds for
\* ServerIds = {}, again for want of a zombie.
ConnectionSurvives == last_error # "EINVAL"

\* The id of a destroyed object comes back.
IdsComeBack == \A id \in ClientIds : map[id] = Zombie ~> (map[id] # Zombie \/ last_error # "none")
------------------------------------------------------------------------------
(* What makes these inductive. *)

\* A proxy that the client has not destroyed is the one in its id's entry; zombies
\* are for the client's ids only.
EntriesFit ==
  /\ \A id \in Ids : map[id] > 0 =>
       map[id] \in DOMAIN proxies /\ proxies[map[id]].id = id /\ ~proxies[map[id]].destroyed
  /\ \A p \in DOMAIN proxies :
       /\ ~proxies[p].destroyed => map[proxies[p].id] = p
       /\ proxies[p].deleted => proxies[p].id \in ClientIds
       /\ proxies[p].is # NoObject
       /\ proxies[p].id \in ServerIds => ~proxies[p].is.once
  /\ \A id \in Ids : map[id] # (IF id \in ClientIds THEN Absent ELSE Zombie)

\* What is on its way about an id, and whether the compositor knows it.
Asked(id, req) == \E i \in DOMAIN out : out[i].req = req /\ out[i].id = id
Making(id) == Asked(id, "create")
Ending(id) == Asked(id, "destroy")
Deleting(id) == \E i \in DOMAIN in : in[i].kind = "delete_id" /\ in[i].arg = id
Deleted(id) == id \in ToSet(display_queue)
Known(id) == resource[id] # NoObject

\* A request is on its way once, the one that makes an object before the one that
\* destroys it; what the compositor destroys by itself the client does not.
RequestsFit ==
  /\ \A i, j \in DOMAIN out : out[i].id = out[j].id /\ out[i].req = out[j].req => i = j
  /\ \A i \in DOMAIN out :
       IF out[i].req = "destroy" THEN ~resource[out[i].id].once
       ELSE /\ out[i].id \in ClientIds /\ out[i].object # NoObject
            /\ map[out[i].id] > 0 => out[i].object = proxies[map[out[i].id]].is
            /\ \A j \in DOMAIN out : out[j].req = "destroy" /\ out[j].id = out[i].id =>
                 i < j /\ ~out[i].object.once

\* An id of the client's is in one place at a time: in the request that makes its
\* object, with the compositor, in the delete_id that is on its way or waits to be
\* dispatched, or back with the client.
ClientIdsFit ==
  \A id \in ClientIds :
    /\ Making(id) => ~Known(id) /\ ~Deleting(id) /\ ~Deleted(id)
    /\ Known(id) => ~Deleting(id) /\ ~Deleted(id)
    /\ Deleting(id) => ~Deleted(id)
    /\ map[id] = Free => ~Making(id) /\ ~Known(id) /\ ~Deleting(id) /\ ~Deleted(id)
    /\ Ending(id) => map[id] = Zombie /\ (Making(id) \/ Known(id))
    /\ map[id] > 0 =>
         LET x == proxies[map[id]] IN
         /\ Known(id) => resource[id] = x.is
         /\ x.deleted => ~Making(id) /\ ~Known(id) /\ ~Deleting(id) /\ ~Deleted(id)
         /\ Deleting(id) \/ Deleted(id) \/ x.deleted => x.is.once
         /\ last_error = "none" => Making(id) \/ Known(id) \/ Deleting(id) \/ Deleted(id) \/ x.deleted

\* An event names objects that the compositor has, or had when it sent it.
Says(e, id, x) ==
  /\ e.proxy = id => e.meant = x
  /\ e.kind = "object" /\ e.arg = id => e.argMeant = x

Names(e, id) == e.kind # "delete_id" /\ (e.proxy = id \/ (e.kind = "object" /\ e.arg = id))

EventFits(e) ==
  IF e.kind = "delete_id" THEN e = DeleteEvent(e.arg) /\ e.arg \in ClientIds
  ELSE /\ e.kind \in {"plain", "fd", "object", "new"} /\ e.n \in 1..sent /\ e.proxy \in Ids
       /\ e.kind \in {"plain", "fd"} => e.arg = 0
       /\ e.kind = "object" => e.arg \in Ids
       /\ e.kind = "new" => e.arg \in ServerIds /\ e.argMeant # NoObject

EventsFit ==
  /\ \A i \in DOMAIN in : EventFits(in[i])
  /\ \A i, j \in DOMAIN in : i < j /\ in[i].kind # "delete_id" /\ in[j].kind # "delete_id" => in[i].n < in[j].n
  /\ \A i, j \in DOMAIN in : in[i].kind = "delete_id" /\ in[j].kind = "delete_id" /\ in[i].arg = in[j].arg => i = j
  /\ \A i, j \in DOMAIN display_queue : display_queue[i] = display_queue[j] => i = j

\* An event is before the delete_id of an object it names, and means the object that
\* the client has for its id, if it has one.
NamesFit ==
  /\ \A i \in DOMAIN in : \A id \in ClientIds : Names(in[i], id) =>
       Known(id) \/ \E k \in DOMAIN in : k > i /\ in[k].kind = "delete_id" /\ in[k].arg = id
  /\ \A id \in Ids : map[id] > 0 =>
       \A i \in DOMAIN in : in[i].kind # "delete_id" => Says(in[i], id, proxies[map[id]].is)

\* The compositor gives an id of its own to a new object when it has read that the
\* client has destroyed the last one.
IsNew(e, id) == e.kind = "new" /\ e.arg = id

ServerIdsFit ==
  \A id \in ServerIds :
    /\ ~resource[id].once
    /\ map[id] > 0 => resource[id] = proxies[map[id]].is /\ ~Ending(id)
    /\ Ending(id) => Known(id) /\ map[id] = Absent
    /\ \A k \in DOMAIN in : IsNew(in[k], id) =>
         /\ map[id] \in {Free, Absent} /\ resource[id] = in[k].argMeant /\ ~Ending(id)
         /\ \A i \in DOMAIN in : IsNew(in[i], id) => i = k
         /\ \A i \in DOMAIN in : i > k /\ in[i].kind # "delete_id" => Says(in[i], id, in[k].argMeant)

\* Closures are queued and handled in the order of their events.
ClosureFits(c) ==
  /\ c.n \in 1..sent /\ c.proxy \in DOMAIN proxies /\ c.arg \in {0} \cup DOMAIN proxies
  /\ \A i \in DOMAIN in : in[i].kind # "delete_id" => c.n < in[i].n

ClosuresFit ==
  /\ \A c \in Closures : ClosureFits(c)
  /\ \A i, j \in DOMAIN queue : i < j => queue[i].n < queue[j].n
  /\ running # Nothing => \A i \in DOMAIN queue : running.n < queue[i].n

\* Descriptors come in the order of their events, and none is missing; none is left
\* over from an event that was eaten, if there are no objects of the compositor.
FdsFit ==
  /\ \A i, j \in DOMAIN fds : i < j => fds[i] < fds[j]
  /\ \A i \in DOMAIN fds : fds[i] <= sent
  /\ \A i \in DOMAIN in : in[i].kind = "fd" => \E k \in DOMAIN fds : fds[k] = in[i].n
  /\ ServerIds = {} => \A k \in DOMAIN fds : \E i \in DOMAIN in : in[i].kind = "fd" /\ fds[k] = in[i].n

Inv ==
  /\ TypeOK /\ EntriesFit /\ RequestsFit /\ ClientIdsFit /\ EventsFit /\ NamesFit /\ ServerIdsFit
  /\ ClosuresFit /\ FdsFit /\ NoUseAfterFree /\ EventsReachTheirObject
  /\ ServerIds = {} => FdsFollowEvents /\ ConnectionSurvives

------------------------------------------------------------------------------
\* One for a fact that holds.
One(fact) == IF fact THEN 1 ELSE 0

\* Adding one to what is counted, if it belongs to it.
LEMMA CountOne ==
  ASSUME NEW S, IsFiniteSet(S), NEW c, c \notin S, NEW in_it \in BOOLEAN
  PROVE  Cardinality(S \cup (IF in_it THEN {c} ELSE {})) = Cardinality(S) + One(in_it)
<1>1. CASE in_it
  BY <1>1, FS_AddElement DEF One
<1>2. CASE ~in_it
  <2>1. S \cup (IF in_it THEN {c} ELSE {}) = S
    BY <1>2
  <2> QED
    BY <1>2, <2>1, FS_CardinalityType DEF One
<1> QED
  BY <1>1, <1>2

\* None or one.
LEMMA CountFirst ==
  ASSUME NEW c, NEW in_it \in BOOLEAN
  PROVE  /\ IsFiniteSet(IF in_it THEN {c} ELSE {})
         /\ Cardinality(IF in_it THEN {c} ELSE {}) = One(in_it)
<1>1. CASE in_it
  BY <1>1, FS_Singleton DEF One
<1>2. CASE ~in_it
  BY <1>2, FS_EmptySet DEF One
<1> QED
  BY <1>1, <1>2

\* A closure more.
LEMMA KeepMore ==
  ASSUME NEW S, IsFiniteSet(S), NEW c, c \notin S, NEW p
  PROVE  /\ Keep(S \cup {c}, p) = Keep(S, p) + One(c.proxy = p) + One(c.arg = p)
         /\ Keep(S, p) \in Nat
<1>1. {x \in S \cup {c} : x.proxy = p} = {x \in S : x.proxy = p} \cup (IF c.proxy = p THEN {c} ELSE {})
  OBVIOUS
<1>2. {x \in S \cup {c} : x.arg = p} = {x \in S : x.arg = p} \cup (IF c.arg = p THEN {c} ELSE {})
  OBVIOUS
<1>3. IsFiniteSet({x \in S : x.proxy = p}) /\ IsFiniteSet({x \in S : x.arg = p})
  BY FS_Subset
<1>4. Cardinality({x \in S \cup {c} : x.proxy = p}) = Cardinality({x \in S : x.proxy = p}) + One(c.proxy = p)
  <2>0. PICK T : T = {x \in S : x.proxy = p}
    OBVIOUS
  <2>1. PICK b \in BOOLEAN : b = (c.proxy = p)
    OBVIOUS
  <2>2. Cardinality(T \cup (IF b THEN {c} ELSE {})) = Cardinality(T) + One(b)
    <3>1. IsFiniteSet(T) /\ c \notin T
      BY <1>3, <2>0
    <3> QED
      BY <3>1, CountOne
  <2> QED
    BY <1>1, <2>0, <2>1, <2>2
<1>5. Cardinality({x \in S \cup {c} : x.arg = p}) = Cardinality({x \in S : x.arg = p}) + One(c.arg = p)
  <2>0. PICK T : T = {x \in S : x.arg = p}
    OBVIOUS
  <2>1. PICK b \in BOOLEAN : b = (c.arg = p)
    OBVIOUS
  <2>2. Cardinality(T \cup (IF b THEN {c} ELSE {})) = Cardinality(T) + One(b)
    <3>1. IsFiniteSet(T) /\ c \notin T
      BY <1>3, <2>0
    <3> QED
      BY <3>1, CountOne
  <2> QED
    BY <1>2, <2>0, <2>1, <2>2
<1>6. Cardinality({x \in S : x.proxy = p}) \in Nat /\ Cardinality({x \in S : x.arg = p}) \in Nat
  BY <1>3, FS_CardinalityType
<1> QED
  BY <1>4, <1>5, <1>6 DEF Keep, One

\* How often a closure uses a proxy.
LEMMA HeldUses ==
  ASSUME NEW c \in Events, NEW p \in Nat \ {0}
  PROVE  Uses(p, Held(c)) = One(c.proxy = p) + One(c.arg = p)
<1>1. CASE c.arg > 0
  <2>1. Held(c) = <<c.proxy, c.arg>> /\ DOMAIN Held(c) = 1..2
    BY <1>1 DEF Held
  <2>2. {i \in DOMAIN Held(c) : Held(c)[i] = p} =
          (IF c.proxy = p THEN {1} ELSE {}) \cup (IF c.arg = p THEN {2} ELSE {})
    BY <2>1
  <2>3. Cardinality((IF c.proxy = p THEN {1} ELSE {})) = One(c.proxy = p)
    BY CountFirst
  <2>4. IsFiniteSet((IF c.proxy = p THEN {1} ELSE {}))
    BY CountFirst
  <2>6. 2 \notin (IF c.proxy = p THEN {1} ELSE {})
    OBVIOUS
  <2>5. Cardinality((IF c.proxy = p THEN {1} ELSE {}) \cup (IF c.arg = p THEN {2} ELSE {}))
          = One(c.proxy = p) + One(c.arg = p)
    <3>1. PICK S : S = (IF c.proxy = p THEN {1} ELSE {})
      OBVIOUS
    <3>2. (c.arg = p) \in BOOLEAN /\ IsFiniteSet(S) /\ 2 \notin S
      BY <2>4, <2>6, <3>1
    <3>3. Cardinality(S \cup (IF c.arg = p THEN {2} ELSE {})) = Cardinality(S) + One(c.arg = p)
      BY <3>2, CountOne
    <3> QED
      BY <2>3, <3>1, <3>3
  <2> QED
    BY <2>2, <2>5 DEF Uses
<1>2. CASE ~(c.arg > 0)
  <2>1. Held(c) = <<c.proxy>> /\ DOMAIN Held(c) = 1..1 /\ c.arg # p
    BY <1>2 DEF Held, Events
  <2>2. {i \in DOMAIN Held(c) : Held(c)[i] = p} = (IF c.proxy = p THEN {1} ELSE {})
    BY <2>1
  <2>3. Cardinality((IF c.proxy = p THEN {1} ELSE {})) = One(c.proxy = p)
    BY CountFirst
  <2> QED
    BY <2>1, <2>2, <2>3 DEF Uses, One
<1> QED
  BY <1>1, <1>2

\* What unref and ref leave of the proxies.
SameRecord(x, y) ==
  y \in ProxyRecords /\ y.id = x.id /\ y.is = x.is /\ y.destroyed = x.destroyed /\ y.deleted = x.deleted

SameButCount(s, t) ==
  t \in Seq(ProxyRecords) /\ Len(t) = Len(s) /\ DOMAIN t = DOMAIN s /\ \A p \in DOMAIN s : SameRecord(s[p], t[p])

\* One record with another count.
LEMMA Recounted ==
  ASSUME NEW x \in ProxyRecords, NEW n \in Int, NEW y, y = [x EXCEPT !.refcount = n]
  PROVE  SameRecord(x, y) /\ y.refcount = n
<1>1. DOMAIN x = {"id", "is", "refcount", "destroyed", "deleted"}
  BY DEF ProxyRecords
<1> QED
  BY <1>1 DEF ProxyRecords, SameRecord

\* Records that are the same but for counts.
LEMMA SameOnes ==
  ASSUME NEW s \in Seq(ProxyRecords), NEW t, t = [p \in 1..Len(s) |-> t[p]], \A p \in DOMAIN s : SameRecord(s[p], t[p])
  PROVE  SameButCount(s, t)
<1>1. DOMAIN s = 1..Len(s) /\ Len(s) \in Nat
  OBVIOUS
<1>2. t \in [1..Len(s) -> ProxyRecords]
  BY <1>1 DEF SameRecord
<1>3. t \in Seq(ProxyRecords) /\ Len(t) = Len(s)
  BY <1>1, <1>2
<1> QED
  BY <1>1, <1>2, <1>3 DEF SameButCount

\* A sequence of them, counted down or up.
LEMMA Recount ==
  ASSUME NEW s \in Seq(ProxyRecords), NEW c \in Events
  PROVE  /\ SameButCount(s, unref(Held(c), s)) /\ SameButCount(s, ref(Held(c), s))
         /\ \A p \in DOMAIN s :
              /\ unref(Held(c), s)[p].refcount = s[p].refcount - One(c.proxy = p) - One(c.arg = p)
              /\ ref(Held(c), s)[p].refcount = s[p].refcount + One(c.proxy = p) + One(c.arg = p)
<1>1. \A p \in DOMAIN s : s[p] \in ProxyRecords /\ s[p].refcount \in Int /\ p \in Nat \ {0}
  <2>1. \A p \in DOMAIN s : s[p] \in ProxyRecords /\ p \in Nat \ {0}
    OBVIOUS
  <2> QED
    BY <2>1 DEF ProxyRecords
<1>2. \A p \in DOMAIN s : Uses(p, Held(c)) = One(c.proxy = p) + One(c.arg = p) /\ Uses(p, Held(c)) \in Nat
  BY <1>1, HeldUses DEF One
<1>3. unref(Held(c), s) = [p \in DOMAIN s |-> [s[p] EXCEPT !.refcount = s[p].refcount - Uses(p, Held(c))]]
  BY DEF unref
<1>4. ref(Held(c), s) = [p \in DOMAIN s |-> [s[p] EXCEPT !.refcount = s[p].refcount + Uses(p, Held(c))]]
  BY DEF ref
<1>5. DOMAIN s = 1..Len(s) /\ Len(s) \in Nat
  OBVIOUS
<1>6. \A p \in DOMAIN s : s[p].refcount - Uses(p, Held(c)) \in Int /\ s[p].refcount + Uses(p, Held(c)) \in Int
  BY <1>1, <1>2
<1>7. /\ DOMAIN unref(Held(c), s) = 1..Len(s) /\ DOMAIN ref(Held(c), s) = 1..Len(s)
      /\ \A p \in DOMAIN s :
           /\ unref(Held(c), s)[p] = [s[p] EXCEPT !.refcount = s[p].refcount - Uses(p, Held(c))]
           /\ ref(Held(c), s)[p] = [s[p] EXCEPT !.refcount = s[p].refcount + Uses(p, Held(c))]
  BY <1>3, <1>4, <1>5
<1>8. ASSUME NEW p \in DOMAIN s
      PROVE  /\ SameRecord(s[p], unref(Held(c), s)[p]) /\ SameRecord(s[p], ref(Held(c), s)[p])
             /\ unref(Held(c), s)[p].refcount = s[p].refcount - Uses(p, Held(c))
             /\ ref(Held(c), s)[p].refcount = s[p].refcount + Uses(p, Held(c))
  <2>1. PICK y : y = unref(Held(c), s)[p]
    OBVIOUS
  <2>2. PICK z : z = ref(Held(c), s)[p]
    OBVIOUS
  <2>5. PICK x : x = s[p] /\ x \in ProxyRecords
    BY <1>1
  <2>6. PICK less \in Int, more \in Int : less = s[p].refcount - Uses(p, Held(c)) /\ more = s[p].refcount + Uses(p, Held(c))
    BY <1>6
  <2>7. y = [x EXCEPT !.refcount = less] /\ z = [x EXCEPT !.refcount = more]
    BY <1>7, <2>1, <2>2, <2>5, <2>6
  <2>3. SameRecord(s[p], y) /\ y.refcount = s[p].refcount - Uses(p, Held(c))
    BY <2>5, <2>6, <2>7, Recounted
  <2>4. SameRecord(s[p], z) /\ z.refcount = s[p].refcount + Uses(p, Held(c))
    BY <2>5, <2>6, <2>7, Recounted
  <2> QED
    BY <2>1, <2>2, <2>3, <2>4
<1>9. unref(Held(c), s) = [p \in 1..Len(s) |-> unref(Held(c), s)[p]] /\ ref(Held(c), s) = [p \in 1..Len(s) |-> ref(Held(c), s)[p]]
  BY <1>3, <1>4, <1>5
<1>10. SameButCount(s, unref(Held(c), s)) /\ SameButCount(s, ref(Held(c), s))
  BY <1>5, <1>7, <1>8, <1>9, SameOnes
<1> QED
  BY <1>1, <1>2, <1>8, <1>10 DEF One

\* Closures are finitely many events.
LEMMA ClosuresFinite ==
  ASSUME TypeOK
  PROVE  IsFiniteSet(Closures) /\ Closures \subseteq Events
<1>1. queue \in Seq(Events) /\ running \in Events
  BY DEF TypeOK
<1>2. IsFiniteSet(DOMAIN queue)
  <2>1. DOMAIN queue = 1..Len(queue) /\ Len(queue) \in Nat
    BY <1>1
  <2> QED
    BY <2>1, FS_Interval
<1>3. IsFiniteSet({queue[i] : i \in DOMAIN queue})
  <2>1. queue \in Surjection(DOMAIN queue, {queue[i] : i \in DOMAIN queue})
    BY <1>1 DEF Surjection
  <2> QED
    BY <1>2, <2>1, FS_Surjection
<1>4. IsFiniteSet({running} \ {Nothing})
  BY FS_Singleton, FS_Difference
<1>5. IsFiniteSet(Closures)
  BY <1>3, <1>4, FS_Union DEF Closures
<1>6. Closures \subseteq Events
  BY <1>1 DEF Closures
<1> QED
  BY <1>5, <1>6

\* The first of a queue, and the others.
LEMMA QueueHead ==
  ASSUME TypeOK, ClosuresFit, queue # <<>>
  PROVE  /\ Head(queue) = queue[1] /\ Head(queue) \in Closures /\ Head(queue) # running
         /\ {Tail(queue)[i] : i \in DOMAIN Tail(queue)} = {queue[i] : i \in DOMAIN queue} \ {Head(queue)}
         /\ Tail(queue) \in Seq(Events)
         /\ \A i \in DOMAIN Tail(queue) : i + 1 \in DOMAIN queue /\ Tail(queue)[i] = queue[i + 1] /\ queue[1].n < queue[i + 1].n
<1>1. queue \in Seq(Events) /\ running \in Events /\ 1 \in DOMAIN queue
  BY DEF TypeOK
<1>2. \A i \in DOMAIN queue : queue[i] \in Events /\ queue[i].n \in Nat
  <2>1. \A i \in DOMAIN queue : queue[i] \in Events
    BY <1>1
  <2> QED
    BY <2>1 DEF Events
<1>3. \A i, j \in DOMAIN queue : i < j => queue[i].n < queue[j].n
  BY DEF ClosuresFit
<1>4. Head(queue) = queue[1] /\ Tail(queue) \in Seq(Events)
  BY <1>1
<1>5. Len(queue) \in Nat \ {0} /\ DOMAIN queue = 1..Len(queue) /\ DOMAIN Tail(queue) = 1..(Len(queue) - 1)
  BY <1>1
<1>6. \A i \in DOMAIN Tail(queue) : i + 1 \in DOMAIN queue /\ Tail(queue)[i] = queue[i + 1] /\ queue[1].n < queue[i + 1].n
  <2>1. \A i \in DOMAIN Tail(queue) : i + 1 \in DOMAIN queue /\ Tail(queue)[i] = queue[i + 1] /\ 1 < i + 1
    BY <1>1, <1>5
  <2> QED
    BY <1>1, <1>3, <2>1
<1>7. \A i \in DOMAIN queue : i = 1 \/ (i - 1 \in DOMAIN Tail(queue) /\ Tail(queue)[i - 1] = queue[i] /\ queue[i] # queue[1])
  <2> SUFFICES ASSUME NEW i \in DOMAIN queue, i # 1
               PROVE  i - 1 \in DOMAIN Tail(queue) /\ Tail(queue)[i - 1] = queue[i] /\ queue[i] # queue[1]
    OBVIOUS
  <2>1. i - 1 \in DOMAIN Tail(queue) /\ i - 1 + 1 = i
    BY <1>5
  <2>2. Tail(queue)[i - 1] = queue[i] /\ queue[1].n < queue[i].n
    BY <1>6, <2>1
  <2> QED
    BY <1>1, <1>2, <2>1, <2>2
<1>8. \A i \in DOMAIN Tail(queue) : queue[i + 1] # queue[1]
  BY <1>1, <1>2, <1>6
<1>9. {Tail(queue)[i] : i \in DOMAIN Tail(queue)} = {queue[i] : i \in DOMAIN queue} \ {Head(queue)}
  <2>1. ASSUME NEW i \in DOMAIN Tail(queue)
        PROVE  Tail(queue)[i] \in {queue[j] : j \in DOMAIN queue} \ {Head(queue)}
    BY <1>4, <1>6, <1>8
  <2>2. ASSUME NEW i \in DOMAIN queue, queue[i] # Head(queue)
        PROVE  queue[i] \in {Tail(queue)[j] : j \in DOMAIN Tail(queue)}
    BY <1>4, <1>7, <2>2
  <2> QED
    BY <2>1, <2>2
<1>10. Head(queue) \in Closures
  BY <1>1, <1>4 DEF Closures
<1>11. Head(queue) # running
  <2>1. CASE running = Nothing
    <3>1. Head(queue).n # 0
      <4>1. ClosureFits(Head(queue))
        BY <1>10 DEF ClosuresFit
      <4>2. sent \in Nat
        BY DEF TypeOK
      <4> QED
        BY <4>1, <4>2 DEF ClosureFits
    <3>2. running.n = 0
      BY <2>1 DEF Nothing
    <3> QED
      BY <3>1, <3>2
  <2>2. CASE running # Nothing
    <3>1. running.n < queue[1].n
      BY <1>1, <2>2 DEF ClosuresFit
    <3> QED
      BY <1>1, <1>2, <1>4, <3>1
  <2> QED
    BY <2>1, <2>2
<1> QED
  BY <1>4, <1>6, <1>9, <1>10, <1>11

\* A closure that is given up, or handled without an argument that is gone, leaves
\* enough references.
LEMMA Released ==
  ASSUME TypeOK, NoUseAfterFree, NEW c \in Closures, NEW h \in Events, h.proxy = c.proxy, h.arg \in {0, c.arg},
         \/ Closures' = Closures \ {c} /\ proxies' = unref(Held(h), proxies)
         \/ Closures' = (Closures \ {c}) \cup {h} /\ h \notin Closures \ {c} /\ proxies' = proxies
  PROVE  NoUseAfterFree' /\ SameButCount(proxies, proxies')
<1>1. /\ IsFiniteSet(Closures) /\ Closures \subseteq Events
      /\ proxies \in Seq(ProxyRecords) /\ h.proxy \in Nat /\ h.arg \in Nat
  <2>1. h.proxy \in Nat /\ h.arg \in Nat
    BY DEF Events
  <2> QED
    BY <2>1, ClosuresFinite DEF TypeOK, ProxyRecords
<1>2. \A p \in DOMAIN proxies : proxies[p] \in ProxyRecords /\ p \in Nat \ {0} /\ proxies[p].refcount \in Int
  <2>1. \A p \in DOMAIN proxies : proxies[p] \in ProxyRecords /\ p \in Nat \ {0}
    BY <1>1
  <2> QED
    BY <2>1 DEF ProxyRecords
<1>3. PICK S : S = Closures \ {c}
  OBVIOUS
<1>4. IsFiniteSet(S) /\ c \notin S /\ Closures = S \cup {c}
  BY <1>1, <1>3, FS_Difference
<1>5. \A p : Keepers(p) = Keep(S, p) + One(c.proxy = p) + One(c.arg = p) /\ Keep(S, p) \in Nat
  BY <1>4, KeepMore DEF Keepers
<1>6. \A p \in DOMAIN proxies : proxies[p].refcount >= Owner(p) + Keep(S, p) + One(c.proxy = p) + One(c.arg = p)
  BY <1>5, <1>2 DEF NoUseAfterFree, Owner, One
<1>7. CASE Closures' = Closures \ {c} /\ proxies' = unref(Held(h), proxies)
  <2>1. /\ SameButCount(proxies, proxies')
        /\ \A p \in DOMAIN proxies : proxies'[p].refcount = proxies[p].refcount - One(h.proxy = p) - One(h.arg = p)
    BY <1>1, <1>7, Recount
  <2>2. \A p : Keepers(p)' = Keep(S, p)
    BY <1>3, <1>7 DEF Keepers, Keep
  <2>3. ASSUME NEW p \in DOMAIN proxies' PROVE proxies'[p].refcount >= Owner(p)' + Keepers(p)'
    <3>1. p \in DOMAIN proxies /\ Owner(p)' = Owner(p) /\ p \in Nat \ {0}
      BY <1>2, <2>1 DEF SameButCount, SameRecord, Owner
    <3>2. proxies[p].refcount >= Owner(p) + Keep(S, p) + One(h.proxy = p) + One(h.arg = p)
      BY <1>2, <1>5, <1>6, <3>1 DEF One, Owner
    <3> QED
      BY <1>2, <1>5, <2>1, <2>2, <3>1, <3>2 DEF One, Owner
  <2> QED
    BY <2>1, <2>3 DEF NoUseAfterFree
<1>8. CASE Closures' = (Closures \ {c}) \cup {h} /\ h \notin Closures \ {c} /\ proxies' = proxies
  <2>1. \A p : Keepers(p)' = Keep(S \cup {h}, p)
    BY <1>3, <1>8 DEF Keepers, Keep
  <2>2. \A p : Keep(S \cup {h}, p) = Keep(S, p) + One(h.proxy = p) + One(h.arg = p)
    BY <1>3, <1>4, <1>8, KeepMore
  <2>3. ASSUME NEW p \in DOMAIN proxies PROVE proxies[p].refcount >= Owner(p)' + Keepers(p)'
    <3>1. Owner(p)' = Owner(p) /\ p \in Nat \ {0} /\ Owner(p) \in 0..1
      BY <1>2, <1>8 DEF Owner
    <3>2. Keepers(p)' = Keep(S, p) + One(h.proxy = p) + One(h.arg = p) /\ Keep(S, p) \in Nat
      BY <1>5, <2>1, <2>2
    <3>3. proxies[p].refcount >= Owner(p) + Keep(S, p) + One(c.proxy = p) + One(c.arg = p) /\ proxies[p].refcount \in Int
      BY <1>2, <1>6
    <3>4. One(h.proxy = p) = One(c.proxy = p) /\ One(h.arg = p) <= One(c.arg = p)
          /\ One(c.proxy = p) \in 0..1 /\ One(h.arg = p) \in 0..1 /\ One(c.arg = p) \in 0..1
      BY <3>1 DEF One
    <3> QED
      BY <3>1, <3>2, <3>3, <3>4
  <2>4. SameButCount(proxies, proxies)
    BY <1>1, <1>2 DEF SameButCount, SameRecord
  <2> QED
    BY <1>8, <2>3, <2>4 DEF NoUseAfterFree
<1> QED
  BY <1>7, <1>8

\* A closure more, and its proxies counted up.
LEMMA Enqueued ==
  ASSUME TypeOK, NoUseAfterFree, NEW c \in Events, c \notin Closures, Closures' = Closures \cup {c},
         NEW all \in Seq(ProxyRecords), DOMAIN proxies \subseteq DOMAIN all, DOMAIN all \subseteq Nat \ {0},
         \A p \in DOMAIN proxies : all[p] = proxies[p],
         \A p \in DOMAIN all \ DOMAIN proxies : all[p].refcount = 1 /\ Keep(Closures, p) = 0,
         proxies' = ref(Held(c), all)
  PROVE  NoUseAfterFree' /\ SameButCount(all, proxies')
<1>1. /\ IsFiniteSet(Closures)
      /\ \A p \in DOMAIN all : all[p] \in ProxyRecords /\ all[p].refcount \in Int
  <2>1. \A p \in DOMAIN all : all[p] \in ProxyRecords
    OBVIOUS
  <2> QED
    BY <2>1, ClosuresFinite DEF ProxyRecords
<1>2. /\ SameButCount(all, proxies')
      /\ \A p \in DOMAIN all : proxies'[p].refcount = all[p].refcount + One(c.proxy = p) + One(c.arg = p)
  BY Recount
<1>3. \A p : /\ Keepers(p)' = Keep(Closures, p) + One(c.proxy = p) + One(c.arg = p)
             /\ Keep(Closures, p) \in Nat
  <2>1. \A p : Keepers(p)' = Keep(Closures \cup {c}, p)
    BY DEF Keepers, Keep
  <2> QED
    BY <1>1, <2>1, KeepMore
<1>4. ASSUME NEW p \in DOMAIN proxies' PROVE proxies'[p].refcount >= Owner(p)' + Keepers(p)'
  <2>1. p \in DOMAIN all /\ Owner(p)' = (IF all[p].destroyed THEN 0 ELSE 1)
    BY <1>2 DEF SameButCount, SameRecord, Owner
  <2>2. CASE p \in DOMAIN proxies
    <3>1. all[p].refcount >= Owner(p)' + Keep(Closures, p)
      BY <2>1, <2>2 DEF NoUseAfterFree, Owner, Keepers
    <3> QED
      BY <1>1, <1>2, <1>3, <2>1, <3>1 DEF One
  <2>3. CASE p \notin DOMAIN proxies
    BY <1>1, <1>2, <1>3, <2>1, <2>3 DEF One
  <2> QED
    BY <2>2, <2>3
<1> QED
  BY <1>2, <1>4 DEF NoUseAfterFree

\* Requests name ids.
LEMMA RequestIds ==
  ASSUME TypeOK
  PROVE  \A i \in DOMAIN out : out[i] \in Requests /\ out[i].id \in Ids /\ out[i].req \in {"create", "destroy"} /\ out[i].object \in Objects
<1>1. out \in Seq(Requests)
  BY DEF TypeOK, Requests
<1>2. \A i \in DOMAIN out : out[i] \in Requests
  BY <1>1
<1> QED
  BY <1>2 DEF Requests

\* What is said of ids, requests and events does not depend on how often proxies are
\* used.
LEMMA Quiet ==
  ASSUME Inv, UNCHANGED <<map, out, server, in, fds, display_queue>>, SameButCount(proxies, proxies'),
         last_error' = last_error \/ last_error' # "none"
  PROVE  /\ EntriesFit' /\ RequestsFit' /\ ClientIdsFit' /\ EventsFit' /\ NamesFit' /\ ServerIdsFit' /\ FdsFit'
         /\ \A id \in Ids : map[id] > 0 => proxies'[map[id]].is = proxies[map[id]].is
<1>1. /\ map' = map /\ out' = out /\ resource' = resource /\ sent' = sent /\ in' = in /\ fds' = fds
      /\ display_queue' = display_queue
  BY DEF server
<1>2. /\ EntriesFit /\ RequestsFit /\ ClientIdsFit /\ EventsFit /\ NamesFit /\ ServerIdsFit /\ FdsFit
  BY DEF Inv
<1>3. DOMAIN proxies' = DOMAIN proxies
  BY DEF SameButCount
<1>4. \A p \in DOMAIN proxies : /\ proxies'[p].id = proxies[p].id /\ proxies'[p].is = proxies[p].is
                                /\ proxies'[p].destroyed = proxies[p].destroyed /\ proxies'[p].deleted = proxies[p].deleted
  BY DEF SameButCount, SameRecord
<1>5. \A id \in Ids : map[id] > 0 => map[id] \in DOMAIN proxies
  BY <1>2 DEF EntriesFit
<1>6. \A id : (Making(id)' <=> Making(id)) /\ (Ending(id)' <=> Ending(id)) /\ (Deleting(id)' <=> Deleting(id))
              /\ (Deleted(id)' <=> Deleted(id)) /\ (Known(id)' <=> Known(id))
  BY <1>1 DEF Making, Ending, Asked, Deleting, Deleted, Known
<1>7. EntriesFit'
  BY <1>1, <1>2, <1>3, <1>4 DEF EntriesFit
<1>8. RequestsFit'
  <2>1. \A i \in DOMAIN out : out[i].id \in Ids
    BY RequestIds DEF Inv
  <2> QED
    BY <1>1, <1>2, <1>4, <1>5, <2>1 DEF RequestsFit
<1>9. ClientIdsFit'
  <2>1. ClientIds \subseteq Ids
    BY DEF Ids
  <2> QED
    BY <1>1, <1>2, <1>4, <1>5, <1>6, <2>1 DEF ClientIdsFit
<1>10. EventsFit'
  BY <1>1, <1>2 DEF EventsFit, EventFits
<1>11. NamesFit'
  BY <1>1, <1>2, <1>4, <1>5, <1>6 DEF NamesFit
<1>12. ServerIdsFit'
  <2>1. ServerIds \subseteq Ids
    BY DEF Ids
  <2> QED
    BY <1>1, <1>2, <1>4, <1>5, <1>6, <2>1 DEF ServerIdsFit
<1>13. FdsFit'
  BY <1>1, <1>2 DEF FdsFit
<1> QED
  BY <1>4, <1>5, <1>7, <1>8, <1>9, <1>10, <1>11, <1>12, <1>13

\* So it is when a closure is given up.
LEMMA GivenUp ==
  ASSUME Inv, NEW c \in Closures, NEW h \in Events, h.n = c.n, h.proxy = c.proxy, h.arg \in {0, c.arg},
         h.meant = c.meant, h.argMeant = c.argMeant, h.kind = c.kind, h.fd = c.fd,
         \/ Closures' = Closures \ {c} /\ proxies' = unref(Held(h), proxies)
         \/ Closures' = (Closures \ {c}) \cup {h} /\ h \notin Closures \ {c} /\ proxies' = proxies,
         UNCHANGED <<map, out, server, in, fds, display_queue, last_error>>,
         queue' \in Seq(Events), running' \in Events,
         \A i, j \in DOMAIN queue' : i < j => queue'[i].n < queue'[j].n,
         running' # Nothing => \A i \in DOMAIN queue' : running'.n < queue'[i].n
  PROVE  Inv'
<1>1. TypeOK /\ NoUseAfterFree /\ ClosuresFit /\ EventsReachTheirObject /\ EntriesFit /\ (ServerIds = {} => FdsFollowEvents /\ ConnectionSurvives)
  BY DEF Inv
<1>2. NoUseAfterFree' /\ SameButCount(proxies, proxies')
  BY <1>1, Released
<1>3. EntriesFit' /\ RequestsFit' /\ ClientIdsFit' /\ EventsFit' /\ NamesFit' /\ ServerIdsFit' /\ FdsFit'
  BY <1>2, Quiet
<1>4. TypeOK'
  <2>1. proxies' \in Seq(ProxyRecords)
    BY <1>2 DEF SameButCount
  <2> QED
    BY <1>1, <2>1 DEF TypeOK, server, ProxyRecords
<1>5. Closures' \subseteq Closures \cup {h}
  OBVIOUS
<1>6. \A d \in Closures' : ClosureFits(d)'
  <2>1. ClosureFits(c) /\ \A d \in Closures : ClosureFits(d)
    BY <1>1 DEF ClosuresFit
  <2>2. ClosureFits(h)
    BY <2>1 DEF ClosureFits
  <2>3. \A d : ClosureFits(d)' <=> ClosureFits(d)
    BY <1>2 DEF ClosureFits, SameButCount, server
  <2> QED
    BY <1>5, <2>1, <2>2, <2>3
<1>7. ClosuresFit'
  BY <1>6 DEF ClosuresFit
<1>8. EventsReachTheirObject'
  <2> SUFFICES ASSUME NEW d \in Closures'
               PROVE  proxies'[d.proxy].is = d.meant /\ (d.arg > 0 => proxies'[d.arg].is = d.argMeant)
    BY DEF EventsReachTheirObject
  <2>1. PICK o \in Closures : d = o \/ (d = h /\ o = c)
    BY <1>5
  <2>2. d.proxy = o.proxy /\ d.meant = o.meant /\ d.arg \in {0, o.arg} /\ d.argMeant = o.argMeant
    BY <2>1
  <2>3. proxies[o.proxy].is = o.meant /\ (o.arg > 0 => proxies[o.arg].is = o.argMeant)
    BY <1>1 DEF EventsReachTheirObject
  <2>4. o.proxy \in DOMAIN proxies /\ o.arg \in {0} \cup DOMAIN proxies
    BY <1>1 DEF ClosuresFit, ClosureFits
  <2>5. \A p \in DOMAIN proxies : proxies'[p].is = proxies[p].is /\ p > 0
    <3>1. \A p \in DOMAIN proxies : p > 0
      BY <1>1 DEF TypeOK
    <3> QED
      BY <1>2, <3>1 DEF SameButCount, SameRecord
  <2> QED
    BY <2>2, <2>3, <2>4, <2>5
<1>9. ServerIds = {} => FdsFollowEvents' /\ ConnectionSurvives'
  BY <1>1, <1>5 DEF FdsFollowEvents, ConnectionSurvives
<1> QED
  BY <1>2, <1>3, <1>4, <1>7, <1>8, <1>9 DEF Inv

\* dispatch_event()
LEMMA DispatchStep == ASSUME Inv, Dispatch PROVE Inv'
<1> DEFINE c == Head(queue)
           h == Validated(c)
<1>1. /\ queue # <<>> /\ running = Nothing /\ queue' = Tail(queue)
      /\ IF ReceiverGone(h) THEN proxies' = unref(Held(h), proxies) /\ running' = running ELSE running' = h /\ proxies' = proxies
      /\ UNCHANGED <<map, out, server, in, fds, display_queue, last_error>>
  BY DEF Dispatch
<1>2. TypeOK /\ ClosuresFit
  BY DEF Inv
<1>3. /\ c = queue[1] /\ c \in Closures /\ c # running
      /\ {Tail(queue)[i] : i \in DOMAIN Tail(queue)} = {queue[i] : i \in DOMAIN queue} \ {c}
      /\ Tail(queue) \in Seq(Events)
      /\ \A i \in DOMAIN Tail(queue) : i + 1 \in DOMAIN queue /\ Tail(queue)[i] = queue[i + 1] /\ queue[1].n < queue[i + 1].n
  BY <1>1, <1>2, QueueHead
<1>4. c \in Events
  BY <1>2, <1>3, ClosuresFinite
<1>5. /\ h \in Events /\ h.n = c.n /\ h.proxy = c.proxy /\ h.arg \in {0, c.arg}
      /\ h.meant = c.meant /\ h.argMeant = c.argMeant /\ h.kind = c.kind /\ h.fd = c.fd
  <2>1. PICK d : d = c /\ d \in Events
    BY <1>4
  <2>2. h = d \/ h = [d EXCEPT !.arg = 0]
    BY <2>1 DEF Validated
  <2>3. PICK e : e = [d EXCEPT !.arg = 0]
    OBVIOUS
  <2>4. e \in Events /\ e.n = d.n /\ e.proxy = d.proxy /\ e.arg = 0 /\ e.meant = d.meant
        /\ e.argMeant = d.argMeant /\ e.kind = d.kind /\ e.fd = d.fd
    BY <2>1, <2>3 DEF Events
  <2> HIDE DEF c, h
  <2> QED
    BY <2>1, <2>2, <2>3, <2>4
<1>6. \A i \in DOMAIN queue' : i + 1 \in DOMAIN queue /\ queue'[i] = queue[i + 1] /\ queue[1].n < queue[i + 1].n
  BY <1>1, <1>3
<1>7. \A i, j \in DOMAIN queue' : i < j => queue'[i].n < queue'[j].n
  <2>1. \A i, j \in DOMAIN queue : i < j => queue[i].n < queue[j].n
    BY <1>2 DEF ClosuresFit
  <2> SUFFICES ASSUME NEW i \in DOMAIN queue', NEW j \in DOMAIN queue', i < j
               PROVE  queue'[i].n < queue'[j].n
    OBVIOUS
  <2>2. i \in Nat /\ j \in Nat
    BY <1>1, <1>3
  <2> QED
    BY <1>6, <2>1, <2>2
<1>8. {queue'[i] : i \in DOMAIN queue'} = {queue[i] : i \in DOMAIN queue} \ {c}
  BY <1>1, <1>3
<1>9. h.n # 0 /\ h # Nothing /\ queue[1].n = h.n
  <2>1. ClosureFits(c) /\ sent \in Nat
    BY <1>2, <1>3 DEF ClosuresFit, TypeOK
  <2>2. Nothing.n = 0
    BY DEF Nothing
  <2> QED
    BY <1>3, <1>5, <2>1, <2>2 DEF ClosureFits
<1> HIDE DEF c, h
<1>10. CASE ReceiverGone(h)
  <2>1. Closures' = Closures \ {c}
    BY <1>1, <1>8, <1>10 DEF Closures
  <2>2. running' \in Events /\ running' = Nothing
    BY <1>1, <1>2, <1>10 DEF TypeOK
  <2> QED
    BY <1>1, <1>3, <1>5, <1>7, <1>10, <2>1, <2>2, GivenUp
<1>11. CASE ~ReceiverGone(h)
  <2>1. Closures' = (Closures \ {c}) \cup {h}
    BY <1>1, <1>8, <1>9, <1>11 DEF Closures
  <2>2. h \notin Closures \ {c}
    <3>1. Closures \ {c} = {queue'[i] : i \in DOMAIN queue'}
      BY <1>1, <1>8 DEF Closures
    <3>2. \A i \in DOMAIN queue' : queue'[i].n # h.n
      <4>1. \A i \in DOMAIN queue' : queue'[i].n \in Nat /\ queue[1].n \in Nat
        <5>1. \A i \in DOMAIN queue' : queue'[i] \in Events
          BY <1>1, <1>3
        <5>2. queue[1].n \in Nat
          BY <1>3, <1>4 DEF Events
        <5> QED
          BY <5>1, <5>2 DEF Events
      <4> QED
        BY <1>6, <1>9, <4>1
    <3> QED
      BY <3>1, <3>2
  <2>3. running' = h /\ proxies' = proxies
    BY <1>1, <1>11
  <2>4. \A i \in DOMAIN queue' : running'.n < queue'[i].n
    BY <1>6, <1>9, <2>3
  <2>5. queue' \in Seq(Events) /\ running' \in Events
    BY <1>1, <1>3, <1>5, <2>3
  <2> QED
    BY <1>1, <1>3, <1>5, <1>7, <2>1, <2>2, <2>3, <2>4, <2>5, GivenUp
<1> QED
  BY <1>10, <1>11

\* destroy_queued_closure() after the handler.
LEMMA HandlerReturnsStep == ASSUME Inv, HandlerReturns PROVE Inv'
<1>1. /\ running # Nothing /\ proxies' = unref(Held(running), proxies) /\ running' = Nothing /\ queue' = queue
      /\ UNCHANGED <<map, out, server, in, fds, display_queue, last_error>>
  BY DEF HandlerReturns
<1>2. TypeOK /\ ClosuresFit /\ running \in Events /\ running \in Closures /\ queue \in Seq(Events)
  BY <1>1 DEF Inv, TypeOK, Closures
<1>3. running \notin {queue[i] : i \in DOMAIN queue}
  <2>1. running.n \in Nat
    BY <1>2 DEF Events
  <2>2. \A i \in DOMAIN queue : running.n < queue[i].n
    BY <1>1, <1>2 DEF ClosuresFit
  <2> QED
    BY <2>1, <2>2
<1>4. Closures' = Closures \ {running}
  BY <1>1, <1>3 DEF Closures
<1>5. Nothing \in Events /\ running.arg \in Nat
  BY <1>2 DEF Nothing, NoObject, Object, Events, Objects
<1>6. \A i, j \in DOMAIN queue' : i < j => queue'[i].n < queue'[j].n
  BY <1>1, <1>2 DEF ClosuresFit
<1> QED
  BY <1>1, <1>2, <1>4, <1>5, <1>6, GivenUp

\* wl_event_queue_release()
LEMMA ReleaseQueueStep == ASSUME Inv, ReleaseQueue PROVE Inv'
<1> DEFINE c == Head(queue)
<1>1. /\ queue # <<>> /\ running = Nothing /\ queue' = Tail(queue) /\ running' = running
      /\ proxies' = unref(Held(c), proxies)
      /\ UNCHANGED <<map, out, server, in, fds, display_queue, last_error>>
  BY DEF ReleaseQueue
<1>2. TypeOK /\ ClosuresFit
  BY DEF Inv
<1>3. /\ c = queue[1] /\ c \in Closures /\ c # running
      /\ {Tail(queue)[i] : i \in DOMAIN Tail(queue)} = {queue[i] : i \in DOMAIN queue} \ {c}
      /\ Tail(queue) \in Seq(Events)
      /\ \A i \in DOMAIN Tail(queue) : i + 1 \in DOMAIN queue /\ Tail(queue)[i] = queue[i + 1] /\ queue[1].n < queue[i + 1].n
  BY <1>1, <1>2, QueueHead
<1>4. c \in Events
  BY <1>2, <1>3, ClosuresFinite
<1>5. \A i, j \in DOMAIN queue' : i < j => queue'[i].n < queue'[j].n
  <2>1. \A i, j \in DOMAIN queue : i < j => queue[i].n < queue[j].n
    BY <1>2 DEF ClosuresFit
  <2> SUFFICES ASSUME NEW i \in DOMAIN queue', NEW j \in DOMAIN queue', i < j
               PROVE  queue'[i].n < queue'[j].n
    OBVIOUS
  <2>2. i \in Nat /\ j \in Nat
    BY <1>1, <1>3
  <2> QED
    BY <1>1, <1>3, <2>1, <2>2
<1>6. Closures' = Closures \ {c}
  BY <1>1, <1>3 DEF Closures
<1>7. running' \in Events
  BY <1>1, <1>2 DEF TypeOK
<1> HIDE DEF c
<1> QED
  BY <1>1, <1>3, <1>4, <1>5, <1>6, <1>7, GivenUp

\* The connection fails.
LEMMA FailStep == ASSUME Inv, Fail PROVE Inv'
<1>1. /\ last_error = "none" /\ last_error' = "lost"
      /\ UNCHANGED <<map, proxies, out, server, in, fds, queue, display_queue, running>>
  BY DEF Fail
<1>2. TypeOK /\ ClosuresFit /\ NoUseAfterFree /\ EventsReachTheirObject /\ (ServerIds = {} => FdsFollowEvents)
  BY DEF Inv
<1>3. SameButCount(proxies, proxies')
  <2>1. proxies \in Seq(ProxyRecords)
    BY <1>2 DEF TypeOK, ProxyRecords
  <2> QED
    BY <1>1, <2>1 DEF SameButCount, SameRecord
<1>4. EntriesFit' /\ RequestsFit' /\ ClientIdsFit' /\ EventsFit' /\ NamesFit' /\ ServerIdsFit' /\ FdsFit'
  BY <1>1, <1>3, Quiet
<1>5. Closures' = Closures /\ proxies' = proxies /\ in' = in /\ sent' = sent /\ queue' = queue /\ running' = running
  BY <1>1 DEF Closures, server
<1>6. TypeOK'
  BY <1>1, <1>2, <1>5 DEF TypeOK, server
<1>7. ClosuresFit'
  BY <1>2, <1>5 DEF ClosuresFit, ClosureFits
<1>8. NoUseAfterFree' /\ EventsReachTheirObject' /\ (ServerIds = {} => FdsFollowEvents' /\ ConnectionSurvives')
  BY <1>1, <1>2, <1>5 DEF NoUseAfterFree, Owner, Keepers, Keep, EventsReachTheirObject, FdsFollowEvents, ConnectionSurvives
<1> QED
  BY <1>4, <1>6, <1>7, <1>8 DEF Inv

\* One more in a sequence.
LEMMA Longer ==
  ASSUME NEW T, NEW s \in Seq(T), NEW e \in T, NEW t, t = Append(s, e)
  PROVE  /\ t \in Seq(T) /\ Len(s) \in Nat /\ DOMAIN s = 1..Len(s) /\ Len(s) + 1 \in DOMAIN t /\ t[Len(s) + 1] = e
         /\ DOMAIN t = DOMAIN s \cup {Len(s) + 1}
         /\ \A i \in DOMAIN s : i \in Nat /\ i < Len(s) + 1 /\ t[i] = s[i]
  OBVIOUS

\* All but the first.
LEMMA Shorter ==
  ASSUME NEW T, NEW s \in Seq(T), s # <<>>, NEW t, t = Tail(s)
  PROVE  /\ t \in Seq(T) /\ 1 \in DOMAIN s /\ Head(s) = s[1] /\ s[1] \in T
         /\ \A i \in DOMAIN s : i \in Nat /\ i >= 1
         /\ \A i \in DOMAIN t : i \in Nat /\ i >= 1 /\ i + 1 \in DOMAIN s /\ t[i] = s[i + 1]
         /\ \A i \in DOMAIN s : i = 1 \/ (i - 1 \in DOMAIN t /\ t[i - 1] = s[i])
<1>1. s[1] \in T /\ 1 \in DOMAIN s /\ t \in Seq(T) /\ Head(s) = s[1]
  OBVIOUS
<1>2. DOMAIN s = 1..Len(s) /\ Len(s) \in Nat /\ DOMAIN t = 1..(Len(s) - 1)
  OBVIOUS
<1>3. \A i \in DOMAIN t : t[i] = s[i + 1]
  OBVIOUS
<1>4. \A i \in DOMAIN s : i = 1 \/ (i - 1 \in DOMAIN t /\ t[i - 1] = s[i])
  <2> SUFFICES ASSUME NEW i \in DOMAIN s, i # 1 PROVE i - 1 \in DOMAIN t /\ t[i - 1] = s[i]
    OBVIOUS
  <2>1. i - 1 \in DOMAIN t /\ i - 1 + 1 = i
    BY <1>2
  <2> QED
    BY <1>3, <2>1
<1> QED
  BY <1>1, <1>2, <1>3, <1>4

\* The events on their way, one by one.
LEMMA EventTypes ==
  ASSUME TypeOK
  PROVE  /\ \A i \in DOMAIN in : /\ in[i] \in Events /\ in[i].n \in Nat /\ in[i].proxy \in Nat /\ in[i].arg \in Nat
                                 /\ in[i].meant \in Objects /\ in[i].argMeant \in Objects
         /\ \A c \in Closures : c \in Events /\ c.n \in Nat /\ c.proxy \in Nat /\ c.arg \in Nat
         /\ \A i \in DOMAIN in : i \in Nat
         /\ sent \in Nat
<1>1. \A i \in DOMAIN in : in[i] \in Events /\ i \in Nat
  BY DEF TypeOK
<1>2. \A c \in Closures : c \in Events
  BY ClosuresFinite
<1>3. sent \in Nat
  BY DEF TypeOK
<1>4. \A e \in Events : /\ e.n \in Nat /\ e.proxy \in Nat /\ e.arg \in Nat
                        /\ e.meant \in Objects /\ e.argMeant \in Objects
  BY DEF Events
<1> QED
  BY <1>1, <1>2, <1>3, <1>4

\* Proxies, one by one.
LEMMA ProxyTypes ==
  ASSUME TypeOK
  PROVE  /\ \A p \in DOMAIN proxies : /\ proxies[p] \in ProxyRecords /\ p \in Nat \ {0} /\ p <= Len(proxies)
                                      /\ proxies[p].id \in Ids /\ proxies[p].is \in Objects
                                      /\ proxies[p].refcount \in Int /\ proxies[p].destroyed \in BOOLEAN
                                      /\ proxies[p].deleted \in BOOLEAN
         /\ \A id \in Ids : map[id] \in {Free, Zombie, Absent} \cup Nat /\ resource[id] \in Objects
         /\ Len(proxies) \in Nat /\ DOMAIN proxies = 1..Len(proxies) /\ proxies \in Seq(ProxyRecords)
<1>1. proxies \in Seq(ProxyRecords)
  BY DEF TypeOK
<1>2. \A p \in DOMAIN proxies : proxies[p] \in ProxyRecords /\ p \in Nat \ {0} /\ p <= Len(proxies)
  BY <1>1
<1>3. \A id \in Ids : map[id] \in {Free, Zombie, Absent} \cup Nat /\ resource[id] \in Objects
  BY DEF TypeOK
<1>4. Len(proxies) \in Nat /\ DOMAIN proxies = 1..Len(proxies)
  BY <1>1
<1>5. \A x \in ProxyRecords : /\ x.id \in Ids /\ x.is \in Objects
                                      /\ x.refcount \in Int /\ x.destroyed \in BOOLEAN
                                      /\ x.deleted \in BOOLEAN
  BY DEF ProxyRecords
<1> QED
  BY <1>1, <1>2, <1>3, <1>4, <1>5

\* Closures are not touched by what does not queue or handle them.
LEMMA ClosuresStay ==
  ASSUME Inv, UNCHANGED <<queue, running>>, sent' \in Nat, sent' >= sent,
         DOMAIN proxies \subseteq DOMAIN proxies',
         \A p \in DOMAIN proxies : proxies'[p].is = proxies[p].is,
         \A i \in DOMAIN in' : in'[i].kind # "delete_id" =>
           in'[i].n = sent + 1 \/ \E j \in DOMAIN in : in[j].kind # "delete_id" /\ in[j].n = in'[i].n
  PROVE  ClosuresFit' /\ EventsReachTheirObject' /\ Closures' = Closures /\ (FdsFollowEvents => FdsFollowEvents')
<1>1. TypeOK /\ ClosuresFit /\ EventsReachTheirObject
  BY DEF Inv
<1>2. Closures' = Closures /\ queue' = queue /\ running' = running
  BY DEF Closures
<1>3. \A c \in Closures : ClosureFits(c)'
  <2> SUFFICES ASSUME NEW c \in Closures PROVE ClosureFits(c)'
    OBVIOUS
  <2>1. ClosureFits(c)
    BY <1>1 DEF ClosuresFit
  <2>2. c.n \in Nat /\ sent \in Nat
    BY <1>1, EventTypes
  <2>3. c.n \in 1..sent' /\ c.n < sent + 1
    BY <2>1, <2>2 DEF ClosureFits
  <2>4. \A i \in DOMAIN in' : in'[i].kind # "delete_id" => c.n < in'[i].n
    BY <2>1, <2>3 DEF ClosureFits
  <2> QED
    BY <2>1, <2>3, <2>4 DEF ClosureFits
<1>4. ClosuresFit'
  BY <1>1, <1>2, <1>3 DEF ClosuresFit
<1>5. EventsReachTheirObject'
  <2> SUFFICES ASSUME NEW c \in Closures
               PROVE  proxies'[c.proxy].is = c.meant /\ (c.arg > 0 => proxies'[c.arg].is = c.argMeant)
    BY <1>2 DEF EventsReachTheirObject
  <2>1. c.proxy \in DOMAIN proxies /\ c.arg \in {0} \cup DOMAIN proxies
    BY <1>1 DEF ClosuresFit, ClosureFits
  <2>2. proxies[c.proxy].is = c.meant /\ (c.arg > 0 => proxies[c.arg].is = c.argMeant)
    BY <1>1 DEF EventsReachTheirObject
  <2> QED
    BY <2>1, <2>2
<1> QED
  BY <1>2, <1>4, <1>5 DEF FdsFollowEvents

\* Nothing keeps a proxy that there is not.
LEMMA NoneKeep ==
  ASSUME Inv, NEW p \in Nat \ {0}, p \notin DOMAIN proxies
  PROVE  Keep(Closures, p) = 0
<1>1. \A c \in Closures : c.proxy # p /\ c.arg # p
  BY DEF Inv, ClosuresFit, ClosureFits
<1>2. {c \in Closures : c.proxy = p} = {} /\ {c \in Closures : c.arg = p} = {}
  BY <1>1
<1>3. Cardinality({}) = 0
  BY FS_EmptySet
<1> QED
  BY <1>2, <1>3 DEF Keep

\* Client's ids and the compositor's.
LEMMA IdKinds ==
  ASSUME ProxyLifeAssumption
  PROVE  /\ ClientIds \cap ServerIds = {} /\ ClientIds \subseteq Ids /\ ServerIds \subseteq Ids /\ Ids \subseteq Nat \ {0}
         /\ \A id \in Ids : id \in ClientIds \/ id \in ServerIds
  BY DEF ProxyLifeAssumption, Ids

\* What is known of an id that is free.
LEMMA FreeFacts ==
  ASSUME Inv, NEW id \in ClientIds, map[id] = Free
  PROVE  /\ ~Making(id) /\ ~Ending(id) /\ ~Known(id) /\ ~Deleting(id) /\ ~Deleted(id)
         /\ \A i \in DOMAIN out : out[i].id # id
         /\ \A i \in DOMAIN in : ~Names(in[i], id)
         /\ \A i \in DOMAIN in : in[i].kind = "delete_id" => in[i].arg # id
<1>1. ~Making(id) /\ ~Ending(id) /\ ~Known(id) /\ ~Deleting(id) /\ ~Deleted(id)
  BY DEF Inv, ClientIdsFit, Free, Zombie
<1>2. \A i \in DOMAIN out : out[i].id # id
  BY <1>1, RequestIds DEF Inv, Making, Ending, Asked
<1>3. \A i \in DOMAIN in : in[i].kind = "delete_id" => in[i].arg # id
  BY <1>1 DEF Deleting
<1>4. \A i \in DOMAIN in : ~Names(in[i], id)
  BY <1>1, <1>3 DEF Inv, NamesFit
<1> QED
  BY <1>1, <1>2, <1>3, <1>4

\* The beginning.
LEMMA InvInit == ASSUME ProxyLifeAssumption, Init PROVE Inv
<1>1. /\ map = [id \in Ids |-> Free] /\ resource = [id \in Ids |-> NoObject]
      /\ proxies = <<>> /\ out = <<>> /\ in = <<>> /\ fds = <<>> /\ sent = 0
      /\ queue = <<>> /\ display_queue = <<>> /\ running = Nothing /\ last_error = "none"
  BY DEF Init
<1>2. NoObject \in Objects /\ Nothing \in Events /\ NoObject.once = FALSE
  BY DEF NoObject, Object, Nothing, Objects, Events
<1>3. TypeOK
  BY <1>1, <1>2 DEF TypeOK
<1>4. Closures = {}
  BY <1>1 DEF Closures
<1>5. EntriesFit /\ RequestsFit
  BY <1>1 DEF EntriesFit, RequestsFit, Free, Absent, Zombie
<1>6. \A id : ~Making(id) /\ ~Ending(id) /\ ~Deleting(id) /\ ~Deleted(id)
  BY <1>1 DEF Making, Ending, Asked, Deleting, Deleted, ToSet
<1>7. \A id \in Ids : ~Known(id) /\ map[id] = Free /\ resource[id] = NoObject
  BY <1>1 DEF Known
<1>8. ClientIdsFit
  BY <1>6, <1>7, IdKinds DEF ClientIdsFit, Free, Zombie
<1>9. EventsFit /\ NamesFit
  BY <1>1, <1>7 DEF EventsFit, NamesFit, Free
<1>10. ServerIdsFit
  BY <1>1, <1>2, <1>6, <1>7, IdKinds DEF ServerIdsFit, Free
<1>11. ClosuresFit /\ FdsFit
  BY <1>1, <1>4 DEF ClosuresFit, FdsFit
<1>12. NoUseAfterFree /\ EventsReachTheirObject /\ FdsFollowEvents /\ ConnectionSurvives
  BY <1>1, <1>4 DEF NoUseAfterFree, EventsReachTheirObject, FdsFollowEvents, ConnectionSurvives
<1> QED
  BY <1>3, <1>5, <1>8, <1>9, <1>10, <1>11, <1>12 DEF Inv

\* wl_proxy_marshal_array_flags() with a new id.
LEMMA CreateStep ==
  ASSUME ProxyLifeAssumption, Inv, NEW id \in ClientIds, NEW once \in BOOLEAN, Create(id, once)
  PROVE  Inv'
<1> DEFINE N == Len(proxies) + 1
           object == Object("client", N, once)
<1>1. /\ map[id] = Free /\ proxies' = Append(proxies, NewProxy(id, object))
      /\ out' = IF last_error # "none" THEN out ELSE Append(out, [req |-> "create", id |-> id, object |-> object])
      /\ map' = [map EXCEPT ![id] = N]
      /\ UNCHANGED <<server, in, fds, queue, display_queue, running, last_error>>
  BY DEF Create
<1>2. /\ resource' = resource /\ sent' = sent /\ in' = in /\ fds' = fds /\ queue' = queue
      /\ display_queue' = display_queue /\ running' = running /\ last_error' = last_error
  BY <1>1 DEF server
<1>3. /\ TypeOK /\ EntriesFit /\ RequestsFit /\ ClientIdsFit /\ EventsFit /\ NamesFit /\ ServerIdsFit
      /\ ClosuresFit /\ FdsFit /\ NoUseAfterFree /\ EventsReachTheirObject
  BY DEF Inv
<1>4. /\ Len(proxies) \in Nat /\ proxies \in Seq(ProxyRecords) /\ id \in Ids /\ DOMAIN proxies = 1..Len(proxies)
      /\ \A p \in DOMAIN proxies : p \in Nat \ {0} /\ p <= Len(proxies) /\ proxies[p].id \in Ids
  BY <1>3, ProxyTypes DEF Ids
<1>5. object \in Objects /\ object # NoObject /\ object.once = once
  BY <1>4 DEF Object, NoObject, Objects
<1>6. PICK x : x = NewProxy(id, object)
  OBVIOUS
<1>7. /\ x \in ProxyRecords /\ x.id = id /\ x.is = object /\ x.refcount = 1 /\ ~x.destroyed /\ ~x.deleted
  BY <1>4, <1>5, <1>6 DEF NewProxy, ProxyRecords
<1>8. PICK r : r = [req |-> "create", id |-> id, object |-> object]
  OBVIOUS
<1>9. r \in Requests /\ r.req = "create" /\ r.id = id /\ r.object = object
  BY <1>4, <1>5, <1>8 DEF Requests
<1>10. /\ proxies' \in Seq(ProxyRecords) /\ DOMAIN proxies' = DOMAIN proxies \cup {N} /\ proxies'[N] = x
       /\ \A p \in DOMAIN proxies : proxies'[p] = proxies[p]
  BY <1>1, <1>4, <1>6, <1>7, Longer
<1>11. N \in Nat /\ N > 0 /\ N \notin DOMAIN proxies
  BY <1>4
<1> HIDE DEF N, object
<1>12. /\ map' \in [Ids -> {Free, Zombie, Absent} \cup Nat] /\ map'[id] = N
       /\ \A i \in Ids \ {id} : map'[i] = map[i]
  BY <1>1, <1>3, <1>4, <1>11 DEF TypeOK
<1>13. /\ ~Making(id) /\ ~Ending(id) /\ ~Known(id) /\ ~Deleting(id) /\ ~Deleted(id)
       /\ \A i \in DOMAIN out : out[i].id # id
       /\ \A i \in DOMAIN in : ~Names(in[i], id)
  BY <1>1, <1>3, FreeFacts
<1>14. /\ out' \in Seq(Requests) /\ DOMAIN out \subseteq DOMAIN out' /\ \A i \in DOMAIN out : out'[i] = out[i]
       /\ \A i \in DOMAIN out' : i \in DOMAIN out \/ (out'[i] = r /\ last_error = "none")
       /\ \A i, j \in DOMAIN out' : i \notin DOMAIN out /\ j \notin DOMAIN out => i = j
       /\ last_error = "none" => \E i \in DOMAIN out' : out'[i] = r
  <2>1. out \in Seq(Requests)
    BY <1>3 DEF TypeOK
  <2>2. CASE last_error # "none"
    BY <1>1, <2>1, <2>2
  <2>3. CASE last_error = "none"
    <3>1. out' = Append(out, r)
      BY <1>1, <1>8, <2>3
    <3>2. /\ out' \in Seq(Requests) /\ DOMAIN out' = DOMAIN out \cup {Len(out) + 1} /\ out'[Len(out) + 1] = r
          /\ \A i \in DOMAIN out : out'[i] = out[i]
      BY <1>9, <2>1, <3>1, Longer
    <3> QED
      BY <2>3, <3>2
  <2> QED
    BY <2>2, <2>3
<1>15. \A i : /\ Ending(i)' <=> Ending(i)
              /\ i # id => (Making(i)' <=> Making(i))
              /\ Deleting(i)' <=> Deleting(i)
              /\ Deleted(i)' <=> Deleted(i)
              /\ Known(i)' <=> Known(i)
  <2>1. \A i, q : q # "create" \/ i # id => (Asked(i, q)' <=> Asked(i, q))
    BY <1>9, <1>14 DEF Asked
  <2> QED
    BY <1>2, <2>1 DEF Making, Ending, Deleting, Deleted, Known
<1>16. last_error = "none" => Making(id)'
  BY <1>9, <1>14 DEF Making, Asked
<1>17. TypeOK'
  BY <1>2, <1>3, <1>10, <1>12, <1>14 DEF TypeOK
<1>18. \A p \in DOMAIN proxies : ~proxies[p].destroyed => proxies[p].id # id
  BY <1>1, <1>3, <1>4 DEF EntriesFit, Free
<1>19. EntriesFit'
  <2>1. \A i \in Ids : map'[i] > 0 =>
          map'[i] \in DOMAIN proxies' /\ proxies'[map'[i]].id = i /\ ~proxies'[map'[i]].destroyed
    BY <1>3, <1>7, <1>10, <1>12 DEF EntriesFit
  <2>2. \A p \in DOMAIN proxies' : ~proxies'[p].destroyed => map'[proxies'[p].id] = p
    BY <1>3, <1>4, <1>7, <1>10, <1>12, <1>18 DEF EntriesFit
  <2>3. \A p \in DOMAIN proxies' :
          /\ proxies'[p].deleted => proxies'[p].id \in ClientIds
          /\ proxies'[p].is # NoObject
          /\ proxies'[p].id \in ServerIds => ~proxies'[p].is.once
    BY <1>3, <1>5, <1>7, <1>10, IdKinds DEF EntriesFit
  <2>4. \A i \in Ids : map'[i] # (IF i \in ClientIds THEN Absent ELSE Zombie)
    BY <1>3, <1>11, <1>12 DEF EntriesFit, Absent
  <2> QED
    BY <2>1, <2>2, <2>3, <2>4 DEF EntriesFit
<1>20. RequestsFit'
  <2>1. \A i, j \in DOMAIN out' : out'[i].id = out'[j].id /\ out'[i].req = out'[j].req => i = j
    BY <1>3, <1>9, <1>13, <1>14 DEF RequestsFit
  <2> SUFFICES ASSUME NEW i \in DOMAIN out'
               PROVE  IF out'[i].req = "destroy" THEN ~resource[out'[i].id].once
                      ELSE /\ out'[i].id \in ClientIds /\ out'[i].object # NoObject
                           /\ map'[out'[i].id] > 0 => out'[i].object = proxies'[map'[out'[i].id]].is
                           /\ \A j \in DOMAIN out' : out'[j].req = "destroy" /\ out'[j].id = out'[i].id =>
                                i < j /\ ~out'[i].object.once
    BY <1>2, <2>1 DEF RequestsFit
  <2>2. CASE i \in DOMAIN out
    <3>1. out'[i] = out[i] /\ out[i].id # id /\ out[i].id \in Ids /\ map'[out[i].id] = map[out[i].id]
      BY <1>3, <1>12, <1>13, <1>14, <2>2, RequestIds
    <3>2. \A j \in DOMAIN out' : out'[j].req = "destroy" /\ out'[j].id = out'[i].id => j \in DOMAIN out /\ out'[j] = out[j]
      BY <1>9, <1>14
    <3>3. map[out[i].id] > 0 => map[out[i].id] \in DOMAIN proxies
      BY <1>3, <3>1 DEF EntriesFit
    <3> QED
      BY <1>3, <1>10, <2>2, <3>1, <3>2, <3>3 DEF RequestsFit
  <2>3. CASE i \notin DOMAIN out
    <3>1. out'[i] = r
      BY <1>14, <2>3
    <3>2. \A j \in DOMAIN out' : ~(out'[j].req = "destroy" /\ out'[j].id = id)
      BY <1>9, <1>13, <1>14
    <3> QED
      BY <1>5, <1>7, <1>9, <1>10, <1>12, <3>1, <3>2
  <2> QED
    BY <2>2, <2>3
<1>21. ClientIdsFit'
  <2> SUFFICES ASSUME NEW i \in ClientIds
               PROVE  /\ Making(i)' => ~Known(i)' /\ ~Deleting(i)' /\ ~Deleted(i)'
                      /\ Known(i)' => ~Deleting(i)' /\ ~Deleted(i)'
                      /\ Deleting(i)' => ~Deleted(i)'
                      /\ map'[i] = Free => ~Making(i)' /\ ~Known(i)' /\ ~Deleting(i)' /\ ~Deleted(i)'
                      /\ Ending(i)' => map'[i] = Zombie /\ (Making(i)' \/ Known(i)')
                      /\ map'[i] > 0 =>
                           /\ Known(i)' => resource'[i] = proxies'[map'[i]].is
                           /\ proxies'[map'[i]].deleted => ~Making(i)' /\ ~Known(i)' /\ ~Deleting(i)' /\ ~Deleted(i)'
                           /\ Deleting(i)' \/ Deleted(i)' \/ proxies'[map'[i]].deleted => proxies'[map'[i]].is.once
                           /\ last_error' = "none" => Making(i)' \/ Known(i)' \/ Deleting(i)' \/ Deleted(i)' \/ proxies'[map'[i]].deleted
    BY DEF ClientIdsFit
  <2>1. CASE i = id
    BY <1>2, <1>7, <1>10, <1>11, <1>12, <1>13, <1>15, <1>16, <2>1 DEF Free
  <2>2. CASE i # id
    <3>1. map'[i] = map[i] /\ i \in Ids
      BY <1>12, <2>2 DEF Ids
    <3>2. map[i] > 0 => proxies'[map[i]] = proxies[map[i]]
      BY <1>3, <1>10, <3>1 DEF EntriesFit
    <3> QED
      BY <1>2, <1>3, <1>15, <2>2, <3>1, <3>2 DEF ClientIdsFit
  <2> QED
    BY <2>1, <2>2
<1>22. EventsFit'
  BY <1>2, <1>3 DEF EventsFit, EventFits
<1>23. NamesFit'
  <2>1. \A i \in DOMAIN in : \A c \in ClientIds : Names(in[i], c) =>
          Known(c)' \/ \E k \in DOMAIN in : k > i /\ in[k].kind = "delete_id" /\ in[k].arg = c
    BY <1>3, <1>15 DEF NamesFit
  <2>2. ASSUME NEW c \in Ids, map'[c] > 0, NEW i \in DOMAIN in, in[i].kind # "delete_id"
        PROVE  Says(in[i], c, proxies'[map'[c]].is)
    <3>1. CASE c = id
      BY <1>13, <2>2, <3>1 DEF Says, Names
    <3>2. CASE c # id
      <4>1. map'[c] = map[c] /\ map[c] \in DOMAIN proxies
        BY <1>3, <1>12, <2>2, <3>2 DEF EntriesFit
      <4>2. Says(in[i], c, proxies[map[c]].is)
        BY <1>3, <2>2, <4>1 DEF NamesFit
      <4> QED
        BY <1>10, <4>1, <4>2
    <3> QED
      BY <3>1, <3>2
  <2> QED
    BY <1>2, <2>1, <2>2 DEF NamesFit
<1>24. ServerIdsFit'
  <2>1. \A s \in ServerIds : /\ map'[s] = map[s] /\ (map[s] > 0 => proxies'[map[s]] = proxies[map[s]])
    <3>1. \A s \in ServerIds : s \in Ids /\ s # id
      BY IdKinds
    <3> QED
      BY <1>3, <1>10, <1>12, <3>1 DEF EntriesFit
  <2> QED
    BY <1>2, <1>3, <1>15, <2>1 DEF ServerIdsFit
<1>25. /\ ClosuresFit' /\ EventsReachTheirObject' /\ Closures' = Closures /\ (FdsFollowEvents => FdsFollowEvents')
  <2>1. sent' \in Nat /\ sent' >= sent /\ DOMAIN proxies \subseteq DOMAIN proxies'
    BY <1>2, <1>3, <1>10, EventTypes
  <2> QED
    BY <1>2, <1>10, <2>1, ClosuresStay
<1>26. NoUseAfterFree'
  <2>1. \A p : Keepers(p)' = Keep(Closures, p)
    BY <1>25 DEF Keepers, Keep
  <2>2. Keep(Closures, N) = 0
    BY <1>11, NoneKeep
  <2>3. \A p : Owner(p)' = IF proxies'[p].destroyed THEN 0 ELSE 1
    BY DEF Owner
  <2>4. ASSUME NEW p \in DOMAIN proxies' PROVE proxies'[p].refcount >= Owner(p)' + Keepers(p)'
    <3>1. CASE p = N
      <4>1. Owner(p)' = 1 /\ Keepers(p)' = 0 /\ proxies'[p].refcount = 1
        BY <1>7, <1>10, <2>1, <2>2, <2>3, <3>1
      <4> QED
        BY <4>1
    <3>2. CASE p # N
      <4>1. p \in DOMAIN proxies /\ proxies'[p] = proxies[p]
        BY <1>10, <3>2
      <4>2. Owner(p)' = Owner(p) /\ Keepers(p)' = Keepers(p)
        BY <2>1, <2>3, <4>1 DEF Owner, Keepers
      <4> QED
        BY <1>3, <4>1, <4>2 DEF NoUseAfterFree
    <3> QED
      BY <3>1, <3>2
  <2> QED
    BY <2>4 DEF NoUseAfterFree
<1>27. FdsFit' /\ (ConnectionSurvives => ConnectionSurvives')
  BY <1>2, <1>3 DEF FdsFit, ConnectionSurvives
<1> QED
  BY <1>17, <1>19, <1>20, <1>21, <1>22, <1>23, <1>24, <1>25, <1>26, <1>27 DEF Inv

\* A function that is a sequence.
LEMMA SequenceOf ==
  ASSUME NEW T, NEW n \in Nat, NEW t \in [1..n -> T]
  PROVE  t \in Seq(T)
  OBVIOUS

\* A proxy that is marked as destroyed, and nothing else.
Marked(s, p, u) ==
  /\ DOMAIN u = DOMAIN s /\ u[p] \in ProxyRecords
  /\ u[p].id = s[p].id /\ u[p].is = s[p].is /\ u[p].deleted = s[p].deleted /\ u[p].destroyed
  /\ u[p].refcount = s[p].refcount /\ \A q \in DOMAIN s \ {p} : u[q] = s[q]

\* And loses a user.
DroppedIs(s, p, t) ==
  /\ t \in Seq(ProxyRecords) /\ DOMAIN t = DOMAIN s /\ \A q \in DOMAIN s \ {p} : t[q] = s[q]
  /\ t[p].id = s[p].id /\ t[p].is = s[p].is /\ t[p].deleted = s[p].deleted
  /\ t[p].destroyed /\ t[p].refcount = s[p].refcount - 1

\* A proxy that the client destroys.
LEMMA Dropped ==
  ASSUME NEW s \in Seq(ProxyRecords), NEW p \in DOMAIN s, NEW u, Marked(s, p, u), NEW t, t = unref(<<p>>, u)
  PROVE  DroppedIs(s, p, t)
<1>1. DOMAIN s = 1..Len(s) /\ Len(s) \in Nat /\ \A q \in DOMAIN s : s[q] \in ProxyRecords
  OBVIOUS
<1>2. \A x \in ProxyRecords : /\ x.refcount \in Int /\ DOMAIN x = {"id", "is", "refcount", "destroyed", "deleted"}
                              /\ x = [id |-> x.id, is |-> x.is, refcount |-> x.refcount, destroyed |-> x.destroyed, deleted |-> x.deleted]
  BY DEF ProxyRecords
<1>3. \A q \in DOMAIN s : Uses(q, <<p>>) = (IF q = p THEN 1 ELSE 0)
  <2> SUFFICES ASSUME NEW q \in DOMAIN s PROVE Uses(q, <<p>>) = (IF q = p THEN 1 ELSE 0)
    OBVIOUS
  <2>1. DOMAIN <<p>> = 1..1 /\ <<p>>[1] = p
    OBVIOUS
  <2>2. {i \in DOMAIN <<p>> : <<p>>[i] = q} = (IF q = p THEN {1} ELSE {})
    BY <2>1
  <2>3. Cardinality((IF q = p THEN {1} ELSE {})) = One(q = p)
    BY CountFirst
  <2> QED
    BY <2>2, <2>3 DEF Uses, One
<1>5. DOMAIN u = DOMAIN s /\ \A q \in DOMAIN s \ {p} : u[q] = s[q]
  BY DEF Marked
<1>6. PICK x : x = s[p] /\ x \in ProxyRecords
  BY <1>1
<1>7. PICK y : y = u[p]
  OBVIOUS
<1>8. /\ y \in ProxyRecords /\ y.id = x.id /\ y.is = x.is /\ y.deleted = x.deleted /\ y.destroyed
      /\ y.refcount = x.refcount
  BY <1>6, <1>7 DEF Marked
<1>9. t = [q \in DOMAIN s |-> [u[q] EXCEPT !.refcount = @ - Uses(q, <<p>>)]]
  BY <1>5 DEF unref
<1>10. \A q \in DOMAIN s : t[q] = [u[q] EXCEPT !.refcount = u[q].refcount - Uses(q, <<p>>)]
  BY <1>9
<1>11. \A q \in DOMAIN s \ {p} : t[q] = s[q]
  <2> SUFFICES ASSUME NEW q \in DOMAIN s \ {p} PROVE t[q] = s[q]
    OBVIOUS
  <2>1. u[q] = s[q] /\ s[q] \in ProxyRecords /\ s[q].refcount \in Int /\ Uses(q, <<p>>) = 0
    BY <1>1, <1>2, <1>3, <1>5
  <2>2. PICK z \in ProxyRecords : z = s[q]
    BY <2>1
  <2>3. PICK n \in Int : n = u[q].refcount - Uses(q, <<p>>) /\ n = z.refcount
    BY <2>1, <2>2
  <2>4. t[q] = [u[q] EXCEPT !.refcount = n]
    BY <1>10, <2>3
  <2>5. t[q] = [z EXCEPT !.refcount = n]
    BY <2>1, <2>2, <2>4
  <2>6. PICK w : w = t[q]
    OBVIOUS
  <2>7. SameRecord(z, w) /\ w.refcount = z.refcount
    BY <2>3, <2>5, <2>6, Recounted
  <2>8. w = z
    BY <1>2, <2>7 DEF SameRecord
  <2> QED
    BY <2>2, <2>6, <2>8
<1>12. SameRecord(y, t[p]) /\ t[p].refcount = x.refcount - 1
  <2>5. x.refcount \in Int /\ u[p].refcount = x.refcount /\ Uses(p, <<p>>) = 1
    BY <1>2, <1>3, <1>6 DEF Marked
  <2>1. PICK n \in Int : n = u[p].refcount - Uses(p, <<p>>) /\ n = x.refcount - 1
    BY <2>5
  <2>2. t[p] = [u[p] EXCEPT !.refcount = n]
    BY <1>10, <2>1
  <2>3. t[p] = [y EXCEPT !.refcount = n]
    BY <1>7, <2>2
  <2>4. PICK z : z = t[p]
    OBVIOUS
  <2> QED
    BY <1>8, <2>1, <2>3, <2>4, Recounted
<1>13. DOMAIN t = 1..Len(s) /\ \A q \in DOMAIN s : t[q] \in ProxyRecords
  BY <1>1, <1>9, <1>11, <1>12 DEF SameRecord
<1>14. t \in Seq(ProxyRecords)
  <2>1. t = [q \in 1..Len(s) |-> t[q]]
    BY <1>1, <1>9
  <2>2. t \in [1..Len(s) -> ProxyRecords]
    BY <1>1, <1>13, <2>1
  <2> QED
    BY <1>1, <2>2, SequenceOf
<1> QED
  BY <1>1, <1>6, <1>8, <1>11, <1>12, <1>13, <1>14 DEF SameRecord, DroppedIs

\* A request with WL_MARSHAL_FLAG_DESTROY, or wl_proxy_destroy()
LEMMA DestroyStep ==
  ASSUME ProxyLifeAssumption, Inv, NEW p, Destroy(p)
  PROVE  Inv'
<1>0. PICK id, x : id = proxies[p].id /\ x = proxies[p].is
  OBVIOUS
<1>1. /\ p \in DOMAIN proxies /\ ~proxies[p].destroyed
      /\ map' = [map EXCEPT ![id] = EntryAfter(p)]
      /\ proxies' = unref(<<p>>, [proxies EXCEPT ![p].destroyed = TRUE])
      /\ out' = IF ~x.once /\ last_error = "none" THEN Append(out, [req |-> "destroy", id |-> id, object |-> x]) ELSE out
      /\ UNCHANGED <<server, in, fds, queue, display_queue, running, last_error>>
  BY <1>0 DEF Destroy
<1>2. /\ resource' = resource /\ sent' = sent /\ in' = in /\ fds' = fds /\ queue' = queue
      /\ display_queue' = display_queue /\ running' = running /\ last_error' = last_error
  BY <1>1 DEF server
<1>3. /\ TypeOK /\ EntriesFit /\ RequestsFit /\ ClientIdsFit /\ EventsFit /\ NamesFit /\ ServerIdsFit
      /\ ClosuresFit /\ FdsFit /\ NoUseAfterFree /\ EventsReachTheirObject
  BY DEF Inv
<1>4. /\ proxies \in Seq(ProxyRecords) /\ id \in Ids /\ x \in Objects /\ p \in Nat \ {0}
      /\ \A q \in DOMAIN proxies : q \in Nat \ {0} /\ proxies[q].id \in Ids /\ proxies[q].refcount \in Int
  BY <1>0, <1>1, <1>3, ProxyTypes
<1>5. /\ map[id] = p /\ x # NoObject /\ (proxies[p].deleted => id \in ClientIds) /\ (id \in ServerIds => ~x.once)
  BY <1>0, <1>1, <1>3 DEF EntriesFit
<1>6. /\ proxies' \in Seq(ProxyRecords) /\ DOMAIN proxies' = DOMAIN proxies
      /\ \A q \in DOMAIN proxies \ {p} : proxies'[q] = proxies[q]
      /\ proxies'[p].id = id /\ proxies'[p].is = x /\ proxies'[p].deleted = proxies[p].deleted
      /\ proxies'[p].destroyed /\ proxies'[p].refcount = proxies[p].refcount - 1
  <2>1. PICK s, t, u : s = proxies /\ t = proxies' /\ u = [proxies EXCEPT ![p].destroyed = TRUE]
    OBVIOUS
  <2>2. s \in Seq(ProxyRecords) /\ p \in DOMAIN s /\ t = unref(<<p>>, u)
    BY <1>1, <1>4, <2>1
  <2>3. DOMAIN u = DOMAIN s /\ u[p] = [s[p] EXCEPT !.destroyed = TRUE] /\ \A q \in DOMAIN s \ {p} : u[q] = s[q]
    BY <1>1, <2>1
  <2>4. PICK y, z : y = s[p] /\ z = u[p] /\ y \in ProxyRecords /\ z = [y EXCEPT !.destroyed = TRUE]
    BY <2>2, <2>3
  <2>5. /\ z \in ProxyRecords /\ z.id = y.id /\ z.is = y.is /\ z.deleted = y.deleted /\ z.destroyed
        /\ z.refcount = y.refcount
    BY <2>4 DEF ProxyRecords
  <2>6. /\ t \in Seq(ProxyRecords) /\ DOMAIN t = DOMAIN s /\ \A q \in DOMAIN s \ {p} : t[q] = s[q]
        /\ t[p].id = s[p].id /\ t[p].is = s[p].is /\ t[p].deleted = s[p].deleted
        /\ t[p].destroyed /\ t[p].refcount = s[p].refcount - 1
    <3>1. Marked(s, p, u)
      BY <2>3, <2>4, <2>5 DEF Marked
    <3>2. DroppedIs(s, p, t)
      BY <2>2, <3>1, Dropped
    <3> QED
      BY <3>2 DEF DroppedIs
  <2> QED
    BY <1>0, <2>1, <2>6
<1>7. EntryAfter(p) = IF proxies[p].deleted THEN Free ELSE IF id \in ClientIds THEN Zombie ELSE Absent
  BY <1>0 DEF EntryAfter
<1>8. PICK r : r = [req |-> "destroy", id |-> id, object |-> x]
  OBVIOUS
<1>9. r \in Requests /\ r.req = "destroy" /\ r.id = id
  BY <1>4, <1>8 DEF Requests
<1>10. PICK sends \in BOOLEAN : sends <=> ~x.once /\ last_error = "none"
  OBVIOUS
<1>11. out' = IF sends THEN Append(out, r) ELSE out
  BY <1>1, <1>8, <1>10
<1>12. /\ map' \in [Ids -> {Free, Zombie, Absent} \cup Nat]
       /\ \A i \in Ids \ {id} : map'[i] = map[i]
       /\ map'[id] = IF proxies[p].deleted THEN Free ELSE IF id \in ClientIds THEN Zombie ELSE Absent
  BY <1>1, <1>3, <1>4, <1>7 DEF TypeOK
<1>13. map'[id] <= 0 /\ map'[id] \in {Free, Zombie, Absent}
  BY <1>12 DEF Free, Zombie, Absent
<1>14. /\ out' \in Seq(Requests) /\ DOMAIN out \subseteq DOMAIN out' /\ \A i \in DOMAIN out : out'[i] = out[i]
       /\ \A i \in DOMAIN out' : i \in DOMAIN out \/ (out'[i] = r /\ sends)
       /\ \A i, j \in DOMAIN out' : i \notin DOMAIN out /\ j \notin DOMAIN out => i = j
       /\ \A i, j \in DOMAIN out' : i \in DOMAIN out /\ j \notin DOMAIN out => i < j
  <2>1. out \in Seq(Requests)
    BY <1>3 DEF TypeOK
  <2>2. CASE ~sends
    BY <1>11, <2>1, <2>2
  <2>3. CASE sends
    <3>1. out' = Append(out, r)
      BY <1>11, <2>3
    <3>2. /\ out' \in Seq(Requests) /\ DOMAIN out' = DOMAIN out \cup {Len(out) + 1} /\ out'[Len(out) + 1] = r
          /\ \A i \in DOMAIN out : out'[i] = out[i] /\ i < Len(out) + 1
      BY <1>9, <2>1, <3>1, Longer
    <3> QED
      BY <2>3, <3>2
  <2> QED
    BY <2>2, <2>3
<1>15. \A i : /\ Making(i)' <=> Making(i)
              /\ i # id => (Ending(i)' <=> Ending(i))
              /\ Deleting(i)' <=> Deleting(i)
              /\ Deleted(i)' <=> Deleted(i)
              /\ Known(i)' <=> Known(i)
  <2>1. \A i, q : q # "destroy" \/ i # id => (Asked(i, q)' <=> Asked(i, q))
    BY <1>9, <1>14 DEF Asked
  <2> QED
    BY <1>2, <2>1 DEF Making, Ending, Deleting, Deleted, Known
<1>16. Ending(id)' => Ending(id) \/ sends
  <2> SUFFICES ASSUME Ending(id)' PROVE Ending(id) \/ sends
    OBVIOUS
  <2>1. PICK i \in DOMAIN out' : out'[i].req = "destroy" /\ out'[i].id = id
    BY DEF Ending, Asked
  <2> QED
    BY <1>14, <2>1 DEF Ending, Asked
<1>17. TypeOK'
  BY <1>2, <1>3, <1>6, <1>12, <1>14 DEF TypeOK
<1>18. \A q \in DOMAIN proxies : q # p /\ ~proxies[q].destroyed => proxies[q].id # id
  BY <1>3, <1>5 DEF EntriesFit
<1>19. EntriesFit'
  <2>1. \A i \in Ids : map'[i] > 0 =>
          map'[i] \in DOMAIN proxies' /\ proxies'[map'[i]].id = i /\ ~proxies'[map'[i]].destroyed
    <3> SUFFICES ASSUME NEW i \in Ids, map'[i] > 0
                 PROVE  map'[i] \in DOMAIN proxies' /\ proxies'[map'[i]].id = i /\ ~proxies'[map'[i]].destroyed
      OBVIOUS
    <3>1. i # id
      BY <1>12 DEF Free, Zombie, Absent
    <3>2. map'[i] = map[i] /\ map[i] \in DOMAIN proxies /\ proxies[map[i]].id = i /\ ~proxies[map[i]].destroyed
      BY <1>3, <1>12, <3>1 DEF EntriesFit
    <3>3. map[i] # p
      BY <1>0, <3>1, <3>2
    <3> QED
      BY <1>6, <3>2, <3>3
  <2>2. \A q \in DOMAIN proxies' : ~proxies'[q].destroyed => map'[proxies'[q].id] = q
    BY <1>3, <1>4, <1>6, <1>12, <1>18 DEF EntriesFit
  <2>3. \A q \in DOMAIN proxies' :
          /\ proxies'[q].deleted => proxies'[q].id \in ClientIds
          /\ proxies'[q].is # NoObject
          /\ proxies'[q].id \in ServerIds => ~proxies'[q].is.once
    BY <1>3, <1>5, <1>6 DEF EntriesFit
  <2>4. \A i \in Ids : map'[i] # (IF i \in ClientIds THEN Absent ELSE Zombie)
    BY <1>3, <1>5, <1>12 DEF EntriesFit, Absent, Zombie, Free
  <2> QED
    BY <2>1, <2>2, <2>3, <2>4 DEF EntriesFit
<1>20. ~Ending(id) /\ (sends => ~resource[id].once)
  <2>1. CASE id \in ClientIds
    <3>1. map[id] # Zombie /\ map[id] > 0
      BY <1>4, <1>5 DEF Zombie
    <3>2. Known(id) => resource[id] = x
      BY <1>0, <1>3, <1>5, <2>1, <3>1 DEF ClientIdsFit
    <3>3. NoObject.once = FALSE
      BY DEF NoObject, Object
    <3>4. ~Ending(id)
      BY <1>3, <2>1, <3>1 DEF ClientIdsFit
    <3> QED
      BY <1>10, <3>2, <3>3, <3>4 DEF Known
  <2>2. CASE id \in ServerIds
    BY <1>3, <1>4, <1>5, <2>2 DEF ServerIdsFit
  <2> QED
    BY <1>4, <2>1, <2>2, IdKinds
<1>21. \A i \in DOMAIN out : out[i].req = "destroy" => out[i].id # id
  BY <1>20 DEF Ending, Asked
<1>22. RequestsFit'
  <2>1. \A i, j \in DOMAIN out' : out'[i].id = out'[j].id /\ out'[i].req = out'[j].req => i = j
    BY <1>3, <1>9, <1>14, <1>21 DEF RequestsFit
  <2> SUFFICES ASSUME NEW i \in DOMAIN out'
               PROVE  IF out'[i].req = "destroy" THEN ~resource[out'[i].id].once
                      ELSE /\ out'[i].id \in ClientIds /\ out'[i].object # NoObject
                           /\ map'[out'[i].id] > 0 => out'[i].object = proxies'[map'[out'[i].id]].is
                           /\ \A j \in DOMAIN out' : out'[j].req = "destroy" /\ out'[j].id = out'[i].id =>
                                i < j /\ ~out'[i].object.once
    BY <1>2, <2>1 DEF RequestsFit
  <2>2. CASE i \in DOMAIN out /\ out[i].req # "destroy"
    <3>1. out'[i] = out[i] /\ out[i].id \in Ids
      BY <1>3, <1>14, <2>2, RequestIds
    <3>2. out[i].id \in ClientIds /\ out[i].object # NoObject
      BY <1>3, <2>2 DEF RequestsFit
    <3>3. map[out[i].id] > 0 => out[i].object = proxies[map[out[i].id]].is /\ map[out[i].id] \in DOMAIN proxies
      BY <1>3, <2>2, <3>1 DEF RequestsFit, EntriesFit
    <3>4. map'[out[i].id] > 0 => out[i].object = proxies'[map'[out[i].id]].is
      <4> SUFFICES ASSUME map'[out[i].id] > 0 PROVE out[i].object = proxies'[map'[out[i].id]].is
        OBVIOUS
      <4>1. out[i].id # id
        BY <1>12 DEF Free, Zombie, Absent
      <4>2. map'[out[i].id] = map[out[i].id]
        BY <1>12, <3>1, <4>1
      <4> QED
        BY <1>0, <1>6, <3>3, <4>2
    <3>5. out[i].id = id => out[i].object = x
      BY <1>0, <1>4, <1>5, <3>3
    <3>6. \A j \in DOMAIN out' : out'[j].req = "destroy" /\ out'[j].id = out[i].id =>
                                i < j /\ ~out[i].object.once
      <4> SUFFICES ASSUME NEW j \in DOMAIN out', out'[j].req = "destroy", out'[j].id = out[i].id
                   PROVE  i < j /\ ~out[i].object.once
        OBVIOUS
      <4>1. CASE j \in DOMAIN out
        BY <1>3, <1>14, <2>2, <4>1 DEF RequestsFit
      <4>2. CASE j \notin DOMAIN out
        BY <1>9, <1>10, <1>14, <2>2, <3>5, <4>2
      <4> QED
        BY <4>1, <4>2
    <3> QED
      BY <2>2, <3>1, <3>2, <3>4, <3>6
  <2>3. CASE i \in DOMAIN out /\ out[i].req = "destroy"
    BY <1>3, <1>14, <2>3 DEF RequestsFit
  <2>4. CASE i \notin DOMAIN out
    BY <1>9, <1>14, <1>20, <2>4
  <2> QED
    BY <2>2, <2>3, <2>4
<1>23. ClientIdsFit'
  <2> SUFFICES ASSUME NEW i \in ClientIds
               PROVE  /\ Making(i)' => ~Known(i)' /\ ~Deleting(i)' /\ ~Deleted(i)'
                      /\ Known(i)' => ~Deleting(i)' /\ ~Deleted(i)'
                      /\ Deleting(i)' => ~Deleted(i)'
                      /\ map'[i] = Free => ~Making(i)' /\ ~Known(i)' /\ ~Deleting(i)' /\ ~Deleted(i)'
                      /\ Ending(i)' => map'[i] = Zombie /\ (Making(i)' \/ Known(i)')
                      /\ map'[i] > 0 =>
                           /\ Known(i)' => resource'[i] = proxies'[map'[i]].is
                           /\ proxies'[map'[i]].deleted => ~Making(i)' /\ ~Known(i)' /\ ~Deleting(i)' /\ ~Deleted(i)'
                           /\ Deleting(i)' \/ Deleted(i)' \/ proxies'[map'[i]].deleted => proxies'[map'[i]].is.once
                           /\ last_error' = "none" => Making(i)' \/ Known(i)' \/ Deleting(i)' \/ Deleted(i)' \/ proxies'[map'[i]].deleted
    BY DEF ClientIdsFit
  <2>1. CASE i = id
    <3>1. /\ Making(id) => ~Known(id) /\ ~Deleting(id) /\ ~Deleted(id)
          /\ Known(id) => ~Deleting(id) /\ ~Deleted(id)
          /\ Deleting(id) => ~Deleted(id)
          /\ proxies[p].deleted => ~Making(id) /\ ~Known(id) /\ ~Deleting(id) /\ ~Deleted(id)
          /\ Deleting(id) \/ Deleted(id) \/ proxies[p].deleted => x.once
          /\ last_error = "none" => Making(id) \/ Known(id) \/ Deleting(id) \/ Deleted(id) \/ proxies[p].deleted
      BY <1>0, <1>3, <1>4, <1>5, <2>1 DEF ClientIdsFit
    <3>2. ~(map'[i] > 0)
      BY <1>12, <2>1 DEF Free, Zombie, Absent
    <3>3. map'[i] = Free => proxies[p].deleted
      BY <1>12, <2>1 DEF Free, Zombie, Absent
    <3>4. Ending(i)' => map'[i] = Zombie /\ (Making(i) \/ Known(i))
      BY <1>10, <1>12, <1>16, <1>20, <2>1, <3>1
    <3> QED
      BY <1>15, <2>1, <3>1, <3>2, <3>3, <3>4
  <2>2. CASE i # id
    <3>1. map'[i] = map[i] /\ i \in Ids
      BY <1>12, <2>2 DEF Ids
    <3>2. map[i] > 0 => map[i] # p /\ proxies'[map[i]] = proxies[map[i]]
      BY <1>0, <1>3, <1>6, <2>2, <3>1 DEF EntriesFit
    <3> QED
      BY <1>2, <1>3, <1>15, <2>2, <3>1, <3>2 DEF ClientIdsFit
  <2> QED
    BY <2>1, <2>2
<1>24. EventsFit'
  BY <1>2, <1>3 DEF EventsFit, EventFits
<1>25. NamesFit'
  <2>1. \A i \in DOMAIN in : \A c \in ClientIds : Names(in[i], c) =>
          Known(c)' \/ \E k \in DOMAIN in : k > i /\ in[k].kind = "delete_id" /\ in[k].arg = c
    BY <1>3, <1>15 DEF NamesFit
  <2>2. ASSUME NEW c \in Ids, map'[c] > 0, NEW i \in DOMAIN in, in[i].kind # "delete_id"
        PROVE  Says(in[i], c, proxies'[map'[c]].is)
    <3>1. c # id
      BY <1>12, <2>2 DEF Free, Zombie, Absent
    <3>2. map'[c] = map[c] /\ map[c] \in DOMAIN proxies
      BY <1>3, <1>12, <2>2, <3>1 DEF EntriesFit
    <3>3. Says(in[i], c, proxies[map[c]].is)
      BY <1>3, <2>2, <3>2 DEF NamesFit
    <3>4. proxies'[map[c]].is = proxies[map[c]].is
      BY <1>0, <1>6, <3>2
    <3> QED
      BY <3>2, <3>3, <3>4
  <2> QED
    BY <1>2, <2>1, <2>2 DEF NamesFit
<1>26. ServerIdsFit'
  <2> SUFFICES ASSUME NEW s \in ServerIds
               PROVE  /\ ~resource[s].once
                      /\ map'[s] > 0 => resource[s] = proxies'[map'[s]].is /\ ~Ending(s)'
                      /\ Ending(s)' => Known(s) /\ map'[s] = Absent
                      /\ \A k \in DOMAIN in : IsNew(in[k], s) =>
                           /\ map'[s] \in {Free, Absent} /\ resource[s] = in[k].argMeant /\ ~Ending(s)'
                           /\ \A i \in DOMAIN in : IsNew(in[i], s) => i = k
                           /\ \A i \in DOMAIN in : i > k /\ in[i].kind # "delete_id" => Says(in[i], s, in[k].argMeant)
    BY <1>2, <1>15 DEF ServerIdsFit
  <2>1. s \in Ids /\ s \notin ClientIds
    BY IdKinds
  <2>2. CASE s = id
    <3>1. map[s] > 0 /\ map[s] \notin {Free, Absent}
      BY <1>4, <1>5, <2>2 DEF Free, Absent
    <3>2. resource[s] = x /\ Known(s)
      BY <1>0, <1>3, <1>5, <2>2, <3>1 DEF ServerIdsFit, Known
    <3>3. \A k \in DOMAIN in : ~IsNew(in[k], s)
      BY <1>3, <3>1 DEF ServerIdsFit
    <3>4. map'[s] = Absent /\ ~(map'[s] > 0)
      BY <1>5, <1>12, <2>1, <2>2 DEF Absent
    <3> QED
      BY <1>3, <3>2, <3>3, <3>4 DEF ServerIdsFit
  <2>3. CASE s # id
    <3>1. map'[s] = map[s]
      BY <1>12, <2>1, <2>3
    <3>2. map[s] > 0 => map[s] # p /\ proxies'[map[s]] = proxies[map[s]]
      BY <1>0, <1>3, <1>6, <2>1, <2>3 DEF EntriesFit
    <3> QED
      BY <1>3, <1>15, <2>3, <3>1, <3>2 DEF ServerIdsFit
  <2> QED
    BY <2>2, <2>3
<1>27. /\ ClosuresFit' /\ EventsReachTheirObject' /\ Closures' = Closures /\ (FdsFollowEvents => FdsFollowEvents')
  <2>1. sent' \in Nat /\ sent' >= sent /\ DOMAIN proxies \subseteq DOMAIN proxies'
    BY <1>2, <1>3, <1>6, EventTypes
  <2>2. \A q \in DOMAIN proxies : proxies'[q].is = proxies[q].is
    BY <1>0, <1>6
  <2> QED
    BY <1>2, <2>1, <2>2, ClosuresStay
<1>28. NoUseAfterFree'
  <2>1. \A q : Keepers(q)' = Keepers(q)
    BY <1>27 DEF Keepers, Keep
  <2>2. \A q : Owner(q)' = IF proxies'[q].destroyed THEN 0 ELSE 1
    BY DEF Owner
  <2>3. ASSUME NEW q \in DOMAIN proxies PROVE proxies'[q].refcount >= Owner(q)' + Keepers(q)'
    <3>1. proxies[q].refcount >= Owner(q) + Keepers(q)
      BY <1>3 DEF NoUseAfterFree
    <3>2. CASE q = p
      <4>1. Owner(q) = 1 /\ Owner(q)' = 0
        BY <1>1, <1>6, <2>2, <3>2 DEF Owner
      <4>2. Keepers(q) \in Nat
        <5>1. IsFiniteSet(Closures)
          BY <1>3, ClosuresFinite
        <5> QED
          BY <5>1, FS_Subset, FS_CardinalityType DEF Keepers, Keep
      <4> QED
        BY <1>1, <1>4, <1>6, <2>1, <3>1, <3>2, <4>1, <4>2
    <3>3. CASE q # p
      <4>1. Owner(q)' = Owner(q)
        BY <1>6, <2>2, <3>3 DEF Owner
      <4> QED
        BY <1>6, <2>1, <3>1, <3>3, <4>1
    <3> QED
      BY <3>2, <3>3
  <2> QED
    BY <1>6, <2>3 DEF NoUseAfterFree
<1>29. FdsFit' /\ (ConnectionSurvives => ConnectionSurvives')
  BY <1>2, <1>3 DEF FdsFit, ConnectionSurvives
<1> QED
  BY <1>17, <1>19, <1>22, <1>23, <1>24, <1>25, <1>26, <1>27, <1>28, <1>29 DEF Inv

\* The requests that stay fit.
LEMMA RequestsLeave ==
  ASSUME Inv, NEW d \in 0..1, \A i \in DOMAIN out' : i \in Nat /\ i + d \in DOMAIN out /\ out'[i] = out[i + d],
         map' = map, proxies' = proxies,
         \A i \in DOMAIN out' : out'[i].req = "destroy" => ~resource'[out'[i].id].once
  PROVE  RequestsFit'
<1>1. RequestsFit
  BY DEF Inv
<1>2. ASSUME NEW i \in DOMAIN out', NEW j \in DOMAIN out', out'[i].id = out'[j].id, out'[i].req = out'[j].req
      PROVE  i = j
  <2>1. i + d \in DOMAIN out /\ j + d \in DOMAIN out /\ out'[i] = out[i + d] /\ out'[j] = out[j + d] /\ i \in Nat /\ j \in Nat
    OBVIOUS
  <2>2. i + d = j + d
    BY <1>1, <1>2, <2>1 DEF RequestsFit
  <2> QED
    BY <2>1, <2>2
<1>3. ASSUME NEW i \in DOMAIN out', out'[i].req # "destroy"
      PROVE  /\ out'[i].id \in ClientIds /\ out'[i].object # NoObject
             /\ map[out'[i].id] > 0 => out'[i].object = proxies[map[out'[i].id]].is
             /\ \A j \in DOMAIN out' : out'[j].req = "destroy" /\ out'[j].id = out'[i].id =>
                  i < j /\ ~out'[i].object.once
  <2>1. PICK k \in DOMAIN out : k = i + d /\ out'[i] = out[k] /\ i \in Nat
    OBVIOUS
  <2>2. /\ out[k].id \in ClientIds /\ out[k].object # NoObject
        /\ map[out[k].id] > 0 => out[k].object = proxies[map[out[k].id]].is
        /\ \A j \in DOMAIN out : out[j].req = "destroy" /\ out[j].id = out[k].id => k < j /\ ~out[k].object.once
    BY <1>1, <1>3, <2>1 DEF RequestsFit
  <2>3. ASSUME NEW j \in DOMAIN out', out'[j].req = "destroy", out'[j].id = out'[i].id
        PROVE  i < j /\ ~out'[i].object.once
    <3>1. PICK l \in DOMAIN out : l = j + d /\ out'[j] = out[l] /\ j \in Nat
      OBVIOUS
    <3> QED
      BY <2>1, <2>2, <2>3, <3>1
  <2> QED
    BY <2>1, <2>2, <2>3
<1> QED
  BY <1>2, <1>3 DEF RequestsFit

\* The compositor's side of a client's object is gone, and the client hears of it.
LEMMA ObjectGone ==
  ASSUME ProxyLifeAssumption, Inv, NEW id \in ClientIds, Known(id), ~Making(id),
         map[id] > 0 => proxies[map[id]].is.once,
         out' \in Seq(Requests), NEW d \in 0..1,
         \A i \in DOMAIN out' : i \in Nat /\ i + d \in DOMAIN out /\ out'[i] = out[i + d],
         ~Ending(id)', \A i : Making(i)' <=> Making(i), \A i : i # id => (Ending(i)' <=> Ending(i)),
         resource' = [resource EXCEPT ![id] = NoObject], in' = Append(in, DeleteEvent(id)),
         UNCHANGED <<map, proxies, fds, sent, queue, display_queue, running, last_error>>
  PROVE  Inv'
<1>1. /\ TypeOK /\ EntriesFit /\ RequestsFit /\ ClientIdsFit /\ EventsFit /\ NamesFit /\ ServerIdsFit
      /\ ClosuresFit /\ FdsFit /\ NoUseAfterFree /\ EventsReachTheirObject
  BY DEF Inv
<1>2. id \in Ids /\ NoObject \in Objects /\ NoObject.once = FALSE /\ id \notin ServerIds /\ id \in Nat
  BY IdKinds DEF NoObject, Object, Objects
<1>3. PICK e : e = DeleteEvent(id)
  OBVIOUS
<1>4. e \in Events /\ e.kind = "delete_id" /\ e.arg = id /\ e = DeleteEvent(e.arg)
  BY <1>2, <1>3 DEF DeleteEvent, Nothing, Events
<1>5. resource' \in [Ids -> Objects] /\ resource'[id] = NoObject /\ \A i \in Ids \ {id} : resource'[i] = resource[i]
  BY <1>1, <1>2 DEF TypeOK
<1>6. PICK K : K = Len(in) + 1
  OBVIOUS
<1>7. /\ in' \in Seq(Events) /\ DOMAIN in' = DOMAIN in \cup {K} /\ in'[K] = e /\ K \notin DOMAIN in
      /\ \A i \in DOMAIN in : in'[i] = in[i] /\ i < K /\ i \in Nat
      /\ K \in Nat
  <2>1. in \in Seq(Events) /\ in' = Append(in, e)
    BY <1>1, <1>3 DEF TypeOK
  <2>2. /\ in' \in Seq(Events) /\ DOMAIN in' = DOMAIN in \cup {K} /\ in'[K] = e
        /\ \A i \in DOMAIN in : in'[i] = in[i] /\ i < K /\ i \in Nat
        /\ K \in Nat
    BY <1>4, <1>6, <2>1, Longer
  <2> QED
    BY <2>2
<1>8. ~Deleting(id) /\ ~Deleted(id)
  BY <1>1 DEF ClientIdsFit
<1>9. /\ ~Known(id)' /\ Deleting(id)' /\ \A i : Deleted(i)' <=> Deleted(i)
      /\ \A i \in Ids \ {id} : (Known(i)' <=> Known(i)) /\ (Deleting(i)' <=> Deleting(i))
  BY <1>4, <1>5, <1>7 DEF Known, Deleting, Deleted
<1>10. TypeOK'
  BY <1>1, <1>5, <1>7 DEF TypeOK
<1>11. EntriesFit'
  BY <1>1 DEF EntriesFit
<1>12. RequestsFit'
  <2>1. \A i \in DOMAIN out' : out'[i].req = "destroy" => ~resource'[out'[i].id].once
    <3> SUFFICES ASSUME NEW i \in DOMAIN out', out'[i].req = "destroy" PROVE ~resource'[out'[i].id].once
      OBVIOUS
    <3>1. PICK k \in DOMAIN out : out'[i] = out[k]
      OBVIOUS
    <3>2. ~resource[out[k].id].once /\ out[k].id \in Ids
      BY <1>1, <3>1, RequestIds DEF RequestsFit
    <3> QED
      BY <1>2, <1>5, <3>1, <3>2
  <2> QED
    BY <2>1, RequestsLeave
<1>13. ClientIdsFit'
  <2> SUFFICES ASSUME NEW i \in ClientIds
               PROVE  /\ Making(i)' => ~Known(i)' /\ ~Deleting(i)' /\ ~Deleted(i)'
                      /\ Known(i)' => ~Deleting(i)' /\ ~Deleted(i)'
                      /\ Deleting(i)' => ~Deleted(i)'
                      /\ map'[i] = Free => ~Making(i)' /\ ~Known(i)' /\ ~Deleting(i)' /\ ~Deleted(i)'
                      /\ Ending(i)' => map'[i] = Zombie /\ (Making(i)' \/ Known(i)')
                      /\ map'[i] > 0 =>
                           /\ Known(i)' => resource'[i] = proxies'[map'[i]].is
                           /\ proxies'[map'[i]].deleted => ~Making(i)' /\ ~Known(i)' /\ ~Deleting(i)' /\ ~Deleted(i)'
                           /\ Deleting(i)' \/ Deleted(i)' \/ proxies'[map'[i]].deleted => proxies'[map'[i]].is.once
                           /\ last_error' = "none" => Making(i)' \/ Known(i)' \/ Deleting(i)' \/ Deleted(i)' \/ proxies'[map'[i]].deleted
    BY DEF ClientIdsFit
  <2>1. CASE i = id
    <3>1. map[id] # Free /\ (map[id] > 0 => ~proxies[map[id]].deleted)
      BY <1>1 DEF ClientIdsFit
    <3> QED
      BY <1>8, <1>9, <2>1, <3>1
  <2>2. CASE i # id
    <3>1. i \in Ids
      BY IdKinds
    <3> QED
      BY <1>1, <1>5, <1>9, <2>2, <3>1 DEF ClientIdsFit
  <2> QED
    BY <2>1, <2>2
<1>14. EventsFit'
  <2>1. \A i \in DOMAIN in' : EventFits(in'[i])
    <3>1. EventFits(e)
      BY <1>4 DEF EventFits
    <3> QED
      BY <1>1, <1>7, <3>1 DEF EventsFit
  <2>2. \A i, j \in DOMAIN in' : i < j /\ in'[i].kind # "delete_id" /\ in'[j].kind # "delete_id" => in'[i].n < in'[j].n
    BY <1>1, <1>4, <1>7 DEF EventsFit
  <2>3. \A i, j \in DOMAIN in' : in'[i].kind = "delete_id" /\ in'[j].kind = "delete_id" /\ in'[i].arg = in'[j].arg => i = j
    BY <1>1, <1>4, <1>7, <1>8 DEF EventsFit, Deleting
  <2> QED
    BY <1>1, <2>1, <2>2, <2>3 DEF EventsFit, EventFits
<1>15. NamesFit'
  <2>1. ASSUME NEW i \in DOMAIN in', NEW c \in ClientIds, Names(in'[i], c)
        PROVE  Known(c)' \/ \E k \in DOMAIN in' : k > i /\ in'[k].kind = "delete_id" /\ in'[k].arg = c
    <3>1. i \in DOMAIN in /\ in'[i] = in[i] /\ i < K
      BY <1>4, <1>7, <2>1 DEF Names
    <3>2. CASE c = id
      BY <1>4, <1>7, <3>1, <3>2
    <3>3. CASE c # id
      <4>1. Known(c) \/ \E k \in DOMAIN in : k > i /\ in[k].kind = "delete_id" /\ in[k].arg = c
        BY <1>1, <2>1, <3>1 DEF NamesFit
      <4>2. c \in Ids \ {id}
        BY <3>3, IdKinds
      <4> QED
        BY <1>7, <1>9, <4>1, <4>2
    <3> QED
      BY <3>2, <3>3
  <2>2. \A c \in Ids : map[c] > 0 =>
       \A i \in DOMAIN in' : in'[i].kind # "delete_id" => Says(in'[i], c, proxies[map[c]].is)
    BY <1>1, <1>4, <1>7 DEF NamesFit
  <2> QED
    BY <2>1, <2>2 DEF NamesFit
<1>16. ServerIdsFit'
  <2> SUFFICES ASSUME NEW s \in ServerIds
               PROVE  /\ ~resource'[s].once
                      /\ map[s] > 0 => resource'[s] = proxies[map[s]].is /\ ~Ending(s)'
                      /\ Ending(s)' => Known(s)' /\ map[s] = Absent
                      /\ \A k \in DOMAIN in' : IsNew(in'[k], s) =>
                           /\ map[s] \in {Free, Absent} /\ resource'[s] = in'[k].argMeant /\ ~Ending(s)'
                           /\ \A i \in DOMAIN in' : IsNew(in'[i], s) => i = k
                           /\ \A i \in DOMAIN in' : i > k /\ in'[i].kind # "delete_id" => Says(in'[i], s, in'[k].argMeant)
    BY DEF ServerIdsFit
  <2>1. s \in Ids \ {id} /\ s # id
    BY <1>2, IdKinds
  <2>2. resource'[s] = resource[s] /\ (Known(s)' <=> Known(s)) /\ (Ending(s)' <=> Ending(s))
    BY <1>5, <1>9, <2>1
  <2>3. \A k \in DOMAIN in' : in'[k].kind # "delete_id" => k \in DOMAIN in /\ in'[k] = in[k]
    BY <1>4, <1>7
  <2>4. \A k \in DOMAIN in' : IsNew(in'[k], s) => k \in DOMAIN in /\ in'[k] = in[k] /\ IsNew(in[k], s)
    BY <2>3 DEF IsNew
  <2> QED
    BY <1>1, <2>2, <2>3, <2>4 DEF ServerIdsFit
<1>17. /\ ClosuresFit' /\ EventsReachTheirObject' /\ Closures' = Closures /\ (FdsFollowEvents => FdsFollowEvents')
  <2>1. sent' \in Nat /\ sent' >= sent
    BY <1>1, EventTypes
  <2>2. \A i \in DOMAIN in' : in'[i].kind # "delete_id" => \E j \in DOMAIN in : in[j].kind # "delete_id" /\ in[j].n = in'[i].n
    BY <1>4, <1>7
  <2> QED
    BY <2>1, <2>2, ClosuresStay
<1>18. NoUseAfterFree'
  BY <1>1, <1>17 DEF NoUseAfterFree, Owner, Keepers, Keep
<1>19. FdsFit'
  <2>1. \A i \in DOMAIN in' : in'[i].kind = "fd" => i \in DOMAIN in /\ in'[i] = in[i]
    BY <1>4, <1>7
  <2> QED
    BY <1>1, <1>7, <2>1 DEF FdsFit
<1>20. ConnectionSurvives => ConnectionSurvives'
  BY DEF ConnectionSurvives
<1> QED
  BY <1>10, <1>11, <1>12, <1>13, <1>14, <1>15, <1>16, <1>17, <1>18, <1>19, <1>20 DEF Inv

\* It destroys one of its objects after its last event.
LEMMA ServerDestroyStep ==
  ASSUME ProxyLifeAssumption, Inv, NEW id \in ClientIds, ServerDestroy(id)
  PROVE  Inv'
<1>1. /\ resource[id].once /\ resource' = [resource EXCEPT ![id] = NoObject] /\ in' = Append(in, DeleteEvent(id))
      /\ UNCHANGED <<map, proxies, fds, sent, queue, display_queue, running, last_error>> /\ out' = out
  BY DEF ServerDestroy
<1>2. TypeOK /\ ClientIdsFit /\ RequestsFit
  BY DEF Inv
<1>3. Known(id)
  BY <1>1 DEF Known, NoObject, Object
<1>4. ~Making(id) /\ (map[id] > 0 => proxies[map[id]].is.once)
  BY <1>1, <1>2, <1>3 DEF ClientIdsFit
<1>5. \A i : (Making(i)' <=> Making(i)) /\ (Ending(i)' <=> Ending(i))
  BY <1>1 DEF Making, Ending, Asked
<1>6. ~Ending(id)
  BY <1>1, <1>2 DEF Ending, Asked, RequestsFit
<1>7. out' \in Seq(Requests) /\ \A i \in DOMAIN out' : i \in Nat /\ i + 0 \in DOMAIN out /\ out'[i] = out[i + 0]
  <2>1. out \in Seq(Requests)
    BY <1>2 DEF TypeOK
  <2> QED
    BY <1>1, <2>1
<1>8. 0 \in 0..1
  OBVIOUS
<1> QED
  BY <1>1, <1>3, <1>4, <1>5, <1>6, <1>7, <1>8, ObjectGone

\* The compositor reads the request that makes an object.
LEMMA ServeCreateStep ==
  ASSUME ProxyLifeAssumption, Inv, Serve, Head(out).req = "create"
  PROVE  Inv'
<1>1. /\ out # <<>> /\ out' = Tail(out) /\ resource' = [resource EXCEPT ![Head(out).id] = Head(out).object] /\ in' = in
      /\ map' = map /\ proxies' = proxies /\ fds' = fds /\ sent' = sent /\ queue' = queue
      /\ display_queue' = display_queue /\ running' = running /\ last_error' = last_error
  BY DEF Serve
<1>2. /\ TypeOK /\ EntriesFit /\ RequestsFit /\ ClientIdsFit /\ EventsFit /\ NamesFit /\ ServerIdsFit
      /\ ClosuresFit /\ FdsFit /\ NoUseAfterFree /\ EventsReachTheirObject
  BY DEF Inv
<1>3. /\ out' \in Seq(Requests) /\ 1 \in DOMAIN out /\ Head(out) = out[1]
      /\ \A i \in DOMAIN out : i \in Nat /\ i >= 1
      /\ \A i \in DOMAIN out' : i \in Nat /\ i >= 1 /\ i + 1 \in DOMAIN out /\ out'[i] = out[i + 1]
      /\ \A i \in DOMAIN out : i = 1 \/ (i - 1 \in DOMAIN out' /\ out'[i - 1] = out[i])
  <2>1. out \in Seq(Requests)
    BY <1>2 DEF TypeOK
  <2> QED
    BY <1>1, <2>1, Shorter
<1>4. PICK id, x : id = out[1].id /\ x = out[1].object
  OBVIOUS
<1>5. /\ id \in ClientIds /\ id \in Ids /\ x \in Objects /\ x # NoObject /\ out[1].req = "create"
      /\ map[id] > 0 => x = proxies[map[id]].is
      /\ \A j \in DOMAIN out : out[j].req = "destroy" /\ out[j].id = id => ~x.once
  BY <1>2, <1>3, <1>4, RequestIds DEF RequestsFit
<1>6. resource' \in [Ids -> Objects] /\ resource'[id] = x /\ \A i \in Ids \ {id} : resource'[i] = resource[i]
  BY <1>1, <1>2, <1>3, <1>4, <1>5 DEF TypeOK
<1>7. Making(id)
  BY <1>3, <1>4, <1>5 DEF Making, Asked
<1>8. ~Known(id) /\ ~Deleting(id) /\ ~Deleted(id)
  BY <1>2, <1>5, <1>7 DEF ClientIdsFit
<1>9. \A i \in DOMAIN out' : ~(out'[i].req = "create" /\ out'[i].id = id)
  <2> SUFFICES ASSUME NEW i \in DOMAIN out', out'[i].req = "create", out'[i].id = id PROVE FALSE
    OBVIOUS
  <2>1. i + 1 \in DOMAIN out /\ out[i + 1].req = "create" /\ out[i + 1].id = id /\ i + 1 # 1
    BY <1>3
  <2> QED
    BY <1>2, <1>3, <1>4, <1>5, <2>1 DEF RequestsFit
<1>10. /\ ~Making(id)' /\ Known(id)'
       /\ \A i : i # id => (Making(i)' <=> Making(i))
       /\ \A i : Ending(i)' <=> Ending(i)
       /\ \A i : (Deleting(i)' <=> Deleting(i)) /\ (Deleted(i)' <=> Deleted(i))
       /\ \A i \in Ids \ {id} : Known(i)' <=> Known(i)
  <2>1. \A i, q : q # "create" \/ i # id => (Asked(i, q)' <=> Asked(i, q))
    <3> SUFFICES ASSUME NEW i, NEW q, q # "create" \/ i # id PROVE Asked(i, q)' <=> Asked(i, q)
      OBVIOUS
    <3>1. ASSUME NEW k \in DOMAIN out', out'[k].req = q, out'[k].id = i PROVE Asked(i, q)
      BY <1>3, <3>1 DEF Asked
    <3>2. ASSUME NEW k \in DOMAIN out, out[k].req = q, out[k].id = i
          PROVE  \E l \in DOMAIN out' : out'[l].req = q /\ out'[l].id = i
      <4>1. k # 1
        BY <1>4, <1>5, <3>2
      <4> QED
        BY <1>3, <3>2, <4>1
    <3> QED
      BY <3>1, <3>2 DEF Asked
  <2>2. ~Making(id)'
    BY <1>9 DEF Making, Asked
  <2> QED
    BY <1>1, <1>5, <1>6, <2>1, <2>2 DEF Making, Ending, Deleting, Deleted, Known
<1>11. TypeOK'
  BY <1>1, <1>2, <1>3, <1>6 DEF TypeOK
<1>12. EntriesFit' /\ EventsFit' /\ FdsFit' /\ (ConnectionSurvives => ConnectionSurvives')
  BY <1>1, <1>2 DEF EntriesFit, EventsFit, EventFits, FdsFit, ConnectionSurvives
<1>13. RequestsFit'
  <2>1. \A i \in DOMAIN out' : out'[i].req = "destroy" => ~resource'[out'[i].id].once
    <3> SUFFICES ASSUME NEW i \in DOMAIN out', out'[i].req = "destroy" PROVE ~resource'[out'[i].id].once
      OBVIOUS
    <3>1. PICK k \in DOMAIN out : out'[i] = out[k]
      BY <1>3
    <3>2. ~resource[out[k].id].once /\ out[k].id \in Ids
      BY <1>2, <3>1, RequestIds DEF RequestsFit
    <3> QED
      BY <1>5, <1>6, <3>1, <3>2
  <2>2. \A i \in DOMAIN out' : i \in Nat /\ i + 1 \in DOMAIN out /\ out'[i] = out[i + 1]
    BY <1>3
  <2>3. 1 \in 0..1
    OBVIOUS
  <2> QED
    BY <1>1, <2>1, <2>2, <2>3, RequestsLeave
<1>14. ClientIdsFit'
  <2> SUFFICES ASSUME NEW i \in ClientIds
               PROVE  /\ Making(i)' => ~Known(i)' /\ ~Deleting(i)' /\ ~Deleted(i)'
                      /\ Known(i)' => ~Deleting(i)' /\ ~Deleted(i)'
                      /\ Deleting(i)' => ~Deleted(i)'
                      /\ map[i] = Free => ~Making(i)' /\ ~Known(i)' /\ ~Deleting(i)' /\ ~Deleted(i)'
                      /\ Ending(i)' => map[i] = Zombie /\ (Making(i)' \/ Known(i)')
                      /\ map[i] > 0 =>
                           /\ Known(i)' => resource'[i] = proxies[map[i]].is
                           /\ proxies[map[i]].deleted => ~Making(i)' /\ ~Known(i)' /\ ~Deleting(i)' /\ ~Deleted(i)'
                           /\ Deleting(i)' \/ Deleted(i)' \/ proxies[map[i]].deleted => proxies[map[i]].is.once
                           /\ last_error' = "none" => Making(i)' \/ Known(i)' \/ Deleting(i)' \/ Deleted(i)' \/ proxies[map[i]].deleted
    BY <1>1 DEF ClientIdsFit
  <2>1. CASE i = id
    <3>1. map[id] # Free /\ (map[id] > 0 => ~proxies[map[id]].deleted) /\ (Ending(id) => map[id] = Zombie)
      BY <1>2, <1>5, <1>7 DEF ClientIdsFit
    <3> QED
      BY <1>5, <1>6, <1>8, <1>10, <2>1, <3>1
  <2>2. CASE i # id
    <3>1. i \in Ids
      BY IdKinds
    <3> QED
      BY <1>1, <1>2, <1>6, <1>10, <2>2, <3>1 DEF ClientIdsFit
  <2> QED
    BY <2>1, <2>2
<1>15. NamesFit'
  <2>1. \A c \in ClientIds : Known(c) => Known(c)'
    BY <1>10, IdKinds
  <2> QED
    BY <1>1, <1>2, <2>1 DEF NamesFit
<1>16. ServerIdsFit'
  <2>1. \A s \in ServerIds : resource'[s] = resource[s] /\ (Known(s)' <=> Known(s))
    <3>1. \A s \in ServerIds : s \in Ids \ {id}
      BY <1>5, IdKinds
    <3> QED
      BY <1>6, <1>10, <3>1
  <2> QED
    BY <1>1, <1>2, <1>10, <2>1 DEF ServerIdsFit
<1>17. /\ ClosuresFit' /\ EventsReachTheirObject' /\ Closures' = Closures /\ (FdsFollowEvents => FdsFollowEvents')
  <2>1. sent' \in Nat /\ sent' >= sent
    BY <1>1, <1>2, EventTypes
  <2> QED
    BY <1>1, <2>1, ClosuresStay
<1>18. NoUseAfterFree'
  BY <1>1, <1>2, <1>17 DEF NoUseAfterFree, Owner, Keepers, Keep
<1> QED
  BY <1>11, <1>12, <1>13, <1>14, <1>15, <1>16, <1>17, <1>18 DEF Inv

\* And one that destroys an object.
LEMMA ServeDestroyStep ==
  ASSUME ProxyLifeAssumption, Inv, Serve, Head(out).req # "create"
  PROVE  Inv'
<1>1. /\ out # <<>> /\ out' = Tail(out) /\ resource' = [resource EXCEPT ![Head(out).id] = NoObject]
      /\ in' = IF Head(out).id \in ClientIds THEN Append(in, DeleteEvent(Head(out).id)) ELSE in
      /\ map' = map /\ proxies' = proxies /\ fds' = fds /\ sent' = sent /\ queue' = queue
      /\ display_queue' = display_queue /\ running' = running /\ last_error' = last_error
  BY DEF Serve
<1>2. /\ TypeOK /\ EntriesFit /\ RequestsFit /\ ClientIdsFit /\ EventsFit /\ NamesFit /\ ServerIdsFit
      /\ ClosuresFit /\ FdsFit /\ NoUseAfterFree /\ EventsReachTheirObject
  BY DEF Inv
<1>3. /\ out' \in Seq(Requests) /\ 1 \in DOMAIN out /\ Head(out) = out[1]
      /\ \A i \in DOMAIN out : i \in Nat /\ i >= 1
      /\ \A i \in DOMAIN out' : i \in Nat /\ i >= 1 /\ i + 1 \in DOMAIN out /\ out'[i] = out[i + 1]
      /\ \A i \in DOMAIN out : i = 1 \/ (i - 1 \in DOMAIN out' /\ out'[i - 1] = out[i])
  <2>1. out \in Seq(Requests)
    BY <1>2 DEF TypeOK
  <2> QED
    BY <1>1, <2>1, Shorter
<1>4. PICK id : id = out[1].id
  OBVIOUS
<1>5. id \in Ids /\ out[1].req = "destroy" /\ ~resource[id].once
  <2>1. id \in Ids /\ out[1].req = "destroy"
    BY <1>2, <1>3, <1>4, RequestIds
  <2> QED
    BY <1>2, <1>3, <1>4, <2>1 DEF RequestsFit
<1>6. Ending(id)
  BY <1>3, <1>4, <1>5 DEF Ending, Asked
<1>7. \A i \in DOMAIN out' : ~(out'[i].req = "destroy" /\ out'[i].id = id)
  <2> SUFFICES ASSUME NEW i \in DOMAIN out', out'[i].req = "destroy", out'[i].id = id PROVE FALSE
    OBVIOUS
  <2>1. i + 1 \in DOMAIN out /\ out[i + 1].req = "destroy" /\ out[i + 1].id = id /\ i + 1 # 1
    BY <1>3
  <2> QED
    BY <1>2, <1>3, <1>4, <1>5, <2>1 DEF RequestsFit
<1>8. /\ ~Ending(id)'
      /\ \A i : i # id => (Ending(i)' <=> Ending(i))
      /\ \A i : Making(i)' <=> Making(i)
  <2>1. \A i, q : q # "destroy" \/ i # id => (Asked(i, q)' <=> Asked(i, q))
    <3> SUFFICES ASSUME NEW i, NEW q, q # "destroy" \/ i # id PROVE Asked(i, q)' <=> Asked(i, q)
      OBVIOUS
    <3>1. ASSUME NEW k \in DOMAIN out', out'[k].req = q, out'[k].id = i PROVE Asked(i, q)
      BY <1>3, <3>1 DEF Asked
    <3>2. ASSUME NEW k \in DOMAIN out, out[k].req = q, out[k].id = i
          PROVE  \E l \in DOMAIN out' : out'[l].req = q /\ out'[l].id = i
      <4>1. k # 1
        BY <1>4, <1>5, <3>2
      <4> QED
        BY <1>3, <3>2, <4>1
    <3> QED
      BY <3>1, <3>2 DEF Asked
  <2>2. ~Ending(id)'
    BY <1>7 DEF Ending, Asked
  <2> QED
    BY <2>1, <2>2 DEF Making, Ending
<1>9. 1 \in 0..1 /\ \A i \in DOMAIN out' : i \in Nat /\ i + 1 \in DOMAIN out /\ out'[i] = out[i + 1]
  BY <1>3
<1>10. CASE id \in ClientIds
  <2>1. ~Making(id)
    <3> SUFFICES ASSUME NEW k \in DOMAIN out, out[k].req = "create", out[k].id = id PROVE FALSE
      BY DEF Making, Asked
    <3>1. k < 1
      BY <1>2, <1>3, <1>4, <1>5 DEF RequestsFit
    <3> QED
      BY <1>3, <3>1
  <2>2. Known(id) /\ map[id] = Zombie
    BY <1>2, <1>6, <1>10, <2>1 DEF ClientIdsFit
  <2>3. ~(map[id] > 0)
    BY <2>2 DEF Zombie
  <2>4. resource' = [resource EXCEPT ![id] = NoObject] /\ in' = Append(in, DeleteEvent(id))
    BY <1>1, <1>3, <1>4, <1>10
  <2> QED
    BY <1>1, <1>3, <1>8, <1>9, <1>10, <2>1, <2>2, <2>3, <2>4, ObjectGone
<1>11. CASE id \notin ClientIds
  <2>1. id \in ServerIds /\ NoObject \in Objects /\ NoObject.once = FALSE
    BY <1>5, <1>11, IdKinds DEF NoObject, Object, Objects
  <2>2. in' = in /\ resource' = [resource EXCEPT ![id] = NoObject]
    BY <1>1, <1>3, <1>4, <1>11
  <2>3. resource' \in [Ids -> Objects] /\ resource'[id] = NoObject /\ \A i \in Ids \ {id} : resource'[i] = resource[i]
    BY <1>2, <1>5, <2>1, <2>2 DEF TypeOK
  <2>4. /\ \A i : (Deleting(i)' <=> Deleting(i)) /\ (Deleted(i)' <=> Deleted(i))
        /\ \A i \in Ids \ {id} : Known(i)' <=> Known(i)
    BY <1>1, <2>2, <2>3 DEF Deleting, Deleted, Known
  <2>5. TypeOK'
    BY <1>1, <1>2, <1>3, <2>2, <2>3 DEF TypeOK
  <2>6. EntriesFit' /\ EventsFit' /\ FdsFit' /\ (ConnectionSurvives => ConnectionSurvives')
    BY <1>1, <1>2, <2>2 DEF EntriesFit, EventsFit, EventFits, FdsFit, ConnectionSurvives
  <2>7. RequestsFit'
    <3>1. \A i \in DOMAIN out' : out'[i].req = "destroy" => ~resource'[out'[i].id].once
      <4> SUFFICES ASSUME NEW i \in DOMAIN out', out'[i].req = "destroy" PROVE ~resource'[out'[i].id].once
        OBVIOUS
      <4>1. PICK k \in DOMAIN out : out'[i] = out[k]
        BY <1>3
      <4>2. ~resource[out[k].id].once /\ out[k].id \in Ids
        BY <1>2, <4>1, RequestIds DEF RequestsFit
      <4> QED
        BY <2>1, <2>3, <4>1, <4>2
    <3> QED
      BY <1>1, <1>9, <3>1, RequestsLeave
  <2>8. ClientIdsFit'
    <3>1. \A i \in ClientIds : i # id /\ i \in Ids
      BY <1>11, IdKinds
    <3>2. \A i \in ClientIds : /\ resource'[i] = resource[i] /\ (Known(i)' <=> Known(i)) /\ (Making(i)' <=> Making(i))
                               /\ Ending(i)' <=> Ending(i)
      BY <1>8, <2>3, <2>4, <3>1
    <3> QED
      BY <1>1, <1>2, <2>4, <3>2 DEF ClientIdsFit
  <2>9. NamesFit'
    <3>1. \A c \in ClientIds : Known(c) => Known(c)'
      BY <1>11, <2>4, IdKinds
    <3> QED
      BY <1>1, <1>2, <2>2, <3>1 DEF NamesFit
  <2>10. ServerIdsFit'
    <3> SUFFICES ASSUME NEW s \in ServerIds
                 PROVE  /\ ~resource'[s].once
                        /\ map[s] > 0 => resource'[s] = proxies[map[s]].is /\ ~Ending(s)'
                        /\ Ending(s)' => Known(s)' /\ map[s] = Absent
                        /\ \A k \in DOMAIN in : IsNew(in[k], s) =>
                             /\ map[s] \in {Free, Absent} /\ resource'[s] = in[k].argMeant /\ ~Ending(s)'
                             /\ \A i \in DOMAIN in : IsNew(in[i], s) => i = k
                             /\ \A i \in DOMAIN in : i > k /\ in[i].kind # "delete_id" => Says(in[i], s, in[k].argMeant)
      BY <1>1, <2>2 DEF ServerIdsFit
    <3>1. CASE s = id
      <4>1. map[s] = Absent /\ \A k \in DOMAIN in : ~IsNew(in[k], s)
        BY <1>2, <1>6, <3>1 DEF ServerIdsFit
      <4>2. ~(map[s] > 0)
        BY <4>1 DEF Absent
      <4> QED
        BY <1>8, <2>1, <2>3, <3>1, <4>1, <4>2
    <3>2. CASE s # id
      <4>1. s \in Ids \ {id}
        BY <3>2, IdKinds
      <4>2. resource'[s] = resource[s] /\ (Known(s)' <=> Known(s)) /\ (Ending(s)' <=> Ending(s))
        BY <1>8, <2>3, <2>4, <3>2, <4>1
      <4> QED
        BY <1>2, <4>2 DEF ServerIdsFit
    <3> QED
      BY <3>1, <3>2
  <2>11. /\ ClosuresFit' /\ EventsReachTheirObject' /\ Closures' = Closures /\ (FdsFollowEvents => FdsFollowEvents')
    <3>1. sent' \in Nat /\ sent' >= sent
      BY <1>1, <1>2, EventTypes
    <3> QED
      BY <1>1, <2>2, <3>1, ClosuresStay
  <2>12. NoUseAfterFree'
    BY <1>1, <1>2, <2>11 DEF NoUseAfterFree, Owner, Keepers, Keep
  <2> QED
    BY <2>5, <2>6, <2>7, <2>8, <2>9, <2>10, <2>11, <2>12 DEF Inv
<1> QED
  BY <1>10, <1>11

\* An event more that the compositor sends, of an object it has.
LEMMA Sent ==
  ASSUME ProxyLifeAssumption, Inv, NEW e \in Events, e.kind \in {"plain", "fd", "object", "new"}, e.n = sent + 1,
         in' = Append(in, e), sent' = sent + 1
  PROVE  \E K \in Nat :
           /\ DOMAIN in' = DOMAIN in \cup {K} /\ in'[K] = e /\ K \notin DOMAIN in /\ in' \in Seq(Events)
           /\ \A i \in DOMAIN in : in'[i] = in[i] /\ i < K /\ i \in Nat
           /\ \A i : Deleting(i)' <=> Deleting(i)
           /\ \A i, j \in DOMAIN in' : i < j /\ in'[i].kind # "delete_id" /\ in'[j].kind # "delete_id" => in'[i].n < in'[j].n
           /\ \A i, j \in DOMAIN in' : in'[i].kind = "delete_id" /\ in'[j].kind = "delete_id" /\ in'[i].arg = in'[j].arg => i = j
           /\ \A i \in DOMAIN in : EventFits(in'[i])
           /\ \A x \in Events : EventFits(x) => EventFits(x)'
<1>1. TypeOK /\ EventsFit
  BY DEF Inv
<1>2. PICK K : K = Len(in) + 1
  OBVIOUS
<1>3. /\ in' \in Seq(Events) /\ DOMAIN in' = DOMAIN in \cup {K} /\ in'[K] = e /\ K \notin DOMAIN in
      /\ \A i \in DOMAIN in : in'[i] = in[i] /\ i < K /\ i \in Nat
      /\ K \in Nat
  <2>1. in \in Seq(Events)
    BY <1>1 DEF TypeOK
  <2>2. /\ in' \in Seq(Events) /\ DOMAIN in' = DOMAIN in \cup {K} /\ in'[K] = e
        /\ \A i \in DOMAIN in : in'[i] = in[i] /\ i < K /\ i \in Nat
        /\ K \in Nat
    BY <1>2, <2>1, Longer
  <2> QED
    BY <2>2
<1>4. \A i : Deleting(i)' <=> Deleting(i)
  BY <1>3 DEF Deleting
<1>5. \A i, j \in DOMAIN in' : i < j /\ in'[i].kind # "delete_id" /\ in'[j].kind # "delete_id" => in'[i].n < in'[j].n
  <2>1. \A i \in DOMAIN in : in[i].kind # "delete_id" => in[i].n < sent + 1
    <3> SUFFICES ASSUME NEW i \in DOMAIN in, in[i].kind # "delete_id" PROVE in[i].n < sent + 1
      OBVIOUS
    <3>1. in[i].n \in 1..sent /\ sent \in Nat
      BY <1>1, EventTypes DEF EventsFit, EventFits
    <3> QED
      BY <3>1
  <2> QED
    BY <1>1, <1>3, <2>1 DEF EventsFit
<1>6. \A i, j \in DOMAIN in' : in'[i].kind = "delete_id" /\ in'[j].kind = "delete_id" /\ in'[i].arg = in'[j].arg => i = j
  BY <1>1, <1>3 DEF EventsFit
<1>7. \A i \in DOMAIN in : EventFits(in'[i])
  BY <1>1, <1>3 DEF EventsFit
<1>8. \A x \in Events : EventFits(x) => EventFits(x)'
  <2> SUFFICES ASSUME NEW x \in Events, EventFits(x) PROVE EventFits(x)'
    OBVIOUS
  <2>1. sent \in Nat
    BY <1>1, EventTypes
  <2> QED
    BY <2>1 DEF EventFits
<1> QED
  BY <1>3, <1>4, <1>5, <1>6, <1>7, <1>8

\* The events on their way fit, if those that were do, and the new one.
LEMMA SentFit ==
  ASSUME Inv, NEW K \in Nat, NEW e \in Events, EventFits(e)', sent' = sent + 1,
         DOMAIN in' = DOMAIN in \cup {K}, in'[K] = e, \A i \in DOMAIN in : in'[i] = in[i],
         display_queue' = display_queue,
         \A i, j \in DOMAIN in' : i < j /\ in'[i].kind # "delete_id" /\ in'[j].kind # "delete_id" => in'[i].n < in'[j].n,
         \A i, j \in DOMAIN in' : in'[i].kind = "delete_id" /\ in'[j].kind = "delete_id" /\ in'[i].arg = in'[j].arg => i = j
  PROVE  EventsFit'
<1>1. TypeOK /\ EventsFit
  BY DEF Inv
<1>2. sent \in Nat
  BY <1>1, EventTypes
<1>3. ASSUME NEW i \in DOMAIN in'
      PROVE  IF in'[i].kind = "delete_id" THEN in'[i] = DeleteEvent(in'[i].arg) /\ in'[i].arg \in ClientIds
             ELSE /\ in'[i].kind \in {"plain", "fd", "object", "new"} /\ in'[i].n \in 1..sent' /\ in'[i].proxy \in Ids
                  /\ in'[i].kind \in {"plain", "fd"} => in'[i].arg = 0
                  /\ in'[i].kind = "object" => in'[i].arg \in Ids
                  /\ in'[i].kind = "new" => in'[i].arg \in ServerIds /\ in'[i].argMeant # NoObject
  <2>1. CASE i = K
    BY <2>1 DEF EventFits
  <2>2. CASE i # K
    <3>1. in'[i] = in[i] /\ EventFits(in[i])
      BY <1>1, <2>2 DEF EventsFit
    <3>2. in[i].n \in 1..sent => in[i].n \in 1..sent'
      BY <1>2
    <3> QED
      BY <3>1, <3>2 DEF EventFits
  <2> QED
    BY <2>1, <2>2
<1> QED
  BY <1>1, <1>3 DEF EventsFit, EventFits

\* Descriptors go out with their events.
LEMMA FdsSent ==
  ASSUME TypeOK, FdsFit, NEW K \in Nat, NEW e, e.n = sent + 1, sent' = sent + 1,
         DOMAIN in' = DOMAIN in \cup {K}, in'[K] = e, \A i \in DOMAIN in : in'[i] = in[i],
         (e.kind = "fd" /\ fds' = Append(fds, sent + 1)) \/ (e.kind # "fd" /\ fds' = fds)
  PROVE  fds' \in Seq(Nat) /\ FdsFit'
<1>1. fds \in Seq(Nat) /\ sent \in Nat
  BY DEF TypeOK
<1>2. \A i \in DOMAIN fds : fds[i] \in Nat
  BY <1>1
<1>3. /\ \A i, j \in DOMAIN fds : i < j => fds[i] < fds[j]
      /\ \A i \in DOMAIN fds : fds[i] <= sent
      /\ \A i \in DOMAIN in : in[i].kind = "fd" => \E k \in DOMAIN fds : fds[k] = in[i].n
      /\ ServerIds = {} => \A k \in DOMAIN fds : \E i \in DOMAIN in : in[i].kind = "fd" /\ fds[k] = in[i].n
  BY DEF FdsFit
<1>4. CASE e.kind = "fd" /\ fds' = Append(fds, sent + 1)
  <2>1. PICK L : L = Len(fds) + 1
    OBVIOUS
  <2>2. /\ fds' \in Seq(Nat) /\ DOMAIN fds' = DOMAIN fds \cup {L} /\ fds'[L] = sent + 1 /\ L \in Nat
        /\ \A i \in DOMAIN fds : fds'[i] = fds[i] /\ i < L /\ i \in Nat
    <3>1. sent + 1 \in Nat
      BY <1>1
    <3> QED
      BY <1>1, <1>4, <2>1, <3>1, Longer
  <2>3. /\ DOMAIN fds' = DOMAIN fds \cup {L} /\ fds'[L] = sent + 1 /\ L \in Nat
        /\ \A i \in DOMAIN fds : fds'[i] = fds[i] /\ i < L /\ i \in Nat
    BY <2>2
  <2>5. ASSUME NEW i \in DOMAIN fds', NEW j \in DOMAIN fds', i < j
        PROVE  fds'[i] < fds'[j]
    <3>1. i \in DOMAIN fds /\ fds'[i] = fds[i]
      BY <2>3, <2>5
    <3>2. CASE j = L
      BY <1>1, <1>2, <1>3, <2>3, <3>1, <3>2
    <3>3. CASE j # L
      BY <1>3, <2>3, <2>5, <3>1, <3>3
    <3> QED
      BY <3>2, <3>3
  <2>6. ASSUME NEW i \in DOMAIN fds' PROVE fds'[i] <= sent + 1
    BY <1>1, <1>2, <1>3, <2>3
  <2>7. ASSUME NEW i \in DOMAIN in', in'[i].kind = "fd"
        PROVE  \E k \in DOMAIN fds' : fds'[k] = in'[i].n
    <3>1. CASE i = K
      BY <2>3, <3>1
    <3>2. CASE i # K
      <4>1. PICK k \in DOMAIN fds : fds[k] = in[i].n
        BY <1>3, <2>7, <3>2
      <4> QED
        BY <2>3, <3>2, <4>1
    <3> QED
      BY <3>1, <3>2
  <2>8. ASSUME ServerIds = {}, NEW k \in DOMAIN fds'
        PROVE  \E i \in DOMAIN in' : in'[i].kind = "fd" /\ fds'[k] = in'[i].n
    <3>1. CASE k = L
      BY <1>4, <2>3, <3>1
    <3>2. CASE k # L
      <4>1. PICK i \in DOMAIN in : in[i].kind = "fd" /\ fds[k] = in[i].n
        BY <1>3, <2>3, <2>8, <3>2
      <4> QED
        BY <2>3, <3>2, <4>1
    <3> QED
      BY <3>1, <3>2
  <2> QED
    BY <2>2, <2>5, <2>6, <2>7, <2>8 DEF FdsFit
<1>5. CASE e.kind # "fd" /\ fds' = fds
  <2>1. \A i \in DOMAIN in' : in'[i].kind = "fd" => i \in DOMAIN in /\ in'[i] = in[i]
    BY <1>5
  <2>2. \A i \in DOMAIN in' : in'[i].kind = "fd" => \E k \in DOMAIN fds : fds[k] = in'[i].n
    BY <1>3, <2>1
  <2>3. ServerIds = {} => \A k \in DOMAIN fds : \E i \in DOMAIN in' : in'[i].kind = "fd" /\ fds[k] = in'[i].n
    BY <1>3
  <2>4. \A i \in DOMAIN fds : fds[i] <= sent'
    BY <1>1, <1>2, <1>3
  <2> QED
    BY <1>1, <1>3, <1>5, <2>2, <2>3, <2>4 DEF FdsFit
<1> QED
  BY <1>4, <1>5

\* The compositor sends an event of an object it has, with another one it has, or
\* with one it makes, for an id that has none.
LEMMA SentStep ==
  ASSUME ProxyLifeAssumption, Inv, NEW e \in Events, e.kind \in {"plain", "fd", "object", "new"}, e.n = sent + 1,
         e.proxy \in Ids, Known(e.proxy), e.meant = resource[e.proxy],
         e.kind \in {"plain", "fd"} => e.arg = 0,
         e.kind = "object" => e.arg \in Ids /\ Known(e.arg) /\ e.argMeant = resource[e.arg],
         e.kind = "new" => /\ e.arg \in ServerIds /\ ~Known(e.arg) /\ e.argMeant # NoObject /\ ~e.argMeant.once
                           /\ resource'[e.arg] = e.argMeant,
         resource' \in [Ids -> Objects],
         \A i \in Ids : e.kind # "new" \/ i # e.arg => resource'[i] = resource[i],
         in' = Append(in, e), sent' = sent + 1, fds' = IF e.kind = "fd" THEN Append(fds, sent + 1) ELSE fds,
         UNCHANGED <<map, proxies, out, queue, display_queue, running, last_error>>
  PROVE  Inv'
<1>1. /\ TypeOK /\ EntriesFit /\ RequestsFit /\ ClientIdsFit /\ EventsFit /\ NamesFit /\ ServerIdsFit
      /\ ClosuresFit /\ FdsFit /\ NoUseAfterFree /\ EventsReachTheirObject
  BY DEF Inv
<1>2. PICK K \in Nat :
           /\ DOMAIN in' = DOMAIN in \cup {K} /\ in'[K] = e /\ K \notin DOMAIN in /\ in' \in Seq(Events)
           /\ \A i \in DOMAIN in : in'[i] = in[i] /\ i < K /\ i \in Nat
           /\ \A i : Deleting(i)' <=> Deleting(i)
           /\ \A i, j \in DOMAIN in' : i < j /\ in'[i].kind # "delete_id" /\ in'[j].kind # "delete_id" => in'[i].n < in'[j].n
           /\ \A i, j \in DOMAIN in' : in'[i].kind = "delete_id" /\ in'[j].kind = "delete_id" /\ in'[i].arg = in'[j].arg => i = j
  BY Sent
<1>3. sent \in Nat /\ e.kind # "delete_id"
  BY <1>1, EventTypes
<1>4. EventFits(e)'
  BY <1>3 DEF EventFits
<1>5. EventsFit'
  BY <1>2, <1>4, SentFit
<1>6. \A s \in ServerIds : e.kind = "new" /\ s = e.arg => map[s] \in {Free, Absent} /\ ~Ending(s) /\ \A k \in DOMAIN in : ~IsNew(in[k], s)
  <2> SUFFICES ASSUME NEW s \in ServerIds, e.kind = "new", s = e.arg
               PROVE  map[s] \in {Free, Absent} /\ ~Ending(s) /\ \A k \in DOMAIN in : ~IsNew(in[k], s)
    OBVIOUS
  <2>1. s \in Ids /\ s \notin ClientIds /\ resource[s] = NoObject
    BY IdKinds DEF Known
  <2>2. ~(map[s] > 0)
    <3>1. map[s] > 0 => map[s] \in DOMAIN proxies /\ proxies[map[s]].is # NoObject /\ resource[s] = proxies[map[s]].is
      BY <1>1, <2>1 DEF EntriesFit, ServerIdsFit
    <3> QED
      BY <2>1, <3>1
  <2>3. map[s] \in {Free, Zombie, Absent} \cup Nat /\ map[s] # Zombie
    BY <1>1, <2>1, ProxyTypes DEF EntriesFit
  <2>4. ~Ending(s)
    BY <1>1 DEF ServerIdsFit
  <2>5. \A k \in DOMAIN in : ~IsNew(in[k], s)
    <3> SUFFICES ASSUME NEW k \in DOMAIN in, IsNew(in[k], s) PROVE FALSE
      OBVIOUS
    <3>1. in[k].argMeant # NoObject
      BY <1>1 DEF EventsFit, EventFits, IsNew
    <3> QED
      BY <1>1, <2>1, <3>1 DEF ServerIdsFit
  <2> QED
    BY <2>2, <2>3, <2>4, <2>5 DEF Free
<1>7. \A i \in Ids : Known(i) => Known(i)'
  BY DEF Known
<1>8. \A i \in ClientIds : /\ i \in Ids /\ resource'[i] = resource[i] /\ (Known(i)' <=> Known(i))
  <2> SUFFICES ASSUME NEW i \in ClientIds PROVE i \in Ids /\ resource'[i] = resource[i]
    BY DEF Known
  <2> QED
    BY IdKinds
<1>9. \A i : /\ Making(i)' <=> Making(i)
             /\ Ending(i)' <=> Ending(i)
             /\ Deleted(i)' <=> Deleted(i)
  BY DEF Making, Ending, Asked, Deleted
<1>10. fds' \in Seq(Nat) /\ FdsFit'
  <2>1. (e.kind = "fd" /\ fds' = Append(fds, sent + 1)) \/ (e.kind # "fd" /\ fds' = fds)
    OBVIOUS
  <2>2. DOMAIN in' = DOMAIN in \cup {K} /\ in'[K] = e /\ \A i \in DOMAIN in : in'[i] = in[i]
    BY <1>2
  <2> QED
    BY <1>1, <2>1, <2>2, FdsSent
<1>12. TypeOK'
  BY <1>1, <1>2, <1>3, <1>10 DEF TypeOK
<1>13. EntriesFit'
  BY <1>1 DEF EntriesFit
<1>14. RequestsFit'
  <2>1. out \in Seq(Requests) /\ \A i \in DOMAIN out : out[i].id \in Ids
    BY <1>1, RequestIds DEF TypeOK
  <2>2. \A i \in DOMAIN out' : i \in Nat /\ i + 0 \in DOMAIN out /\ out'[i] = out[i + 0]
    BY <2>1
  <2>3. \A i \in DOMAIN out' : out'[i].req = "destroy" => ~resource'[out'[i].id].once
    <3> SUFFICES ASSUME NEW i \in DOMAIN out, out[i].req = "destroy" PROVE ~resource'[out[i].id].once
      OBVIOUS
    <3>1. ~resource[out[i].id].once /\ out[i].id \in Ids
      BY <1>1, <2>1 DEF RequestsFit
    <3> QED
      BY <3>1
  <2>4. 0 \in 0..1
    OBVIOUS
  <2> QED
    BY <2>2, <2>3, <2>4, RequestsLeave
<1>15. ClientIdsFit'
  <2>1. \A i \in ClientIds : Deleting(i)' <=> Deleting(i)
    BY <1>2
  <2> QED
    BY <1>1, <1>8, <1>9, <2>1 DEF ClientIdsFit
<1>16. NamesFit'
  <2>1. ASSUME NEW i \in DOMAIN in', NEW c \in ClientIds, Names(in'[i], c)
        PROVE  Known(c)' \/ \E k \in DOMAIN in' : k > i /\ in'[k].kind = "delete_id" /\ in'[k].arg = c
    <3>1. CASE i = K
      <4>1. Known(c)
        BY <1>2, <2>1, <3>1 DEF Names
      <4> QED
        BY <1>8, <4>1
    <3>2. CASE i # K
      <4>1. i \in DOMAIN in /\ in'[i] = in[i]
        BY <1>2, <3>2
      <4>2. Known(c) \/ \E k \in DOMAIN in : k > i /\ in[k].kind = "delete_id" /\ in[k].arg = c
        BY <1>1, <2>1, <4>1 DEF NamesFit
      <4> QED
        BY <1>2, <1>8, <4>2
    <3> QED
      BY <3>1, <3>2
  <2>2. ASSUME NEW c \in Ids, map[c] > 0, NEW i \in DOMAIN in', in'[i].kind # "delete_id"
        PROVE  Says(in'[i], c, proxies[map[c]].is)
    <3>1. CASE i = K
      <4>1. Known(c) => resource[c] = proxies[map[c]].is
        BY <1>1, <2>2, IdKinds DEF ClientIdsFit, ServerIdsFit
      <4> QED
        BY <1>2, <3>1, <4>1 DEF Says
    <3>2. CASE i # K
      BY <1>1, <1>2, <2>2, <3>2 DEF NamesFit
    <3> QED
      BY <3>1, <3>2
  <2> QED
    BY <2>1, <2>2 DEF NamesFit
<1>17. ServerIdsFit'
  <2> SUFFICES ASSUME NEW s \in ServerIds
               PROVE  /\ ~resource'[s].once
                      /\ map[s] > 0 => resource'[s] = proxies[map[s]].is /\ ~Ending(s)
                      /\ Ending(s) => Known(s)' /\ map[s] = Absent
                      /\ \A k \in DOMAIN in' : IsNew(in'[k], s) =>
                           /\ map[s] \in {Free, Absent} /\ resource'[s] = in'[k].argMeant /\ ~Ending(s)
                           /\ \A i \in DOMAIN in' : IsNew(in'[i], s) => i = k
                           /\ \A i \in DOMAIN in' : i > k /\ in'[i].kind # "delete_id" => Says(in'[i], s, in'[k].argMeant)
    BY <1>9 DEF ServerIdsFit
  <2>1. s \in Ids
    BY IdKinds
  <2>2. /\ ~resource[s].once
        /\ map[s] > 0 => resource[s] = proxies[map[s]].is /\ ~Ending(s)
        /\ Ending(s) => Known(s) /\ map[s] = Absent
        /\ \A k \in DOMAIN in : IsNew(in[k], s) =>
             /\ map[s] \in {Free, Absent} /\ resource[s] = in[k].argMeant /\ ~Ending(s)
             /\ \A i \in DOMAIN in : IsNew(in[i], s) => i = k
             /\ \A i \in DOMAIN in : i > k /\ in[i].kind # "delete_id" => Says(in[i], s, in[k].argMeant)
    BY <1>1 DEF ServerIdsFit
  <2>3. CASE e.kind = "new" /\ s = e.arg
    <3>1. map[s] \in {Free, Absent} /\ ~Ending(s) /\ \A k \in DOMAIN in : ~IsNew(in[k], s)
      BY <1>6, <2>3
    <3>2. ~(map[s] > 0)
      BY <3>1 DEF Free, Absent
    <3>3. \A k \in DOMAIN in' : IsNew(in'[k], s) => k = K
      BY <1>2, <3>1
    <3>4. \A k \in DOMAIN in' : ~(k > K)
      BY <1>2
    <3> QED
      BY <1>2, <2>3, <3>1, <3>2, <3>3, <3>4
  <2>4. CASE ~(e.kind = "new" /\ s = e.arg)
    <3>1. resource'[s] = resource[s] /\ (Known(s) => Known(s)') /\ ~IsNew(e, s)
      BY <1>7, <2>1, <2>4 DEF IsNew
    <3>2. ASSUME NEW k \in DOMAIN in', IsNew(in'[k], s)
          PROVE  /\ map[s] \in {Free, Absent} /\ resource'[s] = in'[k].argMeant /\ ~Ending(s)
                 /\ \A i \in DOMAIN in' : IsNew(in'[i], s) => i = k
                 /\ \A i \in DOMAIN in' : i > k /\ in'[i].kind # "delete_id" => Says(in'[i], s, in'[k].argMeant)
      <4>1. k \in DOMAIN in /\ in'[k] = in[k] /\ IsNew(in[k], s)
        BY <1>2, <3>1, <3>2
      <4>2. /\ map[s] \in {Free, Absent} /\ resource[s] = in[k].argMeant /\ ~Ending(s)
            /\ \A i \in DOMAIN in : IsNew(in[i], s) => i = k
            /\ \A i \in DOMAIN in : i > k /\ in[i].kind # "delete_id" => Says(in[i], s, in[k].argMeant)
        BY <2>2, <4>1
      <4>3. Says(e, s, in[k].argMeant)
        BY <2>4, <4>2 DEF Says
      <4> QED
        BY <1>2, <3>1, <4>1, <4>2, <4>3
    <3> QED
      BY <2>2, <3>1, <3>2
  <2> QED
    BY <2>3, <2>4
<1>18. /\ ClosuresFit' /\ EventsReachTheirObject' /\ Closures' = Closures /\ (FdsFollowEvents => FdsFollowEvents')
  <2>1. sent' \in Nat /\ sent' >= sent
    BY <1>3
  <2>2. \A i \in DOMAIN in' : in'[i].kind # "delete_id" =>
           in'[i].n = sent + 1 \/ \E j \in DOMAIN in : in[j].kind # "delete_id" /\ in[j].n = in'[i].n
    BY <1>2
  <2> QED
    BY <2>1, <2>2, ClosuresStay
<1>19. NoUseAfterFree'
  BY <1>1, <1>18 DEF NoUseAfterFree, Owner, Keepers, Keep
<1>20. ConnectionSurvives => ConnectionSurvives'
  BY DEF ConnectionSurvives
<1> QED
  BY <1>5, <1>10, <1>12, <1>13, <1>14, <1>15, <1>16, <1>17, <1>18, <1>19, <1>20 DEF Inv

\* An event, field by field.
LEMMA EventFields ==
  ASSUME TypeOK, ProxyLifeAssumption, NEW id \in Ids, NEW kind \in {"plain", "fd", "object", "new"}, NEW arg \in Nat
  PROVE  LET e == Event(id, kind, arg) IN
         /\ e \in Events /\ e.n = sent + 1 /\ e.proxy = id /\ e.kind = kind /\ e.arg = arg /\ e.meant = resource[id]
         /\ arg \in Ids => e.argMeant = resource[arg]
<1>1. sent \in Nat /\ resource[id] \in Objects /\ NoObject \in Objects
  BY EventTypes, ProxyTypes DEF NoObject, Object, Objects
<1>2. PICK m, a \in Objects : m = resource[id] /\ a = IF arg \in Ids THEN resource[arg] ELSE NoObject
  BY <1>1, ProxyTypes
<1>3. PICK n \in Nat : n = sent + 1
  BY <1>1
<1>4. id \in Nat
  BY IdKinds
<1>5. Event(id, kind, arg) = [Nothing EXCEPT !.n = n, !.proxy = id, !.kind = kind, !.arg = arg, !.meant = m, !.argMeant = a]
  BY <1>2, <1>3 DEF Event
<1>6. PICK e : e = Event(id, kind, arg)
  OBVIOUS
<1>7. e = [n |-> n, proxy |-> id, arg |-> arg, meant |-> m, argMeant |-> a, fd |-> 0, kind |-> kind]
  BY <1>5, <1>6 DEF Nothing
<1>8. /\ e \in Events /\ e.n = n /\ e.proxy = id /\ e.kind = kind /\ e.arg = arg /\ e.meant = m /\ e.argMeant = a
  BY <1>4, <1>7 DEF Events
<1> QED
  BY <1>2, <1>3, <1>6, <1>8

\* The compositor sends an event, with one of its objects or without.
LEMMA SendStep ==
  ASSUME ProxyLifeAssumption, Inv, NEW id \in Ids, NEW kind \in {"plain", "fd", "object"}, NEW arg \in Ids \cup {0},
         Send(id, kind, arg)
  PROVE  Inv'
<1>1. /\ resource[id] # NoObject
      /\ (kind \in {"plain", "fd"} /\ arg = 0) \/ (kind = "object" /\ arg \in Ids /\ resource[arg] # NoObject)
      /\ sent' = sent + 1 /\ in' = Append(in, Event(id, kind, arg))
      /\ fds' = IF kind = "fd" THEN Append(fds, sent + 1) ELSE fds
      /\ UNCHANGED <<map, proxies, out, resource, queue, display_queue, running, last_error>>
  BY DEF Send
<1>2. TypeOK /\ arg \in Nat /\ 0 \notin Ids
  BY IdKinds DEF Inv
<1>3. PICK e : e = Event(id, kind, arg)
  OBVIOUS
<1>4. /\ e \in Events /\ e.n = sent + 1 /\ e.proxy = id /\ e.kind = kind /\ e.arg = arg /\ e.meant = resource[id]
      /\ arg \in Ids => e.argMeant = resource[arg]
  BY <1>2, <1>3, EventFields
<1>5. /\ e.kind \in {"plain", "fd", "object", "new"} /\ e.proxy \in Ids /\ Known(e.proxy) /\ e.meant = resource[e.proxy]
      /\ e.kind \in {"plain", "fd"} => e.arg = 0
      /\ e.kind = "object" => e.arg \in Ids /\ Known(e.arg) /\ e.argMeant = resource[e.arg]
      /\ e.kind # "new"
  BY <1>1, <1>4 DEF Known
<1>6. /\ resource' \in [Ids -> Objects] /\ resource' = resource
      /\ in' = Append(in, e) /\ fds' = IF e.kind = "fd" THEN Append(fds, sent + 1) ELSE fds
  BY <1>1, <1>2, <1>3, <1>4 DEF TypeOK
<1> QED
  BY <1>1, <1>4, <1>5, <1>6, SentStep

\* With a new object, whose id is the first one it has free.
LEMMA SendNewStep ==
  ASSUME ProxyLifeAssumption, Inv, NEW id \in Ids, NEW arg \in ServerIds, SendNew(id, arg)
  PROVE  Inv'
<1> DEFINE new == Object("server", sent + 1, FALSE)
<1>1. /\ resource[id] # NoObject /\ resource[arg] = NoObject
      /\ resource' = [resource EXCEPT ![arg] = new]
      /\ in' = Append(in, [Event(id, "new", arg) EXCEPT !.argMeant = new])
      /\ sent' = sent + 1
      /\ UNCHANGED <<map, proxies, out, fds, queue, display_queue, running, last_error>>
  BY DEF SendNew
<1>2. TypeOK /\ arg \in Nat /\ arg \in Ids /\ sent \in Nat
  BY IdKinds, EventTypes DEF Inv
<1>3. new \in Objects /\ new # NoObject /\ ~new.once
  BY <1>2 DEF Object, Objects, NoObject
<1>4. PICK x \in Objects : x = new /\ x # NoObject /\ ~x.once
  BY <1>3
<1> HIDE DEF new
<1>5. PICK f : f = Event(id, "new", arg)
  OBVIOUS
<1>6. /\ f \in Events /\ f.n = sent + 1 /\ f.proxy = id /\ f.kind = "new" /\ f.arg = arg /\ f.meant = resource[id]
  BY <1>2, <1>5, EventFields
<1>7. PICK e : e = [f EXCEPT !.argMeant = x]
  OBVIOUS
<1>8. /\ e \in Events /\ e.n = sent + 1 /\ e.proxy = id /\ e.kind = "new" /\ e.arg = arg /\ e.meant = resource[id]
      /\ e.argMeant = x
  <2>1. /\ e \in Events /\ e.n = f.n /\ e.proxy = f.proxy /\ e.kind = f.kind /\ e.arg = f.arg /\ e.meant = f.meant
        /\ e.argMeant = x
    BY <1>6, <1>7 DEF Events
  <2> QED
    BY <1>6, <2>1
<1>9. in' = Append(in, e)
  BY <1>1, <1>4, <1>5, <1>7
<1>10. resource' \in [Ids -> Objects] /\ resource'[arg] = x /\ \A i \in Ids : i # arg => resource'[i] = resource[i]
  BY <1>1, <1>2, <1>4 DEF TypeOK
<1>11. /\ e.kind \in {"plain", "fd", "object", "new"} /\ e.proxy \in Ids /\ Known(e.proxy) /\ e.meant = resource[e.proxy]
       /\ e.kind \notin {"plain", "fd", "object"}
       /\ e.arg \in ServerIds /\ ~Known(e.arg) /\ e.argMeant # NoObject /\ ~e.argMeant.once /\ resource'[e.arg] = e.argMeant
       /\ \A i \in Ids : e.kind # "new" \/ i # e.arg => resource'[i] = resource[i]
       /\ fds' = IF e.kind = "fd" THEN Append(fds, sent + 1) ELSE fds
  BY <1>1, <1>4, <1>8, <1>10 DEF Known
<1> QED
  BY <1>1, <1>8, <1>9, <1>10, <1>11, SentStep

\* The first event, and the others.
LEMMA FirstEvent ==
  ASSUME TypeOK, EventsFit, in # <<>>, in' = Tail(in)
  PROVE  /\ in' \in Seq(Events) /\ 1 \in DOMAIN in /\ Head(in) = in[1] /\ in[1] \in Events /\ EventFits(in[1])
         /\ \A i \in DOMAIN in : i \in Nat /\ i >= 1 /\ EventFits(in[i])
         /\ \A i \in DOMAIN in' : i \in Nat /\ i >= 1 /\ i + 1 \in DOMAIN in /\ in'[i] = in[i + 1]
         /\ \A i \in DOMAIN in : i = 1 \/ (i - 1 \in DOMAIN in' /\ in'[i - 1] = in[i])
         /\ \A i, j \in DOMAIN in' : i < j /\ in'[i].kind # "delete_id" /\ in'[j].kind # "delete_id" => in'[i].n < in'[j].n
         /\ \A i, j \in DOMAIN in' : in'[i].kind = "delete_id" /\ in'[j].kind = "delete_id" /\ in'[i].arg = in'[j].arg => i = j
         /\ \A i : in[1].kind = "delete_id" /\ i = in[1].arg => ~Deleting(i)'
         /\ \A i : ~(in[1].kind = "delete_id" /\ i = in[1].arg) => (Deleting(i)' <=> Deleting(i))
<1>1. in \in Seq(Events)
  BY DEF TypeOK
<1>2. /\ in' \in Seq(Events) /\ 1 \in DOMAIN in /\ Head(in) = in[1] /\ in[1] \in Events
      /\ \A i \in DOMAIN in : i \in Nat /\ i >= 1
      /\ \A i \in DOMAIN in' : i \in Nat /\ i >= 1 /\ i + 1 \in DOMAIN in /\ in'[i] = in[i + 1]
      /\ \A i \in DOMAIN in : i = 1 \/ (i - 1 \in DOMAIN in' /\ in'[i - 1] = in[i])
  BY <1>1, Shorter
<1>3. \A i \in DOMAIN in : EventFits(in[i])
  BY DEF EventsFit
<1>4. \A i, j \in DOMAIN in' : i < j /\ in'[i].kind # "delete_id" /\ in'[j].kind # "delete_id" => in'[i].n < in'[j].n
  <2> SUFFICES ASSUME NEW i \in DOMAIN in', NEW j \in DOMAIN in', i < j, in'[i].kind # "delete_id", in'[j].kind # "delete_id"
               PROVE  in'[i].n < in'[j].n
    OBVIOUS
  <2>1. i + 1 \in DOMAIN in /\ j + 1 \in DOMAIN in /\ i + 1 < j + 1
    BY <1>2
  <2> QED
    BY <1>2, <2>1 DEF EventsFit
<1>5. \A i, j \in DOMAIN in' : in'[i].kind = "delete_id" /\ in'[j].kind = "delete_id" /\ in'[i].arg = in'[j].arg => i = j
  <2> SUFFICES ASSUME NEW i \in DOMAIN in', NEW j \in DOMAIN in', in'[i].kind = "delete_id", in'[j].kind = "delete_id",
                      in'[i].arg = in'[j].arg
               PROVE  i = j
    OBVIOUS
  <2>1. i + 1 \in DOMAIN in /\ j + 1 \in DOMAIN in
    BY <1>2
  <2>2. i + 1 = j + 1
    BY <1>2, <2>1 DEF EventsFit
  <2> QED
    BY <1>2, <2>2
<1>6. \A i : Deleting(i)' => Deleting(i)
  BY <1>2 DEF Deleting
<1>7. \A i : ~(in[1].kind = "delete_id" /\ i = in[1].arg) /\ Deleting(i) => Deleting(i)'
  <2> SUFFICES ASSUME NEW i, ~(in[1].kind = "delete_id" /\ i = in[1].arg), NEW k \in DOMAIN in, in[k].kind = "delete_id", in[k].arg = i
               PROVE  \E l \in DOMAIN in' : in'[l].kind = "delete_id" /\ in'[l].arg = i
    BY DEF Deleting
  <2>1. k # 1
    OBVIOUS
  <2>2. k - 1 \in DOMAIN in' /\ in'[k - 1] = in[k]
    BY <1>2, <2>1
  <2> QED
    BY <2>2
<1>8. \A i : in[1].kind = "delete_id" /\ i = in[1].arg => ~Deleting(i)'
  <2> SUFFICES ASSUME NEW i, in[1].kind = "delete_id", i = in[1].arg,
                      NEW k \in DOMAIN in', in'[k].kind = "delete_id", in'[k].arg = i
               PROVE  FALSE
    BY DEF Deleting
  <2>1. k + 1 \in DOMAIN in /\ in[k + 1].kind = "delete_id" /\ in[k + 1].arg = in[1].arg /\ k + 1 # 1
    BY <1>2
  <2> QED
    BY <1>2, <2>1 DEF EventsFit
<1> QED
  BY <1>2, <1>3, <1>4, <1>5, <1>6, <1>7, <1>8

\* A descriptor is taken out.
LEMMA FdsShorter ==
  ASSUME fds \in Seq(Nat), fds # <<>>, fds' = Tail(fds)
  PROVE  /\ fds' \in Seq(Nat) /\ 1 \in DOMAIN fds /\ Head(fds) = fds[1] /\ fds[1] \in Nat
         /\ \A i \in DOMAIN fds' : i \in Nat /\ i >= 1 /\ i + 1 \in DOMAIN fds /\ fds'[i] = fds[i + 1]
         /\ \A i \in DOMAIN fds : i = 1 \/ (i - 1 \in DOMAIN fds' /\ fds'[i - 1] = fds[i])
BY Shorter

\* Descriptors go with the events that are read.
LEMMA FdsRead ==
  ASSUME TypeOK, EventsFit, FdsFit, in # <<>>, in' = Tail(in), sent' = sent,
         \/ fds' = Tail(fds) /\ in[1].kind = "fd"
         \/ fds' = fds /\ (in[1].kind # "fd" \/ ServerIds # {})
  PROVE  /\ fds' \in Seq(Nat) /\ FdsFit'
         /\ in[1].kind = "fd" => fds # <<>> /\ Head(fds) \in Nat /\ (ServerIds = {} => Head(fds) = in[1].n)
<1>1. /\ 1 \in DOMAIN in /\ in[1] \in Events
      /\ \A i \in DOMAIN in : i \in Nat /\ i >= 1
      /\ \A i \in DOMAIN in' : i \in Nat /\ i >= 1 /\ i + 1 \in DOMAIN in /\ in'[i] = in[i + 1]
      /\ \A i \in DOMAIN in : i = 1 \/ (i - 1 \in DOMAIN in' /\ in'[i - 1] = in[i])
  BY FirstEvent
<1>2. fds \in Seq(Nat) /\ \A i \in DOMAIN fds : fds[i] \in Nat /\ i \in Nat /\ i >= 1
  BY DEF TypeOK
<1>3. /\ \A i, j \in DOMAIN fds : i < j => fds[i] < fds[j]
      /\ \A i \in DOMAIN fds : fds[i] <= sent
      /\ \A i \in DOMAIN in : in[i].kind = "fd" => \E k \in DOMAIN fds : fds[k] = in[i].n
      /\ ServerIds = {} => \A k \in DOMAIN fds : \E i \in DOMAIN in : in[i].kind = "fd" /\ fds[k] = in[i].n
  BY DEF FdsFit
<1>4. \A i \in DOMAIN in : i > 1 /\ in[i].kind = "fd" /\ in[1].kind = "fd" => in[1].n < in[i].n
  BY <1>1 DEF EventsFit
<1>5. \A i \in DOMAIN in : in[i].n \in Nat
  BY EventTypes
<1>6. CASE in[1].kind = "fd" /\ fds' = Tail(fds)
  <2>1. PICK k \in DOMAIN fds : fds[k] = in[1].n
    BY <1>1, <1>3, <1>6
  <2>2. fds # <<>>
    BY <1>2, <2>1
  <2>3. /\ fds' \in Seq(Nat) /\ 1 \in DOMAIN fds /\ Head(fds) = fds[1] /\ fds[1] \in Nat
        /\ \A i \in DOMAIN fds' : i \in Nat /\ i >= 1 /\ i + 1 \in DOMAIN fds /\ fds'[i] = fds[i + 1]
        /\ \A i \in DOMAIN fds : i = 1 \/ (i - 1 \in DOMAIN fds' /\ fds'[i - 1] = fds[i])
    BY <1>2, <1>6, <2>2, FdsShorter
  <2>9. k # 1 => fds[1] < fds[k]
    <3>1. k \in Nat /\ k >= 1 /\ 1 \in DOMAIN fds
      BY <1>2, <2>3
    <3> QED
      BY <1>3, <3>1
  <2>10. fds[1] <= in[1].n /\ fds[1] \in Nat /\ in[1].n \in Nat
    <3>1. fds[1] \in Nat /\ in[1].n \in Nat
      BY <1>1, <1>5, <2>3
    <3>2. fds[1] = in[1].n \/ fds[1] < in[1].n
      BY <2>1, <2>9
    <3> QED
      BY <3>1, <3>2
  <2>4. ServerIds = {} => fds[1] = in[1].n
    <3> SUFFICES ASSUME ServerIds = {} PROVE fds[1] = in[1].n
      OBVIOUS
    <3>1. PICK i \in DOMAIN in : in[i].kind = "fd" /\ fds[1] = in[i].n
      BY <1>3, <2>3
    <3>2. CASE i = 1
      BY <3>1, <3>2
    <3>3. CASE i # 1
      <4>1. i > 1
        BY <1>1, <3>3
      <4>2. in[1].n < in[i].n
        BY <1>4, <1>6, <3>1, <4>1
      <4> QED
        BY <2>10, <3>1, <4>2
    <3> QED
      BY <3>2, <3>3
  <2>5. ASSUME NEW i \in DOMAIN fds', NEW j \in DOMAIN fds', i < j
        PROVE  fds'[i] < fds'[j]
    <3>1. i + 1 \in DOMAIN fds /\ j + 1 \in DOMAIN fds /\ i + 1 < j + 1
      BY <2>3, <2>5
    <3> QED
      BY <1>3, <2>3, <3>1
  <2>6. \A i \in DOMAIN fds' : fds'[i] <= sent
    BY <1>3, <2>3
  <2>7. ASSUME NEW i \in DOMAIN in', in'[i].kind = "fd"
        PROVE  \E l \in DOMAIN fds' : fds'[l] = in'[i].n
    <3>1. PICK m \in DOMAIN in : m = i + 1 /\ in'[i] = in[m] /\ m > 1
      BY <1>1
    <3>2. PICK l \in DOMAIN fds : fds[l] = in[m].n
      BY <1>3, <2>7, <3>1
    <3>3. in[1].n < in[m].n
      BY <1>4, <1>6, <2>7, <3>1
    <3>4. l # 1
      <4> SUFFICES ASSUME l = 1 PROVE FALSE
        OBVIOUS
      <4>1. fds[1] = in[m].n
        BY <3>2
      <4> QED
        BY <2>10, <3>3, <4>1
    <3> QED
      BY <2>3, <3>1, <3>2, <3>4
  <2>8. ASSUME ServerIds = {}, NEW l \in DOMAIN fds'
        PROVE  \E i \in DOMAIN in' : in'[i].kind = "fd" /\ fds'[l] = in'[i].n
    <3>1. PICK i \in DOMAIN in : in[i].kind = "fd" /\ fds[l + 1] = in[i].n /\ fds'[l] = fds[l + 1] /\ l + 1 \in DOMAIN fds
      BY <1>3, <2>3, <2>8
    <3>2. fds[1] < fds[l + 1]
      BY <1>3, <2>3, <3>1
    <3>3. i # 1
      <4> SUFFICES ASSUME i = 1 PROVE FALSE
        OBVIOUS
      <4>1. fds[l + 1] = fds[1]
        BY <2>4, <2>8, <3>1
      <4> QED
        BY <2>10, <3>2, <4>1
    <3> QED
      BY <1>1, <3>1, <3>3
  <2> QED
    BY <2>2, <2>3, <2>4, <2>5, <2>6, <2>7, <2>8 DEF FdsFit
<1>7. CASE fds' = fds /\ (in[1].kind # "fd" \/ ServerIds # {})
  <2>1. in[1].kind = "fd" => fds # <<>> /\ Head(fds) \in Nat
    <3> SUFFICES ASSUME in[1].kind = "fd" PROVE fds # <<>> /\ Head(fds) \in Nat
      OBVIOUS
    <3>1. PICK k \in DOMAIN fds : fds[k] = in[1].n
      BY <1>1, <1>3
    <3> QED
      BY <1>2, <3>1
  <2>2. \A i \in DOMAIN in' : in'[i].kind = "fd" => \E k \in DOMAIN fds : fds[k] = in'[i].n
    BY <1>1, <1>3
  <2>3. ServerIds = {} => \A k \in DOMAIN fds : \E i \in DOMAIN in' : in'[i].kind = "fd" /\ fds[k] = in'[i].n
    <3> SUFFICES ASSUME ServerIds = {}, NEW k \in DOMAIN fds
                 PROVE  \E i \in DOMAIN in' : in'[i].kind = "fd" /\ fds[k] = in'[i].n
      OBVIOUS
    <3>1. PICK i \in DOMAIN in : in[i].kind = "fd" /\ fds[k] = in[i].n
      BY <1>3
    <3>2. i # 1
      BY <1>7, <3>1
    <3>3. i - 1 \in DOMAIN in' /\ in'[i - 1] = in[i]
      BY <1>1, <3>2
    <3>4. in'[i - 1].kind = "fd" /\ fds[k] = in'[i - 1].n
      BY <3>1, <3>3
    <3> QED
      BY <3>3, <3>4
  <2> QED
    BY <1>2, <1>3, <1>7, <2>1, <2>2, <2>3 DEF FdsFit
<1> QED
  BY <1>6, <1>7

\* What was known of the first event.
LEMMA FirstNames ==
  ASSUME ProxyLifeAssumption, Inv, in # <<>>, in' = Tail(in), in[1].kind # "delete_id"
  PROVE  /\ \A c \in ClientIds : Names(in[1], c) => map[c] # Free
         /\ \A c \in Ids : map[c] > 0 => Says(in[1], c, proxies[map[c]].is)
         /\ in[1].kind = "new" => map[in[1].arg] \in {Free, Absent} /\ in[1].argMeant \in Objects
                                  /\ in[1].argMeant # NoObject /\ ~in[1].argMeant.once /\ in[1].arg \in ServerIds
         /\ in[1].proxy \in Ids /\ in[1].n \in Nat
         /\ \A c \in Closures : c.n < in[1].n
         /\ in[1].n \in 1..sent
         /\ \A i \in DOMAIN in' : in'[i].kind # "delete_id" => in[1].n < in'[i].n
<1>1. TypeOK /\ NamesFit /\ ServerIdsFit /\ EventsFit /\ ClosuresFit
  BY DEF Inv
<1>2. /\ 1 \in DOMAIN in /\ in[1] \in Events /\ EventFits(in[1])
      /\ \A i \in DOMAIN in' : i \in Nat /\ i >= 1 /\ i + 1 \in DOMAIN in /\ in'[i] = in[i + 1]
  BY <1>1, FirstEvent
<1>3. \A c \in ClientIds : Names(in[1], c) => map[c] # Free
  BY <1>2, FreeFacts
<1>4. \A c \in Ids : map[c] > 0 => Says(in[1], c, proxies[map[c]].is)
  BY <1>1, <1>2 DEF NamesFit
<1>5. in[1].proxy \in Ids /\ in[1].n \in 1..sent /\ in[1].argMeant \in Objects /\ in[1].n \in Nat
  BY <1>1, <1>2, EventTypes DEF EventFits
<1>6. in[1].kind = "new" => map[in[1].arg] \in {Free, Absent} /\ in[1].argMeant # NoObject /\ ~in[1].argMeant.once /\ in[1].arg \in ServerIds
  <2> SUFFICES ASSUME in[1].kind = "new"
               PROVE  map[in[1].arg] \in {Free, Absent} /\ in[1].argMeant # NoObject /\ ~in[1].argMeant.once /\ in[1].arg \in ServerIds
    OBVIOUS
  <2>1. in[1].arg \in ServerIds /\ in[1].argMeant # NoObject
    BY <1>2 DEF EventFits
  <2>2. IsNew(in[1], in[1].arg)
    BY DEF IsNew
  <2>3. map[in[1].arg] \in {Free, Absent} /\ resource[in[1].arg] = in[1].argMeant /\ ~resource[in[1].arg].once
    BY <1>1, <1>2, <2>1, <2>2 DEF ServerIdsFit
  <2> QED
    BY <2>1, <2>3
<1>7. \A c \in Closures : c.n < in[1].n
  BY <1>1, <1>2 DEF ClosuresFit, ClosureFits
<1>8. \A i \in DOMAIN in' : in'[i].kind # "delete_id" => in[1].n < in'[i].n
  <2> SUFFICES ASSUME NEW i \in DOMAIN in', in'[i].kind # "delete_id" PROVE in[1].n < in'[i].n
    OBVIOUS
  <2>1. i + 1 \in DOMAIN in /\ 1 < i + 1 /\ in'[i] = in[i + 1]
    BY <1>2
  <2> QED
    BY <1>1, <1>2, <2>1 DEF EventsFit
<1> QED
  BY <1>3, <1>4, <1>5, <1>6, <1>7, <1>8

\* An event is read: it changes no entry, or it makes the object whose id it brings.
LEMMA EventRead ==
  ASSUME ProxyLifeAssumption, Inv, in # <<>>, in' = Tail(in), in[1].kind # "delete_id",
         UNCHANGED <<out, server, display_queue>>, last_error' = last_error \/ last_error' # "none",
         map' \in [Ids -> {Free, Zombie, Absent} \cup Nat],
         DOMAIN proxies \subseteq DOMAIN proxies',
         \A p \in DOMAIN proxies : SameRecord(proxies[p], proxies'[p]),
         \A i \in Ids : \/ map'[i] = map[i]
                        \/ /\ in[1].kind = "new" /\ i = in[1].arg
                           /\ map'[i] > 0 /\ map'[i] \in DOMAIN proxies' \ DOMAIN proxies,
         \A p \in DOMAIN proxies' \ DOMAIN proxies :
           /\ in[1].kind = "new" /\ map'[in[1].arg] = p /\ proxies'[p].id = in[1].arg /\ proxies'[p].is = in[1].argMeant
           /\ ~proxies'[p].destroyed /\ ~proxies'[p].deleted
  PROVE  EntriesFit' /\ RequestsFit' /\ ClientIdsFit' /\ EventsFit' /\ NamesFit' /\ ServerIdsFit'
<1>1. /\ TypeOK /\ EntriesFit /\ RequestsFit /\ ClientIdsFit /\ EventsFit /\ NamesFit /\ ServerIdsFit
  BY DEF Inv
<1>2. /\ in' \in Seq(Events) /\ 1 \in DOMAIN in /\ in[1] \in Events /\ EventFits(in[1])
      /\ \A i \in DOMAIN in : i \in Nat /\ i >= 1 /\ EventFits(in[i])
      /\ \A i \in DOMAIN in' : i \in Nat /\ i >= 1 /\ i + 1 \in DOMAIN in /\ in'[i] = in[i + 1]
      /\ \A i \in DOMAIN in : i = 1 \/ (i - 1 \in DOMAIN in' /\ in'[i - 1] = in[i])
      /\ \A i, j \in DOMAIN in' : i < j /\ in'[i].kind # "delete_id" /\ in'[j].kind # "delete_id" => in'[i].n < in'[j].n
      /\ \A i, j \in DOMAIN in' : in'[i].kind = "delete_id" /\ in'[j].kind = "delete_id" /\ in'[i].arg = in'[j].arg => i = j
      /\ \A i : Deleting(i)' <=> Deleting(i)
  BY <1>1, FirstEvent
<1>3. /\ out' = out /\ resource' = resource /\ sent' = sent /\ display_queue' = display_queue
  BY DEF server
<1>4. \A p \in DOMAIN proxies : /\ proxies'[p].id = proxies[p].id /\ proxies'[p].is = proxies[p].is
                                /\ proxies'[p].destroyed = proxies[p].destroyed /\ proxies'[p].deleted = proxies[p].deleted
  BY DEF SameRecord
<1>5. /\ in[1].kind = "new" => map[in[1].arg] \in {Free, Absent} /\ in[1].argMeant # NoObject /\ ~in[1].argMeant.once
                               /\ in[1].arg \in ServerIds
      /\ \A c \in Ids : map[c] > 0 => map[c] \in DOMAIN proxies
  BY <1>1, FirstNames DEF EntriesFit
<1>6. \A i : (Making(i)' <=> Making(i)) /\ (Ending(i)' <=> Ending(i)) /\ (Deleted(i)' <=> Deleted(i)) /\ (Known(i)' <=> Known(i))
  BY <1>3 DEF Making, Ending, Asked, Deleted, Known
<1>7. \A i \in ClientIds : i \in Ids /\ map'[i] = map[i]
  BY <1>5, IdKinds
<1>8. EntriesFit'
  <2>1. ASSUME NEW i \in Ids, map'[i] > 0
        PROVE  map'[i] \in DOMAIN proxies' /\ proxies'[map'[i]].id = i /\ ~proxies'[map'[i]].destroyed
    <3>1. CASE map'[i] = map[i]
      BY <1>1, <1>4, <2>1, <3>1 DEF EntriesFit
    <3>2. CASE map'[i] # map[i]
      BY <3>2
    <3> QED
      BY <3>1, <3>2
  <2>2. ASSUME NEW p \in DOMAIN proxies'
        PROVE  /\ ~proxies'[p].destroyed => map'[proxies'[p].id] = p
               /\ proxies'[p].deleted => proxies'[p].id \in ClientIds
               /\ proxies'[p].is # NoObject
               /\ proxies'[p].id \in ServerIds => ~proxies'[p].is.once
    <3>1. CASE p \in DOMAIN proxies
      <4>1. /\ ~proxies[p].destroyed => map[proxies[p].id] = p
            /\ proxies[p].deleted => proxies[p].id \in ClientIds
            /\ proxies[p].is # NoObject
            /\ proxies[p].id \in ServerIds => ~proxies[p].is.once
        BY <1>1, <3>1 DEF EntriesFit
      <4>2. ~proxies[p].destroyed => map'[proxies[p].id] = p
        <5> SUFFICES ASSUME ~proxies[p].destroyed PROVE map'[proxies[p].id] = p
          OBVIOUS
        <5>1. map[proxies[p].id] = p /\ p \in Nat \ {0} /\ proxies[p].id \in Ids
          BY <1>1, <3>1, <4>1, ProxyTypes
        <5>2. p \notin {Free, Absent}
          BY <5>1 DEF Free, Absent
        <5> QED
          BY <1>5, <5>1, <5>2
      <4> QED
        BY <1>4, <3>1, <4>1, <4>2
    <3>2. CASE p \notin DOMAIN proxies
      BY <1>5, <2>2, <3>2
    <3> QED
      BY <3>1, <3>2
  <2>3. \A i \in Ids : map'[i] # (IF i \in ClientIds THEN Absent ELSE Zombie)
    <3> SUFFICES ASSUME NEW i \in Ids PROVE map'[i] # (IF i \in ClientIds THEN Absent ELSE Zombie)
      OBVIOUS
    <3>1. CASE map'[i] = map[i]
      BY <1>1, <3>1 DEF EntriesFit
    <3>2. CASE map'[i] > 0
      BY <3>2 DEF Absent, Zombie
    <3> QED
      BY <3>1, <3>2
  <2> QED
    BY <2>1, <2>2, <2>3 DEF EntriesFit
<1>9. RequestsFit'
  <2>1. \A i \in DOMAIN out : out[i].req # "destroy" => out[i].id \in ClientIds
    BY <1>1 DEF RequestsFit
  <2>2. \A c \in ClientIds : map[c] > 0 => proxies'[map[c]].is = proxies[map[c]].is
    BY <1>4, <1>5, <1>7
  <2> QED
    BY <1>1, <1>3, <1>7, <2>1, <2>2 DEF RequestsFit
<1>10. ClientIdsFit'
  <2>1. \A c \in ClientIds : map[c] > 0 => /\ proxies'[map[c]].is = proxies[map[c]].is
                                           /\ proxies'[map[c]].deleted = proxies[map[c]].deleted
    BY <1>4, <1>5, <1>7
  <2> QED
    BY <1>1, <1>2, <1>3, <1>6, <1>7, <2>1 DEF ClientIdsFit
<1>11. EventsFit'
  BY <1>1, <1>2, <1>3 DEF EventsFit, EventFits
<1>12. NamesFit'
  <2>1. ASSUME NEW i \in DOMAIN in', NEW c \in ClientIds, Names(in'[i], c)
        PROVE  Known(c)' \/ \E k \in DOMAIN in' : k > i /\ in'[k].kind = "delete_id" /\ in'[k].arg = c
    <3>1. i + 1 \in DOMAIN in /\ in'[i] = in[i + 1] /\ i \in Nat /\ i >= 1
      BY <1>2
    <3>2. CASE Known(c)
      BY <1>6, <3>2
    <3>3. CASE ~Known(c)
      <4>1. PICK k \in DOMAIN in : k > i + 1 /\ in[k].kind = "delete_id" /\ in[k].arg = c
        BY <1>1, <2>1, <3>1, <3>3 DEF NamesFit
      <4>2. k \in Nat /\ k # 1
        BY <1>2, <3>1, <4>1
      <4>3. k - 1 \in DOMAIN in' /\ in'[k - 1] = in[k] /\ k - 1 > i
        BY <1>2, <3>1, <4>1, <4>2
      <4> QED
        BY <4>1, <4>3
    <3> QED
      BY <3>2, <3>3
  <2>2. ASSUME NEW c \in Ids, map'[c] > 0, NEW i \in DOMAIN in', in'[i].kind # "delete_id"
        PROVE  Says(in'[i], c, proxies'[map'[c]].is)
    <3>1. i + 1 \in DOMAIN in /\ in'[i] = in[i + 1] /\ i \in Nat /\ i + 1 > 1
      BY <1>2
    <3>2. CASE map'[c] = map[c]
      <4>1. Says(in[i + 1], c, proxies[map[c]].is)
        BY <1>1, <2>2, <3>1, <3>2 DEF NamesFit
      <4>2. proxies'[map[c]].is = proxies[map[c]].is
        BY <1>4, <1>5, <2>2, <3>2
      <4> QED
        BY <3>1, <3>2, <4>1, <4>2
    <3>3. CASE map'[c] # map[c]
      <4>1. in[1].kind = "new" /\ c = in[1].arg /\ proxies'[map'[c]].is = in[1].argMeant
        BY <3>3
      <4>2. IsNew(in[1], c) /\ c \in ServerIds
        BY <1>5, <4>1 DEF IsNew
      <4>3. Says(in[i + 1], c, in[1].argMeant)
        BY <1>1, <1>2, <2>2, <3>1, <4>2 DEF ServerIdsFit
      <4> QED
        BY <3>1, <4>1, <4>3
    <3> QED
      BY <3>2, <3>3
  <2> QED
    BY <2>1, <2>2 DEF NamesFit
<1>13. ServerIdsFit'
  <2> SUFFICES ASSUME NEW s \in ServerIds
               PROVE  /\ ~resource[s].once
                      /\ map'[s] > 0 => resource[s] = proxies'[map'[s]].is /\ ~Ending(s)
                      /\ Ending(s) => Known(s) /\ map'[s] = Absent
                      /\ \A k \in DOMAIN in' : IsNew(in'[k], s) =>
                           /\ map'[s] \in {Free, Absent} /\ resource[s] = in'[k].argMeant /\ ~Ending(s)
                           /\ \A i \in DOMAIN in' : IsNew(in'[i], s) => i = k
                           /\ \A i \in DOMAIN in' : i > k /\ in'[i].kind # "delete_id" => Says(in'[i], s, in'[k].argMeant)
    BY <1>3, <1>6 DEF ServerIdsFit
  <2>1. s \in Ids
    BY IdKinds
  <2>2. /\ ~resource[s].once
        /\ map[s] > 0 => resource[s] = proxies[map[s]].is /\ ~Ending(s)
        /\ Ending(s) => Known(s) /\ map[s] = Absent
        /\ \A k \in DOMAIN in : IsNew(in[k], s) =>
             /\ map[s] \in {Free, Absent} /\ resource[s] = in[k].argMeant /\ ~Ending(s)
             /\ \A i \in DOMAIN in : IsNew(in[i], s) => i = k
             /\ \A i \in DOMAIN in : i > k /\ in[i].kind # "delete_id" => Says(in[i], s, in[k].argMeant)
    BY <1>1 DEF ServerIdsFit
  <2>3. CASE map'[s] = map[s]
    <3>1. ASSUME NEW k \in DOMAIN in', IsNew(in'[k], s)
          PROVE  /\ map'[s] \in {Free, Absent} /\ resource[s] = in'[k].argMeant /\ ~Ending(s)
                 /\ \A i \in DOMAIN in' : IsNew(in'[i], s) => i = k
                 /\ \A i \in DOMAIN in' : i > k /\ in'[i].kind # "delete_id" => Says(in'[i], s, in'[k].argMeant)
      <4>1. PICK l \in DOMAIN in : l = k + 1 /\ in'[k] = in[l] /\ IsNew(in[l], s)
        BY <1>2, <3>1
      <4>2. /\ map[s] \in {Free, Absent} /\ resource[s] = in[l].argMeant /\ ~Ending(s)
            /\ \A i \in DOMAIN in : IsNew(in[i], s) => i = l
            /\ \A i \in DOMAIN in : i > l /\ in[i].kind # "delete_id" => Says(in[i], s, in[l].argMeant)
        BY <2>2, <4>1
      <4>3. \A i \in DOMAIN in' : IsNew(in'[i], s) => i = k
        <5> SUFFICES ASSUME NEW i \in DOMAIN in', IsNew(in'[i], s) PROVE i = k
          OBVIOUS
        <5>1. i + 1 \in DOMAIN in /\ in'[i] = in[i + 1] /\ i \in Nat /\ k \in Nat
          BY <1>2
        <5>2. i + 1 = k + 1
          BY <4>1, <4>2, <5>1
        <5> QED
          BY <5>1, <5>2
      <4>4. \A i \in DOMAIN in' : i > k /\ in'[i].kind # "delete_id" => Says(in'[i], s, in'[k].argMeant)
        <5> SUFFICES ASSUME NEW i \in DOMAIN in', i > k, in'[i].kind # "delete_id" PROVE Says(in'[i], s, in'[k].argMeant)
          OBVIOUS
        <5>1. i + 1 \in DOMAIN in /\ in'[i] = in[i + 1] /\ i + 1 > k + 1
          BY <1>2
        <5> QED
          BY <4>1, <4>2, <5>1
      <4> QED
        BY <2>3, <4>1, <4>2, <4>3, <4>4
    <3>2. map'[s] > 0 => resource[s] = proxies'[map'[s]].is /\ ~Ending(s)
      BY <1>4, <1>5, <2>1, <2>2, <2>3
    <3> QED
      BY <2>2, <2>3, <3>1, <3>2
  <2>4. CASE map'[s] # map[s]
    <3>1. in[1].kind = "new" /\ s = in[1].arg /\ proxies'[map'[s]].is = in[1].argMeant /\ IsNew(in[1], s)
      BY <2>1, <2>4 DEF IsNew
    <3>2. resource[s] = in[1].argMeant /\ ~Ending(s) /\ \A i \in DOMAIN in : IsNew(in[i], s) => i = 1
      BY <1>2, <2>2, <3>1
    <3>3. \A k \in DOMAIN in' : ~IsNew(in'[k], s)
      <4> SUFFICES ASSUME NEW k \in DOMAIN in', IsNew(in'[k], s) PROVE FALSE
        OBVIOUS
      <4>1. k + 1 \in DOMAIN in /\ in'[k] = in[k + 1] /\ k + 1 # 1
        BY <1>2
      <4> QED
        BY <3>2, <4>1
    <3> QED
      BY <2>2, <3>1, <3>2, <3>3
  <2> QED
    BY <2>3, <2>4
<1> QED
  BY <1>8, <1>9, <1>10, <1>11, <1>12, <1>13

\* An event is queued, with the proxies that it is for and with.
LEMMA ReadQueued ==
  ASSUME ProxyLifeAssumption, Inv, in # <<>>, in' = Tail(in), in[1].kind # "delete_id", last_error = "none",
         NEW c \in Events, c.n = in[1].n, c.meant = in[1].meant, c.argMeant = in[1].argMeant, c.kind = in[1].kind,
         queue' = Append(queue, c), running' = running, UNCHANGED <<out, server, display_queue, last_error>>,
         NEW all \in Seq(ProxyRecords), DOMAIN proxies \subseteq DOMAIN all,
         \A p \in DOMAIN proxies : all[p] = proxies[p],
         \A p \in DOMAIN all \ DOMAIN proxies :
           /\ in[1].kind = "new" /\ map'[in[1].arg] = p /\ all[p].id = in[1].arg /\ all[p].is = in[1].argMeant
           /\ ~all[p].destroyed /\ ~all[p].deleted /\ all[p].refcount = 1,
         proxies' = ref(Held(c), all),
         map' \in [Ids -> {Free, Zombie, Absent} \cup Nat],
         \A i \in Ids : \/ map'[i] = map[i]
                        \/ /\ in[1].kind = "new" /\ i = in[1].arg
                           /\ map'[i] > 0 /\ map'[i] \in DOMAIN all \ DOMAIN proxies,
         map[in[1].proxy] > 0, c.proxy = map[in[1].proxy],
         c.arg \in {0} \cup DOMAIN all, c.arg > 0 => all[c.arg].is = in[1].argMeant,
         \/ fds' = Tail(fds) /\ in[1].kind = "fd"
         \/ fds' = fds /\ in[1].kind # "fd",
         ServerIds = {} /\ c.kind = "fd" => c.fd = c.n
  PROVE  Inv'
<1>1. /\ TypeOK /\ EntriesFit /\ EventsFit /\ ClosuresFit /\ FdsFit /\ NoUseAfterFree /\ EventsReachTheirObject
      /\ ServerIds = {} => FdsFollowEvents /\ ConnectionSurvives
  BY DEF Inv
<1>2. /\ \A d \in Closures : d.n < c.n
      /\ c.n \in 1..sent /\ c.n \in Nat
      /\ \A i \in DOMAIN in' : in'[i].kind # "delete_id" => c.n < in'[i].n
      /\ in[1].proxy \in Ids
      /\ Says(in[1], in[1].proxy, proxies[c.proxy].is)
  BY FirstNames
<1>3. proxies[c.proxy].is = c.meant /\ c.proxy \in DOMAIN proxies
  BY <1>1, <1>2 DEF Says, EntriesFit
<1>4. queue \in Seq(Events) /\ running \in Events /\ sent \in Nat
  BY <1>1 DEF TypeOK
<1>5. /\ queue' \in Seq(Events) /\ Len(queue) \in Nat /\ DOMAIN queue' = DOMAIN queue \cup {Len(queue) + 1}
      /\ queue'[Len(queue) + 1] = c /\ DOMAIN queue = 1..Len(queue)
      /\ \A i \in DOMAIN queue : i \in Nat /\ i < Len(queue) + 1 /\ queue'[i] = queue[i]
  BY <1>4, Longer
<1>6. Closures' = Closures \cup {c}
  BY <1>5 DEF Closures
<1>7. c \notin Closures /\ \A d \in Closures : d.n \in Nat
  BY <1>1, <1>2, EventTypes
<1>8. \A p \in DOMAIN all : p \in Nat \ {0} /\ (p \notin DOMAIN proxies => Keep(Closures, p) = 0)
  BY NoneKeep
<1>9. NoUseAfterFree' /\ SameButCount(all, proxies')
  <2>1. \A p \in DOMAIN all \ DOMAIN proxies : all[p].refcount = 1 /\ Keep(Closures, p) = 0
    BY <1>8
  <2>2. DOMAIN all \subseteq Nat \ {0}
    BY <1>8
  <2> QED
    BY <1>1, <1>6, <1>7, <2>1, <2>2, Enqueued
<1>10. /\ DOMAIN proxies' = DOMAIN all /\ proxies' \in Seq(ProxyRecords)
       /\ \A p \in DOMAIN all : SameRecord(all[p], proxies'[p])
       /\ \A p \in DOMAIN all : /\ proxies'[p].id = all[p].id /\ proxies'[p].is = all[p].is
                                /\ proxies'[p].destroyed = all[p].destroyed /\ proxies'[p].deleted = all[p].deleted
  BY <1>9 DEF SameButCount, SameRecord
<1>11. EntriesFit' /\ RequestsFit' /\ ClientIdsFit' /\ EventsFit' /\ NamesFit' /\ ServerIdsFit'
  <2>1. DOMAIN proxies \subseteq DOMAIN proxies' /\ \A p \in DOMAIN proxies : SameRecord(proxies[p], proxies'[p])
    BY <1>10
  <2>2. \A i \in Ids : \/ map'[i] = map[i]
                       \/ /\ in[1].kind = "new" /\ i = in[1].arg
                          /\ map'[i] > 0 /\ map'[i] \in DOMAIN proxies' \ DOMAIN proxies
    BY <1>10
  <2>3. \A p \in DOMAIN proxies' \ DOMAIN proxies :
          /\ in[1].kind = "new" /\ map'[in[1].arg] = p /\ proxies'[p].id = in[1].arg /\ proxies'[p].is = in[1].argMeant
          /\ ~proxies'[p].destroyed /\ ~proxies'[p].deleted
    <3> SUFFICES ASSUME NEW p \in DOMAIN proxies' \ DOMAIN proxies
                 PROVE  /\ in[1].kind = "new" /\ map'[in[1].arg] = p /\ proxies'[p].id = in[1].arg
                        /\ proxies'[p].is = in[1].argMeant /\ ~proxies'[p].destroyed /\ ~proxies'[p].deleted
      OBVIOUS
    <3>1. p \in DOMAIN all \ DOMAIN proxies
      BY <1>10
    <3>2. /\ in[1].kind = "new" /\ map'[in[1].arg] = p /\ all[p].id = in[1].arg /\ all[p].is = in[1].argMeant
          /\ ~all[p].destroyed /\ ~all[p].deleted
      BY <3>1
    <3>3. /\ proxies'[p].id = all[p].id /\ proxies'[p].is = all[p].is
          /\ proxies'[p].destroyed = all[p].destroyed /\ proxies'[p].deleted = all[p].deleted
      BY <1>10, <3>1
    <3> QED
      BY <3>2, <3>3
  <2> QED
    BY <2>1, <2>2, <2>3, EventRead
<1>12. fds' \in Seq(Nat) /\ FdsFit'
  <2>1. sent' = sent
    BY DEF server
  <2> QED
    BY <1>1, <2>1, FdsRead
<1>13. TypeOK'
  <2>1. /\ out' = out /\ resource' = resource /\ sent' = sent /\ display_queue' = display_queue /\ last_error' = last_error
        /\ running' = running
    BY DEF server
  <2>2. in' \in Seq(Events)
    BY <1>1, FirstEvent
  <2> QED
    BY <1>1, <1>5, <1>10, <1>12, <2>1, <2>2 DEF TypeOK
<1>14. ClosuresFit'
  <2>1. sent' = sent
    BY DEF server
  <2>2. \A d \in Closures : ClosureFits(d)
    BY <1>1 DEF ClosuresFit
  <2>3. \A i \in DOMAIN in' : in'[i].kind # "delete_id" => \E j \in DOMAIN in : in'[i] = in[j]
    BY <1>1, FirstEvent
  <2>4. \A d \in Closures : ClosureFits(d)'
    BY <1>10, <2>1, <2>2, <2>3 DEF ClosureFits
  <2>5. ClosureFits(c)'
    BY <1>2, <1>3, <1>10, <2>1 DEF ClosureFits
  <2>6. \A i \in DOMAIN queue : queue[i] \in Closures
    BY DEF Closures
  <2>7. ASSUME NEW i \in DOMAIN queue', NEW j \in DOMAIN queue', i < j
        PROVE  queue'[i].n < queue'[j].n
    <3>1. i \in DOMAIN queue
      BY <1>5, <2>7
    <3>2. CASE j \in DOMAIN queue
      BY <1>1, <1>5, <2>7, <3>1, <3>2 DEF ClosuresFit
    <3>3. CASE j \notin DOMAIN queue
      <4>1. queue'[j] = c /\ queue'[i] = queue[i]
        BY <1>5, <3>1, <3>3
      <4> QED
        BY <1>2, <2>6, <3>1, <4>1
    <3> QED
      BY <3>2, <3>3
  <2>8. ASSUME running # Nothing, NEW i \in DOMAIN queue'
        PROVE  running.n < queue'[i].n
    <3>1. running \in Closures
      BY <2>8 DEF Closures
    <3>2. CASE i \in DOMAIN queue
      BY <1>1, <1>5, <2>8, <3>2 DEF ClosuresFit
    <3>3. CASE i \notin DOMAIN queue
      BY <1>2, <1>5, <3>1, <3>3
    <3> QED
      BY <3>2, <3>3
  <2>9. \A d \in Closures' : ClosureFits(d)'
    BY <1>6, <2>4, <2>5
  <2>10. /\ \A i, j \in DOMAIN queue' : i < j => queue'[i].n < queue'[j].n
         /\ running' # Nothing => \A i \in DOMAIN queue' : running'.n < queue'[i].n
    BY <2>7, <2>8
  <2> QED
    BY <2>9, <2>10 DEF ClosuresFit
<1>15. EventsReachTheirObject'
  <2> SUFFICES ASSUME NEW d \in Closures'
               PROVE  proxies'[d.proxy].is = d.meant /\ (d.arg > 0 => proxies'[d.arg].is = d.argMeant)
    BY DEF EventsReachTheirObject
  <2>1. CASE d \in Closures
    <3>1. d.proxy \in DOMAIN proxies /\ d.arg \in {0} \cup DOMAIN proxies
      BY <1>1, <2>1 DEF ClosuresFit, ClosureFits
    <3>2. proxies[d.proxy].is = d.meant /\ (d.arg > 0 => proxies[d.arg].is = d.argMeant)
      BY <1>1, <2>1 DEF EventsReachTheirObject
    <3> QED
      BY <1>10, <3>1, <3>2
  <2>2. CASE d = c
    BY <1>3, <1>10, <2>2
  <2> QED
    BY <1>6, <2>1, <2>2
<1>16. ServerIds = {} => FdsFollowEvents' /\ ConnectionSurvives'
  <2>1. ConnectionSurvives'
    BY DEF ConnectionSurvives
  <2>2. ServerIds = {} => FdsFollowEvents'
    BY <1>1, <1>6 DEF FdsFollowEvents
  <2> QED
    BY <2>1, <2>2
<1> QED
  BY <1>9, <1>11, <1>12, <1>13, <1>14, <1>15, <1>16 DEF Inv

\* An event is not queued: its object is gone, or it is an error.
LEMMA ReadLeft ==
  ASSUME ProxyLifeAssumption, Inv, in # <<>>, in' = Tail(in), in[1].kind # "delete_id",
         UNCHANGED <<map, proxies, out, server, queue, display_queue, running>>,
         last_error' = last_error \/ (last_error' = "EINVAL" /\ ServerIds # {}),
         \/ fds' = Tail(fds) /\ in[1].kind = "fd"
         \/ fds' = fds /\ (in[1].kind # "fd" \/ ServerIds # {})
  PROVE  Inv'
<1>1. /\ TypeOK /\ EventsFit /\ FdsFit /\ NoUseAfterFree
      /\ ServerIds = {} => FdsFollowEvents /\ ConnectionSurvives
  BY DEF Inv
<1>2. /\ map' = map /\ proxies' = proxies /\ out' = out /\ resource' = resource /\ sent' = sent /\ queue' = queue
      /\ display_queue' = display_queue /\ running' = running
  BY DEF server
<1>3. \A p \in DOMAIN proxies : SameRecord(proxies[p], proxies[p])
  BY <1>1, ProxyTypes DEF SameRecord
<1>4. EntriesFit' /\ RequestsFit' /\ ClientIdsFit' /\ EventsFit' /\ NamesFit' /\ ServerIdsFit'
  <2>1. map' \in [Ids -> {Free, Zombie, Absent} \cup Nat]
    BY <1>1, <1>2 DEF TypeOK
  <2> QED
    BY <1>2, <1>3, <2>1, EventRead
<1>5. fds' \in Seq(Nat) /\ FdsFit'
  BY <1>1, <1>2, FdsRead
<1>6. TypeOK'
  <2>1. in' \in Seq(Events)
    BY <1>1, FirstEvent
  <2> QED
    BY <1>1, <1>2, <1>5, <2>1 DEF TypeOK
<1>7. ClosuresFit' /\ EventsReachTheirObject' /\ Closures' = Closures /\ (FdsFollowEvents => FdsFollowEvents')
  <2>1. \A i \in DOMAIN in' : \E j \in DOMAIN in : in'[i] = in[j]
    BY <1>1, FirstEvent
  <2>2. \A i \in DOMAIN in' : in'[i].kind # "delete_id" =>
          in'[i].n = sent + 1 \/ \E j \in DOMAIN in : in[j].kind # "delete_id" /\ in[j].n = in'[i].n
    BY <2>1
  <2>3. sent' \in Nat /\ sent' >= sent
    BY <1>1, <1>2 DEF TypeOK
  <2>4. queue' = queue /\ running' = running /\ \A p \in DOMAIN proxies : proxies'[p].is = proxies[p].is
    BY <1>2
  <2> QED
    BY <1>2, <2>2, <2>3, <2>4, ClosuresStay
<1>8. NoUseAfterFree'
  BY <1>1, <1>2, <1>7 DEF NoUseAfterFree, Owner, Keepers, Keep
<1>9. ServerIds = {} => FdsFollowEvents' /\ ConnectionSurvives'
  BY <1>1, <1>7 DEF ConnectionSurvives
<1> QED
  BY <1>4, <1>5, <1>6, <1>7, <1>8, <1>9 DEF Inv

\* The id of an object that the compositor has destroyed goes to the display's queue.
LEMMA ReadDelete ==
  ASSUME ProxyLifeAssumption, Inv, in # <<>>, in' = Tail(in), in[1].kind = "delete_id",
         display_queue' = Append(display_queue, in[1].arg),
         UNCHANGED <<map, proxies, out, server, fds, queue, running, last_error>>
  PROVE  Inv'
<1>1. /\ TypeOK /\ EntriesFit /\ RequestsFit /\ ClientIdsFit /\ EventsFit /\ NamesFit /\ ServerIdsFit /\ FdsFit /\ NoUseAfterFree
      /\ ServerIds = {} => FdsFollowEvents /\ ConnectionSurvives
  BY DEF Inv
<1>2. /\ map' = map /\ proxies' = proxies /\ out' = out /\ resource' = resource /\ sent' = sent /\ queue' = queue
      /\ fds' = fds /\ running' = running /\ last_error' = last_error
  BY DEF server
<1>3. /\ in' \in Seq(Events) /\ 1 \in DOMAIN in /\ in[1] \in Events /\ EventFits(in[1])
      /\ \A i \in DOMAIN in : i \in Nat /\ i >= 1 /\ EventFits(in[i])
      /\ \A i \in DOMAIN in' : i \in Nat /\ i >= 1 /\ i + 1 \in DOMAIN in /\ in'[i] = in[i + 1]
      /\ \A i \in DOMAIN in : i = 1 \/ (i - 1 \in DOMAIN in' /\ in'[i - 1] = in[i])
      /\ \A i, j \in DOMAIN in' : i < j /\ in'[i].kind # "delete_id" /\ in'[j].kind # "delete_id" => in'[i].n < in'[j].n
      /\ \A i, j \in DOMAIN in' : in'[i].kind = "delete_id" /\ in'[j].kind = "delete_id" /\ in'[i].arg = in'[j].arg => i = j
      /\ \A i : i = in[1].arg => ~Deleting(i)'
      /\ \A i : i # in[1].arg => (Deleting(i)' <=> Deleting(i))
  BY <1>1, FirstEvent
<1>4. PICK d \in ClientIds : d = in[1].arg
  BY <1>3 DEF EventFits
<1>5. Deleting(d) /\ ~Deleted(d) /\ ~Known(d) /\ ~Making(d)
  <2>1. Deleting(d)
    BY <1>3, <1>4 DEF Deleting
  <2> QED
    BY <1>1, <2>1 DEF ClientIdsFit
<1>6. display_queue \in Seq(ClientIds) /\ display_queue' = Append(display_queue, d)
  BY <1>1, <1>4 DEF TypeOK
<1>7. /\ display_queue' \in Seq(ClientIds) /\ Len(display_queue) \in Nat /\ display_queue'[Len(display_queue) + 1] = d
      /\ DOMAIN display_queue' = DOMAIN display_queue \cup {Len(display_queue) + 1}
      /\ \A i \in DOMAIN display_queue : display_queue'[i] = display_queue[i]
  BY <1>6, Longer
<1>8. \A i : Deleted(i)' <=> (Deleted(i) \/ i = d)
  BY <1>7 DEF Deleted, ToSet
<1>9. \A i : (Making(i)' <=> Making(i)) /\ (Ending(i)' <=> Ending(i)) /\ (Known(i)' <=> Known(i))
  BY <1>2 DEF Making, Ending, Asked, Known
<1>10. \A i : i # d => (Deleting(i)' <=> Deleting(i)) /\ (Deleted(i)' <=> Deleted(i))
  BY <1>3, <1>4, <1>8
<1>11. ~Deleting(d)' /\ Deleted(d)'
  BY <1>3, <1>4, <1>8
<1>12. EntriesFit' /\ RequestsFit'
  BY <1>1, <1>2 DEF EntriesFit, RequestsFit
<1>13. ClientIdsFit'
  <2> SUFFICES ASSUME NEW c \in ClientIds
               PROVE  /\ Making(c) => ~Known(c) /\ ~Deleting(c)' /\ ~Deleted(c)'
                      /\ Known(c) => ~Deleting(c)' /\ ~Deleted(c)'
                      /\ Deleting(c)' => ~Deleted(c)'
                      /\ map[c] = Free => ~Making(c) /\ ~Known(c) /\ ~Deleting(c)' /\ ~Deleted(c)'
                      /\ Ending(c) => map[c] = Zombie /\ (Making(c) \/ Known(c))
                      /\ map[c] > 0 =>
                           LET x == proxies[map[c]] IN
                           /\ Known(c) => resource[c] = x.is
                           /\ x.deleted => ~Making(c) /\ ~Known(c) /\ ~Deleting(c)' /\ ~Deleted(c)'
                           /\ Deleting(c)' \/ Deleted(c)' \/ x.deleted => x.is.once
                           /\ last_error = "none" => Making(c) \/ Known(c) \/ Deleting(c)' \/ Deleted(c)' \/ x.deleted
    BY <1>2, <1>9 DEF ClientIdsFit
  <2>1. CASE c # d
    BY <1>1, <1>10, <2>1 DEF ClientIdsFit
  <2>2. CASE c = d
    <3>1. /\ map[c] = Free => ~Deleting(c)
          /\ Ending(c) => map[c] = Zombie /\ (Making(c) \/ Known(c))
          /\ map[c] > 0 /\ proxies[map[c]].deleted => ~Deleting(c)
          /\ map[c] > 0 /\ Deleting(c) => proxies[map[c]].is.once
      BY <1>1 DEF ClientIdsFit
    <3>2. Deleting(c) /\ ~Known(c) /\ ~Making(c)
      BY <1>5, <2>2
    <3>3. ~Deleting(c)' /\ Deleted(c)'
      BY <1>3, <1>4, <1>8, <2>2
    <3>4. /\ map[c] # Free /\ ~Ending(c)
          /\ map[c] > 0 => ~proxies[map[c]].deleted /\ proxies[map[c]].is.once
      BY <3>1, <3>2
    <3>5. map[c] > 0 =>
            LET x == proxies[map[c]] IN
                           /\ Known(c) => resource[c] = x.is
                           /\ x.deleted => ~Making(c) /\ ~Known(c) /\ ~Deleting(c)' /\ ~Deleted(c)'
                           /\ Deleting(c)' \/ Deleted(c)' \/ x.deleted => x.is.once
                           /\ last_error = "none" => Making(c) \/ Known(c) \/ Deleting(c)' \/ Deleted(c)' \/ x.deleted
      BY <3>2, <3>3, <3>4
    <3> QED
      BY <3>2, <3>3, <3>4, <3>5
  <2> QED
    BY <2>1, <2>2
<1>14. EventsFit'
  <2>1. /\ \A e : EventFits(e)' <=> EventFits(e)
        /\ \A i \in DOMAIN in' : \E j \in DOMAIN in : in'[i] = in[j]
    BY <1>2, <1>3 DEF EventFits
  <2>5. \A i \in DOMAIN in : EventFits(in[i])
    BY <1>3
  <2>6. (\A i \in DOMAIN in : EventFits(in[i]))'
    BY <1>2, <2>1, <2>5 DEF EventFits
  <2>2. \A i \in DOMAIN display_queue : display_queue[i] # d
    BY <1>5 DEF Deleted, ToSet
  <2>3. \A i, j \in DOMAIN display_queue : display_queue[i] = display_queue[j] => i = j
    BY <1>1 DEF EventsFit
  <2>4. \A i, j \in DOMAIN display_queue' : display_queue'[i] = display_queue'[j] => i = j
    BY <1>7, <2>2, <2>3
  <2> QED
    BY <1>3, <2>4, <2>6 DEF EventsFit
<1>15. NamesFit'
  <2>1. ASSUME NEW i \in DOMAIN in', NEW c \in ClientIds, Names(in'[i], c)
        PROVE  Known(c)' \/ \E k \in DOMAIN in' : k > i /\ in'[k].kind = "delete_id" /\ in'[k].arg = c
    <3>1. i + 1 \in DOMAIN in /\ in'[i] = in[i + 1] /\ i \in Nat /\ i >= 1
      BY <1>3
    <3>2. CASE Known(c)
      BY <1>9, <3>2
    <3>3. CASE ~Known(c)
      <4>1. PICK k \in DOMAIN in : k > i + 1 /\ in[k].kind = "delete_id" /\ in[k].arg = c
        BY <1>1, <2>1, <3>1, <3>3 DEF NamesFit
      <4>2. k \in Nat /\ k # 1
        BY <1>3, <3>1, <4>1
      <4>3. k - 1 \in DOMAIN in' /\ in'[k - 1] = in[k] /\ k - 1 > i
        BY <1>3, <3>1, <4>1, <4>2
      <4> QED
        BY <4>1, <4>3
    <3> QED
      BY <3>2, <3>3
  <2>2. ASSUME NEW c \in Ids, map[c] > 0, NEW i \in DOMAIN in', in'[i].kind # "delete_id"
        PROVE  Says(in'[i], c, proxies[map[c]].is)
    <3>1. i + 1 \in DOMAIN in /\ in'[i] = in[i + 1]
      BY <1>3
    <3> QED
      BY <1>1, <2>2, <3>1 DEF NamesFit
  <2> QED
    BY <1>2, <2>1, <2>2 DEF NamesFit
<1>16. ServerIdsFit'
  <2> SUFFICES ASSUME NEW s \in ServerIds, NEW k \in DOMAIN in', IsNew(in'[k], s)
               PROVE  /\ map[s] \in {Free, Absent} /\ resource[s] = in'[k].argMeant /\ ~Ending(s)
                      /\ \A i \in DOMAIN in' : IsNew(in'[i], s) => i = k
                      /\ \A i \in DOMAIN in' : i > k /\ in'[i].kind # "delete_id" => Says(in'[i], s, in'[k].argMeant)
    BY <1>1, <1>2, <1>9 DEF ServerIdsFit
  <2>1. PICK l \in DOMAIN in : l = k + 1 /\ in'[k] = in[l] /\ IsNew(in[l], s)
    BY <1>3
  <2>2. /\ map[s] \in {Free, Absent} /\ resource[s] = in[l].argMeant /\ ~Ending(s)
        /\ \A i \in DOMAIN in : IsNew(in[i], s) => i = l
        /\ \A i \in DOMAIN in : i > l /\ in[i].kind # "delete_id" => Says(in[i], s, in[l].argMeant)
    BY <1>1, <2>1 DEF ServerIdsFit
  <2>3. \A i \in DOMAIN in' : IsNew(in'[i], s) => i = k
    <3> SUFFICES ASSUME NEW i \in DOMAIN in', IsNew(in'[i], s) PROVE i = k
      OBVIOUS
    <3>1. i + 1 \in DOMAIN in /\ in'[i] = in[i + 1] /\ i \in Nat /\ k \in Nat
      BY <1>3
    <3>2. i + 1 = k + 1
      BY <2>1, <2>2, <3>1
    <3> QED
      BY <3>1, <3>2
  <2>4. \A i \in DOMAIN in' : i > k /\ in'[i].kind # "delete_id" => Says(in'[i], s, in'[k].argMeant)
    <3> SUFFICES ASSUME NEW i \in DOMAIN in', i > k, in'[i].kind # "delete_id" PROVE Says(in'[i], s, in'[k].argMeant)
      OBVIOUS
    <3>1. i + 1 \in DOMAIN in /\ in'[i] = in[i + 1] /\ i + 1 > k + 1
      BY <1>3
    <3> QED
      BY <2>1, <2>2, <3>1
  <2> QED
    BY <2>1, <2>2, <2>3, <2>4
<1>17. FdsFit'
  <2>1. in[1].kind # "fd"
    OBVIOUS
  <2> QED
    BY <1>1, <1>2, <2>1, FdsRead
<1>18. TypeOK'
  BY <1>1, <1>2, <1>3, <1>7 DEF TypeOK
<1>19. ClosuresFit' /\ EventsReachTheirObject' /\ Closures' = Closures /\ (FdsFollowEvents => FdsFollowEvents')
  <2>1. \A i \in DOMAIN in' : in'[i].kind # "delete_id" =>
          in'[i].n = sent + 1 \/ \E j \in DOMAIN in : in[j].kind # "delete_id" /\ in[j].n = in'[i].n
    BY <1>3
  <2>2. sent' \in Nat /\ sent' >= sent
    BY <1>1, <1>2 DEF TypeOK
  <2>3. queue' = queue /\ running' = running /\ \A p \in DOMAIN proxies : proxies'[p].is = proxies[p].is
    BY <1>2
  <2> QED
    BY <1>2, <2>1, <2>2, <2>3, ClosuresStay
<1>20. NoUseAfterFree'
  BY <1>1, <1>2, <1>19 DEF NoUseAfterFree, Owner, Keepers, Keep
<1>21. ServerIds = {} => FdsFollowEvents' /\ ConnectionSurvives'
  BY <1>1, <1>2, <1>19 DEF ConnectionSurvives
<1> QED
  BY <1>12, <1>13, <1>14, <1>15, <1>16, <1>17, <1>18, <1>19, <1>20, <1>21 DEF Inv

\* A closure is the event with proxies for its ids.
ClosureOf(e, p, a, f, c) ==
  \/ c = [e EXCEPT !.proxy = p] /\ a = e.arg /\ f = e.fd
  \/ c = [e EXCEPT !.proxy = p, !.arg = a] /\ f = e.fd
  \/ c = [e EXCEPT !.proxy = p, !.fd = f] /\ a = e.arg

ClosureIs(e, p, a, f, c) ==
  /\ c \in Events /\ c.n = e.n /\ c.proxy = p /\ c.arg = a /\ c.meant = e.meant /\ c.argMeant = e.argMeant
  /\ c.kind = e.kind /\ c.fd = f

\* It has the event's other fields.
LEMMA ClosureFields ==
  ASSUME NEW e \in Events, NEW p \in Nat, NEW a \in Nat, NEW f \in Nat, NEW c, ClosureOf(e, p, a, f, c)
  PROVE  ClosureIs(e, p, a, f, c)
BY DEF Events, ClosureOf, ClosureIs

\* What an event brings: a proxy for its new object, and the entry of its id.
Brought(all) ==
  /\ DOMAIN proxies \subseteq DOMAIN all
  /\ \A p \in DOMAIN proxies : all[p] = proxies[p]
  /\ \A p \in DOMAIN all \ DOMAIN proxies :
       /\ in[1].kind = "new" /\ map'[in[1].arg] = p /\ all[p].id = in[1].arg /\ all[p].is = in[1].argMeant
       /\ ~all[p].destroyed /\ ~all[p].deleted /\ all[p].refcount = 1
  /\ map' \in [Ids -> {Free, Zombie, Absent} \cup Nat]
  /\ \A i \in Ids : \/ map'[i] = map[i]
                     \/ /\ in[1].kind = "new" /\ i = in[1].arg
                        /\ map'[i] > 0 /\ map'[i] \in DOMAIN all \ DOMAIN proxies

\* The event goes from the connection to the queue.
Taken(c, all) ==
  /\ c.n = in[1].n /\ c.meant = in[1].meant /\ c.argMeant = in[1].argMeant /\ c.kind = in[1].kind
  /\ c.proxy = map[in[1].proxy] /\ c.arg \in {0} \cup DOMAIN all /\ (c.arg > 0 => all[c.arg].is = in[1].argMeant)
  /\ queue' = Append(queue, c) /\ proxies' = ref(Held(c), all)

\* The same, in those terms, for an event without a descriptor.
LEMMA ReadBrought ==
  ASSUME ProxyLifeAssumption, Inv, in # <<>>, in' = Tail(in), in[1].kind \notin {"delete_id", "fd"}, last_error = "none",
         running' = running, fds' = fds, UNCHANGED <<out, server, display_queue, last_error>>, map[in[1].proxy] > 0,
         NEW c \in Events, NEW all \in Seq(ProxyRecords), Brought(all), Taken(c, all)
  PROVE  Inv'
BY ReadQueued DEF Brought, Taken

\* What Read does with an event that is not a delete_id, in one place.
LEMMA ReadEvent ==
  ASSUME ProxyLifeAssumption, Inv, Read, in[1].kind # "delete_id"
  PROVE  /\ in # <<>> /\ last_error = "none" /\ in' = Tail(in) /\ in[1] \in Events
         /\ UNCHANGED <<out, server, running>>
         /\ \/ map[in[1].proxy] \in {Free, Absent, Zombie} /\ Eat(in[1])
            \/ /\ map[in[1].proxy] \in Nat /\ map[in[1].proxy] > 0
               /\ \/ in[1].kind = "new" /\ EnqueueNew(in[1]) /\ fds' = fds
                  \/ in[1].kind = "object" /\ EnqueueObject(in[1]) /\ fds' = fds
                  \/ /\ in[1].kind = "fd" /\ Enqueue([in[1] EXCEPT !.proxy = map[in[1].proxy], !.fd = Head(fds)], proxies)
                     /\ fds' = Tail(fds) /\ map' = map
                  \/ /\ in[1].kind = "plain" /\ Enqueue([in[1] EXCEPT !.proxy = map[in[1].proxy]], proxies)
                     /\ map' = map /\ fds' = fds
<1>1. in # <<>> /\ last_error = "none" /\ in' = Tail(in) /\ UNCHANGED <<out, server, running>>
  BY DEF Read
<1>2. PICK e : e = in[1] /\ e = Head(in) /\ e \in Events /\ e.proxy \in Ids /\ e.kind # "delete_id"
  <2>1. in[1] = Head(in) /\ in[1] \in Events
    BY <1>1, FirstEvent DEF Inv
  <2>2. in[1].proxy \in Ids
    BY <1>1, FirstNames
  <2> QED
    BY <2>1, <2>2
<1>3. map[e.proxy] \in {Free, Absent, Zombie} \/ (map[e.proxy] \in Nat /\ map[e.proxy] > 0)
  BY <1>2, ProxyTypes DEF Inv, Free, Absent, Zombie
<1>4. \/ map[e.proxy] \in {Free, Absent, Zombie} /\ Eat(e)
      \/ /\ map[e.proxy] \notin {Free, Absent, Zombie}
         /\ \/ e.kind = "new" /\ EnqueueNew(e) /\ fds' = fds
            \/ e.kind = "object" /\ EnqueueObject(e) /\ fds' = fds
            \/ /\ e.kind = "fd" /\ Enqueue([e EXCEPT !.proxy = map[e.proxy], !.fd = Head(fds)], proxies)
               /\ fds' = Tail(fds) /\ map' = map
            \/ /\ e.kind = "plain" /\ Enqueue([e EXCEPT !.proxy = map[e.proxy]], proxies)
               /\ map' = map /\ fds' = fds
  BY <1>2 DEF Read
<1> QED
  BY <1>1, <1>2, <1>3, <1>4

\* An event that brings no new object is queued.
LEMMA ReadOld ==
  ASSUME ProxyLifeAssumption, Inv, in # <<>>, in' = Tail(in), in[1].kind \notin {"delete_id", "new"}, last_error = "none",
         NEW c, Enqueue(c, proxies), NEW a \in Nat, NEW f \in Nat,
         ClosureOf(in[1], map[in[1].proxy], a, f, c),
         map[in[1].proxy] \in Nat, map[in[1].proxy] > 0,
         a \in {0} \cup DOMAIN proxies, a > 0 => proxies[a].is = in[1].argMeant,
         UNCHANGED <<out, server, running, map>>,
         \/ fds' = Tail(fds) /\ in[1].kind = "fd" /\ (ServerIds = {} => f = in[1].n)
         \/ fds' = fds /\ in[1].kind # "fd"
  PROVE  Inv'
<1>1. TypeOK /\ EventsFit /\ in[1] \in Events
  BY FirstEvent DEF Inv
<1>2. PICK p \in Nat : p = map[in[1].proxy]
  OBVIOUS
<1>3. /\ c \in Events /\ c.n = in[1].n /\ c.proxy = p /\ c.arg = a /\ c.meant = in[1].meant /\ c.argMeant = in[1].argMeant
      /\ c.kind = in[1].kind /\ c.fd = f
  <2>1. ClosureIs(in[1], p, a, f, c)
    BY <1>1, <1>2, ClosureFields
  <2> QED
    BY <2>1 DEF ClosureIs
<1>4. queue' = Append(queue, c) /\ proxies' = ref(Held(c), proxies) /\ UNCHANGED <<display_queue, last_error>>
  BY DEF Enqueue, Counted
<1>5. proxies \in Seq(ProxyRecords) /\ map' = map /\ running' = running /\ map \in [Ids -> {Free, Zombie, Absent} \cup Nat]
  BY <1>1 DEF TypeOK
<1> QED
  BY <1>2, <1>3, <1>4, <1>5, ReadQueued

\* An event with a new object is queued.
LEMMA ReadNew ==
  ASSUME ProxyLifeAssumption, Inv, in # <<>>, in' = Tail(in), in[1].kind = "new", last_error = "none",
         NEW n \in Nat, n = Len(proxies) + 1,
         NEW c, ClosureOf(in[1], map[in[1].proxy], n, in[1].fd, c),
         NEW all, all = Append(proxies, NewProxy(in[1].arg, in[1].argMeant)), Enqueue(c, all),
         map' = [map EXCEPT ![in[1].arg] = n],
         map[in[1].proxy] \in Nat, map[in[1].proxy] > 0,
         UNCHANGED <<out, server, running, fds>>
  PROVE  Inv'
<1>1. TypeOK /\ EventsFit /\ in[1] \in Events
  BY FirstEvent DEF Inv
<1>2. in[1].arg \in ServerIds /\ in[1].arg \in Ids /\ in[1].argMeant \in Objects
  BY FirstNames, IdKinds
<1>3. /\ c \in Events /\ c.n = in[1].n /\ c.proxy = map[in[1].proxy] /\ c.arg = n /\ c.meant = in[1].meant
      /\ c.argMeant = in[1].argMeant /\ c.kind = in[1].kind
  <2>1. in[1].fd \in Nat
    BY <1>1 DEF Events
  <2>2. ClosureIs(in[1], map[in[1].proxy], n, in[1].fd, c)
    BY <1>1, <2>1, ClosureFields
  <2> QED
    BY <2>2 DEF ClosureIs
<1>4. queue' = Append(queue, c) /\ proxies' = ref(Held(c), all) /\ UNCHANGED <<display_queue, last_error>>
  BY DEF Enqueue, Counted
<1>5. PICK x \in ProxyRecords : /\ x = NewProxy(in[1].arg, in[1].argMeant) /\ x.id = in[1].arg /\ x.is = in[1].argMeant
                                /\ ~x.destroyed /\ ~x.deleted /\ x.refcount = 1
  <2>1. \A i \in Ids, o \in Objects : /\ NewProxy(i, o) \in ProxyRecords /\ NewProxy(i, o).id = i /\ NewProxy(i, o).is = o
                                      /\ ~NewProxy(i, o).destroyed /\ ~NewProxy(i, o).deleted /\ NewProxy(i, o).refcount = 1
    BY DEF NewProxy, ProxyRecords
  <2> QED
    BY <1>2, <2>1
<1>6. proxies \in Seq(ProxyRecords) /\ running' = running /\ fds' = fds /\ map \in [Ids -> {Free, Zombie, Absent} \cup Nat]
  BY <1>1 DEF TypeOK
<1>7. /\ all \in Seq(ProxyRecords) /\ n \in DOMAIN all /\ all[n] = x /\ DOMAIN all = DOMAIN proxies \cup {n}
      /\ n \notin DOMAIN proxies /\ n > 0
      /\ \A i \in DOMAIN proxies : all[i] = proxies[i]
  <2>1. all = Append(proxies, x)
    BY <1>5
  <2>2. /\ all \in Seq(ProxyRecords) /\ Len(proxies) \in Nat /\ DOMAIN proxies = 1..Len(proxies)
        /\ Len(proxies) + 1 \in DOMAIN all /\ all[Len(proxies) + 1] = x
        /\ DOMAIN all = DOMAIN proxies \cup {Len(proxies) + 1}
        /\ \A i \in DOMAIN proxies : i \in Nat /\ i < Len(proxies) + 1 /\ all[i] = proxies[i]
    BY <1>6, <2>1, Longer
  <2> QED
    BY <2>2
<1>8. map' \in [Ids -> {Free, Zombie, Absent} \cup Nat] /\ map'[in[1].arg] = n /\ \A i \in Ids : i # in[1].arg => map'[i] = map[i]
  BY <1>2, <1>6
<1>9. \A p \in DOMAIN all \ DOMAIN proxies :
        /\ in[1].kind = "new" /\ map'[in[1].arg] = p /\ all[p].id = in[1].arg /\ all[p].is = in[1].argMeant
        /\ ~all[p].destroyed /\ ~all[p].deleted /\ all[p].refcount = 1
  BY <1>5, <1>7, <1>8
<1>10. \A i \in Ids : \/ map'[i] = map[i]
                      \/ /\ in[1].kind = "new" /\ i = in[1].arg
                         /\ map'[i] > 0 /\ map'[i] \in DOMAIN all \ DOMAIN proxies
  BY <1>7, <1>8
<1>11. c.arg \in {0} \cup DOMAIN all /\ all[c.arg].is = in[1].argMeant /\ DOMAIN proxies \subseteq DOMAIN all
  BY <1>3, <1>5, <1>7
<1>12. c.kind # "fd" /\ in[1].kind # "fd"
  BY <1>3
<1>13. UNCHANGED <<out, server, display_queue, last_error>>
  BY <1>4
<1>14. Brought(all)
  BY <1>7, <1>8, <1>9, <1>10, <1>11 DEF Brought
<1>15. Taken(c, all)
  BY <1>3, <1>4, <1>11 DEF Taken
<1>16. fds' = fds /\ in[1].kind \notin {"delete_id", "fd"} /\ running' = running /\ c \in Events /\ all \in Seq(ProxyRecords)
  BY <1>3, <1>6, <1>7, <1>12
<1> QED
  BY <1>13, <1>14, <1>15, <1>16, ReadBrought

\* queue_event()
LEMMA ReadStep == ASSUME ProxyLifeAssumption, Inv, Read PROVE Inv'
<1>1. CASE in[1].kind = "delete_id"
  <2>1. in # <<>> /\ in' = Tail(in) /\ UNCHANGED <<out, server, running>>
    BY DEF Read
  <2>2. in[1] = Head(in)
    BY <2>1, FirstEvent DEF Inv
  <2>3. display_queue' = Append(display_queue, in[1].arg) /\ UNCHANGED <<map, proxies, fds, queue, last_error>>
    BY <1>1, <2>2 DEF Read
  <2> QED
    BY <1>1, <2>1, <2>3, ReadDelete
<1>2. CASE in[1].kind # "delete_id"
  <2>1. /\ in # <<>> /\ last_error = "none" /\ in' = Tail(in) /\ in[1] \in Events
        /\ UNCHANGED <<out, server, running>>
        /\ \/ map[in[1].proxy] \in {Free, Absent, Zombie} /\ Eat(in[1])
           \/ /\ map[in[1].proxy] \in Nat /\ map[in[1].proxy] > 0
              /\ \/ in[1].kind = "new" /\ EnqueueNew(in[1]) /\ fds' = fds
                 \/ in[1].kind = "object" /\ EnqueueObject(in[1]) /\ fds' = fds
                 \/ /\ in[1].kind = "fd" /\ Enqueue([in[1] EXCEPT !.proxy = map[in[1].proxy], !.fd = Head(fds)], proxies)
                    /\ fds' = Tail(fds) /\ map' = map
                 \/ /\ in[1].kind = "plain" /\ Enqueue([in[1] EXCEPT !.proxy = map[in[1].proxy]], proxies)
                    /\ map' = map /\ fds' = fds
    BY <1>2, ReadEvent
  <2>2. TypeOK /\ EntriesFit /\ EventsFit /\ FdsFit
    BY DEF Inv
  <2>3. /\ \A c \in ClientIds : Names(in[1], c) => map[c] # Free
        /\ \A c \in Ids : map[c] > 0 => Says(in[1], c, proxies[map[c]].is)
        /\ in[1].kind = "new" => in[1].arg \in ServerIds
        /\ in[1].proxy \in Ids
    BY <1>2, <2>1, FirstNames
  <2>4. /\ EventFits(in[1])
        /\ in[1].kind \in {"plain", "fd"} => in[1].arg = 0
        /\ in[1].kind = "object" => in[1].arg \in Ids
        /\ in[1].n \in Nat /\ in[1].fd \in Nat
    <3>1. EventFits(in[1])
      BY <2>1, <2>2, FirstEvent
    <3>2. \A e \in Events : e.n \in Nat /\ e.fd \in Nat
      BY DEF Events
    <3> QED
      BY <1>2, <2>1, <3>1, <3>2 DEF EventFits
  <2>5. \A c \in Ids : Names(in[1], c) /\ map[c] \in {Free, Absent} => ServerIds # {}
    BY <2>2, <2>3 DEF EntriesFit, Ids
  <2>6. Names(in[1], in[1].proxy) /\ (in[1].kind = "object" => Names(in[1], in[1].arg))
    BY <1>2 DEF Names
  <2>7. CASE map[in[1].proxy] \in {Free, Absent, Zombie} /\ Eat(in[1])
    <3>1. /\ fds' = IF in[1].kind = "fd" /\ map[in[1].proxy] = Zombie THEN Tail(fds) ELSE fds
          /\ UNCHANGED <<map, proxies, queue, display_queue, last_error>>
      BY <2>7 DEF Eat
    <3>2. in[1].kind # "fd" \/ map[in[1].proxy] = Zombie \/ ServerIds # {}
      BY <2>3, <2>5, <2>6, <2>7
    <3>3. \/ fds' = Tail(fds) /\ in[1].kind = "fd"
          \/ fds' = fds /\ (in[1].kind # "fd" \/ ServerIds # {})
      BY <3>1, <3>2
    <3> QED
      BY <1>2, <2>1, <3>1, <3>3, ReadLeft
  <2>8. CASE map[in[1].proxy] \in Nat /\ map[in[1].proxy] > 0 /\ in[1].kind = "new" /\ EnqueueNew(in[1]) /\ fds' = fds
    <3>1. CASE FitsMap(in[1].arg)
      <4>1. /\ map' = [map EXCEPT ![in[1].arg] = Len(proxies) + 1]
            /\ Enqueue([in[1] EXCEPT !.proxy = map[in[1].proxy], !.arg = Len(proxies) + 1],
                       Append(proxies, NewProxy(in[1].arg, in[1].argMeant)))
        BY <2>8, <3>1 DEF EnqueueNew
      <4>2. PICK n \in Nat : n = Len(proxies) + 1
        BY <2>2, ProxyTypes
      <4>3. PICK c, all : /\ c = [in[1] EXCEPT !.proxy = map[in[1].proxy], !.arg = n]
                          /\ all = Append(proxies, NewProxy(in[1].arg, in[1].argMeant))
        OBVIOUS
      <4>4. Enqueue(c, all) /\ map' = [map EXCEPT ![in[1].arg] = n]
        BY <4>1, <4>2, <4>3
      <4>5. ClosureOf(in[1], map[in[1].proxy], n, in[1].fd, c)
        BY <4>3 DEF ClosureOf
      <4> QED
        BY <2>1, <2>8, <4>2, <4>3, <4>4, <4>5, ReadNew
    <3>2. CASE ~FitsMap(in[1].arg)
      <4>1. Fails
        BY <2>8, <3>2 DEF EnqueueNew
      <4>2. last_error' = "EINVAL" /\ ServerIds # {} /\ UNCHANGED <<map, proxies, queue, display_queue>>
        BY <2>3, <2>8, <4>1 DEF Fails
      <4> QED
        BY <1>2, <2>1, <2>8, <4>2, ReadLeft
    <3> QED
      BY <3>1, <3>2
  <2>9. CASE map[in[1].proxy] \in Nat /\ map[in[1].proxy] > 0 /\ in[1].kind = "object" /\ EnqueueObject(in[1]) /\ fds' = fds
    <3>1. CASE map[in[1].arg] \in {Free, Absent}
      <4>1. Fails
        BY <2>9, <3>1 DEF EnqueueObject
      <4>2. last_error' = "EINVAL" /\ ServerIds # {} /\ UNCHANGED <<map, proxies, queue, display_queue>>
        BY <2>4, <2>5, <2>6, <2>9, <3>1, <4>1 DEF Fails
      <4> QED
        BY <1>2, <2>1, <2>9, <4>2, ReadLeft
    <3>2. CASE map[in[1].arg] \notin {Free, Absent}
      <4>1. in[1].arg \in Ids /\ map[in[1].arg] \in {Zombie} \cup Nat
        BY <2>2, <2>4, <2>9, <3>2, ProxyTypes
      <4>2. PICK a \in Nat : a = IF map[in[1].arg] = Zombie THEN 0 ELSE map[in[1].arg]
        BY <4>1
      <4>3. a \in {0} \cup DOMAIN proxies /\ (a > 0 => proxies[a].is = in[1].argMeant)
        <5>1. CASE map[in[1].arg] = Zombie
          BY <4>2, <5>1
        <5>2. CASE map[in[1].arg] # Zombie
          <6>1. a = map[in[1].arg] /\ a > 0
            BY <3>2, <4>1, <4>2, <5>2 DEF Free
          <6>2. Says(in[1], in[1].arg, proxies[a].is)
            BY <2>3, <4>1, <6>1
          <6>3. a \in DOMAIN proxies
            BY <2>2, <4>1, <6>1 DEF EntriesFit
          <6> QED
            BY <2>9, <6>2, <6>3 DEF Says
        <5> QED
          BY <5>1, <5>2
      <4>4. PICK c : c = [in[1] EXCEPT !.proxy = map[in[1].proxy], !.arg = a]
        OBVIOUS
      <4>5. Enqueue(c, proxies) /\ map' = map
        BY <2>9, <3>2, <4>2, <4>4 DEF EnqueueObject
      <4>6. in[1].kind \notin {"delete_id", "new"} /\ in[1].kind # "fd"
        BY <2>9
      <4>7. ClosureOf(in[1], map[in[1].proxy], a, in[1].fd, c)
        BY <4>4 DEF ClosureOf
      <4> QED
        BY <2>1, <2>4, <2>9, <4>3, <4>5, <4>6, <4>7, ReadOld
    <3> QED
      BY <3>1, <3>2
  <2>10. CASE /\ map[in[1].proxy] \in Nat /\ map[in[1].proxy] > 0
              /\ in[1].kind = "fd" /\ Enqueue([in[1] EXCEPT !.proxy = map[in[1].proxy], !.fd = Head(fds)], proxies)
              /\ fds' = Tail(fds) /\ map' = map
    <3>1. Head(fds) \in Nat /\ (ServerIds = {} => Head(fds) = in[1].n)
      <4>1. sent' = sent
        BY <2>1 DEF server
      <4> QED
        BY <2>1, <2>2, <2>10, <4>1, FdsRead
    <3>2. PICK f \in Nat : f = Head(fds)
      BY <3>1
    <3>3. PICK c : c = [in[1] EXCEPT !.proxy = map[in[1].proxy], !.fd = f]
      OBVIOUS
    <3>4. Enqueue(c, proxies)
      BY <2>10, <3>2, <3>3
    <3>5. in[1].kind \notin {"delete_id", "new"} /\ in[1].arg = 0
      BY <2>4, <2>10
    <3>6. PICK a \in Nat : a = 0
      OBVIOUS
    <3>7. ClosureOf(in[1], map[in[1].proxy], a, f, c)
      BY <3>3, <3>5, <3>6 DEF ClosureOf
    <3>8. fds' = Tail(fds) /\ in[1].kind = "fd" /\ (ServerIds = {} => f = in[1].n)
      BY <2>10, <3>1, <3>2
    <3>9. map[in[1].proxy] \in Nat /\ map[in[1].proxy] > 0 /\ map' = map
      BY <2>10
    <3>10. UNCHANGED <<out, server, running, map>> /\ in # <<>> /\ in' = Tail(in) /\ last_error = "none"
      BY <2>1, <3>9
    <3>11. a \in {0} \cup DOMAIN proxies /\ (a > 0 => proxies[a].is = in[1].argMeant)
      BY <3>6
    <3> QED
      BY <3>2, <3>4, <3>5, <3>7, <3>8, <3>9, <3>10, <3>11, ReadOld
  <2>11. CASE /\ map[in[1].proxy] \in Nat /\ map[in[1].proxy] > 0
              /\ in[1].kind = "plain" /\ Enqueue([in[1] EXCEPT !.proxy = map[in[1].proxy]], proxies)
              /\ map' = map /\ fds' = fds
    <3>1. PICK c : c = [in[1] EXCEPT !.proxy = map[in[1].proxy]]
      OBVIOUS
    <3>2. Enqueue(c, proxies)
      BY <2>11, <3>1
    <3>3. in[1].kind \notin {"delete_id", "new"} /\ in[1].arg = 0 /\ in[1].kind # "fd"
      BY <2>4, <2>11
    <3>4. PICK a \in Nat : a = 0
      OBVIOUS
    <3>5. ClosureOf(in[1], map[in[1].proxy], a, in[1].fd, c)
      BY <3>1, <3>3, <3>4 DEF ClosureOf
    <3>6. map[in[1].proxy] \in Nat /\ map[in[1].proxy] > 0 /\ map' = map /\ fds' = fds
      BY <2>11
    <3>7. UNCHANGED <<out, server, running, map>> /\ in # <<>> /\ in' = Tail(in) /\ last_error = "none" /\ in[1].fd \in Nat
      BY <2>1, <2>4, <3>6
    <3>8. a \in {0} \cup DOMAIN proxies /\ (a > 0 => proxies[a].is = in[1].argMeant)
      BY <3>4
    <3> QED
      BY <3>2, <3>3, <3>5, <3>6, <3>7, <3>8, ReadOld
  <2> QED
    BY <2>1, <2>7, <2>8, <2>9, <2>10, <2>11
<1> QED
  BY <1>1, <1>2

\* A proxy that is marked when its id comes back.
MarkDeleted(s, q) == [s EXCEPT ![q].deleted = TRUE]

DeletedIs(s, q, t) ==
  /\ t \in Seq(ProxyRecords) /\ DOMAIN t = DOMAIN s /\ t[q].deleted
  /\ \A p \in DOMAIN s : /\ t[p].id = s[p].id /\ t[p].is = s[p].is /\ t[p].destroyed = s[p].destroyed
                         /\ t[p].refcount = s[p].refcount
                         /\ p # q => t[p].deleted = s[p].deleted

\* Nothing else changes.
LEMMA DeletedMark ==
  ASSUME NEW s \in Seq(ProxyRecords), NEW q \in DOMAIN s, NEW t, t = MarkDeleted(s, q)
  PROVE  DeletedIs(s, q, t)
<1>1. DOMAIN s = 1..Len(s) /\ Len(s) \in Nat /\ \A p \in DOMAIN s : s[p] \in ProxyRecords
  OBVIOUS
<1>2. DOMAIN t = DOMAIN s /\ t[q] = [s[q] EXCEPT !.deleted = TRUE] /\ \A p \in DOMAIN s : p # q => t[p] = s[p]
  BY DEF MarkDeleted
<1>3. PICK x : x = t[q]
  OBVIOUS
<1>4. /\ x \in ProxyRecords /\ x.deleted /\ x.id = s[q].id /\ x.is = s[q].is /\ x.destroyed = s[q].destroyed
      /\ x.refcount = s[q].refcount
  <2>1. PICK y \in ProxyRecords : y = s[q]
    BY <1>1
  <2>2. x = [y EXCEPT !.deleted = TRUE]
    BY <1>2, <1>3, <2>1
  <2>3. /\ x \in ProxyRecords /\ x.deleted /\ x.id = y.id /\ x.is = y.is /\ x.destroyed = y.destroyed
        /\ x.refcount = y.refcount
    BY <2>1, <2>2 DEF ProxyRecords
  <2> QED
    BY <2>1, <2>3
<1>5. \A p \in DOMAIN s : t[p] \in ProxyRecords
  BY <1>1, <1>2, <1>3, <1>4
<1>6. t \in Seq(ProxyRecords)
  <2>1. t = [p \in DOMAIN s |-> t[p]]
    BY DEF MarkDeleted
  <2>2. t \in [1..Len(s) -> ProxyRecords]
    BY <1>1, <1>5, <2>1
  <2> QED
    BY <1>1, <2>2, SequenceOf
<1> QED
  BY <1>2, <1>3, <1>4, <1>6 DEF DeletedIs

\* display_handle_delete_id()
LEMMA DispatchDeleteIdStep == ASSUME ProxyLifeAssumption, Inv, DispatchDeleteId PROVE Inv'
<1>1. /\ TypeOK /\ EntriesFit /\ RequestsFit /\ ClientIdsFit /\ EventsFit /\ NamesFit /\ ServerIdsFit /\ FdsFit /\ NoUseAfterFree
      /\ ServerIds = {} => FdsFollowEvents /\ ConnectionSurvives
  BY DEF Inv
<1>2. /\ display_queue # <<>> /\ display_queue' = Tail(display_queue) /\ last_error = "none"
      /\ out' = out /\ resource' = resource /\ sent' = sent /\ in' = in /\ fds' = fds /\ queue' = queue
      /\ running' = running /\ last_error' = last_error
  BY DEF DispatchDeleteId, server
<1>3. display_queue \in Seq(ClientIds)
  BY <1>1 DEF TypeOK
<1>4. /\ display_queue' \in Seq(ClientIds) /\ 1 \in DOMAIN display_queue
      /\ Head(display_queue) = display_queue[1] /\ display_queue[1] \in ClientIds
      /\ \A i \in DOMAIN display_queue : i \in Nat /\ i >= 1
      /\ \A i \in DOMAIN display_queue' : i \in Nat /\ i >= 1 /\ i + 1 \in DOMAIN display_queue
                                          /\ display_queue'[i] = display_queue[i + 1]
      /\ \A i \in DOMAIN display_queue : i = 1 \/ (i - 1 \in DOMAIN display_queue' /\ display_queue'[i - 1] = display_queue[i])
  BY <1>2, <1>3, Shorter
<1>5. PICK d \in ClientIds : d = Head(display_queue) /\ d = display_queue[1] /\ d \in Ids
  BY <1>4 DEF Ids
<1>6. /\ map' = [map EXCEPT ![d] = EntryDeleted(d)]
      /\ proxies' = IF map[d] > 0 THEN [proxies EXCEPT ![map[d]].deleted = TRUE] ELSE proxies
  BY <1>5 DEF DispatchDeleteId
<1>7. \A i, j \in DOMAIN display_queue : display_queue[i] = display_queue[j] => i = j
  BY <1>1 DEF EventsFit
<1>8. /\ \A i, j \in DOMAIN display_queue' : display_queue'[i] = display_queue'[j] => i = j
      /\ \A i \in DOMAIN display_queue' : display_queue'[i] # d
  <2>1. ASSUME NEW i \in DOMAIN display_queue', NEW j \in DOMAIN display_queue', display_queue'[i] = display_queue'[j]
        PROVE  i = j
    <3>1. i + 1 \in DOMAIN display_queue /\ j + 1 \in DOMAIN display_queue
      BY <1>4
    <3>2. i + 1 = j + 1
      BY <1>4, <1>7, <2>1, <3>1
    <3> QED
      BY <1>4, <3>2
  <2>2. ASSUME NEW i \in DOMAIN display_queue', display_queue'[i] = d
        PROVE  FALSE
    <3>1. i + 1 \in DOMAIN display_queue /\ display_queue[i + 1] = d /\ i + 1 # 1
      BY <1>4, <2>2
    <3> QED
      BY <1>4, <1>5, <1>7, <3>1
  <2> QED
    BY <2>1, <2>2
<1>9. Deleted(d) /\ ~Deleted(d)' /\ \A i : i # d => (Deleted(i)' <=> Deleted(i))
  <2>1. Deleted(d)
    BY <1>4, <1>5 DEF Deleted, ToSet
  <2>2. \A i : i = d => ~Deleted(i)'
    BY <1>8 DEF Deleted, ToSet
  <2>3. ASSUME NEW i, i # d PROVE Deleted(i)' <=> Deleted(i)
    <3>1. Deleted(i)' => Deleted(i)
      BY <1>4 DEF Deleted, ToSet
    <3>2. ASSUME Deleted(i) PROVE Deleted(i)'
      <4>1. PICK k \in DOMAIN display_queue : display_queue[k] = i
        BY <3>2 DEF Deleted, ToSet
      <4>2. k - 1 \in DOMAIN display_queue' /\ display_queue'[k - 1] = i
        BY <1>4, <1>5, <2>3, <4>1
      <4> QED
        BY <4>2 DEF Deleted, ToSet
    <3> QED
      BY <3>1, <3>2
  <2> QED
    BY <2>1, <2>2, <2>3
<1>10. \A i : /\ (Making(i)' <=> Making(i)) /\ (Ending(i)' <=> Ending(i)) /\ (Known(i)' <=> Known(i))
              /\ (Deleting(i)' <=> Deleting(i))
  BY <1>2 DEF Making, Ending, Asked, Known, Deleting
<1>11. ~Making(d) /\ ~Known(d) /\ ~Deleting(d) /\ ~Ending(d) /\ map[d] # Free
  BY <1>1, <1>9 DEF ClientIdsFit
<1>12. map[d] = Zombie \/ (map[d] \in Nat /\ map[d] > 0)
  BY <1>1, <1>5, <1>11, ProxyTypes DEF EntriesFit, Free, Zombie, Absent
<1>13. map[d] > 0 => map[d] \in DOMAIN proxies /\ proxies[map[d]].id = d /\ proxies[map[d]].is.once
                     /\ ~proxies[map[d]].destroyed
  <2>1. map[d] > 0 /\ Deleted(d) => proxies[map[d]].is.once
    BY <1>1 DEF ClientIdsFit
  <2> QED
    BY <1>1, <1>5, <1>9, <2>1 DEF EntriesFit
<1>14. /\ map' \in [Ids -> {Free, Zombie, Absent} \cup Nat]
       /\ \A i \in Ids : i # d => map'[i] = map[i]
       /\ map[d] = Zombie => map'[d] = Free
       /\ map[d] > 0 => map'[d] = map[d]
  BY <1>1, <1>5, <1>6, <1>12 DEF TypeOK, EntryDeleted, Zombie
<1>15. /\ proxies' \in Seq(ProxyRecords) /\ DOMAIN proxies' = DOMAIN proxies
       /\ map[d] > 0 => proxies'[map[d]].deleted
       /\ \A p \in DOMAIN proxies : /\ proxies'[p].id = proxies[p].id /\ proxies'[p].is = proxies[p].is
                                    /\ proxies'[p].destroyed = proxies[p].destroyed
                                    /\ proxies'[p].refcount = proxies[p].refcount
                                    /\ map[d] <= 0 \/ p # map[d] => proxies'[p].deleted = proxies[p].deleted
  <2>1. proxies \in Seq(ProxyRecords)
    BY <1>1 DEF TypeOK
  <2>2. CASE map[d] > 0
    <3>1. PICK q \in DOMAIN proxies : q = map[d]
      BY <1>13, <2>2
    <3>2. PICK t : t = proxies'
      OBVIOUS
    <3>3. t = MarkDeleted(proxies, q)
      BY <1>6, <2>2, <3>1, <3>2 DEF MarkDeleted
    <3>4. DeletedIs(proxies, q, t)
      BY <2>1, <3>3, DeletedMark
    <3>5. ~(map[d] <= 0)
      BY <1>12, <2>2 DEF Zombie
    <3> QED
      BY <2>2, <3>1, <3>2, <3>4, <3>5 DEF DeletedIs
  <2>3. CASE map[d] = Zombie
    <3>1. proxies' = proxies /\ ~(map[d] > 0)
      BY <1>6, <2>3 DEF Zombie
    <3> QED
      BY <2>1, <3>1
  <2> QED
    BY <1>12, <2>2, <2>3
<1>16. \A i \in Ids : i # d /\ map[i] > 0 => /\ map[i] \in DOMAIN proxies /\ proxies[map[i]].id = i
                                             /\ map[d] <= 0 \/ map[i] # map[d]
  BY <1>1, <1>12, <1>13 DEF EntriesFit, Zombie
<1>17. \A i \in Ids : i # d /\ map'[i] > 0 => /\ map'[i] = map[i] /\ proxies'[map[i]].deleted = proxies[map[i]].deleted
                                              /\ proxies'[map[i]].is = proxies[map[i]].is
  BY <1>14, <1>15, <1>16
<1>18. \A i \in Ids : map'[i] > 0 => /\ map'[i] = map[i] /\ map[i] \in DOMAIN proxies
                                     /\ proxies'[map[i]].is = proxies[map[i]].is
                                     /\ proxies'[map[i]].id = i /\ ~proxies'[map[i]].destroyed
  <2>1. map'[d] > 0 => map[d] > 0
    BY <1>12, <1>14 DEF Free
  <2> QED
    BY <1>1, <1>13, <1>14, <1>15, <2>1 DEF EntriesFit
<1>19. EntriesFit'
  <2>1. ASSUME NEW p \in DOMAIN proxies
        PROVE  /\ ~proxies'[p].destroyed => map'[proxies'[p].id] = p
               /\ proxies'[p].deleted => proxies'[p].id \in ClientIds
               /\ proxies'[p].is # NoObject
               /\ proxies'[p].id \in ServerIds => ~proxies'[p].is.once
    <3>1. /\ ~proxies[p].destroyed => map[proxies[p].id] = p
          /\ proxies[p].deleted => proxies[p].id \in ClientIds
          /\ proxies[p].is # NoObject
          /\ proxies[p].id \in ServerIds => ~proxies[p].is.once
          /\ proxies[p].id \in Ids /\ p \in Nat \ {0}
      BY <1>1, ProxyTypes DEF EntriesFit
    <3>2. ~proxies[p].destroyed => map'[proxies[p].id] = p
      BY <1>12, <1>14, <3>1 DEF Zombie
    <3>3. proxies'[p].deleted => proxies[p].id \in ClientIds
      BY <1>13, <1>15, <3>1
    <3> QED
      BY <1>15, <3>1, <3>2, <3>3
  <2>2. \A i \in Ids : map'[i] # (IF i \in ClientIds THEN Absent ELSE Zombie)
    BY <1>1, <1>5, <1>12, <1>14 DEF EntriesFit, Free, Zombie, Absent
  <2>3. \A i \in Ids : map'[i] > 0 =>
          map'[i] \in DOMAIN proxies' /\ proxies'[map'[i]].id = i /\ ~proxies'[map'[i]].destroyed
    BY <1>15, <1>18
  <2>4. \A p \in DOMAIN proxies' :
         /\ ~proxies'[p].destroyed => map'[proxies'[p].id] = p
         /\ proxies'[p].deleted => proxies'[p].id \in ClientIds
         /\ proxies'[p].is # NoObject
         /\ proxies'[p].id \in ServerIds => ~proxies'[p].is.once
    BY <1>15, <2>1
  <2> QED
    BY <2>2, <2>3, <2>4 DEF EntriesFit
<1>20. RequestsFit'
  <2>1. \A i \in DOMAIN out : out[i].req # "destroy" => out[i].id \in ClientIds
    BY <1>1 DEF RequestsFit
  <2>2. \A c \in ClientIds : c \in Ids /\ (map'[c] > 0 => map'[c] = map[c] /\ proxies'[map[c]].is = proxies[map[c]].is)
    BY <1>18 DEF Ids
  <2> QED
    BY <1>1, <1>2, <2>1, <2>2 DEF RequestsFit
<1>21. ClientIdsFit'
  <2> SUFFICES ASSUME NEW c \in ClientIds
               PROVE  /\ Making(c) => ~Known(c) /\ ~Deleting(c) /\ ~Deleted(c)'
                      /\ Known(c) => ~Deleting(c) /\ ~Deleted(c)'
                      /\ Deleting(c) => ~Deleted(c)'
                      /\ map'[c] = Free => ~Making(c) /\ ~Known(c) /\ ~Deleting(c) /\ ~Deleted(c)'
                      /\ Ending(c) => map'[c] = Zombie /\ (Making(c) \/ Known(c))
                      /\ map'[c] > 0 =>
                           LET x == proxies'[map'[c]] IN
                           /\ Known(c) => resource[c] = x.is
                           /\ x.deleted => ~Making(c) /\ ~Known(c) /\ ~Deleting(c) /\ ~Deleted(c)'
                           /\ Deleting(c) \/ Deleted(c)' \/ x.deleted => x.is.once
                           /\ last_error = "none" => Making(c) \/ Known(c) \/ Deleting(c) \/ Deleted(c)' \/ x.deleted
    BY <1>2, <1>10 DEF ClientIdsFit
  <2>0. c \in Ids
    BY DEF Ids
  <2>1. CASE c # d
    <3>1. (Deleted(c)' <=> Deleted(c)) /\ map'[c] = map[c]
      BY <1>9, <1>14, <2>0, <2>1
    <3>2. map[c] > 0 => proxies'[map[c]].deleted = proxies[map[c]].deleted /\ proxies'[map[c]].is = proxies[map[c]].is
      BY <1>17, <2>0, <2>1, <3>1
    <3> QED
      BY <1>1, <3>1, <3>2 DEF ClientIdsFit
  <2>2. CASE c = d
    <3>1. ~Making(c) /\ ~Known(c) /\ ~Deleting(c) /\ ~Ending(c)
      BY <1>11, <2>2
    <3>2. \A i : i = d => ~Deleted(i)'
      BY <1>8 DEF Deleted, ToSet
    <3>3. ~Deleted(c)'
      BY <2>2, <3>2
    <3>4. map'[c] > 0 => proxies'[map'[c]].deleted /\ proxies'[map'[c]].is.once
      BY <1>13, <1>15, <1>18, <2>0, <2>2
    <3> QED
      BY <3>1, <3>3, <3>4
  <2> QED
    BY <2>1, <2>2
<1>22. EventsFit'
  BY <1>1, <1>2, <1>8 DEF EventsFit, EventFits
<1>23. NamesFit'
  <2>1. \A i \in DOMAIN in : \A id \in ClientIds : Names(in[i], id) =>
          Known(id)' \/ \E k \in DOMAIN in : k > i /\ in[k].kind = "delete_id" /\ in[k].arg = id
    BY <1>1, <1>10 DEF NamesFit
  <2>2. ASSUME NEW c \in Ids, map'[c] > 0, NEW i \in DOMAIN in, in[i].kind # "delete_id"
        PROVE  Says(in[i], c, proxies'[map'[c]].is)
    <3>1. map'[c] = map[c] /\ proxies'[map[c]].is = proxies[map[c]].is
      BY <1>18, <2>2
    <3> QED
      BY <1>1, <2>2, <3>1 DEF NamesFit
  <2> QED
    BY <1>2, <2>1, <2>2 DEF NamesFit
<1>24. ServerIdsFit'
  <2>1. \A s \in ServerIds : s \in Ids /\ map'[s] = map[s]
    <3>1. \A s \in ServerIds : s \in Ids /\ s # d
      BY IdKinds
    <3> QED
      BY <1>14, <3>1
  <2>2. \A s \in ServerIds : map[s] > 0 => proxies'[map[s]].is = proxies[map[s]].is
    BY <1>18, <2>1
  <2> QED
    BY <1>1, <1>2, <1>10, <2>1, <2>2 DEF ServerIdsFit
<1>25. FdsFit' /\ TypeOK'
  BY <1>1, <1>2, <1>4, <1>14, <1>15 DEF FdsFit, TypeOK
<1>26. ClosuresFit' /\ EventsReachTheirObject' /\ Closures' = Closures /\ (FdsFollowEvents => FdsFollowEvents')
  <2>1. \A i \in DOMAIN in' : in'[i].kind # "delete_id" =>
          in'[i].n = sent + 1 \/ \E j \in DOMAIN in : in[j].kind # "delete_id" /\ in[j].n = in'[i].n
    BY <1>2
  <2>2. sent' \in Nat /\ sent' >= sent
    BY <1>1, <1>2 DEF TypeOK
  <2>3. queue' = queue /\ running' = running /\ DOMAIN proxies \subseteq DOMAIN proxies'
        /\ \A p \in DOMAIN proxies : proxies'[p].is = proxies[p].is
    BY <1>2, <1>15
  <2> QED
    BY <2>1, <2>2, <2>3, ClosuresStay
<1>27. NoUseAfterFree'
  <2>1. \A p \in DOMAIN proxies : Owner(p)' = Owner(p) /\ Keepers(p)' = Keepers(p)
    BY <1>15, <1>26 DEF Owner, Keepers, Keep
  <2> QED
    BY <1>1, <1>15, <2>1 DEF NoUseAfterFree
<1>28. ServerIds = {} => FdsFollowEvents' /\ ConnectionSurvives'
  BY <1>1, <1>2, <1>26 DEF ConnectionSurvives
<1> QED
  BY <1>19, <1>20, <1>21, <1>22, <1>23, <1>24, <1>25, <1>26, <1>27, <1>28 DEF Inv

\* Every step of the client and of the compositor.
LEMMA InvNext == ASSUME ProxyLifeAssumption, Inv, Next PROVE Inv'
<1>1. ASSUME NEW id \in ClientIds, ServerDestroy(id) PROVE Inv'
  BY <1>1, ServerDestroyStep
<1>2. ASSUME NEW id \in ClientIds, NEW once \in BOOLEAN, Create(id, once) PROVE Inv'
  BY <1>2, CreateStep
<1>3. ASSUME NEW p \in 1..Len(proxies), Destroy(p) PROVE Inv'
  BY <1>3, DestroyStep
<1>4. CASE Serve
  BY <1>4, ServeCreateStep, ServeDestroyStep
<1>5. ASSUME NEW id \in Ids, NEW kind \in {"plain", "fd", "object"}, NEW arg \in Ids \cup {0}, Send(id, kind, arg) PROVE Inv'
  BY <1>5, SendStep
<1>6. ASSUME NEW id \in Ids, NEW arg \in ServerIds, SendNew(id, arg) PROVE Inv'
  BY <1>6, SendNewStep
<1>7. CASE Read
  BY <1>7, ReadStep
<1>8. CASE DispatchDeleteId
  BY <1>8, DispatchDeleteIdStep
<1> QED
  BY <1>1, <1>2, <1>3, <1>4, <1>5, <1>6, <1>7, <1>8, FailStep, DispatchStep, HandlerReturnsStep, ReleaseQueueStep DEF Next

\* A step that changes nothing.
LEMMA InvStays == ASSUME Inv, UNCHANGED vars PROVE Inv'
<1>1. /\ TypeOK /\ EntriesFit /\ RequestsFit /\ ClientIdsFit /\ EventsFit /\ NamesFit /\ ServerIdsFit /\ ClosuresFit /\ FdsFit
      /\ NoUseAfterFree /\ EventsReachTheirObject
      /\ ServerIds = {} => FdsFollowEvents /\ ConnectionSurvives
  BY DEF Inv
<1>2. /\ map' = map /\ proxies' = proxies /\ out' = out /\ resource' = resource /\ in' = in /\ fds' = fds /\ sent' = sent
      /\ queue' = queue /\ display_queue' = display_queue /\ running' = running /\ last_error' = last_error
  BY DEF vars, server
<1>3. Closures' = Closures
  BY <1>2 DEF Closures
<1>4. \A i : /\ Making(i)' <=> Making(i)
             /\ Ending(i)' <=> Ending(i)
             /\ Deleting(i)' <=> Deleting(i)
             /\ Deleted(i)' <=> Deleted(i)
             /\ Known(i)' <=> Known(i)
  BY <1>2 DEF Making, Ending, Asked, Deleting, Deleted, Known
<1>5. TypeOK' /\ EntriesFit' /\ RequestsFit' /\ FdsFit'
  BY <1>1, <1>2 DEF TypeOK, EntriesFit, RequestsFit, FdsFit
<1>6. ClientIdsFit'
  BY <1>1, <1>2, <1>4 DEF ClientIdsFit
<1>7. EventsFit'
  BY <1>1, <1>2 DEF EventsFit, EventFits
<1>8. NamesFit' /\ ServerIdsFit'
  BY <1>1, <1>2, <1>4 DEF NamesFit, ServerIdsFit
<1>9. ClosuresFit' /\ EventsReachTheirObject'
  BY <1>1, <1>2, <1>3 DEF ClosuresFit, ClosureFits, EventsReachTheirObject
<1>10. NoUseAfterFree'
  BY <1>1, <1>2, <1>3 DEF NoUseAfterFree, Owner, Keepers, Keep
<1>11. ServerIds = {} => FdsFollowEvents' /\ ConnectionSurvives'
  BY <1>1, <1>2, <1>3 DEF FdsFollowEvents, ConnectionSurvives
<1> QED
  BY <1>5, <1>6, <1>7, <1>8, <1>9, <1>10, <1>11 DEF Inv

\* An id that is free is unknown and named by nothing.
LEMMA IdsUnknown == ASSUME ProxyLifeAssumption, Inv PROVE FreeIdsUnknown
<1> SUFFICES ASSUME NEW id \in ClientIds, map[id] = Free
             PROVE  /\ resource[id] = NoObject
                    /\ \A i \in DOMAIN out : out[i].id # id
                    /\ \A i \in DOMAIN in : id \notin {in[i].proxy, in[i].arg}
  BY DEF FreeIdsUnknown
<1>1. /\ ~Known(id)
      /\ \A i \in DOMAIN out : out[i].id # id
      /\ \A i \in DOMAIN in : ~Names(in[i], id)
      /\ \A i \in DOMAIN in : in[i].kind = "delete_id" => in[i].arg # id
  BY FreeFacts
<1>2. id # 0 /\ id \notin ServerIds
  BY IdKinds
<1>3. ASSUME NEW i \in DOMAIN in
      PROVE  id \notin {in[i].proxy, in[i].arg}
  <2>1. EventFits(in[i])
    BY DEF Inv, EventsFit
  <2>2. CASE in[i].kind = "delete_id"
    <3>1. in[i] = DeleteEvent(in[i].arg)
      BY <2>1, <2>2 DEF EventFits
    <3>2. \A a : DeleteEvent(a).proxy = 0
      BY DEF DeleteEvent, Nothing
    <3>3. in[i].proxy = 0
      BY <3>1, <3>2
    <3> QED
      BY <1>1, <1>2, <2>2, <3>3
  <2>3. CASE in[i].kind # "delete_id"
    BY <1>1, <1>2, <2>1, <2>3 DEF EventFits, Names
  <2> QED
    BY <2>2, <2>3
<1> QED
  BY <1>1, <1>3 DEF Known

\* Handlers begin only in Dispatch, with what it has looked at.
LEMMA LiveObjects ==
  ASSUME Inv, Next, running' \notin {Nothing, running}
  PROVE  \A i \in DOMAIN Held(running') : ~proxies[Held(running')[i]].destroyed
<1>1. Dispatch
  BY DEF Next, ServerDestroy, Create, Destroy, Serve, Send, SendNew, Read, Fail, DispatchDeleteId, HandlerReturns, ReleaseQueue
<1>2. PICK c : c = Validated(Head(queue))
  OBVIOUS
<1>3. ~ReceiverGone(c) /\ running' = c
  BY <1>1, <1>2 DEF Dispatch
<1>4. ~proxies[c.proxy].destroyed
  BY <1>3 DEF ReceiverGone
<1>5. c.arg > 0 => ~proxies[c.arg].destroyed
  <2>1. Head(queue) \in Events
    BY <1>1 DEF Dispatch, Inv, TypeOK
  <2>2. PICK h \in Events : h = Head(queue)
    BY <2>1
  <2>3. \A d : d = [h EXCEPT !.arg = 0] => d.arg = 0
    BY <2>2 DEF Events
  <2>4. c = h \/ c = [h EXCEPT !.arg = 0]
    BY <1>2, <2>2 DEF Validated
  <2>5. c.arg > 0 => c = h /\ ~proxies[h.arg].destroyed
    BY <1>2, <2>2, <2>3, <2>4 DEF Validated
  <2> QED
    BY <2>5
<1>6. \A i \in DOMAIN Held(c) : Held(c)[i] = c.proxy \/ (c.arg > 0 /\ Held(c)[i] = c.arg)
  BY DEF Held
<1> QED
  BY <1>3, <1>4, <1>5, <1>6

\* What the invariant says of the properties.
LEMMA InvGives ==
  ASSUME ProxyLifeAssumption, Inv
  PROVE  /\ TypeOK /\ NoUseAfterFree /\ EventsReachTheirObject /\ FreeIdsUnknown
         /\ ServerIds = {} => FdsFollowEvents /\ ConnectionSurvives
BY IdsUnknown DEF Inv

\* No step calls a handler for an object that is gone.
LEMMA StepGives ==
  ASSUME Inv, Next \/ UNCHANGED vars, running' \notin {Nothing, running}
  PROVE  \A i \in DOMAIN Held(running') : ~proxies[Held(running')[i]].destroyed
<1>1. UNCHANGED vars => running' = running
  BY DEF vars
<1>2. Next
  BY <1>1
<1> QED
  BY <1>2, LiveObjects

\* The invariant is one without fairness.
LEMMA InvAlways == ASSUME ProxyLifeAssumption PROVE Init /\ [][Next]_vars => []Inv
<1>1. Init => Inv
  BY InvInit
<1>2. Inv /\ [Next]_vars => Inv'
  BY InvNext, InvStays
<1> QED
  BY <1>1, <1>2, PTL

\* However the client's calls, its handlers, the reader and the compositor cross, a
\* proxy's memory is there as long as somebody uses it, events reach the object that
\* they mean, and a free id is forgotten by the compositor; without objects of the
\* compositor also descriptors stay with their events, and the connection does not
\* fail (proxy_destroy, queue_event, increase_closure_args_refcount,
\* display_handle_delete_id).
THEOREM ObjectsLive ==
  ASSUME ProxyLifeAssumption
  PROVE  Spec => [](/\ TypeOK /\ NoUseAfterFree /\ EventsReachTheirObject /\ FreeIdsUnknown
                    /\ ServerIds = {} => FdsFollowEvents /\ ConnectionSurvives)
<1>1. Inv => /\ TypeOK /\ NoUseAfterFree /\ EventsReachTheirObject /\ FreeIdsUnknown
             /\ ServerIds = {} => FdsFollowEvents /\ ConnectionSurvives
  BY InvGives
<1> QED
  BY <1>1, InvAlways, PTL DEF Spec

\* A handler is never called for an object, or with one, that the client has
\* destroyed (validate_closure_objects, dispatch_event).
THEOREM HandlersLive == ASSUME ProxyLifeAssumption PROVE Spec => HandlersGetLiveObjects
<1>1. Inv /\ [Next]_vars =>
        [running' \notin {Nothing, running} =>
           \A i \in DOMAIN Held(running') : ~proxies[Held(running')[i]].destroyed]_vars
  BY StepGives
<1> QED
  BY <1>1, InvAlways, PTL DEF Spec, HandlersGetLiveObjects
==============================================================================
