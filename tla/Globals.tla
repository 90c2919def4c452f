------------------------------ MODULE Globals -------------------------------
(***************************************************************************)
(* The globals of a display and the registries of its clients              *)
(* (wayland-server.c): globals come and go while announcements, removals   *)
(* and binds are under way, and clients connect and leave in between.  The *)
(* stream to a client and the one from it are in order and independent, so *)
(* a client acts on a registry that the server has already changed.        *)
(*                                                                         *)
(* A client has at most one registry.  The name a global gets is a number  *)
(* below Limit, which stands for UINT32_MAX.                               *)
(***************************************************************************)
EXTENDS Naturals, Sequences, FiniteSets, SequencesExt

CONSTANTS
    Clients,        \* the clients that may connect
    GoodClients,    \* the clients that bind only what they have been told of
    Interfaces,     \* the interfaces globals are made with
    Hidden,         \* the pairs of client and interface the filter hides
    Limit,          \* wl_global_create gives names below it
    MaxRequests     \* bound: the requests a client has under way

GlobalsAssumption ==
    /\ IsFiniteSet(Clients) /\ GoodClients \subseteq Clients
    /\ Hidden \subseteq Clients \X Interfaces
    /\ Limit \in Nat \ {0}
    /\ MaxRequests \in Nat \ {0}

Names == 1 .. Limit - 1

VARIABLES
    patient,            \* a global is destroyed only when all have seen its removal
    global_list,        \* the globals; the list has them in the order of their names
    next_global_name,   \* the name the next global gets
    client,             \* "gone", "alive", or "error": told so, not yet destroyed
    registries,         \* the clients whose registry is in registry_resource_list
    events,             \* what the server has sent and the client not yet read
    requests,           \* what the client has sent and the server not yet read
    view,               \* the globals the client believes in
    bound               \* the globals each client has been bound to

vars == <<patient, global_list, next_global_name, client, registries, events, requests,
          view, bound>>

Announced == Names \X Interfaces
Global == [name : Names, interface : Interfaces, removed : BOOLEAN]
Events == {"global", "global_remove"} \X Names \X Interfaces
Requests == ({"bind"} \X Names \X Interfaces) \cup {<<"get_registry">>}

TypeOK ==
    /\ patient \in BOOLEAN
    /\ global_list \subseteq Global
    /\ next_global_name \in 1 .. Limit
    /\ client \in [Clients -> {"gone", "alive", "error"}]
    /\ registries \subseteq Clients
    /\ events \in [Clients -> Seq(Events)]
    /\ requests \in [Clients -> Seq(Requests)]
    /\ view \in [Clients -> SUBSET Announced]
    /\ bound \in [Clients -> SUBSET Announced]

Init ==
    /\ patient \in BOOLEAN
    /\ global_list = {}
    /\ next_global_name = 1
    /\ client = [c \in Clients |-> "gone"]
    /\ registries = {}
    /\ events = [c \in Clients |-> <<>>]
    /\ requests = [c \in Clients |-> <<>>]
    /\ view = [c \in Clients |-> {}]
    /\ bound = [c \in Clients |-> {}]

IsVisible(c, interface) == <<c, interface>> \notin Hidden

\* An event to the registries of the clients it concerns; nothing is sent to
\* a client that has been told of an error.
Post(kind, name, interface) ==
    events' = [c \in Clients |->
        IF c \in registries /\ client[c] = "alive" /\ IsVisible(c, interface)
        THEN Append(events[c], <<kind, name, interface>>)
        ELSE events[c]]

\* Mutant: a name is used again.
SmallestFree(n) == LET used == {g.name : g \in global_list} \cup {n} IN
    IF \E m \in Names : m \notin used
    THEN CHOOSE m \in Names \ used : \A k \in Names \ used : m <= k
    ELSE Limit

NextName(n) == n + 1

Create(interface) ==
    /\ next_global_name < Limit
    /\ global_list' = global_list \cup
           {[name |-> next_global_name, interface |-> interface, removed |-> FALSE]}
    /\ next_global_name' = NextName(next_global_name)
    /\ Post("global", next_global_name, interface)
    /\ UNCHANGED <<patient, client, registries, requests, view, bound>>

RemoveGlobal(g) ==
    /\ ~g.removed
    /\ Post("global_remove", g.name, g.interface)
    /\ global_list' = (global_list \ {g}) \cup {[g EXCEPT !.removed = TRUE]}
    /\ UNCHANGED <<patient, next_global_name, client, registries, requests, view, bound>>

\* No client can still ask for a global that is removed.
Settled(g) == g.removed /\ \A c \in Clients :
    /\ \A k \in DOMAIN events[c] : events[c][k][2] # g.name
    /\ \A k \in DOMAIN requests[c] : requests[c][k] # <<"bind", g.name, g.interface>>

\* Mutant: global_remove is sent a second time.
RemovesAlways(g) == TRUE

Removes(g) == ~g.removed

DestroyGlobal(g) ==
    /\ patient => Settled(g)
    /\ IF Removes(g) THEN Post("global_remove", g.name, g.interface)
                     ELSE UNCHANGED events
    /\ global_list' = global_list \ {g}
    /\ UNCHANGED <<patient, next_global_name, client, registries, requests, view, bound>>

Connect(c) ==
    /\ client[c] = "gone"
    /\ client' = [client EXCEPT ![c] = "alive"]
    /\ UNCHANGED <<patient, global_list, next_global_name, registries, events, requests,
                   view, bound>>

\* Mutant: the registry of a client that is gone stays listed.
LeftInList(c) == registries

Unbound(c) == registries \ {c}

\* The client leaves, or the server acts on its error: the destructor of its
\* registry takes it out of the list.
DestroyClient(c) ==
    /\ client[c] # "gone"
    /\ client' = [client EXCEPT ![c] = "gone"]
    /\ registries' = Unbound(c)
    /\ events' = [events EXCEPT ![c] = <<>>]
    /\ requests' = [requests EXCEPT ![c] = <<>>]
    /\ view' = [view EXCEPT ![c] = {}]
    /\ bound' = [bound EXCEPT ![c] = {}]
    /\ UNCHANGED <<patient, global_list, next_global_name>>

Sends(c, request) ==
    /\ client[c] = "alive"
    /\ Len(requests[c]) < MaxRequests
    /\ requests' = [requests EXCEPT ![c] = Append(@, request)]
    /\ UNCHANGED <<patient, global_list, next_global_name, client, registries, events, view, bound>>

AskRegistry(c) ==
    /\ c \notin registries
    /\ <<"get_registry">> \notin ToSet(requests[c])
    /\ Sends(c, <<"get_registry">>)

AskBind(c, name, interface) ==
    /\ c \in registries
    /\ c \in GoodClients => <<name, interface>> \in view[c]
    /\ Sends(c, <<"bind", name, interface>>)

\* What a client believes in that has seen a set of globals announced and now reads an event.
Learnt(seen, e) == IF e[1] = "global" THEN seen \cup {<<e[2], e[3]>>} ELSE seen \ {<<e[2], e[3]>>}

ReadEvent(c) ==
    /\ client[c] # "gone"
    /\ events[c] # <<>>
    /\ view' = [view EXCEPT ![c] = Learnt(@, Head(events[c]))]
    /\ events' = [events EXCEPT ![c] = Tail(@)]
    /\ UNCHANGED <<patient, global_list, next_global_name, client, registries, requests, bound>>

TakesRequest(c, kind) ==
    /\ client[c] = "alive"
    /\ requests[c] # <<>>
    /\ Head(requests[c])[1] = kind
    /\ requests' = [requests EXCEPT ![c] = Tail(@)]

\* Mutant: removed globals are announced to a new registry too.
AdvertisesRemoved(c, g) == IsVisible(c, g.interface)

Advertises(c, g) == IsVisible(c, g.interface) /\ ~g.removed

\* The sequences of all members of a set of globals in the order of their names: one.
InOrder(S) == {seq \in UNION {[1 .. n -> S] : n \in 0 .. Limit - 1} :
    ToSet(seq) = S /\ \A j, k \in DOMAIN seq : j < k => seq[j].name < seq[k].name}

GetRegistry(c) ==
    /\ TakesRequest(c, "get_registry")
    /\ registries' = registries \cup {c}
    /\ \E shown \in InOrder({g \in global_list : Advertises(c, g)}) :
        events' = [events EXCEPT ![c] = @ \o
            [k \in DOMAIN shown |-> <<"global", shown[k].name, shown[k].interface>>]]
    /\ UNCHANGED <<patient, global_list, next_global_name, client, view, bound>>

\* Mutant: a global that is removed is no longer bound.
BindsRemovedNot(c, name, interface) ==
    \E g \in global_list : g.name = name /\ g.interface = interface /\ Advertises(c, g)

\* Mutant: the filter is not asked at bind.
BindsUnfiltered(c, name, interface) ==
    \E g \in global_list : g.name = name /\ g.interface = interface

Binds(c, name, interface) ==
    \E g \in global_list : g.name = name /\ g.interface = interface /\ IsVisible(c, interface)

RegistryBind(c) ==
    /\ TakesRequest(c, "bind")
    /\ LET name == Head(requests[c])[2]
           interface == Head(requests[c])[3] IN
        IF Binds(c, name, interface)
        THEN /\ bound' = [bound EXCEPT ![c] = @ \cup {<<name, interface>>}]
             /\ UNCHANGED client
        ELSE /\ client' = [client EXCEPT ![c] = "error"]
             /\ UNCHANGED bound
    /\ UNCHANGED <<patient, global_list, next_global_name, registries, events, view>>

\* wl_resource_create gets no memory: the client is told so.
NoMemory(c) ==
    /\ TakesRequest(c, "get_registry")
    /\ client' = [client EXCEPT ![c] = "error"]
    /\ UNCHANGED <<patient, global_list, next_global_name, registries, events, view, bound>>

Next ==
    \/ \E i \in Interfaces : Create(i)
    \/ \E g \in global_list : RemoveGlobal(g) \/ DestroyGlobal(g)
    \/ \E c \in Clients :
        \/ Connect(c) \/ DestroyClient(c)
        \/ AskRegistry(c) \/ GetRegistry(c) \/ NoMemory(c)
        \/ \E n \in Names, i \in Interfaces : AskBind(c, n, i)
        \/ RegistryBind(c) \/ ReadEvent(c)

Spec == Init /\ [][Next]_vars

-----------------------------------------------------------------------------

Added(p) == <<"global", p[1], p[2]>>
Taken(p) == <<"global_remove", p[1], p[2]>>

\* The last word on a global p is that it exists, to a client that has seen a set of globals
\* announced and is told of k more events.
Knows(seen, told, k, p) == \E j \in 0 .. k :
    /\ IF j = 0 THEN p \in seen ELSE told[j] = Added(p)
    /\ \A i \in j + 1 .. k : told[i] # Taken(p)

After(seen, told, k) == {p \in Announced : Knows(seen, told, k, p)}

\* What a client believes in once it has read k of the events under way.
ViewAfter(c, k) == After(view[c], events[c], k)

\* What it should believe in: the globals that the filter shows it and that are not removed.
Shown(c) == {p \in Announced : \E g \in global_list :
    <<g.name, g.interface>> = p /\ ~g.removed /\ <<c, g.interface>> \notin Hidden}

(* A client that reads its events ends with the globals that exist, that   *)
(* are not removed and that the filter shows it, whatever was created,     *)
(* removed or destroyed before, during or after its wl_display.get_registry *)
(* (display_get_registry, wl_global_create, wl_global_remove).             *)
ViewInSync == \A c \in registries : client[c] = "alive" =>
    ViewAfter(c, Len(events[c])) = Shown(c)

(* No global is announced to a client twice, and none is removed that it   *)
(* was not told of: a client may keep a table by name (the registry events *)
(* posted by wl_global_create, wl_global_remove and display_get_registry). *)
MakeSense(seen, told) == \A k \in DOMAIN told :
    (told[k][1] = "global") <=> (<<told[k][2], told[k][3]>> \notin After(seen, told, k - 1))

EventsMakeSense == \A c \in Clients : MakeSense(view[c], events[c])

(* A name stands for one global for ever: a client never believes in two   *)
(* globals of a name, so that a late bind reaches the global it was meant  *)
(* for or none (next_global_name).                                         *)
OneGlobalPerName == \A c \in Clients : \A k \in 0 .. Len(events[c]) :
    LET believed == ViewAfter(c, k) \cup {<<g.name, g.interface>> : g \in global_list} IN
        \A p, q \in believed : p[1] = q[1] => p = q

(* A client that binds only what it has been told of is never ended for    *)
(* it, if globals are removed first and destroyed when that has been seen  *)
(* (wl_global_remove, "allowing clients that have not yet received the     *)
(* global remove event to continue to bind to it").                        *)
GoodNeverRefused == [][\A c \in GoodClients :
    patient /\ RegistryBind(c) => client'[c] = "alive"]_vars

(* A global that is hidden from a client is never bound to it, even if the *)
(* client guesses its name (wl_global_is_visible in registry_bind).        *)
HiddenNeverBound == \A c \in Clients : \A b \in bound[c] : <<c, b[2]>> \notin Hidden

(* No event is posted to a registry whose client is destroyed, however the *)
(* client ended (unbind_resource).                                         *)
RegistriesAlive == \A c \in registries : client[c] # "gone"

(* The names that globals, events and clients' views mention were given to *)
(* one global each (next_global_name).                                     *)
Mentioned ==
    {<<g.name, g.interface>> : g \in global_list} \cup
    UNION {view[c] \cup {<<e[2], e[3]>> : e \in ToSet(events[c])} : c \in Clients}

NamesMeanOne ==
    /\ \A p \in Mentioned : p[1] < next_global_name
    /\ \A p, q \in Mentioned : p[1] = q[1] => p = q
    /\ \A g, h \in global_list : g.name = h.name => g = h

(* A client has seen nothing and binds nothing before it has its registry, *)
(* which it asks for once (display_get_registry).                          *)
AsksOnce == \A c \in Clients :
    IF c \in registries
    THEN \A k \in DOMAIN requests[c] : requests[c][k][1] = "bind"
    ELSE /\ view[c] = {} /\ events[c] = <<>> /\ Len(requests[c]) <= 1
         /\ \A k \in DOMAIN requests[c] : requests[c][k] = <<"get_registry">>

(* What a client has been told of, or a good one asks for, can be bound    *)
(* while the compositor is patient (wl_global_remove).                     *)
KnowsOf(c, p) ==
    \/ p \in view[c]
    \/ \E k \in DOMAIN events[c] : events[c][k] = Added(p)
    \/ c \in GoodClients /\ \E k \in DOMAIN requests[c] : requests[c][k] = <<"bind", p[1], p[2]>>

Bindable(c, p) == \E g \in global_list : <<g.name, g.interface>> = p /\ <<c, g.interface>> \notin Hidden

KnownCanBeBound == patient => \A c \in registries : client[c] = "alive" =>
    \A p \in Announced : KnowsOf(c, p) => Bindable(c, p)

Inv ==
    /\ TypeOK /\ ViewInSync /\ EventsMakeSense /\ HiddenNeverBound /\ RegistriesAlive
    /\ NamesMeanOne /\ AsksOnce /\ KnownCanBeBound

=============================================================================
