--------------------------- MODULE ServerClients ----------------------------
(***************************************************************************)
(* The clients of a display in the server library (wayland-server.c): how  *)
(* they are made, served and destroyed.  Everything runs on one thread,    *)
(* but nearly every step calls the compositor back - request handlers,     *)
(* destroy listeners, destructors of resources, timers - and the           *)
(* compositor may call the library again: destroy this or another client,  *)
(* destroy resources, post errors.  The calls in progress are a stack.     *)
(*                                                                         *)
(* A resource is its id, with DisplayId for the display object; a client   *)
(* that is freed is never made again.                                      *)
(***************************************************************************)
EXTENDS Naturals, Sequences, FiniteSets, SequencesExt

CONSTANTS
    Clients,    \* the clients that may connect
    Ids,        \* the ids of the other resources, above DisplayId
    MaxDepth,   \* bound: the calls in progress when a callback makes another
    Cautious,   \* a listener never destroys the client wl_display_flush_clients has next
    None        \* no client

DisplayId == 1

ServerClientsAssumption ==
    /\ IsFiniteSet(Clients) /\ None \notin Clients
    /\ Ids \subseteq Nat \ (0 .. DisplayId)
    /\ MaxDepth \in Nat \ {0, 1}
    /\ Cautious \in BOOLEAN

VARIABLES
    state,              \* "none", "linked", "dying" or "freed"
    error,              \* client->error
    display_resource,   \* whether client->display_resource is set
    objects,            \* the ids in client->objects
    client_list,        \* display->client_list
    tmp_client_list,    \* the list of wl_display_destroy_clients
    hung,               \* the clients that have closed their connection
    stack               \* the calls in progress, the innermost last

vars == <<state, error, display_resource, objects, client_list,
          tmp_client_list, hung, stack>>
lists == <<client_list, tmp_client_list>>

Calls == {"data", "destroy", "late", "resource", "timer", "flush", "destroy_all"}
Points == {"dispatch", "callback", "check", "resources", "remove", "loop", "advance"}

Frame == [call : Calls, c : Clients \cup {None}, at : Points,
          id : Ids \cup {0, DisplayId}, next : Clients \cup {None},
          all : SUBSET Clients]

TypeOK ==
    /\ state \in [Clients -> {"none", "linked", "dying", "freed"}]
    /\ error \in [Clients -> BOOLEAN]
    /\ display_resource \in [Clients -> BOOLEAN]
    /\ objects \in [Clients -> SUBSET (Ids \cup {DisplayId})]
    /\ client_list \in Seq(Clients) /\ tmp_client_list \in Seq(Clients)
    /\ hung \subseteq Clients
    /\ stack \in Seq(Frame) /\ Len(stack) <= MaxDepth + 1

Init ==
    /\ state = [c \in Clients |-> "none"]
    /\ error = [c \in Clients |-> FALSE]
    /\ display_resource = [c \in Clients |-> FALSE]
    /\ objects = [c \in Clients |-> {}]
    /\ client_list = <<>>
    /\ tmp_client_list = <<>>
    /\ hung = {}
    /\ stack = <<>>

Called(call, c, at) ==
    [call |-> call, c |-> c, at |-> at, id |-> 0, next |-> None, all |-> {}]

Top == Last(stack)
Idle == stack = <<>>
Running(call, at) == ~Idle /\ Top.call = call /\ Top.at = at
InCallback == ~Idle /\ Top.at = "callback"
MayNest == InCallback /\ Len(stack) < MaxDepth
Push(f) == stack' = Append(stack, f)
Goto(at) == stack' = [stack EXCEPT ![Len(stack)].at = at]
Return == stack' = Front(stack)

\* A client is in a list once, or not at all.
Place(list, c) == CHOOSE k \in DOMAIN list : list[k] = c

Without(list, c) == IF c \in ToSet(list) THEN RemoveAt(list, Place(list, c)) ELSE list

Unlink(c) ==
    /\ client_list' = Without(client_list, c)
    /\ tmp_client_list' = Without(tmp_client_list, c)

\* Mutant: the walk goes on at the start of the list.
Wrapped(c) == LET k == Place(client_list, c) IN
    IF k < Len(client_list) THEN client_list[k + 1] ELSE Head(client_list)

Successor(c) == LET k == Place(client_list, c) IN
    IF k < Len(client_list) THEN client_list[k + 1] ELSE None

-----------------------------------------------------------------------------
\* The event loop and what it calls.

\* wl_client_create: the display object is made, then the client is listed.
Connect(c) ==
    /\ Idle
    /\ state[c] = "none"
    /\ state' = [state EXCEPT ![c] = "linked"]
    /\ objects' = [objects EXCEPT ![c] = {DisplayId}]
    /\ display_resource' = [display_resource EXCEPT ![c] = TRUE]
    /\ client_list' = Append(client_list, c)
    /\ UNCHANGED <<error, tmp_client_list, hung, stack>>

HangUp(c) ==
    /\ state[c] = "linked"
    /\ c \notin hung
    /\ hung' = hung \cup {c}
    /\ UNCHANGED <<state, error, display_resource, objects, lists, stack>>

\* Mutant: a second call for the same client is not noticed.
NeverReentrant(c) == FALSE

ReentrantCall(c) == state[c] = "dying"

\* wl_client_destroy, up to the emission of its signal.
DestroyClient(c) ==
    IF ReentrantCall(c)
    THEN /\ error' = [error EXCEPT ![c] = TRUE]
         /\ UNCHANGED <<state, lists, stack>>
    ELSE /\ state' = [state EXCEPT ![c] = "dying"]
         /\ Unlink(c)
         /\ Push(Called("destroy", c, "callback"))
         /\ UNCHANGED error

\* The socket has an error, is closed, or cannot be read or written.
ConnectionFails(c) ==
    /\ Idle
    /\ state[c] = "linked"
    /\ DestroyClient(c)
    /\ UNCHANGED <<display_resource, objects, hung>>

ConnectionData(c) ==
    /\ Idle
    /\ state[c] = "linked"
    /\ c \notin hung
    /\ Push(Called("data", c, "dispatch"))
    /\ UNCHANGED <<state, error, display_resource, objects, lists, hung>>

\* The next request is complete and valid: its handler is called.
Request ==
    /\ Running("data", "dispatch")
    /\ Goto("callback")
    /\ UNCHANGED <<state, error, display_resource, objects, lists, hung>>

MayReport(c) == ~error[c] /\ display_resource[c]

PostError(c) ==
    error' = [error EXCEPT ![c] = @ \/ MayReport(c)]

\* It is for no object, has no such method or cannot be demarshalled.
InvalidRequest ==
    /\ Running("data", "dispatch")
    /\ PostError(Top.c)
    /\ Goto("check")
    /\ UNCHANGED <<state, display_resource, objects, lists, hung>>

NoMoreRequests ==
    /\ Running("data", "dispatch")
    /\ Goto("check")
    /\ UNCHANGED <<state, error, display_resource, objects, lists, hung>>

HandlerReturns ==
    /\ Running("data", "callback")
    /\ Goto(IF error[Top.c] THEN "check" ELSE "dispatch")
    /\ UNCHANGED <<state, error, display_resource, objects, lists, hung>>

EndsClient(c) == error[c]

\* The callback of the source ends, with the client if there was an error.
DataReturns ==
    /\ Running("data", "check")
    /\ LET c == Top.c IN
        IF EndsClient(c)
        THEN /\ state' = [state EXCEPT ![c] = "dying"]
             /\ Unlink(c)
             /\ stack' = Append(Front(stack), Called("destroy", c, "callback"))
        ELSE /\ Return
             /\ UNCHANGED <<state, lists>>
    /\ UNCHANGED <<error, display_resource, objects, hung>>

Timer ==
    /\ Idle
    /\ Push(Called("timer", None, "callback"))
    /\ UNCHANGED <<state, error, display_resource, objects, lists, hung>>

TimerReturns ==
    /\ Running("timer", "callback")
    /\ Return
    /\ UNCHANGED <<state, error, display_resource, objects, lists, hung>>

-----------------------------------------------------------------------------
\* wl_client_destroy and remove_and_destroy_resource.

DestroySignalled ==
    /\ Running("destroy", "callback")
    /\ Goto("resources")
    /\ UNCHANGED <<state, error, display_resource, objects, lists, hung>>

Lowest(S) == CHOOSE i \in S : \A j \in S : i <= j

DestroyResource(c, id) ==
    Push([Called("resource", c, "callback") EXCEPT !.id = id])

NextResource ==
    /\ Running("destroy", "resources")
    /\ objects[Top.c] # {}
    /\ DestroyResource(Top.c, Lowest(objects[Top.c]))
    /\ UNCHANGED <<state, error, display_resource, objects, lists, hung>>

\* The source is removed and the connection closed; the late listeners are
\* called.
AllResourcesDestroyed ==
    /\ Running("destroy", "resources")
    /\ objects[Top.c] = {}
    /\ stack' = Append(Front(stack), Called("late", Top.c, "callback"))
    /\ UNCHANGED <<state, error, display_resource, objects, lists, hung>>

Free ==
    /\ Running("late", "callback")
    /\ state' = [state EXCEPT ![Top.c] = "freed"]
    /\ Return
    /\ UNCHANGED <<error, display_resource, objects, lists, hung>>

\* Mutant: the client keeps its pointer to the display's resource.
StaysSet(c, id) == display_resource[c]

StillSet(c, id) == display_resource[c] /\ id # DisplayId

\* The listeners have run; the destructor of the display object clears
\* display_resource.
ResourceSignalled ==
    /\ Running("resource", "callback")
    /\ Goto("remove")
    /\ display_resource' = [display_resource EXCEPT ![Top.c] = StillSet(Top.c, Top.id)]
    /\ UNCHANGED <<state, error, objects, lists, hung>>

\* Mutant: the resource stays in its client's map.
LeftInMap == objects[Top.c]

Removed == objects[Top.c] \ {Top.id}

\* delete_id goes through the display object, if it is still there, and
\* fails if there is no room for it.
ResourceRemoved ==
    /\ Running("resource", "remove")
    /\ objects' = [objects EXCEPT ![Top.c] = Removed]
    /\ \E fails \in BOOLEAN :
        error' = [error EXCEPT ![Top.c] =
                     @ \/ (fails /\ display_resource[Top.c])]
    /\ Return
    /\ UNCHANGED <<state, display_resource, lists, hung>>

-----------------------------------------------------------------------------
\* All clients at once.

FlushClients ==
    /\ Idle
    /\ client_list # <<>>
    /\ Push([Called("flush", Head(client_list), "loop")
             EXCEPT !.next = Successor(Head(client_list))])
    /\ UNCHANGED <<state, error, display_resource, objects, lists, hung>>

\* wl_connection_flush succeeds, or waits for the socket to be writable.
Flushed ==
    /\ Running("flush", "loop")
    /\ Goto("advance")
    /\ UNCHANGED <<state, error, display_resource, objects, lists, hung>>

FlushFails ==
    /\ Running("flush", "loop")
    /\ LET c == Top.c IN
        /\ state' = [state EXCEPT ![c] = "dying"]
        /\ Unlink(c)
        /\ stack' = Append([stack EXCEPT ![Len(stack)].at = "advance"],
                           Called("destroy", c, "callback"))
    /\ UNCHANGED <<error, display_resource, objects, hung>>

Advance ==
    /\ Running("flush", "advance")
    /\ IF Top.next = None
       THEN Return
       ELSE stack' = [stack EXCEPT ![Len(stack)] =
                [@ EXCEPT !.c = Top.next, !.at = "loop", !.next = Successor(Top.next)]]
    /\ UNCHANGED <<state, error, display_resource, objects, lists, hung>>

DestroyClients ==
    /\ Idle
    /\ client_list # <<>>
    /\ tmp_client_list' = client_list
    /\ client_list' = <<>>
    /\ Push([Called("destroy_all", None, "loop") EXCEPT !.all = ToSet(client_list)])
    /\ UNCHANGED <<state, error, display_resource, objects, hung>>

\* Mutant: one client may be left.
OneLeft == Len(tmp_client_list) <= 1

NoneLeft == tmp_client_list = <<>>

DestroyFirst ==
    /\ Running("destroy_all", "loop")
    /\ ~NoneLeft
    /\ DestroyClient(Head(tmp_client_list))
    /\ UNCHANGED <<display_resource, objects, hung>>

AllDestroyed ==
    /\ Running("destroy_all", "loop")
    /\ NoneLeft
    /\ Return
    /\ UNCHANGED <<state, error, display_resource, objects, lists, hung>>

-----------------------------------------------------------------------------
\* What the compositor calls from a callback.

\* It knows the clients that are not freed, and does not destroy one whose
\* request or resource it is called for; a client that is being destroyed
\* already it may destroy again.
MayDestroy(c) ==
    \/ state[c] = "dying"
    \/ /\ state[c] = "linked"
       /\ \A k \in DOMAIN stack : stack[k].call # "flush" => stack[k].c # c
       /\ Cautious => \A k \in DOMAIN stack : stack[k].next # c

CallDestroy(c) ==
    /\ MayNest
    /\ MayDestroy(c)
    /\ DestroyClient(c)
    /\ UNCHANGED <<display_resource, objects, hung>>

CallPostError(c) ==
    /\ InCallback
    /\ state[c] \in {"linked", "dying"}
    /\ PostError(c)
    /\ UNCHANGED <<state, display_resource, objects, lists, hung, stack>>

\* Any resource but the display object, and none that is being destroyed.
CallDestroyResource(c, id) ==
    /\ MayNest
    /\ state[c] \in {"linked", "dying"}
    /\ id \in objects[c] \cap Ids
    /\ \A k \in DOMAIN stack : <<stack[k].c, stack[k].id>> # <<c, id>>
    /\ DestroyResource(c, id)
    /\ UNCHANGED <<state, error, display_resource, objects, lists, hung>>

\* wl_resource_create in a request handler; an id in use ends the client.
CallCreate(id) ==
    /\ Running("data", "callback")
    /\ LET c == Top.c IN
        IF id \in objects[c]
        THEN /\ PostError(c)
             /\ UNCHANGED objects
        ELSE /\ objects' = [objects EXCEPT ![c] = @ \cup {id}]
             /\ UNCHANGED error
    /\ UNCHANGED <<state, display_resource, lists, hung, stack>>

Next ==
    \/ \E c \in Clients : Connect(c) \/ HangUp(c) \/ ConnectionFails(c) \/ ConnectionData(c)
    \/ Request \/ InvalidRequest \/ NoMoreRequests \/ HandlerReturns \/ DataReturns
    \/ Timer \/ TimerReturns
    \/ DestroySignalled \/ NextResource \/ AllResourcesDestroyed \/ Free
    \/ ResourceSignalled \/ ResourceRemoved
    \/ FlushClients \/ Flushed \/ FlushFails \/ Advance
    \/ DestroyClients \/ DestroyFirst \/ AllDestroyed
    \/ \E c \in Clients : CallDestroy(c) \/ CallPostError(c)
    \/ \E c \in Clients, id \in Ids : CallDestroyResource(c, id)
    \/ \E id \in Ids : CallCreate(id)

Spec == Init /\ [][Next]_vars

\* A callback returns, whatever it calls; the requests of a client that are
\* read at once come to an end; calls go on; and the event loop sees a
\* connection that is closed.  A client closes it when told of an error.
Fairness ==
    /\ SF_vars(HandlerReturns) /\ SF_vars(TimerReturns) /\ SF_vars(DestroySignalled)
    /\ SF_vars(ResourceSignalled) /\ SF_vars(Free) /\ SF_vars(NoMoreRequests)
    /\ WF_vars(DataReturns) /\ WF_vars(NextResource) /\ WF_vars(AllResourcesDestroyed)
    /\ WF_vars(ResourceRemoved) /\ WF_vars(Flushed \/ FlushFails) /\ WF_vars(Advance)
    /\ WF_vars(DestroyFirst) /\ WF_vars(AllDestroyed)
    /\ \A c \in Clients : WF_vars(error[c] /\ HangUp(c))
    /\ \A c \in Clients : SF_vars(c \in hung /\ ConnectionFails(c))

FairSpec == Spec /\ Fairness

-----------------------------------------------------------------------------

(* No call in progress goes on with a client that was freed meanwhile,     *)
(* whatever the callbacks destroy (wl_client_connection_data,              *)
(* wl_client_destroy, remove_and_destroy_resource).                        *)
CallsHaveClient == \A k \in DOMAIN stack :
    /\ stack[k].call = "data" => state[stack[k].c] = "linked"
    /\ stack[k].call = "resource" => state[stack[k].c] \in {"linked", "dying"}
    /\ stack[k].call \in {"destroy", "late"} => state[stack[k].c] = "dying"

(* The client that wl_display_flush_clients has saved as the next one is   *)
(* still in the list when it comes to it (wl_list_for_each_safe), if the   *)
(* listeners are Cautious.                                                 *)
NextStillListed == \A k \in DOMAIN stack :
    stack[k].call = "flush" /\ stack[k].next # None => state[stack[k].next] = "linked"

(* A resource is destroyed once, while it is in the map of its client, and *)
(* a client once: re-entrant calls of wl_client_destroy change nothing.    *)
DestroyedOnce == \A k \in DOMAIN stack :
    /\ stack[k].call = "resource" => stack[k].id \in objects[stack[k].c]
    /\ \A j \in DOMAIN stack :
        (j < k /\ stack[k].call \in {"destroy", "resource"}) =>
            [stack[j] EXCEPT !.at = stack[k].at] # stack[k]

(* The display object is the first to go with its client, so that no       *)
(* delete_id or error is posted through an object that is freed            *)
(* (remove_and_destroy_resource, wl_resource_post_error_vargs).            *)
NoPostThroughFreed == \A c \in Clients :
    display_resource[c] => state[c] \in {"linked", "dying"} /\ DisplayId \in objects[c]

(* When wl_display_destroy_clients returns, every client there was at its  *)
(* call is freed, even if the destroy listeners destroyed some of them     *)
(* out of turn.                                                            *)
AllAreDestroyed == [][AllDestroyed => \A c \in Top.all : state[c] = "freed"]_vars

(* The calls in progress fit together: what the event loop calls is the    *)
(* first, a client is destroyed by one call, which is not made from a      *)
(* callback of its own, and its display object goes first.                 *)
FrameFits(k) == LET f == stack[k] IN
    /\ f.call \notin {"timer", "destroy_all"} <=> f.c \in Clients
    /\ k # 1 => f.call \in {"destroy", "late", "resource"}
    /\ f.call = "data" => state[f.c] = "linked"
    /\ f.call = "resource" =>
        /\ k # 1 /\ state[f.c] \in {"linked", "dying"} /\ f.id \in objects[f.c]
        /\ f.at = "remove" /\ f.id = DisplayId => ~display_resource[f.c]
        /\ \A j \in 1 .. k - 1 : stack[j].call = "resource" =>
            <<stack[j].c, stack[j].id>> # <<f.c, f.id>>
    /\ f.call \in {"destroy", "late"} =>
        /\ k <= MaxDepth /\ state[f.c] = "dying"
        /\ \A j \in 1 .. k - 1 : stack[j].call # "flush" => stack[j].c # f.c
    /\ f.call = "late" => ~display_resource[f.c]
    /\ f.call = "flush" =>
        /\ f.at \in {"loop", "advance"}
        /\ f.at = "loop" => state[f.c] = "linked" /\ k = Len(stack)
        /\ f.next # None => state[f.next] = "linked" /\ f.next # f.c
    /\ f.call # "flush" => f.next = None
    /\ f.call = "destroy_all" =>
        client_list = <<>> /\ \A c \in f.all : state[c] # "none"

FramesFit == \A k \in DOMAIN stack : FrameFits(k)

(* The clients are in one of the two lists until a call destroys them; the *)
(* second list is there for wl_display_destroy_clients only.               *)
Once(list) == \A j, k \in DOMAIN list : list[j] = list[k] => j = k

ListsFit ==
    /\ Once(client_list) /\ Once(tmp_client_list)
    /\ \A c \in Clients :
        state[c] = "linked" <=> c \in ToSet(client_list) \cup ToSet(tmp_client_list)
    /\ \A c \in Clients : state[c] = "dying" =>
        \E k \in DOMAIN stack : stack[k].c = c /\ stack[k].call \in {"destroy", "late"}
    /\ tmp_client_list # <<>> => ~Idle /\ stack[1].call = "destroy_all"

Inv ==
    /\ TypeOK /\ CallsHaveClient /\ NextStillListed /\ DestroyedOnce /\ NoPostThroughFreed
    /\ FramesFit /\ ListsFit

(* A client with an error ends: after the request that caused it, or when  *)
(* it has closed its connection, as the error tells it to.                 *)
ErrorEndsClient == \A c \in Clients : error[c] ~> state[c] = "freed"

=============================================================================
