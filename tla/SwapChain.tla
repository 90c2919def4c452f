------------------------------ MODULE SwapChain ------------------------------
(***************************************************************************)
(* The frame buffers of zlinestatus: the shared-memory swap chain it draws  *)
(* into (ShmSwapChain over ShmPool), the object ids its Wayland connection  *)
(* hands out and takes back (Connection), the main loop that drives both,   *)
(* and the compositor on the other end of the socket.                       *)
(*                                                                         *)
(* The program renders every frame with the one size it was first           *)
(* configured with, so mapBuffer() takes its growth branch exactly once, on *)
(* the first frame, when there is nothing to unmap or destroy.  Memory is   *)
(* measured in slots of max_buffer_size bytes: slot s is the byte range     *)
(* that starts at s * max_buffer_size.  Only the ids of wl_buffer objects   *)
(* are tracked; every other object lives as long as the program.            *)
(***************************************************************************)
EXTENDS Integers, SequencesExt

CONSTANTS
  MaxSlots      \* slots whose byte offset still fits u31: (2^31 - 1) \div max_buffer_size

ASSUME MaxSlotsAssumption == MaxSlots \in Nat \ {0}

VARIABLES
  \* the main loop
  pc,               \* where the loop of main() stands
  pending,          \* the last poll() also found a status message to render
  status,           \* "running", or why the program or the connection ended
  \* ShmSwapChain and ShmPool
  memory_len,       \* length of the pool in slots; 0 before the pool exists
  next_frame_index, \* first slot never used so far
  free_buffers,     \* stack of slots to reuse, top last
  buffer_indices,   \* wl_buffer id |-> slot, for the buffers sent and not released
  mapped,           \* the slot in buffer_mappings: mapped and being drawn into
  \* Connection
  next_id,          \* next id never used so far
  free_ids,         \* stack of ids released by the compositor, top last
  objects,          \* ids the client still has an entry for
  \* the socket
  requests,         \* requests written and not yet handled by the compositor
  flushed,          \* how many of them flushSendBuffers() has put on the socket
  events,           \* events sent and not yet dispatched by the client
  received,         \* how many of them recvmsg() has put into recv_buffer
  \* the compositor
  resources,        \* wl_buffer id |-> slot, for the objects it has
  busy,             \* ids committed and not yet released: it may read their slots
  current,          \* id of the buffer last committed, or NoId
  pool_len          \* length of the pool it has mapped, in slots

loopVars   == <<pc, pending, status>>
chainVars  == <<memory_len, next_frame_index, free_buffers, buffer_indices, mapped>>
idVars     == <<next_id, free_ids, objects>>
serverVars == <<resources, busy, current, pool_len>>
vars == <<loopVars, chainVars, idVars, requests, flushed, events, received, serverVars>>

NoSlot == -1
NoId   == -1

(* resize stands for create_pool on the first frame; present stands for     *)
(* create_buffer, attach, damage and commit, written together by renderFrame *)
Resize(len)       == [op |-> "resize", len |-> len]
Present(id, slot) == [op |-> "present", id |-> id, slot |-> slot]
Destroy(id)       == [op |-> "destroy", id |-> id]
Release(id)       == [op |-> "release", id |-> id]
DeleteId(id)      == [op |-> "delete_id", id |-> id]

Without(f, x) == Restrict(f, DOMAIN f \ {x})
With(f, x, v) == [y \in DOMAIN f \cup {x} |-> IF y = x THEN v ELSE f[y]]

Init ==
  /\ pc = "render" /\ pending = TRUE /\ status = "running"
  /\ memory_len = 0 /\ next_frame_index = 0
  /\ free_buffers = <<>> /\ buffer_indices = << >> /\ mapped = NoSlot
  /\ next_id = 0 /\ free_ids = <<>> /\ objects = {}
  /\ requests = <<>> /\ flushed = 0 /\ events = <<>> /\ received = 0
  /\ resources = << >> /\ busy = {} /\ current = NoId /\ pool_len = 0
------------------------------------------------------------------------------
(* The main loop *)

\* poll(): the Wayland socket is served first, then the status socket; it
\* returns only when one of them is readable.
Poll(message) ==
  /\ status = "running" /\ pc = "poll"
  /\ events # <<>> \/ message
  /\ pc' = IF events # <<>> THEN "recv" ELSE "render"
  /\ pending' = message
  /\ UNCHANGED <<status, chainVars, idVars, requests, flushed, events, received, serverVars>>

\* Connection.recv(): flush what is queued, then read some of what has arrived.
Recv(n) ==
  /\ status = "running" /\ pc = "recv"
  /\ flushed' = Len(requests)
  /\ received' = n
  /\ pc' = "dispatch"
  /\ UNCHANGED <<pending, status, chainVars, idVars, requests, events, serverVars>>

\* After the last message of the batch the loop goes on to the status socket.
NextEvent ==
  /\ events' = Tail(events)
  /\ received' = received - 1
  /\ pc' = IF received > 1 THEN "dispatch" ELSE IF pending THEN "render" ELSE "poll"

\* Mutant: the slot of a released buffer is forgotten.
SlotLeaks(id) ==
  buffer_indices' = Without(buffer_indices, id) /\ UNCHANGED free_buffers

ReclaimSlot(id) ==
  IF id \in DOMAIN buffer_indices
    THEN /\ buffer_indices' = Without(buffer_indices, id)
         /\ free_buffers' = Append(free_buffers, buffer_indices[id])
    ELSE UNCHANGED <<buffer_indices, free_buffers>>

\* onWlBufferEvent(): the buffer is destroyed and its slot may be reused.  An
\* event for an id without an entry ends the program with UnknownObject.
DispatchRelease ==
  /\ status = "running" /\ pc = "dispatch" /\ Head(events).op = "release"
  /\ LET id == Head(events).id IN
       IF id \in objects
         THEN /\ NextEvent
              /\ requests' = Append(requests, Destroy(id))
              /\ ReclaimSlot(id)
              /\ UNCHANGED status
         ELSE /\ status' = "unknown_object"
              /\ UNCHANGED <<pc, events, received, requests, buffer_indices, free_buffers>>
  /\ UNCHANGED <<pending, memory_len, next_frame_index, mapped, idVars, flushed, serverVars>>

\* Mutant: an id is lost when free_ids cannot take it.
IdLeaks(id) ==
  /\ objects' = objects \ {id}
  /\ free_ids' = IF id = 0 THEN free_ids ELSE Append(free_ids, id)

\* Mutant: the id is freed and its entry stays.
EntryStays(id) ==
  free_ids' = Append(free_ids, id) /\ UNCHANGED objects

ReturnId(id) ==
  /\ objects' = objects \ {id}
  /\ free_ids' = Append(free_ids, id)

\* wl_display.delete_id: the entry goes and the id may be handed out again.
DispatchDeleteId ==
  /\ status = "running" /\ pc = "dispatch" /\ Head(events).op = "delete_id"
  /\ ReturnId(Head(events).id)
  /\ NextEvent
  /\ UNCHANGED <<pending, status, chainVars, next_id, requests, flushed, serverVars>>

\* Mutant: the slot stays in free_buffers when it is reused.
SlotNotPopped ==
  mapped' = Last(free_buffers) /\ UNCHANGED free_buffers

PopSlot ==
  /\ mapped' = Last(free_buffers)
  /\ free_buffers' = Front(free_buffers)

\* mapBuffer(), when a slot can be reused.
ReuseSlot ==
  /\ status = "running" /\ pc = "render"
  /\ free_buffers # <<>>
  /\ PopSlot
  /\ pc' = "send"
  /\ UNCHANGED <<pending, status, memory_len, next_frame_index, buffer_indices, idVars,
                 requests, flushed, events, received, serverVars>>

\* Mutant: the pool grows although a slot could be reused.
NeedsSlotEarly == free_buffers = <<>> \/ next_frame_index < MaxSlots

NeedsSlot == free_buffers = <<>>

\* Mutant: the new slot is numbered before the first one.
SlotOffByOne ==
  /\ mapped' = next_frame_index - 1
  /\ next_frame_index' = next_frame_index + 1

TakeNewSlot ==
  /\ mapped' = next_frame_index
  /\ next_frame_index' = next_frame_index + 1

\* mapBuffer(), when every slot is in use: the pool grows by one slot (on the
\* first frame the pool is created with one slot).
GrowPool ==
  /\ status = "running" /\ pc = "render"
  /\ NeedsSlot /\ next_frame_index < MaxSlots
  /\ TakeNewSlot
  /\ IF memory_len < next_frame_index + 1
       THEN /\ memory_len' = next_frame_index + 1
            /\ requests' = Append(requests, Resize(next_frame_index + 1))
       ELSE UNCHANGED <<memory_len, requests>>
  /\ pc' = "send"
  /\ UNCHANGED <<pending, status, free_buffers, buffer_indices, idVars,
                 flushed, events, received, serverVars>>

\* mapBuffer(), when the new pool size does not fit u31: the multiplication traps.
PoolOverflow ==
  /\ status = "running" /\ pc = "render"
  /\ NeedsSlot /\ next_frame_index >= MaxSlots
  /\ status' = "overflow"
  /\ UNCHANGED <<pc, pending, chainVars, idVars, requests, flushed, events, received, serverVars>>

\* connectionCreateId(): a released id if there is one, else a new one.
NewId == IF free_ids # <<>> THEN Last(free_ids) ELSE next_id

\* Mutant: the id stays in free_ids when it is handed out.
IdNotPopped ==
  /\ objects' = objects \cup {NewId}
  /\ next_id' = IF free_ids # <<>> THEN next_id ELSE next_id + 1
  /\ UNCHANGED free_ids

CreateId ==
  /\ objects' = objects \cup {NewId}
  /\ IF free_ids # <<>>
       THEN free_ids' = Front(free_ids) /\ UNCHANGED next_id
       ELSE next_id' = next_id + 1 /\ UNCHANGED free_ids

\* sendBuffer(), attach, damage, commit and the flush that end renderFrame().
SendFrame ==
  /\ status = "running" /\ pc = "send"
  /\ CreateId
  /\ buffer_indices' = With(buffer_indices, NewId, mapped)
  /\ mapped' = NoSlot
  /\ requests' = Append(requests, Present(NewId, mapped))
  /\ flushed' = Len(requests) + 1
  /\ pc' = "poll"
  /\ UNCHANGED <<pending, status, memory_len, next_frame_index, free_buffers,
                 events, received, serverVars>>
------------------------------------------------------------------------------
(* The compositor, as the Wayland protocol has it *)

\* The compositor handles a request that has reached it.  One that names an
\* object it does not have, an id already in use or memory outside the pool is
\* a protocol error, and ends the connection.
Handle(op) == status = "running" /\ flushed > 0 /\ Head(requests).op = op

NextRequest ==
  /\ requests' = Tail(requests)
  /\ flushed' = flushed - 1
  /\ UNCHANGED status

ProtocolError ==
  /\ status' = "protocol_error"
  /\ UNCHANGED <<requests, flushed, events, serverVars>>

ServerResize ==
  /\ Handle("resize")
  /\ LET len == Head(requests).len IN
       IF len >= pool_len
         THEN NextRequest /\ pool_len' = len /\ UNCHANGED <<events, resources, busy, current>>
         ELSE ProtocolError
  /\ UNCHANGED <<pc, pending, chainVars, idVars, received>>

ServerPresent ==
  /\ Handle("present")
  /\ LET r == Head(requests) IN
       IF r.id \notin DOMAIN resources /\ r.slot < pool_len
         THEN /\ NextRequest
              /\ resources' = With(resources, r.id, r.slot)
              /\ busy' = busy \cup {r.id}
              /\ current' = r.id
              /\ UNCHANGED <<events, pool_len>>
         ELSE ProtocolError
  /\ UNCHANGED <<pc, pending, chainVars, idVars, received>>

ServerDestroy ==
  /\ Handle("destroy")
  /\ LET id == Head(requests).id IN
       IF id \in DOMAIN resources
         THEN /\ NextRequest
              /\ resources' = Without(resources, id)
              /\ busy' = busy \ {id}
              /\ current' = IF current = id THEN NoId ELSE current
              /\ events' = Append(events, DeleteId(id))
              /\ UNCHANGED pool_len
         ELSE ProtocolError
  /\ UNCHANGED <<pc, pending, chainVars, idVars, received>>

\* It may release a committed buffer as soon as it has copied it, and has no
\* further use for one that a later commit replaced.
ServerRelease(id) ==
  /\ status = "running" /\ id \in busy
  /\ busy' = busy \ {id}
  /\ events' = Append(events, Release(id))
  /\ UNCHANGED <<loopVars, chainVars, idVars, requests, flushed, received, resources, current, pool_len>>
------------------------------------------------------------------------------
\* The program has ended, or its connection has.
Ended == status # "running" /\ UNCHANGED vars

ClientStep ==
  \/ \E message \in BOOLEAN : Poll(message)
  \/ \E n \in 1..Len(events) : Recv(n)
  \/ DispatchRelease \/ DispatchDeleteId
  \/ ReuseSlot \/ GrowPool \/ PoolOverflow \/ SendFrame

ServerStep == ServerResize \/ ServerPresent \/ ServerDestroy

Next == ClientStep \/ ServerStep \/ (\E id \in busy : ServerRelease(id)) \/ Ended

\* IdsBounded shows that the program never uses more ids than these.
Ids   == 0..(2 * MaxSlots - 1)
Slots == 0..(MaxSlots - 1)

\* poll() returns while there is an event to read, and may wait forever for a
\* message; the compositor reads its socket, and releases every buffer that it
\* no longer shows.
Fairness ==
  /\ WF_vars((pc = "poll" => events # <<>>) /\ ClientStep)
  /\ WF_vars(ServerStep)
  /\ \A id \in Ids : WF_vars(id # current /\ ServerRelease(id))

Spec == Init /\ [][Next]_vars
LiveSpec == Spec /\ Fairness
------------------------------------------------------------------------------
Requests == [op : {"resize"}, len : Nat] \cup [op : {"present"}, id : Nat, slot : Nat]
              \cup [op : {"destroy"}, id : Nat]
Events   == [op : {"release", "delete_id"}, id : Nat]

IsIdMap(f) == DOMAIN f \subseteq Nat /\ \A id \in DOMAIN f : f[id] \in Nat

\* Every variable has its type.
TypeOK ==
  /\ pc \in {"render", "send", "poll", "recv", "dispatch"}
  /\ pending \in BOOLEAN
  /\ status \in {"running", "unknown_object", "overflow", "protocol_error"}
  /\ memory_len \in Nat /\ next_frame_index \in Nat
  /\ free_buffers \in Seq(Nat) /\ IsIdMap(buffer_indices) /\ mapped \in Nat \cup {NoSlot}
  /\ next_id \in Nat /\ free_ids \in Seq(Nat) /\ objects \subseteq Nat
  /\ requests \in Seq(Requests) /\ flushed \in 0..Len(requests)
  /\ events \in Seq(Events) /\ received \in 0..Len(events)
  /\ IsIdMap(resources) /\ busy \subseteq Nat /\ current \in Nat \cup {NoId} /\ pool_len \in Nat

\* A slot is with the compositor from the moment its buffer is presented until
\* the compositor says that it has finished reading.
Presented(slot) ==
  \/ \E i \in DOMAIN requests : requests[i].op = "present" /\ requests[i].slot = slot
  \/ \E id \in busy : resources[id] = slot

\* Slots change hands as BufferOwnership says: by the compositor's account, which
\* runs ahead of what the program knows.
Owner == [slot \in Slots |-> IF slot = mapped THEN "drawing"
                             ELSE IF Presented(slot) THEN "compositor" ELSE "program"]

Ownership == INSTANCE BufferOwnership WITH owner <- Owner
OwnershipSpec == Ownership!Spec

\* The slot being drawn into is never one the compositor may still read, or is
\* about to: no frame on the screen is torn (mapBuffer, onWlBufferEvent).
NoTornFrame == mapped # NoSlot => ~Presented(mapped)

\* The free slots, the mapped slot and the slots of the buffers not released
\* are all the slots ever used, and no slot is two of these: none is leaked and
\* none is handed out twice (mapBuffer, sendBuffer, onWlBufferEvent).
SlotsAccounted ==
  LET free  == ToSet(free_buffers)
      drawn == {mapped} \ {NoSlot}
      sent  == {buffer_indices[id] : id \in DOMAIN buffer_indices}
  IN /\ free \cup drawn \cup sent = 0..(next_frame_index - 1)
     /\ free \cap drawn = {} /\ free \cap sent = {} /\ drawn \cap sent = {}
     /\ IsInjective(free_buffers) /\ IsInjective(buffer_indices)

\* Neither side ever names an object the other does not have: the client's ids,
\* pool sizes and buffers are valid when the compositor handles them, and every
\* event finds the entry of its object (connectionCreateId, dispatchMessages).
ConnectionSurvives == status \notin {"unknown_object", "protocol_error"}

\* An id handed out again is one that no request or event on the socket names
\* and no object of the compositor has (connectionCreateId, delete_id).
FreshIds ==
  \A k \in DOMAIN free_ids :
    /\ free_ids[k] \notin objects \cup DOMAIN resources
    /\ \A i \in DOMAIN requests : requests[i].op # "resize" => requests[i].id # free_ids[k]
    /\ \A i \in DOMAIN events : events[i].id # free_ids[k]

\* The ids in use never outnumber two for each slot, one of a buffer that is
\* sent and one of a destroyed buffer that the server has not yet forgotten:
\* the object table stays small however long the program runs.
IdsBounded == next_id <= 2 * next_frame_index

\* The pool grows only when the compositor has not given back any slot: every
\* slot so far is presented, or its release is on the socket (mapBuffer).
PoolGrowsOnlyWhenAllOut ==
  [][next_frame_index' > next_frame_index =>
       \A slot \in 0..(next_frame_index - 1) :
         \/ Presented(slot)
         \/ \E i \in DOMAIN events : /\ events[i].op = "release"
                                     /\ buffer_indices[events[i].id] = slot]_vars

Superseded(slot) == \E id \in busy \ {current} : resources[id] = slot

\* The slot of a frame that a later one replaced comes back to the program,
\* unless the program ends first (onWlBufferEvent).
SlotsComeBack ==
  \A slot \in Slots :
    Superseded(slot) ~> (slot \in ToSet(free_buffers) \/ status # "running")

\* While the program keeps rendering, the id of a destroyed buffer comes back
\* to free_ids: a destroy request is flushed at the latest with the next frame,
\* so the server forgets the id and says so (recv, flushSendBuffers, delete_id).
IdsComeBack ==
  \A id \in Ids :
    []<>(pc = "send") => (id \in objects \ DOMAIN buffer_indices ~> id \in ToSet(free_ids))

\* What the program has used comes back to it, slots and ids (onWlBufferEvent,
\* delete_id).
Recovers == SlotsComeBack /\ IdsComeBack
------------------------------------------------------------------------------
(* The inductive invariant behind the safety properties *)

\* Every id on the socket is in the state its message says it is in.
PresentsOK ==
  \A i \in DOMAIN requests : requests[i].op = "present" =>
    /\ requests[i].id \in DOMAIN buffer_indices
    /\ buffer_indices[requests[i].id] = requests[i].slot
    /\ requests[i].id \notin DOMAIN resources

DestroysOK ==
  \A i \in DOMAIN requests : requests[i].op = "destroy" =>
    /\ requests[i].id \in DOMAIN resources
    /\ requests[i].id \notin DOMAIN buffer_indices

ReleasesOK ==
  \A i \in DOMAIN events : events[i].op = "release" =>
    /\ events[i].id \in DOMAIN buffer_indices
    /\ events[i].id \in DOMAIN resources
    /\ events[i].id \notin busy

DeleteIdsOK ==
  \A i \in DOMAIN events : events[i].op = "delete_id" =>
    /\ events[i].id \in objects
    /\ events[i].id \notin DOMAIN buffer_indices
    /\ events[i].id \notin DOMAIN resources

\* No two messages one way name the same id.
OneMessagePerId ==
  /\ \A i, j \in DOMAIN requests :
       requests[i].op # "resize" /\ requests[j].op # "resize" /\ i # j
         => requests[i].id # requests[j].id
  /\ \A i, j \in DOMAIN events : i # j => events[i].id # events[j].id

IdsOK ==
  /\ DOMAIN buffer_indices \subseteq objects
  /\ DOMAIN resources \subseteq objects
  /\ \A id \in objects : id < next_id
  /\ \A i \in DOMAIN free_ids : free_ids[i] < next_id /\ free_ids[i] \notin objects
  /\ \A i, j \in DOMAIN free_ids : i # j => free_ids[i] # free_ids[j]
  /\ \A id \in busy : /\ id \in DOMAIN buffer_indices /\ id \in DOMAIN resources
                       /\ resources[id] = buffer_indices[id]

\* A slot is free, being drawn into, or in a buffer that is sent, and never two.
SlotsOK ==
  /\ \A i \in DOMAIN free_buffers : free_buffers[i] < next_frame_index
  /\ \A i, j \in DOMAIN free_buffers : i # j => free_buffers[i] # free_buffers[j]
  /\ \A id \in DOMAIN buffer_indices :
       /\ buffer_indices[id] < next_frame_index
       /\ \A i \in DOMAIN free_buffers : free_buffers[i] # buffer_indices[id]
       /\ buffer_indices[id] # mapped
       /\ \A other \in DOMAIN buffer_indices :
            buffer_indices[other] = buffer_indices[id] => other = id
  /\ \A i \in DOMAIN free_buffers : free_buffers[i] # mapped
  /\ mapped < next_frame_index
  /\ mapped # NoSlot <=> pc = "send"

\* No slot and no buffer is lost: every slot so far is free, drawn into or in a
\* buffer that is sent, and every such buffer is on its way to the compositor,
\* with it, or on its way back.
SlotsCovered ==
  \A slot \in 0..(next_frame_index - 1) :
    \/ slot = mapped
    \/ \E i \in DOMAIN free_buffers : free_buffers[i] = slot
    \/ \E id \in DOMAIN buffer_indices : buffer_indices[id] = slot

BuffersCovered ==
  \A id \in DOMAIN buffer_indices :
    \/ \E i \in DOMAIN requests : requests[i].op = "present" /\ requests[i].id = id
    \/ id \in busy
    \/ \E i \in DOMAIN events : events[i].op = "release" /\ events[i].id = id

\* The pool the compositor has, or will have when it reaches request i.
Reserved(slot, i) ==
  slot < pool_len \/ \E j \in DOMAIN requests : j < i /\ requests[j].op = "resize" /\ slot < requests[j].len

PoolOK ==
  /\ memory_len = next_frame_index
  /\ \A i \in DOMAIN requests : requests[i].op = "resize" =>
       /\ pool_len <= requests[i].len
       /\ requests[i].len <= memory_len
       /\ \A j \in DOMAIN requests : i < j /\ requests[j].op = "resize" => requests[i].len <= requests[j].len
  /\ \A i \in DOMAIN requests : requests[i].op = "present" => Reserved(requests[i].slot, i)
  /\ pool_len <= memory_len
  /\ \A slot \in 0..(memory_len - 1) : Reserved(slot, Len(requests) + 1)

\* The program and the compositor agree about every id, slot and length
\* wherever the messages between them have got to.
Inv ==
  /\ TypeOK /\ ConnectionSurvives
  /\ PresentsOK /\ DestroysOK /\ ReleasesOK /\ DeleteIdsOK /\ OneMessagePerId
  /\ IdsOK /\ SlotsOK /\ SlotsCovered /\ BuffersCovered /\ PoolOK
  /\ pc = "dispatch" => received > 0

\* The ids of destroyed buffers that the program has not yet heard to be forgotten.
Awaited == objects \ DOMAIN buffer_indices

\* Every id so far is in the table or to be handed out again, and one that is awaited
\* is in a request or in an event.
IdsCovered ==
  /\ \A id \in 0..(next_id - 1) : id \in objects \/ \E i \in DOMAIN free_ids : free_ids[i] = id
  /\ \A id \in Awaited :
       \/ \E i \in DOMAIN requests : requests[i].op = "destroy" /\ requests[i].id = id
       \/ \E i \in DOMAIN events : events[i].op = "delete_id" /\ events[i].id = id

\* The one buffer's destruction is requested before the other is presented, and the
\* program hears that it is forgotten before it hears that the other is released.
DestroyedFirst(gone, id, queue) ==
  \A i \in DOMAIN queue : queue[i].op = "destroy" /\ queue[i].id = gone =>
    \E j \in DOMAIN queue : i < j /\ queue[j].op = "present" /\ queue[j].id = id
ForgottenFirst(gone, id, queue) ==
  \A i, j \in DOMAIN queue :
    queue[i].id = gone /\ queue[j].op = "release" /\ queue[j].id = id => i < j

\* The slots that the destroyed buffers had: two never had the same one, since the
\* buffer that has it now is not released before the last one is forgotten.
FollowSlots(slot) ==
  /\ slot \in [Awaited -> 0..(next_frame_index - 1)]
  /\ \A gone, other \in Awaited : slot[gone] = slot[other] => gone = other
  /\ \A gone \in Awaited, id \in DOMAIN buffer_indices :
       buffer_indices[id] = slot[gone] => DestroyedFirst(gone, id, requests) /\ ForgottenFirst(gone, id, events)

\* Each slot keeps at most one id besides that of its buffer: the ids of destroyed
\* buffers come back before they pile up, however late the compositor answers
\* (onWlBufferEvent, connectionCreateId, delete_id).
IdsFollowSlots == IdsCovered /\ \E slot \in [Awaited -> 0..(next_frame_index - 1)] : FollowSlots(slot)
==============================================================================
