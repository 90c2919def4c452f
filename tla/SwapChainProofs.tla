--------------------------- MODULE SwapChainProofs ---------------------------
(***************************************************************************)
(* Proofs about SwapChain, for every MaxSlots: its types, its inductive     *)
(* invariant Inv and the safety properties that follow from it, and that it *)
(* implements BufferOwnership.                                             *)
(***************************************************************************)
EXTENDS SwapChain, SequenceTheorems, FiniteSetTheorems, TLAPS

(* Facts about the messages, the queues and the id tables *)

\* A map from ids to slots stays one when an id is taken out.
LEMMA IdMapWithout ==
  ASSUME NEW f, NEW x, IsIdMap(f)
  PROVE  /\ IsIdMap(Without(f, x))
         /\ DOMAIN Without(f, x) = DOMAIN f \ {x}
         /\ \A y \in DOMAIN f \ {x} : Without(f, x)[y] = f[y]
BY DEF IsIdMap, Without, Restrict

\* And when an id is put in.
LEMMA IdMapWith ==
  ASSUME NEW f, NEW x \in Nat, NEW v \in Nat, IsIdMap(f)
  PROVE  /\ IsIdMap(With(f, x, v))
         /\ DOMAIN With(f, x, v) = DOMAIN f \cup {x}
         /\ With(f, x, v)[x] = v
         /\ \A y \in DOMAIN f \ {x} : With(f, x, v)[y] = f[y]
BY DEF IsIdMap, With

\* The requests the client makes.
LEMMA RequestTypes ==
  /\ \A len \in Nat : Resize(len) \in Requests
  /\ \A id, slot \in Nat : Present(id, slot) \in Requests
  /\ \A id \in Nat : Destroy(id) \in Requests
BY DEF Requests, Resize, Present, Destroy

\* The events the compositor makes.
LEMMA EventTypes ==
  \A id \in Nat : Release(id) \in Events /\ DeleteId(id) \in Events
BY DEF Events, Release, DeleteId

\* What a request has, by its kind.
LEMMA RequestFields ==
  ASSUME NEW r \in Requests
  PROVE  /\ r.op \in {"resize", "present", "destroy"}
         /\ r.op = "resize"  => r.len \in Nat
         /\ r.op = "present" => r.id \in Nat /\ r.slot \in Nat
         /\ r.op = "destroy" => r.id \in Nat
BY DEF Requests

\* What an event has.
LEMMA EventFields ==
  ASSUME NEW e \in Events
  PROVE  e.op \in {"release", "delete_id"} /\ e.id \in Nat
BY DEF Events

\* A sequence with one element more.
LEMMA AppendFacts ==
  ASSUME NEW S, NEW q \in Seq(S), NEW x \in S
  PROVE  /\ Append(q, x) \in Seq(S)
         /\ Len(Append(q, x)) = Len(q) + 1
         /\ DOMAIN Append(q, x) = 1..(Len(q) + 1)
         /\ Append(q, x)[Len(q) + 1] = x
         /\ \A i \in 1..Len(q) : Append(q, x)[i] = q[i]
OBVIOUS

\* A sequence without its first element.
LEMMA TailFacts ==
  ASSUME NEW S, NEW q \in Seq(S), q # <<>>
  PROVE  /\ Tail(q) \in Seq(S)
         /\ Len(Tail(q)) = Len(q) - 1
         /\ DOMAIN Tail(q) = 1..(Len(q) - 1)
         /\ \A i \in 1..(Len(q) - 1) : Tail(q)[i] = q[i + 1]
         /\ Head(q) \in S /\ Head(q) = q[1] /\ 1 \in DOMAIN q /\ Len(q) >= 1
OBVIOUS

\* A sequence without its last element.
LEMMA FrontFacts ==
  ASSUME NEW S, NEW q \in Seq(S), q # <<>>
  PROVE  /\ Front(q) \in Seq(S)
         /\ Len(Front(q)) = Len(q) - 1
         /\ DOMAIN Front(q) = 1..(Len(q) - 1)
         /\ \A i \in 1..(Len(q) - 1) : Front(q)[i] = q[i]
         /\ Last(q) \in S /\ Last(q) = q[Len(q)] /\ Len(q) \in DOMAIN q
<1>1. Len(q) \in Nat \ {0} /\ DOMAIN q = 1..Len(q)
  OBVIOUS
<1>2. \A i \in 1..(Len(q) - 1) : q[i] \in S
  BY <1>1
<1>3. /\ SubSeq(q, 1, Len(q) - 1) \in Seq(S)
      /\ Len(SubSeq(q, 1, Len(q) - 1)) = Len(q) - 1
      /\ \A i \in 1..(Len(q) - 1) : SubSeq(q, 1, Len(q) - 1)[i] = q[i]
  BY <1>1, <1>2, SubSeqProperties
<1> QED
  BY <1>1, <1>3 DEF Front, Last
------------------------------------------------------------------------------
(* Type correctness *)

\* What TypeOK needs to be inductive: a slot is mapped exactly between mapBuffer
\* and sendBuffer, and the dispatcher runs only while it has a message.
TypeInv ==
  /\ TypeOK
  /\ mapped # NoSlot <=> pc = "send"
  /\ pc = "dispatch" => received > 0

\* The types hold at first.
LEMMA TypeInit == Init => TypeInv
BY DEF Init, TypeInv, TypeOK, IsIdMap, NoSlot, NoId

\* The dispatcher always has an event at the head of the queue.
LEMMA EventAtHead ==
  ASSUME TypeInv, pc = "dispatch"
  PROVE  /\ events \in Seq(Events) /\ events # <<>>
         /\ Head(events) \in Events /\ Head(events) = events[1]
         /\ Len(events) \in Nat \ {0} /\ received \in 1..Len(events)
<1>1. events \in Seq(Events) /\ received \in 1..Len(events)
  BY DEF TypeInv, TypeOK
<1>2. events # <<>>
  BY <1>1
<1> QED
  BY <1>1, <1>2, TailFacts

\* A request that has reached the compositor is at the head of the queue.
LEMMA RequestAtHead ==
  ASSUME TypeInv, flushed > 0
  PROVE  /\ requests \in Seq(Requests) /\ requests # <<>>
         /\ Head(requests) \in Requests /\ Head(requests) = requests[1]
         /\ Len(requests) \in Nat \ {0} /\ flushed \in 1..Len(requests)
<1>1. requests \in Seq(Requests) /\ flushed \in 1..Len(requests)
  BY DEF TypeInv, TypeOK
<1>2. requests # <<>>
  BY <1>1
<1> QED
  BY <1>1, <1>2, TailFacts

\* Consuming an event leaves the queue and the batch well formed.
LEMMA NextEventTypes ==
  ASSUME TypeInv, pc = "dispatch", NextEvent
  PROVE  /\ events' \in Seq(Events) /\ received' \in 0..Len(events')
         /\ pc' \in {"dispatch", "render", "poll"}
         /\ pc' = "dispatch" => received' > 0
BY EventAtHead, TailFacts DEF NextEvent

\* Taking a request keeps the queue's types.
LEMMA NextRequestTypes ==
  ASSUME TypeInv, flushed > 0, NextRequest
  PROVE  requests' \in Seq(Requests) /\ flushed' \in 0..Len(requests')
BY RequestAtHead, TailFacts DEF NextRequest

\* The id that the next object gets is a number, new or taken back.
LEMMA NewIdTypes ==
  ASSUME TypeInv, CreateId
  PROVE  /\ NewId \in Nat
         /\ objects' = objects \cup {NewId}
         /\ next_id' \in Nat /\ free_ids' \in Seq(Nat)
<1>1. CASE free_ids # <<>>
  BY <1>1, FrontFacts, ZenonT(60) DEF TypeInv, TypeOK, NewId, CreateId
<1>2. CASE free_ids = <<>>
  BY <1>2 DEF TypeInv, TypeOK, NewId, CreateId
<1> QED
  BY <1>1, <1>2

\* A message sent keeps its queue well formed, and what has been read or
\* flushed of it.
LEMMA EventSent ==
  ASSUME TypeInv, NEW e \in Events, events' = Append(events, e), UNCHANGED received
  PROVE  events' \in Seq(Events) /\ received' \in 0..Len(events')
<1>1. events \in Seq(Events) /\ received \in 0..Len(events)
  BY DEF TypeInv, TypeOK
<1> QED
  BY <1>1, AppendFacts

\* So does writing one.
LEMMA RequestWritten ==
  ASSUME TypeInv, NEW r \in Requests, requests' = Append(requests, r)
  PROVE  /\ requests' \in Seq(Requests) /\ Len(requests') = Len(requests) + 1
         /\ UNCHANGED flushed => flushed' \in 0..Len(requests')
<1>1. requests \in Seq(Requests) /\ flushed \in 0..Len(requests)
  BY DEF TypeInv, TypeOK
<1> QED
  BY <1>1, AppendFacts

\* Every step keeps the types.
LEMMA TypeNext == TypeInv /\ [Next]_vars => TypeInv'
<1> SUFFICES ASSUME TypeInv, [Next]_vars PROVE TypeInv'
  OBVIOUS
<1> USE DEF TypeInv
<1>1. ASSUME NEW message \in BOOLEAN, Poll(message) PROVE TypeInv'
  BY <1>1 DEF TypeOK, Poll, chainVars, idVars, serverVars
<1>2. ASSUME NEW n \in 1..Len(events), Recv(n) PROVE TypeInv'
  BY <1>2 DEF TypeOK, Recv, chainVars, idVars, serverVars
<1>3. CASE DispatchRelease
  <2> DEFINE id == Head(events).id
  <2>0. id \in Nat /\ pc = "dispatch"
    BY <1>3, EventAtHead, EventFields DEF DispatchRelease
  <2>1. CASE id \in objects
    <3>1. /\ NextEvent /\ ReclaimSlot(id)
          /\ requests' = Append(requests, Destroy(id))
          /\ UNCHANGED <<status, pending, memory_len, next_frame_index, mapped, idVars, flushed, serverVars>>
      BY <1>3, <2>1 DEF DispatchRelease
    <3>2. IsIdMap(buffer_indices') /\ free_buffers' \in Seq(Nat)
      <4>1. CASE id \in DOMAIN buffer_indices
        <5>1. buffer_indices[id] \in Nat
          BY <4>1 DEF TypeOK, IsIdMap
        <5>2. IsIdMap(Without(buffer_indices, id))
          BY IdMapWithout DEF TypeOK
        <5>3. /\ buffer_indices' = Without(buffer_indices, id)
              /\ free_buffers' = Append(free_buffers, buffer_indices[id])
          BY <3>1, <4>1 DEF ReclaimSlot
        <5> QED
          BY <5>1, <5>2, <5>3, AppendFacts DEF TypeOK
      <4>2. CASE id \notin DOMAIN buffer_indices
        BY <3>1, <4>2 DEF TypeOK, ReclaimSlot
      <4> QED
        BY <4>1, <4>2
    <3>3. requests' \in Seq(Requests) /\ flushed' \in 0..Len(requests')
      <4>1. Destroy(id) \in Requests
        BY <2>0, RequestTypes
      <4> QED
        BY <3>1, <4>1, RequestWritten
    <3> QED
      BY <2>0, <3>1, <3>2, <3>3, NextEventTypes DEF TypeOK, idVars, serverVars
  <2>2. CASE id \notin objects
    BY <1>3, <2>2 DEF TypeOK, DispatchRelease, idVars, serverVars
  <2> QED
    BY <2>1, <2>2
<1>4. CASE DispatchDeleteId
  <2>1. Head(events).id \in Nat /\ pc = "dispatch"
    BY <1>4, EventAtHead, EventFields DEF DispatchDeleteId
  <2>2. objects' \subseteq Nat /\ free_ids' \in Seq(Nat)
    BY <1>4, <2>1, AppendFacts DEF TypeOK, DispatchDeleteId, ReturnId
  <2> QED
    BY <1>4, <2>1, <2>2, NextEventTypes DEF TypeOK, DispatchDeleteId, chainVars, serverVars
<1>5. CASE ReuseSlot
  <2>1. mapped' \in Nat /\ free_buffers' \in Seq(Nat)
    BY <1>5, FrontFacts DEF TypeOK, ReuseSlot, PopSlot
  <2> QED
    BY <1>5, <2>1 DEF TypeOK, ReuseSlot, idVars, serverVars, NoSlot
<1>6. CASE GrowPool
  <2>1. requests' \in Seq(Requests) /\ flushed' \in 0..Len(requests') /\ memory_len' \in Nat
    <3>1. CASE memory_len < next_frame_index + 1
      <4>1. requests' = Append(requests, Resize(next_frame_index + 1)) /\ UNCHANGED flushed
        BY <1>6, <3>1 DEF GrowPool
      <4>2. Resize(next_frame_index + 1) \in Requests
        BY RequestTypes DEF TypeOK
      <4> QED
        BY <1>6, <3>1, <4>1, <4>2, RequestWritten DEF TypeOK, GrowPool
    <3>2. CASE ~(memory_len < next_frame_index + 1)
      BY <1>6, <3>2 DEF TypeOK, GrowPool
    <3> QED
      BY <3>1, <3>2
  <2> QED
    BY <1>6, <2>1 DEF TypeOK, GrowPool, TakeNewSlot, idVars, serverVars, NoSlot
<1>7. CASE PoolOverflow
  BY <1>7 DEF TypeOK, PoolOverflow, chainVars, idVars, serverVars
<1>8. CASE SendFrame
  <2>1. mapped \in Nat
    BY <1>8 DEF TypeOK, SendFrame
  <2>2. NewId \in Nat /\ objects' \subseteq Nat /\ next_id' \in Nat /\ free_ids' \in Seq(Nat)
    BY <1>8, NewIdTypes DEF TypeOK, SendFrame
  <2>3. IsIdMap(buffer_indices')
    BY <1>8, <2>1, <2>2, IdMapWith DEF TypeOK, SendFrame
  <2>4. requests' \in Seq(Requests) /\ flushed' \in 0..Len(requests')
    <3>1. Present(NewId, mapped) \in Requests
      BY <2>1, <2>2, RequestTypes
    <3> QED
      BY <1>8, <3>1, RequestWritten DEF TypeOK, SendFrame
  <2> QED
    BY <1>8, <2>2, <2>3, <2>4 DEF TypeOK, SendFrame, serverVars
<1>9. CASE ServerResize
  <2>1. flushed > 0 /\ Head(requests).len \in Nat
    BY <1>9, RequestAtHead, RequestFields DEF ServerResize, Handle
  <2>2. CASE Head(requests).len >= pool_len
    BY <1>9, <2>1, <2>2, NextRequestTypes
       DEF TypeOK, ServerResize, NextRequest, chainVars, idVars
  <2>3. CASE ~(Head(requests).len >= pool_len)
    BY <1>9, <2>3 DEF TypeOK, ServerResize, ProtocolError, chainVars, idVars, serverVars
  <2> QED
    BY <2>2, <2>3
<1>10. CASE ServerPresent
  <2> DEFINE r == Head(requests)
  <2>1. flushed > 0 /\ r.id \in Nat /\ r.slot \in Nat
    BY <1>10, RequestAtHead, RequestFields DEF ServerPresent, Handle
  <2>2. CASE r.id \notin DOMAIN resources /\ r.slot < pool_len
    <3>1. IsIdMap(With(resources, r.id, r.slot))
      BY <2>1, IdMapWith DEF TypeOK
    <3> QED
      BY <1>10, <2>1, <2>2, <3>1, NextRequestTypes
         DEF TypeOK, ServerPresent, NextRequest, chainVars, idVars
  <2>3. CASE ~(r.id \notin DOMAIN resources /\ r.slot < pool_len)
    BY <1>10, <2>3 DEF TypeOK, ServerPresent, ProtocolError, chainVars, idVars, serverVars
  <2> QED
    BY <2>2, <2>3
<1>11. CASE ServerDestroy
  <2> DEFINE id == Head(requests).id
  <2>1. flushed > 0 /\ id \in Nat
    BY <1>11, RequestAtHead, RequestFields DEF ServerDestroy, Handle
  <2>2. CASE id \in DOMAIN resources
    <3>1. IsIdMap(Without(resources, id))
      BY IdMapWithout DEF TypeOK
    <3>2. events' \in Seq(Events) /\ received' \in 0..Len(events')
      <4>1. DeleteId(id) \in Events
        BY <2>1, EventTypes
      <4> QED
        BY <1>11, <2>2, <4>1, EventSent DEF ServerDestroy
    <3> QED
      BY <1>11, <2>1, <2>2, <3>1, <3>2, NextRequestTypes
         DEF TypeOK, ServerDestroy, NextRequest, chainVars, idVars
  <2>3. CASE id \notin DOMAIN resources
    BY <1>11, <2>3 DEF TypeOK, ServerDestroy, ProtocolError, chainVars, idVars, serverVars
  <2> QED
    BY <2>2, <2>3
<1>12. ASSUME NEW id \in busy, ServerRelease(id) PROVE TypeInv'
  <2>1. events' \in Seq(Events) /\ received' \in 0..Len(events')
    <3>1. Release(id) \in Events
      BY EventTypes DEF TypeOK
    <3> QED
      BY <1>12, <3>1, EventSent DEF ServerRelease
  <2> QED
    BY <1>12, <2>1 DEF TypeOK, ServerRelease, loopVars, chainVars, idVars
<1>13. CASE UNCHANGED vars
  BY <1>13 DEF TypeOK, vars, loopVars, chainVars, idVars, serverVars
<1> QED
  BY <1>1, <1>2, <1>3, <1>4, <1>5, <1>6, <1>7, <1>8, <1>9, <1>10, <1>11, <1>12, <1>13
     DEF Next, ClientStep, ServerStep, Ended

\* Every variable keeps its type in every behaviour (SwapChain.TypeOK).
THEOREM TypeCorrect == Spec => []TypeOK
<1>1. TypeInv => TypeOK
  BY DEF TypeInv
<1> QED
  BY <1>1, TypeInit, TypeNext, PTL DEF Spec

------------------------------------------------------------------------------
(* Inv is inductive, and the safety properties that follow from it *)

\* The inductive invariant includes the types.
LEMMA InvTypes == Inv => TypeInv
BY DEF Inv, TypeInv, SlotsOK

\* The lengths and elements of the queues.
LEMMA Queues ==
  ASSUME TypeOK
  PROVE  /\ Len(requests) \in Nat /\ DOMAIN requests = 1..Len(requests)
         /\ \A i \in DOMAIN requests : requests[i] \in Requests
         /\ Len(events) \in Nat /\ DOMAIN events = 1..Len(events)
         /\ \A i \in DOMAIN events : events[i] \in Events
         /\ Len(free_buffers) \in Nat /\ DOMAIN free_buffers = 1..Len(free_buffers)
         /\ \A i \in DOMAIN free_buffers : free_buffers[i] \in Nat
         /\ Len(free_ids) \in Nat /\ DOMAIN free_ids = 1..Len(free_ids)
         /\ \A i \in DOMAIN free_ids : free_ids[i] \in Nat
BY DEF TypeOK

\* An event handled leaves those behind it, a request written joins the end.
LEMMA EventsAfter ==
  ASSUME TypeInv, pc = "dispatch", NextEvent
  PROVE  /\ 1 \in DOMAIN events /\ events[1] = Head(events)
         /\ \A i \in DOMAIN events' :
              /\ i \in Nat \ {0} /\ i + 1 \in DOMAIN events
              /\ events'[i] = events[i + 1]
         /\ \A i \in DOMAIN events : i # 1 => i - 1 \in DOMAIN events' /\ events'[i - 1] = events[i]
<1>1. events \in Seq(Events) /\ events # <<>> /\ events' = Tail(events)
  BY EventAtHead DEF NextEvent
<1>2. DOMAIN events = 1..Len(events) /\ Len(events) \in Nat
  BY <1>1
<1> QED
  BY <1>1, <1>2, TailFacts

\* What is left when the compositor has taken a request.
LEMMA RequestsAfter ==
  ASSUME TypeInv, flushed > 0, NextRequest
  PROVE  /\ 1 \in DOMAIN requests /\ requests[1] = Head(requests)
         /\ Len(requests') = Len(requests) - 1
         /\ \A i \in DOMAIN requests' :
              /\ i \in Nat \ {0} /\ i + 1 \in DOMAIN requests
              /\ requests'[i] = requests[i + 1]
         /\ \A i \in DOMAIN requests : i # 1 => i - 1 \in DOMAIN requests' /\ requests'[i - 1] = requests[i]
<1>1. requests \in Seq(Requests) /\ requests # <<>> /\ requests' = Tail(requests)
  BY RequestAtHead DEF NextRequest
<1>2. DOMAIN requests = 1..Len(requests) /\ Len(requests) \in Nat
  BY <1>1
<1> QED
  BY <1>1, <1>2, TailFacts

\* What the queue is with a request more.
LEMMA RequestJoins ==
  ASSUME TypeOK, NEW r \in Requests, requests' = Append(requests, r)
  PROVE  /\ Len(requests') = Len(requests) + 1
         /\ DOMAIN requests' = DOMAIN requests \cup {Len(requests) + 1}
         /\ Len(requests) + 1 \notin DOMAIN requests
         /\ requests'[Len(requests) + 1] = r
         /\ \A i \in DOMAIN requests : requests'[i] = requests[i]
<1>1. requests \in Seq(Requests)
  BY DEF TypeOK
<1> QED
  BY <1>1, AppendFacts

\* What the free slots are with one more.
LEMMA SlotJoins ==
  ASSUME TypeOK, NEW slot \in Nat, free_buffers' = Append(free_buffers, slot)
  PROVE  /\ DOMAIN free_buffers' = DOMAIN free_buffers \cup {Len(free_buffers) + 1}
         /\ Len(free_buffers) + 1 \notin DOMAIN free_buffers
         /\ free_buffers'[Len(free_buffers) + 1] = slot
         /\ \A i \in DOMAIN free_buffers : free_buffers'[i] = free_buffers[i]
<1>1. free_buffers \in Seq(Nat)
  BY DEF TypeOK
<1> QED
  BY <1>1, AppendFacts

\* What the queue of events is with one more.
LEMMA EventJoins ==
  ASSUME TypeOK, NEW e \in Events, events' = Append(events, e)
  PROVE  /\ DOMAIN events' = DOMAIN events \cup {Len(events) + 1}
         /\ Len(events) + 1 \notin DOMAIN events
         /\ events'[Len(events) + 1] = e
         /\ \A i \in DOMAIN events : events'[i] = events[i]
<1>1. events \in Seq(Events)
  BY DEF TypeOK
<1> QED
  BY <1>1, AppendFacts
------------------------------------------------------------------------------
(* Inv holds at first, and every action preserves it *)

\* The inductive invariant holds at first.
LEMMA InvInit == Init => Inv
BY TypeInit DEF Init, Inv, TypeInv, ConnectionSurvives, PresentsOK, DestroysOK, ReleasesOK,
   DeleteIdsOK, OneMessagePerId, IdsOK, SlotsOK, SlotsCovered, BuffersCovered, PoolOK, NoSlot

\* What Inv is about, apart from the types and the place in the loop.
invVars == <<status, requests, events, chainVars, idVars, serverVars>>

\* An action that changes none of it, and neither takes nor gives up a slot.
LEMMA InvUnchanged ==
  ASSUME Inv, TypeInv', UNCHANGED invVars
  PROVE  Inv'
BY DEF Inv, TypeInv, invVars, chainVars, idVars, serverVars, ConnectionSurvives, PresentsOK,
   DestroysOK, ReleasesOK, DeleteIdsOK, OneMessagePerId, IdsOK, SlotsOK, SlotsCovered,
   BuffersCovered, PoolOK, Reserved

\* onWlBufferEvent: a released slot becomes free, its buffer is destroyed.
LEMMA DispatchReleaseInv ==
  ASSUME Inv, TypeInv', DispatchRelease
  PROVE  Inv'
<1>0. TypeInv /\ TypeOK /\ pc = "dispatch"
  BY InvTypes DEF Inv, DispatchRelease
<1>1. PICK id \in Nat : id = Head(events).id
  BY <1>0, EventAtHead, EventFields
<1>2. events[1].op = "release" /\ events[1].id = id /\ 1 \in DOMAIN events
  BY <1>0, <1>1, EventAtHead DEF DispatchRelease
<1>3. /\ id \in DOMAIN buffer_indices /\ id \in DOMAIN resources
      /\ id \notin busy /\ id \in objects
  BY <1>2 DEF Inv, ReleasesOK, IdsOK
<1>4. /\ NextEvent /\ ReclaimSlot(id)
      /\ requests' = Append(requests, Destroy(id))
      /\ UNCHANGED <<status, memory_len, next_frame_index, mapped, idVars, serverVars>>
  BY <1>1, <1>3 DEF DispatchRelease
<1>5. /\ \A i \in DOMAIN events' :
           /\ i \in Nat \ {0} /\ i + 1 \in DOMAIN events
           /\ events'[i] = events[i + 1]
      /\ \A i \in DOMAIN events : i # 1 => i - 1 \in DOMAIN events' /\ events'[i - 1] = events[i]
  BY <1>0, <1>4, EventsAfter
<1>6. /\ Len(requests) \in Nat /\ DOMAIN requests = 1..Len(requests)
      /\ Len(requests') = Len(requests) + 1
      /\ DOMAIN requests' = DOMAIN requests \cup {Len(requests) + 1}
      /\ requests'[Len(requests) + 1] = [op |-> "destroy", id |-> id]
      /\ \A i \in DOMAIN requests : requests'[i] = requests[i]
  BY <1>0, <1>4, Queues, RequestTypes, RequestJoins DEF Destroy
<1>7. /\ DOMAIN buffer_indices' = DOMAIN buffer_indices \ {id}
      /\ \A other \in DOMAIN buffer_indices' : buffer_indices'[other] = buffer_indices[other]
  <2>1. buffer_indices' = Without(buffer_indices, id)
    BY <1>3, <1>4 DEF ReclaimSlot
  <2>2. IsIdMap(buffer_indices)
    BY <1>0 DEF TypeOK
  <2> QED
    BY <2>1, <2>2, IdMapWithout
<1>8. /\ DOMAIN free_buffers' = DOMAIN free_buffers \cup {Len(free_buffers) + 1}
      /\ free_buffers'[Len(free_buffers) + 1] = buffer_indices[id]
      /\ \A i \in DOMAIN free_buffers : free_buffers'[i] = free_buffers[i]
      /\ Len(free_buffers) + 1 \notin DOMAIN free_buffers
  <2>1. buffer_indices[id] \in Nat
    BY <1>0, <1>3 DEF TypeOK, IsIdMap
  <2>2. free_buffers' = Append(free_buffers, buffer_indices[id])
    BY <1>3, <1>4 DEF ReclaimSlot
  <2> QED
    BY <1>0, <2>1, <2>2, SlotJoins
<1>9. /\ \A i \in DOMAIN requests : requests[i].op # "resize" => requests[i].id # id
      /\ \A i \in DOMAIN events : i # 1 => events[i].id # id
  <2>1. ASSUME NEW i \in DOMAIN requests, requests[i].op # "resize" PROVE requests[i].id # id
    <3>1. requests[i].op \in {"present", "destroy"}
      BY <1>0, <2>1, Queues, RequestFields
    <3> QED
      BY <1>3, <3>1 DEF Inv, PresentsOK, DestroysOK
  <2> QED
    BY <1>2, <2>1 DEF Inv, OneMessagePerId
<1>10. ConnectionSurvives' /\ (pc' = "dispatch" => received' > 0) /\ TypeOK'
  BY <1>4 DEF Inv, TypeInv, ConnectionSurvives
<1>11. PresentsOK'
  BY <1>4, <1>6, <1>7, <1>9 DEF Inv, PresentsOK, serverVars
<1>12. DestroysOK'
  BY <1>3, <1>4, <1>6, <1>7 DEF Inv, DestroysOK, serverVars
<1>13. ReleasesOK'
  <2>1. ASSUME NEW i \in DOMAIN events', events'[i].op = "release"
        PROVE  /\ events'[i].id \in DOMAIN buffer_indices'
               /\ events'[i].id \in DOMAIN resources /\ events'[i].id \notin busy
    BY <1>5, <1>7, <1>9, <2>1 DEF Inv, ReleasesOK
  <2> QED
    BY <1>4, <2>1 DEF ReleasesOK, serverVars
<1>14. DeleteIdsOK'
  BY <1>4, <1>5, <1>7 DEF Inv, DeleteIdsOK, serverVars, idVars
<1>15. OneMessagePerId'
  <2>1. ASSUME NEW i \in DOMAIN requests', NEW j \in DOMAIN requests',
               requests'[i].op # "resize", requests'[j].op # "resize", i # j
        PROVE  requests'[i].id # requests'[j].id
    BY <1>6, <1>9, <2>1 DEF Inv, OneMessagePerId
  <2>2. ASSUME NEW i \in DOMAIN events', NEW j \in DOMAIN events', i # j
        PROVE  events'[i].id # events'[j].id
    BY <1>5, <2>2 DEF Inv, OneMessagePerId
  <2> QED
    BY <2>1, <2>2 DEF OneMessagePerId
<1>16. IdsOK'
  BY <1>3, <1>4, <1>7 DEF Inv, IdsOK, idVars, serverVars
<1>17. SlotsOK'
  <2>1. mapped' # NoSlot <=> pc' = "send"
    BY DEF TypeInv
  <2>2. \A i \in DOMAIN free_buffers' : free_buffers'[i] < next_frame_index' /\ free_buffers'[i] # mapped'
    BY <1>3, <1>4, <1>8 DEF Inv, SlotsOK
  <2>3. \A i, j \in DOMAIN free_buffers' : i # j => free_buffers'[i] # free_buffers'[j]
    BY <1>3, <1>8 DEF Inv, SlotsOK
  <2>4. ASSUME NEW other \in DOMAIN buffer_indices'
        PROVE  /\ buffer_indices'[other] < next_frame_index'
               /\ \A i \in DOMAIN free_buffers' : free_buffers'[i] # buffer_indices'[other]
               /\ buffer_indices'[other] # mapped'
               /\ \A another \in DOMAIN buffer_indices' :
                    buffer_indices'[another] = buffer_indices'[other] => another = other
    BY <1>3, <1>4, <1>7, <1>8 DEF Inv, SlotsOK
  <2> QED
    BY <1>4, <2>1, <2>2, <2>3, <2>4 DEF Inv, SlotsOK
<1>18. SlotsCovered'
  BY <1>3, <1>4, <1>7, <1>8 DEF Inv, SlotsCovered
<1>19. BuffersCovered'
  <2>1. ASSUME NEW other \in DOMAIN buffer_indices'
        PROVE  \/ \E i \in DOMAIN requests' : requests'[i].op = "present" /\ requests'[i].id = other
               \/ other \in busy
               \/ \E i \in DOMAIN events' : events'[i].op = "release" /\ events'[i].id = other
    BY <1>2, <1>5, <1>6, <1>7 DEF Inv, BuffersCovered
  <2> QED
    BY <1>4, <2>1 DEF BuffersCovered, serverVars
<1>20. PoolOK'
  BY <1>4, <1>6 DEF Inv, PoolOK, Reserved, serverVars
<1> QED
  BY <1>10, <1>11, <1>12, <1>13, <1>14, <1>15, <1>16, <1>17, <1>18, <1>19, <1>20 DEF Inv

\* An id comes back.
LEMMA DispatchDeleteIdInv ==
  ASSUME Inv, TypeInv', DispatchDeleteId
  PROVE  Inv'
<1>0. TypeInv /\ TypeOK /\ pc = "dispatch"
  BY InvTypes DEF Inv, DispatchDeleteId
<1>1. PICK id \in Nat : id = Head(events).id
  BY <1>0, EventAtHead, EventFields
<1>2. events[1].op = "delete_id" /\ events[1].id = id /\ 1 \in DOMAIN events
  BY <1>0, <1>1, EventAtHead DEF DispatchDeleteId
<1>3. /\ id \in objects /\ id \notin DOMAIN buffer_indices /\ id \notin DOMAIN resources
      /\ id < next_id /\ \A i \in DOMAIN free_ids : free_ids[i] # id
  BY <1>2 DEF Inv, DeleteIdsOK, IdsOK
<1>4. /\ NextEvent
      /\ objects' = objects \ {id} /\ free_ids' = Append(free_ids, id)
      /\ UNCHANGED <<status, chainVars, next_id, requests, serverVars>>
  BY <1>1 DEF DispatchDeleteId, ReturnId
<1>5. /\ \A i \in DOMAIN events' :
           /\ i \in Nat \ {0} /\ i + 1 \in DOMAIN events
           /\ events'[i] = events[i + 1]
      /\ \A i \in DOMAIN events : i # 1 => i - 1 \in DOMAIN events' /\ events'[i - 1] = events[i]
  BY <1>0, <1>4, EventsAfter
<1>6. /\ DOMAIN free_ids' = DOMAIN free_ids \cup {Len(free_ids) + 1}
      /\ free_ids'[Len(free_ids) + 1] = id
      /\ \A i \in DOMAIN free_ids : free_ids'[i] = free_ids[i]
  <2>1. free_ids \in Seq(Nat)
    BY <1>0 DEF TypeOK
  <2> QED
    BY <1>4, <2>1, AppendFacts
<1>7. \A i \in DOMAIN events : i # 1 => events[i].id # id
  BY <1>2 DEF Inv, OneMessagePerId
<1>8. ConnectionSurvives' /\ (pc' = "dispatch" => received' > 0) /\ TypeOK'
  BY <1>4 DEF Inv, TypeInv, ConnectionSurvives
<1>9. PresentsOK' /\ DestroysOK' /\ SlotsCovered' /\ PoolOK'
  BY <1>4 DEF Inv, PresentsOK, DestroysOK, SlotsCovered, PoolOK, Reserved, chainVars, serverVars
<1>10. ReleasesOK'
  BY <1>4, <1>5 DEF Inv, ReleasesOK, chainVars, serverVars
<1>11. DeleteIdsOK'
  <2>1. ASSUME NEW i \in DOMAIN events', events'[i].op = "delete_id"
        PROVE  /\ events'[i].id \in objects \ {id}
               /\ events'[i].id \notin DOMAIN buffer_indices
               /\ events'[i].id \notin DOMAIN resources
    BY <1>5, <1>7, <2>1 DEF Inv, DeleteIdsOK
  <2> QED
    BY <1>4, <2>1 DEF DeleteIdsOK, chainVars, serverVars
<1>12. OneMessagePerId'
  <2>1. ASSUME NEW i \in DOMAIN events', NEW j \in DOMAIN events', i # j
        PROVE  events'[i].id # events'[j].id
    BY <1>5, <2>1 DEF Inv, OneMessagePerId
  <2> QED
    BY <1>4, <2>1 DEF Inv, OneMessagePerId
<1>13. IdsOK'
  <2>1. \A i, j \in DOMAIN free_ids' : i # j => free_ids'[i] # free_ids'[j]
    BY <1>3, <1>6 DEF Inv, IdsOK
  <2>2. \A i \in DOMAIN free_ids' : free_ids'[i] < next_id' /\ free_ids'[i] \notin objects'
    BY <1>3, <1>4, <1>6 DEF Inv, IdsOK
  <2> QED
    BY <1>3, <1>4, <2>1, <2>2 DEF Inv, IdsOK, chainVars, serverVars
<1>14. SlotsOK'
  BY <1>4 DEF Inv, TypeInv, SlotsOK, chainVars
<1>15. BuffersCovered'
  <2>1. ASSUME NEW other \in DOMAIN buffer_indices
        PROVE  \/ \E i \in DOMAIN requests : requests[i].op = "present" /\ requests[i].id = other
               \/ other \in busy
               \/ \E i \in DOMAIN events' : events'[i].op = "release" /\ events'[i].id = other
    BY <1>2, <1>5 DEF Inv, BuffersCovered
  <2> QED
    BY <1>4, <2>1 DEF BuffersCovered, chainVars, serverVars
<1> QED
  BY <1>8, <1>9, <1>10, <1>11, <1>12, <1>13, <1>14, <1>15 DEF Inv

\* mapBuffer takes a slot that is free.
LEMMA ReuseSlotInv ==
  ASSUME Inv, TypeInv', ReuseSlot
  PROVE  Inv'
<1>0. TypeInv /\ TypeOK
  BY InvTypes DEF Inv
<1>1. mapped = NoSlot /\ free_buffers # <<>> /\ PopSlot
      /\ UNCHANGED <<status, memory_len, next_frame_index, buffer_indices, idVars,
                     requests, events, received, serverVars>>
      /\ pc' = "send"
  BY <1>0 DEF ReuseSlot, TypeInv
<1>2. /\ Len(free_buffers) \in DOMAIN free_buffers
      /\ mapped' = free_buffers[Len(free_buffers)]
      /\ DOMAIN free_buffers' = DOMAIN free_buffers \ {Len(free_buffers)}
      /\ \A i \in DOMAIN free_buffers' : free_buffers'[i] = free_buffers[i]
  <2>1. free_buffers \in Seq(Nat) /\ DOMAIN free_buffers = 1..Len(free_buffers) /\ Len(free_buffers) \in Nat
    BY <1>0 DEF TypeOK
  <2>2. mapped' = Last(free_buffers) /\ free_buffers' = Front(free_buffers)
    BY <1>1 DEF PopSlot
  <2>3. /\ DOMAIN Front(free_buffers) = 1..(Len(free_buffers) - 1)
        /\ \A i \in 1..(Len(free_buffers) - 1) : Front(free_buffers)[i] = free_buffers[i]
        /\ Last(free_buffers) = free_buffers[Len(free_buffers)]
        /\ Len(free_buffers) \in DOMAIN free_buffers
    BY <1>1, <2>1, FrontFacts
  <2> QED
    BY <2>1, <2>2, <2>3
<1>3. ConnectionSurvives' /\ (pc' = "dispatch" => received' > 0) /\ TypeOK'
  BY <1>1 DEF Inv, TypeInv, ConnectionSurvives
<1>4. /\ PresentsOK' /\ DestroysOK' /\ ReleasesOK' /\ DeleteIdsOK' /\ OneMessagePerId'
      /\ IdsOK' /\ BuffersCovered' /\ PoolOK'
  BY <1>1 DEF Inv, PresentsOK, DestroysOK, ReleasesOK, DeleteIdsOK, OneMessagePerId, IdsOK,
     BuffersCovered, PoolOK, Reserved, idVars, serverVars
<1>5. SlotsOK'
  <2>1. mapped' # NoSlot <=> pc' = "send"
    BY DEF TypeInv
  <2> QED
    BY <1>1, <1>2, <2>1 DEF Inv, SlotsOK
<1>6. SlotsCovered'
  BY <1>0, <1>1, <1>2, SMTT(60) DEF Inv, SlotsCovered, TypeOK, NoSlot
<1> QED
  BY <1>3, <1>4, <1>5, <1>6 DEF Inv

\* mapBuffer makes the pool larger.
LEMMA GrowPoolInv ==
  ASSUME Inv, TypeInv', GrowPool
  PROVE  Inv'
<1>0. TypeInv /\ TypeOK /\ memory_len \in Nat /\ pool_len \in Nat
  BY InvTypes DEF Inv, TypeOK
<1>1. /\ mapped = NoSlot /\ memory_len = next_frame_index
      /\ mapped' = memory_len /\ next_frame_index' = memory_len + 1
      /\ memory_len' = memory_len + 1
      /\ requests' = Append(requests, Resize(memory_len + 1))
      /\ pc' = "send"
      /\ UNCHANGED <<status, free_buffers, buffer_indices, idVars, events, received, serverVars>>
  BY <1>0 DEF GrowPool, TakeNewSlot, TypeInv, Inv, PoolOK
<1>2. /\ Len(requests) \in Nat /\ DOMAIN requests = 1..Len(requests)
      /\ Len(requests') = Len(requests) + 1
      /\ DOMAIN requests' = DOMAIN requests \cup {Len(requests) + 1}
      /\ requests'[Len(requests) + 1] = [op |-> "resize", len |-> memory_len + 1]
      /\ \A i \in DOMAIN requests : requests'[i] = requests[i]
  BY <1>0, <1>1, Queues, RequestTypes, RequestJoins DEF Resize
<1>3. ConnectionSurvives' /\ (pc' = "dispatch" => received' > 0) /\ TypeOK'
  BY <1>1 DEF Inv, TypeInv, ConnectionSurvives
<1>4. PresentsOK' /\ DestroysOK'
  BY <1>1, <1>2 DEF Inv, PresentsOK, DestroysOK, serverVars
<1>5. ReleasesOK' /\ DeleteIdsOK' /\ IdsOK'
  BY <1>1 DEF Inv, ReleasesOK, DeleteIdsOK, IdsOK, idVars, serverVars
<1>6. OneMessagePerId'
  BY <1>1, <1>2 DEF Inv, OneMessagePerId
<1>7. BuffersCovered'
  <2>1. ASSUME NEW other \in DOMAIN buffer_indices
        PROVE  \/ \E i \in DOMAIN requests' : requests'[i].op = "present" /\ requests'[i].id = other
               \/ other \in busy
               \/ \E i \in DOMAIN events : events[i].op = "release" /\ events[i].id = other
    BY <1>2 DEF Inv, BuffersCovered
  <2> QED
    BY <1>1, <2>1 DEF BuffersCovered, serverVars
<1>8. SlotsOK'
  <2>1. mapped' # NoSlot <=> pc' = "send"
    BY DEF TypeInv
  <2>2. \A id \in DOMAIN buffer_indices : buffer_indices[id] \in Nat
    BY <1>0 DEF TypeOK, IsIdMap
  <2> QED
    BY <1>0, <1>1, <2>1, <2>2, Queues DEF Inv, SlotsOK
<1>9. SlotsCovered'
  BY <1>0, <1>1 DEF Inv, SlotsCovered, NoSlot
<1>10. PoolOK'
  <2>1. (\A i \in DOMAIN requests : requests[i].op = "present" => Reserved(requests[i].slot, i))'
    BY <1>1, <1>2 DEF Inv, PoolOK, Reserved, serverVars
  <2>2. (\A slot \in 0..(memory_len - 1) : Reserved(slot, Len(requests) + 1))'
    BY <1>0, <1>1, <1>2 DEF Reserved
  <2>3. \A i \in DOMAIN requests' : requests'[i].op = "resize" =>
          /\ pool_len <= requests'[i].len
          /\ requests'[i].len <= memory_len + 1
          /\ \A j \in DOMAIN requests' :
               i < j /\ requests'[j].op = "resize" => requests'[i].len <= requests'[j].len
    <3>1. ASSUME NEW i \in DOMAIN requests, requests[i].op = "resize"
          PROVE  requests[i].len \in Nat /\ pool_len <= requests[i].len /\ requests[i].len <= memory_len
      BY <1>0, <3>1, Queues, RequestFields DEF Inv, PoolOK
    <3>2. pool_len <= memory_len
      BY DEF Inv, PoolOK
    <3> QED
      BY <1>0, <1>2, <3>1, <3>2 DEF Inv, PoolOK
  <2>4. pool_len <= memory_len
    BY DEF Inv, PoolOK
  <2> QED
    BY <1>0, <1>1, <1>2, <2>1, <2>2, <2>3, <2>4 DEF PoolOK, serverVars
<1> QED
  BY <1>3, <1>4, <1>5, <1>6, <1>7, <1>8, <1>9, <1>10 DEF Inv

\* The id of the next buffer is one that nothing has.
LEMMA NewIdIsFresh ==
  ASSUME Inv, CreateId
  PROVE  /\ NewId \in Nat /\ NewId \notin objects
         /\ objects' = objects \cup {NewId}
         /\ NewId < next_id' /\ next_id <= next_id' /\ next_id' \in Nat
         /\ \A i \in DOMAIN free_ids' : i \in DOMAIN free_ids /\ free_ids'[i] = free_ids[i]
         /\ \A i \in DOMAIN free_ids' : free_ids'[i] # NewId
<1>1. free_ids \in Seq(Nat) /\ next_id \in Nat /\ DOMAIN free_ids = 1..Len(free_ids) /\ Len(free_ids) \in Nat
  BY DEF Inv, TypeOK
<1>2. CASE free_ids # <<>>
  <2>1. /\ NewId = Last(free_ids) /\ free_ids' = Front(free_ids) /\ next_id' = next_id
        /\ objects' = objects \cup {NewId}
    BY <1>2 DEF NewId, CreateId
  <2>2. /\ DOMAIN Front(free_ids) = 1..(Len(free_ids) - 1)
        /\ \A i \in 1..(Len(free_ids) - 1) : Front(free_ids)[i] = free_ids[i]
        /\ Last(free_ids) = free_ids[Len(free_ids)] /\ Last(free_ids) \in Nat
        /\ Len(free_ids) \in DOMAIN free_ids
    BY <1>1, <1>2, FrontFacts
  <2>3. NewId = free_ids[Len(free_ids)] /\ NewId \notin objects /\ NewId < next_id
    BY <2>1, <2>2 DEF Inv, IdsOK
  <2>4. \A i \in 1..(Len(free_ids) - 1) : free_ids[i] # NewId
    BY <1>1, <2>2, <2>3, SMTT(60) DEF Inv, IdsOK
  <2> QED
    BY <1>1, <2>1, <2>2, <2>3, <2>4
<1>3. CASE free_ids = <<>>
  BY <1>1, <1>3 DEF Inv, IdsOK, NewId, CreateId
<1> QED
  BY <1>2, <1>3

\* A frame is sent in the slot mapped.
LEMMA SendFrameInv ==
  ASSUME Inv, TypeInv', SendFrame
  PROVE  Inv'
<1>0. TypeInv /\ TypeOK /\ mapped \in Nat /\ next_id \in Nat
  BY InvTypes DEF Inv, SendFrame, TypeInv, TypeOK
<1>1. PICK id : id = NewId
  OBVIOUS
<1>2. /\ CreateId /\ pc' = "poll" /\ mapped' = NoSlot
      /\ buffer_indices' = With(buffer_indices, id, mapped)
      /\ requests' = Append(requests, Present(id, mapped))
      /\ UNCHANGED <<status, memory_len, next_frame_index, free_buffers, events, received, serverVars>>
  BY <1>1 DEF SendFrame
<1>3. /\ id \in Nat /\ id \notin objects
      /\ objects' = objects \cup {id}
      /\ id < next_id' /\ next_id <= next_id' /\ next_id' \in Nat
      /\ \A i \in DOMAIN free_ids' : i \in DOMAIN free_ids /\ free_ids'[i] = free_ids[i]
      /\ \A i \in DOMAIN free_ids' : free_ids'[i] # id
  BY <1>1, <1>2, NewIdIsFresh
<1>4. /\ id \notin DOMAIN buffer_indices /\ id \notin DOMAIN resources /\ id \notin busy
      /\ mapped # NoSlot
  BY <1>0, <1>3 DEF Inv, IdsOK, TypeInv, NoSlot
<1>5. /\ DOMAIN buffer_indices' = DOMAIN buffer_indices \cup {id}
      /\ buffer_indices'[id] = mapped
      /\ \A other \in DOMAIN buffer_indices : buffer_indices'[other] = buffer_indices[other]
  <2>1. IsIdMap(buffer_indices)
    BY <1>0 DEF TypeOK
  <2>2. /\ DOMAIN With(buffer_indices, id, mapped) = DOMAIN buffer_indices \cup {id}
        /\ With(buffer_indices, id, mapped)[id] = mapped
        /\ \A other \in DOMAIN buffer_indices \ {id} :
             With(buffer_indices, id, mapped)[other] = buffer_indices[other]
    BY DEF With
  <2> QED
    BY <1>2, <1>4, <2>2
<1>6. /\ Len(requests) \in Nat /\ DOMAIN requests = 1..Len(requests)
      /\ Len(requests') = Len(requests) + 1
      /\ DOMAIN requests' = DOMAIN requests \cup {Len(requests) + 1}
      /\ requests'[Len(requests) + 1] = [op |-> "present", id |-> id, slot |-> mapped]
      /\ \A i \in DOMAIN requests : requests'[i] = requests[i]
  BY <1>0, <1>2, <1>3, Queues, RequestTypes, RequestJoins DEF Present
<1>7. \A i \in DOMAIN requests : requests[i].op # "resize" => requests[i].id # id
  <2>1. ASSUME NEW i \in DOMAIN requests, requests[i].op # "resize" PROVE requests[i].id # id
    <3>1. requests[i].op \in {"present", "destroy"}
      BY <1>0, <2>1, Queues, RequestFields
    <3> QED
      BY <1>4, <3>1 DEF Inv, PresentsOK, DestroysOK
  <2> QED
    BY <2>1
<1>8. ConnectionSurvives' /\ (pc' = "dispatch" => received' > 0) /\ TypeOK'
  BY <1>2 DEF Inv, TypeInv, ConnectionSurvives
<1>9. PresentsOK'
  BY <1>2, <1>4, <1>5, <1>6, <1>7 DEF Inv, PresentsOK, serverVars
<1>10. DestroysOK'
  BY <1>2, <1>5, <1>6, <1>7 DEF Inv, DestroysOK, serverVars
<1>11. ReleasesOK'
  BY <1>2, <1>5 DEF Inv, ReleasesOK, serverVars
<1>12. DeleteIdsOK'
  BY <1>2, <1>3, <1>5 DEF Inv, DeleteIdsOK, serverVars
<1>13. OneMessagePerId'
  <2>1. ASSUME NEW i \in DOMAIN requests', NEW j \in DOMAIN requests',
               requests'[i].op # "resize", requests'[j].op # "resize", i # j
        PROVE  requests'[i].id # requests'[j].id
    BY <1>6, <1>7, <2>1 DEF Inv, OneMessagePerId
  <2> QED
    BY <1>2, <2>1 DEF Inv, OneMessagePerId
<1>14. IdsOK'
  <2>1. /\ DOMAIN buffer_indices' \subseteq objects' /\ DOMAIN resources' \subseteq objects'
        /\ \A other \in busy' : /\ other \in DOMAIN buffer_indices' /\ other \in DOMAIN resources'
                                /\ resources'[other] = buffer_indices'[other]
    BY <1>2, <1>3, <1>4, <1>5 DEF Inv, IdsOK, serverVars
  <2>2. \A other \in objects' : other < next_id'
    <3>1. ASSUME NEW other \in objects PROVE other < next_id'
      <4>1. other \in Nat /\ other < next_id
        BY <1>0 DEF TypeOK, Inv, IdsOK
      <4> QED
        BY <1>0, <1>3, <4>1
    <3> QED
      BY <1>3, <3>1
  <2>3. \A i \in DOMAIN free_ids' : free_ids'[i] < next_id' /\ free_ids'[i] \notin objects'
    BY <1>0, <1>3, Queues DEF Inv, IdsOK
  <2>4. \A i, j \in DOMAIN free_ids' : i # j => free_ids'[i] # free_ids'[j]
    BY <1>3 DEF Inv, IdsOK
  <2> QED
    BY <2>1, <2>2, <2>3, <2>4 DEF IdsOK
<1>15. SlotsOK'
  <2>1. mapped' # NoSlot <=> pc' = "send"
    BY DEF TypeInv
  <2>2. NoSlot < next_frame_index /\ \A i \in DOMAIN free_buffers : free_buffers[i] # NoSlot
    BY <1>0, Queues DEF TypeOK, NoSlot
  <2>3. \A other \in DOMAIN buffer_indices : buffer_indices[other] # NoSlot
    BY <1>0 DEF TypeOK, IsIdMap, NoSlot
  <2> QED
    BY <1>2, <1>4, <1>5, <2>1, <2>2, <2>3 DEF Inv, SlotsOK
<1>16. SlotsCovered'
  BY <1>2, <1>4, <1>5 DEF Inv, SlotsCovered
<1>17. BuffersCovered'
  <2>1. ASSUME NEW other \in DOMAIN buffer_indices'
        PROVE  \/ \E i \in DOMAIN requests' : requests'[i].op = "present" /\ requests'[i].id = other
               \/ other \in busy
               \/ \E i \in DOMAIN events : events[i].op = "release" /\ events[i].id = other
    BY <1>5, <1>6 DEF Inv, BuffersCovered
  <2> QED
    BY <1>2, <2>1 DEF BuffersCovered, serverVars
<1>18. PoolOK'
  <2>1. mapped \in 0..(memory_len - 1)
    BY <1>0 DEF Inv, SlotsOK, PoolOK, TypeOK
  <2>2. (\A i \in DOMAIN requests : requests[i].op = "present" => Reserved(requests[i].slot, i))'
    BY <1>2, <1>6, <2>1 DEF Inv, PoolOK, Reserved, serverVars
  <2>3. (\A slot \in 0..(memory_len - 1) : Reserved(slot, Len(requests) + 1))'
    BY <1>2, <1>6 DEF Inv, PoolOK, Reserved, serverVars
  <2>4. (\A i \in DOMAIN requests : requests[i].op = "resize" =>
           /\ pool_len <= requests[i].len
           /\ requests[i].len <= memory_len
           /\ \A j \in DOMAIN requests : i < j /\ requests[j].op = "resize" => requests[i].len <= requests[j].len)'
    BY <1>2, <1>6 DEF Inv, PoolOK, serverVars
  <2> QED
    BY <1>2, <2>2, <2>3, <2>4 DEF Inv, PoolOK, serverVars
<1> QED
  BY <1>8, <1>9, <1>10, <1>11, <1>12, <1>13, <1>14, <1>15, <1>16, <1>17, <1>18 DEF Inv

\* The pool only grows from the compositor's side, to the length it is told.
LEMMA ServerResizeInv ==
  ASSUME Inv, TypeInv', ServerResize
  PROVE  Inv'
<1>0. TypeInv /\ TypeOK /\ flushed > 0
  BY InvTypes DEF Inv, ServerResize, Handle
<1>1. PICK len \in Nat : len = Head(requests).len
  BY <1>0, RequestAtHead, RequestFields DEF ServerResize, Handle
<1>2. requests[1].op = "resize" /\ requests[1].len = len /\ 1 \in DOMAIN requests
  BY <1>0, <1>1, RequestAtHead DEF ServerResize, Handle
<1>3. /\ pool_len <= len /\ len <= memory_len /\ pool_len \in Nat /\ memory_len \in Nat
      /\ \A i \in DOMAIN requests : 1 < i /\ requests[i].op = "resize" => len <= requests[i].len
  BY <1>0, <1>2 DEF Inv, PoolOK, TypeOK
<1>4. /\ NextRequest /\ pool_len' = len
      /\ UNCHANGED <<pc, chainVars, idVars, events, received, resources, busy, current>>
  BY <1>1, <1>3 DEF ServerResize
<1>5. /\ Len(requests) \in Nat /\ DOMAIN requests = 1..Len(requests)
      /\ Len(requests') = Len(requests) - 1
      /\ \A i \in DOMAIN requests' :
           /\ i \in Nat \ {0} /\ i + 1 \in DOMAIN requests
           /\ requests'[i] = requests[i + 1]
      /\ \A i \in DOMAIN requests : i # 1 => i - 1 \in DOMAIN requests' /\ requests'[i - 1] = requests[i]
  BY <1>0, <1>4, Queues, RequestsAfter
<1>6. ConnectionSurvives' /\ (pc' = "dispatch" => received' > 0) /\ TypeOK'
  BY <1>4 DEF Inv, TypeInv, ConnectionSurvives, NextRequest
<1>7. PresentsOK' /\ DestroysOK'
  BY <1>4, <1>5 DEF Inv, PresentsOK, DestroysOK, chainVars
<1>8. ReleasesOK' /\ DeleteIdsOK' /\ IdsOK' /\ SlotsCovered'
  BY <1>4 DEF Inv, ReleasesOK, DeleteIdsOK, IdsOK, SlotsCovered, chainVars, idVars
<1>9. OneMessagePerId'
  <2>1. ASSUME NEW i \in DOMAIN requests', NEW j \in DOMAIN requests',
               requests'[i].op # "resize", requests'[j].op # "resize", i # j
        PROVE  requests'[i].id # requests'[j].id
    BY <1>5, <2>1 DEF Inv, OneMessagePerId
  <2> QED
    BY <1>4, <2>1 DEF Inv, OneMessagePerId
<1>10. SlotsOK'
  BY <1>4 DEF Inv, TypeInv, SlotsOK, chainVars
<1>11. BuffersCovered'
  <2>1. ASSUME NEW other \in DOMAIN buffer_indices
        PROVE  \/ \E i \in DOMAIN requests' : requests'[i].op = "present" /\ requests'[i].id = other
               \/ other \in busy
               \/ \E i \in DOMAIN events : events[i].op = "release" /\ events[i].id = other
    BY <1>2, <1>5 DEF Inv, BuffersCovered
  <2> QED
    BY <1>4, <2>1 DEF BuffersCovered, chainVars
<1>12. PoolOK'
  <2>1. ASSUME NEW slot \in Int, NEW i \in Nat, Reserved(slot, i + 1)
        PROVE  slot < len \/ \E j \in DOMAIN requests' : j < i /\ requests'[j].op = "resize" /\ slot < requests'[j].len
    <3>1. CASE slot < pool_len
      BY <1>3, <2>1, <3>1
    <3>2. CASE \E j \in DOMAIN requests : j < i + 1 /\ requests[j].op = "resize" /\ slot < requests[j].len
      <4>1. PICK j \in DOMAIN requests : j < i + 1 /\ requests[j].op = "resize" /\ slot < requests[j].len
        BY <3>2
      <4>2. CASE j = 1
        BY <1>2, <4>1, <4>2
      <4>3. CASE j # 1
        BY <1>5, <4>1, <4>3
      <4> QED
        BY <4>2, <4>3
    <3> QED
      BY <2>1, <3>1, <3>2 DEF Reserved
  <2>2. (\A i \in DOMAIN requests : requests[i].op = "present" => Reserved(requests[i].slot, i))'
    <3>1. ASSUME NEW i \in DOMAIN requests', requests'[i].op = "present"
          PROVE  \/ requests'[i].slot < len
                 \/ \E j \in DOMAIN requests' : j < i /\ requests'[j].op = "resize" /\ requests'[i].slot < requests'[j].len
      <4>1. requests'[i].slot \in Nat
        BY <1>0, <1>5, <3>1, Queues, RequestFields
      <4>2. PICK slot \in Int : slot = requests'[i].slot
        BY <4>1
      <4>3. i \in Nat /\ i + 1 \in DOMAIN requests /\ requests'[i] = requests[i + 1]
        BY <1>5
      <4>4. Reserved(slot, i + 1)
        BY <3>1, <4>2, <4>3 DEF Inv, PoolOK
      <4>5. \/ slot < len
            \/ \E j \in DOMAIN requests' : j < i /\ requests'[j].op = "resize" /\ slot < requests'[j].len
        BY <2>1, <4>3, <4>4
      <4> QED
        BY <4>2, <4>5
    <3> QED
      BY <1>4, <3>1 DEF Reserved
  <2>3. (\A slot \in 0..(memory_len - 1) : Reserved(slot, Len(requests) + 1))'
    <3>1. ASSUME NEW slot \in 0..(memory_len - 1)
          PROVE  slot < len \/ \E j \in DOMAIN requests' : j < Len(requests) /\ requests'[j].op = "resize" /\ slot < requests'[j].len
      <4>1. Reserved(slot, Len(requests) + 1)
        BY DEF Inv, PoolOK
      <4>2. PICK i \in Nat : i = Len(requests)
        BY <1>5
      <4>3. Reserved(slot, i + 1)
        BY <4>1, <4>2
      <4>4. slot \in Int
        BY <1>3
      <4>5. slot < len \/ \E j \in DOMAIN requests' : j < i /\ requests'[j].op = "resize" /\ slot < requests'[j].len
        BY <2>1, <4>3, <4>4
      <4> QED
        BY <4>2, <4>5
    <3> QED
      BY <1>4, <1>5, <3>1 DEF Reserved, chainVars
  <2>4. (\A i \in DOMAIN requests : requests[i].op = "resize" =>
           /\ pool_len <= requests[i].len
           /\ requests[i].len <= memory_len
           /\ \A j \in DOMAIN requests : i < j /\ requests[j].op = "resize" => requests[i].len <= requests[j].len)'
    <3>1. ASSUME NEW i \in DOMAIN requests', requests'[i].op = "resize"
          PROVE  /\ len <= requests'[i].len
                 /\ requests'[i].len <= memory_len
                 /\ \A j \in DOMAIN requests' :
                      i < j /\ requests'[j].op = "resize" => requests'[i].len <= requests'[j].len
      <4>1. /\ i \in Nat \ {0} /\ i + 1 \in DOMAIN requests /\ requests'[i] = requests[i + 1]
            /\ 1 < i + 1
        BY <1>5
      <4>2. /\ len <= requests'[i].len
            /\ requests'[i].len <= memory_len
        BY <1>3, <3>1, <4>1 DEF Inv, PoolOK
      <4>3. ASSUME NEW j \in DOMAIN requests', i < j, requests'[j].op = "resize"
            PROVE  requests'[i].len <= requests'[j].len
        <5>1. j + 1 \in DOMAIN requests /\ requests'[j] = requests[j + 1] /\ i + 1 < j + 1
          BY <1>5, <4>3
        <5> QED
          BY <3>1, <4>1, <4>3, <5>1 DEF Inv, PoolOK
      <4> QED
        BY <4>2, <4>3
    <3> QED
      BY <1>4, <3>1 DEF chainVars
  <2> QED
    BY <1>3, <1>4, <2>2, <2>3, <2>4 DEF Inv, PoolOK, chainVars
<1> QED
  BY <1>6, <1>7, <1>8, <1>9, <1>10, <1>11, <1>12 DEF Inv

\* A request of another kind that is handled leaves the pool as it was agreed.
LEMMA PoolUntouched ==
  ASSUME Inv, flushed > 0, NextRequest, requests[1].op # "resize",
         UNCHANGED <<memory_len, next_frame_index, pool_len>>
  PROVE  PoolOK'
<1>0. TypeInv /\ TypeOK
  BY InvTypes DEF Inv
<1>1. /\ Len(requests) \in Nat /\ DOMAIN requests = 1..Len(requests)
      /\ Len(requests') = Len(requests) - 1
      /\ \A i \in DOMAIN requests' :
           /\ i \in Nat \ {0} /\ i + 1 \in DOMAIN requests
           /\ requests'[i] = requests[i + 1]
      /\ \A i \in DOMAIN requests : i # 1 => i - 1 \in DOMAIN requests' /\ requests'[i - 1] = requests[i]
  BY <1>0, Queues, RequestsAfter
<1>2. ASSUME NEW slot, NEW i \in Nat, Reserved(slot, i + 1)
      PROVE  \/ slot < pool_len
             \/ \E j \in DOMAIN requests' : j < i /\ requests'[j].op = "resize" /\ slot < requests'[j].len
  <2>1. CASE \E j \in DOMAIN requests : j < i + 1 /\ requests[j].op = "resize" /\ slot < requests[j].len
    <3>1. PICK j \in DOMAIN requests : j < i + 1 /\ requests[j].op = "resize" /\ slot < requests[j].len
      BY <2>1
    <3>2. j # 1
      BY <3>1
    <3> QED
      BY <1>1, <3>1, <3>2
  <2> QED
    BY <1>2, <2>1 DEF Reserved
<1>3. (\A i \in DOMAIN requests : requests[i].op = "present" => Reserved(requests[i].slot, i))'
  <2>1. ASSUME NEW i \in DOMAIN requests', requests'[i].op = "present"
        PROVE  \/ requests'[i].slot < pool_len
               \/ \E j \in DOMAIN requests' : j < i /\ requests'[j].op = "resize" /\ requests'[i].slot < requests'[j].len
    <3>1. Reserved(requests[i + 1].slot, i + 1)
      BY <1>1, <2>1 DEF Inv, PoolOK
    <3> QED
      BY <1>1, <1>2, <3>1
  <2> QED
    BY <2>1 DEF Reserved
<1>4. (\A slot \in 0..(memory_len - 1) : Reserved(slot, Len(requests) + 1))'
  <2>1. ASSUME NEW slot \in 0..(memory_len - 1)
        PROVE  \/ slot < pool_len
               \/ \E j \in DOMAIN requests' : j < Len(requests) /\ requests'[j].op = "resize" /\ slot < requests'[j].len
    BY <1>1, <1>2 DEF Inv, PoolOK
  <2> QED
    BY <1>1, <2>1 DEF Reserved
<1>5. (\A i \in DOMAIN requests : requests[i].op = "resize" =>
         /\ pool_len <= requests[i].len
         /\ requests[i].len <= memory_len
         /\ \A j \in DOMAIN requests : i < j /\ requests[j].op = "resize" => requests[i].len <= requests[j].len)'
  BY <1>1 DEF Inv, PoolOK
<1> QED
  BY <1>3, <1>4, <1>5 DEF Inv, PoolOK

\* The compositor gets a buffer and its frame.
LEMMA ServerPresentInv ==
  ASSUME Inv, TypeInv', ServerPresent
  PROVE  Inv'
<1>0. TypeInv /\ TypeOK /\ flushed > 0
  BY InvTypes DEF Inv, ServerPresent, Handle
<1>1. PICK id \in Nat, slot \in Nat : id = Head(requests).id /\ slot = Head(requests).slot
  BY <1>0, RequestAtHead, RequestFields DEF ServerPresent, Handle
<1>2. /\ requests[1].op = "present" /\ requests[1].id = id /\ requests[1].slot = slot
      /\ 1 \in DOMAIN requests
  BY <1>0, <1>1, RequestAtHead DEF ServerPresent, Handle
<1>3. /\ id \in DOMAIN buffer_indices /\ buffer_indices[id] = slot
      /\ id \notin DOMAIN resources /\ id \in objects
  BY <1>2 DEF Inv, PresentsOK, IdsOK
<1>4. slot < pool_len
  <2>1. Reserved(slot, 1)
    BY <1>2 DEF Inv, PoolOK
  <2> QED
    BY <1>0, <2>1, Queues DEF Reserved
<1>5. /\ NextRequest /\ resources' = With(resources, id, slot) /\ busy' = busy \cup {id}
      /\ UNCHANGED <<pc, chainVars, idVars, events, received, pool_len>>
  BY <1>1, <1>3, <1>4 DEF ServerPresent
<1>6. /\ Len(requests) \in Nat /\ DOMAIN requests = 1..Len(requests)
      /\ Len(requests') = Len(requests) - 1
      /\ DOMAIN requests' = 1..(Len(requests) - 1)
      /\ \A i \in DOMAIN requests' :
           /\ i \in Nat \ {0} /\ i + 1 \in DOMAIN requests
           /\ requests'[i] = requests[i + 1]
      /\ \A i \in DOMAIN requests : i # 1 => i - 1 \in DOMAIN requests' /\ requests'[i - 1] = requests[i]
  BY <1>0, <1>5, Queues, RequestsAfter, RequestAtHead, TailFacts DEF NextRequest
<1>7. /\ DOMAIN resources' = DOMAIN resources \cup {id}
      /\ resources'[id] = slot
      /\ \A other \in DOMAIN resources : resources'[other] = resources[other]
  BY <1>3, <1>5 DEF With
<1>8. \A i \in DOMAIN requests' : requests'[i].op # "resize" => requests'[i].id # id
  BY <1>2, <1>6 DEF Inv, OneMessagePerId
<1>9. ConnectionSurvives' /\ (pc' = "dispatch" => received' > 0) /\ TypeOK'
  BY <1>5 DEF Inv, TypeInv, ConnectionSurvives, NextRequest
<1>10. PresentsOK'
  BY <1>5, <1>6, <1>7, <1>8 DEF Inv, PresentsOK, chainVars
<1>11. DestroysOK'
  BY <1>5, <1>6, <1>7 DEF Inv, DestroysOK, chainVars
<1>12. ReleasesOK'
  BY <1>3, <1>5, <1>7 DEF Inv, ReleasesOK, chainVars
<1>13. DeleteIdsOK'
  BY <1>3, <1>5, <1>7 DEF Inv, DeleteIdsOK, chainVars, idVars
<1>14. OneMessagePerId'
  <2>1. ASSUME NEW i \in DOMAIN requests', NEW j \in DOMAIN requests',
               requests'[i].op # "resize", requests'[j].op # "resize", i # j
        PROVE  requests'[i].id # requests'[j].id
    BY <1>6, <2>1 DEF Inv, OneMessagePerId
  <2> QED
    BY <1>5, <2>1 DEF Inv, OneMessagePerId
<1>15. IdsOK'
  BY <1>3, <1>5, <1>7 DEF Inv, IdsOK, chainVars, idVars
<1>16. SlotsOK' /\ SlotsCovered'
  BY <1>5 DEF Inv, TypeInv, SlotsOK, SlotsCovered, chainVars
<1>17. BuffersCovered'
  <2>1. ASSUME NEW other \in DOMAIN buffer_indices
        PROVE  \/ \E i \in DOMAIN requests' : requests'[i].op = "present" /\ requests'[i].id = other
               \/ other \in busy \cup {id}
               \/ \E i \in DOMAIN events : events[i].op = "release" /\ events[i].id = other
    BY <1>2, <1>6 DEF Inv, BuffersCovered
  <2> QED
    BY <1>5, <2>1 DEF BuffersCovered, chainVars
<1>18. PoolOK'
  BY <1>0, <1>2, <1>5, PoolUntouched DEF chainVars
<1> QED
  BY <1>9, <1>10, <1>11, <1>12, <1>13, <1>14, <1>15, <1>16, <1>17, <1>18 DEF Inv

\* The compositor destroys a buffer and gives its id back.
LEMMA ServerDestroyInv ==
  ASSUME Inv, TypeInv', ServerDestroy
  PROVE  Inv'
<1>0. TypeInv /\ TypeOK /\ flushed > 0
  BY InvTypes DEF Inv, ServerDestroy, Handle
<1>1. PICK id \in Nat : id = Head(requests).id
  BY <1>0, RequestAtHead, RequestFields DEF ServerDestroy, Handle
<1>2. requests[1].op = "destroy" /\ requests[1].id = id /\ 1 \in DOMAIN requests
  BY <1>0, <1>1, RequestAtHead DEF ServerDestroy, Handle
<1>3. /\ id \in DOMAIN resources /\ id \notin DOMAIN buffer_indices /\ id \in objects
      /\ id \notin busy
  BY <1>2 DEF Inv, DestroysOK, IdsOK
<1>4. /\ NextRequest
      /\ resources' = Without(resources, id) /\ busy' = busy \ {id}
      /\ events' = Append(events, DeleteId(id))
      /\ UNCHANGED <<pc, chainVars, idVars, received, pool_len>>
  BY <1>1, <1>3 DEF ServerDestroy
<1>5. /\ \A i \in DOMAIN requests' :
           /\ i \in Nat \ {0} /\ i + 1 \in DOMAIN requests
           /\ requests'[i] = requests[i + 1]
      /\ \A i \in DOMAIN requests : i # 1 => i - 1 \in DOMAIN requests' /\ requests'[i - 1] = requests[i]
  BY <1>0, <1>4, RequestsAfter
<1>6. /\ DOMAIN events' = DOMAIN events \cup {Len(events) + 1}
      /\ events'[Len(events) + 1] = [op |-> "delete_id", id |-> id]
      /\ \A i \in DOMAIN events : events'[i] = events[i]
  BY <1>0, <1>4, EventTypes, EventJoins DEF DeleteId
<1>7. /\ DOMAIN resources' = DOMAIN resources \ {id}
      /\ \A other \in DOMAIN resources' : resources'[other] = resources[other]
  BY <1>4 DEF Without, Restrict
<1>8. /\ \A i \in DOMAIN requests' : requests'[i].op # "resize" => requests'[i].id # id
      /\ \A i \in DOMAIN events : events[i].id # id
  <2>1. ASSUME NEW i \in DOMAIN events PROVE events[i].id # id
    <3>1. events[i].op \in {"release", "delete_id"}
      BY <1>0, Queues, EventFields
    <3> QED
      BY <1>3, <3>1 DEF Inv, ReleasesOK, DeleteIdsOK
  <2>2. \A i \in DOMAIN requests' : requests'[i].op # "resize" => requests'[i].id # id
    BY <1>2, <1>5 DEF Inv, OneMessagePerId
  <2> QED
    BY <2>1, <2>2
<1>9. ConnectionSurvives' /\ (pc' = "dispatch" => received' > 0) /\ TypeOK'
  BY <1>4 DEF Inv, TypeInv, ConnectionSurvives, NextRequest
<1>10. PresentsOK'
  BY <1>4, <1>5, <1>7 DEF Inv, PresentsOK, chainVars
<1>11. DestroysOK'
  BY <1>4, <1>5, <1>7, <1>8 DEF Inv, DestroysOK, chainVars
<1>12. ReleasesOK'
  BY <1>4, <1>6, <1>7, <1>8 DEF Inv, ReleasesOK, chainVars
<1>13. DeleteIdsOK'
  BY <1>3, <1>4, <1>6, <1>7 DEF Inv, DeleteIdsOK, chainVars, idVars
<1>14. OneMessagePerId'
  <2>1. ASSUME NEW i \in DOMAIN requests', NEW j \in DOMAIN requests',
               requests'[i].op # "resize", requests'[j].op # "resize", i # j
        PROVE  requests'[i].id # requests'[j].id
    BY <1>5, <2>1 DEF Inv, OneMessagePerId
  <2>2. ASSUME NEW i \in DOMAIN events', NEW j \in DOMAIN events', i # j
        PROVE  events'[i].id # events'[j].id
    BY <1>6, <1>8, <2>2 DEF Inv, OneMessagePerId
  <2> QED
    BY <2>1, <2>2 DEF OneMessagePerId
<1>15. IdsOK'
  BY <1>3, <1>4, <1>7 DEF Inv, IdsOK, chainVars, idVars
<1>16. SlotsOK' /\ SlotsCovered'
  BY <1>4 DEF Inv, TypeInv, SlotsOK, SlotsCovered, chainVars
<1>17. BuffersCovered'
  <2>1. ASSUME NEW other \in DOMAIN buffer_indices
        PROVE  \/ \E i \in DOMAIN requests' : requests'[i].op = "present" /\ requests'[i].id = other
               \/ other \in busy \ {id}
               \/ \E i \in DOMAIN events' : events'[i].op = "release" /\ events'[i].id = other
    BY <1>2, <1>3, <1>5, <1>6 DEF Inv, BuffersCovered
  <2> QED
    BY <1>4, <2>1 DEF BuffersCovered, chainVars
<1>18. PoolOK'
  BY <1>0, <1>2, <1>4, PoolUntouched DEF chainVars
<1> QED
  BY <1>9, <1>10, <1>11, <1>12, <1>13, <1>14, <1>15, <1>16, <1>17, <1>18 DEF Inv

\* The compositor releases a buffer.
LEMMA ServerReleaseInv ==
  ASSUME Inv, TypeInv', NEW id \in busy, ServerRelease(id)
  PROVE  Inv'
<1>0. TypeInv /\ TypeOK /\ id \in Nat
  BY InvTypes DEF Inv, TypeOK
<1>1. /\ id \in DOMAIN buffer_indices /\ id \in DOMAIN resources
      /\ resources[id] = buffer_indices[id]
  BY DEF Inv, IdsOK
<1>2. /\ busy' = busy \ {id}
      /\ events' = Append(events, Release(id))
      /\ UNCHANGED <<loopVars, chainVars, idVars, requests, received, resources, pool_len>>
  BY DEF ServerRelease
<1>3. /\ DOMAIN events' = DOMAIN events \cup {Len(events) + 1}
      /\ events'[Len(events) + 1] = [op |-> "release", id |-> id]
      /\ \A i \in DOMAIN events : events'[i] = events[i]
  BY <1>0, <1>2, EventTypes, EventJoins DEF Release
<1>4. \A i \in DOMAIN events : events[i].id # id
  <2>1. ASSUME NEW i \in DOMAIN events PROVE events[i].id # id
    <3>1. events[i].op \in {"release", "delete_id"}
      BY <1>0, Queues, EventFields
    <3> QED
      BY <1>1, <3>1 DEF Inv, ReleasesOK, DeleteIdsOK
  <2> QED
    BY <2>1
<1>5. ConnectionSurvives' /\ (pc' = "dispatch" => received' > 0) /\ TypeOK'
  BY <1>2 DEF Inv, TypeInv, ConnectionSurvives, loopVars
<1>6. PresentsOK' /\ DestroysOK' /\ PoolOK'
  BY <1>2 DEF Inv, PresentsOK, DestroysOK, PoolOK, Reserved, chainVars
<1>7. ReleasesOK'
  BY <1>1, <1>2, <1>3 DEF Inv, ReleasesOK, chainVars
<1>8. DeleteIdsOK'
  BY <1>2, <1>3 DEF Inv, DeleteIdsOK, chainVars, idVars
<1>9. OneMessagePerId'
  <2>1. ASSUME NEW i \in DOMAIN events', NEW j \in DOMAIN events', i # j
        PROVE  events'[i].id # events'[j].id
    BY <1>3, <1>4, <2>1 DEF Inv, OneMessagePerId
  <2> QED
    BY <1>2, <2>1 DEF Inv, OneMessagePerId
<1>10. IdsOK' /\ SlotsOK' /\ SlotsCovered'
  BY <1>2 DEF Inv, IdsOK, SlotsOK, SlotsCovered, loopVars, chainVars, idVars
<1>11. BuffersCovered'
  <2>1. ASSUME NEW other \in DOMAIN buffer_indices
        PROVE  \/ \E i \in DOMAIN requests : requests[i].op = "present" /\ requests[i].id = other
               \/ other \in busy \ {id}
               \/ \E i \in DOMAIN events' : events'[i].op = "release" /\ events'[i].id = other
    BY <1>3 DEF Inv, BuffersCovered
  <2> QED
    BY <1>2, <2>1 DEF BuffersCovered, chainVars
<1> QED
  BY <1>5, <1>6, <1>7, <1>8, <1>9, <1>10, <1>11 DEF Inv

\* Every step keeps the inductive invariant.
LEMMA InvNext == Inv /\ [Next]_vars => Inv'
<1> SUFFICES ASSUME Inv, [Next]_vars PROVE Inv'
  OBVIOUS
<1>0. TypeInv /\ TypeInv'
  BY InvTypes, TypeNext
<1>1. ASSUME NEW message \in BOOLEAN, Poll(message) PROVE Inv'
  BY <1>0, <1>1, InvUnchanged DEF Poll, invVars
<1>2. ASSUME NEW n \in 1..Len(events), Recv(n) PROVE Inv'
  BY <1>0, <1>2, InvUnchanged DEF Recv, invVars
<1>3. CASE DispatchRelease
  BY <1>0, <1>3, DispatchReleaseInv
<1>4. CASE DispatchDeleteId
  BY <1>0, <1>4, DispatchDeleteIdInv
<1>5. CASE ReuseSlot
  BY <1>0, <1>5, ReuseSlotInv
<1>6. CASE GrowPool
  BY <1>0, <1>6, GrowPoolInv
<1>7. CASE PoolOverflow
  BY <1>0, <1>7 DEF PoolOverflow, chainVars, idVars, serverVars, TypeInv, Inv, ConnectionSurvives,
     PresentsOK, DestroysOK, ReleasesOK, DeleteIdsOK, OneMessagePerId, IdsOK, SlotsOK,
     SlotsCovered, BuffersCovered, PoolOK, Reserved
<1>8. CASE SendFrame
  BY <1>0, <1>8, SendFrameInv
<1>9. CASE ServerResize
  BY <1>0, <1>9, ServerResizeInv
<1>10. CASE ServerPresent
  BY <1>0, <1>10, ServerPresentInv
<1>11. CASE ServerDestroy
  BY <1>0, <1>11, ServerDestroyInv
<1>12. ASSUME NEW id \in busy, ServerRelease(id) PROVE Inv'
  BY <1>0, <1>12, ServerReleaseInv
<1>13. CASE UNCHANGED vars
  BY <1>0, <1>13, InvUnchanged DEF vars, loopVars, invVars
<1> QED
  BY <1>1, <1>2, <1>3, <1>4, <1>5, <1>6, <1>7, <1>8, <1>9, <1>10, <1>11, <1>12, <1>13
     DEF Next, ClientStep, ServerStep, Ended
------------------------------------------------------------------------------
(* What follows *)

\* The program and the compositor agree wherever the messages between them have
\* got to (SwapChain.Inv: mapBuffer, sendBuffer, onWlBufferEvent, the id table).
THEOREM Agreement == Spec => []Inv
BY InvInit, InvNext, PTL DEF Spec

\* No frame is drawn into a slot that the compositor may still read
\* (SwapChain.NoTornFrame: mapBuffer, onWlBufferEvent).
THEOREM FramesNotTorn == Spec => []NoTornFrame
<1>1. Inv => NoTornFrame
  BY DEF Inv, NoTornFrame, Presented, PresentsOK, IdsOK, SlotsOK
<1> QED
  BY <1>1, Agreement, PTL

\* Neither side names an object that the other does not have, or memory outside
\* the pool (SwapChain.ConnectionSurvives: connectionCreateId, dispatchMessages).
THEOREM NoProtocolError == Spec => []ConnectionSurvives
<1>1. Inv => ConnectionSurvives
  BY DEF Inv
<1> QED
  BY <1>1, Agreement, PTL

\* No id is handed out again while anything names it (SwapChain.FreshIds:
\* connectionCreateId, delete_id).
THEOREM IdsFresh == Spec => []FreshIds
<1>1. ASSUME Inv PROVE FreshIds
  <2>1. TypeOK
    BY <1>1 DEF Inv
  <2>2. ASSUME NEW k \in DOMAIN free_ids, NEW i \in DOMAIN requests, requests[i].op # "resize"
        PROVE  requests[i].id # free_ids[k]
    <3>1. requests[i].op \in {"present", "destroy"}
      BY <2>1, <2>2, Queues, RequestFields
    <3> QED
      BY <1>1, <3>1 DEF Inv, PresentsOK, DestroysOK, IdsOK
  <2>3. ASSUME NEW k \in DOMAIN free_ids, NEW i \in DOMAIN events
        PROVE  events[i].id # free_ids[k]
    <3>1. events[i].op \in {"release", "delete_id"}
      BY <2>1, Queues, EventFields
    <3> QED
      BY <1>1, <3>1 DEF Inv, ReleasesOK, DeleteIdsOK, IdsOK
  <2> QED
    BY <1>1, <2>2, <2>3 DEF Inv, IdsOK, FreshIds
<1> QED
  BY <1>1, Agreement, PTL

\* Every slot ever used is free, drawn into or sent, and none is two of these
\* (SwapChain.SlotsAccounted: mapBuffer, sendBuffer, onWlBufferEvent).
THEOREM SlotsAccountedFor == Spec => []SlotsAccounted
<1>1. ASSUME Inv PROVE SlotsAccounted
  <2>1. TypeOK
    BY <1>1 DEF Inv
  <2> DEFINE free  == ToSet(free_buffers)
             drawn == {mapped} \ {NoSlot}
             sent  == {buffer_indices[id] : id \in DOMAIN buffer_indices}
  <2>2. free = {free_buffers[i] : i \in DOMAIN free_buffers}
    BY <2>1, Queues DEF ToSet
  <2>3. free \cup drawn \cup sent \subseteq 0..(next_frame_index - 1)
    BY <1>1, <2>1, <2>2, Queues, SMTT(60) DEF Inv, SlotsOK, TypeOK, IsIdMap
  <2>4. 0..(next_frame_index - 1) \subseteq free \cup drawn \cup sent
    <3> SUFFICES ASSUME NEW slot \in 0..(next_frame_index - 1)
                 PROVE  slot \in free \cup drawn \cup sent
      OBVIOUS
    <3>1. slot # NoSlot
      BY <2>1 DEF TypeOK, NoSlot
    <3>2. \/ slot = mapped
          \/ \E i \in DOMAIN free_buffers : free_buffers[i] = slot
          \/ \E id \in DOMAIN buffer_indices : buffer_indices[id] = slot
      BY <1>1 DEF Inv, SlotsCovered
    <3>3. CASE slot = mapped
      BY <3>1, <3>3
    <3>4. CASE \E i \in DOMAIN free_buffers : free_buffers[i] = slot
      BY <2>2, <3>4
    <3>5. CASE \E id \in DOMAIN buffer_indices : buffer_indices[id] = slot
      BY <3>5
    <3> QED
      BY <3>2, <3>3, <3>4, <3>5
  <2>5. free \cap drawn = {} /\ free \cap sent = {} /\ drawn \cap sent = {}
    BY <1>1, <2>2 DEF Inv, SlotsOK
  <2>6. IsInjective(free_buffers) /\ IsInjective(buffer_indices)
    BY <1>1 DEF Inv, SlotsOK, IsInjective
  <2> QED
    BY <2>3, <2>4, <2>5, <2>6 DEF SlotsAccounted
<1> QED
  BY <1>1, Agreement, PTL

------------------------------------------------------------------------------
(* The steps of BufferOwnership, and the growth of the pool *)

\* A slot that is presented is in a buffer that is sent.
LEMMA PresentedIsSent ==
  ASSUME Inv, NEW slot, Presented(slot)
  PROVE  \E id \in DOMAIN buffer_indices :
           /\ buffer_indices[id] = slot
           /\ \/ id \in busy
              \/ \E i \in DOMAIN requests : requests[i].op = "present" /\ requests[i].id = id
BY DEF Inv, PresentsOK, IdsOK, Presented

\* And the slot of a buffer that is sent or busy is presented.
LEMMA SentIsPresented ==
  ASSUME Inv, NEW id \in DOMAIN buffer_indices,
         \/ id \in busy
         \/ \E i \in DOMAIN requests : requests[i].op = "present" /\ requests[i].id = id
  PROVE  Presented(buffer_indices[id])
BY DEF Inv, PresentsOK, IdsOK, Presented

\* A slot that is free or mapped is not presented, nor is one never used.
LEMMA NotPresented ==
  ASSUME Inv
  PROVE  /\ \A i \in DOMAIN free_buffers : ~Presented(free_buffers[i])
         /\ mapped # NoSlot => ~Presented(mapped)
         /\ ~Presented(next_frame_index)
<1>1. next_frame_index \in Nat /\ \A id \in DOMAIN buffer_indices : buffer_indices[id] < next_frame_index
  BY DEF Inv, TypeOK, SlotsOK
<1>2. next_frame_index # next_frame_index - 1 /\ ~(next_frame_index < next_frame_index)
  BY <1>1
<1> QED
  BY <1>1, <1>2, PresentedIsSent DEF Inv, SlotsOK

\* Owners change with the slot mapped and the slots presented alone.
LEMMA SameOwner ==
  ASSUME mapped' = mapped, \A slot \in Slots : Presented(slot)' <=> Presented(slot)
  PROVE  Owner' = Owner
BY DEF Owner
------------------------------------------------------------------------------
(* The steps of SwapChain are steps of BufferOwnership *)

\* A slot that nobody has becomes the client's.
LEMMA TakeStep ==
  ASSUME Inv, mapped = NoSlot, NEW slot \in Nat, ~Presented(slot), mapped' = slot,
         \A s \in Slots : Presented(s)' <=> Presented(s)
  PROVE  [Ownership!Next]_Owner
<1>1. CASE slot \in Slots
  <2>1. Owner[slot] = "program"
    BY <1>1 DEF Owner, NoSlot
  <2>2. \A other \in Slots : Owner[other] # "drawing"
    BY DEF Owner, Slots, NoSlot
  <2>3. Owner' = [Owner EXCEPT ![slot] = "drawing"]
    <3>1. \A s \in Slots : s # NoSlot
      BY DEF Slots, NoSlot
    <3> QED
      BY <1>1, <3>1 DEF Owner
  <2> QED
    BY <1>1, <2>1, <2>2, <2>3 DEF Ownership!Next, Ownership!Take
<1>2. CASE slot \notin Slots
  <2>1. \A s \in Slots : s # NoSlot
    BY DEF Slots, NoSlot
  <2>2. Owner' = Owner
    BY <1>2, <2>1 DEF Owner
  <2> QED
    BY <2>2
<1> QED
  BY <1>1, <1>2

\* mapBuffer, of a free slot, is such a step.
LEMMA ReuseSlotStep ==
  ASSUME Inv, ReuseSlot
  PROVE  [Ownership!Next]_Owner
<1>1. /\ mapped = NoSlot /\ mapped' = Last(free_buffers) /\ free_buffers # <<>>
      /\ UNCHANGED <<requests, resources, busy>>
  BY InvTypes DEF ReuseSlot, PopSlot, TypeInv, serverVars
<1>2. free_buffers \in Seq(Nat)
  BY DEF Inv, TypeOK
<1>3. /\ Last(free_buffers) \in Nat /\ Len(free_buffers) \in DOMAIN free_buffers
      /\ Last(free_buffers) = free_buffers[Len(free_buffers)]
  BY <1>1, <1>2, FrontFacts
<1>4. ~Presented(Last(free_buffers))
  BY <1>3, NotPresented
<1>5. \A slot \in Slots : Presented(slot)' <=> Presented(slot)
  BY <1>1 DEF Presented
<1> QED
  BY <1>1, <1>3, <1>4, <1>5, TakeStep

\* And of a new one.
LEMMA GrowPoolStep ==
  ASSUME Inv, GrowPool
  PROVE  [Ownership!Next]_Owner
<1>0. TypeOK /\ next_frame_index \in Nat
  BY DEF Inv, TypeOK
<1>1. /\ mapped = NoSlot /\ mapped' = next_frame_index /\ memory_len = next_frame_index
      /\ UNCHANGED <<resources, busy>>
  BY InvTypes DEF Inv, PoolOK, GrowPool, TakeNewSlot, TypeInv, serverVars
<1>2. requests' = Append(requests, Resize(next_frame_index + 1))
  BY <1>0, <1>1 DEF GrowPool
<1>3. /\ DOMAIN requests' = DOMAIN requests \cup {Len(requests) + 1}
      /\ requests'[Len(requests) + 1].op = "resize"
      /\ \A i \in DOMAIN requests : requests'[i] = requests[i]
  BY <1>0, <1>2, RequestTypes, RequestJoins DEF Resize
<1>4. \A slot \in Slots : Presented(slot)' <=> Presented(slot)
  BY <1>1, <1>3 DEF Presented
<1> QED
  BY <1>0, <1>1, <1>4, NotPresented, TakeStep

\* Sending a frame hands the slot over.
LEMMA SendFrameStep ==
  ASSUME Inv, SendFrame
  PROVE  [Ownership!Next]_Owner
<1>0. TypeOK /\ TypeInv /\ mapped \in Nat /\ mapped # NoSlot
  BY InvTypes DEF Inv, SendFrame, TypeInv, TypeOK
<1>1. PICK id : id = NewId
  OBVIOUS
<1>2. /\ id \in Nat /\ CreateId /\ mapped' = NoSlot
      /\ requests' = Append(requests, Present(id, mapped))
      /\ UNCHANGED <<resources, busy>>
  BY <1>1, NewIdIsFresh DEF SendFrame, serverVars
<1>3. /\ DOMAIN requests' = DOMAIN requests \cup {Len(requests) + 1}
      /\ requests'[Len(requests) + 1] = [op |-> "present", id |-> id, slot |-> mapped]
      /\ \A i \in DOMAIN requests : requests'[i] = requests[i]
  BY <1>0, <1>2, RequestTypes, RequestJoins DEF Present
<1>4. \A slot \in Slots : Presented(slot)' <=> Presented(slot) \/ slot = mapped
  BY <1>2, <1>3 DEF Presented
<1>5. \A slot \in Slots : slot # NoSlot
  BY DEF Slots, NoSlot
<1>6. CASE mapped \in Slots
  <2>1. Owner[mapped] = "drawing"
    BY <1>6 DEF Owner
  <2>2. Owner' = [Owner EXCEPT ![mapped] = "compositor"]
    BY <1>2, <1>4, <1>5, <1>6 DEF Owner
  <2> QED
    BY <1>6, <2>1, <2>2 DEF Ownership!Next, Ownership!Submit
<1>7. CASE mapped \notin Slots
  <2>1. Owner' = Owner
    BY <1>2, <1>4, <1>5, <1>7 DEF Owner
  <2> QED
    BY <2>1
<1> QED
  BY <1>6, <1>7

\* The compositor's mapping changes no owner.
LEMMA ServerResizeStep ==
  ASSUME Inv, ServerResize
  PROVE  Owner' = Owner
<1>0. TypeInv /\ flushed > 0 /\ requests[1].op = "resize"
  BY InvTypes, RequestAtHead DEF ServerResize, Handle
<1>1. CASE NextRequest
  <2>1. \A slot \in Slots : Presented(slot)' <=> Presented(slot)
    BY <1>0, <1>1, RequestsAfter DEF ServerResize, ProtocolError, Presented, serverVars
  <2> QED
    BY <2>1, SameOwner DEF ServerResize, chainVars
<1>2. CASE ProtocolError
  BY <1>2, SameOwner DEF ServerResize, ProtocolError, Presented, serverVars, chainVars
<1> QED
  BY <1>1, <1>2 DEF ServerResize

\* Nor does the arrival of a frame.
LEMMA ServerPresentStep ==
  ASSUME Inv, Inv', ServerPresent
  PROVE  Owner' = Owner
<1>0. TypeInv /\ flushed > 0 /\ requests[1].op = "present" /\ Head(requests) = requests[1]
  BY InvTypes, RequestAtHead DEF ServerPresent, Handle
<1>1. CASE NextRequest /\ ~ProtocolError
  <2>1. PICK id, slot : id = requests[1].id /\ slot = requests[1].slot
    OBVIOUS
  <2>2. resources' = With(resources, id, slot) /\ busy' = busy \cup {id} /\ id \notin DOMAIN resources
    BY <1>0, <1>1, <2>1 DEF ServerPresent
  <2>3. resources'[id] = slot /\ \A other \in DOMAIN resources : resources'[other] = resources[other]
    BY <2>2 DEF With
  <2>4. \A other \in busy : other \in DOMAIN resources
    BY DEF Inv, IdsOK
  <2>5. ASSUME NEW s \in Slots PROVE Presented(s)' <=> Presented(s)
    <3>1. (\E i \in DOMAIN requests : requests[i].op = "present" /\ requests[i].slot = s)
            <=> \/ \E i \in DOMAIN requests' : requests'[i].op = "present" /\ requests'[i].slot = s
                \/ slot = s
      BY <1>0, <1>1, <2>1, RequestsAfter
    <3>2. (\E other \in busy' : resources'[other] = s)
            <=> (\E other \in busy : resources[other] = s) \/ slot = s
      BY <2>2, <2>3, <2>4
    <3> QED
      BY <3>1, <3>2 DEF Presented
  <2> QED
    BY <2>5, SameOwner DEF ServerPresent, chainVars
<1>2. CASE ProtocolError
  BY <1>2, SameOwner DEF ServerPresent, ProtocolError, Presented, serverVars, chainVars
<1> QED
  BY <1>1, <1>2 DEF ServerPresent

\* Nor does the end of a buffer.
LEMMA ServerDestroyStep ==
  ASSUME Inv, ServerDestroy
  PROVE  Owner' = Owner
<1>0. TypeInv /\ flushed > 0 /\ requests[1].op = "destroy" /\ Head(requests) = requests[1]
      /\ 1 \in DOMAIN requests
  BY InvTypes, RequestAtHead DEF ServerDestroy, Handle
<1>1. PICK id : id = requests[1].id
  OBVIOUS
<1>2. id \in DOMAIN resources /\ id \notin busy
  BY <1>0, <1>1 DEF Inv, DestroysOK, IdsOK
<1>3. NextRequest /\ resources' = Without(resources, id) /\ busy' = busy
  BY <1>0, <1>1, <1>2 DEF ServerDestroy
<1>4. \A other \in busy : resources'[other] = resources[other]
  BY <1>2, <1>3 DEF Without, Restrict, Inv, IdsOK
<1>5. ASSUME NEW s \in Slots PROVE Presented(s)' <=> Presented(s)
  <2>1. (\E i \in DOMAIN requests : requests[i].op = "present" /\ requests[i].slot = s)
          <=> \E i \in DOMAIN requests' : requests'[i].op = "present" /\ requests'[i].slot = s
    BY <1>0, <1>3, RequestsAfter
  <2> QED
    BY <1>3, <1>4, <2>1 DEF Presented
<1> QED
  BY <1>5, SameOwner DEF ServerDestroy, chainVars

\* A release gives the slot back.
LEMMA ServerReleaseStep ==
  ASSUME Inv, Inv', NEW id \in busy, ServerRelease(id)
  PROVE  [Ownership!Next]_Owner
<1>1. /\ busy' = busy \ {id}
      /\ UNCHANGED <<mapped, buffer_indices, requests, resources>>
  BY DEF ServerRelease, chainVars
<1>2. /\ id \in DOMAIN buffer_indices /\ id \in DOMAIN resources
      /\ resources[id] = buffer_indices[id]
      /\ \A other \in DOMAIN buffer_indices :
           buffer_indices[other] = buffer_indices[id] => other = id
      /\ buffer_indices[id] # mapped
  BY DEF Inv, IdsOK, SlotsOK
<1>3. PICK slot : slot = buffer_indices[id]
  OBVIOUS
<1>4. Presented(slot) /\ slot # mapped
  BY <1>2, <1>3, SentIsPresented
<1>5. ~Presented(slot)'
  BY <1>1, <1>2, <1>3 DEF Inv, PresentsOK, IdsOK, Presented
<1>6. \A s \in Slots : s # slot => (Presented(s)' <=> Presented(s))
  BY <1>1, <1>2, <1>3 DEF Presented
<1>7. CASE slot \in Slots
  <2>1. Owner[slot] = "compositor"
    BY <1>4, <1>7 DEF Owner
  <2>2. Owner' = [Owner EXCEPT ![slot] = "program"]
    BY <1>1, <1>4, <1>5, <1>6, <1>7 DEF Owner
  <2> QED
    BY <1>7, <2>1, <2>2 DEF Ownership!Next, Ownership!GiveBack
<1>8. CASE slot \notin Slots
  <2>1. \A s \in Slots : Presented(s)' <=> Presented(s)
    BY <1>6, <1>8
  <2> QED
    BY <1>1, <2>1, SameOwner
<1> QED
  BY <1>7, <1>8

\* At first nobody has a slot.
LEMMA OwnershipInit == Init => Ownership!Init
<1> SUFFICES ASSUME Init PROVE Ownership!Init
  OBVIOUS
<1>1. \A slot \in Slots : slot # mapped /\ ~Presented(slot)
  BY DEF Init, Slots, NoSlot, Presented
<1> QED
  BY <1>1 DEF Ownership!Init, Owner

\* Every step is one of BufferOwnership, or changes no owner.
LEMMA OwnershipStep == Inv /\ Inv' /\ [Next]_vars => [Ownership!Next]_Owner
<1> SUFFICES ASSUME Inv, Inv', [Next]_vars PROVE [Ownership!Next]_Owner
  OBVIOUS
<1>0. ASSUME UNCHANGED <<mapped, requests, resources, busy>> PROVE Owner' = Owner
  BY <1>0, SameOwner DEF Presented
<1>1. ASSUME NEW message \in BOOLEAN, Poll(message) PROVE Owner' = Owner
  BY <1>0, <1>1 DEF Poll, chainVars, serverVars
<1>2. ASSUME NEW n \in 1..Len(events), Recv(n) PROVE Owner' = Owner
  BY <1>0, <1>2 DEF Recv, chainVars, serverVars
<1>3. ASSUME DispatchRelease PROVE Owner' = Owner
  <2>1. UNCHANGED <<mapped, resources, busy>>
    BY <1>3 DEF DispatchRelease, serverVars
  <2>2. \A slot \in Slots : Presented(slot)' <=> Presented(slot)
    <3>1. CASE UNCHANGED requests
      BY <2>1, <3>1 DEF Presented
    <3>2. CASE requests' = Append(requests, Destroy(Head(events).id))
      <4>1. TypeOK /\ Head(events).id \in Nat
        BY <1>3, InvTypes, EventAtHead, EventFields DEF Inv, DispatchRelease
      <4>2. /\ DOMAIN requests' = DOMAIN requests \cup {Len(requests) + 1}
            /\ requests'[Len(requests) + 1].op = "destroy"
            /\ \A i \in DOMAIN requests : requests'[i] = requests[i]
        BY <3>2, <4>1, RequestTypes, RequestJoins DEF Destroy
      <4> QED
        BY <2>1, <4>2 DEF Presented
    <3> QED
      BY <1>3, <3>1, <3>2 DEF DispatchRelease
  <2> QED
    BY <2>1, <2>2, SameOwner
<1>4. ASSUME DispatchDeleteId PROVE Owner' = Owner
  BY <1>0, <1>4 DEF DispatchDeleteId, chainVars, serverVars
<1>5. ASSUME PoolOverflow PROVE Owner' = Owner
  BY <1>0, <1>5 DEF PoolOverflow, chainVars, serverVars
<1>6. ASSUME UNCHANGED vars PROVE Owner' = Owner
  BY <1>0, <1>6 DEF vars, chainVars, serverVars
<1> QED
  BY <1>1, <1>2, <1>3, <1>4, <1>5, <1>6, ReuseSlotStep, GrowPoolStep, SendFrameStep,
     ServerResizeStep, ServerPresentStep, ServerDestroyStep, ServerReleaseStep
     DEF Next, ClientStep, ServerStep, Ended
------------------------------------------------------------------------------
\* Slots change hands only as BufferOwnership allows (SwapChain.OwnershipSpec:
\* mapBuffer takes one of the program's, sendBuffer gives it away, and only the
\* compositor gives it back).
THEOREM ImplementsOwnership == Spec => OwnershipSpec
<1>1. Init => Ownership!Init
  BY OwnershipInit
<1>2. Inv /\ Inv' /\ [Next]_vars => [Ownership!Next]_Owner
  BY OwnershipStep
<1> QED
  BY <1>1, <1>2, Agreement, PTL DEF Spec, OwnershipSpec, Ownership!Spec

\* The pool grows only when no slot is the program's or on its way back
\* (SwapChain.PoolGrowsOnlyWhenAllOut: mapBuffer).
THEOREM GrowsOnlyWhenAllOut == Spec => PoolGrowsOnlyWhenAllOut
<1>1. ASSUME Inv, [Next]_vars, next_frame_index' > next_frame_index,
             NEW slot \in 0..(next_frame_index - 1)
      PROVE  \/ Presented(slot)
             \/ \E i \in DOMAIN events : /\ events[i].op = "release"
                                         /\ buffer_indices[events[i].id] = slot
  <2>1. next_frame_index \in Nat
    BY <1>1 DEF Inv, TypeOK
  <2>2. GrowPool
    BY <1>1, <2>1 DEF Next, ClientStep, ServerStep, Ended, Poll, Recv, DispatchRelease, DispatchDeleteId,
       ReuseSlot, PoolOverflow, SendFrame, ServerResize, ServerPresent, ServerDestroy, ServerRelease,
       vars, chainVars
  <2>3. free_buffers = <<>> /\ mapped = NoSlot /\ slot # NoSlot
    BY <1>1, <2>2, InvTypes DEF GrowPool, NeedsSlot, TypeInv, NoSlot
  <2>4. PICK id \in DOMAIN buffer_indices : buffer_indices[id] = slot
    BY <1>1, <2>3 DEF Inv, SlotsCovered
  <2> QED
    BY <1>1, <2>4, SentIsPresented DEF Inv, BuffersCovered
<1>2. Inv /\ [Next]_vars =>
        [next_frame_index' > next_frame_index =>
           \A slot \in 0..(next_frame_index - 1) :
             \/ Presented(slot)
             \/ \E i \in DOMAIN events : /\ events[i].op = "release"
                                         /\ buffer_indices[events[i].id] = slot]_vars
  BY <1>1
<1> QED
  BY <1>2, Agreement, PTL DEF Spec, PoolGrowsOnlyWhenAllOut
------------------------------------------------------------------------------
(* Ids: how many are ever used *)

\* The destruction of the one stays before the presentation of the other when a request
\* is written, other than this destruction.
LEMMA DestroyedFirstWritten ==
  ASSUME NEW q \in Seq(Requests), NEW r \in Requests, NEW gone, NEW id,
         DestroyedFirst(gone, id, q), ~(r.op = "destroy" /\ r.id = gone)
  PROVE  DestroyedFirst(gone, id, Append(q, r))
<1>1. /\ DOMAIN q = 1..Len(q) /\ Len(q) \in Nat /\ DOMAIN Append(q, r) = 1..(Len(q) + 1)
      /\ Append(q, r)[Len(q) + 1] = r
      /\ \A i \in 1..Len(q) : Append(q, r)[i] = q[i]
  BY AppendFacts
<1>2. ASSUME NEW i \in DOMAIN Append(q, r), Append(q, r)[i].op = "destroy", Append(q, r)[i].id = gone
      PROVE  \E j \in DOMAIN Append(q, r) : i < j /\ Append(q, r)[j].op = "present" /\ Append(q, r)[j].id = id
  <2>1. i \in DOMAIN q /\ q[i] = Append(q, r)[i]
    BY <1>1, <1>2
  <2>2. PICK j \in DOMAIN q : i < j /\ q[j].op = "present" /\ q[j].id = id
    BY <1>2, <2>1 DEF DestroyedFirst
  <2> QED
    BY <1>1, <2>2
<1> QED
  BY <1>2 DEF DestroyedFirst

\* What is presented now is presented after every destruction requested so far.
LEMMA PresentedLast ==
  ASSUME NEW q \in Seq(Requests), NEW r \in Requests, NEW gone, NEW id, r.op = "present", r.id = id
  PROVE  DestroyedFirst(gone, id, Append(q, r))
<1>1. /\ Len(q) \in Nat /\ DOMAIN Append(q, r) = 1..(Len(q) + 1) /\ Append(q, r)[Len(q) + 1] = r
  BY AppendFacts
<1>2. ASSUME NEW i \in DOMAIN Append(q, r), Append(q, r)[i].op = "destroy"
      PROVE  i < Len(q) + 1
  <2>1. i # Len(q) + 1
    BY <1>1, <1>2
  <2> QED
    BY <1>1, <2>1
<1> QED
  BY <1>1, <1>2 DEF DestroyedFirst

\* The order stays when the first request is handled.
LEMMA DestroyedFirstHandled ==
  ASSUME NEW q \in Seq(Requests), q # <<>>, NEW gone, NEW id, DestroyedFirst(gone, id, q)
  PROVE  DestroyedFirst(gone, id, Tail(q))
<1>1. /\ DOMAIN q = 1..Len(q) /\ Len(q) \in Nat /\ DOMAIN Tail(q) = 1..(Len(q) - 1)
      /\ \A i \in 1..(Len(q) - 1) : Tail(q)[i] = q[i + 1]
  BY TailFacts
<1>2. ASSUME NEW i \in DOMAIN Tail(q), Tail(q)[i].op = "destroy", Tail(q)[i].id = gone
      PROVE  \E j \in DOMAIN Tail(q) : i < j /\ Tail(q)[j].op = "present" /\ Tail(q)[j].id = id
  <2>1. i + 1 \in DOMAIN q /\ q[i + 1] = Tail(q)[i]
    BY <1>1
  <2>2. PICK j \in DOMAIN q : i + 1 < j /\ q[j].op = "present" /\ q[j].id = id
    BY <1>2, <2>1 DEF DestroyedFirst
  <2>3. j - 1 \in DOMAIN Tail(q) /\ i < j - 1 /\ Tail(q)[j - 1] = q[j]
    BY <1>1, <2>2
  <2> QED
    BY <2>2, <2>3
<1> QED
  BY <1>2 DEF DestroyedFirst

\* The order of the events stays when one comes, other than that the one is forgotten.
LEMMA ForgottenFirstSent ==
  ASSUME NEW q \in Seq(Events), NEW e \in Events, NEW gone, NEW id, ForgottenFirst(gone, id, q),
         e.id # gone \/ \A j \in DOMAIN q : ~(q[j].op = "release" /\ q[j].id = id),
         e.op = "release" => e.id # gone
  PROVE  ForgottenFirst(gone, id, Append(q, e))
<1>1. /\ DOMAIN q = 1..Len(q) /\ Len(q) \in Nat /\ DOMAIN Append(q, e) = 1..(Len(q) + 1)
      /\ Append(q, e)[Len(q) + 1] = e
      /\ \A i \in 1..Len(q) : Append(q, e)[i] = q[i]
  BY AppendFacts
<1>2. ASSUME NEW i \in DOMAIN Append(q, e), NEW j \in DOMAIN Append(q, e),
             Append(q, e)[i].id = gone, Append(q, e)[j].op = "release", Append(q, e)[j].id = id
      PROVE  i < j
  <2>1. CASE i \in DOMAIN q /\ j \in DOMAIN q
    BY <1>1, <1>2, <2>1 DEF ForgottenFirst
  <2>2. CASE i \in DOMAIN q /\ j = Len(q) + 1
    BY <1>1, <2>2
  <2>3. CASE i = Len(q) + 1
    <3>1. e.id = gone /\ e.op # "release"
      BY <1>1, <1>2, <2>3
    <3>2. j \in DOMAIN q /\ Append(q, e)[j] = q[j]
      BY <1>1, <1>2, <3>1
    <3> QED
      BY <1>2, <3>1, <3>2
  <2> QED
    BY <1>1, <2>1, <2>2, <2>3
<1> QED
  BY <1>2 DEF ForgottenFirst

\* And when the program has handled the first.
LEMMA ForgottenFirstHandled ==
  ASSUME NEW q \in Seq(Events), q # <<>>, NEW gone, NEW id, ForgottenFirst(gone, id, q)
  PROVE  ForgottenFirst(gone, id, Tail(q))
<1>1. /\ DOMAIN q = 1..Len(q) /\ Len(q) \in Nat /\ DOMAIN Tail(q) = 1..(Len(q) - 1)
      /\ \A i \in 1..(Len(q) - 1) : Tail(q)[i] = q[i + 1]
  BY TailFacts
<1>2. ASSUME NEW i \in DOMAIN Tail(q), NEW j \in DOMAIN Tail(q),
             Tail(q)[i].id = gone, Tail(q)[j].op = "release", Tail(q)[j].id = id
      PROVE  i < j
  <2>1. i + 1 \in DOMAIN q /\ j + 1 \in DOMAIN q /\ q[i + 1] = Tail(q)[i] /\ q[j + 1] = Tail(q)[j]
    BY <1>1
  <2>2. i + 1 < j + 1
    BY <1>2, <2>1 DEF ForgottenFirst
  <2> QED
    BY <1>1, <2>2
<1> QED
  BY <1>2 DEF ForgottenFirst

\* What the ids are about.
idsVars == <<requests, events, idVars, buffer_indices, next_frame_index>>

\* What takes no slot and no id leaves the ids as they are.
LEMMA IdsUnchanged ==
  ASSUME IdsFollowSlots, UNCHANGED idsVars
  PROVE  IdsFollowSlots'
<1>1. Awaited' = Awaited
  BY DEF idsVars, idVars, Awaited
<1>2. IdsCovered'
  BY <1>1 DEF idsVars, idVars, IdsCovered, IdsFollowSlots
<1>3. PICK slot \in [Awaited -> 0..(next_frame_index - 1)] : FollowSlots(slot)
  BY DEF IdsFollowSlots
<1>4. FollowSlots(slot)'
  BY <1>1, <1>3 DEF idsVars, idVars, FollowSlots
<1> QED
  BY <1>1, <1>2, <1>3, <1>4 DEF idsVars, IdsFollowSlots

\* The slots of those still awaited stay, if the messages stay in order.
LEMMA SlotsStay ==
  ASSUME NEW slot, FollowSlots(slot), Awaited' \subseteq Awaited,
         next_frame_index \in Nat, next_frame_index' \in Nat, next_frame_index <= next_frame_index',
         \A gone \in Awaited', id \in DOMAIN buffer_indices' :
           buffer_indices'[id] = slot[gone] =>
             DestroyedFirst(gone, id, requests') /\ ForgottenFirst(gone, id, events')
  PROVE  (\E s \in [Awaited -> 0..(next_frame_index - 1)] : FollowSlots(s))'
<1>0. PICK s : s = [gone \in Awaited' |-> slot[gone]]
  OBVIOUS
<1>1. \A gone \in Awaited' : s[gone] = slot[gone] /\ gone \in Awaited
  BY <1>0
<1>2. s \in [Awaited' -> 0..(next_frame_index' - 1)]
  <2>1. \A gone \in Awaited' : slot[gone] \in 0..(next_frame_index' - 1)
    BY <1>1 DEF FollowSlots
  <2> QED
    BY <1>0, <2>1
<1>3. FollowSlots(s)'
  <2>1. \A gone, other \in Awaited' : s[gone] = s[other] => gone = other
    BY <1>1 DEF FollowSlots
  <2>2. \A gone \in Awaited', id \in DOMAIN buffer_indices' :
          buffer_indices'[id] = s[gone] =>
            DestroyedFirst(gone, id, requests') /\ ForgottenFirst(gone, id, events')
    BY <1>1
  <2> QED
    BY <1>2, <2>1, <2>2 DEF FollowSlots, DestroyedFirst, ForgottenFirst
<1> QED
  BY <1>2, <1>3

\* mapBuffer grows the pool: there is a slot more, and perhaps a request.
LEMMA GrowPoolIds ==
  ASSUME Inv, IdsFollowSlots, GrowPool
  PROVE  IdsFollowSlots'
<1>1. /\ TypeOK /\ requests \in Seq(Requests) /\ next_frame_index \in Nat
      /\ next_frame_index' = next_frame_index + 1
      /\ Awaited' = Awaited /\ UNCHANGED <<idVars, buffer_indices, events>>
  BY DEF Inv, TypeOK, GrowPool, TakeNewSlot, Awaited, idVars
<1>2. PICK slot \in [Awaited -> 0..(next_frame_index - 1)] : FollowSlots(slot)
  BY DEF IdsFollowSlots
<1>3. CASE UNCHANGED requests
  <2>1. IdsCovered'
    BY <1>1, <1>3 DEF IdsFollowSlots, IdsCovered, idVars
  <2>2. (\E s \in [Awaited -> 0..(next_frame_index - 1)] : FollowSlots(s))'
    BY <1>1, <1>2, <1>3, SlotsStay DEF FollowSlots
  <2> QED
    BY <2>1, <2>2 DEF IdsFollowSlots
<1>4. CASE requests' = Append(requests, Resize(next_frame_index + 1))
  <2>1. Resize(next_frame_index + 1) \in Requests /\ Resize(next_frame_index + 1).op = "resize"
    BY <1>1, RequestTypes DEF Resize
  <2>2. IdsCovered'
    <3>1. \A i \in DOMAIN requests : i \in DOMAIN requests' /\ requests'[i] = requests[i]
      BY <1>1, <1>4, <2>1, RequestJoins
    <3> QED
      BY <1>1, <3>1 DEF IdsFollowSlots, IdsCovered, idVars
  <2>3. (\E s \in [Awaited -> 0..(next_frame_index - 1)] : FollowSlots(s))'
    <3>1. ASSUME NEW gone \in Awaited', NEW id \in DOMAIN buffer_indices', buffer_indices'[id] = slot[gone]
          PROVE  DestroyedFirst(gone, id, requests') /\ ForgottenFirst(gone, id, events')
      <4>1. DestroyedFirst(gone, id, requests) /\ ForgottenFirst(gone, id, events)
        BY <1>1, <1>2, <3>1 DEF FollowSlots
      <4> QED
        BY <1>1, <1>4, <2>1, <4>1, DestroyedFirstWritten
    <3> QED
      BY <1>1, <1>2, <3>1, SlotsStay
  <2> QED
    BY <2>2, <2>3 DEF IdsFollowSlots
<1> QED
  BY <1>3, <1>4 DEF GrowPool

\* The compositor handles a request that destroys nothing.
LEMMA HandledIds ==
  ASSUME Inv, IdsFollowSlots, flushed > 0, NextRequest, Head(requests).op # "destroy",
         UNCHANGED <<events, idVars, buffer_indices, next_frame_index>>
  PROVE  IdsFollowSlots'
<1>1. /\ TypeInv /\ TypeOK /\ requests \in Seq(Requests) /\ requests # <<>> /\ next_frame_index \in Nat
      /\ requests' = Tail(requests)
      /\ Awaited' = Awaited
  BY InvTypes, RequestAtHead DEF Inv, TypeInv, TypeOK, NextRequest, Awaited, idVars
<1>2. PICK slot \in [Awaited -> 0..(next_frame_index - 1)] : FollowSlots(slot)
  BY DEF IdsFollowSlots
<1>3. IdsCovered'
  <2>1. /\ requests[1] = Head(requests)
        /\ \A i \in DOMAIN requests : i # 1 => i - 1 \in DOMAIN requests' /\ requests'[i - 1] = requests[i]
    BY <1>1, RequestsAfter
  <2>2. ASSUME NEW id \in Awaited, NEW i \in DOMAIN requests, requests[i].op = "destroy", requests[i].id = id
        PROVE  \E j \in DOMAIN requests' : requests'[j].op = "destroy" /\ requests'[j].id = id
    <3>1. i # 1
      BY <2>1, <2>2
    <3> QED
      BY <2>1, <2>2, <3>1
  <2>3. \A id \in Awaited' :
          \/ \E i \in DOMAIN requests' : requests'[i].op = "destroy" /\ requests'[i].id = id
          \/ \E i \in DOMAIN events' : events'[i].op = "delete_id" /\ events'[i].id = id
    BY <1>1, <2>2 DEF IdsFollowSlots, IdsCovered
  <2> QED
    BY <1>1, <2>3 DEF IdsFollowSlots, IdsCovered, idVars
<1>4. ASSUME NEW gone \in Awaited', NEW id \in DOMAIN buffer_indices', buffer_indices'[id] = slot[gone]
      PROVE  DestroyedFirst(gone, id, requests') /\ ForgottenFirst(gone, id, events')
  <2>1. DestroyedFirst(gone, id, requests) /\ ForgottenFirst(gone, id, events)
    BY <1>1, <1>2, <1>4 DEF FollowSlots
  <2> QED
    BY <1>1, <2>1, DestroyedFirstHandled
<1>5. (\E s \in [Awaited -> 0..(next_frame_index - 1)] : FollowSlots(s))'
  BY <1>1, <1>2, <1>4, SlotsStay
<1> QED
  BY <1>3, <1>5 DEF IdsFollowSlots

\* A buffer's destruction is on its way to the program as soon as it is done.
LEMMA ServerDestroyIds ==
  ASSUME Inv, IdsFollowSlots, ServerDestroy, status' = "running"
  PROVE  IdsFollowSlots'
<1>1. /\ TypeInv /\ TypeOK /\ requests \in Seq(Requests) /\ requests # <<>> /\ next_frame_index \in Nat
      /\ events \in Seq(Events) /\ flushed > 0
      /\ Awaited' = Awaited /\ UNCHANGED <<idVars, buffer_indices, next_frame_index>>
  BY InvTypes, RequestAtHead DEF Inv, TypeInv, TypeOK, ServerDestroy, Handle, Awaited, idVars, chainVars
<1>2. PICK dead : dead = Head(requests).id
  OBVIOUS
<1>3. /\ NextRequest /\ requests' = Tail(requests) /\ events' = Append(events, DeleteId(dead))
      /\ Head(requests).op = "destroy"
  BY <1>2 DEF ServerDestroy, ProtocolError, NextRequest, Handle
<1>4. /\ 1 \in DOMAIN requests /\ requests[1] = Head(requests)
      /\ \A i \in DOMAIN requests : i # 1 => i - 1 \in DOMAIN requests' /\ requests'[i - 1] = requests[i]
  BY <1>1, <1>3, RequestsAfter
<1>5. dead \in Nat /\ DeleteId(dead) \in Events /\ DeleteId(dead).id = dead /\ DeleteId(dead).op = "delete_id"
  BY <1>1, <1>2, <1>3, RequestAtHead, RequestFields, EventTypes DEF DeleteId
<1>6. PICK slot \in [Awaited -> 0..(next_frame_index - 1)] : FollowSlots(slot)
  BY DEF IdsFollowSlots
<1>7. IdsCovered'
  <2>1. /\ Len(events) + 1 \in DOMAIN events' /\ events'[Len(events) + 1] = DeleteId(dead)
        /\ \A i \in DOMAIN events : i \in DOMAIN events' /\ events'[i] = events[i]
    BY <1>1, <1>3, <1>5, EventJoins
  <2>2. ASSUME NEW id \in Awaited'
        PROVE  \/ \E i \in DOMAIN requests' : requests'[i].op = "destroy" /\ requests'[i].id = id
               \/ \E i \in DOMAIN events' : events'[i].op = "delete_id" /\ events'[i].id = id
    <3>1. CASE id = dead
      BY <1>5, <2>1, <3>1
    <3>2. CASE id # dead
      <4>1. ASSUME NEW i \in DOMAIN requests, requests[i].op = "destroy", requests[i].id = id
            PROVE  \E j \in DOMAIN requests' : requests'[j].op = "destroy" /\ requests'[j].id = id
        <5>1. i # 1
          BY <1>2, <1>4, <3>2, <4>1
        <5> QED
          BY <1>4, <4>1, <5>1
      <4> QED
        BY <1>1, <2>1, <2>2, <4>1 DEF IdsFollowSlots, IdsCovered
    <3> QED
      BY <3>1, <3>2
  <2> QED
    BY <1>1, <2>2 DEF IdsFollowSlots, IdsCovered, idVars
<1>8. ASSUME NEW gone \in Awaited', NEW id \in DOMAIN buffer_indices', buffer_indices'[id] = slot[gone]
      PROVE  DestroyedFirst(gone, id, requests') /\ ForgottenFirst(gone, id, events')
  <2>1. DestroyedFirst(gone, id, requests) /\ ForgottenFirst(gone, id, events)
    BY <1>1, <1>6, <1>8 DEF FollowSlots
  <2>2. dead = gone => \A j \in DOMAIN events : ~(events[j].op = "release" /\ events[j].id = id)
    <3>1. ASSUME dead = gone, NEW j \in DOMAIN events, events[j].op = "release", events[j].id = id PROVE FALSE
      <4>1. PICK k \in DOMAIN requests : requests[k].op = "present" /\ requests[k].id = id
        BY <1>2, <1>3, <1>4, <2>1, <3>1 DEF DestroyedFirst
      <4> QED
        BY <3>1, <4>1 DEF Inv, PresentsOK, ReleasesOK
    <3> QED
      BY <3>1
  <2>3. ForgottenFirst(gone, id, events')
    BY <1>1, <1>3, <1>5, <2>1, <2>2, ForgottenFirstSent
  <2> QED
    BY <1>1, <1>3, <2>1, <2>3, DestroyedFirstHandled
<1>9. (\E s \in [Awaited -> 0..(next_frame_index - 1)] : FollowSlots(s))'
  BY <1>1, <1>6, <1>8, SlotsStay
<1> QED
  BY <1>7, <1>9 DEF IdsFollowSlots

\* The compositor releases a buffer.
LEMMA ServerReleaseIds ==
  ASSUME Inv, IdsFollowSlots, NEW free \in busy, ServerRelease(free)
  PROVE  IdsFollowSlots'
<1>1. /\ TypeOK /\ next_frame_index \in Nat /\ events \in Seq(Events) /\ free \in Nat
      /\ events' = Append(events, Release(free))
      /\ Awaited' = Awaited /\ UNCHANGED <<requests, idVars, buffer_indices, next_frame_index>>
  BY DEF Inv, TypeOK, ServerRelease, Awaited, idVars, chainVars
<1>2. Release(free) \in Events /\ Release(free).id = free /\ free \in DOMAIN buffer_indices
  BY <1>1, EventTypes DEF Release, Inv, IdsOK
<1>3. PICK slot \in [Awaited -> 0..(next_frame_index - 1)] : FollowSlots(slot)
  BY DEF IdsFollowSlots
<1>4. IdsCovered'
  <2>1. \A i \in DOMAIN events : i \in DOMAIN events' /\ events'[i] = events[i]
    BY <1>1, <1>2, EventJoins
  <2> QED
    BY <1>1, <2>1 DEF IdsFollowSlots, IdsCovered, idVars
<1>5. ASSUME NEW gone \in Awaited', NEW id \in DOMAIN buffer_indices', buffer_indices'[id] = slot[gone]
      PROVE  DestroyedFirst(gone, id, requests') /\ ForgottenFirst(gone, id, events')
  <2>1. DestroyedFirst(gone, id, requests) /\ ForgottenFirst(gone, id, events)
    BY <1>1, <1>3, <1>5 DEF FollowSlots
  <2>2. free # gone
    BY <1>1, <1>2 DEF Awaited
  <2> QED
    BY <1>1, <1>2, <2>1, <2>2, ForgottenFirstSent
<1>6. (\E s \in [Awaited -> 0..(next_frame_index - 1)] : FollowSlots(s))'
  BY <1>1, <1>3, <1>5, SlotsStay
<1> QED
  BY <1>4, <1>6 DEF IdsFollowSlots

\* A frame takes a new id only when every id so far is in the table.
LEMMA SendFrameIds ==
  ASSUME Inv, IdsFollowSlots, SendFrame
  PROVE  IdsFollowSlots'
<1>1. PICK id : id = NewId
  OBVIOUS
<1>2. /\ TypeInv /\ TypeOK /\ requests \in Seq(Requests) /\ next_frame_index \in Nat /\ mapped \in Nat
      /\ CreateId /\ buffer_indices' = With(buffer_indices, id, mapped)
      /\ requests' = Append(requests, Present(id, mapped))
      /\ UNCHANGED <<next_frame_index, events>>
  BY <1>1, InvTypes DEF Inv, TypeInv, TypeOK, SendFrame
<1>3. id \in Nat /\ id \notin objects /\ objects' = objects \cup {id}
  BY <1>1, <1>2, NewIdIsFresh
<1>4. Present(id, mapped) \in Requests /\ Present(id, mapped).op = "present" /\ Present(id, mapped).id = id
  BY <1>2, <1>3, RequestTypes DEF Present
<1>5. /\ DOMAIN buffer_indices' = DOMAIN buffer_indices \cup {id} /\ id \notin DOMAIN buffer_indices
      /\ \A other \in DOMAIN buffer_indices : buffer_indices'[other] = buffer_indices[other]
  BY <1>2, <1>3 DEF With, Inv, IdsOK
<1>6. Awaited' = Awaited
  BY <1>3, <1>5 DEF Awaited, Inv, IdsOK
<1>7. \A i \in DOMAIN requests : i \in DOMAIN requests' /\ requests'[i] = requests[i]
  BY <1>2, <1>4, RequestJoins
<1>8. ASSUME NEW other \in 0..(next_id' - 1)
      PROVE  other \in objects' \/ \E i \in DOMAIN free_ids' : free_ids'[i] = other
  <2>1. free_ids \in Seq(Nat) /\ next_id \in Nat /\ DOMAIN free_ids = 1..Len(free_ids) /\ Len(free_ids) \in Nat
    BY DEF Inv, TypeOK
  <2>2. \A n \in 0..(next_id - 1) : n \in objects \/ \E i \in DOMAIN free_ids : free_ids[i] = n
    BY DEF IdsFollowSlots, IdsCovered
  <2>3. CASE free_ids = <<>>
    <3>1. next_id' = next_id + 1 /\ id = next_id /\ DOMAIN free_ids = {}
      BY <1>1, <1>2, <2>1, <2>3 DEF CreateId, NewId
    <3>2. other \in 0..(next_id - 1) \/ other = next_id
      BY <2>1, <3>1
    <3> QED
      BY <1>3, <2>2, <3>1, <3>2
  <2>4. CASE free_ids # <<>>
    <3>1. next_id' = next_id /\ free_ids' = Front(free_ids) /\ id = Last(free_ids)
      BY <1>1, <1>2, <2>4 DEF CreateId, NewId
    <3>2. /\ DOMAIN Front(free_ids) = 1..(Len(free_ids) - 1) /\ Last(free_ids) = free_ids[Len(free_ids)]
          /\ \A i \in 1..(Len(free_ids) - 1) : Front(free_ids)[i] = free_ids[i]
      BY <2>1, <2>4, FrontFacts
    <3>3. CASE other \in objects
      BY <1>3, <3>3
    <3>4. ASSUME NEW i \in DOMAIN free_ids, free_ids[i] = other
          PROVE  other = id \/ \E j \in DOMAIN free_ids' : free_ids'[j] = other
      <4>1. CASE i = Len(free_ids)
        BY <3>1, <3>2, <3>4, <4>1
      <4>2. CASE i # Len(free_ids)
        <5>1. i \in 1..(Len(free_ids) - 1)
          BY <2>1, <4>2
        <5> QED
          BY <3>1, <3>2, <3>4, <5>1
      <4> QED
        BY <4>1, <4>2
    <3> QED
      BY <1>3, <2>2, <3>1, <3>3, <3>4
  <2> QED
    BY <2>3, <2>4
<1>9. IdsCovered'
  <2>1. \A other \in Awaited' :
          \/ \E i \in DOMAIN requests' : requests'[i].op = "destroy" /\ requests'[i].id = other
          \/ \E i \in DOMAIN events' : events'[i].op = "delete_id" /\ events'[i].id = other
    BY <1>2, <1>6, <1>7 DEF IdsFollowSlots, IdsCovered
  <2> QED
    BY <1>8, <2>1 DEF IdsCovered
<1>10. PICK slot \in [Awaited -> 0..(next_frame_index - 1)] : FollowSlots(slot)
  BY DEF IdsFollowSlots
<1>11. ASSUME NEW gone \in Awaited', NEW other \in DOMAIN buffer_indices', buffer_indices'[other] = slot[gone]
       PROVE  DestroyedFirst(gone, other, requests') /\ ForgottenFirst(gone, other, events')
  <2>1. CASE other = id
    <3>1. ASSUME NEW j \in DOMAIN events, events[j].op = "release", events[j].id = id PROVE FALSE
      BY <1>5, <3>1 DEF Inv, ReleasesOK
    <3>2. ForgottenFirst(gone, other, events)
      BY <2>1, <3>1 DEF ForgottenFirst
    <3> QED
      BY <1>2, <1>4, <2>1, <3>2, PresentedLast
  <2>2. CASE other # id
    <3>1. DestroyedFirst(gone, other, requests) /\ ForgottenFirst(gone, other, events)
      BY <1>5, <1>6, <1>10, <1>11, <2>2 DEF FollowSlots
    <3> QED
      BY <1>2, <1>4, <3>1, DestroyedFirstWritten
  <2> QED
    BY <2>1, <2>2
<1>12. (\E s \in [Awaited -> 0..(next_frame_index - 1)] : FollowSlots(s))'
  BY <1>2, <1>6, <1>10, <1>11, SlotsStay
<1> QED
  BY <1>9, <1>12 DEF IdsFollowSlots

\* An id comes back.
LEMMA DispatchDeleteIdIds ==
  ASSUME Inv, IdsFollowSlots, DispatchDeleteId
  PROVE  IdsFollowSlots'
<1>1. PICK id : id = Head(events).id
  OBVIOUS
<1>2. /\ TypeInv /\ TypeOK /\ events \in Seq(Events) /\ events # <<>> /\ next_frame_index \in Nat
      /\ pc = "dispatch" /\ NextEvent /\ events' = Tail(events)
      /\ events[1].op = "delete_id" /\ events[1].id = id
      /\ objects' = objects \ {id} /\ free_ids' = Append(free_ids, id)
      /\ UNCHANGED <<next_id, buffer_indices, next_frame_index, requests>>
  BY <1>1, InvTypes, EventAtHead DEF Inv, TypeInv, TypeOK, DispatchDeleteId, ReturnId, NextEvent, chainVars
<1>3. /\ 1 \in DOMAIN events
      /\ \A i \in DOMAIN events : i # 1 => i - 1 \in DOMAIN events' /\ events'[i - 1] = events[i]
  BY <1>2, EventsAfter
<1>4. id \in objects /\ id \notin DOMAIN buffer_indices /\ id \in Nat
  BY <1>2, <1>3 DEF Inv, DeleteIdsOK, TypeOK
<1>5. Awaited' = Awaited \ {id}
  BY <1>2 DEF Awaited
<1>6. /\ free_ids \in Seq(Nat) /\ Len(free_ids) + 1 \in DOMAIN free_ids' /\ free_ids'[Len(free_ids) + 1] = id
      /\ \A i \in DOMAIN free_ids : i \in DOMAIN free_ids' /\ free_ids'[i] = free_ids[i]
  <2>1. free_ids \in Seq(Nat)
    BY DEF Inv, TypeOK
  <2> QED
    BY <1>2, <1>4, <2>1, AppendFacts
<1>7. \A other \in 0..(next_id' - 1) : other \in objects' \/ \E i \in DOMAIN free_ids' : free_ids'[i] = other
  BY <1>2, <1>6 DEF IdsFollowSlots, IdsCovered
<1>8. ASSUME NEW other \in Awaited'
      PROVE  \/ \E i \in DOMAIN requests' : requests'[i].op = "destroy" /\ requests'[i].id = other
             \/ \E i \in DOMAIN events' : events'[i].op = "delete_id" /\ events'[i].id = other
  <2>1. other \in Awaited /\ other # id
    BY <1>5, <1>8
  <2>2. ASSUME NEW i \in DOMAIN events, events[i].op = "delete_id", events[i].id = other
        PROVE  \E j \in DOMAIN events' : events'[j].op = "delete_id" /\ events'[j].id = other
    <3>1. i # 1
      BY <1>2, <2>1, <2>2
    <3> QED
      BY <1>3, <2>2, <3>1
  <2> QED
    BY <1>2, <2>1, <2>2 DEF IdsFollowSlots, IdsCovered
<1>9. PICK slot \in [Awaited -> 0..(next_frame_index - 1)] : FollowSlots(slot)
  BY DEF IdsFollowSlots
<1>10. ASSUME NEW gone \in Awaited', NEW other \in DOMAIN buffer_indices', buffer_indices'[other] = slot[gone]
       PROVE  DestroyedFirst(gone, other, requests') /\ ForgottenFirst(gone, other, events')
  <2>1. DestroyedFirst(gone, other, requests) /\ ForgottenFirst(gone, other, events)
    BY <1>2, <1>5, <1>9, <1>10 DEF FollowSlots
  <2> QED
    BY <1>2, <2>1, ForgottenFirstHandled
<1>11. (\E s \in [Awaited -> 0..(next_frame_index - 1)] : FollowSlots(s))'
  <2>1. Awaited' \subseteq Awaited
    BY <1>5
  <2>2. \A gone \in Awaited', other \in DOMAIN buffer_indices' :
          buffer_indices'[other] = slot[gone] =>
            DestroyedFirst(gone, other, requests') /\ ForgottenFirst(gone, other, events')
    BY <1>10
  <2>3. next_frame_index \in Nat /\ next_frame_index' = next_frame_index
    BY <1>2
  <2> QED
    BY <1>9, <2>1, <2>2, <2>3, SlotsStay
<1> QED
  BY <1>7, <1>8, <1>11 DEF IdsFollowSlots, IdsCovered

\* When a buffer is released, no destroyed buffer of its slot is awaited any more.
LEMMA DispatchReleaseIds ==
  ASSUME Inv, IdsFollowSlots, DispatchRelease, status' = "running"
  PROVE  IdsFollowSlots'
<1>1. PICK id : id = Head(events).id
  OBVIOUS
<1>2. /\ TypeInv /\ TypeOK /\ events \in Seq(Events) /\ events # <<>> /\ next_frame_index \in Nat
      /\ requests \in Seq(Requests) /\ pc = "dispatch"
      /\ events[1].op = "release" /\ events[1].id = id /\ id \in Nat
      /\ UNCHANGED <<next_frame_index, idVars>>
  BY <1>1, InvTypes, EventAtHead, EventFields DEF Inv, TypeInv, TypeOK, DispatchRelease
<1>3. 1 \in DOMAIN events
  BY <1>2
<1>4. id \in DOMAIN buffer_indices /\ id \in DOMAIN resources /\ id \in objects
  BY <1>2, <1>3 DEF Inv, ReleasesOK, IdsOK
<1>5. /\ NextEvent /\ events' = Tail(events) /\ requests' = Append(requests, Destroy(id))
      /\ buffer_indices' = Without(buffer_indices, id)
  BY <1>1, <1>4 DEF DispatchRelease, NextEvent, ReclaimSlot
<1>6. /\ DOMAIN buffer_indices' = DOMAIN buffer_indices \ {id}
      /\ \A other \in DOMAIN buffer_indices \ {id} : buffer_indices'[other] = buffer_indices[other]
      /\ buffer_indices[id] \in Nat /\ buffer_indices[id] < next_frame_index
  <2>1. IsIdMap(buffer_indices)
    BY <1>2 DEF TypeOK
  <2> QED
    BY <1>4, <1>5, <2>1, IdMapWithout DEF IsIdMap, Inv, SlotsOK
<1>7. Awaited' = Awaited \cup {id} /\ id \notin Awaited
  BY <1>2, <1>4, <1>6 DEF Awaited, idVars
<1>8. \A i \in DOMAIN events : i # 1 => i - 1 \in DOMAIN events' /\ events'[i - 1] = events[i]
  BY <1>2, <1>5, EventsAfter
<1>9. Destroy(id) \in Requests /\ Destroy(id).op = "destroy" /\ Destroy(id).id = id
  BY <1>2, RequestTypes DEF Destroy
<1>10. /\ Len(requests) + 1 \in DOMAIN requests' /\ requests'[Len(requests) + 1] = Destroy(id)
       /\ \A i \in DOMAIN requests : i \in DOMAIN requests' /\ requests'[i] = requests[i]
  BY <1>2, <1>5, <1>9, RequestJoins
<1>11. IdsCovered'
  <2>1. ASSUME NEW other \in Awaited'
        PROVE  \/ \E i \in DOMAIN requests' : requests'[i].op = "destroy" /\ requests'[i].id = other
               \/ \E i \in DOMAIN events' : events'[i].op = "delete_id" /\ events'[i].id = other
    <3>1. CASE other = id
      BY <1>9, <1>10, <3>1
    <3>2. CASE other # id
      <4>1. ASSUME NEW i \in DOMAIN events, events[i].op = "delete_id", events[i].id = other
            PROVE  \E j \in DOMAIN events' : events'[j].op = "delete_id" /\ events'[j].id = other
        <5>1. i # 1
          BY <1>2, <4>1
        <5> QED
          BY <1>8, <4>1, <5>1
      <4> QED
        BY <1>7, <1>10, <2>1, <3>2, <4>1 DEF IdsFollowSlots, IdsCovered
    <3> QED
      BY <3>1, <3>2
  <2> QED
    BY <1>2, <2>1 DEF IdsFollowSlots, IdsCovered, idVars
<1>12. PICK slot \in [Awaited -> 0..(next_frame_index - 1)] : FollowSlots(slot)
  BY DEF IdsFollowSlots
<1>13. ASSUME NEW gone \in Awaited PROVE slot[gone] # buffer_indices[id]
  <2> SUFFICES ASSUME slot[gone] = buffer_indices[id] PROVE FALSE
    OBVIOUS
  <2>1. DestroyedFirst(gone, id, requests) /\ ForgottenFirst(gone, id, events)
    BY <1>4, <1>12, <1>13 DEF FollowSlots
  <2>2. CASE \E i \in DOMAIN requests : requests[i].op = "destroy" /\ requests[i].id = gone
    <3>1. PICK j \in DOMAIN requests : requests[j].op = "present" /\ requests[j].id = id
      BY <2>1, <2>2 DEF DestroyedFirst
    <3> QED
      BY <1>4, <3>1 DEF Inv, PresentsOK
  <2>3. CASE \E i \in DOMAIN events : events[i].op = "delete_id" /\ events[i].id = gone
    <3>1. PICK i \in DOMAIN events : events[i].op = "delete_id" /\ events[i].id = gone
      BY <2>3
    <3>2. i < 1 /\ i \in Nat \ {0}
      BY <1>2, <1>3, <2>1, <3>1, Queues DEF ForgottenFirst
    <3> QED
      BY <3>2
  <2> QED
    BY <2>2, <2>3 DEF IdsFollowSlots, IdsCovered
<1>14. PICK s : s = [gone \in Awaited' |-> IF gone = id THEN buffer_indices[id] ELSE slot[gone]]
  OBVIOUS
<1>15. s[id] = buffer_indices[id] /\ \A gone \in Awaited : s[gone] = slot[gone]
  BY <1>7, <1>14
<1>16. s \in [Awaited' -> 0..(next_frame_index' - 1)]
  <2>1. buffer_indices[id] \in 0..(next_frame_index - 1)
    BY <1>2, <1>6
  <2>2. \A gone \in Awaited : slot[gone] \in 0..(next_frame_index - 1)
    OBVIOUS
  <2> QED
    BY <1>2, <1>7, <1>14, <2>1, <2>2
<1>17. \A gone, other \in Awaited' : s[gone] = s[other] => gone = other
  BY <1>7, <1>12, <1>13, <1>15 DEF FollowSlots
<1>18. ASSUME NEW gone \in Awaited', NEW other \in DOMAIN buffer_indices', buffer_indices'[other] = s[gone]
       PROVE  DestroyedFirst(gone, other, requests') /\ ForgottenFirst(gone, other, events')
  <2>1. other \in DOMAIN buffer_indices /\ other # id /\ buffer_indices[other] = s[gone]
    BY <1>6, <1>18
  <2>2. gone # id
    BY <1>4, <1>15, <2>1 DEF Inv, SlotsOK
  <2>3. DestroyedFirst(gone, other, requests) /\ ForgottenFirst(gone, other, events)
    BY <1>7, <1>12, <1>15, <1>18, <2>1, <2>2 DEF FollowSlots
  <2> QED
    BY <1>2, <1>5, <1>9, <2>2, <2>3, DestroyedFirstWritten, ForgottenFirstHandled
<1>19. FollowSlots(s)'
  BY <1>16, <1>17, <1>18 DEF FollowSlots, DestroyedFirst, ForgottenFirst
<1> QED
  BY <1>11, <1>16, <1>19 DEF IdsFollowSlots

\* Each of the first ids has a place: the slot of its buffer, which is not the one drawn into,
\* or a slot that no other id without a buffer has.
IdsPlaced(next, slots, drawn, table, sent, slot) ==
  /\ \A id \in 0..(next - 1) : id \in table
  /\ \A id \in table : id \in DOMAIN sent => sent[id] \in 0..(slots - 1) /\ sent[id] # drawn
  /\ \A id \in table \ DOMAIN sent : slot[id] \in 0..(slots - 1)
  /\ \A id, other \in DOMAIN sent : sent[id] = sent[other] => id = other
  /\ \A id, other \in table \ DOMAIN sent : slot[id] = slot[other] => id = other

\* Twice the slots but one are places for all ids, if each finds one of its own.
LEMMA IdsFit ==
  ASSUME NEW next \in Nat, NEW slots \in Nat, NEW drawn \in 0..(slots - 1), NEW table, NEW sent, NEW slot,
         IdsPlaced(next, slots, drawn, table, sent, slot)
  PROVE  next < 2 * slots
<1> DEFINE S == 0..(next - 1)
           A == 0..(2 * slots - 1)
           T == A \ {drawn}
           place == [id \in S |-> IF id \in DOMAIN sent THEN sent[id] ELSE slots + slot[id]]
<1>1. slots > 0 /\ drawn \in A
  OBVIOUS
<1>2. IsFiniteSet(S) /\ Cardinality(S) = next
  <2>1. 0 \in Int /\ next - 1 \in Int /\ (0 > next - 1 => next = 0) /\ next - 1 - 0 + 1 = next
    OBVIOUS
  <2> QED
    BY <2>1, FS_Interval
<1>3. IsFiniteSet(T) /\ Cardinality(T) = 2 * slots - 1
  <2>1. 0 \in Int /\ 2 * slots - 1 \in Int /\ ~(0 > 2 * slots - 1) /\ 2 * slots - 1 - 0 + 1 = 2 * slots
    BY <1>1
  <2>2. IsFiniteSet(A) /\ Cardinality(A) = 2 * slots
    BY <2>1, FS_Interval
  <2> HIDE DEF A
  <2> QED
    BY <1>1, <2>2, FS_RemoveElement
<1>4. \A id \in S : id \in DOMAIN sent => place[id] = sent[id] /\ sent[id] \in 0..(slots - 1) /\ sent[id] # drawn
  BY DEF IdsPlaced
<1>5. \A id \in S : id \notin DOMAIN sent => place[id] = slots + slot[id] /\ slot[id] \in 0..(slots - 1)
  BY DEF IdsPlaced
<1>6. \A id \in S : place[id] \in T
  <2>1. ASSUME NEW id \in S, id \in DOMAIN sent PROVE place[id] \in T
    BY <1>4, <2>1
  <2>2. ASSUME NEW id \in S, id \notin DOMAIN sent PROVE place[id] \in T
    BY <1>5, <2>2
  <2> QED
    BY <2>1, <2>2
<1>7. place \in [S -> T]
  BY <1>6
<1>8. \A id, other \in S : place[id] = place[other] => id = other
  <2> SUFFICES ASSUME NEW id \in S, NEW other \in S, place[id] = place[other] PROVE id = other
    OBVIOUS
  <2>1. CASE id \in DOMAIN sent /\ other \in DOMAIN sent
    BY <1>4, <2>1 DEF IdsPlaced
  <2>2. CASE id \notin DOMAIN sent /\ other \notin DOMAIN sent
    <3>1. slot[id] = slot[other] /\ id \in table /\ other \in table
      BY <1>5, <2>2 DEF IdsPlaced
    <3> QED
      BY <2>2, <3>1 DEF IdsPlaced
  <2>3. CASE ~(id \in DOMAIN sent <=> other \in DOMAIN sent)
    BY <1>4, <1>5, <2>3
  <2> QED
    BY <2>1, <2>2, <2>3
<1> HIDE DEF S, T, place
<1>9. ~(Cardinality(T) < Cardinality(S))
  BY <1>2, <1>3, <1>7, <1>8, FS_PigeonHole
<1> QED
  BY <1>2, <1>3, <1>9

\* A new id is taken only when there is a slot for which there is none yet.
LEMMA SendFrameBound ==
  ASSUME Inv, IdsFollowSlots, IdsBounded, SendFrame
  PROVE  IdsBounded'
<1>1. /\ TypeInv /\ next_id \in Nat /\ next_frame_index \in Nat /\ objects \subseteq Nat /\ IsIdMap(buffer_indices)
      /\ mapped \in 0..(next_frame_index - 1)
  BY InvTypes DEF Inv, TypeInv, TypeOK, SendFrame, SlotsOK
<1>2. next_frame_index' = next_frame_index /\ CreateId
  BY DEF SendFrame
<1>3. CASE free_ids # <<>>
  BY <1>2, <1>3 DEF CreateId, IdsBounded
<1>4. CASE free_ids = <<>>
  <2>1. next_id' = next_id + 1
    BY <1>2, <1>4 DEF CreateId
  <2>2. \A id \in 0..(next_id - 1) : id \in objects
    BY <1>4 DEF IdsFollowSlots, IdsCovered
  <2>3. PICK slot \in [Awaited -> 0..(next_frame_index - 1)] : FollowSlots(slot)
    BY DEF IdsFollowSlots
  <2>4. /\ \A id \in objects \ DOMAIN buffer_indices : slot[id] \in 0..(next_frame_index - 1)
        /\ \A id, other \in objects \ DOMAIN buffer_indices : slot[id] = slot[other] => id = other
    BY <2>3 DEF Awaited, FollowSlots
  <2>5. \A id \in objects : id \in DOMAIN buffer_indices =>
          buffer_indices[id] \in 0..(next_frame_index - 1) /\ buffer_indices[id] # mapped
    BY <1>1 DEF IsIdMap, Inv, SlotsOK
  <2>6. \A id, other \in DOMAIN buffer_indices : buffer_indices[id] = buffer_indices[other] => id = other
    BY DEF Inv, SlotsOK
  <2>7. IdsPlaced(next_id, next_frame_index, mapped, objects, buffer_indices, slot)
    BY <2>2, <2>4, <2>5, <2>6 DEF IdsPlaced
  <2>8. next_id < 2 * next_frame_index
    BY <1>1, <2>7, IdsFit
  <2> QED
    BY <1>1, <1>2, <2>1, <2>8 DEF IdsBounded
<1> QED
  BY <1>3, <1>4

\* The steps that handle a message or end the program.
LEMMA IdsNext == Inv /\ IdsFollowSlots /\ IdsBounded /\ [Next]_vars => IdsFollowSlots' /\ IdsBounded'
<1> SUFFICES ASSUME Inv, IdsFollowSlots, IdsBounded, [Next]_vars PROVE IdsFollowSlots' /\ IdsBounded'
  OBVIOUS
<1>1. next_id \in Nat /\ next_frame_index \in Nat
  BY DEF Inv, TypeOK
<1>2. CASE UNCHANGED idsVars
  BY <1>2, IdsUnchanged DEF IdsBounded, idsVars, idVars
<1>3. CASE SendFrame
  BY <1>3, SendFrameIds, SendFrameBound
<1>4. CASE GrowPool
  <2>1. next_frame_index' = next_frame_index + 1 /\ next_id' = next_id
    BY <1>4 DEF GrowPool, TakeNewSlot, idVars
  <2> QED
    BY <1>1, <1>4, <2>1, GrowPoolIds DEF IdsBounded
<1>5. CASE DispatchDeleteId
  BY <1>5, DispatchDeleteIdIds DEF DispatchDeleteId, IdsBounded, chainVars
<1>6. CASE DispatchRelease
  <2>1. UNCHANGED <<next_id, next_frame_index>>
    BY <1>6 DEF DispatchRelease, idVars
  <2>2. CASE status' = "running"
    BY <1>6, <2>1, <2>2, DispatchReleaseIds DEF IdsBounded
  <2>3. CASE status' # "running"
    <3>1. UNCHANGED idsVars
      BY <1>6, <2>3 DEF DispatchRelease, idsVars
    <3> QED
      BY <2>1, <3>1, IdsUnchanged DEF IdsBounded
  <2> QED
    BY <2>1, <2>2, <2>3
<1>7. CASE ServerDestroy
  <2>1. UNCHANGED <<next_id, next_frame_index>>
    BY <1>7 DEF ServerDestroy, idVars, chainVars
  <2>2. CASE status' = "running"
    BY <1>7, <2>1, <2>2, ServerDestroyIds DEF IdsBounded
  <2>3. CASE status' # "running"
    <3>1. UNCHANGED idsVars
      BY <1>7, <2>3 DEF ServerDestroy, Handle, NextRequest, ProtocolError, idsVars, chainVars
    <3> QED
      BY <2>1, <3>1, IdsUnchanged DEF IdsBounded
  <2> QED
    BY <2>2, <2>3
<1>8. CASE ServerResize \/ ServerPresent
  <2>1. /\ UNCHANGED <<idVars, buffer_indices, next_frame_index>> /\ flushed > 0
        /\ Head(requests).op # "destroy"
    BY <1>8 DEF ServerResize, ServerPresent, Handle, chainVars
  <2>2. (NextRequest /\ UNCHANGED events) \/ UNCHANGED <<requests, events>>
    BY <1>8 DEF ServerResize, ServerPresent, ProtocolError
  <2> QED
    BY <1>1, <2>1, <2>2, HandledIds, IdsUnchanged DEF IdsBounded, idsVars, idVars
<1>9. CASE \E id \in busy : ServerRelease(id)
  BY <1>9, ServerReleaseIds DEF ServerRelease, IdsBounded, idVars, chainVars
<1> QED
  BY <1>2, <1>3, <1>4, <1>5, <1>6, <1>7, <1>8, <1>9
     DEF Next, ClientStep, ServerStep, Ended, Poll, Recv, ReuseSlot, PoolOverflow, vars, chainVars, idsVars

\* What bounds the ids, and the bound.
LEMMA IdsTogether == Spec => [](IdsFollowSlots /\ IdsBounded)
<1>1. Init => IdsFollowSlots /\ IdsBounded
  <2> SUFFICES ASSUME Init PROVE IdsFollowSlots /\ IdsBounded
    OBVIOUS
  <2>1. Awaited = {} /\ next_id = 0 /\ next_frame_index = 0 /\ buffer_indices = << >>
    BY DEF Init, Awaited
  <2>2. IdsCovered /\ IdsBounded
    BY <2>1 DEF IdsCovered, IdsBounded
  <2>3. PICK slot : slot = [gone \in {} |-> 0]
    OBVIOUS
  <2>4. slot \in [Awaited -> 0..(next_frame_index - 1)] /\ FollowSlots(slot)
    BY <2>1, <2>3 DEF FollowSlots
  <2> QED
    BY <2>2, <2>4 DEF IdsFollowSlots
<1> QED
  BY <1>1, IdsNext, Agreement, PTL DEF Spec

\* However long the program runs and however late the compositor answers, the ids never
\* outnumber two for each slot (SwapChain.IdsBounded: connectionCreateId, delete_id).
THEOREM IdsStayBounded == Spec => []IdsBounded
BY IdsTogether, PTL

\* The compositor's answers come in an order that leaves each slot at most one id that is
\* awaited (SwapChain.IdsFollowSlots: the queues of requests and events).
THEOREM IdsFollow == Spec => []IdsFollowSlots
BY IdsTogether, PTL
==============================================================================
