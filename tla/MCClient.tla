---------------------------------- MODULE MCClient ----------------------------------
(***************************************************************************)
(* libwayland on the client's side: threads that share a connection, the   *)
(* life of objects, roundtrips, objects made in several threads, and the   *)
(* socket a client inherits.  One of the components runs in a behaviour.   *)
(***************************************************************************)
EXTENDS Integers, Sequences, TLC, FiniteSetTheorems, TLAPS

CONSTANTS
  Threads, Proxies,            \* those that share a connection
  QueueEvents, QueueMoves,     \* bounds of EventQueues
  Callers, Main, None,         \* those that do roundtrips and make objects
  MaxTrips, MakerIds,          \* bound of Roundtrip; the ids that the compositor gives,
  MaxMade, MaxSent,            \* and bounds of ProxyQueues
  MaxFd, MaxSockets, MaxOthers \* bounds of ClientSocket

VARIABLES
  part,    \* the component that runs in this behaviour
  socket, closed, queues_sent, queues_queue, proxyQueue, moves, reader_count,
  waits, queues_last_error, queues_pc, handling, queues_handled,
  map, life_proxies, life_out, resource, life_in, fds, life_sent, life_queue,
  display_queue, running, life_last_error,
  trips_pc, trips, wrappers, callback, requests, events, trips_queue, done,
  failed,
  mutex, makers_pc, call, wrapper, makers_proxies, makers_out, makers_queue,
  served, makers_sent, makers_taken, makers_handled, makers_last_error, aborted,
  WAYLAND_SOCKET, files, count, opened, others, sockets_pc, fd, displays,
  inherited

queuesVars == <<socket, closed, queues_sent, queues_queue, proxyQueue, moves,
  reader_count, waits, queues_last_error, queues_pc, handling, queues_handled>>
lifeVars == <<map, life_proxies, life_out, resource, life_in, fds, life_sent,
  life_queue, display_queue, running, life_last_error>>
tripsVars == <<trips_pc, trips, wrappers, callback, requests, events,
  trips_queue, done, failed>>
makersVars == <<mutex, makers_pc, call, wrapper, makers_proxies, makers_out,
  makers_queue, served, makers_sent, makers_taken, makers_handled,
  makers_last_error, aborted>>
socketsVars == <<WAYLAND_SOCKET, files, count, opened, others, sockets_pc, fd,
  displays, inherited>>

\* Every proxy begins in a queue of its own.
Home == CHOOSE home \in [Proxies -> Threads] :
          \A p, q \in Proxies : home[p] = home[q] => p = q

Queues == INSTANCE EventQueues WITH
  sent <- queues_sent, queue <- queues_queue, last_error <- queues_last_error,
  pc <- queues_pc, handled <- queues_handled, Display <- "display",
  MaxEvents <- QueueEvents, MaxMoves <- QueueMoves
Life == INSTANCE ProxyLife WITH
  proxies <- life_proxies, out <- life_out, in <- life_in, sent <- life_sent,
  queue <- life_queue, last_error <- life_last_error, ClientIds <- {1, 2},
  ServerIds <- {}, MaxProxies <- 2, MaxEvents <- 2
Served == INSTANCE ProxyLife WITH
  proxies <- life_proxies, out <- life_out, in <- life_in, sent <- life_sent,
  queue <- life_queue, last_error <- life_last_error, ClientIds <- {1},
  ServerIds <- {101}, MaxProxies <- 2, MaxEvents <- 2
Reused == INSTANCE ProxyLife WITH
  proxies <- life_proxies, out <- life_out, in <- life_in, sent <- life_sent,
  queue <- life_queue, last_error <- life_last_error, ClientIds <- {1},
  ServerIds <- {}, MaxProxies <- 3, MaxEvents <- 1
Trips == INSTANCE Roundtrip WITH
  pc <- trips_pc, queue <- trips_queue, Default <- "default", Nobody <- "nobody"
Makers == INSTANCE ProxyQueues WITH
  pc <- makers_pc, proxies <- makers_proxies, out <- makers_out,
  queue <- makers_queue, sent <- makers_sent, taken <- makers_taken,
  handled <- makers_handled, last_error <- makers_last_error, Threads <- Callers,
  ServerIds <- MakerIds, MaxProxies <- MaxMade, MaxEvents <- MaxSent
Sockets == INSTANCE ClientSocket WITH
  pc <- sockets_pc

ASSUME MCClientAssumption ==
  /\ Queues!EventQueuesAssumption
  /\ Life!ProxyLifeAssumption
  /\ Served!ProxyLifeAssumption
  /\ Reused!ProxyLifeAssumption
  /\ Trips!RoundtripAssumption
  /\ Makers!ProxyQueuesAssumption
  /\ Sockets!ClientSocketAssumption

\* The parts that do not run stand in an initial state.
Init ==
  /\ part \in {"queues", "life", "served", "reused", "trips", "makers",
       "sockets"}
  /\ Queues!Init
  /\ IF part = "served" THEN Served!Init ELSE IF part = "reused" THEN Reused!Init ELSE Life!Init
  /\ Trips!Init
  /\ Makers!Init
  /\ IF part = "sockets" THEN Sockets!Init ELSE
       /\ WAYLAND_SOCKET = Sockets!Unset
       /\ files = [n \in Sockets!Fds |-> Sockets!Closed]
       /\ count = 0
       /\ opened = 0
       /\ others = {}
       /\ sockets_pc = "idle"
       /\ fd = Sockets!Unset
       /\ displays = {}
       /\ inherited = {}

Only(p) ==
  /\ part = p /\ UNCHANGED part
  /\ IF p = "queues" THEN TRUE ELSE UNCHANGED queuesVars
  /\ IF p \in {"life", "served", "reused"} THEN TRUE ELSE UNCHANGED lifeVars
  /\ IF p = "trips" THEN TRUE ELSE UNCHANGED tripsVars
  /\ IF p = "makers" THEN TRUE ELSE UNCHANGED makersVars
  /\ IF p = "sockets" THEN TRUE ELSE UNCHANGED socketsVars

Next ==
  \/ Only("queues") /\ Queues!Next
  \/ Only("life") /\ Life!Next
  \/ Only("served") /\ Served!Next
  \/ Only("reused") /\ Reused!Next
  \/ Only("trips") /\ Trips!Next
  \/ Only("makers") /\ Makers!Next
  \/ Only("sockets") /\ Sockets!Next

vars == <<part, queuesVars, lifeVars, tripsVars, makersVars, socketsVars>>

Spec == Init /\ [][Next]_vars

QueuesFairness ==
  /\ \A t \in Threads : WF_queuesVars(part = "queues" /\ Queues!Step(t))
  /\ \A t \in Threads : SF_queuesVars(part = "queues" /\ Queues!Poll(t))

ReusedFairness ==
  /\ WF_lifeVars(part = "reused" /\ Reused!Serve)
  /\ WF_lifeVars(part = "reused" /\ Reused!ServerDestroy(1))
  /\ WF_lifeVars(part = "reused" /\ Reused!Read)
  /\ WF_lifeVars(part = "reused" /\ Reused!DispatchDeleteId)

TripsFairness ==
  /\ \A t \in Callers : WF_tripsVars(part = "trips" /\ Trips!Caller(t))
  /\ WF_tripsVars(part = "trips" /\ Trips!DispatchDefault)
  /\ WF_tripsVars(part = "trips" /\ Trips!Answer)
  /\ WF_tripsVars(part = "trips" /\ Trips!Read)
------------------------------------------------------------------------------
\* No thread sleeps in read_events without one that will read, and none polls
\* while an event for it lies in a queue it has looked at
\* (wl_display_prepare_read_queue, read_events).
ReadersSound ==
  /\ Queues!TypeOK
  /\ Queues!SleepersHaveReader
  /\ Queues!NothingToMissInPoll

\* However requests, events, deletions of ids and destructions from handlers
\* cross, no proxy is used after it was freed, an event reaches the object it
\* was sent to, an id is given out again only when the server has forgotten it,
\* and descriptors stay with their events.
ObjectsSound ==
  /\ part = "life" => Life!TypeOK
  /\ part = "life" => Life!NoUseAfterFree
  /\ part = "life" => Life!EventsReachTheirObject
  /\ part = "life" => Life!FreeIdsUnknown
  /\ part = "life" => Life!FdsFollowEvents
  /\ part = "life" => Life!ConnectionSurvives
  /\ part = "served" => Served!NoUseAfterFree
  /\ part = "served" => Served!EventsReachTheirObject
  /\ part = "served" => Served!FreeIdsUnknown

\* Objects that several threads make, hand to queues and destroy: ids go out in
\* order, an object dies with its request, its events are handled by its queue's
\* thread and none before its maker is ready; and a roundtrip's answer comes
\* after all that was sent before it, to a listener that is there.
ThreadsSound ==
  /\ Makers!Inv
  /\ Makers!DestroyedWithRequest
  /\ Makers!NoEventMissed
  /\ Makers!QueuesExist
  /\ Trips!Inv

\* A socket named by WAYLAND_SOCKET is taken once: no display has another's
\* file, nobody's file is closed for it, and a connect that fails leaves none
\* open (wl_display_connect).
SocketsSound ==
  /\ Sockets!TypeOK
  /\ Sockets!DisplaysHaveSockets
  /\ Sockets!OthersKeepFiles
  /\ Sockets!NothingLeaks
  /\ Sockets!SocketsOwned
  /\ Sockets!NumbersSuffice

\* A handler never starts for an object that is destroyed, no request leaves
\* after the display's error, and a socket is marked close-on-exec before
\* another program could inherit it.
ClientSteps ==
  /\ Life!HandlersGetLiveObjects
  /\ Makers!NothingAfterError
  /\ Sockets!NotInherited

\* A thread that sleeps is woken, every event is handled, a roundtrip ends, and
\* the id of a destroyed object comes back.
ClientProceeds ==
  /\ (part = "queues" /\ QueuesFairness => Queues!SleeperWakes)
  /\ (part = "queues" /\ QueuesFairness => Queues!EventsHandled)
  /\ (part = "trips" /\ TripsFairness => Trips!RoundtripEnds)
  /\ (part = "reused" /\ ReusedFairness => Reused!IdsComeBack)

------------------------------------------------------------------------------
(* Proofs: the threads that share a connection *)

Places == Queues!Preparing \cup {"idle", "sleeping", "dispatching", "handler", "error", "failed"}

\* The threads' counting is the library's.
LEMMA SameCardinality == \A S : Queues!Cardinality(S) = Cardinality(S)
  BY Zenon DEF Cardinality, Queues!Cardinality

\* How the set of readers changes with the place of one thread.
LEMMA ReaderMoves ==
  ASSUME IsFiniteSet(Threads), queues_pc \in [Threads -> Places], NEW t \in Threads, NEW w \in Places,
         Queues!Goto(t, w)
  PROVE  /\ queues_pc' \in [Threads -> Places] /\ queues_pc'[t] = w
         /\ \A u \in Threads \ {t} : queues_pc'[u] = queues_pc[u]
         /\ Cardinality(Queues!Readers) \in 0..Cardinality(Threads)
         /\ Cardinality(Queues!Readers') \in 0..Cardinality(Threads)
         /\ queues_pc[t] \in Queues!Preparing =>
              /\ Cardinality(Queues!Readers) > 0
              /\ w \in Queues!Preparing => Queues!Readers' = Queues!Readers
              /\ w \notin Queues!Preparing => Cardinality(Queues!Readers') = Cardinality(Queues!Readers) - 1
              /\ Cardinality(Queues!Readers) = 1 => \A u \in Threads \ {t} : queues_pc[u] \notin Queues!Preparing
         /\ queues_pc[t] \notin Queues!Preparing =>
              /\ w \notin Queues!Preparing => Queues!Readers' = Queues!Readers
              /\ w \in Queues!Preparing => Cardinality(Queues!Readers') = Cardinality(Queues!Readers) + 1
<1> DEFINE R == Queues!Readers
           S == Queues!Readers'
<1>1. queues_pc' = [queues_pc EXCEPT ![t] = w]
  BY DEF Queues!Goto
<1>2. /\ queues_pc' \in [Threads -> Places] /\ queues_pc'[t] = w
      /\ \A u \in Threads \ {t} : queues_pc'[u] = queues_pc[u]
  BY <1>1
<1>3. /\ R \subseteq Threads /\ S \subseteq Threads
      /\ \A u \in Threads : (u \in R <=> queues_pc[u] \in Queues!Preparing)
      /\ \A u \in Threads : (u \in S <=> queues_pc'[u] \in Queues!Preparing)
  BY DEF Queues!Readers
<1> HIDE DEF R, S
<1>4. /\ IsFiniteSet(R) /\ Cardinality(R) <= Cardinality(Threads) /\ Cardinality(R) \in Nat
      /\ IsFiniteSet(S) /\ Cardinality(S) <= Cardinality(Threads) /\ Cardinality(S) \in Nat
      /\ Cardinality(Threads) \in Nat
  BY <1>3, FS_Subset, FS_CardinalityType
<1>5. ASSUME queues_pc[t] \in Queues!Preparing
      PROVE  /\ Cardinality(R) > 0
             /\ w \in Queues!Preparing => S = R
             /\ w \notin Queues!Preparing => Cardinality(S) = Cardinality(R) - 1
             /\ Cardinality(R) = 1 => \A u \in Threads \ {t} : queues_pc[u] \notin Queues!Preparing
  <2>1. t \in R
    BY <1>3, <1>5
  <2>2. Cardinality(R) > 0
    BY <1>4, <2>1, FS_EmptySet
  <2>3. w \in Queues!Preparing => S = R
    BY <1>2, <1>3, <2>1
  <2>4. ASSUME w \notin Queues!Preparing PROVE Cardinality(S) = Cardinality(R) - 1
    <3>1. S = R \ {t}
      BY <1>2, <1>3, <2>4
    <3> QED
      BY <1>4, <2>1, <3>1, FS_RemoveElement
  <2>5. ASSUME Cardinality(R) = 1, NEW u \in Threads \ {t} PROVE queues_pc[u] \notin Queues!Preparing
    <3>1. Cardinality(R \ {t}) = 0 /\ IsFiniteSet(R \ {t})
      BY <1>4, <2>1, <2>5, FS_RemoveElement
    <3>2. R \ {t} = {}
      BY <3>1, FS_EmptySet
    <3> QED
      BY <1>3, <3>2
  <2> QED
    BY <2>2, <2>3, <2>4, <2>5
<1>6. ASSUME queues_pc[t] \notin Queues!Preparing
      PROVE  /\ w \notin Queues!Preparing => S = R
             /\ w \in Queues!Preparing => Cardinality(S) = Cardinality(R) + 1
  <2>1. t \notin R
    BY <1>3, <1>6
  <2>2. w \notin Queues!Preparing => S = R
    BY <1>2, <1>3, <2>1
  <2>3. ASSUME w \in Queues!Preparing PROVE Cardinality(S) = Cardinality(R) + 1
    <3>1. S = R \cup {t}
      BY <1>2, <1>3, <2>3
    <3> QED
      BY <1>4, <2>1, <3>1, FS_AddElement
  <2> QED
    BY <2>2, <2>3
<1> QED
  BY <1>2, <1>4, <1>5, <1>6 DEF R, S

\* A thread goes on: the counter follows, those that wait still have a reader, and what
\* the readers have seen empty is empty.
LEMMA ThreadMoves ==
  ASSUME IsFiniteSet(Threads), Queues!Inv, NEW t \in Threads, NEW w \in Places, Queues!Goto(t, w),
         UNCHANGED proxyQueue, DOMAIN queues_queue' = DOMAIN queues_queue,
         queues_last_error' \in {"none", "EPROTO", "EPIPE", "EINVAL", "ENOMEM"},
         (queues_pc[t] \in Queues!Preparing <=> w \in Queues!Preparing) => reader_count' = reader_count,
         queues_pc[t] \in Queues!Preparing /\ w \notin Queues!Preparing => reader_count' = reader_count - 1,
         queues_pc[t] \notin Queues!Preparing /\ w \in Queues!Preparing => reader_count' = reader_count + 1,
         \A u \in waits' : u \in Threads /\ (u = t => w = "sleeping") /\ (u # t => u \in waits),
         waits' # {} => reader_count' > 0,
         w \in Queues!Preparing => queues_queue'[t] = <<>>,
         \A u \in Threads \ {t} : queues_pc[u] \in Queues!Preparing => queues_queue'[u] = <<>>
  PROVE  Queues!Inv'
<1>1. /\ reader_count = Cardinality(Queues!Readers) /\ queues_pc \in [Threads -> Places]
      /\ proxyQueue \in [Proxies -> Threads] /\ DOMAIN queues_queue = Threads \cup {"display"}
      /\ \A u \in waits : queues_pc[u] = "sleeping"
  BY SameCardinality DEF Queues!Inv, Queues!TypeOK, Queues!SleepersHaveReader, Places
<1>2. /\ queues_pc' \in [Threads -> Places] /\ queues_pc'[t] = w
      /\ \A u \in Threads \ {t} : queues_pc'[u] = queues_pc[u]
      /\ Cardinality(Queues!Readers) \in 0..Cardinality(Threads)
      /\ Cardinality(Queues!Readers') \in 0..Cardinality(Threads)
      /\ queues_pc[t] \in Queues!Preparing =>
           /\ w \in Queues!Preparing => Queues!Readers' = Queues!Readers
           /\ w \notin Queues!Preparing => Cardinality(Queues!Readers') = Cardinality(Queues!Readers) - 1
      /\ queues_pc[t] \notin Queues!Preparing =>
           /\ w \notin Queues!Preparing => Queues!Readers' = Queues!Readers
           /\ w \in Queues!Preparing => Cardinality(Queues!Readers') = Cardinality(Queues!Readers) + 1
  BY <1>1, ReaderMoves
<1>3. reader_count' = Cardinality(Queues!Readers')
  BY <1>1, <1>2
<1>4. Queues!TypeOK'
  BY <1>1, <1>2, <1>3, SameCardinality DEF Queues!TypeOK, Places
<1>5. \A u \in waits' : queues_pc'[u] = "sleeping"
  BY <1>1, <1>2
<1>6. Queues!SleepersHaveReader'
  BY <1>2, <1>3, <1>5, SameCardinality DEF Queues!SleepersHaveReader
<1>7. Queues!NothingToMissInPoll'
  BY <1>2 DEF Queues!NothingToMissInPoll
<1> QED
  BY <1>4, <1>6, <1>7 DEF Queues!Inv

\* Every step of the threads, of the compositor and of those that move a proxy to
\* another queue.
LEMMA QueuesStep ==
  ASSUME Queues!EventQueuesAssumption, Queues!Inv, Queues!Next
  PROVE  Queues!Inv'
<1> DEFINE Errors == {"none", "EPROTO", "EPIPE", "EINVAL", "ENOMEM"}
<1>1. /\ IsFiniteSet(Threads) /\ "display" \notin Threads
      /\ queues_pc \in [Threads -> Places] /\ proxyQueue \in [Proxies -> Threads]
      /\ DOMAIN queues_queue = Threads \cup {"display"} /\ waits \subseteq Threads
      /\ queues_last_error \in Errors
      /\ \A u \in waits : queues_pc[u] = "sleeping"
      /\ waits # {} => reader_count > 0
      /\ \A u \in Threads : queues_pc[u] \in Queues!Preparing => queues_queue[u] = <<>>
      /\ reader_count \in Nat
  <2>1. IsFiniteSet(Threads) /\ "display" \notin Threads
    BY DEF Queues!EventQueuesAssumption, Queues!IsFiniteSet, IsFiniteSet
  <2>2. Cardinality(Threads) \in Nat
    BY <2>1, FS_CardinalityType
  <2> QED
    BY <2>1, <2>2, SameCardinality
       DEF Queues!Inv, Queues!TypeOK, Queues!SleepersHaveReader, Queues!NothingToMissInPoll, Places
<1>2. /\ {"prepared", "polling", "readable"} = Queues!Preparing
      /\ Queues!Preparing \subseteq Places
      /\ {"idle", "sleeping", "dispatching", "handler", "error", "failed"} \cap Queues!Preparing = {}
      /\ {"idle", "sleeping", "dispatching", "handler", "error", "failed"} \subseteq Places
  BY DEF Queues!Preparing, Places
<1>3. ASSUME NEW t \in Threads, queues_pc[t] \in Queues!Preparing
      PROVE  reader_count > 0 /\ (reader_count = 1 => \A u \in Threads \ {t} : queues_pc[u] \notin Queues!Preparing)
  <2>1. Queues!Readers = {u \in Threads : queues_pc[u] \in Queues!Preparing} /\ reader_count = Cardinality(Queues!Readers)
    BY SameCardinality DEF Queues!Inv, Queues!SleepersHaveReader, Queues!Readers
  <2>2. IsFiniteSet(Queues!Readers) /\ t \in Queues!Readers
    BY <1>1, <1>3, <2>1, FS_Subset
  <2>3. IsFiniteSet(Queues!Readers \ {t}) /\ Cardinality(Queues!Readers \ {t}) = Cardinality(Queues!Readers) - 1
    BY <2>2, FS_RemoveElement
  <2>4. reader_count = 1 => Queues!Readers \ {t} = {}
    BY <2>1, <2>3, FS_EmptySet
  <2>5. reader_count # 0
    BY <2>1, <2>2, FS_EmptySet
  <2> QED
    BY <1>1, <2>1, <2>4, <2>5
<1>4. ASSUME NEW t \in Threads, Queues!PrepareRead(t)
      PROVE  Queues!Inv'
  <2>1. CASE queues_queue[t] # <<>>
    BY <1>1, <1>2, <1>4, <2>1, ThreadMoves DEF Queues!PrepareRead, Queues!routes
  <2>2. CASE queues_queue[t] = <<>>
    BY <1>1, <1>2, <1>4, <2>2, ThreadMoves DEF Queues!PrepareRead, Queues!routes
  <2> QED
    BY <2>1, <2>2
<1>5. ASSUME NEW t \in Threads, Queues!Flush(t)
      PROVE  Queues!Inv'
  BY <1>1, <1>2, <1>5, ThreadMoves DEF Queues!Flush, Queues!routes
<1>6. ASSUME NEW t \in Threads, NEW w \in {"failed", "idle"}, queues_pc[t] \in Queues!Preparing,
             Queues!cancel_read, Queues!Goto(t, w), UNCHANGED <<queues_queue, proxyQueue, queues_last_error>>
      PROVE  Queues!Inv'
  <2>1. reader_count > 0 /\ t \notin waits
    BY <1>1, <1>2, <1>3, <1>6
  <2>2. waits' \subseteq waits /\ (waits' # {} => reader_count' > 0) /\ reader_count' = reader_count - 1
    BY <1>1, <1>6, <2>1 DEF Queues!cancel_read, Queues!display_wakeup_threads
  <2> QED
    BY <1>1, <1>2, <1>6, <2>1, <2>2, ThreadMoves
<1>7. ASSUME NEW t \in Threads, Queues!FlushRefused(t) \/ Queues!PollFails(t) \/ Queues!ReadRefused(t)
      PROVE  Queues!Inv'
  BY <1>2, <1>6, <1>7 DEF Queues!FlushRefused, Queues!PollFails, Queues!ReadRefused, Queues!routes
<1>8. ASSUME NEW t \in Threads, NEW error \in {"ENOMEM", "EPIPE"}, Queues!FlushFails(t, error)
      PROVE  Queues!Inv'
  <2>1. UNCHANGED <<queues_queue, proxyQueue, reader_count, queues_pc>> /\ queues_pc[t] = "prepared"
    BY <1>8 DEF Queues!FlushFails, Queues!routes
  <2>2. Queues!Goto(t, queues_pc[t])
    BY <1>1, <2>1 DEF Queues!Goto
  <2>3. waits' = {} /\ queues_last_error' \in Errors
    BY <1>8 DEF Queues!FlushFails, Queues!display_fatal_error, Queues!display_wakeup_threads
  <2> QED
    BY <1>1, <1>2, <2>1, <2>2, <2>3, ThreadMoves
<1>9. ASSUME NEW t \in Threads, Queues!Poll(t)
      PROVE  Queues!Inv'
  BY <1>1, <1>2, <1>9, ThreadMoves DEF Queues!Poll, Queues!routes
<1>10. ASSUME NEW t \in Threads, Queues!ReadSleeps(t)
       PROVE  Queues!Inv'
  <2>1. reader_count > 1
    BY <1>1, <1>2, <1>3, <1>10 DEF Queues!ReadSleeps, Queues!LastReader
  <2> QED
    BY <1>1, <1>2, <1>10, <2>1, ThreadMoves DEF Queues!ReadSleeps, Queues!routes
<1>11. ASSUME NEW t \in Threads, NEW w \in {"failed", "dispatching"}, queues_pc[t] = "readable", Queues!LastReader,
              Queues!Goto(t, w), reader_count' = reader_count - 1, UNCHANGED proxyQueue,
              DOMAIN queues_queue' = DOMAIN queues_queue, queues_last_error' \in Errors, waits' = {}
       PROVE  Queues!Inv'
  <2>1. \A u \in Threads \ {t} : queues_pc[u] \notin Queues!Preparing
    BY <1>2, <1>3, <1>11 DEF Queues!LastReader
  <2> QED
    BY <1>1, <1>2, <1>11, <2>1, ThreadMoves
<1>12. ASSUME NEW t \in Threads, NEW n \in 1..Len(socket), Queues!ReadEvents(t, n)
       PROVE  Queues!Inv'
  <2>1. /\ queues_pc[t] = "readable" /\ Queues!LastReader /\ queues_last_error = "none"
        /\ reader_count' = reader_count - 1 /\ UNCHANGED proxyQueue
    BY <1>12 DEF Queues!ReadEvents, Queues!routes
  <2>2. \A list : DOMAIN Queues!Queued(list) = DOMAIN queues_queue
    BY DEF Queues!Queued
  <2>3. DOMAIN queues_queue' = DOMAIN queues_queue
    BY <1>12, <2>2 DEF Queues!ReadEvents
  <2>4. waits' = {} /\ queues_last_error' \in Errors
    BY <1>12, <2>1 DEF Queues!ReadEvents, Queues!display_fatal_error, Queues!display_wakeup_threads
  <2>5. Queues!Goto(t, "dispatching") \/ Queues!Goto(t, "failed")
    BY <1>12 DEF Queues!ReadEvents
  <2> QED
    BY <1>11, <2>1, <2>3, <2>4, <2>5
<1>13. ASSUME NEW t \in Threads, Queues!ReadNothing(t)
       PROVE  Queues!Inv'
  <2>1. waits' = {} /\ queues_last_error' \in Errors
    BY <1>13 DEF Queues!ReadNothing, Queues!display_fatal_error, Queues!display_wakeup_threads
  <2> QED
    BY <1>11, <1>13, <2>1 DEF Queues!ReadNothing, Queues!routes
<1>14. ASSUME NEW t \in Threads, Queues!Wake(t)
       PROVE  Queues!Inv'
  BY <1>1, <1>2, <1>14, ThreadMoves DEF Queues!Wake, Queues!routes
<1>15. ASSUME NEW t \in Threads, Queues!Dispatch(t)
       PROVE  Queues!Inv'
  <2>1. /\ queues_pc[t] = "dispatching"
        /\ UNCHANGED <<proxyQueue, reader_count, waits, queues_last_error>>
    BY <1>15 DEF Queues!Dispatch, Queues!routes
  <2>2. \/ Queues!Goto(t, "failed") /\ UNCHANGED queues_queue
        \/ Queues!Goto(t, "idle") /\ UNCHANGED queues_queue
        \/ \E q \in {"display", t} : Queues!Begin(t, q)
    BY <1>15 DEF Queues!Dispatch
  <2>3. ASSUME NEW q \in {"display", t}, Queues!Begin(t, q)
        PROVE  /\ Queues!Goto(t, "handler") /\ DOMAIN queues_queue' = DOMAIN queues_queue
               /\ \A u \in Threads \ {t} : queues_queue'[u] = queues_queue[u]
    BY <1>1, <2>3 DEF Queues!Begin
  <2>4. CASE \E q \in {"display", t} : Queues!Begin(t, q)
    BY <1>1, <1>2, <2>1, <2>3, <2>4, ThreadMoves
  <2>5. ASSUME NEW w \in {"failed", "idle"}, Queues!Goto(t, w), UNCHANGED queues_queue
        PROVE  Queues!Inv'
    BY <1>1, <1>2, <2>1, <2>5, ThreadMoves
  <2> QED
    BY <2>2, <2>4, <2>5
<1>16. ASSUME NEW t \in Threads, Queues!ErrorChecked(t)
       PROVE  Queues!Inv'
  BY <1>1, <1>2, <1>16, ThreadMoves DEF Queues!ErrorChecked, Queues!routes
<1>17. ASSUME NEW t \in Threads, Queues!ErrorStored(t) \/ Queues!Handle(t)
       PROVE  Queues!Inv'
  BY <1>1, <1>2, <1>17, ThreadMoves DEF Queues!ErrorStored, Queues!Handle, Queues!routes
<1>18. ASSUME UNCHANGED <<queues_queue, reader_count, waits, queues_last_error, queues_pc>>,
              proxyQueue' \in [Proxies -> Threads]
       PROVE  Queues!Inv'
  BY <1>18 DEF Queues!Inv, Queues!TypeOK, Queues!SleepersHaveReader, Queues!NothingToMissInPoll, Queues!Readers
<1>19. ASSUME NEW p, NEW kind, Queues!Send(p, kind)
       PROVE  Queues!Inv'
  BY <1>1, <1>18, <1>19 DEF Queues!Send, Queues!routes
<1>20. ASSUME Queues!HangUp
       PROVE  Queues!Inv'
  BY <1>1, <1>18, <1>20 DEF Queues!HangUp, Queues!routes
<1>21. ASSUME NEW p \in Proxies, NEW t \in Threads, Queues!wl_proxy_set_queue(p, t)
       PROVE  Queues!Inv'
  BY <1>1, <1>18, <1>21 DEF Queues!wl_proxy_set_queue
<1> QED
  BY <1>4, <1>5, <1>7, <1>8, <1>9, <1>10, <1>12, <1>13, <1>14, <1>15, <1>16, <1>17, <1>19, <1>20, <1>21
     DEF Queues!Next, Queues!Step

\* The threads' invariant holds whichever component runs: the others leave it alone.
LEMMA QueuesStart ==
  ASSUME Queues!EventQueuesAssumption, Queues!Init
  PROVE  Queues!Inv
<1>1. IsFiniteSet(Threads) /\ Home \in [Proxies -> Threads]
  BY DEF Queues!EventQueuesAssumption, Queues!IsFiniteSet, IsFiniteSet
<1>2. Cardinality({}) = 0 /\ Cardinality(Threads) \in Nat
  BY <1>1, FS_EmptySet, FS_CardinalityType
<1>3. Queues!Readers = {}
  BY DEF Queues!Init, Queues!Readers, Queues!Preparing
<1> QED
  BY <1>1, <1>2, <1>3, SameCardinality
     DEF Queues!Init, Queues!Inv, Queues!TypeOK, Queues!SleepersHaveReader, Queues!NothingToMissInPoll, Queues!Preparing

\* What the counter of readers, the sleepers and the queues promise one another
\* (wl_display_prepare_read_queue, wl_display_read_events, wl_display_cancel_read)
\* holds for every number of threads, objects and events, whatever fails.
THEOREM ReadersHold == Spec => []ReadersSound
<1>1. Queues!EventQueuesAssumption
  BY MCClientAssumption
<1>2. Init => Queues!Inv
  BY <1>1, QueuesStart DEF Init
<1>3. Queues!Inv /\ [Next]_vars => Queues!Inv'
  <2> SUFFICES ASSUME Queues!Inv, [Next]_vars
               PROVE  Queues!Inv'
    OBVIOUS
  <2>1. CASE UNCHANGED queuesVars
    BY <2>1 DEF queuesVars, Queues!Inv, Queues!TypeOK, Queues!SleepersHaveReader, Queues!NothingToMissInPoll,
                Queues!Readers
  <2>2. CASE Queues!Next
    BY <1>1, <2>2, QueuesStep
  <2>3. Next => Queues!Next \/ UNCHANGED queuesVars
    BY DEF Next, Only
  <2> QED
    BY <2>1, <2>2, <2>3 DEF vars
<1>4. Queues!Inv => ReadersSound
  BY DEF Queues!Inv, ReadersSound
<1> QED
  BY <1>2, <1>3, <1>4, PTL DEF Spec
------------------------------------------------------------------------------
(* Proofs: how a process comes to its socket *)

\* A set of natural numbers has a least one.
LEMMA LeastNumber ==
  ASSUME NEW S \in SUBSET Nat, S # {}
  PROVE  \E x \in S : \A y \in S : x <= y
<1> DEFINE R == {ss \in Nat \X Nat : ss[1] < ss[2]}
<1>1. IsWellFoundedOn(R, Nat)
  BY NatLessThanWellFounded, Zenon DEF OpToRel
<1> HIDE DEF R
<1>2. PICK x \in S : \A y \in S : <<y, x>> \notin R
  BY <1>1, WFMin
<1>3. \A y \in S : ~(y < x)
  BY <1>2 DEF R
<1> QED
  BY <1>3

\* So is that of the files.
LEMMA SameCardinalityOfFiles == \A S : Sockets!Cardinality(S) = Cardinality(S)
  BY Zenon DEF Cardinality, Sockets!Cardinality

\* As long as calls and files are within their bounds, the lowest closed number is not
\* the highest one there is.
LEMMA FreeNumber ==
  ASSUME Sockets!ClientSocketAssumption, Sockets!Inv,
         sockets_pc = "socket" \/ opened < MaxOthers
  PROVE  /\ Sockets!NextFd \in Sockets!Fds \ {MaxFd}
         /\ files[Sockets!NextFd] = Sockets!Closed
<1> DEFINE Free == {n \in Sockets!Fds : files[n] = Sockets!Closed}
<1>1. /\ MaxFd \in Nat /\ MaxSockets \in Nat /\ MaxOthers \in Nat /\ MaxFd > MaxSockets + MaxOthers
      /\ Sockets!Fds = 0..MaxFd
  BY DEF Sockets!ClientSocketAssumption, Sockets!Fds
<1>2. /\ IsFiniteSet(Sockets!Taken) /\ Cardinality(Sockets!Taken) \in Nat
  <2>1. Sockets!Taken \subseteq 0..MaxFd /\ IsFiniteSet(0..MaxFd)
    BY <1>1, FS_Interval DEF Sockets!Taken
  <2> QED
    BY <2>1, FS_Subset, FS_CardinalityType
<1>3. Cardinality(Sockets!Taken) < MaxFd
  <2>1. count \in 0..MaxSockets /\ opened \in 0..MaxOthers
    BY DEF Sockets!Inv, Sockets!TypeOK
  <2>2. Cardinality(Sockets!Taken) + (IF sockets_pc = "socket" THEN 1 ELSE 0) <= 1 + count + opened
    BY SameCardinalityOfFiles DEF Sockets!Inv, Sockets!NumbersSuffice
  <2> QED
    BY <1>1, <1>2, <2>1, <2>2
<1>4. PICK m \in 0..(MaxFd - 1) : files[m] = Sockets!Closed
  <2>1. Cardinality(0..(MaxFd - 1)) = MaxFd
    BY <1>1, FS_Interval
  <2>2. ~(0..(MaxFd - 1) \subseteq Sockets!Taken)
    BY <1>1, <1>2, <1>3, <2>1, FS_Subset
  <2> QED
    BY <1>1, <2>2 DEF Sockets!Taken
<1>5. m \in Free /\ Free \in SUBSET Nat
  BY <1>1, <1>4
<1>6. \E x \in Free : \A y \in Free : x <= y
  BY <1>5, LeastNumber
<1>7. Sockets!NextFd \in Free /\ \A y \in Free : Sockets!NextFd <= y
  BY <1>6 DEF Sockets!NextFd, Sockets!Min
<1> QED
  BY <1>1, <1>4, <1>5, <1>7

\* Opening a file takes one number more, closing none.
LEMMA TakenChanges ==
  ASSUME Sockets!ClientSocketAssumption, Sockets!Inv
  PROVE  /\ Sockets!Taken' \subseteq Sockets!Taken => Cardinality(Sockets!Taken') <= Cardinality(Sockets!Taken)
         /\ \A n \in Sockets!Fds : Sockets!Taken' \subseteq Sockets!Taken \cup {n} =>
              Cardinality(Sockets!Taken') <= Cardinality(Sockets!Taken) + 1
         /\ Cardinality(Sockets!Taken) \in Nat /\ Cardinality(Sockets!Taken') \in Nat
<1>1. MaxFd \in Nat /\ Sockets!Fds = 0..MaxFd
  BY DEF Sockets!ClientSocketAssumption, Sockets!Fds
<1>2. IsFiniteSet(Sockets!Taken) /\ IsFiniteSet(Sockets!Taken')
  <2>1. Sockets!Taken \subseteq 0..MaxFd /\ Sockets!Taken' \subseteq 0..MaxFd /\ IsFiniteSet(0..MaxFd)
    BY <1>1, FS_Interval DEF Sockets!Taken
  <2> QED
    BY <2>1, FS_Subset
<1>3. Cardinality(Sockets!Taken) \in Nat /\ Cardinality(Sockets!Taken') \in Nat
  BY <1>2, FS_CardinalityType
<1>4. Sockets!Taken' \subseteq Sockets!Taken => Cardinality(Sockets!Taken') <= Cardinality(Sockets!Taken)
  BY <1>2, FS_Subset
<1>5. ASSUME NEW n \in Sockets!Fds, Sockets!Taken' \subseteq Sockets!Taken \cup {n}
      PROVE  Cardinality(Sockets!Taken') <= Cardinality(Sockets!Taken) + 1
  <2>1. /\ IsFiniteSet(Sockets!Taken \cup {n})
        /\ Cardinality(Sockets!Taken \cup {n}) = Cardinality(Sockets!Taken) \/ Cardinality(Sockets!Taken \cup {n}) = Cardinality(Sockets!Taken) + 1
    BY <1>2, FS_AddElement
  <2>2. Cardinality(Sockets!Taken') <= Cardinality(Sockets!Taken \cup {n})
    BY <1>5, <2>1, FS_Subset
  <2> QED
    BY <1>3, <2>1, <2>2
<1> QED
  BY <1>3, <1>4, <1>5

FileSet == [kind : {"none", "given", "socket", "other"}, i : Nat, cloexec : BOOLEAN]

\* What belongs to somebody is open and of his kind.
LEMMA OwnersFacts ==
  ASSUME Sockets!ClientSocketAssumption, Sockets!Inv
  PROVE  /\ files \in [Sockets!Fds -> FileSet] /\ MaxFd \in Sockets!Fds /\ 0 \in Sockets!Fds /\ MaxFd # 0
         /\ Sockets!Fds \subseteq Nat /\ Sockets!Closed \in FileSet /\ Sockets!Closed.kind = "none"
         /\ \A d \in displays : /\ d.fd \in Sockets!Fds /\ files[d.fd].kind \in {"given", "socket"}
                                /\ d.file = <<files[d.fd].kind, files[d.fd].i>>
         /\ \A f \in others : /\ f.fd \in Sockets!Fds /\ files[f.fd].kind = "other"
                              /\ f.file = <<files[f.fd].kind, files[f.fd].i>>
<1>1. MaxFd \in Nat /\ MaxFd # 0 /\ Sockets!Fds = 0..MaxFd
  BY DEF Sockets!ClientSocketAssumption, Sockets!Fds
<1>2. files \in [Sockets!Fds -> FileSet]
  BY DEF Sockets!Inv, Sockets!TypeOK, FileSet
<1>3. Sockets!Closed \in FileSet /\ Sockets!Closed.kind = "none"
  BY DEF Sockets!Closed, FileSet
<1>4. ASSUME NEW d \in displays
      PROVE  /\ d.fd \in Sockets!Fds /\ files[d.fd].kind \in {"given", "socket"}
             /\ d.file = <<files[d.fd].kind, files[d.fd].i>>
  <2>1. d.fd \in Sockets!Fds /\ d.file \in {"given", "socket"} \X Nat
    BY <1>4 DEF Sockets!Inv, Sockets!TypeOK
  <2>2. d.file = <<files[d.fd].kind, files[d.fd].i>>
    BY <1>4 DEF Sockets!Inv, Sockets!DisplaysHaveSockets, Sockets!Name
  <2> QED
    BY <2>1, <2>2
<1>5. ASSUME NEW f \in others
      PROVE  /\ f.fd \in Sockets!Fds /\ files[f.fd].kind = "other"
             /\ f.file = <<files[f.fd].kind, files[f.fd].i>>
  <2>1. f.fd \in Sockets!Fds /\ f.file \in {"other"} \X Nat
    BY <1>5 DEF Sockets!Inv, Sockets!TypeOK
  <2>2. f.file = <<files[f.fd].kind, files[f.fd].i>>
    BY <1>5 DEF Sockets!Inv, Sockets!OthersKeepFiles, Sockets!Name
  <2> QED
    BY <2>1, <2>2
<1> QED
  BY <1>1, <1>2, <1>3, <1>4, <1>5

\* What a step has to keep: of two displays with one number there is only one file.
LEMMA SocketsKept ==
  ASSUME Sockets!TypeOK', Sockets!OthersKeepFiles', Sockets!SocketsOwned', Sockets!NumbersSuffice',
         \A d \in displays' : d.file = <<files'[d.fd].kind, files'[d.fd].i>>
  PROVE  Sockets!Inv'
<1>1. displays' \subseteq [fd : Sockets!Fds, file : {"given", "socket"} \X Nat]
  BY DEF Sockets!TypeOK
<1>2. \A d \in displays' : d.file[1] # "other"
  BY <1>1
<1>3. ASSUME NEW d \in displays', NEW e \in displays', d # e PROVE d.fd # e.fd
  <2>1. d = [fd |-> d.fd, file |-> d.file] /\ e = [fd |-> e.fd, file |-> e.file]
    BY <1>1, <1>3
  <2>2. d.fd = e.fd => d.file = e.file
    BY <1>3
  <2> QED
    BY <1>3, <2>1, <2>2
<1>4. Sockets!DisplaysHaveSockets'
  BY <1>2, <1>3 DEF Sockets!DisplaysHaveSockets, Sockets!Name
<1>5. Sockets!NothingLeaks'
  BY DEF Sockets!NothingLeaks, Sockets!SocketsOwned, Sockets!Holding
<1> QED
  BY <1>4, <1>5 DEF Sockets!Inv

\* Steps that open and close no file, and start no program.
LEMMA FilesLeft ==
  ASSUME Sockets!ClientSocketAssumption, Sockets!Inv, UNCHANGED <<files, opened, others, displays>>,
         WAYLAND_SOCKET' \in Sockets!Fds \cup {Sockets!Unset, Sockets!NotNumber},
         fd' \in Sockets!Fds \cup {Sockets!Unset}, count' \in 0..MaxSockets,
         sockets_pc' \in {"idle", "given", "unset", "socket", "connect", "display"},
         Sockets!SocketsOwned',
         (IF sockets_pc' = "socket" THEN 1 ELSE 0) + count <= (IF sockets_pc = "socket" THEN 1 ELSE 0) + count'
  PROVE  Sockets!Inv'
<1>1. Sockets!TypeOK'
  BY DEF Sockets!Inv, Sockets!TypeOK
<1>2. Sockets!OthersKeepFiles' /\ \A d \in displays' : d.file = <<files'[d.fd].kind, files'[d.fd].i>>
  BY OwnersFacts DEF Sockets!Inv, Sockets!OthersKeepFiles
<1>3. Sockets!Taken' = Sockets!Taken
  BY DEF Sockets!Taken
<1>4. Sockets!NumbersSuffice'
  <2>1. Cardinality(Sockets!Taken) \in Nat /\ count \in Nat /\ opened \in Nat /\ count' \in Nat
    BY TakenChanges DEF Sockets!Inv, Sockets!TypeOK
  <2>2. Cardinality(Sockets!Taken) + (IF sockets_pc = "socket" THEN 1 ELSE 0) <= 1 + count + opened
    BY SameCardinalityOfFiles DEF Sockets!Inv, Sockets!NumbersSuffice
  <2> DEFINE before == IF sockets_pc = "socket" THEN 1 ELSE 0
             after == IF sockets_pc' = "socket" THEN 1 ELSE 0
  <2>3. before \in Nat /\ after \in Nat /\ after + count <= before + count'
    OBVIOUS
  <2>4. Cardinality(Sockets!Taken) + before <= 1 + count + opened
    BY <2>2
  <2> HIDE DEF before, after
  <2>5. Cardinality(Sockets!Taken) + after <= 1 + count' + opened
    <3>1. \A c, b, a, n, m, o \in Nat : c + b <= 1 + n + o /\ a + n <= b + m => c + a <= 1 + m + o
      OBVIOUS
    <3> QED
      BY <2>1, <2>3, <2>4, <3>1
  <2> QED
    BY <1>3, <2>5, SameCardinalityOfFiles DEF Sockets!NumbersSuffice, after
<1> QED
  BY <1>1, <1>2, <1>4, SocketsKept

\* wl_display_connect() reads the variable, changes it, or gives up.
LEMMA ConnectSteps ==
  ASSUME Sockets!ClientSocketAssumption, Sockets!Inv,
         Sockets!Connect \/ Sockets!UnsetEnv
  PROVE  Sockets!Inv'
<1>1. /\ WAYLAND_SOCKET \in Sockets!Fds \cup {Sockets!Unset, Sockets!NotNumber}
      /\ fd \in Sockets!Fds \cup {Sockets!Unset} /\ count \in 0..MaxSockets /\ MaxSockets \in Nat
  BY DEF Sockets!Inv, Sockets!TypeOK, Sockets!ClientSocketAssumption
<1>2. Sockets!SocketsOwned
  BY DEF Sockets!Inv
<1>3. ASSUME Sockets!Connect
      PROVE  Sockets!Inv'
  <2>1. /\ sockets_pc = "idle" /\ count' = count + 1 /\ count < MaxSockets /\ fd' = Sockets!Number
        /\ UNCHANGED <<files, opened, others, displays, WAYLAND_SOCKET>>
    BY <1>3 DEF Sockets!Connect
  <2>2. Sockets!Number \in Sockets!Fds \cup {Sockets!Unset}
    BY DEF Sockets!Number
  <2>3. /\ sockets_pc' \in {"idle", "socket", "given"}
        /\ sockets_pc' = "socket" => WAYLAND_SOCKET = Sockets!Unset
        /\ sockets_pc' = "given" => WAYLAND_SOCKET \in Sockets!Fds /\ Sockets!Number = WAYLAND_SOCKET
    BY <1>1, <1>3 DEF Sockets!Connect, Sockets!Number
  <2>4. Sockets!SocketsOwned'
    BY <1>2, <2>1, <2>3 DEF Sockets!SocketsOwned, Sockets!Holding
  <2> QED
    BY <1>1, <2>1, <2>2, <2>3, <2>4, FilesLeft
<1>4. ASSUME Sockets!UnsetEnv
      PROVE  Sockets!Inv'
  <2>1. /\ sockets_pc = "unset" /\ sockets_pc' = "display" /\ WAYLAND_SOCKET' = Sockets!Unset
        /\ UNCHANGED <<files, opened, others, displays, count, fd>>
    BY <1>4 DEF Sockets!UnsetEnv, Sockets!EnvironmentAfter
  <2>2. Sockets!Unset \notin Sockets!Fds
    BY OwnersFacts DEF Sockets!Unset
  <2>3. Sockets!SocketsOwned'
    BY <1>2, <2>1, <2>2 DEF Sockets!SocketsOwned, Sockets!Holding
  <2> QED
    BY <1>1, <2>1, <2>3, FilesLeft
<1> QED
  BY <1>3, <1>4

\* A number gets another file, or none.
LEMMA NumberChanges ==
  ASSUME Sockets!ClientSocketAssumption, Sockets!Inv,
         NEW n \in Sockets!Fds, NEW r \in FileSet, files' = [files EXCEPT ![n] = r]
  PROVE  /\ files' \in [Sockets!Fds -> FileSet] /\ files'[n] = r
         /\ \A m \in Sockets!Fds \ {n} : files'[m] = files[m]
         /\ Cardinality(Sockets!Taken') \in Nat /\ Cardinality(Sockets!Taken) \in Nat
         /\ Cardinality(Sockets!Taken') <= Cardinality(Sockets!Taken) + 1
         /\ r = Sockets!Closed \/ files[n] # Sockets!Closed => Cardinality(Sockets!Taken') <= Cardinality(Sockets!Taken)
<1>1. files \in [Sockets!Fds -> FileSet]
  BY OwnersFacts
<1>2. /\ files' \in [Sockets!Fds -> FileSet] /\ files'[n] = r
      /\ \A m \in Sockets!Fds \ {n} : files'[m] = files[m]
  BY <1>1
<1>3. Sockets!Taken' \subseteq Sockets!Taken \cup {n}
  BY <1>2 DEF Sockets!Taken
<1>4. r = Sockets!Closed \/ files[n] # Sockets!Closed => Sockets!Taken' \subseteq Sockets!Taken
  BY <1>2 DEF Sockets!Taken
<1> QED
  BY <1>2, <1>3, <1>4, TakenChanges

\* A file is closed that belongs to none of those who are left.
LEMMA FileCloses ==
  ASSUME Sockets!ClientSocketAssumption, Sockets!Inv,
         NEW n \in Sockets!Fds, files' = Sockets!Close(n),
         displays' \subseteq displays, others' \subseteq others,
         \A d \in displays' : d.fd # n, \A f \in others' : f.fd # n,
         UNCHANGED <<WAYLAND_SOCKET, count, opened, fd>>,
         sockets_pc' = "idle" \/ UNCHANGED sockets_pc, Sockets!SocketsOwned'
  PROVE  Sockets!Inv'
<1>1. /\ files' \in [Sockets!Fds -> FileSet] /\ files'[n] = Sockets!Closed
      /\ \A m \in Sockets!Fds \ {n} : files'[m] = files[m]
      /\ Cardinality(Sockets!Taken') \in Nat /\ Cardinality(Sockets!Taken) \in Nat
      /\ Cardinality(Sockets!Taken') <= Cardinality(Sockets!Taken)
  BY OwnersFacts, NumberChanges DEF Sockets!Close
<1>2. files'[MaxFd] = Sockets!Closed
  BY <1>1, OwnersFacts DEF Sockets!Inv, Sockets!TypeOK
<1>3. Sockets!TypeOK'
  BY <1>1, <1>2 DEF Sockets!Inv, Sockets!TypeOK, FileSet
<1>4. \A d \in displays' : d.file = <<files'[d.fd].kind, files'[d.fd].i>>
  BY <1>1, OwnersFacts
<1>5. Sockets!OthersKeepFiles'
  BY <1>1, OwnersFacts DEF Sockets!OthersKeepFiles, Sockets!Name
<1>6. Sockets!NumbersSuffice'
  <2>1. count \in Nat /\ opened \in Nat
    BY DEF Sockets!Inv, Sockets!TypeOK
  <2>2. Cardinality(Sockets!Taken) + (IF sockets_pc = "socket" THEN 1 ELSE 0) <= 1 + count + opened
    BY SameCardinalityOfFiles DEF Sockets!Inv, Sockets!NumbersSuffice
  <2>3. Cardinality(Sockets!Taken') + (IF sockets_pc' = "socket" THEN 1 ELSE 0) <= 1 + count + opened
    BY <1>1, <2>1, <2>2
  <2> QED
    BY <2>3, SameCardinalityOfFiles DEF Sockets!NumbersSuffice
<1> QED
  BY <1>3, <1>4, <1>5, <1>6, SocketsKept

\* Nobody had the number of a file that is opened.
LEMMA FileOpens ==
  ASSUME Sockets!ClientSocketAssumption, Sockets!Inv, sockets_pc = "socket" \/ opened < MaxOthers,
         NEW r \in FileSet, files' = [files EXCEPT ![Sockets!NextFd] = r]
  PROVE  /\ files' \in [Sockets!Fds -> FileSet] /\ files'[Sockets!NextFd] = r
         /\ Sockets!NextFd \in Sockets!Fds \ {MaxFd} /\ files'[MaxFd] = Sockets!Closed
         /\ \A m \in Sockets!Fds \ {Sockets!NextFd} : files'[m] = files[m]
         /\ \A d \in displays : /\ d.fd # Sockets!NextFd
                                /\ d.file = <<files'[d.fd].kind, files'[d.fd].i>>
         /\ \A f \in others : /\ f.fd # Sockets!NextFd
                              /\ f.file = <<files'[f.fd].kind, files'[f.fd].i>>
         /\ WAYLAND_SOCKET # Sockets!NextFd
         /\ Cardinality(Sockets!Taken') \in Nat /\ Cardinality(Sockets!Taken) \in Nat
         /\ Cardinality(Sockets!Taken') <= Cardinality(Sockets!Taken) + 1
<1>1. Sockets!NextFd \in Sockets!Fds \ {MaxFd} /\ files[Sockets!NextFd].kind = "none"
  BY FreeNumber, OwnersFacts
<1>2. /\ files' \in [Sockets!Fds -> FileSet] /\ files'[Sockets!NextFd] = r
      /\ \A m \in Sockets!Fds \ {Sockets!NextFd} : files'[m] = files[m]
      /\ Cardinality(Sockets!Taken') \in Nat /\ Cardinality(Sockets!Taken) \in Nat
      /\ Cardinality(Sockets!Taken') <= Cardinality(Sockets!Taken) + 1
  BY <1>1, NumberChanges
<1>3. files'[MaxFd] = Sockets!Closed
  BY <1>1, <1>2, OwnersFacts DEF Sockets!Inv, Sockets!TypeOK
<1>4. \A d \in displays : d.fd # Sockets!NextFd /\ d.file = <<files'[d.fd].kind, files'[d.fd].i>>
  BY <1>1, <1>2, OwnersFacts
<1>5. \A f \in others : f.fd # Sockets!NextFd /\ f.file = <<files'[f.fd].kind, files'[f.fd].i>>
  BY <1>1, <1>2, OwnersFacts
<1>6. WAYLAND_SOCKET # Sockets!NextFd
  BY <1>1 DEF Sockets!Inv, Sockets!SocketsOwned
<1> QED
  BY <1>1, <1>2, <1>3, <1>4, <1>5, <1>6

\* wl_display_connect() closes its socket when a step fails, and a display that ends its own.
LEMMA CloseSteps ==
  ASSUME Sockets!ClientSocketAssumption, Sockets!Inv,
         \/ Sockets!Holding /\ sockets_pc' = "idle" /\ files' = Sockets!Close(fd) /\ UNCHANGED <<displays, others>>
         \/ sockets_pc = "idle" /\ UNCHANGED <<sockets_pc, others>> /\ \E d \in displays :
              displays' = displays \ {d} /\ files' = Sockets!Close(d.fd)
         \/ UNCHANGED <<sockets_pc, displays>> /\ \E f \in others :
              others' = others \ {f} /\ files' = Sockets!Close(f.fd),
         sockets_pc # "unset" \/ UNCHANGED sockets_pc,
         UNCHANGED <<WAYLAND_SOCKET, count, opened, fd>>
  PROVE  Sockets!Inv'
<1>1. Sockets!SocketsOwned
  BY DEF Sockets!Inv
<1>2. displays \subseteq [fd : Sockets!Fds, file : {"given", "socket"} \X Nat]
  BY DEF Sockets!Inv, Sockets!TypeOK
<1>3. others \subseteq [fd : Sockets!Fds, file : {"other"} \X Nat]
  BY DEF Sockets!Inv, Sockets!TypeOK
<1>4. Sockets!Unset \notin Sockets!Fds
  BY OwnersFacts DEF Sockets!Unset
<1>5. ASSUME NEW n \in Sockets!Fds, files' = Sockets!Close(n)
      PROVE  /\ files' \in [Sockets!Fds -> FileSet] /\ files'[n].kind = "none"
             /\ \A m \in Sockets!Fds \ {n} : files'[m] = files[m]
  BY <1>5, OwnersFacts, NumberChanges DEF Sockets!Close
<1>6. CASE Sockets!Holding /\ sockets_pc' = "idle" /\ files' = Sockets!Close(fd) /\ UNCHANGED <<displays, others>>
  <2>1. fd \in Sockets!Fds /\ \A d \in displays : d.fd # fd
    BY <1>1, <1>6 DEF Sockets!SocketsOwned
  <2>2. \A f \in others : f.fd # fd
    BY <1>1, <1>6, OwnersFacts DEF Sockets!SocketsOwned
  <2>3. WAYLAND_SOCKET = Sockets!Unset
    BY <1>1, <1>6 DEF Sockets!SocketsOwned, Sockets!Holding
  <2>4. Sockets!SocketsOwned'
    BY <1>1, <1>4, <1>5, <1>6, <2>1, <2>3 DEF Sockets!SocketsOwned, Sockets!Holding
  <2> QED
    BY <1>6, <2>1, <2>2, <2>4, FileCloses
<1>7. ASSUME sockets_pc = "idle", UNCHANGED <<sockets_pc, others>>,
             NEW d \in displays, displays' = displays \ {d}, files' = Sockets!Close(d.fd)
      PROVE  Sockets!Inv'
  <2>1. d.fd \in Sockets!Fds /\ \A f \in others : f.fd # d.fd
    BY OwnersFacts
  <2>2. \A e \in displays : e # d => e.fd # d.fd
    BY DEF Sockets!Inv, Sockets!DisplaysHaveSockets
  <2>3. WAYLAND_SOCKET = Sockets!Unset
    BY <1>1 DEF Sockets!SocketsOwned
  <2>4. /\ files' \in [Sockets!Fds -> FileSet] /\ files'[d.fd].kind = "none"
        /\ \A m \in Sockets!Fds \ {d.fd} : files'[m] = files[m]
    BY <1>5, <1>7, <2>1
  <2>5. Sockets!SocketsOwned'
    BY <1>1, <1>4, <1>7, <2>1, <2>3, <2>4 DEF Sockets!SocketsOwned, Sockets!Holding
  <2> QED
    BY <1>7, <2>1, <2>2, <2>5, FileCloses
<1>8. ASSUME UNCHANGED <<sockets_pc, displays>>,
             NEW f \in others, others' = others \ {f}, files' = Sockets!Close(f.fd)
      PROVE  Sockets!Inv'
  <2>1. f.fd \in Sockets!Fds /\ files[f.fd].kind = "other" /\ \A d \in displays : d.fd # f.fd
    BY OwnersFacts
  <2>2. \A g \in others : g # f => g.fd # f.fd
    BY <1>3, OwnersFacts
  <2>3. /\ files' \in [Sockets!Fds -> FileSet] /\ files'[f.fd].kind = "none"
        /\ \A m \in Sockets!Fds \ {f.fd} : files'[m] = files[m]
    BY <1>5, <1>8, <2>1
  <2>4. Sockets!SocketsOwned'
    BY <1>1, <1>8, <2>1, <2>3, OwnersFacts DEF Sockets!SocketsOwned, Sockets!Holding
  <2> QED
    BY <1>8, <2>1, <2>2, <2>4, FileCloses
<1> QED
  BY <1>6, <1>7, <1>8

\* The flag of the file in the variable is set; it stays what it was.
LEMMA CheckFdStep ==
  ASSUME Sockets!ClientSocketAssumption, Sockets!Inv, Sockets!CheckFd
  PROVE  Sockets!Inv'
<1>1. /\ sockets_pc = "given" /\ UNCHANGED <<WAYLAND_SOCKET, count, opened, others, fd, displays>>
      /\ WAYLAND_SOCKET \in Sockets!Fds /\ fd = WAYLAND_SOCKET /\ Sockets!SocketsOwned
  BY DEF Sockets!CheckFd, Sockets!Inv, Sockets!SocketsOwned
<1>2. /\ WAYLAND_SOCKET \in Sockets!Fds \cup {Sockets!Unset, Sockets!NotNumber}
      /\ fd \in Sockets!Fds \cup {Sockets!Unset} /\ count \in 0..MaxSockets /\ opened \in Nat /\ count \in Nat
      /\ files[MaxFd] = Sockets!Closed
  BY DEF Sockets!Inv, Sockets!TypeOK
<1>3. CASE files[fd] = Sockets!Closed
  <2>1. sockets_pc' = "idle" /\ UNCHANGED files
    BY <1>3 DEF Sockets!CheckFd
  <2>2. Sockets!SocketsOwned'
    BY <1>1, <2>1 DEF Sockets!SocketsOwned, Sockets!Holding
  <2> QED
    BY <1>1, <1>2, <2>1, <2>2, FilesLeft
<1>4. CASE files[fd] # Sockets!Closed
  <2> DEFINE r == [files[fd] EXCEPT !.cloexec = TRUE]
  <2>1. sockets_pc' = "unset" /\ files' = [files EXCEPT ![fd] = r]
    BY <1>4 DEF Sockets!CheckFd, Sockets!SetCloexec
  <2>2. files[fd] \in FileSet
    BY <1>1, OwnersFacts
  <2>3. r \in FileSet /\ r.kind = files[fd].kind /\ r.i = files[fd].i
    BY <2>2 DEF FileSet
  <2> HIDE DEF r
  <2>4. /\ files' \in [Sockets!Fds -> FileSet] /\ files'[fd] = r
        /\ \A m \in Sockets!Fds \ {fd} : files'[m] = files[m]
        /\ Cardinality(Sockets!Taken') \in Nat /\ Cardinality(Sockets!Taken) \in Nat
        /\ Cardinality(Sockets!Taken') <= Cardinality(Sockets!Taken)
    BY <1>1, <1>4, <2>1, <2>3, NumberChanges
  <2>5. \A m \in Sockets!Fds : files'[m].kind = files[m].kind /\ files'[m].i = files[m].i
    BY <2>3, <2>4
  <2>6. fd # MaxFd /\ fd \in Sockets!Fds \ {MaxFd}
    BY <1>1, <1>2, <1>4
  <2>7. Sockets!TypeOK'
    BY <1>1, <2>1, <2>4, <2>6, OwnersFacts DEF Sockets!Inv, Sockets!TypeOK, FileSet
  <2>8. \A d \in displays' : d.file = <<files'[d.fd].kind, files'[d.fd].i>>
    BY <1>1, <2>5, OwnersFacts
  <2>9. Sockets!OthersKeepFiles'
    BY <1>1, <2>5, OwnersFacts DEF Sockets!OthersKeepFiles, Sockets!Name
  <2>10. files[fd].kind = "given" /\ displays = {}
    <3>1. Sockets!Unset \notin Sockets!Fds
      BY OwnersFacts DEF Sockets!Unset
    <3> QED
      BY <1>1, <2>6, <3>1 DEF Sockets!SocketsOwned
  <2>11. Sockets!SocketsOwned'
    BY <1>1, <2>1, <2>5, <2>6, <2>10 DEF Sockets!SocketsOwned, Sockets!Holding
  <2>12. Sockets!NumbersSuffice'
    <3>1. Cardinality(Sockets!Taken) + (IF sockets_pc = "socket" THEN 1 ELSE 0) <= 1 + count + opened
      BY SameCardinalityOfFiles DEF Sockets!Inv, Sockets!NumbersSuffice
    <3>2. Cardinality(Sockets!Taken) <= 1 + count + opened
      BY <1>1, <1>2, <2>4, <3>1
    <3>3. Cardinality(Sockets!Taken') <= 1 + count + opened
      BY <1>2, <2>4, <3>2
    <3>4. Cardinality(Sockets!Taken') + 0 <= 1 + count + opened
      BY <2>4, <3>3
    <3> QED
      BY <1>1, <2>1, <3>4, SameCardinalityOfFiles DEF Sockets!NumbersSuffice
  <2> QED
    BY <2>7, <2>8, <2>9, <2>11, <2>12, SocketsKept
<1> QED
  BY <1>3, <1>4

\* A socket is made, and another part of the process opens a file.
LEMMA OpenSteps ==
  ASSUME Sockets!ClientSocketAssumption, Sockets!Inv, Sockets!MakeSocket \/ Sockets!OtherOpen
  PROVE  Sockets!Inv'
<1>1. /\ WAYLAND_SOCKET \in Sockets!Fds \cup {Sockets!Unset, Sockets!NotNumber}
      /\ fd \in Sockets!Fds \cup {Sockets!Unset} /\ count \in 0..MaxSockets /\ opened \in 0..MaxOthers
      /\ opened \in Nat /\ count \in Nat /\ MaxOthers \in Nat
  BY DEF Sockets!Inv, Sockets!TypeOK, Sockets!ClientSocketAssumption
<1>2. Sockets!SocketsOwned
  BY DEF Sockets!Inv
<1>3. Cardinality(Sockets!Taken) + (IF sockets_pc = "socket" THEN 1 ELSE 0) <= 1 + count + opened
  BY SameCardinalityOfFiles DEF Sockets!Inv, Sockets!NumbersSuffice
<1>4. CASE Sockets!MakeSocket /\ sockets_pc' = "idle" /\ UNCHANGED <<files, fd>>
  <2>1. sockets_pc = "socket" /\ UNCHANGED <<WAYLAND_SOCKET, count, opened, others, displays>>
    BY <1>4 DEF Sockets!MakeSocket
  <2>2. Sockets!SocketsOwned'
    BY <1>2, <1>4, <2>1 DEF Sockets!SocketsOwned, Sockets!Holding
  <2> QED
    BY <1>1, <1>4, <2>1, <2>2, FilesLeft
<1>5. ASSUME Sockets!MakeSocket, sockets_pc' = "connect", fd' = Sockets!NextFd,
             files' = [files EXCEPT ![Sockets!NextFd] = Sockets!File("socket", count)]
      PROVE  Sockets!Inv'
  <2> DEFINE r == Sockets!File("socket", count)
  <2>1. sockets_pc = "socket" /\ UNCHANGED <<WAYLAND_SOCKET, count, opened, others, displays>>
    BY <1>5 DEF Sockets!MakeSocket
  <2>2. r \in FileSet /\ r.kind = "socket"
    BY <1>1 DEF FileSet, Sockets!File
  <2>3. WAYLAND_SOCKET = Sockets!Unset
    BY <1>2, <2>1 DEF Sockets!SocketsOwned
  <2> HIDE DEF r
  <2>4. /\ files' \in [Sockets!Fds -> FileSet] /\ files'[Sockets!NextFd] = r
        /\ Sockets!NextFd \in Sockets!Fds \ {MaxFd} /\ files'[MaxFd] = Sockets!Closed
        /\ \A m \in Sockets!Fds \ {Sockets!NextFd} : files'[m] = files[m]
        /\ \A d \in displays : d.fd # Sockets!NextFd /\ d.file = <<files'[d.fd].kind, files'[d.fd].i>>
        /\ \A f \in others : f.fd # Sockets!NextFd /\ f.file = <<files'[f.fd].kind, files'[f.fd].i>>
        /\ Cardinality(Sockets!Taken') \in Nat /\ Cardinality(Sockets!Taken) \in Nat
        /\ Cardinality(Sockets!Taken') <= Cardinality(Sockets!Taken) + 1
    BY <1>5, <2>1, <2>2, FileOpens DEF r
  <2>5. Sockets!TypeOK'
    BY <1>1, <1>5, <2>1, <2>4 DEF Sockets!Inv, Sockets!TypeOK, FileSet
  <2>6. Sockets!OthersKeepFiles'
    BY <2>1, <2>4 DEF Sockets!OthersKeepFiles, Sockets!Name
  <2>7. Sockets!Unset \notin Sockets!Fds
    BY OwnersFacts DEF Sockets!Unset
  <2>8. Sockets!SocketsOwned'
    BY <1>2, <1>5, <2>1, <2>2, <2>3, <2>4, <2>7 DEF Sockets!SocketsOwned, Sockets!Holding
  <2>9. Sockets!NumbersSuffice'
    <3>1. Cardinality(Sockets!Taken) + 1 <= 1 + count + opened
      BY <1>3, <2>1
    <3>2. Cardinality(Sockets!Taken') + 0 <= 1 + count + opened
      BY <1>1, <2>4, <3>1
    <3> QED
      BY <1>5, <2>1, <3>2, SameCardinalityOfFiles DEF Sockets!NumbersSuffice
  <2> QED
    BY <2>1, <2>4, <2>5, <2>6, <2>8, <2>9, SocketsKept
<1>6. ASSUME Sockets!OtherOpen
      PROVE  Sockets!Inv'
  <2> DEFINE r == Sockets!File("other", opened + 1)
             f0 == [fd |-> Sockets!NextFd, file |-> Sockets!Name(r)]
  <2>1. /\ opened < MaxOthers /\ opened' = opened + 1 /\ others' = others \cup {f0}
        /\ files' = [files EXCEPT ![Sockets!NextFd] = r]
        /\ UNCHANGED <<WAYLAND_SOCKET, count, sockets_pc, fd, displays>>
    BY <1>6 DEF Sockets!OtherOpen, Sockets!conn
  <2>2. /\ r \in FileSet /\ r.kind = "other" /\ r.i \in Nat
        /\ f0.fd = Sockets!NextFd /\ f0.file = <<"other", r.i>> /\ f0.file = <<r.kind, r.i>>
    BY <1>1 DEF FileSet, Sockets!File, Sockets!Name
  <2> HIDE DEF r
  <2>3. /\ files' \in [Sockets!Fds -> FileSet] /\ files'[Sockets!NextFd] = r
        /\ Sockets!NextFd \in Sockets!Fds \ {MaxFd} /\ files'[MaxFd] = Sockets!Closed
        /\ \A m \in Sockets!Fds \ {Sockets!NextFd} : files'[m] = files[m]
        /\ \A d \in displays : d.fd # Sockets!NextFd /\ d.file = <<files'[d.fd].kind, files'[d.fd].i>>
        /\ \A f \in others : f.fd # Sockets!NextFd /\ f.file = <<files'[f.fd].kind, files'[f.fd].i>>
        /\ WAYLAND_SOCKET # Sockets!NextFd
        /\ Cardinality(Sockets!Taken') \in Nat /\ Cardinality(Sockets!Taken) \in Nat
        /\ Cardinality(Sockets!Taken') <= Cardinality(Sockets!Taken) + 1
    BY <2>1, <2>2, FileOpens
  <2>4. f0 \in [fd : Sockets!Fds, file : {"other"} \X Nat]
    BY <2>2, <2>3
  <2> HIDE DEF f0
  <2>5. opened' \in 0..MaxOthers
    BY <1>1, <2>1
  <2>6. others' \subseteq [fd : Sockets!Fds, file : {"other"} \X Nat]
    BY <2>1, <2>4 DEF Sockets!Inv, Sockets!TypeOK
  <2>7. Sockets!TypeOK'
    BY <2>1, <2>3, <2>5, <2>6 DEF Sockets!Inv, Sockets!TypeOK, FileSet
  <2>8. Sockets!OthersKeepFiles'
    BY <2>1, <2>2, <2>3 DEF Sockets!OthersKeepFiles, Sockets!Name
  <2>9. Sockets!Holding => fd # Sockets!NextFd
    <3>1. files[Sockets!NextFd].kind = "none"
      BY <2>1, FreeNumber, OwnersFacts
    <3> QED
      BY <1>2, <3>1 DEF Sockets!SocketsOwned
  <2>10. Sockets!SocketsOwned'
    BY <1>2, <2>1, <2>2, <2>3, <2>9 DEF Sockets!SocketsOwned, Sockets!Holding
  <2>11. Sockets!NumbersSuffice'
    <3> DEFINE one == IF sockets_pc = "socket" THEN 1 ELSE 0
    <3>1. one \in Nat
      OBVIOUS
    <3>2. Cardinality(Sockets!Taken) + one <= 1 + count + opened
      BY <1>3
    <3> HIDE DEF one
    <3>3. Cardinality(Sockets!Taken') + one <= 1 + count + (opened + 1)
      BY <1>1, <2>3, <3>1, <3>2
    <3> QED
      BY <2>1, <3>3, SameCardinalityOfFiles DEF Sockets!NumbersSuffice, one
  <2> QED
    BY <2>1, <2>3, <2>7, <2>8, <2>10, <2>11, SocketsKept
<1> QED
  BY <1>4, <1>5, <1>6 DEF Sockets!MakeSocket

\* The display gets the socket that is held.
LEMMA DisplayStep ==
  ASSUME Sockets!ClientSocketAssumption, Sockets!Inv, sockets_pc = "display", sockets_pc' = "idle",
         displays' = displays \cup {[fd |-> fd, file |-> Sockets!Name(files[fd])]},
         UNCHANGED <<WAYLAND_SOCKET, files, count, opened, others, fd>>
  PROVE  Sockets!Inv'
<1> DEFINE d0 == [fd |-> fd, file |-> Sockets!Name(files[fd])]
<1>1. /\ Sockets!SocketsOwned /\ fd \in Sockets!Fds /\ files[fd].kind \in {"given", "socket"}
      /\ WAYLAND_SOCKET = Sockets!Unset
  BY DEF Sockets!Inv, Sockets!SocketsOwned, Sockets!Holding
<1>2. files[fd].i \in Nat /\ Sockets!Name(files[fd]) = <<files[fd].kind, files[fd].i>>
  BY <1>1, OwnersFacts DEF FileSet, Sockets!Name
<1>3. d0 \in [fd : Sockets!Fds, file : {"given", "socket"} \X Nat] /\ d0.fd = fd /\ d0.file = <<files[fd].kind, files[fd].i>>
  BY <1>1, <1>2
<1> HIDE DEF d0
<1>4. displays' = displays \cup {d0}
  BY DEF d0
<1>5. Sockets!TypeOK'
  BY <1>3, <1>4 DEF Sockets!Inv, Sockets!TypeOK
<1>6. \A d \in displays' : d.file = <<files'[d.fd].kind, files'[d.fd].i>>
  BY <1>3, <1>4, OwnersFacts
<1>7. Sockets!OthersKeepFiles'
  BY DEF Sockets!Inv, Sockets!OthersKeepFiles
<1>8. Sockets!SocketsOwned'
  BY <1>1, <1>3, <1>4 DEF Sockets!SocketsOwned, Sockets!Holding
<1>9. Sockets!NumbersSuffice'
  BY DEF Sockets!Inv, Sockets!NumbersSuffice, Sockets!Taken
<1> QED
  BY <1>5, <1>6, <1>7, <1>8, <1>9, SocketsKept

\* Every step of wl_display_connect() and of what goes on around it.
LEMMA SocketsStep ==
  ASSUME Sockets!ClientSocketAssumption, Sockets!Inv, Sockets!Next
  PROVE  Sockets!Inv'
<1>1. ASSUME Sockets!ConnectSocket
      PROVE  Sockets!Inv'
  <2>1. /\ sockets_pc = "connect" /\ UNCHANGED <<WAYLAND_SOCKET, count, opened, others, fd, displays>>
        /\ \/ sockets_pc' = "display" /\ UNCHANGED files
           \/ sockets_pc' = "idle" /\ files' = Sockets!Close(fd)
    BY <1>1 DEF Sockets!ConnectSocket
  <2>2. CASE sockets_pc' = "display" /\ UNCHANGED files
    <3>1. Sockets!SocketsOwned'
      BY <2>1, <2>2 DEF Sockets!Inv, Sockets!SocketsOwned, Sockets!Holding
    <3>2. /\ WAYLAND_SOCKET \in Sockets!Fds \cup {Sockets!Unset, Sockets!NotNumber}
          /\ fd \in Sockets!Fds \cup {Sockets!Unset} /\ count \in 0..MaxSockets
      BY DEF Sockets!Inv, Sockets!TypeOK
    <3> QED
      BY <2>1, <2>2, <3>1, <3>2, FilesLeft
  <2>3. CASE sockets_pc' = "idle" /\ files' = Sockets!Close(fd)
    BY <2>1, <2>3, CloseSteps DEF Sockets!Holding
  <2> QED
    BY <2>1, <2>2, <2>3
<1>2. ASSUME Sockets!ConnectToFd
      PROVE  Sockets!Inv'
  <2>1. /\ sockets_pc = "display" /\ sockets_pc' = "idle"
        /\ UNCHANGED <<WAYLAND_SOCKET, count, opened, others, fd>>
        /\ \/ displays' = displays \cup {[fd |-> fd, file |-> Sockets!Name(files[fd])]} /\ UNCHANGED files
           \/ files' = Sockets!Close(fd) /\ UNCHANGED displays
    BY <1>2 DEF Sockets!ConnectToFd
  <2>2. CASE files' = Sockets!Close(fd) /\ UNCHANGED displays
    BY <2>1, <2>2, CloseSteps DEF Sockets!Holding
  <2> QED
    BY <2>1, <2>2, DisplayStep
<1>3. ASSUME NEW d \in displays, Sockets!Disconnect(d)
      PROVE  Sockets!Inv'
  BY <1>3, CloseSteps DEF Sockets!Disconnect, Sockets!Hung, Sockets!conn
<1>4. ASSUME NEW f \in others, Sockets!OtherClose(f)
      PROVE  Sockets!Inv'
  BY <1>4, CloseSteps DEF Sockets!OtherClose, Sockets!conn
<1>5. ASSUME Sockets!Start
      PROVE  Sockets!Inv'
  <2>1. UNCHANGED <<WAYLAND_SOCKET, files, count, opened, others, sockets_pc, fd, displays>>
    BY <1>5 DEF Sockets!Start, Sockets!conn
  <2> QED
    BY <2>1 DEF Sockets!Inv, Sockets!TypeOK, Sockets!DisplaysHaveSockets, Sockets!OthersKeepFiles,
      Sockets!NothingLeaks, Sockets!SocketsOwned, Sockets!Holding, Sockets!NumbersSuffice, Sockets!Taken
<1> QED
  BY <1>1, <1>2, <1>3, <1>4, <1>5, ConnectSteps, CheckFdStep, OpenSteps DEF Sockets!Next

\* At first there is no display, and at most the one file the process was given.
LEMMA SocketsStart ==
  ASSUME Sockets!ClientSocketAssumption, Sockets!Init
  PROVE  Sockets!Inv
<1>1. MaxFd \in Nat /\ MaxFd # 0 /\ Sockets!Fds = 0..MaxFd /\ MaxSockets \in Nat /\ MaxOthers \in Nat
  BY DEF Sockets!ClientSocketAssumption, Sockets!Fds
<1>2. /\ WAYLAND_SOCKET \in {-1, -2, 0, MaxFd}
      /\ count = 0 /\ opened = 0 /\ others = {}
      /\ sockets_pc = "idle" /\ fd = -1 /\ displays = {}
  BY DEF Sockets!Init, Sockets!Unset, Sockets!NotNumber
<1>3. /\ Sockets!Closed \in FileSet /\ Sockets!Closed.kind = "none"
      /\ Sockets!File("given", 0) \in FileSet /\ Sockets!File("given", 0).kind = "given"
  BY DEF Sockets!Closed, Sockets!File, FileSet
<1>4. files = [n \in Sockets!Fds |-> IF n = 0 /\ WAYLAND_SOCKET = 0 THEN Sockets!File("given", 0) ELSE Sockets!Closed]
  BY DEF Sockets!Init
<1>5. files \in [Sockets!Fds -> FileSet]
  BY <1>3, <1>4
<1>6. /\ \A n \in Sockets!Fds \ {0} : files[n] = Sockets!Closed
      /\ WAYLAND_SOCKET # 0 => files[0] = Sockets!Closed
      /\ WAYLAND_SOCKET = 0 => files[0].kind = "given"
  BY <1>1, <1>3, <1>4
<1>7. Sockets!TypeOK
  BY <1>1, <1>2, <1>5, <1>6 DEF Sockets!TypeOK, Sockets!Unset, Sockets!NotNumber, FileSet
<1>8. Sockets!SocketsOwned
  BY <1>1, <1>2, <1>3, <1>6 DEF Sockets!SocketsOwned, Sockets!Holding
<1>9. Sockets!NumbersSuffice
  <2>1. IsFiniteSet({0}) /\ Cardinality({0}) = 1
    BY FS_Singleton
  <2>2. Sockets!Taken \subseteq {0}
    BY <1>6 DEF Sockets!Taken
  <2>3. IsFiniteSet(Sockets!Taken) /\ Cardinality(Sockets!Taken) <= 1
    BY <2>1, <2>2, FS_Subset
  <2>4. Cardinality(Sockets!Taken) \in Nat
    BY <2>3, FS_CardinalityType
  <2>5. Cardinality(Sockets!Taken) + 0 <= 1 + 0 + 0
    BY <2>3, <2>4
  <2> QED
    BY <1>2, <2>5, SameCardinalityOfFiles DEF Sockets!NumbersSuffice
<1>10. Sockets!DisplaysHaveSockets /\ Sockets!OthersKeepFiles /\ Sockets!NothingLeaks
  BY <1>2, <1>8 DEF Sockets!DisplaysHaveSockets, Sockets!OthersKeepFiles, Sockets!NothingLeaks,
    Sockets!SocketsOwned, Sockets!Holding
<1> QED
  BY <1>7, <1>8, <1>9, <1>10 DEF Sockets!Inv

\* The suite runs the socket of a client, or leaves it as it is.
LEMMA SocketsRun ==
  /\ Init => Sockets!Init
  /\ [Next]_vars => Sockets!Next \/ UNCHANGED socketsVars
<1>1. ASSUME Init PROVE Sockets!Init
  <2>1. CASE part = "sockets"
    BY <1>1, <2>1 DEF Init
  <2>2. CASE part # "sockets"
    <3>1. /\ WAYLAND_SOCKET = Sockets!Unset /\ count = 0 /\ opened = 0 /\ others = {}
          /\ sockets_pc = "idle" /\ fd = Sockets!Unset /\ displays = {} /\ inherited = {}
          /\ files = [n \in Sockets!Fds |-> Sockets!Closed]
      BY <1>1, <2>2 DEF Init
    <3>2. Sockets!Unset # 0
      BY DEF Sockets!Unset
    <3> QED
      BY <3>1, <3>2 DEF Sockets!Init
  <2> QED
    BY <2>1, <2>2
<1>2. [Next]_vars => Sockets!Next \/ UNCHANGED socketsVars
  BY DEF Next, Only, vars
<1> QED
  BY <1>1, <1>2

\* A step that leaves the socket as it is.
LEMMA SocketsStay ==
  ASSUME Sockets!Inv, UNCHANGED socketsVars
  PROVE  Sockets!Inv'
BY DEF socketsVars, Sockets!Inv, Sockets!TypeOK, Sockets!DisplaysHaveSockets, Sockets!OthersKeepFiles,
  Sockets!NothingLeaks, Sockets!SocketsOwned, Sockets!Holding, Sockets!NumbersSuffice, Sockets!Taken

\* However the steps of wl_display_connect() fail, whatever else the process opens and closes
\* meanwhile: displays, other parts and the variable have files of their own, and between calls
\* no socket is left open, for every number of files, connections and others.
THEOREM SocketsHold == Spec => []SocketsSound
<1>1. Sockets!ClientSocketAssumption
  BY MCClientAssumption
<1>2. Init => Sockets!Inv
  BY <1>1, SocketsRun, SocketsStart
<1>3. Sockets!Inv /\ [Next]_vars => Sockets!Inv'
  BY <1>1, SocketsRun, SocketsStep, SocketsStay
<1>4. Sockets!Inv => SocketsSound
  BY DEF Sockets!Inv, SocketsSound
<1> QED
  BY <1>2, <1>3, <1>4, PTL DEF Spec
------------------------------------------------------------------------------
(* Proofs: roundtrips *)

\* A sequence without repetitions when one is added.
LEMMA OnceMore ==
  ASSUME NEW S, NEW s \in Seq(S), NEW x \in S, Trips!Once(s), x \notin Trips!ToSet(s)
  PROVE  /\ Append(s, x) \in Seq(S) /\ Trips!Once(Append(s, x)) /\ Trips!ToSet(Append(s, x)) = Trips!ToSet(s) \cup {x}
<1> DEFINE t == Append(s, x)
           n == Len(s)
<1>1. /\ n \in Nat /\ t \in Seq(S) /\ (\A i : i \in DOMAIN s <=> i \in 1..n)
      /\ (\A i : i \in DOMAIN t <=> i \in 1..(n + 1)) /\ t[n + 1] = x
      /\ \A i \in 1..n : t[i] = s[i]
  OBVIOUS
<1> HIDE DEF t, n
<1>2. \A i : i \in 1..(n + 1) <=> (i \in 1..n \/ i = n + 1)
  BY <1>1
<1>3. Trips!Once(t)
  BY <1>1, <1>2 DEF Trips!Once, Trips!ToSet
<1>4. Trips!ToSet(t) = Trips!ToSet(s) \cup {x}
  BY <1>1, <1>2 DEF Trips!ToSet
<1> QED
  BY <1>1, <1>3, <1>4 DEF t

\* One without its first element.
LEMMA OnceLess ==
  ASSUME NEW S, NEW s \in Seq(S), Trips!Once(s), s # <<>>
  PROVE  /\ Tail(s) \in Seq(S) /\ Trips!Once(Tail(s)) /\ Head(s) \in S
         /\ Head(s) \in Trips!ToSet(s) /\ Trips!ToSet(Tail(s)) = Trips!ToSet(s) \ {Head(s)}
<1> DEFINE t == Tail(s)
           n == Len(s)
           x == Head(s)
<1>1. /\ n \in Nat \ {0} /\ t \in Seq(S) /\ (\A i : i \in DOMAIN s <=> i \in 1..n) /\ x \in S
      /\ (\A i : i \in DOMAIN t <=> i \in 1..(n - 1)) /\ x = s[1]
      /\ \A i \in 1..(n - 1) : t[i] = s[i + 1]
  OBVIOUS
<1> HIDE DEF t, n, x
<1>2. /\ \A i \in 1..n : i = 1 \/ (i - 1) \in 1..(n - 1)
      /\ \A i \in 1..(n - 1) : i + 1 \in 1..n /\ i + 1 # 1 /\ \A j \in 1..(n - 1) : i + 1 = j + 1 => i = j
      /\ \A i \in 1..n : i - 1 \in 1..(n - 1) => (i - 1) + 1 = i
      /\ 1 \in 1..n
  <2>1. n \in Nat \ {0}
    BY <1>1
  <2> QED
    BY <2>1
<1>3. Trips!Once(t)
  <2> SUFFICES ASSUME NEW i \in 1..(n - 1), NEW j \in 1..(n - 1), t[i] = t[j] PROVE i = j
    BY <1>1 DEF Trips!Once
  <2>1. i + 1 \in DOMAIN s /\ j + 1 \in DOMAIN s /\ s[i + 1] = s[j + 1]
    BY <1>1, <1>2
  <2>2. i + 1 = j + 1
    BY <2>1 DEF Trips!Once
  <2> QED
    BY <1>2, <2>2
<1>4. x \in Trips!ToSet(s)
  BY <1>1, <1>2 DEF Trips!ToSet
<1>5. ASSUME NEW y \in Trips!ToSet(t) PROVE y \in Trips!ToSet(s) \ {x}
  <2>1. PICK i \in 1..(n - 1) : t[i] = y
    BY <1>1, <1>5 DEF Trips!ToSet
  <2>2. i + 1 \in DOMAIN s /\ s[i + 1] = y /\ 1 \in DOMAIN s /\ i + 1 # 1
    BY <1>1, <1>2, <2>1
  <2> QED
    BY <1>1, <2>2 DEF Trips!ToSet, Trips!Once
<1>6. ASSUME NEW y \in Trips!ToSet(s), y # x PROVE y \in Trips!ToSet(t)
  <2>1. PICK i \in 1..n : s[i] = y
    BY <1>1 DEF Trips!ToSet
  <2>2. i - 1 \in 1..(n - 1) /\ (i - 1) + 1 = i
    BY <1>1, <1>2, <1>6, <2>1
  <2> QED
    BY <1>1, <2>1, <2>2 DEF Trips!ToSet
<1> QED
  BY <1>1, <1>3, <1>4, <1>5, <1>6 DEF t, x

\* What the properties say follows from what is under way.
LEMMA TripsGive ==
  ASSUME Trips!RoundtripAssumption, Trips!TypeOK, Trips!TripsFit, Trips!AnswersFit
  PROVE  Trips!AnswerWaitsForListener /\ Trips!AnsweredMeansHandled
<1>0. DOMAIN trips_queue = Callers \cup {"default"} /\ requests \in Seq(Callers)
  BY DEF Trips!TypeOK
<1>1. ASSUME NEW q \in DOMAIN trips_queue, NEW i \in DOMAIN trips_queue[q]
      PROVE  LET c == trips_queue[q][i] IN q = c /\ (trips_pc[c] = "waiting" => callback[c].listener \/ done[c] \/ failed)
  <2>1. trips_queue[q] # <<>>
    BY <1>1
  <2>2. q \in Callers /\ trips_queue[q] = <<q>>
    BY <1>0, <1>1, <2>1 DEF Trips!AnswersFit
  <2>3. trips_queue[q][i] = q
    <3>1. i = 1
      BY <1>1, <2>2
    <3> QED
      BY <2>2, <3>1
  <2>4. trips_pc[q] = "waiting" => callback[q].listener \/ done[q] \/ failed
    <3>1. trips_pc[q] = "waiting" /\ ~done[q] => callback[q] = [queue |-> q, listener |-> TRUE]
      BY <2>2 DEF Trips!TripsFit
    <3>2. [queue |-> q, listener |-> TRUE].listener
      OBVIOUS
    <3> QED
      BY <3>1, <3>2
  <2> QED
    BY <2>2, <2>3, <2>4
<1>2. ASSUME NEW c \in Callers, done[c], NEW i \in DOMAIN requests PROVE requests[i] # c
  <2>1. requests[i] \in Trips!UnderWay
    BY <1>2 DEF Trips!UnderWay, Trips!ToSet
  <2> QED
    BY <1>2, <2>1 DEF Trips!AnswersFit
<1> QED
  BY <1>1, <1>2 DEF Trips!AnswerWaitsForListener, Trips!AnsweredMeansHandled

\* What every step keeps.
TripInv == Trips!TypeOK /\ Trips!TripsFit /\ Trips!AnswersFit

\* Nobody has begun a roundtrip when the program starts.
LEMMA TripsStart ==
  ASSUME Trips!RoundtripAssumption, Trips!Init
  PROVE  TripInv
<1>1. /\ <<>> \in Seq(Callers) /\ Trips!Once(<<>>) /\ Trips!ToSet(<<>>) = {}
  BY DEF Trips!Once, Trips!ToSet
<1>2. Trips!TypeOK
  <2>1. Trips!Gone \in [queue : Callers \cup {"default", "nobody"}, listener : BOOLEAN]
    BY DEF Trips!Gone
  <2>2. trips \in [Callers -> 0..MaxTrips] /\ 0 \in 0..MaxTrips
    BY DEF Trips!Init, Trips!RoundtripAssumption
  <2>3. callback \in [Callers -> [queue : Callers \cup {"default", "nobody"}, listener : BOOLEAN]]
    BY <2>1 DEF Trips!Init
  <2>4. trips_queue \in [Callers \cup {"default"} -> Seq(Callers)] /\ requests \in Seq(Callers) /\ events \in Seq(Callers)
    BY <1>1 DEF Trips!Init
  <2>5. /\ trips_pc \in [Callers -> {"idle", "wrapped", "routed", "asked", "listening", "waiting", "failed"}]
        /\ wrappers \in [Callers -> Callers \cup {"default", "nobody"}]
        /\ done \in [Callers -> BOOLEAN] /\ failed \in BOOLEAN
    BY DEF Trips!Init
  <2> QED
    BY <2>2, <2>3, <2>4, <2>5 DEF Trips!TypeOK
<1>3. Trips!TripsFit
  BY DEF Trips!Init, Trips!TripsFit
<1>4. Trips!UnderWay = {}
  BY <1>1 DEF Trips!Init, Trips!UnderWay
<1>5. Trips!AnswersFit
  BY <1>1, <1>4 DEF Trips!Init, Trips!AnswersFit
<1> QED
  BY <1>2, <1>3, <1>5 DEF TripInv

\* A step of a caller for itself: nothing of the wires and queues changes.
LEMMA TripAlone ==
  ASSUME Trips!RoundtripAssumption, TripInv, NEW c \in Callers,
         UNCHANGED <<requests, events, trips_queue, failed>>,
         NEW w \in {"idle", "wrapped", "routed", "asked", "listening", "waiting", "failed"}, trips_pc' = [trips_pc EXCEPT ![c] = w],
         Trips!TypeOK', 
         \A d \in Callers \ {c} : done'[d] = done[d] /\ callback'[d] = callback[d] /\ wrappers'[d] = wrappers[d],
         w = "routed" => wrappers'[c] = c,
         w \in {"asked", "listening"} => callback'[c] = [queue |-> c, listener |-> FALSE],
         w = "waiting" => callback'[c] = [queue |-> c, listener |-> TRUE],
         done'[c] => done[c] /\ w \in {"waiting", "idle"},
         w = "failed" => failed,
         w \notin {"asked", "listening", "waiting", "failed"} => c \notin Trips!UnderWay
  PROVE  TripInv'
<1>1. Trips!TypeOK /\ Trips!TripsFit /\ Trips!AnswersFit
  BY DEF TripInv
<1>2. trips_pc'[c] = w /\ \A d \in Callers \ {c} : trips_pc'[d] = trips_pc[d]
  BY <1>1 DEF Trips!TypeOK
<1>3. Trips!TripsFit'
  BY <1>1, <1>2 DEF Trips!TripsFit
<1>4. Trips!UnderWay' = Trips!UnderWay /\ Trips!UnderWay \subseteq Callers
  BY <1>1 DEF Trips!UnderWay, Trips!ToSet, Trips!TypeOK
<1>5. \A d \in Trips!UnderWay : ~done'[d] /\ trips_pc'[d] \in {"asked", "listening", "waiting", "failed"}
  BY <1>1, <1>2, <1>4 DEF Trips!AnswersFit
<1>6. Trips!AnswersFit'
  BY <1>1, <1>4, <1>5 DEF Trips!AnswersFit
<1> QED
  BY <1>3, <1>6 DEF TripInv

\* The steps of a caller that send and handle nothing.
LEMMA TripLocal ==
  ASSUME Trips!RoundtripAssumption, TripInv, NEW c \in Callers,
         Trips!CreateWrapper(c) \/ Trips!SetQueue(c) \/ Trips!DestroyWrapper(c) \/ Trips!AddListener(c) \/ Trips!Return(c)
  PROVE  TripInv'
<1> USE DEF Trips!RoundtripAssumption
<1>1. Trips!TypeOK /\ Trips!TripsFit /\ Trips!AnswersFit
  BY DEF TripInv
<1>2. c \in Trips!UnderWay => ~done[c] /\ trips_pc[c] \in {"asked", "listening", "waiting", "failed"}
  BY <1>1 DEF Trips!AnswersFit
<1>3. CASE Trips!CreateWrapper(c)
  <2>1. Trips!TypeOK'
    BY <1>1, <1>3 DEF Trips!TypeOK, Trips!CreateWrapper, Trips!Goto, Trips!Reset
  <2>2. ~done'[c] /\ c \notin Trips!UnderWay
    BY <1>1, <1>2, <1>3 DEF Trips!TypeOK, Trips!CreateWrapper, Trips!Reset
  <2> QED
    BY <1>1, <1>3, <2>1, <2>2, TripAlone DEF Trips!CreateWrapper, Trips!Goto, Trips!Reset, Trips!TypeOK
<1>4. CASE Trips!SetQueue(c)
  <2>1. Trips!TypeOK'
    BY <1>1, <1>4 DEF Trips!TypeOK, Trips!SetQueue, Trips!Goto
  <2>2. wrappers'[c] = c /\ c \notin Trips!UnderWay /\ ~done[c]
    BY <1>1, <1>2, <1>4 DEF Trips!TypeOK, Trips!SetQueue, Trips!TripsFit
  <2>3. /\ \A d \in Callers \ {c} : done'[d] = done[d] /\ callback'[d] = callback[d] /\ wrappers'[d] = wrappers[d]
        /\ trips_pc' = [trips_pc EXCEPT ![c] = "routed"] /\ UNCHANGED <<requests, events, trips_queue, done, failed>>
    BY <1>1, <1>4 DEF Trips!SetQueue, Trips!Goto, Trips!TypeOK
  <2> QED
    BY <2>1, <2>2, <2>3, TripAlone
<1>5. CASE Trips!DestroyWrapper(c)
  <2>1. Trips!TypeOK'
    BY <1>1, <1>5 DEF Trips!TypeOK, Trips!DestroyWrapper, Trips!Goto
  <2>2. callback'[c] = [queue |-> c, listener |-> FALSE] /\ ~done[c]
    BY <1>1, <1>2, <1>5 DEF Trips!TypeOK, Trips!DestroyWrapper, Trips!TripsFit
  <2> QED
    BY <1>1, <1>5, <2>1, <2>2, TripAlone DEF Trips!DestroyWrapper, Trips!Goto, Trips!TypeOK
<1>6. CASE Trips!AddListener(c)
  <2>1. Trips!TypeOK'
    BY <1>1, <1>6 DEF Trips!TypeOK, Trips!AddListener, Trips!Goto
  <2>2. callback'[c] = [queue |-> c, listener |-> TRUE] /\ ~done[c]
    <3>1. callback[c] = [queue |-> c, listener |-> FALSE] /\ ~done[c]
      BY <1>1, <1>6 DEF Trips!AddListener, Trips!TripsFit
    <3>2. callback' = [callback EXCEPT ![c] = [queue |-> c, listener |-> TRUE]] /\ c \in DOMAIN callback
          /\ UNCHANGED done
      BY <1>1, <1>6, <3>1 DEF Trips!AddListener, Trips!TypeOK
    <3> QED
      BY <3>1, <3>2
  <2> QED
    BY <1>1, <1>6, <2>1, <2>2, TripAlone DEF Trips!AddListener, Trips!Goto, Trips!TypeOK
<1>7. CASE Trips!Return(c)
  <2>1. Trips!TypeOK'
    BY <1>1, <1>7 DEF Trips!TypeOK, Trips!Return, Trips!Goto, Trips!Gone
  <2>2. done[c] => c \notin Trips!UnderWay
    BY <1>1, <1>2, <1>7 DEF Trips!Return
  <2> QED
    BY <1>1, <1>7, <2>1, <2>2, TripAlone, ZenonT(60) DEF Trips!Return, Trips!Goto, Trips!TypeOK
<1> QED
  BY <1>3, <1>4, <1>5, <1>6, <1>7

\* The request of a roundtrip is sent, unless the connection has failed.
LEMMA TripAsks ==
  ASSUME Trips!RoundtripAssumption, TripInv, NEW c \in Callers, Trips!Sync(c)
  PROVE  TripInv'
<1>1. Trips!TypeOK /\ Trips!TripsFit /\ Trips!AnswersFit
  BY DEF TripInv
<1>2. c \notin Trips!UnderWay /\ ~done[c] /\ wrappers[c] = c
  BY <1>1 DEF Trips!AnswersFit, Trips!Sync, Trips!TripsFit
<1>3. /\ UNCHANGED <<trips, wrappers, events, trips_queue, done, failed>>
      /\ trips_pc' = [trips_pc EXCEPT ![c] = "asked"]
      /\ callback' = [callback EXCEPT ![c] = [queue |-> c, listener |-> FALSE]]
      /\ requests' = IF failed THEN requests ELSE Append(requests, c)
  BY <1>2 DEF Trips!Sync, Trips!Goto, Trips!QueueOfNew
<1>4. /\ trips_pc'[c] = "asked" /\ callback'[c] = [queue |-> c, listener |-> FALSE]
      /\ \A d \in Callers \ {c} : trips_pc'[d] = trips_pc[d] /\ callback'[d] = callback[d]
  BY <1>1, <1>3 DEF Trips!TypeOK
<1>5. Trips!TypeOK'
  BY <1>1, <1>3 DEF Trips!TypeOK
<1>6. Trips!TripsFit'
  BY <1>1, <1>2, <1>3, <1>4 DEF Trips!TripsFit
<1>7. /\ Trips!Once(requests') /\ Trips!ToSet(requests') \subseteq Trips!ToSet(requests) \cup {c}
  <2>1. requests \in Seq(Callers) /\ Trips!Once(requests) /\ c \notin Trips!ToSet(requests)
    BY <1>1, <1>2 DEF Trips!TypeOK, Trips!AnswersFit, Trips!UnderWay
  <2> QED
    BY <1>3, <2>1, OnceMore
<1>8. c \notin Trips!ToSet(events) /\ trips_queue[c] = <<>>
  BY <1>2 DEF Trips!UnderWay
<1>9. Trips!UnderWay' \subseteq Trips!UnderWay \cup {c}
  BY <1>3, <1>7 DEF Trips!UnderWay
<1>10. Trips!AnswersFit'
  BY <1>1, <1>2, <1>3, <1>4, <1>7, <1>8, <1>9 DEF Trips!AnswersFit
<1> QED
  BY <1>5, <1>6, <1>10 DEF TripInv

\* The answer is handled by its own thread.
LEMMA TripAnswered ==
  ASSUME Trips!RoundtripAssumption, TripInv, NEW c \in Callers, Trips!DispatchOwn(c)
  PROVE  TripInv'
<1>1. Trips!TypeOK /\ Trips!TripsFit /\ Trips!AnswersFit
  BY DEF TripInv
<1>2. trips_queue[c] = <<c>> /\ trips_pc[c] = "waiting" /\ ~done[c] /\ ~failed
  <2>1. trips_queue[c] \in {<<>>, <<c>>}
    BY <1>1 DEF Trips!AnswersFit
  <2> QED
    BY <2>1 DEF Trips!DispatchOwn
<1>3. callback[c] = [queue |-> c, listener |-> TRUE] /\ Head(trips_queue[c]) = c /\ Tail(trips_queue[c]) = <<>>
  <2>1. callback[c] = [queue |-> c, listener |-> TRUE]
    BY <1>1, <1>2 DEF Trips!TripsFit
  <2>2. Head(<<c>>) = c /\ Tail(<<c>>) = <<>>
    OBVIOUS
  <2> QED
    BY <1>2, <2>1, <2>2
<1>4. /\ UNCHANGED <<trips_pc, trips, wrappers, requests, events, failed>>
      /\ done' = [done EXCEPT ![c] = TRUE] /\ callback' = [callback EXCEPT ![c] = Trips!Gone]
      /\ trips_queue' = [trips_queue EXCEPT ![c] = <<>>]
  <2>1. callback[c].listener /\ Trips!Handle(c) /\ trips_queue' = [trips_queue EXCEPT ![c] = Tail(trips_queue[c])]
        /\ UNCHANGED <<trips_pc, trips, wrappers, requests, events, failed>>
    BY <1>3 DEF Trips!DispatchOwn
  <2> QED
    BY <1>3, <2>1 DEF Trips!Handle
<1>5. /\ done'[c] /\ trips_queue'[c] = <<>> /\ trips_queue'["default"] = trips_queue["default"]
      /\ \A d \in Callers \ {c} : done'[d] = done[d] /\ callback'[d] = callback[d] /\ trips_queue'[d] = trips_queue[d]
  BY <1>1, <1>4 DEF Trips!TypeOK, Trips!RoundtripAssumption
<1>6. Trips!TypeOK'
  BY <1>1, <1>4 DEF Trips!TypeOK, Trips!Gone
<1>7. Trips!TripsFit'
  BY <1>1, <1>2, <1>4, <1>5, ZenonT(60) DEF Trips!TripsFit
<1>8. c \notin Trips!ToSet(requests) \cup Trips!ToSet(events)
  BY <1>1, <1>2 DEF Trips!AnswersFit
<1>9. Trips!UnderWay' \subseteq Trips!UnderWay \ {c}
  BY <1>4, <1>5, <1>8 DEF Trips!UnderWay
<1>10. Trips!AnswersFit'
  BY <1>1, <1>4, <1>5, <1>9 DEF Trips!AnswersFit
<1> QED
  BY <1>6, <1>7, <1>10 DEF TripInv

\* The compositor answers, the answer is read, and the connection fails.
LEMMA TripMoves ==
  ASSUME Trips!RoundtripAssumption, TripInv, Trips!Answer \/ Trips!Read \/ Trips!Fail
  PROVE  TripInv'
<1>1. Trips!TypeOK /\ Trips!TripsFit /\ Trips!AnswersFit
  BY DEF TripInv
<1>2. requests \in Seq(Callers) /\ events \in Seq(Callers) /\ Trips!Once(requests) /\ Trips!Once(events)
      /\ Trips!ToSet(requests) \cap Trips!ToSet(events) = {}
  BY <1>1 DEF Trips!TypeOK, Trips!AnswersFit
<1>3. CASE Trips!Answer
  <2>1. UNCHANGED <<trips_pc, trips, wrappers, callback, trips_queue, done, failed>>
    BY <1>3 DEF Trips!Answer, Trips!proxies
  <2>2. PICK c \in Callers : c = Head(requests) /\ c \in Trips!ToSet(requests) /\ requests' \in Seq(Callers) /\ Trips!Once(requests')
                            /\ Trips!ToSet(requests') = Trips!ToSet(requests) \ {c}
    BY <1>2, <1>3, OnceLess DEF Trips!Answer
  <2>3. events' \in Seq(Callers) /\ Trips!Once(events') /\ Trips!ToSet(events') = Trips!ToSet(events) \cup {c}
    <3>1. events' = Append(events, c) /\ c \notin Trips!ToSet(events)
      BY <1>2, <1>3, <2>2 DEF Trips!Answer
    <3> QED
      BY <1>2, <3>1, OnceMore
  <2>4. Trips!TypeOK'
    BY <1>1, <2>1, <2>2, <2>3 DEF Trips!TypeOK
  <2>5. Trips!TripsFit'
    BY <1>1, <2>1 DEF Trips!TripsFit
  <2>6. Trips!UnderWay' = Trips!UnderWay
    BY <2>1, <2>2, <2>3 DEF Trips!UnderWay
  <2>7. Trips!AnswersFit'
    BY <1>1, <2>1, <2>2, <2>3, <2>6 DEF Trips!AnswersFit
  <2> QED
    BY <2>4, <2>5, <2>7 DEF TripInv
<1>4. CASE Trips!Read
  <2>1. UNCHANGED <<trips_pc, trips, wrappers, callback, requests, done, failed>> /\ ~failed
    BY <1>4 DEF Trips!Read, Trips!proxies
  <2>2. PICK c \in Callers : c = Head(events) /\ c \in Trips!ToSet(events) /\ events' \in Seq(Callers) /\ Trips!Once(events')
                            /\ Trips!ToSet(events') = Trips!ToSet(events) \ {c}
    BY <1>2, <1>4, OnceLess DEF Trips!Read
  <2>3. c \in Trips!UnderWay /\ trips_queue[c] = <<>> /\ c \notin Trips!ToSet(requests)
    BY <1>1, <1>2, <2>2 DEF Trips!AnswersFit, Trips!UnderWay
  <2>4. ~done[c] /\ trips_pc[c] \in {"asked", "listening", "waiting"}
    BY <1>1, <2>1, <2>3 DEF Trips!AnswersFit, Trips!TripsFit
  <2>5. callback[c].queue = c /\ callback[c] # Trips!Gone
    <3>1. callback[c].queue = c
      <4>1. callback[c] = [queue |-> c, listener |-> FALSE] \/ callback[c] = [queue |-> c, listener |-> TRUE]
        BY <1>1, <2>4 DEF Trips!TripsFit
      <4> QED
        BY <4>1
    <3>2. Trips!Gone.queue = "nobody" /\ c # "nobody"
      BY DEF Trips!Gone, Trips!RoundtripAssumption
    <3> QED
      BY <3>1, <3>2
  <2>6. trips_queue' = [trips_queue EXCEPT ![c] = Append(trips_queue[c], c)]
    <3>1. LET d == Head(events) IN
          IF callback[d] = Trips!Gone THEN UNCHANGED trips_queue
          ELSE trips_queue' = [trips_queue EXCEPT ![callback[d].queue] = Append(trips_queue[callback[d].queue], d)]
      BY <1>4 DEF Trips!Read
    <3>2. IF callback[c] = Trips!Gone THEN UNCHANGED trips_queue
          ELSE trips_queue' = [trips_queue EXCEPT ![callback[c].queue] = Append(trips_queue[callback[c].queue], c)]
      BY <2>2, <3>1
    <3> QED
      BY <2>5, <3>2
  <2>7. /\ trips_queue' \in [Callers \cup {"default"} -> Seq(Callers)] /\ trips_queue'[c] = <<c>> /\ trips_queue'["default"] = trips_queue["default"]
        /\ \A d \in Callers \ {c} : trips_queue'[d] = trips_queue[d]
    BY <1>1, <2>3, <2>6 DEF Trips!TypeOK, Trips!RoundtripAssumption
  <2>8. Trips!TypeOK'
    BY <1>1, <2>1, <2>2, <2>7 DEF Trips!TypeOK
  <2>9. Trips!TripsFit'
    BY <1>1, <2>1 DEF Trips!TripsFit
  <2>10. Trips!UnderWay' = Trips!UnderWay
    <3>1. \A d \in Callers : trips_queue'[d] # <<>> <=> (trips_queue[d] # <<>> \/ d = c)
      <4>1. <<c>> # <<>>
        OBVIOUS
      <4> QED
        BY <2>3, <2>7, <4>1
    <3>2. Trips!ToSet(events) = Trips!ToSet(events') \cup {c} /\ Trips!ToSet(requests') = Trips!ToSet(requests)
      BY <2>1, <2>2
    <3> QED
      BY <3>1, <3>2 DEF Trips!UnderWay
  <2>11. Trips!AnswersFit'
    BY <1>1, <2>1, <2>2, <2>3, <2>7, <2>10 DEF Trips!AnswersFit
  <2> QED
    BY <2>8, <2>9, <2>11 DEF TripInv
<1>5. CASE Trips!Fail
  BY <1>1, <1>5 DEF Trips!Fail, Trips!proxies, TripInv, Trips!TypeOK, Trips!TripsFit, Trips!AnswersFit, Trips!UnderWay
<1> QED
  BY <1>3, <1>4, <1>5

\* Every step keeps the answers where they belong.
LEMMA TripsStep ==
  ASSUME Trips!RoundtripAssumption, TripInv, Trips!Next \/ UNCHANGED Trips!vars
  PROVE  TripInv'
<1>1. CASE Trips!DispatchDefault
  BY <1>1 DEF Trips!DispatchDefault, TripInv, Trips!AnswersFit
<1>3. ASSUME NEW c \in Callers, Trips!Caller(c) PROVE TripInv'
  <2>1. CASE Trips!CreateWrapper(c) \/ Trips!SetQueue(c) \/ Trips!DestroyWrapper(c) \/ Trips!AddListener(c) \/ Trips!Return(c)
    BY <2>1, TripLocal
  <2>2. CASE Trips!Sync(c)
    BY <2>2, TripAsks
  <2>3. CASE Trips!DispatchOwn(c)
    BY <2>3, TripAnswered
  <2> QED
    BY <1>3, <2>1, <2>2, <2>3 DEF Trips!Caller
<1>4. CASE Trips!Answer \/ Trips!Read \/ Trips!Fail
  BY <1>4, TripMoves
<1>2. CASE UNCHANGED Trips!vars
  BY <1>2 DEF Trips!vars, Trips!proxies, TripInv, Trips!TypeOK, Trips!TripsFit, Trips!AnswersFit, Trips!UnderWay
<1> QED
  BY <1>1, <1>2, <1>3, <1>4 DEF Trips!Next
------------------------------------------------------------------------------
(* Proofs: objects that several threads make *)

Requests == [new : Nat, destroys : Nat, via : Callers \cup {None}]
Things == [queue : Callers \cup {None}, owner : Callers \cup {None}, listener : BOOLEAN, destroyed : BOOLEAN]

\* The indices of a sequence when one element is added at its end.
LEMMA OneMore ==
  ASSUME NEW S, NEW s \in Seq(S), NEW x \in S
  PROVE  /\ Append(s, x) \in Seq(S) /\ Len(Append(s, x)) = Len(s) + 1 /\ Len(s) \in Nat
         /\ \A i : i \in DOMAIN s <=> i \in 1..Len(s)
         /\ \A i : i \in DOMAIN Append(s, x) <=> (i \in DOMAIN s \/ i = Len(s) + 1)
         /\ \A i \in DOMAIN s : Append(s, x)[i] = s[i] /\ s[i] \in S
         /\ Append(s, x)[Len(s) + 1] = x /\ Len(s) + 1 \notin DOMAIN s
<1> DEFINE t == Append(s, x)
           n == Len(s)
<1>1. /\ n \in Nat /\ t \in Seq(S) /\ (\A i : i \in DOMAIN s <=> i \in 1..n) /\ Len(t) = n + 1
      /\ (\A i : i \in DOMAIN t <=> i \in 1..(n + 1)) /\ t[n + 1] = x
      /\ \A i \in 1..n : t[i] = s[i] /\ s[i] \in S
  OBVIOUS
<1> HIDE DEF t, n
<1>2. (\A i : i \in 1..(n + 1) <=> (i \in 1..n \/ i = n + 1)) /\ n + 1 \notin 1..n
  BY <1>1
<1> QED
  BY <1>1, <1>2 DEF t, n

\* What a sequence consists of.
LEMMA ElementIn ==
  ASSUME NEW S, NEW s \in Seq(S), NEW i \in DOMAIN s
  PROVE  s[i] \in S
OBVIOUS

\* Ids and events stay as they are when the wires and the calls do.
LEMMA SameWires ==
  ASSUME Makers!IdsFit, Makers!NewIdsInOrder, Makers!EventsFit, UNCHANGED <<makers_pc, call, makers_out, makers_sent, makers_taken, makers_last_error>>, Makers!Made' = Makers!Made
  PROVE  Makers!IdsFit' /\ Makers!NewIdsInOrder' /\ Makers!EventsFit'
<1>1. Makers!Written' = Makers!Written
  BY DEF Makers!Written
<1>2. Makers!IdsFit'
  BY <1>1 DEF Makers!IdsFit
<1>3. Makers!NewIdsInOrder'
  BY DEF Makers!NewIdsInOrder
<1>4. Makers!EventsFit'
  BY <1>1 DEF Makers!EventsFit
<1> QED
  BY <1>2, <1>3, <1>4

\* A queue of events in order when one is added that was sent later.
LEMMA QueueMore ==
  ASSUME NEW s \in Seq(Makers!Events), NEW x \in Makers!Events, Makers!Increasing(s), \A e \in Makers!ToSet(s) : e.n < x.n
  PROVE  /\ Append(s, x) \in Seq(Makers!Events) /\ Makers!Increasing(Append(s, x)) /\ Makers!ToSet(Append(s, x)) = Makers!ToSet(s) \cup {x}
<1> DEFINE t == Append(s, x)
           n == Len(s)
<1>1. /\ n \in Nat /\ t \in Seq(Makers!Events) /\ (\A i : i \in DOMAIN s <=> i \in 1..n)
      /\ (\A i : i \in DOMAIN t <=> (i \in 1..n \/ i = n + 1)) /\ t[n + 1] = x
      /\ \A i \in 1..n : t[i] = s[i]
  BY OneMore
<1> HIDE DEF t, n
<1>2. \A i \in 1..n : i < n + 1 /\ ~(n + 1 < i)
  BY <1>1
<1>3. ~(n + 1 < n + 1)
  BY <1>1
<1>4. Makers!ToSet(t) = Makers!ToSet(s) \cup {x}
  BY <1>1 DEF Makers!ToSet
<1>5. ASSUME NEW i \in DOMAIN t, NEW j \in DOMAIN t, i < j PROVE t[i].n < t[j].n
  <2>1. i \in 1..n
    BY <1>1, <1>2, <1>3, <1>5
  <2>2. CASE j \in 1..n
    BY <1>1, <1>5, <2>1, <2>2 DEF Makers!Increasing
  <2>3. CASE j = n + 1
    BY <1>1, <2>1, <2>3 DEF Makers!ToSet
  <2> QED
    BY <1>1, <2>2, <2>3
<1> QED
  BY <1>1, <1>4, <1>5 DEF t, Makers!Increasing

\* One whose first event is taken.
LEMMA QueueLess ==
  ASSUME NEW s \in Seq(Makers!Events), Makers!Increasing(s), s # <<>>
  PROVE  /\ Tail(s) \in Seq(Makers!Events) /\ Makers!Increasing(Tail(s)) /\ Head(s) \in Makers!ToSet(s) /\ Head(s) \in Makers!Events
         /\ Makers!ToSet(Tail(s)) = Makers!ToSet(s) \ {Head(s)}
         /\ \A e \in Makers!ToSet(s) : e \in Makers!Events /\ (e = Head(s) \/ Head(s).n < e.n)
<1> DEFINE t == Tail(s)
           n == Len(s)
           x == Head(s)
<1>1. /\ n \in Nat \ {0} /\ t \in Seq(Makers!Events) /\ (\A i : i \in DOMAIN s <=> i \in 1..n) /\ x \in Makers!Events
      /\ (\A i : i \in DOMAIN t <=> i \in 1..(n - 1)) /\ x = s[1]
      /\ \A i \in 1..(n - 1) : t[i] = s[i + 1]
      /\ \A i \in 1..n : s[i] \in Makers!Events
  OBVIOUS
<1> HIDE DEF t, n, x
<1>2. /\ \A i \in 1..n : i = 1 \/ ((i - 1) \in 1..(n - 1) /\ (i - 1) + 1 = i /\ 1 < i)
      /\ \A i \in 1..(n - 1) : i + 1 \in 1..n /\ 1 < i + 1 /\ \A j \in 1..(n - 1) : i < j => i + 1 < j + 1
      /\ 1 \in 1..n
  <2>1. n \in Nat \ {0}
    BY <1>1
  <2> QED
    BY <2>1
<1>3. Makers!Increasing(t)
  <2> SUFFICES ASSUME NEW i \in 1..(n - 1), NEW j \in 1..(n - 1), i < j PROVE t[i].n < t[j].n
    BY <1>1 DEF Makers!Increasing
  <2>1. i + 1 \in DOMAIN s /\ j + 1 \in DOMAIN s /\ i + 1 < j + 1
    BY <1>1, <1>2
  <2>2. s[i + 1].n < s[j + 1].n
    BY <2>1 DEF Makers!Increasing
  <2> QED
    BY <1>1, <2>2
<1>4. x \in Makers!ToSet(s)
  BY <1>1, <1>2 DEF Makers!ToSet
<1>5. ASSUME NEW e \in Makers!ToSet(t) PROVE e \in Makers!ToSet(s) /\ x.n < e.n
  <2>1. PICK i \in 1..(n - 1) : t[i] = e
    BY <1>1, <1>5 DEF Makers!ToSet
  <2>2. i + 1 \in DOMAIN s /\ s[i + 1] = e /\ 1 \in DOMAIN s /\ 1 < i + 1
    BY <1>1, <1>2, <2>1
  <2>3. s[1].n < s[i + 1].n
    BY <2>2 DEF Makers!Increasing
  <2> QED
    BY <1>1, <2>2, <2>3 DEF Makers!ToSet
<1>6. ASSUME NEW e \in Makers!ToSet(s) PROVE e \in Makers!Events /\ (e = x \/ e \in Makers!ToSet(t))
  <2>1. PICK i \in 1..n : s[i] = e
    BY <1>1, <1>6 DEF Makers!ToSet
  <2>2. CASE i = 1
    BY <1>1, <2>1, <2>2
  <2>3. CASE i # 1
    <3>1. i - 1 \in 1..(n - 1) /\ (i - 1) + 1 = i
      BY <1>2, <2>1, <2>3
    <3> QED
      BY <1>1, <2>1, <3>1 DEF Makers!ToSet
  <2> QED
    BY <2>2, <2>3
<1>7. x \notin Makers!ToSet(t)
  <2>1. x.n \in Nat
    BY <1>1 DEF Makers!Events
  <2>2. ~(x.n < x.n)
    BY <2>1
  <2> QED
    BY <1>5, <2>2
<1> QED
  BY <1>1, <1>3, <1>4, <1>5, <1>6, <1>7 DEF t, x

\* What is sent to a thread's new object: nothing yet.
LEMMA NothingForNew ==
  ASSUME Makers!ProxyQueuesAssumption, Makers!IdsFit, Makers!EventsFit, Makers!TypeOK,
         NEW p \in Nat, p \notin Makers!Made, p \notin MakerIds, NEW k \in DOMAIN makers_sent
  PROVE  makers_sent[k].to # p
<1>1. p \notin Makers!Written
  BY DEF Makers!IdsFit
<1>2. CASE makers_sent[k].to \in Makers!Written
  BY <1>1, <1>2
<1>3. ASSUME makers_sent[k].to # 0, NEW j \in 1..(k - 1), makers_sent[j].new = makers_sent[k].to PROVE makers_sent[k].to # p
  <2>1. k \in 1..Len(makers_sent) /\ Len(makers_sent) \in Nat /\ DOMAIN makers_sent = 1..Len(makers_sent)
    BY DEF Makers!TypeOK
  <2>2. j \in DOMAIN makers_sent
    BY <1>3, <2>1
  <2>3. makers_sent[j].new \in MakerIds \cup {0}
    BY <2>2 DEF Makers!EventsFit
  <2> QED
    BY <1>3, <2>3
<1> QED
  BY <1>2, <1>3 DEF Makers!EventsFit

\* A step that leaves the events alone: objects are made, get a listener and are
\* destroyed.
LEMMA EventsKept ==
  ASSUME Makers!ProxyQueuesAssumption, Makers!Inv, UNCHANGED <<makers_queue, makers_sent, makers_taken, makers_handled>>,
         \A p \in Makers!Made :
           /\ p \in Makers!Made' /\ makers_proxies'[p].owner = makers_proxies[p].owner
           /\ \/ makers_proxies'[p].queue = makers_proxies[p].queue /\ (makers_proxies'[p].destroyed <=> makers_proxies[p].destroyed)
              \/ makers_proxies'[p].destroyed /\ makers_proxies'[p].queue = None
           /\ makers_proxies[p].owner = None => makers_proxies'[p] = makers_proxies[p],
         \A p \in Makers!Made' \ Makers!Made : p \in Nat \ MakerIds, Makers!TypeOK'
  PROVE  Makers!QueuesFit' /\ Makers!HandledFit' /\ Makers!Followed' /\ Makers!HandledByOwner'
<1>1. Makers!TypeOK /\ Makers!IdsFit /\ Makers!EventsFit /\ Makers!QueuesFit /\ Makers!HandledFit /\ Makers!Followed /\ Makers!HandledByOwner
  BY DEF Makers!Inv
<1>2. \A t \in Callers : Makers!Lying(t)' = Makers!Lying(t)
  BY DEF Makers!Lying
<1>3. Makers!QueuesFit'
  <2> SUFFICES ASSUME NEW t \in Callers
               PROVE  /\ makers_queue[t] # None => Makers!Increasing(makers_queue[t])
                      /\ \A e \in Makers!Lying(t) :
                           /\ e.n \in 1..makers_taken /\ e = makers_sent[e.n]
                           /\ e.to \in Makers!Made' /\ (makers_proxies'[e.to].destroyed \/ makers_proxies'[e.to].queue = t)
                           /\ e.new # 0 => e.new \in Makers!Made' /\ makers_proxies'[e.new] = Makers!NewProxy(t, None)
    BY <1>2 DEF Makers!QueuesFit, Makers!Increasing
  <2>1. ASSUME NEW e \in Makers!Lying(t)
        PROVE  /\ e.to \in Makers!Made' /\ (makers_proxies'[e.to].destroyed \/ makers_proxies'[e.to].queue = t)
               /\ e.new # 0 => e.new \in Makers!Made' /\ makers_proxies'[e.new] = Makers!NewProxy(t, None)
    <3>1. /\ e.to \in Makers!Made /\ (makers_proxies[e.to].destroyed \/ makers_proxies[e.to].queue = t)
          /\ e.new # 0 => e.new \in Makers!Made /\ makers_proxies[e.new] = Makers!NewProxy(t, None)
      BY <1>1, <2>1 DEF Makers!QueuesFit
    <3>2. Makers!NewProxy(t, None).owner = None
      BY DEF Makers!NewProxy
    <3> QED
      BY <3>1, <3>2
  <2> QED
    BY <1>1, <2>1 DEF Makers!QueuesFit
<1>4. Makers!HandledFit'
  BY <1>1, <1>2 DEF Makers!HandledFit
<1>5. Makers!HandledByOwner'
  BY <1>1 DEF Makers!HandledByOwner, Makers!HandledFit
<1>6. ASSUME NEW p \in Makers!Made', Makers!Awaited(p)', NEW q \in Callers, makers_proxies'[p].queue = q,
             NEW k \in 1..makers_taken, makers_sent[k].to = p
      PROVE  makers_sent[k] \in Makers!Lying(q) \/ \E i \in DOMAIN makers_handled : makers_handled[i].event = makers_sent[k]
  <2>1. k \in DOMAIN makers_sent
    <3>1. Len(makers_sent) \in Nat /\ DOMAIN makers_sent = 1..Len(makers_sent) /\ makers_taken \in 0..Len(makers_sent)
      BY <1>1 DEF Makers!TypeOK
    <3> QED
      BY <1>6, <3>1
  <2>2. p \in Makers!Made
    BY <1>1, <1>6, <2>1, NothingForNew
  <2>3. makers_proxies[p].queue = q /\ makers_proxies'[p].owner = makers_proxies[p].owner
    BY <1>6, <2>2 DEF Makers!ProxyQueuesAssumption
  <2>4. Makers!Awaited(p) /\ q # None
    BY <1>2, <1>6, <2>3 DEF Makers!Awaited, Makers!ProxyQueuesAssumption
  <2> QED
    BY <1>1, <1>6, <2>2, <2>3, <2>4 DEF Makers!Followed
<1>7. Makers!Followed'
  <2> SUFFICES ASSUME NEW p \in Makers!Made', Makers!Awaited(p)', makers_proxies'[p].queue # None, NEW k \in 1..makers_taken, makers_sent[k].to = p,
                      NEW q, makers_proxies'[p].queue = q
               PROVE  makers_sent[k] \in Makers!Lying(q)' \/ \E i \in DOMAIN makers_handled : makers_handled[i].event = makers_sent[k]
    BY DEF Makers!Followed
  <2>1. q \in Callers
    BY DEF Makers!TypeOK
  <2> QED
    BY <1>2, <1>6, <2>1
<1> QED
  BY <1>3, <1>4, <1>5, <1>7

\* The steps that change a wrapper, or nothing of the threads.
LEMMA WrapperSteps ==
  ASSUME Makers!ProxyQueuesAssumption, Makers!Inv, aborted = "no", NEW t \in Callers,
         Makers!CreateWrapper(t) \/ Makers!DestroyWrapper(t) \/ Makers!ListenOnWrapper(t) \/ Makers!Serve
  PROVE  Makers!Inv'
<1>1. /\ Makers!TypeOK /\ Makers!CallsFit /\ Makers!ProxiesFit /\ Makers!IdsFit /\ Makers!DestroysFit /\ Makers!EventsFit /\ Makers!NewIdsInOrder
      /\ Makers!AbortsOnlyForDiscarded
  BY DEF Makers!Inv
<1>2. /\ UNCHANGED <<mutex, makers_pc, call, makers_proxies, makers_queue, makers_out, makers_sent, makers_taken, makers_handled, makers_last_error>>
      /\ aborted' \in {"no", "wrapper"} /\ wrapper' \in [Callers -> Callers \cup {None}]
      /\ \A u \in Callers : wrapper'[u] \in {None, u}
      /\ served' \in 0..Len(makers_out)
  <2>1. served \in 0..Len(makers_out) /\ Len(makers_out) \in Nat /\ wrapper \in [Callers -> Callers \cup {None}]
        /\ \A u \in Callers : wrapper[u] \in {None, u}
    BY <1>1 DEF Makers!TypeOK, Makers!CallsFit
  <2>2. CASE Makers!CreateWrapper(t)
    BY <2>1, <2>2 DEF Makers!CreateWrapper, Makers!requests, Makers!wire
  <2>3. CASE Makers!DestroyWrapper(t)
    BY <2>1, <2>3 DEF Makers!DestroyWrapper, Makers!requests, Makers!wire
  <2>4. CASE Makers!ListenOnWrapper(t)
    BY <2>1, <2>4 DEF Makers!ListenOnWrapper, Makers!requests, Makers!wire
  <2>5. CASE Makers!Serve
    BY <2>1, <2>5 DEF Makers!Serve, Makers!requests
  <2> QED
    BY <2>2, <2>3, <2>4, <2>5
<1>3. Makers!Made' = Makers!Made /\ Makers!Written' = Makers!Written
  BY <1>2 DEF Makers!Made, Makers!Written
<1>4. Makers!TypeOK'
  BY <1>1, <1>2, <1>3 DEF Makers!TypeOK
<1>5. Makers!CallsFit'
  BY <1>1, <1>2, <1>3 DEF Makers!CallsFit
<1>6. Makers!ProxiesFit'
  BY <1>1, <1>2, <1>3 DEF Makers!ProxiesFit
<1>7. Makers!IdsFit' /\ Makers!DestroysFit' /\ Makers!EventsFit' /\ Makers!NewIdsInOrder'
  BY <1>1, <1>2, <1>3 DEF Makers!IdsFit, Makers!DestroysFit, Makers!EventsFit, Makers!NewIdsInOrder
<1>8. Makers!AbortsOnlyForDiscarded'
  BY <1>2 DEF Makers!AbortsOnlyForDiscarded
<1>9. Makers!QueuesFit' /\ Makers!HandledFit' /\ Makers!Followed' /\ Makers!HandledByOwner'
  BY <1>2, <1>3, <1>4, EventsKept
<1> QED
  BY <1>4, <1>5, <1>6, <1>7, <1>8, <1>9 DEF Makers!Inv

\* The next id is the one after those that were given out.
LEMMA NextIs ==
  ASSUME Makers!ProxyQueuesAssumption, NEW n \in 0..MaxMade, Makers!Made \ MakerIds = 1..n
  PROVE  Makers!NextId = n + 1 /\ (n + 1 <= MaxMade <=> Makers!Made \ MakerIds # 1..MaxMade)
<1>1. n \in Nat /\ n + 1 \in 1..(MaxMade + 1) /\ n = (n + 1) - 1 /\ MaxMade \in Nat /\ n <= MaxMade
  BY DEF Makers!ProxyQueuesAssumption
<1>2. \A m \in Nat : 1..m = 1..n => m = n
  <2> SUFFICES ASSUME NEW m \in Nat, 1..m = 1..n PROVE m = n
    OBVIOUS
  <2>1. ASSUME m < n PROVE FALSE
    <3>1. n \in 1..n /\ n \notin 1..m
      BY <1>1, <2>1
    <3> QED
      BY <3>1
  <2>2. ASSUME n < m PROVE FALSE
    <3>1. m \in 1..m /\ m \notin 1..n
      BY <1>1, <2>2
    <3> QED
      BY <3>1
  <2> QED
    BY <1>1, <2>1, <2>2
<1>3. Makers!Made \ MakerIds = 1..((n + 1) - 1)
  BY <1>1
<1>4. Makers!NextId \in 1..(MaxMade + 1) /\ Makers!Made \ MakerIds = 1..(Makers!NextId - 1)
  BY <1>1, <1>3 DEF Makers!NextId
<1>5. Makers!NextId - 1 \in Nat /\ Makers!NextId \in Nat
  BY <1>1, <1>4
<1>6. Makers!NextId - 1 = n
  BY <1>2, <1>4, <1>5
<1>7. n = MaxMade <=> Makers!Made \ MakerIds = 1..MaxMade
  BY <1>1, <1>2
<1> QED
  BY <1>1, <1>5, <1>6, <1>7

\* A request begins: the mutex is taken.
LEMMA MarshalSteps ==
  ASSUME Makers!ProxyQueuesAssumption, Makers!Inv, aborted = "no", NEW t \in Callers,
         Makers!MarshalNew(t) \/ \E p \in Makers!Made : Makers!MarshalDestroy(t, p)
  PROVE  Makers!Inv'
<1>1. /\ Makers!TypeOK /\ Makers!CallsFit /\ Makers!ProxiesFit /\ Makers!IdsFit /\ Makers!DestroysFit /\ Makers!EventsFit /\ Makers!NewIdsInOrder
      /\ Makers!AbortsOnlyForDiscarded
  BY DEF Makers!Inv
<1>2. /\ mutex = None /\ makers_pc[t] = "idle" /\ mutex' = t
      /\ UNCHANGED <<wrapper, makers_proxies, makers_queue, makers_out, served, makers_sent, makers_taken, makers_handled, makers_last_error, aborted>>
  BY DEF Makers!MarshalNew, Makers!MarshalDestroy, Makers!Unlocked, Makers!wire
<1>3. PICK c \in Requests, w \in {"create", "write"} :
        /\ makers_pc' = [makers_pc EXCEPT ![t] = w] /\ call' = [call EXCEPT ![t] = c] /\ c.new = 0
        /\ w = "create" => c = [new |-> 0, destroys |-> 0, via |-> t]
        /\ c.destroys # 0 => c.destroys \in Makers!Made /\ makers_proxies[c.destroys].owner = t
        /\ w = "create" => Makers!Made \ MakerIds # 1..MaxMade
  <2>1. CASE Makers!MarshalNew(t)
    <3>3. Makers!Made \ MakerIds # 1..MaxMade
      <4>1. PICK n \in 0..MaxMade : Makers!Made \ MakerIds = 1..n
        BY <1>1 DEF Makers!IdsFit
      <4>2. Makers!NextId = n + 1 /\ (n + 1 <= MaxMade <=> Makers!Made \ MakerIds # 1..MaxMade)
        BY <4>1, NextIs
      <4>3. Makers!NextId <= MaxMade
        BY <2>1 DEF Makers!MarshalNew
      <4> QED
        BY <4>2, <4>3
    <3>1. Makers!Via(t) = t
      BY <1>1, <2>1 DEF Makers!MarshalNew, Makers!Via, Makers!CallsFit
    <3>2. [new |-> 0, destroys |-> 0, via |-> t] \in Requests
      BY DEF Requests
    <3> QED
      BY <2>1, <3>1, <3>2, <3>3 DEF Makers!MarshalNew, Makers!Goto
  <2>2. ASSUME NEW p \in Makers!Made, Makers!MarshalDestroy(t, p)
        PROVE  \E c \in Requests, w \in {"create", "write"} :
                 /\ makers_pc' = [makers_pc EXCEPT ![t] = w] /\ call' = [call EXCEPT ![t] = c] /\ c.new = 0
                 /\ w = "create" => c = [new |-> 0, destroys |-> 0, via |-> t]
                 /\ c.destroys # 0 => c.destroys \in Makers!Made /\ makers_proxies[c.destroys].owner = t
                 /\ w = "create" => Makers!Made \ MakerIds # 1..MaxMade
    <3>1. p \in Nat
      BY <1>1, <2>2 DEF Makers!TypeOK, Makers!ProxyQueuesAssumption
    <3>2. [new |-> 0, destroys |-> p, via |-> None] \in Requests
      BY <3>1 DEF Requests
    <3> QED
      BY <2>2, <3>2 DEF Makers!MarshalDestroy, Makers!Goto
  <2> QED
    BY <2>1, <2>2
<1>4. /\ makers_pc'[t] = w /\ call'[t] = c /\ \A u \in Callers \ {t} : makers_pc'[u] = makers_pc[u] /\ call'[u] = call[u]
      /\ makers_pc' \in [Callers -> {"idle", "create", "write", "written", "returned", "gone"}]
      /\ call' \in [Callers -> Requests]
  BY <1>1, <1>3 DEF Makers!TypeOK, Requests
<1>5. Makers!Made' = Makers!Made /\ Makers!Written' = Makers!Written
  BY <1>2 DEF Makers!Made, Makers!Written
<1>6. \A u \in Callers : makers_pc[u] \notin {"create", "write", "written"}
  BY <1>1, <1>2 DEF Makers!CallsFit, Makers!ProxyQueuesAssumption
<1>7. Makers!TypeOK'
  BY <1>1, <1>2, <1>4, <1>5 DEF Makers!TypeOK, Requests
<1>8. Makers!CallsFit'
  BY <1>1, <1>2, <1>3, <1>4, <1>5, <1>6 DEF Makers!CallsFit
<1>9. Makers!ProxiesFit'
  <2> SUFFICES ASSUME NEW p \in Makers!Made, NEW x, x = makers_proxies[p]
               PROVE  /\ x.queue # None => makers_pc'[x.queue] # "gone" /\ x.owner \in {None, x.queue}
                      /\ x.destroyed => x.queue = None
                      /\ x.queue = None /\ ~x.destroyed => x.owner = None
                      /\ x.owner = None => p \in MakerIds /\ ~x.listener
                      /\ x.owner # None /\ ~x.listener =>
                           call'[x.owner].new = p /\ makers_pc'[x.owner] \in {"write", "written", "returned"}
    BY <1>2, <1>5 DEF Makers!ProxiesFit
  <2>1. x.queue \in Callers \cup {None} /\ x.owner \in Callers \cup {None}
    BY <1>1 DEF Makers!TypeOK
  <2>2. /\ x.queue # None => makers_pc[x.queue] # "gone" /\ x.owner \in {None, x.queue}
        /\ x.destroyed => x.queue = None
        /\ x.queue = None /\ ~x.destroyed => x.owner = None
        /\ x.owner = None => p \in MakerIds /\ ~x.listener
        /\ x.owner # None /\ ~x.listener =>
             call[x.owner].new = p /\ makers_pc[x.owner] \in {"write", "written", "returned"}
    BY <1>1 DEF Makers!ProxiesFit
  <2>3. x.queue # None => makers_pc'[x.queue] # "gone"
    BY <1>4, <2>1, <2>2
  <2>4. x.owner # None /\ ~x.listener =>
          call'[x.owner].new = p /\ makers_pc'[x.owner] \in {"write", "written", "returned"}
    BY <1>2, <1>4, <2>1, <2>2
  <2> QED
    BY <2>2, <2>3, <2>4
<1>10. Makers!IdsFit' /\ Makers!DestroysFit'
  BY <1>1, <1>2, <1>3, <1>4, <1>5, <1>6 DEF Makers!IdsFit, Makers!DestroysFit
<1>11. Makers!EventsFit' /\ Makers!NewIdsInOrder'
  BY <1>1, <1>2, <1>5 DEF Makers!EventsFit, Makers!NewIdsInOrder
<1>12. Makers!AbortsOnlyForDiscarded'
  BY <1>2 DEF Makers!AbortsOnlyForDiscarded
<1>13. Makers!QueuesFit' /\ Makers!HandledFit' /\ Makers!Followed' /\ Makers!HandledByOwner'
  BY <1>2, <1>5, <1>7, EventsKept
<1> QED
  BY <1>7, <1>8, <1>9, <1>10, <1>11, <1>12, <1>13 DEF Makers!Inv

\* One fact about a proxy that the invariant holds.
LEMMA ProxyFacts ==
  ASSUME Makers!ProxyQueuesAssumption, Makers!TypeOK, Makers!ProxiesFit, NEW p \in Makers!Made
  PROVE  /\ makers_proxies[p] \in Things /\ p \in Nat \ {0}
         /\ makers_proxies[p].queue \in Callers \cup {None} /\ makers_proxies[p].owner \in Callers \cup {None}
         /\ makers_proxies[p].queue # None => makers_pc[makers_proxies[p].queue] # "gone" /\ makers_proxies[p].owner \in {None, makers_proxies[p].queue}
         /\ makers_proxies[p].destroyed => makers_proxies[p].queue = None
         /\ makers_proxies[p].queue = None /\ ~makers_proxies[p].destroyed => makers_proxies[p].owner = None
         /\ makers_proxies[p].owner = None => p \in MakerIds /\ ~makers_proxies[p].listener
         /\ makers_proxies[p].owner # None /\ ~makers_proxies[p].listener =>
              /\ call[makers_proxies[p].owner].new = p
              /\ makers_pc[makers_proxies[p].owner] \in {"write", "written", "returned"}
<1>1. makers_proxies[p] \in Things /\ p \in Nat \ {0}
  BY DEF Makers!TypeOK, Things, Makers!ProxyQueuesAssumption
<1>2. makers_proxies[p].queue \in Callers \cup {None} /\ makers_proxies[p].owner \in Callers \cup {None}
  BY <1>1 DEF Things
<1> QED
  BY <1>1, <1>2 DEF Makers!ProxiesFit

\* The object of a request is made.
LEMMA CreateStep ==
  ASSUME Makers!ProxyQueuesAssumption, Makers!Inv, aborted = "no", NEW t \in Callers, Makers!CreateOutgoing(t)
  PROVE  Makers!Inv'
<1>1. /\ Makers!TypeOK /\ Makers!CallsFit /\ Makers!ProxiesFit /\ Makers!IdsFit /\ Makers!DestroysFit /\ Makers!EventsFit /\ Makers!NewIdsInOrder
      /\ Makers!AbortsOnlyForDiscarded
  BY DEF Makers!Inv
<1>2. PICK n \in 0..MaxMade : Makers!Made \ MakerIds = 1..n
  BY <1>1 DEF Makers!IdsFit
<1>3. /\ n \in Nat /\ n + 1 <= MaxMade /\ Makers!NextId = n + 1 /\ MaxMade \in Nat
  <2>1. makers_pc[t] = "create" => Makers!Made \ MakerIds # 1..MaxMade
    BY <1>1 DEF Makers!IdsFit
  <2>2. Makers!NextId = n + 1 /\ (n + 1 <= MaxMade <=> Makers!Made \ MakerIds # 1..MaxMade)
    BY <1>2, NextIs
  <2>3. Makers!Made \ MakerIds # 1..MaxMade
    BY <2>1 DEF Makers!CreateOutgoing
  <2>4. MaxMade \in Nat
    BY DEF Makers!ProxyQueuesAssumption
  <2> QED
    BY <2>2, <2>3, <2>4
<1> DEFINE p0 == n + 1
<1>4. p0 \in Nat \ {0} /\ p0 \in 1..MaxMade /\ p0 \notin 1..n /\ p0 \notin MakerIds /\ p0 \notin Makers!Made
      /\ 1..p0 = (1..n) \cup {p0} /\ Makers!NextId = p0 /\ p0 \in 0..MaxMade
  <2>1. p0 \in Nat \ {0} /\ p0 \in 1..MaxMade /\ p0 \notin 1..n /\ 1..p0 = (1..n) \cup {p0} /\ p0 \in 0..MaxMade
        /\ p0 <= 100
    BY <1>3 DEF Makers!ProxyQueuesAssumption
  <2>2. \A id \in MakerIds : id > 100 /\ id \in Nat
    BY DEF Makers!ProxyQueuesAssumption
  <2>3. p0 \notin MakerIds
    BY <2>1, <2>2
  <2> QED
    BY <1>2, <1>3, <2>1, <2>3
<1> HIDE DEF p0
<1>5. /\ makers_pc[t] = "create" /\ mutex = t /\ call[t] = [new |-> 0, destroys |-> 0, via |-> t]
      /\ UNCHANGED <<mutex, wrapper, makers_queue, makers_out, served, makers_sent, makers_taken, makers_handled, makers_last_error, aborted>>
      /\ makers_pc' = [makers_pc EXCEPT ![t] = "write"] /\ call' = [call EXCEPT ![t].new = p0]
      /\ makers_proxies' = [id \in Makers!Made \cup {p0} |-> IF id = p0 THEN Makers!NewProxy(t, t) ELSE makers_proxies[id]]
  BY <1>1, <1>4 DEF Makers!CreateOutgoing, Makers!CallsFit, Makers!wire, Makers!Goto, Makers!With
<1>6. /\ makers_pc'[t] = "write" /\ call'[t] = [new |-> p0, destroys |-> 0, via |-> t]
      /\ \A u \in Callers \ {t} : makers_pc'[u] = makers_pc[u] /\ call'[u] = call[u]
      /\ makers_pc' \in [Callers -> {"idle", "create", "write", "written", "returned", "gone"}]
      /\ call' \in [Callers -> Requests]
  <2>1. call \in [Callers -> Requests] /\ p0 \in Nat
    BY <1>1, <1>4 DEF Makers!TypeOK, Requests
  <2>2. /\ call' \in [Callers -> Requests] /\ call'[t].new = p0 /\ call'[t].destroys = call[t].destroys
        /\ call'[t].via = call[t].via /\ \A u \in Callers \ {t} : call'[u] = call[u]
    BY <1>5, <2>1 DEF Requests
  <2>3. call'[t].destroys = 0 /\ call'[t].via = t
    BY <1>5, <2>2
  <2>4. call'[t] = [new |-> p0, destroys |-> 0, via |-> t]
    BY <2>2, <2>3 DEF Requests
  <2> QED
    BY <1>1, <1>5, <2>2, <2>4 DEF Makers!TypeOK
<1>7. Makers!Made' = Makers!Made \cup {p0} /\ Makers!Written' = Makers!Written /\ makers_proxies'[p0] = Makers!NewProxy(t, t) /\ Makers!NewProxy(t, t) \in Things
      /\ \A p \in Makers!Made : makers_proxies'[p] = makers_proxies[p]
  BY <1>4, <1>5 DEF Makers!Made, Makers!Written, Makers!NewProxy, Things
<1>8. Makers!TypeOK'
  <2>1. makers_proxies' \in [Makers!Made' -> Things]
    BY <1>1, <1>5, <1>7 DEF Makers!TypeOK, Things
  <2>2. Makers!Made' \subseteq 1..MaxMade \cup MakerIds
    BY <1>1, <1>4, <1>7 DEF Makers!TypeOK
  <2> QED
    BY <1>1, <1>5, <1>6, <2>1, <2>2 DEF Makers!TypeOK, Requests, Things
<1>9. \A u \in Callers \ {t} : makers_pc[u] \notin {"create", "write", "written"}
  BY <1>1, <1>5 DEF Makers!CallsFit
<1>10. Makers!CallsFit'
  <2> SUFFICES ASSUME NEW u \in Callers
               PROVE  /\ makers_pc'[u] \in {"create", "write", "written"} <=> mutex = u
                      /\ wrapper[u] \in {None, u}
                      /\ makers_pc'[u] = "gone" <=> makers_queue[u] = None
                      /\ makers_pc'[u] = "create" => call'[u] = [new |-> 0, destroys |-> 0, via |-> u]
                      /\ makers_pc'[u] = "returned" => call'[u].new # 0
                      /\ makers_pc'[u] \in {"write", "written", "returned"} /\ call'[u].new # 0 =>
                           /\ call'[u].new \in Makers!Made' \ MakerIds /\ call'[u].destroys = 0
                           /\ makers_proxies'[call'[u].new] = Makers!NewProxy(u, u)
                      /\ makers_pc'[u] \in {"write", "written"} /\ call'[u].destroys # 0 =>
                           call'[u].destroys \in Makers!Made' /\ makers_proxies'[call'[u].destroys].owner = u
    BY <1>5 DEF Makers!CallsFit, Makers!NewProxy
  <2>1. CASE u = t
    BY <1>1, <1>4, <1>5, <1>6, <1>7, <2>1 DEF Makers!CallsFit
  <2>2. CASE u # t
    BY <1>1, <1>4, <1>5, <1>6, <1>7, <2>2 DEF Makers!CallsFit
  <2> QED
    BY <2>1, <2>2
<1>11. Makers!ProxiesFit'
  <2> SUFFICES ASSUME NEW p \in Makers!Made', NEW x, x = makers_proxies'[p]
               PROVE  /\ x.queue # None => makers_pc'[x.queue] # "gone" /\ x.owner \in {None, x.queue}
                      /\ x.destroyed => x.queue = None
                      /\ x.queue = None /\ ~x.destroyed => x.owner = None
                      /\ x.owner = None => p \in MakerIds /\ ~x.listener
                      /\ x.owner # None /\ ~x.listener =>
                           call'[x.owner].new = p /\ makers_pc'[x.owner] \in {"write", "written", "returned"}
    BY DEF Makers!ProxiesFit
  <2>1. CASE p = p0
    <3>1. x.queue = t /\ x.owner = t /\ ~x.listener /\ ~x.destroyed
      BY <1>7, <2>1 DEF Makers!NewProxy
    <3>2. t # None
      BY DEF Makers!ProxyQueuesAssumption
    <3> QED
      BY <1>6, <2>1, <3>1, <3>2
  <2>2. CASE p \in Makers!Made
    <3>1. x = makers_proxies[p]
      BY <1>7, <2>2
    <3>2. /\ x.queue \in Callers \cup {None} /\ x.owner \in Callers \cup {None}
          /\ x.queue # None => makers_pc[x.queue] # "gone" /\ x.owner \in {None, x.queue}
          /\ x.destroyed => x.queue = None
          /\ x.queue = None /\ ~x.destroyed => x.owner = None
          /\ x.owner = None => p \in MakerIds /\ ~x.listener
          /\ x.owner # None /\ ~x.listener =>
               call[x.owner].new = p /\ makers_pc[x.owner] \in {"write", "written", "returned"}
      BY <1>1, <2>2, <3>1, ProxyFacts
    <3>3. x.queue # None => makers_pc'[x.queue] # "gone"
      BY <1>6, <3>2
    <3>4. x.owner # None /\ ~x.listener =>
            call'[x.owner].new = p /\ makers_pc'[x.owner] \in {"write", "written", "returned"}
      BY <1>5, <1>6, <3>2
    <3> QED
      BY <3>2, <3>3, <3>4
  <2> QED
    BY <1>7, <2>1, <2>2
<1>12. Makers!IdsFit'
  <2>1. Makers!Made' \ MakerIds = 1..p0
    BY <1>2, <1>4, <1>7
  <2>2. Makers!Written \subseteq Makers!Made \ MakerIds /\ p0 \notin Makers!Written
    BY <1>1, <1>4 DEF Makers!IdsFit
  <2>3. \A u \in Callers : makers_pc'[u] = "write" => u = t
    BY <1>6, <1>9
  <2>4. \A u \in Callers : makers_pc'[u] # "create"
    BY <1>6, <1>9
  <2>5. makers_last_error = "none" => \A p \in Makers!Made \ MakerIds : p \in Makers!Written
    BY <1>1, <1>5, <1>9 DEF Makers!IdsFit
  <2> QED
    BY <1>4, <1>5, <1>6, <1>7, <2>1, <2>2, <2>3, <2>4, <2>5 DEF Makers!IdsFit
<1>13. Makers!DestroysFit'
  BY <1>1, <1>5, <1>6, <1>7, <1>9 DEF Makers!DestroysFit
<1>14. Makers!EventsFit' /\ Makers!NewIdsInOrder'
  <2>1. Makers!Made' \cap MakerIds = Makers!Made \cap MakerIds
    BY <1>4, <1>7
  <2> QED
    BY <1>1, <1>5, <1>7, <2>1 DEF Makers!EventsFit, Makers!NewIdsInOrder
<1>15. Makers!AbortsOnlyForDiscarded'
  BY <1>5 DEF Makers!AbortsOnlyForDiscarded
<1>16. Makers!QueuesFit' /\ Makers!HandledFit' /\ Makers!Followed' /\ Makers!HandledByOwner'
  BY <1>4, <1>5, <1>7, <1>8, EventsKept
<1> QED
  BY <1>8, <1>10, <1>11, <1>12, <1>13, <1>14, <1>15, <1>16 DEF Makers!Inv

\* The request is written, or the connection fails.
LEMMA WriteStep ==
  ASSUME Makers!ProxyQueuesAssumption, Makers!Inv, aborted = "no", NEW t \in Callers, Makers!Write(t)
  PROVE  Makers!Inv'
<1>1. /\ Makers!TypeOK /\ Makers!CallsFit /\ Makers!ProxiesFit /\ Makers!IdsFit /\ Makers!DestroysFit /\ Makers!EventsFit /\ Makers!NewIdsInOrder
      /\ Makers!AbortsOnlyForDiscarded
  BY DEF Makers!Inv
<1>2. /\ makers_pc[t] = "write" /\ makers_pc' = [makers_pc EXCEPT ![t] = "written"]
      /\ UNCHANGED <<mutex, call, wrapper, makers_proxies, makers_queue, served, makers_sent, makers_taken, makers_handled, aborted>>
      /\ \/ makers_last_error = "none" /\ makers_out' = Append(makers_out, call[t]) /\ UNCHANGED makers_last_error
         \/ makers_last_error' \in {"none", "EINVAL"} \ {"none"} /\ UNCHANGED makers_out
  BY <1>1 DEF Makers!Write, Makers!Goto, Makers!MaySend, Makers!TypeOK
<1>3. /\ makers_pc'[t] = "written" /\ \A u \in Callers \ {t} : makers_pc'[u] = makers_pc[u]
      /\ makers_pc' \in [Callers -> {"idle", "create", "write", "written", "returned", "gone"}]
      /\ call[t] \in Requests /\ mutex = t
  BY <1>1, <1>2 DEF Makers!TypeOK, Requests, Makers!CallsFit
<1>4. \A u \in Callers \ {t} : makers_pc[u] \notin {"create", "write", "written"}
  BY <1>1, <1>3 DEF Makers!CallsFit
<1> DEFINE n == Len(makers_out)
           c == call[t]
<1>5. /\ n \in Nat /\ makers_out \in Seq(Requests) /\ \A i : i \in DOMAIN makers_out <=> i \in 1..n
  BY <1>1 DEF Makers!TypeOK, Requests
<1>6. Makers!Made' = Makers!Made
  BY <1>2 DEF Makers!Made
<1>7. /\ c \in Requests /\ c.new \in Nat
      /\ c.new # 0 => /\ c.new \in Makers!Made \ MakerIds /\ c.new \notin Makers!Written /\ Makers!Made \ MakerIds = 1..c.new
      /\ c.destroys # 0 => c.destroys \in Makers!Made
  BY <1>1, <1>2, <1>3 DEF Makers!CallsFit, Makers!IdsFit, Requests
<1>8. \A u \in Callers : makers_pc'[u] \notin {"create", "write"}
  BY <1>3, <1>4
<1> HIDE DEF n, c
<1>9. Makers!CallsFit'
  <2> SUFFICES ASSUME NEW u \in Callers
               PROVE  /\ makers_pc'[u] \in {"create", "write", "written"} <=> mutex = u
                      /\ wrapper[u] \in {None, u}
                      /\ makers_pc'[u] = "gone" <=> makers_queue[u] = None
                      /\ makers_pc'[u] = "create" => call[u] = [new |-> 0, destroys |-> 0, via |-> u]
                      /\ makers_pc'[u] = "returned" => call[u].new # 0
                      /\ makers_pc'[u] \in {"write", "written", "returned"} /\ call[u].new # 0 =>
                           /\ call[u].new \in Makers!Made \ MakerIds /\ call[u].destroys = 0
                           /\ makers_proxies[call[u].new] = Makers!NewProxy(u, u)
                      /\ makers_pc'[u] \in {"write", "written"} /\ call[u].destroys # 0 =>
                           call[u].destroys \in Makers!Made /\ makers_proxies[call[u].destroys].owner = u
    BY <1>2, <1>6 DEF Makers!CallsFit, Makers!NewProxy
  <2>1. CASE u = t
    BY <1>1, <1>2, <1>3, <2>1 DEF Makers!CallsFit
  <2>2. CASE u # t
    BY <1>1, <1>3, <2>2 DEF Makers!CallsFit
  <2> QED
    BY <2>1, <2>2
<1>10. Makers!ProxiesFit'
  <2> SUFFICES ASSUME NEW p \in Makers!Made, NEW x, x = makers_proxies[p]
               PROVE  /\ x.queue # None => makers_pc'[x.queue] # "gone" /\ x.owner \in {None, x.queue}
                      /\ x.destroyed => x.queue = None
                      /\ x.queue = None /\ ~x.destroyed => x.owner = None
                      /\ x.owner = None => p \in MakerIds /\ ~x.listener
                      /\ x.owner # None /\ ~x.listener =>
                           call[x.owner].new = p /\ makers_pc'[x.owner] \in {"write", "written", "returned"}
    BY <1>2, <1>6 DEF Makers!ProxiesFit
  <2>1. /\ x.queue \in Callers \cup {None} /\ x.owner \in Callers \cup {None}
        /\ x.queue # None => makers_pc[x.queue] # "gone" /\ x.owner \in {None, x.queue}
        /\ x.destroyed => x.queue = None
        /\ x.queue = None /\ ~x.destroyed => x.owner = None
        /\ x.owner = None => p \in MakerIds /\ ~x.listener
        /\ x.owner # None /\ ~x.listener =>
             call[x.owner].new = p /\ makers_pc[x.owner] \in {"write", "written", "returned"}
    BY <1>1, ProxyFacts
  <2> QED
    BY <1>2, <1>3, <2>1
<1>11. CASE UNCHANGED makers_out /\ makers_last_error' # "none"
  <2>1. Makers!Written' = Makers!Written
    BY <1>11 DEF Makers!Written
  <2>2. Makers!TypeOK'
    BY <1>1, <1>2, <1>3, <1>6, <1>11 DEF Makers!TypeOK
  <2>3. Makers!IdsFit' /\ Makers!EventsFit' /\ Makers!NewIdsInOrder'
    BY <1>1, <1>2, <1>6, <1>8, <1>11, <2>1 DEF Makers!IdsFit, Makers!EventsFit, Makers!NewIdsInOrder
  <2>4. Makers!DestroysFit'
    BY <1>1, <1>2, <1>3, <1>4, <1>6, <1>11 DEF Makers!DestroysFit
  <2>5. Makers!QueuesFit' /\ Makers!HandledFit' /\ Makers!Followed' /\ Makers!HandledByOwner'
    BY <1>2, <1>6, <2>2, EventsKept
  <2> QED
    BY <1>2, <1>9, <1>10, <2>2, <2>3, <2>4, <2>5 DEF Makers!Inv, Makers!AbortsOnlyForDiscarded
<1>12. CASE makers_last_error = "none" /\ makers_out' = Append(makers_out, c) /\ UNCHANGED makers_last_error
  <2>1. /\ makers_out' \in Seq(Requests) /\ Len(makers_out') = n + 1 /\ n + 1 \notin DOMAIN makers_out /\ makers_out'[n + 1] = c
        /\ \A i : i \in DOMAIN makers_out' <=> (i \in DOMAIN makers_out \/ i = n + 1)
        /\ \A i \in DOMAIN makers_out : makers_out'[i] = makers_out[i]
    BY <1>5, <1>7, <1>12, OneMore DEF n
  <2>2. Makers!Written' = Makers!Written \cup ({c.new} \ {0})
    BY <2>1 DEF Makers!Written
  <2>3. Makers!TypeOK'
    <3>1. served \in 0..Len(makers_out')
      <4>1. served \in 0..n
        BY <1>1 DEF Makers!TypeOK, n
      <4> QED
        BY <1>5, <2>1, <4>1
    <3> QED
      BY <1>1, <1>2, <1>3, <1>6, <1>12, <2>1, <3>1 DEF Makers!TypeOK, Requests
  <2>4. \A p \in Makers!Made \ MakerIds : p \in Makers!Written \/ p = c.new
    BY <1>1, <1>4, <1>12 DEF Makers!IdsFit, c
  <2>5. Makers!IdsFit'
    BY <1>1, <1>2, <1>6, <1>7, <1>8, <2>2, <2>4 DEF Makers!IdsFit
  <2>6. Makers!EventsFit'
    BY <1>1, <1>2, <1>6, <2>2 DEF Makers!EventsFit
  <2>7. Makers!NewIdsInOrder'
    <3> SUFFICES ASSUME NEW i \in DOMAIN makers_out', makers_out'[i].new # 0
                 PROVE  {makers_out'[j].new : j \in 1..(i - 1)} \ {0} = 1..(makers_out'[i].new - 1)
      BY DEF Makers!NewIdsInOrder
    <3>1. i \in 1..n \/ i = n + 1
      BY <1>5, <2>1
    <3>2. \A j \in 1..(i - 1) : j \in 1..n
      BY <1>5, <3>1
    <3>3. {makers_out'[j].new : j \in 1..(i - 1)} = {makers_out[j].new : j \in 1..(i - 1)}
      BY <1>5, <2>1, <3>2
    <3>4. CASE i \in 1..n
      BY <1>1, <1>5, <2>1, <3>3, <3>4 DEF Makers!NewIdsInOrder
    <3>5. CASE i = n + 1
      <4>1. \A j : j \in 1..(i - 1) <=> j \in DOMAIN makers_out
        BY <1>5, <3>5
      <4>2. {makers_out[j].new : j \in 1..(i - 1)} \ {0} = Makers!Written
        BY <4>1 DEF Makers!Written
      <4>3. c.new # 0 /\ makers_out'[i] = c
        BY <2>1, <3>5
      <4>4. Makers!Written = (1..c.new) \ {c.new}
        BY <1>1, <1>7, <2>4, <4>3 DEF Makers!IdsFit
      <4>5. (1..c.new) \ {c.new} = 1..(c.new - 1)
        BY <1>7
      <4> QED
        BY <3>3, <4>2, <4>3, <4>4, <4>5
    <3> QED
      BY <3>1, <3>4, <3>5
  <2>8. Makers!DestroysFit'
    <3> SUFFICES ASSUME NEW i \in DOMAIN makers_out', makers_out'[i].destroys # 0
                 PROVE  /\ makers_out'[i].destroys \in Makers!Made
                        /\ \/ makers_proxies[makers_out'[i].destroys].destroyed
                           \/ \E u \in Callers : makers_pc'[u] = "written" /\ call[u].destroys = makers_out'[i].destroys
      BY <1>2, <1>6 DEF Makers!DestroysFit
    <3>1. CASE i \in DOMAIN makers_out
      BY <1>1, <1>2, <1>3, <1>4, <2>1, <3>1 DEF Makers!DestroysFit
    <3>2. CASE i = n + 1
      BY <1>3, <1>7, <2>1, <3>2 DEF c
    <3> QED
      BY <2>1, <3>1, <3>2
  <2>9. Makers!QueuesFit' /\ Makers!HandledFit' /\ Makers!Followed' /\ Makers!HandledByOwner'
    BY <1>2, <1>6, <2>3, EventsKept
  <2> QED
    BY <1>2, <1>9, <1>10, <2>3, <2>5, <2>6, <2>7, <2>8, <2>9 DEF Makers!Inv, Makers!AbortsOnlyForDiscarded
<1> QED
  BY <1>2, <1>11, <1>12 DEF c

\* A step of a thread that holds nothing of the wire: a new object is returned, an object
\* is destroyed with its request, or gets its listener.
LEMMA ReturnSteps ==
  ASSUME Makers!ProxyQueuesAssumption, Makers!Inv, aborted = "no", NEW t \in Callers, Makers!Finish(t) \/ Makers!AddListener(t)
  PROVE  Makers!Inv'
<1>1. /\ Makers!TypeOK /\ Makers!CallsFit /\ Makers!ProxiesFit /\ Makers!IdsFit /\ Makers!DestroysFit /\ Makers!EventsFit /\ Makers!NewIdsInOrder
      /\ Makers!AbortsOnlyForDiscarded
  BY DEF Makers!Inv
<1>2. PICK w \in {"idle", "returned"} :
      /\ makers_pc' = [makers_pc EXCEPT ![t] = w] /\ makers_pc[t] \in {"written", "returned"}
      /\ UNCHANGED <<call, wrapper, makers_queue, makers_out, served, makers_sent, makers_taken, makers_handled, makers_last_error, aborted>>
      /\ mutex' \in {mutex, None} /\ mutex' # t /\ (mutex # t => mutex' = mutex)
      /\ w = "returned" => makers_pc[t] = "written" /\ call[t].new # 0
      /\ call[t].new # 0 /\ makers_pc[t] = "written" => w = "returned"
  <2>1. t # None /\ (makers_pc[t] \in {"create", "write", "written"} <=> mutex = t)
    BY <1>1 DEF Makers!CallsFit, Makers!ProxyQueuesAssumption
  <2>2. CASE Makers!Finish(t)
    <3>1. CASE call[t].new = 0
      BY <2>1, <2>2, <3>1 DEF Makers!Finish, Makers!Goto, Makers!wire
    <3>2. CASE call[t].new # 0
      BY <2>1, <2>2, <3>2 DEF Makers!Finish, Makers!Goto, Makers!wire
    <3> QED
      BY <3>1, <3>2
  <2>3. CASE Makers!AddListener(t)
    BY <2>1, <2>3 DEF Makers!AddListener, Makers!Goto, Makers!wire
  <2> QED
    BY <2>2, <2>3
<1>3. /\ makers_pc'[t] = w /\ \A u \in Callers \ {t} : makers_pc'[u] = makers_pc[u]
      /\ makers_pc' \in [Callers -> {"idle", "create", "write", "written", "returned", "gone"}]
      /\ call[t] \in Requests
  BY <1>1, <1>2 DEF Makers!TypeOK, Requests
<1>4. /\ Makers!Made' = Makers!Made /\ makers_proxies' \in [Makers!Made -> Things]
      /\ \A p \in Makers!Made :
           \/ makers_proxies'[p] = makers_proxies[p] /\ (makers_pc[t] = "written" => p # call[t].destroys)
              /\ (makers_pc[t] = "returned" => p # call[t].new)
           \/ /\ makers_proxies'[p].destroyed /\ makers_proxies'[p].queue = None /\ makers_proxies[p].owner = t /\ makers_proxies'[p].owner = t
              /\ makers_proxies'[p].listener = makers_proxies[p].listener
              /\ makers_pc[t] = "written" /\ p = call[t].destroys /\ p # 0
           \/ /\ makers_proxies'[p].listener /\ makers_proxies[p].owner = t /\ makers_proxies'[p].owner = t
              /\ makers_proxies'[p].queue = makers_proxies[p].queue /\ (makers_proxies'[p].destroyed <=> makers_proxies[p].destroyed)
              /\ makers_pc[t] = "returned" /\ p = call[t].new
  <2>1. makers_proxies \in [Makers!Made -> Things]
    BY <1>1 DEF Makers!TypeOK, Things
  <2>2. CASE Makers!Finish(t) /\ call[t].destroys = 0
    <3>1. \A p \in Makers!Made : p # 0
      BY <1>1, ProxyFacts
    <3> QED
      BY <2>1, <2>2, <3>1 DEF Makers!Finish, Makers!Made
  <2>3. CASE Makers!Finish(t) /\ call[t].destroys # 0
    <3> DEFINE d == call[t].destroys
    <3>1. /\ makers_pc[t] = "written" /\ d \in Makers!Made /\ makers_proxies[d].owner = t
          /\ makers_proxies' = [makers_proxies EXCEPT ![d].destroyed = TRUE, ![d].queue = None]
      BY <1>1, <2>3 DEF Makers!Finish, Makers!CallsFit, Makers!proxy_destroy
    <3> HIDE DEF d
    <3>2. /\ makers_proxies' \in [Makers!Made -> Things] /\ \A u \in Makers!Made \ {d} : makers_proxies'[u] = makers_proxies[u]
          /\ makers_proxies'[d].listener = makers_proxies[d].listener /\ makers_proxies'[d].owner = makers_proxies[d].owner
          /\ makers_proxies'[d].queue = None /\ makers_proxies'[d].destroyed
      BY <2>1, <3>1 DEF Things
    <3> QED
      BY <2>3, <3>1, <3>2 DEF Makers!Made, d
  <2>4. CASE Makers!AddListener(t)
    <3> DEFINE d == call[t].new
    <3>1. /\ makers_pc[t] = "returned" /\ d \in Makers!Made /\ makers_proxies[d].owner = t
          /\ makers_proxies' = [makers_proxies EXCEPT ![d].listener = TRUE]
      <4>1. Makers!NewProxy(t, t).owner = t
        BY DEF Makers!NewProxy
      <4> QED
        BY <1>1, <2>4, <4>1 DEF Makers!AddListener, Makers!CallsFit
    <3> HIDE DEF d
    <3>2. /\ makers_proxies' \in [Makers!Made -> Things] /\ \A u \in Makers!Made \ {d} : makers_proxies'[u] = makers_proxies[u]
          /\ makers_proxies'[d].listener /\ makers_proxies'[d].owner = makers_proxies[d].owner
          /\ makers_proxies'[d].queue = makers_proxies[d].queue /\ makers_proxies'[d].destroyed = makers_proxies[d].destroyed
      BY <2>1, <3>1 DEF Things
    <3> QED
      BY <3>1, <3>2 DEF Makers!Made, d
  <2> QED
    BY <2>2, <2>3, <2>4
<1>5. \A u \in Callers \ {t} : makers_pc[t] = "written" => makers_pc[u] \notin {"create", "write", "written"}
  BY <1>1 DEF Makers!CallsFit
<1>6. Makers!TypeOK'
  <2>1. mutex' \in Callers \cup {None}
    BY <1>1, <1>2 DEF Makers!TypeOK
  <2> QED
    BY <1>1, <1>2, <1>3, <1>4, <2>1 DEF Makers!TypeOK, Things
<1>7. Makers!CallsFit'
  <2> SUFFICES ASSUME NEW u \in Callers
               PROVE  /\ makers_pc'[u] \in {"create", "write", "written"} <=> mutex' = u
                      /\ wrapper[u] \in {None, u}
                      /\ makers_pc'[u] = "gone" <=> makers_queue[u] = None
                      /\ makers_pc'[u] = "create" => call[u] = [new |-> 0, destroys |-> 0, via |-> u]
                      /\ makers_pc'[u] = "returned" => call[u].new # 0
                      /\ makers_pc'[u] \in {"write", "written", "returned"} /\ call[u].new # 0 =>
                           /\ call[u].new \in Makers!Made \ MakerIds /\ call[u].destroys = 0
                           /\ makers_proxies'[call[u].new] = Makers!NewProxy(u, u)
                      /\ makers_pc'[u] \in {"write", "written"} /\ call[u].destroys # 0 =>
                           call[u].destroys \in Makers!Made /\ makers_proxies'[call[u].destroys].owner = u
    BY <1>2, <1>4 DEF Makers!CallsFit, Makers!NewProxy
  <2>0. /\ makers_pc[u] \in {"create", "write", "written"} <=> mutex = u
        /\ wrapper[u] \in {None, u}
        /\ makers_pc[u] = "gone" <=> makers_queue[u] = None
        /\ makers_pc[u] = "create" => call[u] = [new |-> 0, destroys |-> 0, via |-> u]
        /\ makers_pc[u] = "returned" => call[u].new # 0
        /\ makers_pc[u] \in {"write", "written", "returned"} /\ call[u].new # 0 =>
             /\ call[u].new \in Makers!Made \ MakerIds /\ call[u].destroys = 0
             /\ makers_proxies[call[u].new] = Makers!NewProxy(u, u)
        /\ makers_pc[u] \in {"write", "written"} /\ call[u].destroys # 0 =>
             call[u].destroys \in Makers!Made /\ makers_proxies[call[u].destroys].owner = u
        /\ Makers!NewProxy(u, u).owner = u
    BY <1>1 DEF Makers!CallsFit, Makers!NewProxy
  <2>1. CASE u = t
    <3>1. w = "returned" => makers_proxies'[call[t].new] = makers_proxies[call[t].new]
      BY <1>2, <1>4, <2>0, <2>1
    <3> QED
      BY <1>2, <1>3, <2>0, <2>1, <3>1
  <2>2. CASE u # t
    <3>1. mutex' = u <=> mutex = u
      BY <1>2, <1>5, <2>0, <2>2 DEF Makers!ProxyQueuesAssumption
    <3>2. makers_pc[u] \in {"write", "written", "returned"} /\ call[u].new # 0 => makers_proxies'[call[u].new] = makers_proxies[call[u].new]
      BY <1>4, <2>0, <2>2
    <3>3. makers_pc[u] \in {"write", "written"} /\ call[u].destroys # 0 => makers_proxies'[call[u].destroys].owner = u
      BY <1>4, <2>0, <2>2
    <3> QED
      BY <1>3, <2>0, <2>2, <3>1, <3>2, <3>3
  <2> QED
    BY <2>1, <2>2
<1>8. Makers!ProxiesFit'
  <2> SUFFICES ASSUME NEW p \in Makers!Made, NEW x, x = makers_proxies'[p]
               PROVE  /\ x.queue # None => makers_pc'[x.queue] # "gone" /\ x.owner \in {None, x.queue}
                      /\ x.destroyed => x.queue = None
                      /\ x.queue = None /\ ~x.destroyed => x.owner = None
                      /\ x.owner = None => p \in MakerIds /\ ~x.listener
                      /\ x.owner # None /\ ~x.listener =>
                           call[x.owner].new = p /\ makers_pc'[x.owner] \in {"write", "written", "returned"}
    BY <1>2, <1>4 DEF Makers!ProxiesFit
  <2> DEFINE y == makers_proxies[p]
  <2>1. /\ y.queue \in Callers \cup {None} /\ y.owner \in Callers \cup {None} /\ p # 0
        /\ y.queue # None => makers_pc[y.queue] # "gone" /\ y.owner \in {None, y.queue}
        /\ y.destroyed => y.queue = None
        /\ y.queue = None /\ ~y.destroyed => y.owner = None
        /\ y.owner = None => p \in MakerIds /\ ~y.listener
        /\ y.owner # None /\ ~y.listener =>
             call[y.owner].new = p /\ makers_pc[y.owner] \in {"write", "written", "returned"}
    BY <1>1, ProxyFacts
  <2>2. t # None /\ \A u \in Callers : makers_pc'[u] = "gone" => makers_pc[u] = "gone"
    BY <1>2, <1>3 DEF Makers!ProxyQueuesAssumption
  <2> HIDE DEF y
  <2>3. CASE x = y /\ (makers_pc[t] = "returned" => p # call[t].new)
    <3>1. y.owner # None /\ ~y.listener => makers_pc'[y.owner] \in {"write", "written", "returned"}
      <4>1. CASE y.owner = t
        BY <1>2, <1>3, <2>1, <2>3, <4>1
      <4>2. CASE y.owner # t
        BY <1>3, <2>1, <4>2
      <4> QED
        BY <4>1, <4>2
    <3> QED
      BY <2>1, <2>2, <2>3, <3>1
  <2>4. CASE x.destroyed /\ x.queue = None /\ y.owner = t /\ x.owner = t /\ x.listener = y.listener
             /\ makers_pc[t] = "written" /\ p = call[t].destroys
    <3>1. y.listener
      <4>1. ~y.listener => call[t].new = p
        BY <2>1, <2>2, <2>4
      <4>2. call[t].new # 0 => call[t].destroys = 0
        BY <1>1, <2>4 DEF Makers!CallsFit
      <4> QED
        BY <2>1, <2>4, <4>1, <4>2
    <3> QED
      BY <2>2, <2>4, <3>1
  <2>5. CASE x.listener /\ y.owner = t /\ x.owner = t /\ x.queue = y.queue /\ (x.destroyed <=> y.destroyed)
    BY <2>1, <2>2, <2>5
  <2> QED
    BY <1>4, <2>3, <2>4, <2>5 DEF y
<1>9. Makers!IdsFit'
  <2>1. Makers!Written' = Makers!Written
    BY <1>2 DEF Makers!Written
  <2>2. \A u \in Callers : (makers_pc'[u] = "write" <=> makers_pc[u] = "write") /\ (makers_pc'[u] = "create" <=> makers_pc[u] = "create")
    BY <1>2, <1>3
  <2> QED
    BY <1>1, <1>2, <1>4, <2>1, <2>2 DEF Makers!IdsFit
<1>10. Makers!DestroysFit'
  <2> SUFFICES ASSUME NEW i \in DOMAIN makers_out, makers_out[i].destroys # 0
               PROVE  /\ makers_out[i].destroys \in Makers!Made
                      /\ \/ makers_proxies'[makers_out[i].destroys].destroyed
                         \/ \E u \in Callers : makers_pc'[u] = "written" /\ call[u].destroys = makers_out[i].destroys
    BY <1>2, <1>4 DEF Makers!DestroysFit
  <2> DEFINE d == makers_out[i].destroys
  <2>1. d \in Makers!Made /\ (makers_proxies[d].destroyed \/ \E u \in Callers : makers_pc[u] = "written" /\ call[u].destroys = d)
    BY <1>1 DEF Makers!DestroysFit
  <2> HIDE DEF d
  <2>2. CASE makers_proxies[d].destroyed
    <3>1. \A p \in Makers!Made : makers_proxies[p].destroyed => makers_proxies'[p].destroyed
      BY <1>4
    <3> QED
      BY <2>1, <2>2, <3>1 DEF d
  <2>3. ASSUME NEW u \in Callers, makers_pc[u] = "written", call[u].destroys = d
        PROVE  makers_proxies'[d].destroyed \/ (makers_pc'[u] = "written" /\ call[u].destroys = d)
    BY <1>3, <1>4, <2>1, <2>3
  <2> QED
    BY <2>1, <2>2, <2>3 DEF d
<1>11. Makers!EventsFit' /\ Makers!NewIdsInOrder'
  <2>1. Makers!Written' = Makers!Written
    BY <1>2 DEF Makers!Written
  <2> QED
    BY <1>1, <1>2, <1>4, <2>1 DEF Makers!EventsFit, Makers!NewIdsInOrder
<1>12. Makers!QueuesFit' /\ Makers!HandledFit' /\ Makers!Followed' /\ Makers!HandledByOwner'
  <2>1. t # None
    BY DEF Makers!ProxyQueuesAssumption
  <2> QED
    BY <1>2, <1>4, <1>6, <2>1, EventsKept
<1> QED
  BY <1>2, <1>6, <1>7, <1>8, <1>9, <1>10, <1>11, <1>12 DEF Makers!Inv, Makers!AbortsOnlyForDiscarded

\* The compositor sends an event.
LEMMA SendStep ==
  ASSUME Makers!ProxyQueuesAssumption, Makers!Inv, aborted = "no", NEW p \in Makers!Objects, NEW new \in MakerIds \cup {0}, Makers!Send(p, new)
  PROVE  Makers!Inv'
<1>1. /\ Makers!TypeOK /\ Makers!CallsFit /\ Makers!ProxiesFit /\ Makers!IdsFit /\ Makers!DestroysFit /\ Makers!EventsFit /\ Makers!NewIdsInOrder
      /\ Makers!AbortsOnlyForDiscarded /\ Makers!QueuesFit /\ Makers!HandledFit /\ Makers!Followed /\ Makers!HandledByOwner
  BY DEF Makers!Inv
<1> DEFINE n == Len(makers_sent)
           e == Makers!Event(p, new)
<1>2. /\ UNCHANGED <<mutex, makers_pc, call, wrapper, makers_proxies, makers_queue, makers_out, served, makers_taken, makers_handled, makers_last_error, aborted>>
      /\ makers_sent' = Append(makers_sent, e) /\ new \in {0} \cup (MakerIds \ Makers!Given)
  BY DEF Makers!Send, Makers!requests
<1>3. n \in Nat /\ makers_sent \in Seq(Makers!Events) /\ makers_taken \in 0..n /\ served \in 0..Len(makers_out) /\ makers_out \in Seq(Requests)
      /\ \A i : i \in DOMAIN makers_sent <=> i \in 1..n
  BY <1>1 DEF Makers!TypeOK, Requests
<1>4. p \in Nat /\ p # 0 /\ (p \in Makers!Written \/ \E j \in 1..n : makers_sent[j].new = p)
  <2>1. p # 0 /\ (p \in {Makers!Read[i].new : i \in 1..served} \/ \E j \in 1..n : makers_sent[j].new = p)
    <3>1. p \in {Makers!Read[i].new : i \in 1..served} \cup {makers_sent[i].new : i \in DOMAIN makers_sent} /\ p # 0
      BY DEF Makers!Objects
    <3>2. \A i \in DOMAIN makers_sent : i \in 1..n
      BY <1>3
    <3> QED
      BY <3>1, <3>2
  <2>2. ASSUME NEW i \in 1..served, Makers!Read[i].new = p PROVE p \in Makers!Written
    <3>1. i \in 1..Len(makers_out) /\ DOMAIN makers_out = 1..Len(makers_out)
      BY <1>3
    <3>2. Makers!Read[i] = makers_out[i]
      BY <1>3, <2>2, <3>1 DEF Makers!Read
    <3> QED
      BY <2>1, <2>2, <3>1, <3>2 DEF Makers!Written
  <2>3. Makers!Written \subseteq Nat /\ \A j \in 1..n : makers_sent[j].new \in Nat
    <3>1. Makers!Made \ MakerIds \subseteq Nat
      BY <1>1, ProxyFacts
    <3>2. \A j \in 1..n : makers_sent[j] \in Makers!Events
      BY <1>3
    <3> QED
      BY <1>1, <3>1, <3>2 DEF Makers!IdsFit, Makers!Events
  <2> QED
    BY <2>1, <2>2, <2>3
<1>5. e \in Makers!Events /\ e.n = n + 1 /\ e.to = p /\ e.new = new
  <2>1. new \in Nat
    BY DEF Makers!ProxyQueuesAssumption
  <2>2. n + 1 \in Nat
    BY <1>3
  <2>3. p \in Nat
    BY <1>4
  <2>4. e = [n |-> n + 1, to |-> p, new |-> new]
    BY DEF Makers!Event
  <2> QED
    BY <2>1, <2>2, <2>3, <2>4 DEF Makers!Events
<1> HIDE DEF n, e
<1>6. /\ makers_sent' \in Seq(Makers!Events) /\ Len(makers_sent') = n + 1 /\ makers_sent'[n + 1] = e /\ n + 1 \notin DOMAIN makers_sent
      /\ \A i : i \in DOMAIN makers_sent' <=> (i \in DOMAIN makers_sent \/ i = n + 1)
      /\ \A i \in DOMAIN makers_sent : makers_sent'[i] = makers_sent[i]
  BY <1>2, <1>3, <1>5, OneMore DEF n
<1>7. makers_taken \in 0..(n + 1) /\ \A k \in 1..makers_taken : k \in DOMAIN makers_sent /\ makers_sent'[k] = makers_sent[k]
  BY <1>3, <1>6
<1>8. Makers!Made' = Makers!Made /\ Makers!Written' = Makers!Written /\ \A t \in Callers : Makers!Lying(t)' = Makers!Lying(t)
  BY <1>2 DEF Makers!Made, Makers!Written, Makers!Lying
<1>9. Makers!TypeOK'
  BY <1>1, <1>2, <1>6, <1>7, <1>8 DEF Makers!TypeOK
<1>10. Makers!CallsFit' /\ Makers!ProxiesFit'
  BY <1>1, <1>2, <1>8 DEF Makers!CallsFit, Makers!ProxiesFit, Makers!NewProxy
<1>11. Makers!IdsFit' /\ Makers!DestroysFit' /\ Makers!NewIdsInOrder' /\ Makers!HandledByOwner'
  BY <1>1, <1>2, <1>8 DEF Makers!IdsFit, Makers!DestroysFit, Makers!NewIdsInOrder, Makers!HandledByOwner
<1>12. Makers!EventsFit'
  <2>1. ASSUME NEW k \in DOMAIN makers_sent'
        PROVE  /\ makers_sent'[k].n = k /\ makers_sent'[k].new \in MakerIds \cup {0}
               /\ makers_sent'[k].to \in Makers!Written \/ (makers_sent'[k].to # 0 /\ \E j \in 1..(k - 1) : makers_sent'[j].new = makers_sent'[k].to)
    <3>1. CASE k \in DOMAIN makers_sent
      <4>1. \A j \in 1..(k - 1) : makers_sent'[j] = makers_sent[j]
        BY <1>3, <1>6, <3>1
      <4> QED
        BY <1>1, <1>6, <3>1, <4>1 DEF Makers!EventsFit
    <3>2. CASE k = n + 1
      <4>1. \A j \in 1..n : makers_sent'[j] = makers_sent[j]
        BY <1>3, <1>6
      <4>2. k - 1 = n
        BY <1>3, <3>2
      <4> QED
        BY <1>4, <1>5, <1>6, <3>2, <4>1, <4>2
    <3> QED
      BY <1>6, <2>1, <3>1, <3>2
  <2>2. ASSUME NEW j \in DOMAIN makers_sent', NEW k \in DOMAIN makers_sent', makers_sent'[j].new = makers_sent'[k].new, makers_sent'[j].new # 0
        PROVE  j = k
    <3>1. \A i \in DOMAIN makers_sent : makers_sent[i].new \in Makers!Given
      BY DEF Makers!Given
    <3>2. j \in DOMAIN makers_sent => makers_sent'[j].new \in Makers!Given
      BY <1>6, <3>1
    <3>3. k \in DOMAIN makers_sent => makers_sent'[k].new \in Makers!Given
      BY <1>6, <3>1
    <3>4. CASE j \in DOMAIN makers_sent /\ k \in DOMAIN makers_sent
      BY <1>1, <1>6, <2>2, <3>4 DEF Makers!EventsFit
    <3>5. CASE j = n + 1 /\ k = n + 1
      BY <3>5
    <3>6. CASE j \in DOMAIN makers_sent /\ k = n + 1
      BY <1>2, <1>5, <1>6, <2>2, <3>2, <3>6
    <3>7. CASE k \in DOMAIN makers_sent /\ j = n + 1
      BY <1>2, <1>5, <1>6, <2>2, <3>3, <3>7
    <3> QED
      BY <1>6, <2>2, <3>4, <3>5, <3>6, <3>7
  <2>3. \A id \in Makers!Made \cap MakerIds : \E k \in 1..makers_taken : makers_sent'[k].new = id
    BY <1>1, <1>7 DEF Makers!EventsFit
  <2> QED
    BY <1>2, <1>8, <2>1, <2>2, <2>3 DEF Makers!EventsFit
<1>13. Makers!QueuesFit'
  BY <1>1, <1>2, <1>7, <1>8 DEF Makers!QueuesFit, Makers!Increasing, Makers!NewProxy
<1>14. Makers!HandledFit'
  <2>1. \A i \in DOMAIN makers_handled : LET h == makers_handled[i].event IN
          /\ h.n \in 1..makers_taken /\ h = makers_sent[h.n] /\ h.to \in Makers!Made
          /\ \A t \in Callers : \A f \in Makers!Lying(t) : f.to = h.to => h.n < f.n
          /\ \A j \in 1..(i - 1) : makers_handled[j].event.to = h.to => makers_handled[j].event.n < h.n
          /\ \A k \in 1..(h.n - 1) : makers_sent[k].to = h.to => \E j \in DOMAIN makers_handled : makers_handled[j].event = makers_sent[k]
    BY <1>1 DEF Makers!HandledFit
  <2>2. \A m \in 1..makers_taken : \A k \in 1..(m - 1) : k \in 1..makers_taken
    BY <1>3
  <2>3. \A i \in DOMAIN makers_handled : LET h == makers_handled[i].event IN
          /\ h.n \in 1..makers_taken /\ h = makers_sent'[h.n] /\ h.to \in Makers!Made
          /\ \A t \in Callers : \A f \in Makers!Lying(t) : f.to = h.to => h.n < f.n
          /\ \A j \in 1..(i - 1) : makers_handled[j].event.to = h.to => makers_handled[j].event.n < h.n
          /\ \A k \in 1..(h.n - 1) : makers_sent'[k].to = h.to => \E j \in DOMAIN makers_handled : makers_handled[j].event = makers_sent'[k]
    BY <1>7, <2>1, <2>2
  <2> QED
    BY <1>2, <1>8, <2>3 DEF Makers!HandledFit
<1>15. Makers!Followed'
  <2>1. ASSUME NEW id \in Makers!Made, Makers!Awaited(id)', makers_proxies[id].queue # None, NEW k \in 1..makers_taken, makers_sent'[k].to = id
        PROVE  makers_sent'[k] \in Makers!Lying(makers_proxies[id].queue) \/ \E i \in DOMAIN makers_handled : makers_handled[i].event = makers_sent'[k]
    <3>1. Makers!Awaited(id)
      BY <1>2, <1>8, <2>1 DEF Makers!Awaited
    <3> QED
      BY <1>1, <1>7, <2>1, <3>1 DEF Makers!Followed
  <2>2. \A id \in Makers!Made : makers_proxies[id].queue # None => Makers!Lying(makers_proxies[id].queue)' = Makers!Lying(makers_proxies[id].queue)
    BY <1>2 DEF Makers!Lying
  <2> QED
    BY <1>2, <1>8, <2>1, <2>2 DEF Makers!Followed
<1> QED
  BY <1>2, <1>9, <1>10, <1>11, <1>12, <1>13, <1>14, <1>15 DEF Makers!Inv, Makers!AbortsOnlyForDiscarded

\* What the invariant says of the event that is read next.
LEMMA NextEvent ==
  ASSUME Makers!ProxyQueuesAssumption, Makers!TypeOK, Makers!IdsFit, Makers!EventsFit, makers_taken < Len(makers_sent)
  PROVE  /\ makers_taken + 1 \in DOMAIN makers_sent /\ makers_taken + 1 \in Nat /\ makers_taken + 1 \in 0..Len(makers_sent)
         /\ \A k : k \in 1..(makers_taken + 1) <=> (k \in 1..makers_taken \/ k = makers_taken + 1)
         /\ makers_sent[makers_taken + 1] \in Makers!Events /\ makers_sent[makers_taken + 1].n = makers_taken + 1
         /\ makers_sent[makers_taken + 1].new \in MakerIds \cup {0}
         /\ makers_sent[makers_taken + 1].new # 0 =>
              /\ makers_sent[makers_taken + 1].new \notin Makers!Made
              /\ \A k \in 1..(makers_taken + 1) : makers_sent[k].to # makers_sent[makers_taken + 1].new
<1> DEFINE n == Len(makers_sent)
           m == makers_taken + 1
<1>1. n \in Nat /\ makers_taken \in 0..n /\ DOMAIN makers_sent = 1..n /\ makers_sent \in Seq(Makers!Events) /\ makers_taken < n
  BY DEF Makers!TypeOK
<1> HIDE DEF n
<1>2. /\ m \in 1..n /\ m \in Nat /\ m \in 0..n /\ \A k : k \in 1..m <=> (k \in 1..makers_taken \/ k = m)
      /\ m \notin 1..makers_taken /\ \A k \in 1..m : k \in 1..n /\ m \notin 1..(k - 1) /\ \A j \in 1..(k - 1) : j \in 1..n
  <2>1. n \in Nat /\ makers_taken \in 0..n /\ makers_taken < n
    BY <1>1
  <2> QED
    BY <2>1
<1> HIDE DEF m
<1>3. m \in DOMAIN makers_sent /\ makers_sent[m] \in Makers!Events /\ makers_sent[m].n = m /\ makers_sent[m].new \in MakerIds \cup {0}
  BY <1>1, <1>2 DEF Makers!EventsFit
<1>4. ASSUME makers_sent[m].new # 0
      PROVE  makers_sent[m].new \notin Makers!Made /\ \A k \in 1..m : makers_sent[k].to # makers_sent[m].new
  <2>1. makers_sent[m].new \in MakerIds
    BY <1>3, <1>4
  <2>2. makers_sent[m].new \notin Makers!Made
    <3>1. ASSUME NEW k \in 1..makers_taken, makers_sent[k].new = makers_sent[m].new PROVE FALSE
      <4>1. k \in DOMAIN makers_sent /\ k # m
        BY <1>1, <1>2, <3>1
      <4> QED
        BY <1>3, <1>4, <3>1, <4>1 DEF Makers!EventsFit
    <3> QED
      BY <2>1, <3>1 DEF Makers!EventsFit
  <2>3. ASSUME NEW k \in 1..m, makers_sent[k].to = makers_sent[m].new PROVE FALSE
    <3>1. k \in DOMAIN makers_sent /\ makers_sent[k].to \notin Makers!Written
      BY <1>1, <1>2, <2>1, <2>3 DEF Makers!IdsFit
    <3>2. PICK j \in 1..(k - 1) : makers_sent[j].new = makers_sent[m].new
      BY <2>3, <3>1 DEF Makers!EventsFit
    <3>3. j \in DOMAIN makers_sent /\ j # m
      BY <1>1, <1>2, <3>2
    <3> QED
      BY <1>3, <1>4, <3>2, <3>3 DEF Makers!EventsFit
  <2> QED
    BY <2>2, <2>3
<1> QED
  BY <1>1, <1>2, <1>3, <1>4 DEF m, n

\* An event is read, and dropped: its receiver is gone, or its queue is.
LEMMA ReadNothing ==
  ASSUME Makers!ProxyQueuesAssumption, Makers!Inv, aborted = "no", makers_taken < Len(makers_sent), makers_taken' = makers_taken + 1,
         UNCHANGED <<Makers!requests, wrapper, makers_proxies, makers_queue, makers_out, served, makers_sent, makers_handled, makers_last_error>>,
         \/ makers_sent[makers_taken + 1].to \notin Makers!Made
         \/ makers_proxies[makers_sent[makers_taken + 1].to].queue = None /\ aborted' = "queue"
            /\ ~makers_proxies[makers_sent[makers_taken + 1].to].destroyed
         \/ makers_proxies[makers_sent[makers_taken + 1].to].destroyed,
         aborted' = "no" \/ (aborted' = "queue" /\ makers_sent[makers_taken + 1].to \in Makers!Made
                             /\ makers_proxies[makers_sent[makers_taken + 1].to].queue = None
                             /\ ~makers_proxies[makers_sent[makers_taken + 1].to].destroyed)
  PROVE  Makers!Inv'
<1>1. /\ Makers!TypeOK /\ Makers!CallsFit /\ Makers!ProxiesFit /\ Makers!IdsFit /\ Makers!DestroysFit /\ Makers!EventsFit /\ Makers!NewIdsInOrder
      /\ Makers!QueuesFit /\ Makers!HandledFit /\ Makers!Followed /\ Makers!HandledByOwner
  BY DEF Makers!Inv
<1> DEFINE m == makers_taken + 1
           r == makers_sent[m].to
<1>2. m \in DOMAIN makers_sent /\ m \in 0..Len(makers_sent) /\ makers_taken' = m /\ \A k : k \in 1..m <=> (k \in 1..makers_taken \/ k = m)
  BY <1>1, NextEvent
<1>3. r \in Makers!Made => makers_proxies[r].queue = None
  BY <1>1, ProxyFacts
<1>4. aborted' = "no" \/ (aborted' = "queue" /\ r \in Makers!Made /\ makers_proxies[r].owner = None /\ makers_proxies[r].queue = None /\ r \in MakerIds)
  BY <1>1, ProxyFacts
<1> HIDE DEF m, r
<1>5. /\ UNCHANGED <<mutex, makers_pc, call, wrapper, makers_proxies, makers_queue, makers_out, served, makers_sent, makers_handled, makers_last_error>>
  BY DEF Makers!requests
<1>6. Makers!Made' = Makers!Made /\ Makers!Written' = Makers!Written /\ \A t \in Callers : Makers!Lying(t)' = Makers!Lying(t)
  BY <1>5 DEF Makers!Made, Makers!Written, Makers!Lying
<1>7. Makers!TypeOK'
  BY <1>1, <1>2, <1>4, <1>5, <1>6 DEF Makers!TypeOK
<1>8. Makers!CallsFit' /\ Makers!ProxiesFit'
  BY <1>1, <1>5, <1>6, SMTT(60) DEF Makers!CallsFit, Makers!ProxiesFit, Makers!NewProxy
<1>9. Makers!IdsFit' /\ Makers!DestroysFit' /\ Makers!NewIdsInOrder' /\ Makers!HandledByOwner'
  BY <1>1, <1>5, <1>6 DEF Makers!IdsFit, Makers!DestroysFit, Makers!NewIdsInOrder, Makers!HandledByOwner
<1>10. Makers!EventsFit'
  BY <1>1, <1>2, <1>5, <1>6 DEF Makers!EventsFit
<1>11. Makers!QueuesFit' /\ Makers!HandledFit'
  BY <1>1, <1>2, <1>5, <1>6, SMTT(60) DEF Makers!QueuesFit, Makers!HandledFit, Makers!Increasing, Makers!NewProxy
<1>12. Makers!Followed'
  <2>1. ASSUME NEW id \in Makers!Made, Makers!Awaited(id)', makers_proxies[id].queue # None, NEW k \in 1..m, makers_sent[k].to = id
        PROVE  makers_sent[k] \in Makers!Lying(makers_proxies[id].queue) \/ \E i \in DOMAIN makers_handled : makers_handled[i].event = makers_sent[k]
    <3>1. Makers!Awaited(id)
      BY <1>5, <1>6, <2>1 DEF Makers!Awaited
    <3>2. k \in 1..makers_taken
      BY <1>2, <1>3, <2>1 DEF r
    <3> QED
      BY <1>1, <2>1, <3>1, <3>2 DEF Makers!Followed
  <2>2. \A id \in Makers!Made : makers_proxies[id].queue # None => Makers!Lying(makers_proxies[id].queue)' = Makers!Lying(makers_proxies[id].queue)
    BY <1>5 DEF Makers!Lying
  <2> QED
    BY <1>2, <1>5, <1>6, <2>1, <2>2 DEF Makers!Followed
<1>13. Makers!AbortsOnlyForDiscarded'
  BY <1>4, <1>5, <1>6 DEF Makers!AbortsOnlyForDiscarded, Makers!Discarded
<1> QED
  BY <1>7, <1>8, <1>9, <1>10, <1>11, <1>12, <1>13 DEF Makers!Inv

\* An event joins a thread's queue, and brings a new object or none.
QueueGets(q, e) == makers_queue' = [makers_queue EXCEPT ![q] = Append(makers_queue[q], e)]

Brings(q, e) == makers_proxies' = IF e.new = 0 THEN makers_proxies ELSE Makers!With(e.new, Makers!NewProxy(q, None))

\* An event is read and queued, and the object that it brings is made.
LEMMA ReadQueued ==
  ASSUME Makers!ProxyQueuesAssumption, Makers!Inv, aborted = "no", makers_taken < Len(makers_sent), makers_taken' = makers_taken + 1,
         UNCHANGED <<Makers!requests, wrapper, makers_out, served, makers_sent, makers_handled, makers_last_error, aborted>>,
         NEW e, e = makers_sent[makers_taken + 1], e.to \in Makers!Made, ~makers_proxies[e.to].destroyed,
         NEW q \in Callers, q = makers_proxies[e.to].queue, QueueGets(q, e), Brings(q, e)
  PROVE  Makers!Inv'
<1>1. /\ Makers!TypeOK /\ Makers!CallsFit /\ Makers!ProxiesFit /\ Makers!IdsFit /\ Makers!DestroysFit /\ Makers!EventsFit /\ Makers!NewIdsInOrder
      /\ Makers!QueuesFit /\ Makers!HandledFit /\ Makers!Followed /\ Makers!HandledByOwner
  BY DEF Makers!Inv
<1> DEFINE m == makers_taken + 1
           new == e.new
<1>2. /\ m \in DOMAIN makers_sent /\ m \in Nat /\ m \in 0..Len(makers_sent) /\ makers_taken' = m /\ makers_taken \in Nat
      /\ \A k : k \in 1..m <=> (k \in 1..makers_taken \/ k = m)
      /\ e \in Makers!Events /\ e.n = m /\ e = makers_sent[m] /\ new \in MakerIds \cup {0}
      /\ new # 0 => new \notin Makers!Made /\ \A k \in 1..m : makers_sent[k].to # new
  <2>1. makers_taken \in Nat
    BY <1>1 DEF Makers!TypeOK
  <2> QED
    BY <1>1, <2>1, NextEvent
<1>3. \A k \in 1..makers_taken : k < m
  BY <1>2
<1> HIDE DEF m, new
<1>4. q # None /\ makers_pc[q] # "gone" /\ makers_queue[q] # None /\ makers_queue[q] \in Seq(Makers!Events) /\ Makers!Increasing(makers_queue[q])
  <2>1. q # None
    BY DEF Makers!ProxyQueuesAssumption
  <2>2. makers_pc[q] # "gone"
    BY <1>1, <2>1, ProxyFacts
  <2>3. makers_queue[q] # None
    BY <1>1, <2>2 DEF Makers!CallsFit
  <2>4. makers_queue[q] \in Seq(Makers!Events)
    BY <1>1, <2>3 DEF Makers!TypeOK
  <2> QED
    BY <1>1, <2>1, <2>2, <2>3, <2>4 DEF Makers!QueuesFit
<1>5. /\ UNCHANGED <<mutex, makers_pc, call, wrapper, makers_out, served, makers_sent, makers_handled, makers_last_error, aborted>>
  BY DEF Makers!requests
<1>6. /\ \A id \in Makers!Made : makers_proxies'[id] = makers_proxies[id]
      /\ new = 0 => Makers!Made' = Makers!Made
      /\ new # 0 => Makers!Made' = Makers!Made \cup {new} /\ makers_proxies'[new] = Makers!NewProxy(q, None)
      /\ makers_proxies' \in [Makers!Made' -> Things] /\ Makers!Made \subseteq Makers!Made'
  <2>1. makers_proxies \in [Makers!Made -> Things]
    BY <1>1 DEF Makers!TypeOK, Things
  <2>2. CASE new = 0
    BY <2>1, <2>2 DEF Makers!Made, new, Brings
  <2>3. CASE new # 0
    <3>1. makers_proxies' = [id \in Makers!Made \cup {new} |-> IF id = new THEN Makers!NewProxy(q, None) ELSE makers_proxies[id]]
      BY <2>3 DEF Makers!With, new, Brings
    <3>2. Makers!NewProxy(q, None) \in Things
      BY DEF Makers!NewProxy, Things
    <3>3. Makers!Made' = Makers!Made \cup {new}
      BY <3>1 DEF Makers!Made
    <3> QED
      BY <1>2, <2>1, <2>3, <3>1, <3>2, <3>3
  <2> QED
    BY <2>2, <2>3
<1>7. Makers!Written' = Makers!Written /\ Makers!Made' \ MakerIds = Makers!Made \ MakerIds
  BY <1>2, <1>5, <1>6 DEF Makers!Written
<1>8. \A f \in Makers!ToSet(makers_queue[q]) : f.n < e.n
  <2>1. \A f \in Makers!Lying(q) : f.n \in 1..makers_taken
    BY <1>1 DEF Makers!QueuesFit
  <2> QED
    BY <1>2, <1>3, <1>4, <2>1 DEF Makers!Lying
<1>9. /\ Append(makers_queue[q], e) \in Seq(Makers!Events) /\ Makers!Increasing(Append(makers_queue[q], e))
      /\ Makers!ToSet(Append(makers_queue[q], e)) = Makers!ToSet(makers_queue[q]) \cup {e}
  BY <1>2, <1>4, <1>8, QueueMore
<1>10. /\ makers_queue' \in [Callers -> Seq(Makers!Events) \cup {None}] /\ makers_queue'[q] = Append(makers_queue[q], e)
       /\ \A t \in Callers \ {q} : makers_queue'[t] = makers_queue[t]
  BY <1>1, <1>9 DEF Makers!TypeOK, QueueGets
<1>11. makers_queue'[q] # None
  BY <1>9, <1>10 DEF Makers!ProxyQueuesAssumption, Makers!Events
<1>12. /\ Makers!Lying(q)' = Makers!Lying(q) \cup {e}
       /\ \A t \in Callers \ {q} : Makers!Lying(t)' = Makers!Lying(t)
       /\ \A t \in Callers : makers_queue'[t] # None => Makers!Increasing(makers_queue'[t])
  <2>1. Makers!Lying(q)' = Makers!Lying(q) \cup {e}
    BY <1>4, <1>9, <1>10, <1>11 DEF Makers!Lying
  <2>2. \A t \in Callers \ {q} : Makers!Lying(t)' = Makers!Lying(t)
    BY <1>10 DEF Makers!Lying
  <2>3. \A t \in Callers : makers_queue'[t] # None => Makers!Increasing(makers_queue'[t])
    BY <1>1, <1>9, <1>10 DEF Makers!QueuesFit
  <2> QED
    BY <2>1, <2>2, <2>3
<1>13. Makers!TypeOK'
  <2>1. Makers!Made' \subseteq 1..MaxMade \cup MakerIds
    BY <1>1, <1>2, <1>6 DEF Makers!TypeOK
  <2> QED
    BY <1>1, <1>2, <1>5, <1>6, <1>10, <2>1 DEF Makers!TypeOK, Things
<1>14. Makers!CallsFit'
  <2>1. \A t \in Callers : makers_queue'[t] = None <=> makers_queue[t] = None
    BY <1>4, <1>10, <1>11
  <2> QED
    <3> SUFFICES ASSUME NEW u \in Callers
                 PROVE  /\ makers_pc[u] \in {"create", "write", "written"} <=> mutex = u
                        /\ wrapper[u] \in {None, u}
                        /\ makers_pc[u] = "gone" <=> makers_queue'[u] = None
                        /\ makers_pc[u] = "create" => call[u] = [new |-> 0, destroys |-> 0, via |-> u]
                        /\ makers_pc[u] = "returned" => call[u].new # 0
                        /\ makers_pc[u] \in {"write", "written", "returned"} /\ call[u].new # 0 =>
                             /\ call[u].new \in Makers!Made' \ MakerIds /\ call[u].destroys = 0
                             /\ makers_proxies'[call[u].new] = Makers!NewProxy(u, u)
                        /\ makers_pc[u] \in {"write", "written"} /\ call[u].destroys # 0 =>
                             call[u].destroys \in Makers!Made' /\ makers_proxies'[call[u].destroys].owner = u
      BY <1>5 DEF Makers!CallsFit, Makers!NewProxy
    <3> QED
      BY <1>1, <1>6, <2>1 DEF Makers!CallsFit
<1>15. Makers!ProxiesFit'
  <2>1. ASSUME new # 0
        PROVE  LET x == makers_proxies'[new] IN
               /\ x.queue # None => makers_pc[x.queue] # "gone" /\ x.owner \in {None, x.queue}
               /\ x.destroyed => x.queue = None
               /\ x.queue = None /\ ~x.destroyed => x.owner = None
               /\ x.owner = None => new \in MakerIds /\ ~x.listener
               /\ x.owner # None /\ ~x.listener =>
                    call[x.owner].new = new /\ makers_pc[x.owner] \in {"write", "written", "returned"}
    BY <1>2, <1>4, <1>6, <2>1 DEF Makers!NewProxy
  <2> QED
    <3>1. ASSUME NEW p \in Makers!Made
          PROVE  LET x == makers_proxies'[p] IN
                 /\ x.queue # None => makers_pc[x.queue] # "gone" /\ x.owner \in {None, x.queue}
                 /\ x.destroyed => x.queue = None
                 /\ x.queue = None /\ ~x.destroyed => x.owner = None
                 /\ x.owner = None => p \in MakerIds /\ ~x.listener
                 /\ x.owner # None /\ ~x.listener =>
                      call[x.owner].new = p /\ makers_pc[x.owner] \in {"write", "written", "returned"}
      <4>1. makers_proxies'[p] = makers_proxies[p]
        BY <1>6
      <4> QED
        BY <1>1, <4>1, ProxyFacts
    <3>2. \A p \in Makers!Made' : p \in Makers!Made \/ (p = new /\ new # 0)
      BY <1>6
    <3>3. \A p \in Makers!Made' : LET x == makers_proxies'[p] IN
                 /\ x.queue # None => makers_pc[x.queue] # "gone" /\ x.owner \in {None, x.queue}
                 /\ x.destroyed => x.queue = None
                 /\ x.queue = None /\ ~x.destroyed => x.owner = None
                 /\ x.owner = None => p \in MakerIds /\ ~x.listener
                 /\ x.owner # None /\ ~x.listener =>
                      call[x.owner].new = p /\ makers_pc[x.owner] \in {"write", "written", "returned"}
      BY <2>1, <3>1, <3>2
    <3> QED
      BY <1>5, <3>3 DEF Makers!ProxiesFit
<1>16. Makers!IdsFit' /\ Makers!NewIdsInOrder'
  BY <1>1, <1>5, <1>7 DEF Makers!IdsFit, Makers!NewIdsInOrder
<1>17. Makers!DestroysFit'
  BY <1>1, <1>5, <1>6 DEF Makers!DestroysFit
<1>18. Makers!EventsFit'
  BY <1>1, <1>2, <1>5, <1>6, <1>7 DEF Makers!EventsFit, new
<1>19. Makers!QueuesFit'
  <2>1. ASSUME NEW t \in Callers, NEW f \in Makers!Lying(t)
        PROVE  /\ f.n \in 1..m /\ f = makers_sent[f.n]
               /\ f.to \in Makers!Made' /\ (makers_proxies'[f.to].destroyed \/ makers_proxies'[f.to].queue = t)
               /\ f.new # 0 => f.new \in Makers!Made' /\ makers_proxies'[f.new] = Makers!NewProxy(t, None)
    BY <1>1, <1>2, <1>6, <2>1 DEF Makers!QueuesFit
  <2>2. /\ e.n \in 1..m /\ e = makers_sent[e.n]
        /\ e.to \in Makers!Made' /\ (makers_proxies'[e.to].destroyed \/ makers_proxies'[e.to].queue = q)
        /\ e.new # 0 => e.new \in Makers!Made' /\ makers_proxies'[e.new] = Makers!NewProxy(q, None)
    BY <1>2, <1>6 DEF new
  <2>3. ASSUME NEW t \in Callers, NEW f \in Makers!Lying(t)'
        PROVE  /\ f.n \in 1..m /\ f = makers_sent[f.n]
               /\ f.to \in Makers!Made' /\ (makers_proxies'[f.to].destroyed \/ makers_proxies'[f.to].queue = t)
               /\ f.new # 0 => f.new \in Makers!Made' /\ makers_proxies'[f.new] = Makers!NewProxy(t, None)
    <3>1. CASE f \in Makers!Lying(t)
      BY <2>1, <3>1
    <3>2. CASE f \notin Makers!Lying(t)
      <4>1. t = q /\ f = e
        BY <1>12, <2>3, <3>2
      <4> QED
        BY <2>2, <4>1
    <3> QED
      BY <3>1, <3>2
  <2>4. \A t \in Callers : makers_queue'[t] # None => Makers!Increasing(makers_queue'[t])
    BY <1>12
  <2>5. makers_taken' = m /\ makers_sent' = makers_sent
    BY <1>2, <1>5
  <2>6. \A t \in Callers : \A f \in Makers!Lying(t)' :
          /\ f.n \in 1..makers_taken' /\ f = makers_sent'[f.n]
          /\ f.to \in Makers!Made' /\ (makers_proxies'[f.to].destroyed \/ makers_proxies'[f.to].queue = t)
          /\ f.new # 0 => f.new \in Makers!Made' /\ makers_proxies'[f.new] = Makers!NewProxy(t, None)
    BY <2>3, <2>5
  <2> QED
    BY <2>4, <2>6 DEF Makers!QueuesFit, Makers!NewProxy
<1>20. Makers!HandledFit'
  <2>1. \A i \in DOMAIN makers_handled : LET h == makers_handled[i].event IN
          /\ h.n \in 1..makers_taken /\ h = makers_sent[h.n] /\ h.to \in Makers!Made
          /\ \A t \in Callers : \A f \in Makers!Lying(t) : f.to = h.to => h.n < f.n
          /\ \A j \in 1..(i - 1) : makers_handled[j].event.to = h.to => makers_handled[j].event.n < h.n
          /\ \A k \in 1..(h.n - 1) : makers_sent[k].to = h.to => \E j \in DOMAIN makers_handled : makers_handled[j].event = makers_sent[k]
    BY <1>1 DEF Makers!HandledFit
  <2>2. \A i \in DOMAIN makers_handled : makers_handled[i].event.n \in 1..m /\ makers_handled[i].event.n < e.n /\ makers_handled[i].event.to \in Makers!Made'
    BY <1>2, <1>3, <1>6, <2>1
  <2>3. \A i \in DOMAIN makers_handled : \A t \in Callers : \A f \in Makers!Lying(t)' :
          f.to = makers_handled[i].event.to => makers_handled[i].event.n < f.n
    BY <1>12, <2>1, <2>2
  <2> QED
    BY <1>2, <1>5, <2>1, <2>2, <2>3 DEF Makers!HandledFit
<1>21. Makers!HandledByOwner'
  BY <1>1, <1>5, <1>6 DEF Makers!HandledByOwner, Makers!HandledFit
<1>22. Makers!Followed'
  <2>1. ASSUME NEW id \in Makers!Made', Makers!Awaited(id)', NEW u \in Callers, makers_proxies'[id].queue = u, NEW k \in 1..m, makers_sent[k].to = id
        PROVE  makers_sent[k] \in Makers!Lying(u)' \/ \E i \in DOMAIN makers_handled : makers_handled[i].event = makers_sent[k]
    <3>1. id \in Makers!Made /\ id # new
      <4>1. id # 0
        <5>1. id \in Makers!Made \/ (new # 0 /\ id = new)
          BY <1>6, <2>1
        <5> QED
          BY <1>1, <5>1, ProxyFacts
      <4>2. id # new
        BY <1>2, <2>1, <4>1
      <4> QED
        BY <1>6, <2>1, <4>1, <4>2
    <3>2. makers_proxies[id].queue = u /\ u # None /\ makers_proxies'[id] = makers_proxies[id]
      BY <1>6, <2>1, <3>1 DEF Makers!ProxyQueuesAssumption
    <3>3. Makers!Awaited(id)
      BY <1>12, <2>1, <3>1, <3>2 DEF Makers!Awaited, new
    <3>4. CASE k \in 1..makers_taken
      BY <1>1, <1>12, <2>1, <3>1, <3>2, <3>3, <3>4 DEF Makers!Followed
    <3>5. CASE k = m
      BY <1>2, <1>12, <2>1, <3>1, <3>2, <3>5
    <3> QED
      BY <1>2, <2>1, <3>4, <3>5
  <2>2. \A id \in Makers!Made' : makers_proxies'[id].queue # None => makers_proxies'[id].queue \in Callers
    BY <1>6 DEF Things
  <2> SUFFICES ASSUME NEW id \in Makers!Made', Makers!Awaited(id)', makers_proxies'[id].queue # None, NEW k \in 1..m, makers_sent[k].to = id,
                      NEW u, makers_proxies'[id].queue = u
               PROVE  makers_sent[k] \in Makers!Lying(u)' \/ \E i \in DOMAIN makers_handled : makers_handled[i].event = makers_sent[k]
    BY <1>2, <1>5 DEF Makers!Followed
  <2> QED
    BY <2>1, <2>2
<1> QED
  BY <1>5, <1>13, <1>14, <1>15, <1>16, <1>17, <1>18, <1>19, <1>20, <1>21, <1>22 DEF Makers!Inv, Makers!AbortsOnlyForDiscarded

\* What the invariant says of the first event in a queue.
LEMMA FirstEvent ==
  ASSUME Makers!ProxyQueuesAssumption, Makers!Inv, NEW t \in Callers, makers_pc[t] = "idle", makers_queue[t] # <<>>
  PROVE  /\ makers_queue[t] # None /\ makers_queue[t] \in Seq(Makers!Events) /\ t # None
         /\ Tail(makers_queue[t]) \in Seq(Makers!Events) /\ Tail(makers_queue[t]) # None /\ Makers!Increasing(Tail(makers_queue[t]))
         /\ Head(makers_queue[t]) \in Makers!Lying(t) /\ Head(makers_queue[t]) \in Makers!Events
         /\ Makers!ToSet(Tail(makers_queue[t])) = Makers!Lying(t) \ {Head(makers_queue[t])}
         /\ \A f \in Makers!Lying(t) : f = Head(makers_queue[t]) \/ Head(makers_queue[t]).n < f.n
         /\ Head(makers_queue[t]).n \in Nat
         /\ \A p \in Makers!Made : makers_proxies[p].queue = t /\ makers_proxies[p].owner # None => makers_proxies[p].listener
<1>1. Makers!TypeOK /\ Makers!CallsFit /\ Makers!ProxiesFit /\ Makers!QueuesFit
  BY DEF Makers!Inv
<1>2. makers_queue[t] # None /\ makers_queue[t] \in Seq(Makers!Events) /\ Makers!Increasing(makers_queue[t]) /\ Makers!Lying(t) = Makers!ToSet(makers_queue[t])
  BY <1>1 DEF Makers!CallsFit, Makers!TypeOK, Makers!QueuesFit, Makers!Lying
<1>3. /\ Tail(makers_queue[t]) \in Seq(Makers!Events) /\ Makers!Increasing(Tail(makers_queue[t])) /\ Head(makers_queue[t]) \in Makers!ToSet(makers_queue[t])
      /\ Head(makers_queue[t]) \in Makers!Events
      /\ Makers!ToSet(Tail(makers_queue[t])) = Makers!ToSet(makers_queue[t]) \ {Head(makers_queue[t])}
      /\ \A f \in Makers!ToSet(makers_queue[t]) : f = Head(makers_queue[t]) \/ Head(makers_queue[t]).n < f.n
  BY <1>2, QueueLess
<1>4. Tail(makers_queue[t]) # None
  BY <1>3 DEF Makers!ProxyQueuesAssumption, Makers!Events
<1>5. t # None
  BY DEF Makers!ProxyQueuesAssumption
<1>6. ASSUME NEW p \in Makers!Made, makers_proxies[p].queue = t, makers_proxies[p].owner # None PROVE makers_proxies[p].listener
  <2>1. makers_proxies[p].owner = t
    BY <1>1, <1>5, <1>6, ProxyFacts
  <2> QED
    BY <1>1, <1>6, <2>1, ProxyFacts
<1>7. Head(makers_queue[t]).n \in Nat
  BY <1>3 DEF Makers!Events
<1> QED
  BY <1>2, <1>3, <1>4, <1>5, <1>6, <1>7

\* An event is taken from a queue and dropped.
LEMMA DispatchDrops ==
  ASSUME Makers!ProxyQueuesAssumption, Makers!Inv, aborted = "no", NEW t \in Callers, makers_pc[t] = "idle", makers_queue[t] # <<>>,
         NEW e, e = Head(makers_queue[t]), makers_queue' = [makers_queue EXCEPT ![t] = Tail(makers_queue[t])],
         makers_proxies[e.to].destroyed \/ ~makers_proxies[e.to].listener,
         UNCHANGED <<Makers!requests, wrapper, Makers!wire, makers_proxies, makers_handled, makers_last_error, aborted>>
  PROVE  Makers!Inv'
<1>1. /\ Makers!TypeOK /\ Makers!CallsFit /\ Makers!ProxiesFit /\ Makers!IdsFit /\ Makers!DestroysFit /\ Makers!EventsFit /\ Makers!NewIdsInOrder
      /\ Makers!QueuesFit /\ Makers!HandledFit /\ Makers!Followed /\ Makers!HandledByOwner
  BY DEF Makers!Inv
<1>2. /\ makers_queue[t] # None /\ t # None /\ Tail(makers_queue[t]) \in Seq(Makers!Events) /\ Tail(makers_queue[t]) # None
      /\ Makers!Increasing(Tail(makers_queue[t])) /\ e \in Makers!Lying(t) /\ Makers!ToSet(Tail(makers_queue[t])) = Makers!Lying(t) \ {e}
      /\ \A f \in Makers!Lying(t) : f = e \/ e.n < f.n
      /\ \A p \in Makers!Made : makers_proxies[p].queue = t /\ makers_proxies[p].owner # None => makers_proxies[p].listener
  BY FirstEvent
<1>3. /\ UNCHANGED <<mutex, makers_pc, call, wrapper, makers_out, served, makers_sent, makers_taken, makers_proxies, makers_handled, makers_last_error, aborted>>
  BY DEF Makers!requests, Makers!wire
<1>4. /\ makers_queue' \in [Callers -> Seq(Makers!Events) \cup {None}] /\ makers_queue'[t] = Tail(makers_queue[t])
      /\ \A u \in Callers \ {t} : makers_queue'[u] = makers_queue[u]
  BY <1>1, <1>2 DEF Makers!TypeOK
<1>5. /\ Makers!Lying(t)' = Makers!Lying(t) \ {e} /\ \A u \in Callers \ {t} : Makers!Lying(u)' = Makers!Lying(u)
  BY <1>2, <1>4 DEF Makers!Lying
<1>6. Makers!Made' = Makers!Made /\ Makers!Written' = Makers!Written
  BY <1>3 DEF Makers!Made, Makers!Written
<1>7. Makers!TypeOK'
  BY <1>1, <1>3, <1>4, <1>6 DEF Makers!TypeOK
<1>8. Makers!CallsFit' /\ Makers!ProxiesFit'
  <2>1. \A u \in Callers : makers_queue'[u] = None <=> makers_queue[u] = None
    BY <1>2, <1>4
  <2>2. Makers!CallsFit'
    BY <1>1, <1>3, <1>6, <2>1 DEF Makers!CallsFit, Makers!NewProxy
  <2>3. Makers!ProxiesFit'
    BY <1>1, <1>3, <1>6 DEF Makers!ProxiesFit
  <2> QED
    BY <2>2, <2>3
<1>9. Makers!IdsFit' /\ Makers!DestroysFit' /\ Makers!NewIdsInOrder' /\ Makers!HandledByOwner' /\ Makers!EventsFit'
  BY <1>1, <1>3, <1>6 DEF Makers!IdsFit, Makers!DestroysFit, Makers!NewIdsInOrder, Makers!HandledByOwner, Makers!EventsFit
<1>10. \A u \in Callers : \A f \in Makers!Lying(u)' : f \in Makers!Lying(u)
  BY <1>5
<1>11. Makers!QueuesFit'
  <2>1. \A u \in Callers : makers_queue'[u] # None => Makers!Increasing(makers_queue'[u])
    BY <1>1, <1>2, <1>4 DEF Makers!QueuesFit
  <2> QED
    BY <1>1, <1>3, <1>6, <1>10, <2>1 DEF Makers!QueuesFit, Makers!NewProxy
<1>12. Makers!HandledFit'
  <2>1. \A i \in DOMAIN makers_handled : \A u \in Callers : \A f \in Makers!Lying(u)' :
          f.to = makers_handled[i].event.to => makers_handled[i].event.n < f.n
    BY <1>1, <1>10 DEF Makers!HandledFit
  <2> QED
    BY <1>1, <1>3, <1>6, <2>1 DEF Makers!HandledFit
<1>13. Makers!Followed'
  <2>1. ASSUME NEW id \in Makers!Made, Makers!Awaited(id)', NEW q \in Callers, makers_proxies[id].queue = q, NEW k \in 1..makers_taken, makers_sent[k].to = id
        PROVE  makers_sent[k] \in Makers!Lying(q)' \/ \E i \in DOMAIN makers_handled : makers_handled[i].event = makers_sent[k]
    <3>1. Makers!Awaited(id) /\ q # None
      BY <1>3, <1>10, <2>1 DEF Makers!Awaited, Makers!ProxyQueuesAssumption
    <3>2. makers_sent[k] \in Makers!Lying(q) \/ \E i \in DOMAIN makers_handled : makers_handled[i].event = makers_sent[k]
      BY <1>1, <2>1, <3>1 DEF Makers!Followed
    <3>3. ASSUME makers_sent[k] = e, q = t PROVE FALSE
      <4>1. ~makers_proxies[id].destroyed /\ ~makers_proxies[id].listener
        BY <1>1, <2>1, <3>1, <3>3, ProxyFacts
      <4>2. makers_proxies[id].owner = None /\ id \in MakerIds
        BY <1>1, <1>2, <2>1, <3>3, <4>1, ProxyFacts
      <4>3. PICK u \in Callers : \E f \in Makers!Lying(u)' : f.new = id
        BY <1>3, <2>1, <4>2 DEF Makers!Awaited
      <4>4. PICK f \in Makers!Lying(u)' : f.new = id
        BY <4>3
      <4>5. f \in Makers!Lying(u) /\ f.n \in 1..makers_taken /\ f = makers_sent[f.n] /\ makers_proxies[id] = Makers!NewProxy(u, None) /\ id # 0
        BY <1>1, <1>10, <4>2, <4>4, ProxyFacts DEF Makers!QueuesFit
      <4>6. u = t
        BY <2>1, <3>3, <4>5 DEF Makers!NewProxy
      <4>7. e.n < f.n /\ f \in Makers!Lying(t)
        BY <1>2, <1>5, <4>4, <4>6
      <4>8. e.n = k /\ k \in DOMAIN makers_sent /\ f.n \in DOMAIN makers_sent /\ k \in Nat /\ f.n \in Nat
        <5>1. makers_taken \in Nat /\ makers_taken \in 0..Len(makers_sent) /\ Len(makers_sent) \in Nat /\ DOMAIN makers_sent = 1..Len(makers_sent)
          BY <1>1 DEF Makers!TypeOK
        <5>2. k \in DOMAIN makers_sent /\ f.n \in DOMAIN makers_sent
          BY <2>1, <4>5, <5>1
        <5> QED
          BY <1>1, <3>3, <4>5, <5>1, <5>2 DEF Makers!EventsFit
      <4>9. makers_sent[k].to \notin Makers!Written
        BY <1>1, <2>1, <4>2 DEF Makers!IdsFit
      <4>10. PICK j \in 1..(k - 1) : makers_sent[j].new = id
        BY <1>1, <2>1, <4>8, <4>9 DEF Makers!EventsFit
      <4>11. j \in DOMAIN makers_sent /\ j # f.n
        <5>1. DOMAIN makers_sent = 1..Len(makers_sent) /\ Len(makers_sent) \in Nat
          BY <1>1 DEF Makers!TypeOK
        <5> QED
          BY <4>7, <4>8, <4>10, <5>1
      <4> QED
        BY <1>1, <4>4, <4>5, <4>8, <4>10, <4>11 DEF Makers!EventsFit
    <3> QED
      BY <1>5, <2>1, <3>2, <3>3
  <2>2. \A id \in Makers!Made : makers_proxies[id].queue # None => makers_proxies[id].queue \in Callers
    BY <1>1, ProxyFacts
  <2> SUFFICES ASSUME NEW id \in Makers!Made, Makers!Awaited(id)', makers_proxies[id].queue # None, NEW k \in 1..makers_taken, makers_sent[k].to = id,
                      NEW u, makers_proxies[id].queue = u
               PROVE  makers_sent[k] \in Makers!Lying(u)' \/ \E i \in DOMAIN makers_handled : makers_handled[i].event = makers_sent[k]
    BY <1>3, <1>6 DEF Makers!Followed
  <2> QED
    BY <2>1, <2>2
<1> QED
  BY <1>3, <1>7, <1>8, <1>9, <1>11, <1>12, <1>13 DEF Makers!Inv, Makers!AbortsOnlyForDiscarded

\* An event is handled by its receiver's owner, which also takes the object it brings.
LEMMA DispatchHandles ==
  ASSUME Makers!ProxyQueuesAssumption, Makers!Inv, aborted = "no", NEW t \in Callers, makers_pc[t] = "idle", makers_queue[t] # <<>>,
         NEW e, e = Head(makers_queue[t]), makers_queue' = [makers_queue EXCEPT ![t] = Tail(makers_queue[t])],
         ~makers_proxies[e.to].destroyed, makers_proxies[e.to].listener,
         NEW gone, gone = FALSE,
         makers_handled' = Append(makers_handled, [event |-> e, thread |-> t, afterDestroy |-> gone]),
         Makers!Made' = Makers!Made, makers_proxies' \in [Makers!Made -> Things],
         \A id \in Makers!Made : id # e.new => makers_proxies'[id] = makers_proxies[id],
         e.new # 0 => /\ makers_proxies'[e.new].queue = makers_proxies[e.new].queue /\ makers_proxies'[e.new].owner = t
                      /\ makers_proxies'[e.new].listener /\ (makers_proxies'[e.new].destroyed <=> makers_proxies[e.new].destroyed),
         UNCHANGED <<Makers!requests, wrapper, Makers!wire, makers_last_error, aborted>>
  PROVE  Makers!Inv'
<1>1. /\ Makers!TypeOK /\ Makers!CallsFit /\ Makers!ProxiesFit /\ Makers!IdsFit /\ Makers!DestroysFit /\ Makers!EventsFit /\ Makers!NewIdsInOrder
      /\ Makers!QueuesFit /\ Makers!HandledFit /\ Makers!Followed /\ Makers!HandledByOwner
  BY DEF Makers!Inv
<1>2. /\ makers_queue[t] # None /\ t # None /\ Tail(makers_queue[t]) \in Seq(Makers!Events) /\ Tail(makers_queue[t]) # None
      /\ Makers!Increasing(Tail(makers_queue[t])) /\ e \in Makers!Lying(t) /\ e \in Makers!Events /\ Makers!ToSet(Tail(makers_queue[t])) = Makers!Lying(t) \ {e}
      /\ \A f \in Makers!Lying(t) : f = e \/ e.n < f.n
      /\ e.n \in Nat
  BY FirstEvent
<1>3. /\ UNCHANGED <<mutex, makers_pc, call, wrapper, makers_out, served, makers_sent, makers_taken, makers_last_error, aborted>>
  BY DEF Makers!requests, Makers!wire
<1>4. /\ makers_queue' \in [Callers -> Seq(Makers!Events) \cup {None}] /\ makers_queue'[t] = Tail(makers_queue[t])
      /\ \A u \in Callers \ {t} : makers_queue'[u] = makers_queue[u]
  BY <1>1, <1>2 DEF Makers!TypeOK
<1>5. /\ Makers!Lying(t)' = Makers!Lying(t) \ {e} /\ \A u \in Callers \ {t} : Makers!Lying(u)' = Makers!Lying(u)
  BY <1>2, <1>4 DEF Makers!Lying
<1> DEFINE rcv == e.to
           new == e.new
           n == Len(makers_handled)
           h0 == [event |-> e, thread |-> t, afterDestroy |-> gone]
<1>6. /\ rcv \in Makers!Made /\ e.n \in 1..makers_taken /\ e = makers_sent[e.n] /\ makers_proxies[rcv].queue = t
      /\ new # 0 => new \in Makers!Made /\ makers_proxies[new] = Makers!NewProxy(t, None)
  BY <1>1, <1>2 DEF Makers!QueuesFit
<1>7. makers_proxies[rcv].owner = t /\ rcv # new
  <2>1. makers_proxies[rcv].owner = t
    BY <1>1, <1>2, <1>6, ProxyFacts
  <2>2. rcv # 0
    BY <1>1, <1>6, ProxyFacts
  <2> QED
    BY <1>2, <1>6, <2>1, <2>2 DEF Makers!NewProxy
<1>8. /\ h0 \in [event : Makers!Events, thread : Callers, afterDestroy : BOOLEAN]
      /\ h0.event = e /\ h0.thread = t /\ ~h0.afterDestroy
  BY <1>2
<1>9. /\ ~makers_proxies[rcv].destroyed /\ makers_proxies[rcv].listener /\ makers_handled' = Append(makers_handled, h0)
      /\ makers_handled \in Seq([event : Makers!Events, thread : Callers, afterDestroy : BOOLEAN])
  BY <1>1 DEF Makers!TypeOK
<1> HIDE DEF n, h0
<1>10. /\ makers_handled' \in Seq([event : Makers!Events, thread : Callers, afterDestroy : BOOLEAN]) /\ n \in Nat
       /\ \A i : i \in DOMAIN makers_handled <=> i \in 1..n
       /\ \A i : i \in DOMAIN makers_handled' <=> (i \in DOMAIN makers_handled \/ i = n + 1)
       /\ \A i \in DOMAIN makers_handled : makers_handled'[i] = makers_handled[i]
       /\ makers_handled'[n + 1] = h0
  BY <1>8, <1>9, OneMore DEF n
<1>11. /\ Makers!Made' = Makers!Made /\ makers_proxies' \in [Makers!Made -> Things]
       /\ \A id \in Makers!Made : id # new => makers_proxies'[id] = makers_proxies[id]
       /\ new # 0 => /\ makers_proxies'[new].queue = t /\ makers_proxies'[new].owner = t /\ makers_proxies'[new].listener
                     /\ ~makers_proxies'[new].destroyed
  <2>1. new # 0 => makers_proxies[new].queue = t /\ ~makers_proxies[new].destroyed
    BY <1>6 DEF Makers!NewProxy
  <2> QED
    BY <2>1
<1>12. new # 0 => /\ new \in Makers!Made /\ new \in MakerIds /\ makers_proxies[new].owner = None /\ makers_proxies[new].queue = t
                  /\ ~makers_proxies[new].destroyed
  <2>1. ASSUME new # 0 PROVE makers_proxies[new].owner = None /\ makers_proxies[new].queue = t /\ ~makers_proxies[new].destroyed
    BY <1>6, <2>1 DEF Makers!NewProxy
  <2> QED
    BY <1>1, <1>6, <2>1, ProxyFacts
<1>13. Makers!Written' = Makers!Written /\ e.new = new /\ e.to = rcv
  BY <1>3 DEF Makers!Written
<1> HIDE DEF rcv, new
<1>14. Makers!TypeOK'
  BY <1>1, <1>3, <1>4, <1>10, <1>11 DEF Makers!TypeOK, Things
<1>15. Makers!CallsFit'
  <2>1. \A u \in Callers : makers_queue'[u] = None <=> makers_queue[u] = None
    BY <1>2, <1>4
  <2>2. ASSUME NEW u \in Callers
        PROVE  /\ makers_pc[u] \in {"write", "written", "returned"} /\ call[u].new # 0 =>
                    /\ call[u].new \in Makers!Made \ MakerIds /\ call[u].destroys = 0
                    /\ makers_proxies'[call[u].new] = Makers!NewProxy(u, u)
               /\ makers_pc[u] \in {"write", "written"} /\ call[u].destroys # 0 =>
                    call[u].destroys \in Makers!Made /\ makers_proxies'[call[u].destroys].owner = u
    <3>1. u # None
      BY DEF Makers!ProxyQueuesAssumption
    <3>2. ASSUME makers_pc[u] \in {"write", "written", "returned"}, call[u].new # 0
          PROVE  /\ call[u].new \in Makers!Made \ MakerIds /\ call[u].destroys = 0
                 /\ makers_proxies'[call[u].new] = Makers!NewProxy(u, u)
      <4>1. /\ call[u].new \in Makers!Made \ MakerIds /\ call[u].destroys = 0
            /\ makers_proxies[call[u].new] = Makers!NewProxy(u, u)
        BY <1>1, <3>2 DEF Makers!CallsFit
      <4>2. call[u].new # new
        BY <1>12, <3>2, <4>1
      <4> QED
        BY <1>11, <4>1, <4>2
    <3>3. ASSUME makers_pc[u] \in {"write", "written"}, call[u].destroys # 0
          PROVE  call[u].destroys \in Makers!Made /\ makers_proxies'[call[u].destroys].owner = u
      <4>1. call[u].destroys \in Makers!Made /\ makers_proxies[call[u].destroys].owner = u
        BY <1>1, <3>3 DEF Makers!CallsFit
      <4>2. call[u].destroys # new
        BY <1>12, <3>1, <3>3, <4>1
      <4> QED
        BY <1>11, <4>1, <4>2
    <3> QED
      BY <3>2, <3>3
  <2> QED
    BY <1>1, <1>3, <1>11, <2>1, <2>2 DEF Makers!CallsFit, Makers!NewProxy
<1>16. Makers!ProxiesFit'
  <2> SUFFICES ASSUME NEW id \in Makers!Made, NEW x, x = makers_proxies'[id]
               PROVE  /\ x.queue # None => makers_pc[x.queue] # "gone" /\ x.owner \in {None, x.queue}
                      /\ x.destroyed => x.queue = None
                      /\ x.queue = None /\ ~x.destroyed => x.owner = None
                      /\ x.owner = None => id \in MakerIds /\ ~x.listener
                      /\ x.owner # None /\ ~x.listener =>
                           call[x.owner].new = id /\ makers_pc[x.owner] \in {"write", "written", "returned"}
    BY <1>3, <1>11 DEF Makers!ProxiesFit
  <2>1. CASE id # new
    BY <1>1, <1>11, <2>1, ProxyFacts
  <2>2. CASE id = new
    <3>1. new # 0
      BY <1>1, <2>2, ProxyFacts
    <3> QED
      BY <1>2, <1>11, <2>2, <3>1
  <2> QED
    BY <2>1, <2>2
<1>17. \A id \in Makers!Made : (makers_proxies'[id].destroyed <=> makers_proxies[id].destroyed) /\ makers_proxies'[id].queue = makers_proxies[id].queue
                        /\ (makers_proxies[id].owner # None => makers_proxies'[id] = makers_proxies[id])
  <2>1. \A id \in Makers!Made : id = new => new # 0
    BY <1>1, ProxyFacts
  <2> QED
    BY <1>11, <1>12, <2>1
<1>18. Makers!IdsFit' /\ Makers!NewIdsInOrder' /\ Makers!EventsFit'
  BY <1>1, <1>3, <1>11, SameWires
<1>19. Makers!DestroysFit'
  BY <1>1, <1>3, <1>11, <1>17 DEF Makers!DestroysFit
<1>20. \A u \in Callers : \A f \in Makers!Lying(u)' : f \in Makers!Lying(u)
  BY <1>5
<1>21. Makers!QueuesFit'
  <2>1. \A u \in Callers : makers_queue'[u] # None => Makers!Increasing(makers_queue'[u])
    BY <1>1, <1>2, <1>4 DEF Makers!QueuesFit
  <2>2. ASSUME NEW u \in Callers, NEW f \in Makers!Lying(u)'
        PROVE  /\ f.n \in 1..makers_taken /\ f = makers_sent[f.n]
               /\ f.to \in Makers!Made /\ (makers_proxies'[f.to].destroyed \/ makers_proxies'[f.to].queue = u)
               /\ f.new # 0 => f.new \in Makers!Made /\ makers_proxies'[f.new] = Makers!NewProxy(u, None)
    <3>1. /\ f \in Makers!Lying(u) /\ f.n \in 1..makers_taken /\ f = makers_sent[f.n]
          /\ f.to \in Makers!Made /\ (makers_proxies[f.to].destroyed \/ makers_proxies[f.to].queue = u)
          /\ f.new # 0 => f.new \in Makers!Made /\ makers_proxies[f.new] = Makers!NewProxy(u, None)
      BY <1>1, <1>20, <2>2 DEF Makers!QueuesFit
    <3>2. ASSUME f.new # 0, f.new = new PROVE FALSE
      <4>1. f.n \in DOMAIN makers_sent /\ e.n \in DOMAIN makers_sent
        <5>1. makers_taken \in 0..Len(makers_sent) /\ Len(makers_sent) \in Nat /\ DOMAIN makers_sent = 1..Len(makers_sent)
          BY <1>1 DEF Makers!TypeOK
        <5> QED
          BY <1>6, <3>1, <5>1
      <4>2. f.n = e.n
        BY <1>1, <1>6, <1>13, <3>1, <3>2, <4>1 DEF Makers!EventsFit
      <4>3. f = e
        BY <1>6, <3>1, <4>2
      <4>4. u = t
        BY <1>12, <3>1, <3>2 DEF Makers!NewProxy
      <4> QED
        BY <1>5, <2>2, <4>3, <4>4
    <3> QED
      BY <1>11, <1>17, <3>1, <3>2
  <2> QED
    BY <1>3, <1>11, <2>1, <2>2 DEF Makers!QueuesFit, Makers!NewProxy
<1>22. ASSUME NEW u \in Callers, NEW f \in Makers!Lying(u)', f.to = rcv PROVE e.n < f.n
  <2>1. makers_proxies[rcv].queue = u
    BY <1>1, <1>9, <1>20, <1>22 DEF Makers!QueuesFit
  <2>2. u = t
    BY <1>6, <1>13, <2>1
  <2> QED
    BY <1>2, <1>5, <1>22, <2>2
<1>23. \A j \in DOMAIN makers_handled : makers_handled[j].event.to = rcv => makers_handled[j].event.n < e.n
  BY <1>1, <1>2, <1>13 DEF Makers!HandledFit
<1>24. ASSUME NEW k \in 1..(e.n - 1), makers_sent[k].to = rcv
       PROVE  \E j \in DOMAIN makers_handled : makers_handled[j].event = makers_sent[k]
  <2>1. k \in 1..makers_taken /\ k < e.n /\ k \in DOMAIN makers_sent /\ k \in Nat
    <3>1. makers_taken \in 0..Len(makers_sent) /\ Len(makers_sent) \in Nat /\ DOMAIN makers_sent = 1..Len(makers_sent)
      BY <1>1 DEF Makers!TypeOK
    <3> QED
      BY <1>6, <1>24, <3>1
  <2>2. Makers!Awaited(rcv) /\ makers_proxies[rcv].queue = t /\ rcv \in Makers!Made
    BY <1>2, <1>6, <1>7, <1>13 DEF Makers!Awaited
  <2>3. makers_sent[k] \in Makers!Lying(t) \/ \E i \in DOMAIN makers_handled : makers_handled[i].event = makers_sent[k]
    BY <1>1, <1>2, <1>24, <2>1, <2>2 DEF Makers!Followed
  <2>4. makers_sent[k].n = k
    BY <1>1, <2>1 DEF Makers!EventsFit
  <2>5. makers_sent[k] \notin Makers!Lying(t)
    <3>1. ~(e.n < k) /\ k # e.n
      BY <1>2, <2>1
    <3> QED
      BY <1>2, <2>4, <3>1
  <2> QED
    BY <2>3, <2>5
<1>25. Makers!HandledFit'
  <2>1. \A i \in DOMAIN makers_handled : LET h == makers_handled[i].event IN
          /\ h.n \in 1..makers_taken /\ h = makers_sent[h.n] /\ h.to \in Makers!Made
          /\ \A u \in Callers : \A f \in Makers!Lying(u)' : f.to = h.to => h.n < f.n
          /\ \A j \in 1..(i - 1) : makers_handled[j].event.to = h.to => makers_handled[j].event.n < h.n
          /\ \A k \in 1..(h.n - 1) : makers_sent[k].to = h.to => \E j \in DOMAIN makers_handled : makers_handled[j].event = makers_sent[k]
    BY <1>1, <1>20 DEF Makers!HandledFit
  <2>2. /\ \A i \in DOMAIN makers_handled : \A j \in 1..(i - 1) : makers_handled'[j] = makers_handled[j]
        /\ \A j \in 1..n : j \in DOMAIN makers_handled /\ makers_handled'[j] = makers_handled[j]
        /\ (n + 1) - 1 = n
    BY <1>10
  <2>3. \A i \in DOMAIN makers_handled : LET h == makers_handled'[i].event IN
          /\ h.n \in 1..makers_taken /\ h = makers_sent[h.n] /\ h.to \in Makers!Made
          /\ \A u \in Callers : \A f \in Makers!Lying(u)' : f.to = h.to => h.n < f.n
          /\ \A j \in 1..(i - 1) : makers_handled'[j].event.to = h.to => makers_handled'[j].event.n < h.n
          /\ \A k \in 1..(h.n - 1) : makers_sent[k].to = h.to => \E j \in DOMAIN makers_handled' : makers_handled'[j].event = makers_sent[k]
    BY <1>10, <2>1, <2>2
  <2>4. /\ makers_handled'[n + 1].event = e
        /\ e.n \in 1..makers_taken /\ e = makers_sent[e.n] /\ e.to \in Makers!Made
        /\ \A u \in Callers : \A f \in Makers!Lying(u)' : f.to = e.to => e.n < f.n
        /\ \A j \in 1..((n + 1) - 1) : makers_handled'[j].event.to = e.to => makers_handled'[j].event.n < e.n
        /\ \A k \in 1..(e.n - 1) : makers_sent[k].to = e.to => \E j \in DOMAIN makers_handled' : makers_handled'[j].event = makers_sent[k]
    <3>1. makers_handled'[n + 1].event = e
      BY <1>8, <1>10 DEF h0
    <3>2. \A j \in 1..((n + 1) - 1) : makers_handled'[j].event.to = rcv => makers_handled'[j].event.n < e.n
      BY <1>23, <2>2
    <3>3. \A k \in 1..(e.n - 1) : makers_sent[k].to = rcv => \E j \in DOMAIN makers_handled' : makers_handled'[j].event = makers_sent[k]
      BY <1>10, <1>24
    <3>4. e.n \in 1..makers_taken /\ e = makers_sent[e.n] /\ rcv \in Makers!Made
      BY <1>6
    <3>5. e.to = rcv
      BY <1>13
    <3>6. \A u \in Callers : \A f \in Makers!Lying(u)' : f.to = rcv => e.n < f.n
      BY <1>22
    <3> QED
      BY <3>1, <3>2, <3>3, <3>4, <3>5, <3>6
  <2>5. ASSUME NEW i \in DOMAIN makers_handled'
        PROVE  LET h == makers_handled'[i].event IN
          /\ h.n \in 1..makers_taken /\ h = makers_sent[h.n] /\ h.to \in Makers!Made
          /\ \A u \in Callers : \A f \in Makers!Lying(u)' : f.to = h.to => h.n < f.n
          /\ \A j \in 1..(i - 1) : makers_handled'[j].event.to = h.to => makers_handled'[j].event.n < h.n
          /\ \A k \in 1..(h.n - 1) : makers_sent[k].to = h.to => \E j \in DOMAIN makers_handled' : makers_handled'[j].event = makers_sent[k]
    <3>1. CASE i \in DOMAIN makers_handled
      BY <2>3, <3>1
    <3>2. CASE i = n + 1
      BY <2>4, <3>2, SMTT(60)
    <3> QED
      BY <1>10, <2>5, <3>1, <3>2
  <2>6. UNCHANGED <<makers_taken, makers_sent>> /\ Makers!Made' = Makers!Made
    BY <1>3, <1>11
  <2>7. \A i \in DOMAIN makers_handled' : LET h == makers_handled'[i].event IN
          /\ h.n \in 1..makers_taken' /\ h = makers_sent'[h.n] /\ h.to \in Makers!Made'
          /\ \A u \in Callers : \A f \in Makers!Lying(u)' : f.to = h.to => h.n < f.n
          /\ \A j \in 1..(i - 1) : makers_handled'[j].event.to = h.to => makers_handled'[j].event.n < h.n
          /\ \A k \in 1..(h.n - 1) : makers_sent'[k].to = h.to => \E j \in DOMAIN makers_handled' : makers_handled'[j].event = makers_sent'[k]
    BY <2>5, <2>6
  <2> QED
    BY <2>7 DEF Makers!HandledFit
<1>26. Makers!HandledByOwner'
  <2>1. ASSUME NEW i \in DOMAIN makers_handled
        PROVE  /\ makers_handled'[i].thread = makers_proxies'[makers_handled'[i].event.to].owner
               /\ ~makers_handled'[i].afterDestroy
    <3>1. /\ makers_handled[i].thread = makers_proxies[makers_handled[i].event.to].owner
          /\ ~makers_handled[i].afterDestroy /\ makers_handled'[i] = makers_handled[i] /\ makers_handled[i].event.to \in Makers!Made
      <4>1. /\ makers_handled[i].thread = makers_proxies[makers_handled[i].event.to].owner
            /\ ~makers_handled[i].afterDestroy
        BY <1>1 DEF Makers!HandledByOwner
      <4>2. makers_handled[i].event.to \in Makers!Made
        BY <1>1 DEF Makers!HandledFit
      <4>3. makers_handled'[i] = makers_handled[i]
        BY <1>10
      <4> QED
        BY <4>1, <4>2, <4>3
    <3>2. makers_handled[i].thread # None
      <4>1. makers_handled[i] \in [event : Makers!Events, thread : Callers, afterDestroy : BOOLEAN]
        BY <1>9, <2>1, ElementIn
      <4>2. makers_handled[i].thread \in Callers
        BY <4>1
      <4> QED
        BY <4>2 DEF Makers!ProxyQueuesAssumption
    <3> QED
      BY <1>17, <3>1, <3>2
  <2>2. /\ makers_handled'[n + 1].thread = makers_proxies'[makers_handled'[n + 1].event.to].owner
        /\ ~makers_handled'[n + 1].afterDestroy
    BY <1>2, <1>6, <1>7, <1>8, <1>10, <1>13, <1>17 DEF h0
  <2> QED
    BY <1>10, <2>1, <2>2 DEF Makers!HandledByOwner
<1>27. Makers!Followed'
  <2>1. ASSUME NEW id \in Makers!Made, Makers!Awaited(id)', NEW q \in Callers, makers_proxies[id].queue = q, NEW k \in 1..makers_taken, makers_sent[k].to = id
        PROVE  makers_sent[k] \in Makers!Lying(q)' \/ \E i \in DOMAIN makers_handled' : makers_handled'[i].event = makers_sent[k]
    <3>1. Makers!Awaited(id) /\ q # None
      <4>1. CASE id = new
        BY <1>2, <1>13, <2>1, <4>1 DEF Makers!Awaited, Makers!ProxyQueuesAssumption
      <4>2. CASE id # new
        BY <1>11, <1>20, <2>1, <4>2 DEF Makers!Awaited, Makers!ProxyQueuesAssumption
      <4> QED
        BY <4>1, <4>2
    <3>2. makers_sent[k] \in Makers!Lying(q) \/ \E i \in DOMAIN makers_handled : makers_handled[i].event = makers_sent[k]
      BY <1>1, <2>1, <3>1 DEF Makers!Followed
    <3>3. makers_handled'[n + 1].event = e /\ n + 1 \in DOMAIN makers_handled'
      BY <1>8, <1>10
    <3> QED
      BY <1>5, <1>10, <2>1, <3>2, <3>3
  <2>2. \A id \in Makers!Made : makers_proxies[id].queue # None => makers_proxies[id].queue \in Callers
    BY <1>1, ProxyFacts
  <2> SUFFICES ASSUME NEW id \in Makers!Made, Makers!Awaited(id)', makers_proxies[id].queue # None, NEW k \in 1..makers_taken, makers_sent[k].to = id,
                      NEW u, makers_proxies[id].queue = u
               PROVE  makers_sent[k] \in Makers!Lying(u)' \/ \E i \in DOMAIN makers_handled' : makers_handled'[i].event = makers_sent[k]
    BY <1>3, <1>11, <1>17 DEF Makers!Followed
  <2> QED
    BY <2>1, <2>2
<1> QED
  BY <1>3, <1>14, <1>15, <1>16, <1>18, <1>19, <1>21, <1>25, <1>26, <1>27 DEF Makers!Inv, Makers!AbortsOnlyForDiscarded

\* A thread dispatches an event of its queue.
LEMMA DispatchStep ==
  ASSUME Makers!ProxyQueuesAssumption, Makers!Inv, aborted = "no", NEW t \in Callers, Makers!Dispatch(t)
  PROVE  Makers!Inv'
<1> DEFINE e == Head(makers_queue[t])
<1>1. /\ makers_pc[t] = "idle" /\ makers_queue[t] # <<>> /\ UNCHANGED <<Makers!requests, wrapper, Makers!wire, makers_last_error, aborted>>
      /\ makers_queue' = [makers_queue EXCEPT ![t] = Tail(makers_queue[t])]
      /\ IF makers_proxies[e.to].destroyed \/ ~makers_proxies[e.to].listener
           THEN UNCHANGED <<makers_handled, makers_proxies>>
           ELSE /\ makers_handled' = Append(makers_handled, [event |-> e, thread |-> t, afterDestroy |-> makers_proxies[e.to].destroyed])
                /\ makers_proxies' = IF e.new = 0 THEN makers_proxies
                              ELSE [makers_proxies EXCEPT ![e.new].owner = t, ![e.new].listener = TRUE]
  BY DEF Makers!Dispatch, Makers!ReceiverGone
<1>2. CASE makers_proxies[e.to].destroyed \/ ~makers_proxies[e.to].listener
  <2>1. UNCHANGED <<makers_handled, makers_proxies>>
    BY <1>1, <1>2
  <2> HIDE DEF e
  <2> QED
    BY <1>1, <1>2, <2>1, DispatchDrops DEF e
<1>3. CASE ~makers_proxies[e.to].destroyed /\ makers_proxies[e.to].listener
  <2>1. Makers!TypeOK /\ Makers!ProxiesFit /\ Makers!QueuesFit
    BY DEF Makers!Inv
  <2>2. e \in Makers!Lying(t)
    BY <1>1, FirstEvent
  <2> HIDE DEF e
  <2>3. e.to \in Makers!Made /\ (e.new # 0 => e.new \in Makers!Made)
    BY <2>1, <2>2 DEF Makers!QueuesFit
  <2>4. makers_proxies \in [Makers!Made -> Things]
    BY <2>1 DEF Makers!TypeOK, Things
  <2>5. PICK gone : gone = makers_proxies[e.to].destroyed
    OBVIOUS
  <2>6. gone = FALSE
    BY <1>3, <2>3, <2>4, <2>5 DEF Things
  <2>7. makers_handled' = Append(makers_handled, [event |-> e, thread |-> t, afterDestroy |-> gone])
    BY <1>1, <1>3, <2>5
  <2>8. makers_proxies' = IF e.new = 0 THEN makers_proxies ELSE [makers_proxies EXCEPT ![e.new].owner = t, ![e.new].listener = TRUE]
    BY <1>1, <1>3
  <2>9. /\ Makers!Made' = Makers!Made /\ makers_proxies' \in [Makers!Made -> Things]
        /\ \A id \in Makers!Made : id # e.new => makers_proxies'[id] = makers_proxies[id]
        /\ e.new # 0 => /\ makers_proxies'[e.new].queue = makers_proxies[e.new].queue /\ makers_proxies'[e.new].owner = t
                        /\ makers_proxies'[e.new].listener
        /\ e.new # 0 => (makers_proxies'[e.new].destroyed <=> makers_proxies[e.new].destroyed)
    <3>1. CASE e.new = 0
      <4>1. makers_proxies' = makers_proxies
        BY <2>8, <3>1
      <4> QED
        BY <2>4, <3>1, <4>1 DEF Makers!Made
    <3>2. CASE e.new # 0
      <4>1. makers_proxies' = [makers_proxies EXCEPT ![e.new].owner = t, ![e.new].listener = TRUE]
        BY <2>8, <3>2
      <4>2. e.new \in Makers!Made
        BY <2>3, <3>2
      <4>3. Makers!Made' = Makers!Made
        BY <2>4, <4>1, <4>2 DEF Makers!Made
      <4>7. \A id \in Makers!Made : id # e.new => makers_proxies'[id] = makers_proxies[id]
        BY <2>4, <4>1, <4>2 DEF Things
      <4>4. makers_proxies' \in [Makers!Made -> Things]
        BY <2>4, <4>1, <4>2 DEF Things
      <4>5. makers_proxies'[e.new].queue = makers_proxies[e.new].queue /\ makers_proxies'[e.new].owner = t
            /\ makers_proxies'[e.new].listener
        BY <2>4, <4>1, <4>2 DEF Things
      <4>6. makers_proxies'[e.new].destroyed <=> makers_proxies[e.new].destroyed
        BY <2>4, <4>1, <4>2 DEF Things
      <4> QED
        BY <4>3, <4>4, <4>5, <4>6, <4>7
    <3> QED
      BY <3>1, <3>2
  <2> QED
    BY <1>1, <1>3, <2>6, <2>7, <2>9, DispatchHandles DEF e
<1> QED
  BY <1>2, <1>3

\* An event is read: it is dropped, ends the program or is queued.
LEMMA ReadStep ==
  ASSUME Makers!ProxyQueuesAssumption, Makers!Inv, aborted = "no", Makers!ReadEvent
  PROVE  Makers!Inv'
<1> DEFINE e == makers_sent[makers_taken + 1]
<1>1. /\ makers_taken < Len(makers_sent) /\ makers_taken' = makers_taken + 1
      /\ UNCHANGED <<Makers!requests, wrapper, makers_out, served, makers_sent, makers_handled, makers_last_error>>
  BY DEF Makers!ReadEvent
<1>2. Makers!TypeOK /\ Makers!ProxiesFit
  BY DEF Makers!Inv
<1>3. CASE e.to \notin Makers!Made \/ makers_proxies[e.to].destroyed
  <2>1. UNCHANGED <<makers_proxies, makers_queue, aborted>> /\ aborted' = "no"
    BY <1>3 DEF Makers!ReadEvent
  <2>2. CASE e.to \notin Makers!Made
    BY <1>1, <2>1, <2>2, ReadNothing
  <2>3. CASE makers_proxies[e.to].destroyed
    BY <1>1, <2>1, <2>3, ReadNothing
  <2> QED
    BY <1>3, <2>2, <2>3
<1>4. CASE e.to \in Makers!Made /\ ~makers_proxies[e.to].destroyed /\ makers_proxies[e.to].queue = None
  <2>1. aborted' = "queue" /\ UNCHANGED <<makers_proxies, makers_queue>>
    BY <1>4 DEF Makers!ReadEvent
  <2> QED
    BY <1>1, <1>4, <2>1, ReadNothing
<1>5. CASE e.to \in Makers!Made /\ ~makers_proxies[e.to].destroyed /\ makers_proxies[e.to].queue # None
  <2> DEFINE q == makers_proxies[e.to].queue
  <2>1. /\ makers_queue' = [makers_queue EXCEPT ![q] = Append(makers_queue[q], e)]
        /\ makers_proxies' = IF e.new = 0 THEN makers_proxies ELSE Makers!With(e.new, Makers!NewProxy(q, None))
        /\ UNCHANGED aborted
    BY <1>5 DEF Makers!ReadEvent
  <2>2. q \in Callers
    BY <1>2, <1>5, ProxyFacts
  <2> HIDE DEF e, q
  <2>3. q = makers_proxies[e.to].queue /\ e = makers_sent[makers_taken + 1]
    BY DEF e, q
  <2>4. QueueGets(q, e) /\ Brings(q, e)
    BY <2>1 DEF QueueGets, Brings
  <2> QED
    BY <1>1, <1>5, <2>1, <2>2, <2>3, <2>4, ReadQueued
<1> QED
  BY <1>3, <1>4, <1>5

\* A thread destroys its queue: what is still in it has no owner.
LEMMA DestroyStep ==
  ASSUME Makers!ProxyQueuesAssumption, Makers!Inv, aborted = "no", NEW t \in Callers, Makers!DestroyQueue(t)
  PROVE  Makers!Inv'
<1>1. /\ Makers!TypeOK /\ Makers!CallsFit /\ Makers!ProxiesFit /\ Makers!IdsFit /\ Makers!DestroysFit /\ Makers!EventsFit /\ Makers!NewIdsInOrder
      /\ Makers!QueuesFit /\ Makers!HandledFit /\ Makers!Followed /\ Makers!HandledByOwner
  BY DEF Makers!Inv
<1>2. /\ makers_pc[t] = "idle" /\ makers_queue' = [makers_queue EXCEPT ![t] = None] /\ makers_pc' = [makers_pc EXCEPT ![t] = "gone"]
      /\ makers_proxies' = Makers!Detached(t) /\ (\A p \in Makers!Made : makers_proxies[p].owner = t => makers_proxies[p].destroyed)
      /\ UNCHANGED <<mutex, call, wrapper, makers_out, served, makers_sent, makers_taken, makers_handled, makers_last_error, aborted>>
  BY DEF Makers!DestroyQueue, Makers!Goto, Makers!wire
<1>3. /\ makers_queue' \in [Callers -> Seq(Makers!Events) \cup {None}] /\ makers_queue'[t] = None
      /\ \A u \in Callers \ {t} : makers_queue'[u] = makers_queue[u]
      /\ makers_pc' \in [Callers -> {"idle", "create", "write", "written", "returned", "gone"}] /\ makers_pc'[t] = "gone"
      /\ \A u \in Callers \ {t} : makers_pc'[u] = makers_pc[u]
  BY <1>1, <1>2 DEF Makers!TypeOK
<1>4. Makers!Lying(t)' = {} /\ \A u \in Callers \ {t} : Makers!Lying(u)' = Makers!Lying(u)
  BY <1>3 DEF Makers!Lying
<1>5. makers_proxies \in [Makers!Made -> Things] /\ t # None
  BY <1>1 DEF Makers!TypeOK, Things, Makers!ProxyQueuesAssumption
<1>6. /\ Makers!Made' = Makers!Made /\ makers_proxies' \in [Makers!Made -> Things]
      /\ \A p \in Makers!Made : makers_proxies[p].queue # t => makers_proxies'[p] = makers_proxies[p]
      /\ \A p \in Makers!Made : makers_proxies[p].queue = t => makers_proxies'[p].queue = None
      /\ \A p \in Makers!Made : makers_proxies'[p].owner = makers_proxies[p].owner
      /\ \A p \in Makers!Made : makers_proxies'[p].listener <=> makers_proxies[p].listener
      /\ \A p \in Makers!Made : makers_proxies'[p].destroyed <=> makers_proxies[p].destroyed
  <2>1. makers_proxies' = [p \in Makers!Made |-> IF makers_proxies[p].queue = t THEN [makers_proxies[p] EXCEPT !.queue = None] ELSE makers_proxies[p]]
    BY <1>2 DEF Makers!Detached
  <2>2. \A x \in Things : /\ [x EXCEPT !.queue = None] \in Things /\ [x EXCEPT !.queue = None].queue = None
                          /\ [x EXCEPT !.queue = None].owner = x.owner
                          /\ [x EXCEPT !.queue = None].listener = x.listener
                          /\ [x EXCEPT !.queue = None].destroyed = x.destroyed
    BY DEF Things
  <2>3. Makers!Made' = Makers!Made
    BY <2>1 DEF Makers!Made
  <2>4. ASSUME NEW p \in Makers!Made
        PROVE  /\ makers_proxies'[p] \in Things
               /\ makers_proxies[p].queue # t => makers_proxies'[p] = makers_proxies[p]
               /\ makers_proxies[p].queue = t => makers_proxies'[p].queue = None
               /\ makers_proxies'[p].owner = makers_proxies[p].owner
               /\ makers_proxies'[p].listener = makers_proxies[p].listener
               /\ makers_proxies'[p].destroyed = makers_proxies[p].destroyed
    <3>1. makers_proxies[p] \in Things
      BY <1>5
    <3>2. CASE makers_proxies[p].queue = t
      <4>1. makers_proxies'[p] = [makers_proxies[p] EXCEPT !.queue = None]
        BY <2>1, <3>2
      <4> QED
        BY <2>2, <3>1, <3>2, <4>1
    <3>3. CASE makers_proxies[p].queue # t
      <4>1. makers_proxies'[p] = makers_proxies[p]
        BY <2>1, <3>3
      <4> QED
        BY <3>1, <3>3, <4>1
    <3> QED
      BY <3>2, <3>3
  <2>5. makers_proxies' \in [Makers!Made -> Things]
    BY <2>1, <2>4
  <2> QED
    BY <2>3, <2>4, <2>5
<1>7. \A p \in Makers!Made : makers_proxies[p].queue = t => makers_proxies[p].owner = None /\ ~makers_proxies[p].destroyed
  <2> SUFFICES ASSUME NEW p \in Makers!Made, makers_proxies[p].queue = t
               PROVE  makers_proxies[p].owner = None /\ ~makers_proxies[p].destroyed
    OBVIOUS
  <2> QED
    BY <1>1, <1>2, <1>5, ProxyFacts
<1>8. Makers!TypeOK'
  BY <1>1, <1>2, <1>3, <1>6 DEF Makers!TypeOK, Things
<1>9. ASSUME NEW u \in Callers, NEW p \in Makers!Made, NEW o, makers_proxies[p] = Makers!NewProxy(u, o), u # t PROVE makers_proxies'[p] = Makers!NewProxy(u, o)
  BY <1>6, <1>9 DEF Makers!NewProxy
<1>10. Makers!CallsFit'
  <2>1. ASSUME NEW u \in Callers \ {t}
        PROVE  /\ makers_pc[u] \in {"write", "written", "returned"} /\ call[u].new # 0 =>
                    /\ call[u].new \in Makers!Made \ MakerIds /\ call[u].destroys = 0
                    /\ makers_proxies'[call[u].new] = Makers!NewProxy(u, u)
               /\ makers_pc[u] \in {"write", "written"} /\ call[u].destroys # 0 =>
                    call[u].destroys \in Makers!Made /\ makers_proxies'[call[u].destroys].owner = u
    <3>1. ASSUME makers_pc[u] \in {"write", "written", "returned"}, call[u].new # 0
          PROVE  /\ call[u].new \in Makers!Made \ MakerIds /\ call[u].destroys = 0
                 /\ makers_proxies'[call[u].new] = Makers!NewProxy(u, u)
      <4>1. /\ call[u].new \in Makers!Made \ MakerIds /\ call[u].destroys = 0
            /\ makers_proxies[call[u].new] = Makers!NewProxy(u, u)
        BY <1>1, <3>1 DEF Makers!CallsFit
      <4> QED
        BY <1>9, <2>1, <4>1
    <3>2. ASSUME makers_pc[u] \in {"write", "written"}, call[u].destroys # 0
          PROVE  call[u].destroys \in Makers!Made /\ makers_proxies'[call[u].destroys].owner = u
      BY <1>1, <1>6, <3>2 DEF Makers!CallsFit
    <3> QED
      BY <3>1, <3>2
  <2>2. \A u \in Callers \ {t} :
          /\ makers_pc[u] \in {"create", "write", "written"} <=> mutex = u
          /\ wrapper[u] \in {None, u}
          /\ makers_pc[u] = "gone" <=> makers_queue'[u] = None
          /\ makers_pc[u] = "create" => call[u] = [new |-> 0, destroys |-> 0, via |-> u]
          /\ makers_pc[u] = "returned" => call[u].new # 0
    BY <1>1, <1>3, ZenonT(60) DEF Makers!CallsFit
  <2>3. mutex # t /\ wrapper[t] \in {None, t}
    BY <1>1, <1>2 DEF Makers!CallsFit
  <2> QED
    BY <1>2, <1>3, <1>6, <2>1, <2>2, <2>3, ZenonT(60) DEF Makers!CallsFit, Makers!NewProxy
<1>11. Makers!ProxiesFit'
  <2> SUFFICES ASSUME NEW id \in Makers!Made, NEW x, x = makers_proxies'[id]
               PROVE  /\ x.queue # None => makers_pc'[x.queue] # "gone" /\ x.owner \in {None, x.queue}
                      /\ x.destroyed => x.queue = None
                      /\ x.queue = None /\ ~x.destroyed => x.owner = None
                      /\ x.owner = None => id \in MakerIds /\ ~x.listener
                      /\ x.owner # None /\ ~x.listener =>
                           call[x.owner].new = id /\ makers_pc'[x.owner] \in {"write", "written", "returned"}
    BY <1>2, <1>6 DEF Makers!ProxiesFit
  <2>1. CASE makers_proxies[id].queue = t
    <3>1. x.queue = None /\ x.owner = None /\ ~x.destroyed
      BY <1>6, <1>7, <2>1
    <3>2. x.owner = None => id \in MakerIds /\ ~x.listener
      <4>1. makers_proxies[id].owner = None => id \in MakerIds /\ ~makers_proxies[id].listener
        BY <1>1, ProxyFacts
      <4> QED
        BY <1>6, <4>1
    <3> QED
      BY <3>1, <3>2
  <2>2. CASE makers_proxies[id].queue # t
    <3>1. x = makers_proxies[id]
      BY <1>6, <2>2
    <3>2. /\ x.queue # None => x.queue \in Callers \ {t} /\ makers_pc[x.queue] # "gone" /\ x.owner \in {None, x.queue}
          /\ x.destroyed => x.queue = None
          /\ x.queue = None /\ ~x.destroyed => x.owner = None
          /\ x.owner = None => id \in MakerIds /\ ~x.listener
      BY <1>1, <2>2, <3>1, ProxyFacts
    <3>3. ASSUME x.owner # None, ~x.listener
          PROVE  call[x.owner].new = id /\ makers_pc'[x.owner] \in {"write", "written", "returned"}
      <4>1. /\ call[x.owner].new = id /\ makers_pc[x.owner] \in {"write", "written", "returned"}
            /\ x.owner \in Callers
        BY <1>1, <3>1, <3>3, ProxyFacts
      <4>2. x.owner # t
        BY <1>2, <4>1
      <4> QED
        BY <1>3, <4>1, <4>2
    <3> QED
      BY <1>3, <3>2, <3>3
  <2> QED
    BY <2>1, <2>2
<1>12. Makers!IdsFit'
  <2>1. \A u \in Callers : (makers_pc'[u] = "create" => makers_pc[u] = "create") /\ (makers_pc'[u] = "write" <=> makers_pc[u] = "write")
    BY <1>2, <1>3
  <2>2. Makers!Written' = Makers!Written
    BY <1>2 DEF Makers!Written
  <2> QED
    BY <1>1, <1>2, <1>6, <2>1, <2>2 DEF Makers!IdsFit
<1>13. Makers!NewIdsInOrder' /\ Makers!EventsFit'
  <2>1. Makers!Written' = Makers!Written
    BY <1>2 DEF Makers!Written
  <2> QED
    BY <1>1, <1>2, <1>6, <2>1 DEF Makers!NewIdsInOrder, Makers!EventsFit
<1>14. Makers!DestroysFit'
  <2>1. \A u \in Callers : makers_pc'[u] = "written" <=> makers_pc[u] = "written"
    BY <1>2, <1>3
  <2> QED
    BY <1>1, <1>2, <1>6, <2>1 DEF Makers!DestroysFit
<1>15. \A u \in Callers : \A f \in Makers!Lying(u)' : f \in Makers!Lying(u) /\ u # t
  BY <1>4
<1>16. Makers!QueuesFit'
  <2>1. \A u \in Callers : makers_queue'[u] # None => Makers!Increasing(makers_queue'[u])
    BY <1>1, <1>3 DEF Makers!QueuesFit
  <2>2. ASSUME NEW u \in Callers, NEW f \in Makers!Lying(u)'
        PROVE  /\ f.n \in 1..makers_taken /\ f = makers_sent[f.n]
               /\ f.to \in Makers!Made /\ (makers_proxies'[f.to].destroyed \/ makers_proxies'[f.to].queue = u)
               /\ f.new # 0 => f.new \in Makers!Made /\ makers_proxies'[f.new] = Makers!NewProxy(u, None)
    <3>1. /\ f.n \in 1..makers_taken /\ f = makers_sent[f.n]
          /\ f.to \in Makers!Made /\ (makers_proxies[f.to].destroyed \/ makers_proxies[f.to].queue = u)
          /\ f.new # 0 => f.new \in Makers!Made /\ makers_proxies[f.new] = Makers!NewProxy(u, None)
      BY <1>1, <1>15 DEF Makers!QueuesFit
    <3>2. u # t
      BY <1>15
    <3>3. makers_proxies'[f.to].destroyed \/ makers_proxies'[f.to].queue = u
      BY <1>6, <3>1, <3>2
    <3> QED
      BY <1>9, <3>1, <3>2, <3>3
  <2> QED
    BY <1>2, <1>6, <2>1, <2>2 DEF Makers!QueuesFit, Makers!NewProxy
<1>17. Makers!HandledFit'
  BY <1>1, <1>2, <1>6, <1>15 DEF Makers!HandledFit
<1>18. Makers!HandledByOwner'
  <2>1. \A i \in DOMAIN makers_handled : makers_handled[i].event.to \in Makers!Made
    BY <1>1 DEF Makers!HandledFit
  <2> QED
    BY <1>1, <1>2, <1>6, <2>1 DEF Makers!HandledByOwner
<1>19. Makers!Followed'
  <2> SUFFICES ASSUME NEW id \in Makers!Made, Makers!Awaited(id)', makers_proxies'[id].queue # None, NEW k \in 1..makers_taken, makers_sent[k].to = id,
                      NEW u, makers_proxies'[id].queue = u
               PROVE  makers_sent[k] \in Makers!Lying(u)' \/ \E i \in DOMAIN makers_handled : makers_handled[i].event = makers_sent[k]
    BY <1>2, <1>6 DEF Makers!Followed
  <2>1. Makers!Awaited(id)
    BY <1>6, <1>15 DEF Makers!Awaited
  <2>2. makers_proxies[id].queue = u /\ u # t /\ u \in Callers
    BY <1>1, <1>6, ProxyFacts
  <2> QED
    BY <1>1, <1>4, <2>1, <2>2 DEF Makers!Followed
<1> QED
  BY <1>2, <1>8, <1>10, <1>11, <1>12, <1>13, <1>14, <1>16, <1>17, <1>18, <1>19 DEF Makers!Inv, Makers!AbortsOnlyForDiscarded

\* Nothing has been made when the program starts.
LEMMA MakersStart ==
  ASSUME Makers!ProxyQueuesAssumption, Makers!Init
  PROVE  Makers!Inv
<1>1. /\ Makers!Made = {} /\ Makers!Lying(Main) = {} /\ \A t \in Callers : Makers!Lying(t) = {} /\ makers_queue[t] = <<>> /\ <<>> # None
  <2>1. Makers!Made = {}
    BY DEF Makers!Init, Makers!Made
  <2>2. <<>> # None
    <3>1. <<>> \in Seq([n : Nat, to : Nat, new : Nat])
      OBVIOUS
    <3> QED
      BY <3>1 DEF Makers!ProxyQueuesAssumption
  <2>3. \A t \in Callers : makers_queue[t] = <<>>
    BY DEF Makers!Init
  <2>4. DOMAIN <<>> = {}
    OBVIOUS
  <2>5. Makers!ToSet(<<>>) = {}
    BY <2>4 DEF Makers!ToSet
  <2>6. Main \in Callers
    BY DEF Makers!ProxyQueuesAssumption
  <2>7. \A t \in Callers : Makers!Lying(t) = {}
    BY <2>2, <2>3, <2>5 DEF Makers!Lying
  <2> QED
    BY <2>1, <2>2, <2>3, <2>6, <2>7
<1>2. /\ \A i : i \notin DOMAIN makers_out /\ i \notin DOMAIN makers_sent /\ i \notin DOMAIN makers_handled
      /\ Len(makers_out) = 0 /\ Len(makers_sent) = 0
  BY DEF Makers!Init
<1>3. Makers!TypeOK
  <2>1. /\ mutex \in Callers \cup {None}
        /\ makers_pc \in [Callers -> {"idle", "create", "write", "written", "returned", "gone"}]
        /\ call \in [Callers -> [new : Nat, destroys : Nat, via : Callers \cup {None}]]
        /\ wrapper \in [Callers -> Callers \cup {None}]
    BY DEF Makers!Init, Makers!NoCall
  <2>2. /\ makers_proxies \in [Makers!Made -> [queue : Callers \cup {None}, owner : Callers \cup {None},
                                listener : BOOLEAN, destroyed : BOOLEAN]]
        /\ Makers!Made \subseteq 1..MaxMade \cup MakerIds
    BY <1>1 DEF Makers!Init, Makers!Made
  <2>3. /\ makers_out \in Seq([new : Nat, destroys : Nat, via : Callers \cup {None}]) /\ served \in 0..Len(makers_out)
        /\ makers_sent \in Seq(Makers!Events) /\ makers_taken \in 0..Len(makers_sent)
        /\ makers_handled \in Seq([event : Makers!Events, thread : Callers, afterDestroy : BOOLEAN])
    BY <1>2 DEF Makers!Init
  <2>4. makers_queue \in [Callers -> Seq(Makers!Events) \cup {None}]
    BY DEF Makers!Init
  <2>5. makers_last_error \in {"none", "EINVAL"} /\ aborted \in {"no", "queue", "wrapper"}
    BY DEF Makers!Init
  <2> QED
    BY <2>1, <2>2, <2>3, <2>4, <2>5 DEF Makers!TypeOK
<1>4. Makers!CallsFit
  BY <1>1 DEF Makers!Init, Makers!CallsFit, Makers!NoCall, Makers!ProxyQueuesAssumption
<1>5. Makers!ProxiesFit /\ Makers!Followed
  BY <1>1 DEF Makers!ProxiesFit, Makers!Followed
<1>6. Makers!IdsFit
  <2>1. 0 \in 0..MaxMade /\ Makers!Made \ MakerIds = 1..0
    BY <1>1 DEF Makers!ProxyQueuesAssumption
  <2>2. Makers!Written = {}
    BY <1>2 DEF Makers!Written
  <2> QED
    BY <1>1, <2>1, <2>2 DEF Makers!IdsFit, Makers!Init
<1>7. Makers!DestroysFit /\ Makers!EventsFit /\ Makers!HandledFit /\ Makers!NewIdsInOrder /\ Makers!HandledByOwner
  BY <1>1, <1>2 DEF Makers!DestroysFit, Makers!EventsFit, Makers!HandledFit, Makers!NewIdsInOrder, Makers!HandledByOwner
<1>8. Makers!QueuesFit
  BY <1>1 DEF Makers!QueuesFit, Makers!Increasing
<1> QED
  BY <1>3, <1>4, <1>5, <1>6, <1>7, <1>8 DEF Makers!Inv, Makers!AbortsOnlyForDiscarded, Makers!Init

\* What the invariant says of requests, queues and handlers.
LEMMA MakersGive ==
  ASSUME Makers!ProxyQueuesAssumption, Makers!Inv
  PROVE  Makers!NoEventMissed /\ Makers!QueuesExist /\ Makers!DestroyedWithRequest
<1>1. Makers!TypeOK /\ Makers!CallsFit /\ Makers!ProxiesFit /\ Makers!DestroysFit /\ Makers!EventsFit /\ Makers!HandledFit
  BY DEF Makers!Inv
<1>2. Makers!QueuesExist
  <2> SUFFICES ASSUME NEW p \in Makers!Made, makers_proxies[p].queue # None PROVE makers_queue[makers_proxies[p].queue] # None
    BY DEF Makers!QueuesExist
  <2>1. makers_proxies[p].queue \in Callers /\ makers_pc[makers_proxies[p].queue] # "gone"
    BY <1>1, ProxyFacts
  <2> QED
    BY <1>1, <2>1 DEF Makers!CallsFit
<1>3. Makers!DestroyedWithRequest
  <2> SUFFICES ASSUME mutex = None, NEW i \in DOMAIN makers_out, makers_out[i].destroys # 0
               PROVE  makers_proxies[makers_out[i].destroys].destroyed
    BY DEF Makers!DestroyedWithRequest
  <2>1. ASSUME NEW t \in Callers, makers_pc[t] = "written" PROVE FALSE
    <3>1. mutex = t
      BY <1>1, <2>1 DEF Makers!CallsFit
    <3> QED
      BY <3>1 DEF Makers!ProxyQueuesAssumption
  <2> QED
    BY <1>1, <2>1 DEF Makers!DestroysFit
<1>4. Makers!NoEventMissed
  <2> SUFFICES ASSUME NEW i \in DOMAIN makers_handled, NEW e, e = makers_handled[i].event
               PROVE  /\ e.n \in DOMAIN makers_sent /\ e = makers_sent[e.n]
                      /\ \A k \in DOMAIN makers_sent : makers_sent[k].to = e.to =>
                           (k < e.n <=> \E j \in 1..(i - 1) : makers_handled[j].event = makers_sent[k])
    BY DEF Makers!NoEventMissed
  <2>1. /\ makers_taken \in 0..Len(makers_sent) /\ Len(makers_sent) \in Nat /\ (\A k : k \in DOMAIN makers_sent <=> k \in 1..Len(makers_sent))
        /\ Len(makers_handled) \in Nat /\ \A j : j \in DOMAIN makers_handled <=> j \in 1..Len(makers_handled)
    BY <1>1 DEF Makers!TypeOK
  <2> DEFINE m == Len(makers_sent)
             l == Len(makers_handled)
  <2> HIDE DEF m, l
  <2>2. /\ makers_taken \in 0..m /\ m \in Nat /\ (\A k : k \in DOMAIN makers_sent <=> k \in 1..m)
        /\ l \in Nat /\ \A j : j \in DOMAIN makers_handled <=> j \in 1..l
    BY <2>1 DEF m, l
  <2>3. /\ e.n \in 1..makers_taken /\ e = makers_sent[e.n]
        /\ \A j \in 1..(i - 1) : makers_handled[j].event.to = e.to => makers_handled[j].event.n < e.n
        /\ \A k \in 1..(e.n - 1) : makers_sent[k].to = e.to => \E j \in DOMAIN makers_handled : makers_handled[j].event = makers_sent[k]
    BY <1>1 DEF Makers!HandledFit
  <2>4. e.n \in DOMAIN makers_sent /\ e.n \in Nat
    BY <2>2, <2>3
  <2>5. ASSUME NEW k \in DOMAIN makers_sent, makers_sent[k].to = e.to, k < e.n
        PROVE  \E j \in 1..(i - 1) : makers_handled[j].event = makers_sent[k]
    <3>1. k \in 1..(e.n - 1) /\ k \in Nat
      BY <2>2, <2>4, <2>5
    <3>2. PICK j \in DOMAIN makers_handled : makers_handled[j].event = makers_sent[k]
      BY <2>3, <2>5, <3>1
    <3>3. makers_sent[k].n = k
      BY <1>1 DEF Makers!EventsFit
    <3>4. j # i
      <4>1. k # e.n
        BY <2>4, <2>5, <3>1
      <4> QED
        BY <3>2, <3>3, <4>1
    <3>5. ASSUME i \in 1..(j - 1) PROVE FALSE
      <4>1. makers_handled[i].event.n < makers_handled[j].event.n
        BY <1>1, <2>5, <3>2, <3>5 DEF Makers!HandledFit
      <4>2. e.n < k
        BY <3>2, <3>3, <4>1
      <4> QED
        BY <2>4, <2>5, <3>1, <4>2
    <3>6. j \in 1..(i - 1)
      <4>1. j \in 1..l /\ i \in 1..l
        BY <2>2
      <4> QED
        BY <2>2, <3>4, <3>5, <4>1
    <3> QED
      BY <3>2, <3>6
  <2>6. ASSUME NEW k \in DOMAIN makers_sent, makers_sent[k].to = e.to, NEW j \in 1..(i - 1), makers_handled[j].event = makers_sent[k]
        PROVE  k < e.n
    <3>1. makers_sent[k].n = k
      BY <1>1 DEF Makers!EventsFit
    <3> QED
      BY <2>3, <2>6, <3>1
  <2> QED
    BY <2>3, <2>4, <2>5, <2>6
<1> QED
  BY <1>2, <1>3, <1>4

\* Every step keeps the invariant; so does one that changes nothing.
LEMMA MakersStep ==
  ASSUME Makers!ProxyQueuesAssumption, Makers!Inv, Makers!Next \/ UNCHANGED Makers!vars
  PROVE  Makers!Inv'
<1>1. CASE Makers!Next
  <2>1. aborted = "no"
    BY <1>1 DEF Makers!Next
  <2>2. ASSUME NEW t \in Callers, Makers!CreateWrapper(t) \/ Makers!DestroyWrapper(t) \/ Makers!ListenOnWrapper(t) PROVE Makers!Inv'
    BY <2>1, <2>2, WrapperSteps
  <2>3. ASSUME NEW t \in Callers, Makers!MarshalNew(t) \/ \E p \in Makers!Made : Makers!MarshalDestroy(t, p) PROVE Makers!Inv'
    BY <2>1, <2>3, MarshalSteps
  <2>4. ASSUME NEW t \in Callers, Makers!CreateOutgoing(t) PROVE Makers!Inv'
    BY <2>1, <2>4, CreateStep
  <2>5. ASSUME NEW t \in Callers, Makers!Write(t) PROVE Makers!Inv'
    BY <2>1, <2>5, WriteStep
  <2>6. ASSUME NEW t \in Callers, Makers!Finish(t) \/ Makers!AddListener(t) PROVE Makers!Inv'
    BY <2>1, <2>6, ReturnSteps
  <2>7. ASSUME NEW t \in Callers, Makers!Dispatch(t) PROVE Makers!Inv'
    BY <2>1, <2>7, DispatchStep
  <2>8. ASSUME NEW t \in Callers, Makers!DestroyQueue(t) PROVE Makers!Inv'
    BY <2>1, <2>8, DestroyStep
  <2>9. ASSUME Makers!Serve PROVE Makers!Inv'
    <3>1. Main \in Callers
      BY DEF Makers!ProxyQueuesAssumption
    <3> QED
      BY <2>1, <2>9, <3>1, WrapperSteps
  <2>10. ASSUME Makers!ReadEvent PROVE Makers!Inv'
    BY <2>1, <2>10, ReadStep
  <2>11. ASSUME NEW p \in Makers!Objects, NEW new \in MakerIds \cup {0}, Makers!Send(p, new) PROVE Makers!Inv'
    BY <2>1, <2>11, SendStep
  <2> QED
    BY <1>1, <2>2, <2>3, <2>4, <2>5, <2>6, <2>7, <2>8, <2>9, <2>10, <2>11 DEF Makers!Next
<1>2. CASE UNCHANGED Makers!vars
  <2>1. UNCHANGED <<mutex, makers_pc, call, wrapper, makers_proxies, makers_queue, makers_out, served, makers_sent, makers_taken, makers_handled, makers_last_error, aborted>>
    BY <1>2 DEF Makers!vars, Makers!requests, Makers!wire
  <2>2. \A t \in Callers : Makers!Lying(t)' = Makers!Lying(t)
    BY <2>1 DEF Makers!Lying
  <2>3. Makers!Made' = Makers!Made /\ Makers!Written' = Makers!Written
    BY <2>1 DEF Makers!Made, Makers!Written
  <2>4. Makers!TypeOK' /\ Makers!CallsFit' /\ Makers!ProxiesFit'
    BY <2>1, <2>3 DEF Makers!Inv, Makers!TypeOK, Makers!CallsFit, Makers!ProxiesFit, Makers!NewProxy
  <2>8. Makers!IdsFit' /\ Makers!DestroysFit' /\ Makers!EventsFit' /\ Makers!NewIdsInOrder'
    BY <2>1, <2>3 DEF Makers!Inv, Makers!IdsFit, Makers!DestroysFit, Makers!EventsFit, Makers!NewIdsInOrder
  <2>9. Makers!HandledByOwner' /\ Makers!AbortsOnlyForDiscarded'
    BY <2>1, <2>3 DEF Makers!Inv, Makers!HandledByOwner, Makers!AbortsOnlyForDiscarded, Makers!Discarded
  <2>5. Makers!QueuesFit'
    BY <2>1, <2>2, <2>3 DEF Makers!Inv, Makers!QueuesFit, Makers!Increasing, Makers!NewProxy
  <2>7. Makers!HandledFit'
    BY <2>1, <2>2, <2>3 DEF Makers!Inv, Makers!HandledFit
  <2>6. Makers!Followed'
    <3>1. \A p \in Makers!Made : Makers!Awaited(p)' => Makers!Awaited(p)
      BY <2>1, <2>2 DEF Makers!Awaited
    <3>2. \A p \in Makers!Made : Makers!Lying(makers_proxies[p].queue)' = Makers!Lying(makers_proxies[p].queue)
      BY <2>1 DEF Makers!Lying
    <3> QED
      BY <2>1, <2>3, <3>1, <3>2 DEF Makers!Inv, Makers!Followed
  <2> QED
    BY <2>4, <2>5, <2>6, <2>7, <2>8, <2>9 DEF Makers!Inv
<1> QED
  BY <1>1, <1>2

\* However many threads make, use and destroy objects through their own queues, whatever
\* the compositor sends and wherever the connection fails: ids go out in order, an object
\* dies with its request, its events reach its owner's thread all and in order, and no
\* event goes to a queue that is gone; and a roundtrip's answer comes to a listener,
\* after what was sent before, for every number of threads, objects and events.
THEOREM ThreadsHold == Spec => []ThreadsSound
<1> DEFINE Both == Makers!Inv /\ TripInv
<1>1. Makers!ProxyQueuesAssumption /\ Trips!RoundtripAssumption
  BY MCClientAssumption
<1>2. Init => Both
  <2> SUFFICES ASSUME Init PROVE Both
    OBVIOUS
  <2>1. Makers!Init /\ Trips!Init
    BY DEF Init
  <2> QED
    BY <1>1, <2>1, MakersStart, TripsStart
<1>3. Both /\ [Next]_vars => Both'
  <2> SUFFICES ASSUME Both, [Next]_vars
               PROVE  Both'
    OBVIOUS
  <2>1. Next \/ UNCHANGED vars => Makers!Next \/ UNCHANGED makersVars
    BY DEF Next, Only, vars
  <2>2. Next \/ UNCHANGED vars => Trips!Next \/ UNCHANGED tripsVars
    BY DEF Next, Only, vars
  <2>3. UNCHANGED makersVars => UNCHANGED Makers!vars
    BY DEF makersVars, Makers!vars, Makers!requests, Makers!wire
  <2>4. UNCHANGED tripsVars => UNCHANGED Trips!vars
    BY DEF tripsVars, Trips!vars, Trips!proxies
  <2>5. Makers!Inv'
    BY <1>1, <2>1, <2>3, MakersStep
  <2>6. TripInv'
    BY <1>1, <2>2, <2>4, TripsStep
  <2> QED
    BY <2>5, <2>6
<1>4. Both => ThreadsSound
  <2> SUFFICES ASSUME Both PROVE ThreadsSound
    OBVIOUS
  <2>1. Makers!NoEventMissed /\ Makers!QueuesExist /\ Makers!DestroyedWithRequest
    BY <1>1, MakersGive
  <2>2. Trips!Inv
    BY <1>1, TripsGive DEF TripInv, Trips!Inv
  <2> QED
    BY <2>1, <2>2 DEF ThreadsSound
<1> QED
  BY <1>2, <1>3, <1>4, PTL DEF Spec
------------------------------------------------------------------------------
(* Proofs: the life of objects, of which ProxyLife proves the invariant *)

\* The suite runs objects of the client, or not at all.
LEMMA LifePart == Spec => [](part = "life" => Life!Inv)
<1>1. Init /\ part = "life" => Life!Init
  BY DEF Init
<1>2. part = "life" /\ [Next]_vars => [Life!Next]_(Life!vars) /\ (part = "life")'
  BY DEF Next, Only, vars, Life!vars, Life!server, lifeVars
<1>3. ~(part = "life") /\ [Next]_vars => (~(part = "life"))'
  BY DEF Next, Only, vars
<1>4. Life!Init /\ [][Life!Next]_(Life!vars) => []Life!Inv
  BY Life!InvAlways, MCClientAssumption DEF MCClientAssumption
<1> QED
  BY <1>1, <1>2, <1>3, <1>4, PTL DEF Spec

\* The suite runs objects of the client and of the compositor, or not at all.
LEMMA ServedPart == Spec => [](part = "served" => Served!Inv)
<1>1. Init /\ part = "served" => Served!Init
  BY DEF Init
<1>2. part = "served" /\ [Next]_vars => [Served!Next]_(Served!vars) /\ (part = "served")'
  BY DEF Next, Only, vars, Served!vars, Served!server, lifeVars
<1>3. ~(part = "served") /\ [Next]_vars => (~(part = "served"))'
  BY DEF Next, Only, vars
<1>4. Served!Init /\ [][Served!Next]_(Served!vars) => []Served!Inv
  BY Served!InvAlways, MCClientAssumption DEF MCClientAssumption
<1> QED
  BY <1>1, <1>2, <1>3, <1>4, PTL DEF Spec

\* The suite runs objects of which an id is used again, or not at all.
LEMMA ReusedPart == Spec => [](part = "reused" => Reused!Inv)
<1>1. Init /\ part = "reused" => Reused!Init
  BY DEF Init
<1>2. part = "reused" /\ [Next]_vars => [Reused!Next]_(Reused!vars) /\ (part = "reused")'
  BY DEF Next, Only, vars, Reused!vars, Reused!server, lifeVars
<1>3. ~(part = "reused") /\ [Next]_vars => (~(part = "reused"))'
  BY DEF Next, Only, vars
<1>4. Reused!Init /\ [][Reused!Next]_(Reused!vars) => []Reused!Inv
  BY Reused!InvAlways, MCClientAssumption DEF MCClientAssumption
<1> QED
  BY <1>1, <1>2, <1>3, <1>4, PTL DEF Spec

\* However requests, events and destructions cross, no proxy is used after it was freed,
\* events reach the objects that they mean, and free ids are unknown to the compositor.
THEOREM ObjectsHold == Spec => []ObjectsSound
<1>1. part = "life" /\ Life!Inv =>
        /\ Life!TypeOK /\ Life!NoUseAfterFree /\ Life!EventsReachTheirObject
        /\ Life!FreeIdsUnknown /\ Life!FdsFollowEvents /\ Life!ConnectionSurvives
  BY Life!InvGives, MCClientAssumption DEF MCClientAssumption
<1>2. part = "served" /\ Served!Inv =>
        Served!NoUseAfterFree /\ Served!EventsReachTheirObject /\ Served!FreeIdsUnknown
  BY Served!InvGives, MCClientAssumption DEF MCClientAssumption
<1>3. (part = "life" => Life!Inv) /\ (part = "served" => Served!Inv) => ObjectsSound
  BY <1>1, <1>2, Zenon DEF ObjectsSound
<1> QED
  BY <1>3, LifePart, ServedPart, PTL

\* No part calls a handler for an object that is gone.
LEMMA HandlersStep == Spec => Life!HandlersGetLiveObjects
<1> DEFINE Live == running' \notin {Life!Nothing, running} =>
                     \A i \in DOMAIN Life!Held(running') : ~life_proxies[Life!Held(running')[i]].destroyed
<1>1. /\ \A c : Served!Held(c) = Life!Held(c) /\ Reused!Held(c) = Life!Held(c)
      /\ Served!Nothing = Life!Nothing /\ Reused!Nothing = Life!Nothing
  BY Zenon DEF Served!Held, Reused!Held, Life!Held, Served!Nothing, Reused!Nothing, Life!Nothing,
    Served!NoObject, Reused!NoObject, Life!NoObject, Served!Object, Reused!Object, Life!Object
<1>2. ASSUME part = "life", Life!Inv, Next PROVE Live
  <2>1. Life!Next
    BY <1>2 DEF Next, Only
  <2> QED
    BY <1>2, <2>1, Life!StepGives
<1>3. ASSUME part = "served", Served!Inv, Next PROVE Live
  <2>1. Served!Next
    BY <1>3 DEF Next, Only
  <2>2. running' \notin {Served!Nothing, running} =>
          \A i \in DOMAIN Served!Held(running') : ~life_proxies[Served!Held(running')[i]].destroyed
    BY <1>3, <2>1, Served!StepGives
  <2> QED
    BY <1>1, <2>2
<1>4. ASSUME part = "reused", Reused!Inv, Next PROVE Live
  <2>1. Reused!Next
    BY <1>4 DEF Next, Only
  <2>2. running' \notin {Reused!Nothing, running} =>
          \A i \in DOMAIN Reused!Held(running') : ~life_proxies[Reused!Held(running')[i]].destroyed
    BY <1>4, <2>1, Reused!StepGives
  <2> QED
    BY <1>1, <2>2
<1>5. (part \notin {"life", "served", "reused"} /\ Next) \/ UNCHANGED vars => UNCHANGED Life!vars
  BY DEF Next, Only, vars, lifeVars, Life!vars, Life!server
<1> HIDE DEF Live
<1>6. /\ part = "life" => Life!Inv
      /\ part = "served" => Served!Inv
      /\ part = "reused" => Reused!Inv
      /\ [Next]_vars
      => [Live]_(Life!vars)
  BY <1>2, <1>3, <1>4, <1>5
<1> QED
  BY <1>6, LifePart, ServedPart, ReusedPart, PTL DEF Spec, Live, Life!HandlersGetLiveObjects

(* Proofs: what the steps of the client never do *)

\* At first the file that the process was given is nobody's.
LEMMA MarkedAtFirst == ASSUME Sockets!ClientSocketAssumption, Sockets!Init PROVE Sockets!MarkedInTime
<1>1. /\ files = [n \in Sockets!Fds |-> IF n = 0 /\ WAYLAND_SOCKET = 0 THEN Sockets!File("given", 0) ELSE Sockets!Closed]
      /\ sockets_pc = "idle" /\ displays = {}
  BY DEF Sockets!Init
<1>2. Sockets!File("given", 0).kind = "given" /\ Sockets!Closed.kind = "none"
  BY DEF Sockets!File, Sockets!Closed
<1> QED
  BY <1>1, <1>2 DEF Sockets!MarkedInTime, Sockets!Holding

\* A file that is opened is marked, and one that is closed is no display's.
LEMMA MarkedStays ==
  ASSUME Sockets!Inv, Sockets!SocketsOwned', Sockets!MarkedInTime, NEW m, NEW file,
         files' = [files EXCEPT ![m] = file],
         file = Sockets!Closed \/ (file.cloexec /\ file.kind # "given"),
         file = Sockets!Closed => (Sockets!Holding' => fd' # m) /\ \A d \in displays' : d.fd # m,
         (Sockets!Holding' /\ fd' # m) => Sockets!Holding /\ fd' = fd,
         displays' \subseteq displays
  PROVE  Sockets!MarkedInTime'
<1>1. /\ files \in [Sockets!Fds -> FileSet] /\ Sockets!Closed.kind = "none"
      /\ \A d \in displays : d.fd \in Sockets!Fds
  BY DEF Sockets!Inv, Sockets!TypeOK, FileSet, Sockets!Closed
<1>2. \A n \in Sockets!Fds : files'[n] = IF n = m THEN file ELSE files[n]
  BY <1>1
<1>3. ASSUME NEW n \in Sockets!Fds
      PROVE  /\ files'[n] # Sockets!Closed /\ ~files'[n].cloexec => files'[n].kind = "given"
             /\ files'[n].kind = "given" => n = 0
  <2>1. CASE n = m
    BY <1>1, <1>2, <2>1
  <2>2. CASE n # m
    BY <1>2, <2>2 DEF Sockets!MarkedInTime
  <2> QED
    BY <2>1, <2>2
<1>4. ASSUME Sockets!Holding' PROVE files'[fd'].cloexec
  <2>1. CASE fd' = m
    <3>1. m \in Sockets!Fds
      BY <1>4, <2>1 DEF Sockets!SocketsOwned
    <3>2. files'[fd'] = file
      BY <1>2, <2>1, <3>1
    <3>3. file # Sockets!Closed
      BY <1>4, <2>1
    <3> QED
      BY <3>2, <3>3
  <2>2. CASE fd' # m
    <3>1. fd \in Sockets!Fds /\ files[fd].cloexec
      BY <1>4, <2>2 DEF Sockets!MarkedInTime, Sockets!Inv, Sockets!SocketsOwned
    <3> QED
      BY <1>2, <1>4, <2>2, <3>1
  <2> QED
    BY <2>1, <2>2
<1>5. ASSUME NEW d \in displays' PROVE files'[d.fd].cloexec
  <2>1. d \in displays /\ d.fd \in Sockets!Fds /\ files[d.fd].cloexec
    BY <1>1 DEF Sockets!MarkedInTime
  <2> QED
    BY <1>2, <2>1
<1> QED
  BY <1>3, <1>4, <1>5 DEF Sockets!MarkedInTime, Sockets!Closed

\* Every step leaves what wl_display_connect() holds, and what displays have, marked.
LEMMA MarkedStep ==
  ASSUME Sockets!Inv, Sockets!Inv', Sockets!MarkedInTime, Sockets!Next \/ UNCHANGED socketsVars
  PROVE  Sockets!MarkedInTime'
<1>1. /\ Sockets!TypeOK /\ Sockets!SocketsOwned /\ Sockets!SocketsOwned'
      /\ Sockets!DisplaysHaveSockets /\ Sockets!OthersKeepFiles
  BY DEF Sockets!Inv
<1>2. /\ files \in [Sockets!Fds -> FileSet]
      /\ \A d \in displays : d.fd \in Sockets!Fds
      /\ \A d \in displays : <<files[d.fd].kind, files[d.fd].i>> = d.file /\ d.file[1] # "other"
      /\ \A d, e \in displays : d # e => d.fd # e.fd
      /\ \A f \in others : <<files[f.fd].kind, files[f.fd].i>> = f.file /\ f.file[1] = "other"
  BY <1>1 DEF Sockets!TypeOK, FileSet, Sockets!DisplaysHaveSockets, Sockets!OthersKeepFiles, Sockets!Name
<1>3. \A d \in displays, f \in others : d.fd # f.fd
  BY <1>2
<1>4. \A f \in others : files[f.fd].kind = "other"
  BY <1>2
<1>5. CASE UNCHANGED <<files, displays>> /\ (Sockets!Holding' => Sockets!Holding /\ fd' = fd)
  BY <1>5 DEF Sockets!MarkedInTime, Sockets!Closed
<1>6. CASE Sockets!Connect
  BY <1>5, <1>6 DEF Sockets!Connect, Sockets!Holding
<1>7. CASE Sockets!CheckFd
  <2>1. CASE files[fd] = Sockets!Closed
    BY <1>5, <1>7, <2>1 DEF Sockets!CheckFd, Sockets!Holding
  <2>2. CASE files[fd] # Sockets!Closed
    <3>1. /\ sockets_pc = "given" /\ fd \in Sockets!Fds /\ fd' = fd /\ displays' = displays
          /\ files' = [files EXCEPT ![fd] = Sockets!SetCloexec(@)]
      BY <1>1, <1>7, <2>2 DEF Sockets!CheckFd, Sockets!SocketsOwned
    <3>2. PICK file : file = Sockets!SetCloexec(files[fd])
      OBVIOUS
    <3>3. file.cloexec /\ file.kind = files[fd].kind
      BY <1>2, <3>1, <3>2 DEF Sockets!SetCloexec, FileSet
    <3>4. \A n \in Sockets!Fds : files'[n] = IF n = fd THEN file ELSE files[n]
      BY <1>2, <3>1, <3>2
    <3> QED
      BY <1>2, <3>1, <3>3, <3>4 DEF Sockets!MarkedInTime, Sockets!Closed
  <2> QED
    BY <2>1, <2>2
<1>8. CASE Sockets!UnsetEnv
  BY <1>5, <1>8 DEF Sockets!UnsetEnv, Sockets!Holding
<1>9. \A k, i : /\ Sockets!File(k, i).kind = k
                /\ k # "given" => Sockets!File(k, i).cloexec
                /\ k # "none" => Sockets!File(k, i) # Sockets!Closed
  BY DEF Sockets!File, Sockets!Closed
<1>10. CASE Sockets!MakeSocket
  <2>1. CASE sockets_pc' = "idle" /\ UNCHANGED <<files, fd>>
    BY <1>5, <1>10, <2>1 DEF Sockets!MakeSocket, Sockets!Holding
  <2>2. PICK m, file : m = Sockets!NextFd /\ file = Sockets!File("socket", count)
    OBVIOUS
  <2>3. CASE fd' = m /\ files' = [files EXCEPT ![m] = file]
    <3>1. displays' = displays /\ file.cloexec /\ file.kind = "socket" /\ file # Sockets!Closed
      BY <1>9, <1>10, <2>2 DEF Sockets!MakeSocket
    <3> QED
      BY <1>1, <2>3, <3>1, MarkedStays
  <2> QED
    BY <1>10, <2>1, <2>2, <2>3 DEF Sockets!MakeSocket
<1>11. CASE Sockets!ConnectSocket
  <2>1. CASE UNCHANGED files
    BY <1>5, <1>11, <2>1 DEF Sockets!ConnectSocket, Sockets!Holding
  <2>2. CASE sockets_pc' = "idle" /\ files' = Sockets!Close(fd)
    <3>1. displays' = displays /\ \A d \in displays : d.fd # fd
      BY <1>1, <1>11 DEF Sockets!ConnectSocket, Sockets!SocketsOwned, Sockets!Holding
    <3>2. files' = [files EXCEPT ![fd] = Sockets!Closed] /\ ~Sockets!Holding'
      BY <2>2 DEF Sockets!Close, Sockets!Holding
    <3> QED
      BY <1>1, <3>1, <3>2, MarkedStays
  <2> QED
    BY <1>11, <2>1, <2>2 DEF Sockets!ConnectSocket
<1>12. CASE Sockets!ConnectToFd
  <2>1. sockets_pc = "display" /\ Sockets!Holding /\ ~Sockets!Holding' /\ (\A d \in displays : d.fd # fd)
    BY <1>1, <1>12 DEF Sockets!ConnectToFd, Sockets!SocketsOwned, Sockets!Holding
  <2>2. CASE displays' = displays \cup {[fd |-> fd, file |-> Sockets!Name(files[fd])]} /\ UNCHANGED files
    BY <2>1, <2>2 DEF Sockets!MarkedInTime, Sockets!Closed
  <2>3. CASE files' = Sockets!Close(fd) /\ UNCHANGED displays
    BY <1>1, <2>1, <2>3, MarkedStays DEF Sockets!Close
  <2> QED
    BY <1>12, <2>2, <2>3 DEF Sockets!ConnectToFd
<1>13. ASSUME NEW d \in displays, Sockets!Disconnect(d) PROVE Sockets!MarkedInTime'
  <2>1. /\ displays' = displays \ {d} /\ files' = [files EXCEPT ![d.fd] = Sockets!Closed]
        /\ ~Sockets!Holding'
    BY <1>13 DEF Sockets!Disconnect, Sockets!Hung, Sockets!Close, Sockets!conn, Sockets!Holding
  <2>2. \A e \in displays' : e.fd # d.fd
    BY <1>2, <2>1
  <2>3. displays' \subseteq displays
    BY <2>1
  <2> HIDE <1>13
  <2> QED
    BY <1>1, <2>1, <2>2, <2>3, MarkedStays
<1>14. CASE Sockets!OtherOpen
  <2>1. PICK m, file : m = Sockets!NextFd /\ file = Sockets!File("other", opened + 1)
    OBVIOUS
  <2>2. /\ files' = [files EXCEPT ![m] = file] /\ UNCHANGED <<displays, sockets_pc, fd>>
        /\ file.cloexec /\ file.kind = "other" /\ file # Sockets!Closed
    BY <1>9, <1>14, <2>1 DEF Sockets!OtherOpen, Sockets!conn
  <2> QED
    BY <1>1, <2>2, MarkedStays DEF Sockets!Holding
<1>15. CASE Sockets!Start
  BY <1>5, <1>15 DEF Sockets!Start, Sockets!conn, Sockets!Holding
<1>16. ASSUME NEW f \in others, Sockets!OtherClose(f) PROVE Sockets!MarkedInTime'
  <2>1. /\ files' = [files EXCEPT ![f.fd] = Sockets!Closed] /\ UNCHANGED <<displays, sockets_pc, fd>>
    BY <1>16 DEF Sockets!OtherClose, Sockets!Close, Sockets!conn
  <2>2. Sockets!Holding => files[fd].kind \in {"given", "socket"}
    BY <1>1 DEF Sockets!SocketsOwned
  <2>3. Sockets!Holding => fd # f.fd
    BY <1>4, <2>2
  <2> QED
    BY <1>1, <1>3, <2>1, <2>3, MarkedStays DEF Sockets!Holding
<1>17. CASE UNCHANGED socketsVars
  BY <1>5, <1>17 DEF socketsVars, Sockets!Holding
<1> QED
  BY <1>6, <1>7, <1>8, <1>10, <1>11, <1>12, <1>13, <1>14, <1>15, <1>16, <1>17 DEF Sockets!Next

\* What a program gets that is started is no display's.
LEMMA StartSpares ==
  ASSUME Sockets!Inv, Sockets!MarkedInTime, Sockets!Next
  PROVE  \A d \in displays : d.file \in inherited' => d.file \in inherited
<1>1. CASE UNCHANGED inherited
  BY <1>1
<1>2. CASE Sockets!Start
  <2> SUFFICES ASSUME NEW d \in displays, d.file \in inherited', d.file \notin inherited PROVE FALSE
    OBVIOUS
  <2>1. PICK g \in Sockets!Range(files) : g # Sockets!Closed /\ ~g.cloexec /\ d.file = Sockets!Name(g)
    BY <1>2 DEF Sockets!Start
  <2>2. PICK m \in Sockets!Fds : g = files[m]
    BY <2>1 DEF Sockets!Range, Sockets!Inv, Sockets!TypeOK
  <2>3. g.kind = "given" /\ m = 0
    BY <2>1, <2>2 DEF Sockets!MarkedInTime
  <2>4. d.fd \in Sockets!Fds /\ Sockets!Name(files[d.fd]) = d.file
    BY DEF Sockets!Inv, Sockets!TypeOK, Sockets!DisplaysHaveSockets
  <2>5. files[d.fd].kind = g.kind
    BY <2>1, <2>4 DEF Sockets!Name
  <2>6. d.fd = 0 /\ files[d.fd].cloexec
    BY <2>3, <2>4, <2>5 DEF Sockets!MarkedInTime
  <2> QED
    BY <2>1, <2>2, <2>3, <2>6
<1> QED
  BY <1>1, <1>2 DEF Sockets!Next, Sockets!Connect, Sockets!CheckFd, Sockets!UnsetEnv, Sockets!MakeSocket,
    Sockets!ConnectSocket, Sockets!ConnectToFd, Sockets!Disconnect, Sockets!OtherOpen, Sockets!OtherClose

\* Only write of wl_closure_send() adds to what goes out, and it looks for the error first.
LEMMA NoneAfterError ==
  ASSUME Makers!Next, makers_last_error # "none" PROVE makers_out' = makers_out
<1>1. ASSUME NEW t \in Callers, Makers!Write(t) PROVE makers_out' = makers_out
  BY <1>1 DEF Makers!Write, Makers!MaySend
<1>2. ASSUME NEW t \in Callers,
             \/ Makers!CreateWrapper(t) \/ Makers!DestroyWrapper(t) \/ Makers!ListenOnWrapper(t)
             \/ Makers!MarshalNew(t) \/ Makers!CreateOutgoing(t) \/ Makers!Finish(t) \/ Makers!AddListener(t)
             \/ \E p \in Makers!Made : Makers!MarshalDestroy(t, p)
      PROVE  makers_out' = makers_out
  BY <1>2 DEF Makers!CreateWrapper, Makers!DestroyWrapper, Makers!ListenOnWrapper, Makers!MarshalNew,
    Makers!CreateOutgoing, Makers!Finish, Makers!AddListener, Makers!MarshalDestroy, Makers!wire
<1>3. ASSUME NEW t \in Callers, Makers!Dispatch(t) \/ Makers!DestroyQueue(t) PROVE makers_out' = makers_out
  BY <1>3 DEF Makers!Dispatch, Makers!DestroyQueue, Makers!wire
<1>4. ASSUME Makers!Serve \/ Makers!ReadEvent PROVE makers_out' = makers_out
  BY <1>4 DEF Makers!Serve, Makers!ReadEvent
<1>5. ASSUME NEW p, NEW new, Makers!Send(p, new) PROVE makers_out' = makers_out
  BY <1>5 DEF Makers!Send
<1> QED
  BY <1>1, <1>2, <1>3, <1>4, <1>5 DEF Makers!Next

\* A program that is started gets the socket of no display, whatever fails and whatever
\* the process opens and closes meanwhile.
LEMMA NoneInherited == Spec => Sockets!NotInherited
<1> DEFINE Both == Sockets!Inv /\ Sockets!MarkedInTime
<1>1. Sockets!ClientSocketAssumption
  BY MCClientAssumption
<1>2. Init => Both
  BY <1>1, SocketsRun, SocketsStart, MarkedAtFirst
<1>3. Both /\ [Next]_vars => Both'
  <2>1. Sockets!Inv /\ [Next]_vars => Sockets!Inv'
    BY <1>1, SocketsRun, SocketsStep, SocketsStay
  <2> QED
    BY <2>1, SocketsRun, MarkedStep
<1>4. Both /\ [Next]_vars =>
        [\A d \in displays : d.file \in inherited' => d.file \in inherited]_(Sockets!vars)
  <2>1. UNCHANGED socketsVars => UNCHANGED Sockets!vars
    BY DEF socketsVars, Sockets!vars, Sockets!conn
  <2> QED
    BY <2>1, SocketsRun, StartSpares
<1> QED
  BY <1>2, <1>3, <1>4, PTL DEF Spec, Sockets!NotInherited

\* No handler starts for an object that is destroyed, no request leaves after the display's
\* error, and no program inherits the socket of a display, for every number of threads,
\* objects, files and connections.
THEOREM ClientStepsHold == Spec => ClientSteps
<1>1. [Next]_vars => [makers_last_error # "none" => makers_out' = makers_out]_(Makers!vars)
  <2>1. [Next]_vars => Makers!Next \/ UNCHANGED Makers!vars
    BY DEF Next, Only, vars, makersVars, Makers!vars, Makers!requests, Makers!wire
  <2> QED
    BY <2>1, NoneAfterError
<1> QED
  BY <1>1, HandlersStep, NoneInherited, PTL DEF Spec, ClientSteps, Makers!NothingAfterError
==================================================================================
