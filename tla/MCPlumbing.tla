--------------------------------- MODULE MCPlumbing ---------------------------------
(***************************************************************************)
(* What both sides of libwayland are built from: ring buffers and the      *)
(* connection, closures, signals, the map of objects, timers and the event *)
(* loop.  One of the components runs in a behaviour.                       *)
(***************************************************************************)
EXTENDS Integers, Sequences, TLC

CONSTANTS l1, l2, l3, t1, t2, t3, None, NoValue, Lost, Timer, f1, f2, s1, s2, i1

VARIABLES
  part,    \* the component that runs in this behaviour
  ring, max_size_bits, ring_next,
  out, fds_out, want_flush, stage, writing, sent, socket, closed, in, fds_in,
  got, bytes_status,
  step, signature, args, closure, message, passed, received, open, handled,
  list, signal_calls,
  listener_list, emit_list, private_calls, final, freed,
  made_map, made_mail, made_deleted, made_refused,
  given_map, given_mail, given_deleted, given_refused,
  schedule_now, schedule_data, schedule_active, schedule_count, schedule_space,
  schedule_heap_idx, schedule_deadline, schedule_next_due, schedule_list_cursor,
  schedule_status, schedule_timerfd, schedule_calling,
  alarms_now, alarms_data, alarms_active, alarms_count, alarms_space,
  alarms_heap_idx, alarms_deadline, alarms_next_due, alarms_list_cursor,
  alarms_status, alarms_timerfd, alarms_calling,
  loop_pc, loop_source, loop_check_list, loop_idle_list, loop_batch,
  loop_callee, loop_next, loop_recheck, loop_input, loop_pending, loop_backlog,
  loop_effects,
  heard_pc, heard_source, heard_check_list, heard_idle_list, heard_batch,
  heard_callee, heard_next, heard_recheck, heard_input, heard_pending,
  heard_backlog, heard_effects,
  clock, begin, asked, end, timeout, signals, timeout_pc

ringVars == <<ring, max_size_bits, ring_next>>
bytesVars == <<out, fds_out, want_flush, stage, writing, sent, socket, closed,
  in, fds_in, got, bytes_status>>
callsVars == <<step, signature, args, closure, message, passed, received, open,
  handled>>
signalVars == <<list, signal_calls>>
privateVars == <<listener_list, emit_list, private_calls, final, freed>>
madeVars == <<made_map, made_mail, made_deleted, made_refused>>
givenVars == <<given_map, given_mail, given_deleted, given_refused>>
scheduleVars == <<schedule_now, schedule_data, schedule_active, schedule_count,
  schedule_space, schedule_heap_idx, schedule_deadline, schedule_next_due,
  schedule_list_cursor, schedule_status, schedule_timerfd, schedule_calling>>
alarmsVars == <<alarms_now, alarms_data, alarms_active, alarms_count,
  alarms_space, alarms_heap_idx, alarms_deadline, alarms_next_due,
  alarms_list_cursor, alarms_status, alarms_timerfd, alarms_calling>>
loopVars == <<loop_pc, loop_source, loop_check_list, loop_idle_list, loop_batch,
  loop_callee, loop_next, loop_recheck, loop_input, loop_pending, loop_backlog,
  loop_effects>>
heardVars == <<heard_pc, heard_source, heard_check_list, heard_idle_list,
  heard_batch, heard_callee, heard_next, heard_recheck, heard_input,
  heard_pending, heard_backlog, heard_effects>>
timeoutVars == <<clock, begin, asked, end, timeout, signals, timeout_pc>>

\* A message with two descriptors, or one; and one that fills the socket.
Long == {[len |-> 2, fds |-> 2], [len |-> 4, fds |-> 0]}
Short == {[len |-> 2, fds |-> 1], [len |-> 4, fds |-> 0]}

Arg(t) == [type |-> t, nullable |-> FALSE]
Maybe(t) == [type |-> t, nullable |-> TRUE]

Signatures ==
  {<<Maybe("s"), Arg("u")>>, <<Arg("h"), Arg("s"), Arg("h")>>, <<Arg("a"), Maybe("o")>>,
   <<Arg("n"), Arg("h"), Arg("o")>>, <<Arg("a"), Arg("s")>>}

Ring == INSTANCE RingBuffer WITH
  next <- ring_next, WordBits <- 5, DefaultBits <- 1, MaxBits <- {0, 2},
  Counts <- {1, 3}, Values <- 5, Bound <- 8
Bytes == INSTANCE Transport WITH
  status <- bytes_status, Messages <- Long, Chunk <- 1, Room <- 4, MaxFdsOut <- 3,
  DefaultBits <- 2, MaxSent <- 3
Pairs == INSTANCE Transport WITH
  status <- bytes_status, Messages <- Short, Chunk <- 2, Room <- 4, MaxFdsOut <- 3,
  DefaultBits <- 2, MaxSent <- 3
Calls == INSTANCE Closure WITH
  Signatures <- Signatures, WordBytes <- 2, ByteValues <- 2, SizeWords <- 32,
  NULL <- NoValue, BadSizes <- {0, 3, 4, 5, 6, 7, 8, 10},
  BadBodies <- UNION {[1..n -> 0..3] : n \in 0..3}
Signal == INSTANCE MutableSignal WITH
  calls <- signal_calls, Listeners <- {l1, l2, l3}, MaxDepth <- 3
Private == INSTANCE PrivSignal WITH
  calls <- private_calls, Listeners <- {l1, l2, l3}, MaxDepth <- 1
Made == INSTANCE ObjectMap WITH
  map <- made_map, mail <- made_mail, deleted <- made_deleted,
  refused <- made_refused, MAX_OBJECTS <- 4, Creators <- {"client"}, Bound <- 3
Given == INSTANCE ObjectMap WITH
  map <- given_map, mail <- given_mail, deleted <- given_deleted,
  refused <- given_refused, MAX_OBJECTS <- 3, Creators <- {"server"}, Bound <- 3
Schedule == INSTANCE TimerHeap WITH
  now <- schedule_now, data <- schedule_data, active <- schedule_active,
  count <- schedule_count, space <- schedule_space, heap_idx <- schedule_heap_idx,
  deadline <- schedule_deadline, next_due <- schedule_next_due,
  list_cursor <- schedule_list_cursor, status <- schedule_status,
  timerfd <- schedule_timerfd, calling <- schedule_calling, Timers <- {t1, t2, t3},
  Delays <- {1, 2}, LeastSpace <- 1, MaxTime <- 2
Alarms == INSTANCE TimerHeap WITH
  now <- alarms_now, data <- alarms_data, active <- alarms_active,
  count <- alarms_count, space <- alarms_space, heap_idx <- alarms_heap_idx,
  deadline <- alarms_deadline, next_due <- alarms_next_due,
  list_cursor <- alarms_list_cursor, status <- alarms_status,
  timerfd <- alarms_timerfd, calling <- alarms_calling, Timers <- {t1, t2},
  Delays <- {1}, LeastSpace <- 1, MaxTime <- 2
Loop == INSTANCE EventLoop WITH
  pc <- loop_pc, source <- loop_source, check_list <- loop_check_list,
  idle_list <- loop_idle_list, batch <- loop_batch, callee <- loop_callee,
  next <- loop_next, recheck <- loop_recheck, input <- loop_input,
  pending <- loop_pending, backlog <- loop_backlog, effects <- loop_effects,
  Fds <- {f1, f2}, Signals <- {s1}, Idles <- {i1}, MaxEvents <- 2,
  NextMayGo <- FALSE, MaxEffects <- 1
Heard == INSTANCE EventLoop WITH
  pc <- heard_pc, source <- heard_source, check_list <- heard_check_list,
  idle_list <- heard_idle_list, batch <- heard_batch, callee <- heard_callee,
  next <- heard_next, recheck <- heard_recheck, input <- heard_input,
  pending <- heard_pending, backlog <- heard_backlog, effects <- heard_effects,
  Fds <- {f1}, Signals <- {s1, s2}, Idles <- {i1}, MaxEvents <- 5,
  NextMayGo <- FALSE, MaxEffects <- 1
Timeout == INSTANCE DispatchTimeout WITH
  pc <- timeout_pc, MsPerSec <- 3, NsPerMs <- 4,
  Timeouts <- {-1, 0, 1, 2, 3, 4, 7}, MaxSec <- 4, Interrupts <- 2

ASSUME MCPlumbingAssumption ==
  /\ Ring!RingBufferAssumption
  /\ Bytes!TransportAssumption
  /\ Pairs!TransportAssumption
  /\ Calls!ClosureAssumption
  /\ Signal!MutableSignalAssumption
  /\ Private!PrivSignalAssumption
  /\ Made!ObjectMapAssumption
  /\ Given!ObjectMapAssumption
  /\ Schedule!TimerHeapAssumption
  /\ Alarms!TimerHeapAssumption
  /\ Loop!EventLoopAssumption
  /\ Heard!EventLoopAssumption
  /\ Timeout!DispatchTimeoutAssumption

\* The parts that do not run stand in an initial state.
Init ==
  /\ part \in {"ring", "bytes", "pairs", "calls", "signal", "private", "made",
       "given", "schedule", "alarms", "loop", "heard", "timeout"}
  /\ IF part = "ring" THEN Ring!Init ELSE
       /\ ring = Ring!Empty(1)
       /\ max_size_bits = 0
       /\ ring_next = 0
  /\ IF part = "pairs" THEN Pairs!Init ELSE Bytes!Init
  /\ Calls!Init
  /\ IF part = "signal" THEN Signal!Init ELSE
       /\ list = <<>>
       /\ signal_calls = <<>>
  /\ IF part = "private" THEN Private!Init ELSE
       /\ listener_list = <<>>
       /\ emit_list = <<>>
       /\ private_calls = <<>>
       /\ final = FALSE
       /\ freed = {}
  /\ Made!Init
  /\ Given!Init
  /\ Schedule!Init
  /\ Alarms!Init
  /\ Loop!Init
  /\ Heard!Init
  /\ IF part = "timeout" THEN Timeout!Init ELSE
       /\ clock = Timeout!Time(0, 0)
       /\ begin = Timeout!Time(0, 0)
       /\ asked = -1
       /\ end = Timeout!Time(0, 0)
       /\ timeout = -1
       /\ signals = 0
       /\ timeout_pc = "out"

Only(p) ==
  /\ part = p /\ UNCHANGED part
  /\ IF p = "ring" THEN TRUE ELSE UNCHANGED ringVars
  /\ IF p \in {"bytes", "pairs"} THEN TRUE ELSE UNCHANGED bytesVars
  /\ IF p = "calls" THEN TRUE ELSE UNCHANGED callsVars
  /\ IF p = "signal" THEN TRUE ELSE UNCHANGED signalVars
  /\ IF p = "private" THEN TRUE ELSE UNCHANGED privateVars
  /\ IF p = "made" THEN TRUE ELSE UNCHANGED madeVars
  /\ IF p = "given" THEN TRUE ELSE UNCHANGED givenVars
  /\ IF p = "schedule" THEN TRUE ELSE UNCHANGED scheduleVars
  /\ IF p = "alarms" THEN TRUE ELSE UNCHANGED alarmsVars
  /\ IF p = "loop" THEN TRUE ELSE UNCHANGED loopVars
  /\ IF p = "heard" THEN TRUE ELSE UNCHANGED heardVars
  /\ IF p = "timeout" THEN TRUE ELSE UNCHANGED timeoutVars

Next ==
  \/ Only("ring") /\ Ring!Next
  \/ Only("bytes") /\ Bytes!Next
  \/ Only("pairs") /\ Pairs!Next
  \/ Only("calls") /\ Calls!Next
  \/ Only("signal") /\ Signal!Next
  \/ Only("private") /\ Private!Next
  \/ Only("made") /\ Made!Next
  \/ Only("given") /\ Given!Next
  \/ Only("schedule") /\ Schedule!Next
  \/ Only("alarms") /\ Alarms!Next
  \/ Only("loop") /\ Loop!Next
  \/ Only("heard") /\ Heard!Next
  \/ Only("timeout") /\ Timeout!Next

vars == <<part, ringVars, bytesVars, callsVars, signalVars, privateVars,
  madeVars, givenVars, scheduleVars, alarmsVars, loopVars, heardVars,
  timeoutVars>>

Spec == Init /\ [][Next]_vars

PairsFairness ==
  /\ WF_bytesVars(part = "pairs" /\
       (Pairs!FlushFds \/ Pairs!PutFd \/ Pairs!FlushData \/ Pairs!PutData))
  /\ WF_bytesVars(part = "pairs" /\ Pairs!Flush)
  /\ WF_bytesVars(part = "pairs" /\
       (Pairs!FlushDone \/ Pairs!FlushFull \/ \E n \in 1..Len(out) : Pairs!SendMsg(n)))
  /\ WF_bytesVars(part = "pairs" /\ Pairs!RecvMsg)
  /\ WF_bytesVars(part = "pairs" /\ Pairs!Demarshal)
  /\ WF_bytesVars(part = "pairs" /\ Pairs!ReadEnd)

AlarmsFairness ==
  /\ WF_alarmsVars(part = "alarms" /\ Alarms!Dispatch)
  /\ WF_alarmsVars(part = "alarms" /\ Alarms!Advance)

HeardFairness ==
  /\ WF_heardVars(part = "heard" /\ Heard!Begin)
  /\ WF_heardVars(part = "heard" /\ Heard!DispatchIdle)
  /\ WF_heardVars(part = "heard" /\ Heard!IdleReturns)
  /\ WF_heardVars(part = "heard" /\ Heard!TimersReturn)
  /\ WF_heardVars(part = "heard" /\ Heard!IdlesDone)
  /\ SF_heardVars(part = "heard" /\ Heard!Wait)
  /\ WF_heardVars(part = "heard" /\ Heard!DispatchEvent)
  /\ \A s \in {f1, s1, s2} : WF_heardVars(part = "heard" /\ Heard!SourceReturns(s))
  /\ WF_heardVars(part = "heard" /\ Heard!Dispatched)
  /\ WF_heardVars(part = "heard" /\ Heard!CheckNext)
  /\ WF_heardVars(part = "heard" /\ Heard!CheckEnds)
------------------------------------------------------------------------------
\* A ring's pieces are its bytes in order wherever head and tail wrap; messages
\* cross the socket in order with their descriptors, none left behind; and a
\* closure's arguments arrive, within its buffer and theirs, each descriptor
\* with one owner on every error path.
BytesSound ==
  /\ Ring!TypeOK
  /\ Ring!PiecesCoverRing
  /\ part = "bytes" => Bytes!TypeOK
  /\ part = "bytes" => Bytes!FdsComeWithMessages
  /\ part = "bytes" => Bytes!MessagesInOrder
  /\ part = "bytes" => Bytes!NoFdsLeftBehind
  /\ Calls!TypeOK
  /\ Calls!FdsAccounted
  /\ Calls!ArgumentsArrive
  /\ Calls!BufferExact
  /\ Calls!ReadsInside

\* What callbacks change while it is walked stays sound: freed listeners and
\* sources are out of reach, the chain of free ids holds each once and the peer
\* can follow it, the heap is one, its timerfd is set early enough, and a
\* dispatch waits no longer and no shorter than it was told.
StructuresSound ==
  /\ Signal!TypeOK
  /\ Private!FreedUnreachable
  /\ Made!TypeOK
  /\ Made!FreeListSound
  /\ Made!PeerFollows
  /\ Given!FreeListSound
  /\ Given!PeerFollows
  /\ Schedule!TypeOK
  /\ Schedule!HeapSound
  /\ Schedule!WakesInTime
  /\ Loop!TypeOK
  /\ Loop!NoUseAfterFree
  /\ Timeout!TypeOK
  /\ Timeout!NeverPastEnd
  /\ Timeout!NeverGivesUpEarly

\* An emission calls every listener that was there at its start and is not
\* removed before its turn, once, and none that was added, whatever the
\* callbacks do (wl_signal_emit_mutable, wl_priv_signal_emit,
\* wl_priv_signal_final_emit).
EmissionSpec ==
  /\ Signal!EmissionSpec
  /\ Private!EmissionSpec
  /\ Private!FinalCallsAll

\* A ring is a queue of bytes, whatever it grows and shrinks to and never larger
\* than its bound; and wl_map a partial function from ids to objects, on either
\* side of the connection.
ContainersSpec ==
  /\ Ring!QueueSpec
  /\ Ring!WithinMax
  /\ Made!ClientTable
  /\ Given!ServerTable

\* The heap is the set of armed timers, which leave it in the order of their
\* deadlines, whatever the callbacks of a dispatch do to it.
TimerQueueSpec == Schedule!TimerQueueSpec

\* A source is not called once it is removed, and a dispatch does not return
\* before the sources to check are drained.
LoopSteps ==
  /\ Loop!NotCalledOnceRemoved
  /\ Loop!DrainedAtReturn

\* All messages arrive; timers, idle tasks and readable sources are served; and
\* every source of a signal hears it.
PlumbingProceeds ==
  /\ (part = "pairs" /\ PairsFairness => Pairs!AllArrive)
  /\ (part = "alarms" /\ AlarmsFairness => Alarms!TimersFire)
  /\ (part = "heard" /\ HeardFairness => Heard!IdlesFire)
  /\ (part = "heard" /\ HeardFairness => Heard!ReadableServed)
  /\ (part = "heard" /\ HeardFairness => Heard!AllHearSignal)

==============================================================================
