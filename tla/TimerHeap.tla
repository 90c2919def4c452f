------------------------------ MODULE TimerHeap ------------------------------
(***************************************************************************)
(* libwayland, event-loop.c: the timers of an event loop.  They share one   *)
(* timerfd, which is set to the earliest deadline, and a binary heap that   *)
(* grows and shrinks with their number.  The callbacks of a dispatch may    *)
(* add, set, disarm and remove timers.                                      *)
(***************************************************************************)
EXTENDS SequencesExt, Integers

CONSTANTS
  Timers, Delays, None,
  LeastSpace,    \* 8: the heap is never smaller
  MaxTime        \* bound: the last time on the clock

TimerHeapAssumption == None \notin Timers /\ LeastSpace \in Nat \ {0} /\ MaxTime \in Nat /\ Delays \subseteq Nat \ {0}

VARIABLES
  now,
  data, active, count, space,   \* struct wl_timer_heap
  heap_idx, deadline,           \* struct wl_event_source_timer
  next_due, list_cursor,        \* the list of a dispatch
  status,                       \* of a timer: "none", "live", "removed" (base.fd is TIMER_REMOVED, not freed yet)
  timerfd,                      \* when it becomes readable; 0 is never
  calling                       \* the callback of list_cursor runs

heap == <<data, active, heap_idx, deadline>>
vars == <<now, data, active, count, space, heap_idx, deadline, next_due, list_cursor, status, timerfd, calling>>

Junk == 0   \* memory that nobody has written

Init ==
  /\ now = 1
  /\ data = <<>> /\ active = 0 /\ count = 0 /\ space = 0
  /\ heap_idx = [t \in Timers |-> -1] /\ deadline = [t \in Timers |-> 0]
  /\ next_due = [t \in Timers |-> None] /\ list_cursor = None
  /\ status = [t \in Timers |-> "none"]
  /\ timerfd = 0 /\ calling = FALSE
------------------------------------------------------------------------------
Heap == [data |-> data, active |-> active, idx |-> heap_idx, deadline |-> deadline]

SetHeap(h) == data' = h.data /\ active' = h.active /\ heap_idx' = h.idx /\ deadline' = h.deadline

\* heap_set() along a path: each timer moves to the place before its own, t to the last.
Along(h, path, t) ==
  LET moved(k) == IF k = Len(path) THEN t ELSE h.data[path[k + 1]]
      place(i) == CHOOSE k \in DOMAIN path : path[k] = i
  IN  [h EXCEPT !.data = [i \in DOMAIN h.data |-> IF i \in Range(path) THEN moved(place(i)) ELSE h.data[i]],
                !.idx = [u \in Timers |-> IF \E k \in DOMAIN path : moved(k) = u
                                            THEN path[CHOOSE k \in DOMAIN path : moved(k) = u] ELSE h.idx[u]]]

Parent(i) == (i - 1) \div 2

heap_sift_up(h, t) ==
  LET path[i \in 0..(h.active - 1)] ==
        IF i > 0 /\ h.deadline[t] < h.deadline[h.data[Parent(i)]] THEN <<i>> \o path[Parent(i)] ELSE <<i>>
  IN  Along(h, path[h.idx[t]], t)

\* Mutant: the left child, whether it is the smaller one or not.
LeftChild(h, i) == 2 * i + 1

SmallerChild(h, i) ==
  IF 2 * i + 2 < h.active /\ h.deadline[h.data[2 * i + 2]] < h.deadline[h.data[2 * i + 1]] THEN 2 * i + 2 ELSE 2 * i + 1

heap_sift_down(h, t) ==
  LET path[i \in 0..(h.active - 1)] ==
        IF 2 * i + 1 < h.active /\ h.deadline[h.data[SmallerChild(h, i)]] < h.deadline[t]
          THEN <<i>> \o path[SmallerChild(h, i)] ELSE <<i>>
  IN  Along(h, path[h.idx[t]], t)

GapFilled(h, old, last) == [h EXCEPT !.data[old] = last, !.idx[last] = old]

wl_timer_heap_disarm(h, t) ==
  LET old == h.idx[t]
      end == h.active - 1
      last == h.data[end]
      rest == [h EXCEPT !.idx[t] = -1, !.deadline[t] = 0, !.data[end] = None, !.active = end]
  IN  IF old = end THEN rest
      ELSE heap_sift_up(heap_sift_down(GapFilled(rest, old, last), last), last)

wl_timer_heap_arm(h, t, time) ==
  heap_sift_up([h EXCEPT !.deadline[t] = time, !.data[h.active] = t, !.idx[t] = h.active, !.active = @ + 1], t)

\* wl_event_source_timer_update() with a delay
SetTo(h, t, time) ==
  IF h.idx[t] = -1 THEN wl_timer_heap_arm(h, t, time)
  ELSE LET set == [h EXCEPT !.deadline[t] = time] IN
       IF time < h.deadline[t] THEN heap_sift_up(set, t) ELSE heap_sift_down(set, t)
------------------------------------------------------------------------------
Live(t) == status[t] = "live"
Armed(t) == heap_idx[t] # -1

\* User code runs: no dispatch, or a callback of one.
Running == list_cursor # None => calling

Resized(size) == [i \in 0..(size - 1) |-> IF i \in DOMAIN data THEN data[i] ELSE Junk]

\* wl_event_loop_add_timer()
AddTimer(t) ==
  /\ Running /\ status[t] = "none"
  /\ status' = [status EXCEPT ![t] = "live"]
  /\ heap_idx' = [heap_idx EXCEPT ![t] = -1] /\ deadline' = [deadline EXCEPT ![t] = 0]
  /\ next_due' = [next_due EXCEPT ![t] = None]
  /\ space' = IF count + 1 > space THEN (IF space >= LeastSpace THEN space * 2 ELSE LeastSpace) ELSE space
  /\ data' = Resized(space') /\ count' = count + 1
  /\ UNCHANGED <<now, active, list_cursor, timerfd, calling>>

\* Mutant: the timerfd follows only the first timer that is armed.
SetForFirst(h, t) == IF h.active = 1 THEN h.deadline[t] ELSE timerfd

SetForRoot(h, t) == IF h.idx[t] = 0 THEN h.deadline[t] ELSE timerfd

\* wl_event_source_timer_update() with a delay
Update(t, delay) ==
  /\ Running /\ Live(t)
  /\ LET h == SetTo(Heap, t, now + delay) IN SetHeap(h) /\ timerfd' = SetForRoot(h, t)
  /\ UNCHANGED <<now, count, space, next_due, list_cursor, status, calling>>

\* Mutant: the timerfd is cleared whenever a timer is disarmed.
AlwaysCleared(h) == 0

ClearedIfLast(h) == IF h.active = 0 THEN 0 ELSE timerfd

DisarmIfArmed(t) ==
  IF Armed(t) THEN LET h == wl_timer_heap_disarm(Heap, t) IN SetHeap(h) /\ timerfd' = ClearedIfLast(h)
  ELSE UNCHANGED <<heap, timerfd>>

\* wl_event_source_timer_update() with a delay of 0
Disarm(t) ==
  /\ Running /\ Live(t)
  /\ DisarmIfArmed(t)
  /\ UNCHANGED <<now, count, space, next_due, list_cursor, status, calling>>

\* The heap gives memory back, unless realloc() fails.
Shrinks == space >= 2 * LeastSpace /\ space >= 4 * (count - 1)

\* wl_event_source_remove()
RemoveTimer(t) ==
  /\ Running /\ Live(t)
  /\ status' = [status EXCEPT ![t] = "removed"]
  /\ LET h == IF Armed(t) THEN wl_timer_heap_disarm(Heap, t) ELSE Heap IN
     /\ active' = h.active /\ heap_idx' = h.idx /\ deadline' = h.deadline
     /\ timerfd' = IF Armed(t) THEN ClearedIfLast(h) ELSE timerfd
     /\ space' \in {space} \cup (IF Shrinks THEN {space \div 2} ELSE {})
     /\ data' = [i \in 0..(space' - 1) |-> h.data[i]]
  /\ count' = count - 1
  /\ UNCHANGED <<now, next_due, list_cursor, calling>>

RootDue(h) == h.active > 0 /\ h.deadline[h.data[0]] <= now

\* The timers that are due, in the order in which they leave the heap, and the heap left.
Taken ==
  LET step[n \in 0..Cardinality(Timers)] ==
        IF n = 0 THEN [list |-> <<>>, h |-> Heap]
        ELSE LET s == step[n - 1] IN
             IF RootDue(s.h)
               THEN [list |-> Append(s.list, s.h.data[0]), h |-> wl_timer_heap_disarm(s.h, s.h.data[0])] ELSE s
  IN  step[Cardinality(Timers)]

\* wl_timer_heap_dispatch(), up to the callbacks
Dispatch ==
  /\ list_cursor = None /\ timerfd # 0 /\ timerfd <= now
  /\ LET s == Taken IN
     /\ SetHeap(s.h)
     /\ timerfd' = IF s.h.active > 0 THEN s.h.deadline[s.h.data[0]] ELSE 0
     /\ next_due' = [t \in Timers |->
          IF \E i \in DOMAIN s.list : s.list[i] = t
            THEN LET i == CHOOSE j \in DOMAIN s.list : s.list[j] = t IN IF i < Len(s.list) THEN s.list[i + 1] ELSE None
            ELSE next_due[t]]
     /\ list_cursor' = IF s.list = <<>> THEN None ELSE Head(s.list)
     /\ calling' = (s.list # <<>>)
  /\ UNCHANGED <<now, count, space, status>>

\* Mutant: a removed timer is called all the same.
CalledAnyway(t) == TRUE

Callable(t) == status[t] # "removed"

\* A callback returns, or a removed timer is passed over.
Advance ==
  /\ list_cursor # None
  /\ list_cursor' = next_due[list_cursor]
  /\ calling' = (list_cursor' # None /\ Callable(list_cursor'))
  /\ UNCHANGED <<now, data, active, count, space, heap_idx, deadline, next_due, status, timerfd>>

\* wl_event_loop_process_destroy_list()
Free ==
  /\ list_cursor = None /\ \E t \in Timers : status[t] = "removed"
  /\ status' = [t \in Timers |-> IF status[t] = "removed" THEN "none" ELSE status[t]]
  /\ next_due' = [t \in Timers |-> IF status[t] = "removed" THEN None ELSE next_due[t]]
  /\ UNCHANGED <<now, data, active, count, space, heap_idx, deadline, list_cursor, timerfd, calling>>

Tick == now < MaxTime /\ now' = now + 1 /\ UNCHANGED <<data, active, count, space, heap_idx, deadline, next_due, list_cursor, status, timerfd, calling>>

Next ==
  \/ \E t \in Timers : AddTimer(t) \/ Disarm(t) \/ RemoveTimer(t) \/ \E d \in Delays : Update(t, d)
  \/ Dispatch \/ Advance \/ Free \/ Tick

\* The program calls wl_event_loop_dispatch() again and again, and callbacks return.
Fairness == WF_vars(Dispatch) /\ WF_vars(Advance)

Spec == Init /\ [][Next]_vars
LiveSpec == Spec /\ Fairness
------------------------------------------------------------------------------
TypeOK ==
  /\ DOMAIN data = 0..(space - 1)
  /\ count = Cardinality({t \in Timers : Live(t)})
  /\ heap_idx \in [Timers -> -1..(space - 1)]
  /\ next_due \in [Timers -> Timers \cup {None}] /\ list_cursor \in Timers \cup {None}

\* The heap: its timers are live, know their places, lie within the memory, and none is
\* due before its parent (heap_sift_up, heap_sift_down, wl_timer_heap_reserve).
HeapSound ==
  /\ active <= count /\ count <= space
  /\ \A i \in 0..(active - 1) : data[i] \in Timers /\ heap_idx[data[i]] = i /\ Live(data[i])
  /\ \A t \in Timers : Armed(t) => heap_idx[t] < active
  /\ \A i \in 1..(active - 1) : deadline[data[Parent(i)]] <= deadline[data[i]]

\* The loop wakes in time for the earliest timer: the timerfd, which most operations
\* leave alone, is never set too late (wl_event_source_timer_update,
\* wl_timer_heap_dispatch).
WakesInTime == active > 0 => timerfd # 0 /\ timerfd <= deadline[data[0]]

\* The list of a dispatch, as it will be walked.
Due ==
  LET from[n \in 0..Cardinality(Timers)] ==
        IF n = 0 THEN <<list_cursor>>
        ELSE IF Last(from[n - 1]) = None THEN from[n - 1] ELSE Append(from[n - 1], next_due[Last(from[n - 1])])
  IN  SelectSeq(from[Cardinality(Timers)], LAMBDA t : t # None)

DueFrom(n) == SubSeq(Due, n, Len(Due))

\* Timers that are passed over have left the abstract list already.
Passing == list_cursor # None /\ ~calling
FirstCallable == IF \E i \in DOMAIN Due : Callable(Due[i]) THEN CHOOSE i \in DOMAIN Due : Callable(Due[i]) /\ \A j \in 1..(i - 1) : ~Callable(Due[j]) ELSE Len(Due) + 1
AbstractDue == IF Passing THEN DueFrom(FirstCallable) ELSE Due

Queue == INSTANCE TimerQueue WITH
  Times <- 1..(2 * MaxTime + 10),
  deadline <- [t \in Timers |-> IF Armed(t) THEN deadline[t] ELSE None],
  due <- AbstractDue,
  removed <- {t \in Range(AbstractDue) : status[t] = "removed"}

\* A dispatch calls precisely the timers that are due, in order, once each, whatever the
\* callbacks do to the others: "Execute precisely the functions for events before `now`,
\* in order" (wl_timer_heap_dispatch).
TimerQueueSpec == Queue!Spec

\* A timer whose deadline has passed leaves the heap to be called, unless somebody
\* disarms it or sets it again first.
TimersFire == \A t \in Timers : (Armed(t) /\ deadline[t] <= now) ~> ~(Armed(t) /\ deadline[t] <= now)
==============================================================================
