------------------------------- MODULE Renderer -------------------------------
(***************************************************************************)
(* One zlinestatus process from start to exit, the zsendvalue processes     *)
(* that connect to its status socket and the compositor it draws for.  The  *)
(* process runs one thread: whatever it waits for, nothing else is served.  *)
(* SwapChain has the inside of renderFrame; here a frame is one step.       *)
(***************************************************************************)
EXTENDS Integers, SequencesExt, SequenceTheorems, TLAPS

CONSTANTS
  Senders,       \* connections that can be open at a time
  Messages,      \* what a sender may write
  Valid,         \* the messages that parseIncomingMessage accepts
  Unsent, Nothing, Off, Empty, NoClient,
  Backlog,       \* how many connections wait for accept()
  MaxEvents      \* bound: Wayland events waiting to be read

RendererAssumption ==
  /\ Valid \subseteq Messages
  /\ Unsent \notin Messages /\ Nothing \notin Messages /\ Unsent # Nothing
  /\ Off \notin Messages /\ Empty \notin Messages /\ Off # Empty
  /\ NoClient \notin Senders
  /\ Backlog \in Nat \ {0} /\ MaxEvents \in Nat \ {0}

VARIABLES
  \* the renderer
  pc,            \* the call of main() that comes next; "down" when there is no process
  ready,         \* what the last poll() found
  configured,    \* AppState.surface_configured
  closed,        \* AppState.closed
  client,        \* the connection accepted and not yet closed
  shown,         \* the frame last committed
  \* the status socket
  listening,     \* connect() succeeds
  backlog,       \* connections that wait for accept(), oldest first
  written,       \* what each open connection's sender has written
  \* the Wayland socket
  events,        \* events not yet read
  hangup,        \* the compositor has closed it
  committed      \* the compositor has the initial commit

rendererVars == <<pc, ready, configured, closed, client, shown>>
socketVars   == <<listening, backlog, written>>
waylandVars  == <<events, hangup, committed>>
vars == <<rendererVars, socketVars, waylandVars>>

NotReady == [wayland |-> FALSE, hup |-> FALSE, socket |-> FALSE]

Init ==
  /\ pc = "down" /\ ready = NotReady /\ configured = FALSE /\ closed = FALSE
  /\ client = NoClient /\ shown = Off
  /\ listening = FALSE /\ backlog = <<>> /\ written = [s \in {} |-> Unsent]
  /\ events = <<>> /\ hangup = FALSE /\ committed = FALSE
------------------------------------------------------------------------------
(* The renderer *)

\* Every way out of main() is an error.  The kernel closes what was open: the
\* connections not yet served go with the listening socket.
Exit ==
  /\ pc' = "down" /\ ready' = NotReady /\ configured' = FALSE /\ closed' = FALSE
  /\ client' = NoClient /\ shown' = Off
  /\ listening' = FALSE /\ backlog' = <<>> /\ written' = [s \in {} |-> Unsent]
  /\ events' = <<>> /\ hangup' = FALSE /\ committed' = FALSE

\* unlink, socket, bind and listen: senders can connect before there is a line.
Listen ==
  /\ pc = "listen"
  /\ listening' = TRUE
  /\ pc' = "open"
  /\ UNCHANGED <<ready, configured, closed, client, shown, backlog, written, waylandVars>>

\* Connection.open, get_registry and sync; there may be no compositor.
Open ==
  /\ pc = "open"
  /\ \/ /\ pc' = "registry"
        /\ UNCHANGED <<ready, configured, closed, client, shown, socketVars, waylandVars>>
     \/ Exit

\* connection.recv() waits for events; its flush fails after a hangup.
CanRecv == events # <<>> \/ hangup

\* The callback of sync comes after the globals; without the three that the
\* program needs it ends, with them it makes the surface and commits it empty.
Registry ==
  /\ pc = "registry" /\ CanRecv
  /\ IF hangup \/ Head(events) # "globals"
       THEN Exit
       ELSE /\ events' = Tail(events)
            /\ committed' = TRUE
            /\ pc' = "configure"
            /\ UNCHANGED <<ready, configured, closed, client, shown, socketVars, hangup>>

\* onLayerSurfaceEvent() for the first n events.
Dispatch(n) ==
  /\ configured' = (configured \/ "configure" \in ToSet(SubSeq(events, 1, n)))
  /\ closed' = (closed \/ "closed" \in ToSet(SubSeq(events, 1, n)))
  /\ events' = SubSeq(events, n + 1, Len(events))

Configure ==
  /\ pc = "configure" /\ CanRecv
  /\ IF hangup
       THEN Exit
       ELSE \E n \in 1..Len(events) :
              IF "closed" \in ToSet(SubSeq(events, 1, n))
                THEN Exit
                ELSE /\ Dispatch(n)
                     /\ pc' = IF configured' THEN "first_frame" ELSE "configure"
                     /\ UNCHANGED <<ready, client, shown, socketVars, hangup, committed>>

\* The line starts empty.
FirstFrame ==
  /\ pc = "first_frame"
  /\ IF hangup
       THEN Exit
       ELSE /\ shown' = Empty
            /\ pc' = "poll"
            /\ UNCHANGED <<ready, configured, closed, client, socketVars, waylandVars>>

Poll ==
  /\ pc = "poll" /\ (CanRecv \/ backlog # <<>>)
  /\ ready' = [wayland |-> CanRecv, hup |-> hangup, socket |-> backlog # <<>>]
  /\ pc' = IF CanRecv THEN "recv" ELSE "accept"
  /\ UNCHANGED <<configured, closed, client, shown, socketVars, waylandVars>>

\* Mutant: poll() is taken to have found a connection.
AcceptsAnyway == "accept"

\* Mutant: the loop starts again after every Wayland event.
WaylandOnly == "poll"

AfterRecv == IF ready.socket THEN "accept" ELSE "poll"

\* Mutant: closed is not tested after the events are handled.
IgnoresClosed == ready.hup

MustExit == ready.hup \/ closed'

Recv ==
  /\ pc = "recv"
  /\ IF hangup
       THEN Exit
       ELSE \E n \in 1..Len(events) :
              /\ Dispatch(n)
              /\ pc' = IF MustExit THEN "exit" ELSE AfterRecv
              /\ UNCHANGED <<ready, client, shown, socketVars, hangup, committed>>

\* WaylandConnectionClosed, or SurfaceClosed.
Leave == pc = "exit" /\ Exit

Accept ==
  /\ pc = "accept" /\ backlog # <<>>
  /\ client' = Head(backlog)
  /\ backlog' = Tail(backlog)
  /\ pc' = "read"
  /\ UNCHANGED <<ready, configured, closed, shown, listening, written, waylandVars>>

\* client is closed at the end of the iteration, whatever came of it.
CloseClient ==
  /\ client' = NoClient
  /\ written' = Restrict(written, DOMAIN written \ {client})
  /\ pc' = "poll"
  /\ UNCHANGED <<ready, configured, closed, listening, backlog>>

\* Mutant: a message that cannot be parsed counts as zero percent.
AnyBody(body) == body # Nothing

Usable(body) == body \in Valid

\* recv() on the connection waits for its sender; an empty or unusable message
\* changes nothing.
Read ==
  /\ pc = "read" /\ written[client] # Unsent
  /\ IF Usable(written[client])
       THEN pc' = "render" /\ UNCHANGED <<ready, configured, closed, client, shown, socketVars>>
       ELSE CloseClient /\ UNCHANGED shown
  /\ UNCHANGED waylandVars

\* renderFrame() ends with a flush, which fails after a hangup.
Render ==
  /\ pc = "render"
  /\ IF hangup
       THEN Exit
       ELSE /\ shown' = written[client]
            /\ CloseClient
            /\ UNCHANGED waylandVars

\* The process is killed, or a call fails for want of memory.
Crash == pc # "down" /\ Exit

\* The service manager starts it, again and again (Restart=on-failure).
Start ==
  /\ pc = "down"
  /\ pc' = "listen"
  /\ UNCHANGED <<ready, configured, closed, client, shown, socketVars, waylandVars>>
------------------------------------------------------------------------------
(* zsendvalue *)

Connections == ToSet(backlog) \cup ({client} \ {NoClient})

\* The queue of a listening socket holds one connection more than its backlog.
Connect(s) ==
  /\ listening /\ s \notin Connections /\ Len(backlog) <= Backlog
  /\ backlog' = Append(backlog, s)
  /\ written' = [c \in DOMAIN written \cup {s} |-> IF c = s THEN Unsent ELSE written[c]]
  /\ UNCHANGED <<rendererVars, listening, waylandVars>>

\* It sends one message and ends, or ends early; either way the connection is closed.
SendAndClose(s) ==
  /\ s \in Connections /\ written[s] = Unsent
  /\ \E body \in Messages \cup {Nothing} : written' = [written EXCEPT ![s] = body]
  /\ UNCHANGED <<rendererVars, listening, backlog, waylandVars>>
------------------------------------------------------------------------------
(* The compositor *)

Connected == pc \notin {"down", "listen", "open"} /\ ~hangup /\ Len(events) < MaxEvents

Event(e) ==
  /\ events' = Append(events, e)
  /\ UNCHANGED <<rendererVars, socketVars, hangup, committed>>

AnswerSync ==
  /\ Connected /\ pc = "registry" /\ events = <<>>
  /\ \E e \in {"globals", "too_few_globals"} : Event(e)

\* The first configure answers the initial commit; the size may change later.
SendConfigure == Connected /\ committed /\ Event("configure")

SendClosed == Connected /\ committed /\ "closed" \notin ToSet(events) /\ Event("closed")

HangUp ==
  /\ pc \notin {"down", "listen", "open"} /\ ~hangup
  /\ hangup' = TRUE
  /\ UNCHANGED <<rendererVars, socketVars, events, committed>>
------------------------------------------------------------------------------
RendererStep ==
  \/ Listen \/ Open \/ Registry \/ Configure \/ FirstFrame
  \/ Poll \/ Recv \/ Leave \/ Accept \/ Read \/ Render

Next ==
  \/ RendererStep \/ Crash \/ Start
  \/ \E s \in Senders : Connect(s) \/ SendAndClose(s)
  \/ AnswerSync \/ SendConfigure \/ SendClosed \/ HangUp

\* The process runs; a sender that has connected sends or ends; the compositor
\* answers the sync request and the initial commit.  Nothing makes a message
\* come, a crash happen or a compositor send more.
Fairness ==
  /\ WF_vars(RendererStep)
  /\ \A s \in Senders : WF_vars(SendAndClose(s))
  /\ WF_vars(AnswerSync)
  /\ WF_vars(~configured /\ SendConfigure)

Spec == Init /\ [][Next]_vars
LiveSpec == Spec /\ Fairness
------------------------------------------------------------------------------
RendererOK ==
  /\ pc \in {"down", "listen", "open", "registry", "configure", "first_frame",
             "poll", "recv", "exit", "accept", "read", "render"}
  /\ ready \in [wayland : BOOLEAN, hup : BOOLEAN, socket : BOOLEAN]
  /\ configured \in BOOLEAN /\ closed \in BOOLEAN
  /\ client \in Senders \cup {NoClient} /\ shown \in {Off, Empty} \cup Valid

SocketOK ==
  /\ listening \in BOOLEAN /\ backlog \in Seq(Senders)
  /\ DOMAIN written = Connections
  /\ \A s \in DOMAIN written : written[s] \in Messages \cup {Unsent, Nothing}

WaylandOK ==
  /\ events \in Seq({"globals", "too_few_globals", "configure", "closed"})
  /\ hangup \in BOOLEAN /\ committed \in BOOLEAN

TypeOK == RendererOK /\ SocketOK /\ WaylandOK

\* poll() looked at both sockets before the events were read and handled, and
\* what it found is used after: accept() then still has a connection to take,
\* so the renderer never sleeps in it (main, lines 217 to 232).
AcceptNeverBlocks == pc = "accept" => backlog # <<>>

\* No buffer is attached before the compositor has configured the surface, and
\* none once the program has learned that the surface is gone.
FramesOnlyWhileConfigured ==
  /\ shown # Off => configured
  /\ pc \in {"first_frame", "accept", "read", "render"} => configured /\ ~closed

\* The connections the renderer has yet to answer, oldest first.
Order == IF client = NoClient THEN backlog ELSE <<client>> \o backlog

Inbox == [i \in 1..Len(Order) |-> [from |-> Order[i], body |-> written[Order[i]]]]

Line == INSTANCE StatusLine WITH inbox <- Inbox

\* The line shows messages as StatusLine says: in the order in which their senders
\* connected, each at most once, and only one that cannot be used is passed over.
LineSpec == Line!Spec

\* No connection waits twice, nor while it is being answered.
InOnePlace == \A i, j \in 1..Len(Order) : Order[i] = Order[j] => i = j

\* While the loop runs the surface is configured and there is a frame; what poll() found
\* is still there; and a message is drawn only when it could be used.
LoopInv ==
  /\ client # NoClient <=> pc \in {"read", "render"}
  /\ pc = "recv" /\ ready.socket => backlog # <<>>
  /\ pc = "render" => written[client] \in Valid
  /\ shown # Off <=> pc \in {"poll", "recv", "exit", "accept", "read", "render"}
  /\ configured <=> pc \in {"first_frame", "poll", "recv", "exit", "accept", "read", "render"}
  /\ closed => pc = "exit"

\* The inductive invariant.
Inv == TypeOK /\ AcceptNeverBlocks /\ InOnePlace /\ LoopInv

\* A sender that has written its message is served, or the renderer ends: a
\* slow or silent sender before it holds it up but not forever.
MessagesServed ==
  \A s \in Senders :
    (s \in Connections /\ written[s] # Unsent) ~> (s \notin Connections \/ written[s] = Unsent)

\* The renderer learns that its surface or its compositor is gone and ends.
EndsWithSurface ==
  (hangup \/ "closed" \in ToSet(events)) ~> pc = "down"
------------------------------------------------------------------------------
(* Proofs *)

\* The order of service: the one being served, then those that wait.
LEMMA OrderFacts ==
  ASSUME RendererAssumption, TypeOK
  PROVE  /\ Order \in Seq(Senders) /\ Len(Order) \in Nat /\ Len(backlog) \in Nat
         /\ client = NoClient => Order = backlog
         /\ client # NoClient => /\ client \in Senders /\ Len(Order) = Len(backlog) + 1 /\ Order[1] = client
                                 /\ \A i \in 1..Len(backlog) : Order[i + 1] = backlog[i]
         /\ Connections = {Order[i] : i \in 1..Len(Order)}
<1>1. backlog \in Seq(Senders) /\ client \in Senders \cup {NoClient} /\ Len(backlog) \in Nat
  BY DEF TypeOK, RendererOK, SocketOK
<1>2. ToSet(backlog) = {backlog[i] : i \in 1..Len(backlog)}
  BY <1>1 DEF ToSet
<1>3. CASE client = NoClient
  BY <1>1, <1>2, <1>3 DEF Order, Connections
<1>4. CASE client # NoClient
  <2>1. <<client>> \in Seq(Senders) /\ Len(<<client>>) = 1 /\ <<client>>[1] = client
    BY <1>1, <1>4
  <2>2. /\ Order \in Seq(Senders) /\ Len(Order) = 1 + Len(backlog)
        /\ \A i \in 1 .. 1 + Len(backlog) : Order[i] = IF i <= 1 THEN <<client>>[i] ELSE backlog[i - 1]
    BY <1>1, <1>4, <2>1, ConcatProperties DEF Order
  <2>3. Order[1] = client /\ \A i \in 1..Len(backlog) : Order[i + 1] = backlog[i]
    BY <1>1, <2>1, <2>2
  <2>4. Connections = ToSet(backlog) \cup {client}
    BY <1>4 DEF Connections
  <2>5. \A i \in 2..Len(Order) : i - 1 \in 1..Len(backlog) /\ Order[i] = backlog[i - 1]
    BY <1>1, <2>2
  <2>6. \A i \in 1..Len(backlog) : i + 1 \in 1..Len(Order)
    BY <1>1, <2>2
  <2>7. 1 \in 1..Len(Order) /\ \A i \in 1..Len(Order) : i = 1 \/ i \in 2..Len(Order)
    BY <1>1, <2>2
  <2>8. ASSUME NEW x \in Connections PROVE \E i \in 1..Len(Order) : x = Order[i]
    <3>1. CASE x = client
      BY <2>3, <2>7, <3>1
    <3>2. CASE x \in ToSet(backlog)
      <4>1. PICK i \in 1..Len(backlog) : x = backlog[i]
        BY <1>2, <3>2
      <4> QED
        BY <2>3, <2>6, <4>1
    <3> QED
      BY <2>4, <2>8, <3>1, <3>2
  <2>9. ASSUME NEW i \in 1..Len(Order) PROVE Order[i] \in Connections
    <3>1. i = 1 \/ (i - 1 \in 1..Len(backlog) /\ Order[i] = backlog[i - 1])
      BY <2>5, <2>7
    <3> QED
      BY <1>2, <2>3, <2>4, <3>1
  <2>10. Connections = {Order[i] : i \in 1..Len(Order)}
    BY <2>8, <2>9
  <2> QED
    BY <1>1, <1>4, <2>2, <2>3, <2>10
<1> QED
  BY <1>3, <1>4

\* What StatusLine sees of the connections: one message each, in that order.
LEMMA InboxFacts ==
  ASSUME RendererAssumption, TypeOK
  PROVE  /\ Inbox \in Seq([from : Senders, body : Messages \cup {Unsent, Nothing}])
         /\ Len(Inbox) = Len(Order) /\ DOMAIN Inbox = 1..Len(Order)
         /\ \A i \in 1..Len(Order) : Inbox[i] = [from |-> Order[i], body |-> written[Order[i]]]
<1>1. Len(Order) \in Nat /\ Order \in Seq(Senders)
  BY OrderFacts
<1>2. \A i \in 1..Len(Order) : Order[i] \in Senders /\ written[Order[i]] \in Messages \cup {Unsent, Nothing}
  BY <1>1, OrderFacts DEF TypeOK, SocketOK
<1>3. Inbox \in [1..Len(Order) -> [from : Senders, body : Messages \cup {Unsent, Nothing}]]
  BY <1>2 DEF Inbox
<1> QED
  BY <1>1, <1>3 DEF Inbox

\* A function on 1..n is a sequence.
LEMMA FunctionIsSequence ==
  ASSUME NEW T, NEW n \in Nat, NEW f \in [1..n -> T] PROVE f \in Seq(T) /\ Len(f) = n
OBVIOUS

\* Without client and backlog there is no connection.
LEMMA NobodyWaits ==
  ASSUME backlog = <<>>, client = NoClient PROVE Order = <<>> /\ Connections = {}
BY DEF Order, Connections, ToSet

\* The program has not started, and the line is off.
LEMMA RendererInit == ASSUME RendererAssumption, Init PROVE Inv /\ Line!Init
<1>1. RendererOK
  <2>1. NotReady \in [wayland : BOOLEAN, hup : BOOLEAN, socket : BOOLEAN]
    BY DEF NotReady
  <2>2. ready \in [wayland : BOOLEAN, hup : BOOLEAN, socket : BOOLEAN]
    BY <2>1 DEF Init
  <2> QED
    BY <2>2 DEF Init, RendererOK
<1>2. WaylandOK
  <2>1. <<>> \in Seq({"globals", "too_few_globals", "configure", "closed"})
    OBVIOUS
  <2> QED
    BY <2>1 DEF Init, WaylandOK
<1>3. SocketOK /\ Order = <<>>
  <2>1. backlog = <<>> /\ client = NoClient /\ listening = FALSE
    BY DEF Init
  <2>2. written = [s \in {} |-> Unsent]
    BY DEF Init
  <2>3. DOMAIN written = {}
    BY <2>2
  <2>4. <<>> \in Seq(Senders)
    OBVIOUS
  <2> QED
    BY <2>1, <2>3, <2>4, NobodyWaits DEF SocketOK
<1>4. AcceptNeverBlocks /\ LoopInv
  BY DEF Init, LoopInv, AcceptNeverBlocks
<1>5. InOnePlace
  BY <1>3 DEF InOnePlace
<1>6. Inbox = <<>>
  BY <1>3 DEF Inbox
<1> QED
  BY <1>1, <1>2, <1>3, <1>4, <1>5, <1>6 DEF Inv, TypeOK, Line!Init, Init

\* Whatever ends the program, the kernel closes its sockets: the line is off.
LEMMA RendererExit ==
  ASSUME RendererAssumption, Exit PROVE Inv' /\ Line!TurnOff
<1>1. RendererOK'
  <2>1. NotReady \in [wayland : BOOLEAN, hup : BOOLEAN, socket : BOOLEAN]
    BY DEF NotReady
  <2>2. (ready \in [wayland : BOOLEAN, hup : BOOLEAN, socket : BOOLEAN])'
    BY <2>1 DEF Exit
  <2> QED
    BY <2>2 DEF Exit, RendererOK
<1>2. WaylandOK'
  <2>1. <<>> \in Seq({"globals", "too_few_globals", "configure", "closed"})
    OBVIOUS
  <2>2. events' = <<>> /\ hangup' = FALSE /\ committed' = FALSE
    BY DEF Exit
  <2> QED
    BY <2>1, <2>2 DEF WaylandOK
<1>3. SocketOK' /\ Order' = <<>>
  <2>1. backlog' = <<>> /\ client' = NoClient /\ listening' = FALSE
    BY DEF Exit
  <2>2. written' = [s \in {} |-> Unsent]
    BY DEF Exit
  <2>3. DOMAIN written' = {}
    BY <2>2
  <2>4. Order' = <<>>
    BY <2>1 DEF Order
  <2>5. Connections' = {}
    BY <2>1 DEF Connections, ToSet
  <2>6. <<>> \in Seq(Senders)
    OBVIOUS
  <2> QED
    BY <2>1, <2>3, <2>4, <2>5, <2>6 DEF SocketOK
<1>4. LoopInv' /\ AcceptNeverBlocks'
  BY DEF Exit, LoopInv, AcceptNeverBlocks
<1>5. InOnePlace'
  BY <1>3 DEF InOnePlace
<1>6. Inbox' = <<>>
  BY <1>3 DEF Inbox
<1> QED
  BY <1>1, <1>2, <1>3, <1>4, <1>5, <1>6 DEF Inv, TypeOK, Line!TurnOff, Exit

\* Steps that leave the connections and the line alone.
LEMMA RendererStays ==
  ASSUME RendererAssumption, Inv, UNCHANGED <<client, backlog, written>>, listening' \in BOOLEAN
  PROVE  SocketOK' /\ Order' = Order /\ Inbox' = Inbox /\ InOnePlace'
BY DEF Inv, TypeOK, SocketOK, Connections, Order, Inbox, InOnePlace

\* Taking events from the compositor keeps the types of what it tells.
LEMMA RendererTakes ==
  ASSUME RendererAssumption, WaylandOK, NEW n \in 1..Len(events), Dispatch(n),
         configured \in BOOLEAN, closed \in BOOLEAN
  PROVE  /\ events' \in Seq({"globals", "too_few_globals", "configure", "closed"})
         /\ configured' \in BOOLEAN /\ closed' \in BOOLEAN
         /\ configured => configured'
         /\ ~closed /\ "closed" \notin ToSet(SubSeq(events, 1, n)) => ~closed'
<1>1. events \in Seq({"globals", "too_few_globals", "configure", "closed"})
  BY DEF WaylandOK
<1>2. n + 1 \in Int /\ Len(events) \in Int
  BY <1>1
<1>3. \A i \in (n + 1)..Len(events) : events[i] \in {"globals", "too_few_globals", "configure", "closed"}
  BY <1>1
<1>4. SubSeq(events, n + 1, Len(events)) \in Seq({"globals", "too_few_globals", "configure", "closed"})
  BY <1>2, <1>3, SubSeqProperties
<1> QED
  BY <1>4 DEF Dispatch

\* Steps that the line does not see.
LEMMA QuietStep ==
  ASSUME RendererAssumption, Inv, UNCHANGED <<client, shown, backlog, written>>, listening' \in BOOLEAN,
         RendererOK', WaylandOK', AcceptNeverBlocks', LoopInv'
  PROVE  Inv' /\ UNCHANGED Line!vars
BY RendererStays DEF Inv, TypeOK, Line!vars

\* bind() and listen() on the socket.
LEMMA ListenStep == ASSUME RendererAssumption, Inv, Listen PROVE Inv' /\ UNCHANGED Line!vars
<1>1. RendererOK' /\ WaylandOK'
  BY DEF Inv, TypeOK, RendererOK, WaylandOK, Listen, waylandVars
<1>2. AcceptNeverBlocks' /\ LoopInv' /\ listening' \in BOOLEAN
  BY DEF Inv, LoopInv, AcceptNeverBlocks, Listen
<1> QED
  BY <1>1, <1>2, QuietStep DEF Listen

\* The connection to the compositor, or none.
LEMMA OpenStep == ASSUME RendererAssumption, Inv, Open PROVE Inv' /\ [Line!Next]_(Line!vars)
<1>1. CASE Exit
  BY <1>1, RendererExit DEF Line!Next
<1>2. CASE pc' = "registry" /\ UNCHANGED <<ready, configured, closed, client, shown, socketVars, waylandVars>>
  <2>1. RendererOK' /\ WaylandOK'
    BY <1>2 DEF Inv, TypeOK, RendererOK, WaylandOK, waylandVars
  <2>2. AcceptNeverBlocks' /\ LoopInv' /\ listening' \in BOOLEAN
    BY <1>2 DEF Inv, TypeOK, SocketOK, LoopInv, AcceptNeverBlocks, Open, socketVars
  <2> QED
    BY <1>2, <2>1, <2>2, QuietStep DEF socketVars
<1> QED
  BY <1>1, <1>2 DEF Open

\* The globals have come, or too few of them.
LEMMA RegistryStep == ASSUME RendererAssumption, Inv, Registry PROVE Inv' /\ [Line!Next]_(Line!vars)
<1>1. CASE Exit
  BY <1>1, RendererExit DEF Line!Next
<1>2. CASE /\ ~(hangup \/ Head(events) # "globals")
           /\ events' = Tail(events) /\ committed' = TRUE /\ pc' = "configure"
           /\ UNCHANGED <<ready, configured, closed, client, shown, socketVars, hangup>>
  <2>1. events \in Seq({"globals", "too_few_globals", "configure", "closed"}) /\ events # <<>>
    BY <1>2 DEF Inv, TypeOK, WaylandOK, Registry, CanRecv
  <2>2. events' \in Seq({"globals", "too_few_globals", "configure", "closed"})
    BY <1>2, <2>1, HeadTailProperties
  <2>3. RendererOK' /\ WaylandOK'
    BY <1>2, <2>2 DEF Inv, TypeOK, RendererOK, WaylandOK
  <2>4. AcceptNeverBlocks' /\ LoopInv' /\ listening' \in BOOLEAN
    BY <1>2 DEF Inv, TypeOK, SocketOK, LoopInv, AcceptNeverBlocks, Registry, socketVars
  <2> QED
    BY <1>2, <2>3, <2>4, QuietStep DEF socketVars
<1> QED
  BY <1>1, <1>2 DEF Registry

\* Waiting for the first configure.
LEMMA ConfigureStep == ASSUME RendererAssumption, Inv, Configure PROVE Inv' /\ [Line!Next]_(Line!vars)
<1>1. CASE Exit
  BY <1>1, RendererExit DEF Line!Next
<1>2. ASSUME NEW n \in 1..Len(events), "closed" \notin ToSet(SubSeq(events, 1, n)), Dispatch(n),
             pc' = IF configured' THEN "first_frame" ELSE "configure",
             UNCHANGED <<ready, client, shown, socketVars, hangup, committed>>
      PROVE  Inv' /\ [Line!Next]_(Line!vars)
  <2>1. pc = "configure" /\ ~closed /\ ~configured /\ shown = Off /\ client = NoClient
    BY DEF Inv, LoopInv, Configure
  <2>2. /\ events' \in Seq({"globals", "too_few_globals", "configure", "closed"})
        /\ configured' \in BOOLEAN /\ closed' \in BOOLEAN /\ ~closed'
    BY <1>2, <2>1, RendererTakes DEF Inv, TypeOK, RendererOK
  <2>3. RendererOK' /\ WaylandOK'
    BY <1>2, <2>2 DEF Inv, TypeOK, RendererOK, WaylandOK
  <2>4. pc' \in {"first_frame", "configure"} /\ (configured' <=> pc' = "first_frame")
    BY <1>2, <2>2
  <2>5. shown' = Off /\ client' = NoClient /\ listening' \in BOOLEAN
    BY <1>2, <2>1 DEF Inv, TypeOK, SocketOK, socketVars
  <2>6. AcceptNeverBlocks' /\ LoopInv'
    BY <2>2, <2>4, <2>5 DEF LoopInv, AcceptNeverBlocks
  <2> QED
    BY <1>2, <2>3, <2>5, <2>6, QuietStep DEF socketVars
<1> QED
  BY <1>1, <1>2 DEF Configure

\* The first frame.
LEMMA FirstFrameStep == ASSUME RendererAssumption, Inv, FirstFrame PROVE Inv' /\ [Line!Next]_(Line!vars)
<1>1. CASE Exit
  BY <1>1, RendererExit DEF Line!Next
<1>2. CASE /\ shown' = Empty /\ pc' = "poll"
           /\ UNCHANGED <<ready, configured, closed, client, socketVars, waylandVars>>
  <2>1. RendererOK' /\ WaylandOK'
    BY <1>2 DEF Inv, TypeOK, RendererOK, WaylandOK, waylandVars
  <2>2. AcceptNeverBlocks' /\ LoopInv' /\ listening' \in BOOLEAN
    BY <1>2 DEF Inv, TypeOK, SocketOK, LoopInv, AcceptNeverBlocks, FirstFrame, socketVars, RendererAssumption
  <2>3. SocketOK' /\ Inbox' = Inbox /\ InOnePlace'
    BY <1>2, <2>2, RendererStays DEF socketVars
  <2>4. shown = Off
    BY DEF Inv, LoopInv, FirstFrame
  <2>5. Line!TurnOn
    BY <1>2, <2>3, <2>4 DEF Line!TurnOn
  <2> QED
    BY <2>1, <2>2, <2>3, <2>5 DEF Inv, TypeOK, Line!Next
<1> QED
  BY <1>1, <1>2 DEF FirstFrame

\* poll() tells what is ready.
LEMMA PollStep == ASSUME RendererAssumption, Inv, Poll PROVE Inv' /\ UNCHANGED Line!vars
<1>1. CanRecv \in BOOLEAN /\ hangup \in BOOLEAN /\ (backlog # <<>>) \in BOOLEAN
  BY DEF CanRecv, Inv, TypeOK, WaylandOK
<1>2. ready' = [wayland |-> CanRecv, hup |-> hangup, socket |-> backlog # <<>>]
  BY DEF Poll
<1>3. (ready \in [wayland : BOOLEAN, hup : BOOLEAN, socket : BOOLEAN])' /\ (ready'.socket <=> backlog # <<>>)
  BY <1>1, <1>2
<1>4. pc' \in {"recv", "accept"} /\ (pc' = "accept" => backlog # <<>>)
  BY DEF Poll
<1>5. UNCHANGED <<configured, closed, client, shown, listening, backlog, written, events, hangup, committed>>
  BY DEF Poll, socketVars, waylandVars
<1>6. RendererOK' /\ WaylandOK'
  BY <1>3, <1>4, <1>5 DEF Inv, TypeOK, RendererOK, WaylandOK
<1>7. AcceptNeverBlocks' /\ LoopInv' /\ listening' \in BOOLEAN
  BY <1>3, <1>4, <1>5 DEF Inv, TypeOK, SocketOK, LoopInv, AcceptNeverBlocks, Poll
<1> QED
  BY <1>5, <1>6, <1>7, QuietStep

\* The compositor's events, once poll() has told of them.
LEMMA RecvStep == ASSUME RendererAssumption, Inv, Recv PROVE Inv' /\ [Line!Next]_(Line!vars)
<1>1. CASE Exit
  BY <1>1, RendererExit DEF Line!Next
<1>2. ASSUME NEW n \in 1..Len(events), Dispatch(n), pc' = IF MustExit THEN "exit" ELSE AfterRecv,
             UNCHANGED <<ready, client, shown, socketVars, hangup, committed>>
      PROVE  Inv' /\ [Line!Next]_(Line!vars)
  <2>1. pc = "recv" /\ ~closed /\ configured /\ shown # Off /\ client = NoClient
        /\ (ready.socket => backlog # <<>>)
    BY DEF Inv, LoopInv, Recv
  <2>2. /\ events' \in Seq({"globals", "too_few_globals", "configure", "closed"})
        /\ configured' \in BOOLEAN /\ closed' \in BOOLEAN /\ configured'
    BY <1>2, <2>1, RendererTakes DEF Inv, TypeOK, RendererOK
  <2>3. pc' \in {"exit", "accept", "poll"} /\ (pc' = "accept" => backlog # <<>>) /\ (closed' => pc' = "exit")
    BY <1>2, <2>1 DEF MustExit, AfterRecv
  <2>4. RendererOK' /\ WaylandOK'
    BY <1>2, <2>2, <2>3 DEF Inv, TypeOK, RendererOK, WaylandOK
  <2>5. UNCHANGED <<client, shown, backlog, written>> /\ listening' \in BOOLEAN
    BY <1>2 DEF Inv, TypeOK, SocketOK, socketVars
  <2>6. AcceptNeverBlocks' /\ LoopInv'
    BY <2>1, <2>2, <2>3, <2>5 DEF LoopInv, AcceptNeverBlocks
  <2> QED
    BY <2>4, <2>5, <2>6, QuietStep
<1> QED
  BY <1>1, <1>2 DEF Recv

\* The ends of the program.
LEMMA LeaveStep == ASSUME RendererAssumption, Inv, Leave \/ Crash PROVE Inv' /\ [Line!Next]_(Line!vars)
BY RendererExit DEF Leave, Crash, Line!Next

\* The program starts.
LEMMA StartStep == ASSUME RendererAssumption, Inv, Start PROVE Inv' /\ UNCHANGED Line!vars
<1>1. RendererOK' /\ WaylandOK'
  BY DEF Inv, TypeOK, RendererOK, WaylandOK, Start, waylandVars
<1>2. AcceptNeverBlocks' /\ LoopInv' /\ listening' \in BOOLEAN
  BY DEF Inv, TypeOK, SocketOK, LoopInv, AcceptNeverBlocks, Start, socketVars
<1> QED
  BY <1>1, <1>2, QuietStep DEF Start, socketVars

\* The compositor sends an event.
LEMMA EventStep ==
  ASSUME RendererAssumption, Inv, NEW e \in {"globals", "too_few_globals", "configure", "closed"}, Event(e)
  PROVE  Inv' /\ UNCHANGED Line!vars
<1>1. events \in Seq({"globals", "too_few_globals", "configure", "closed"})
  BY DEF Inv, TypeOK, WaylandOK
<1>2. events' \in Seq({"globals", "too_few_globals", "configure", "closed"})
  BY <1>1, AppendProperties DEF Event
<1>3. RendererOK' /\ WaylandOK'
  BY <1>2 DEF Inv, TypeOK, RendererOK, WaylandOK, Event, rendererVars
<1>4. AcceptNeverBlocks' /\ LoopInv' /\ listening' \in BOOLEAN
  BY DEF Inv, TypeOK, SocketOK, LoopInv, AcceptNeverBlocks, Event, rendererVars, socketVars
<1> QED
  BY <1>3, <1>4, QuietStep DEF Event, rendererVars, socketVars

\* All that the compositor does.
LEMMA CompositorStep ==
  ASSUME RendererAssumption, Inv, AnswerSync \/ SendConfigure \/ SendClosed \/ HangUp
  PROVE  Inv' /\ UNCHANGED Line!vars
<1>1. CASE AnswerSync
  BY <1>1, EventStep DEF AnswerSync
<1>2. CASE SendConfigure
  BY <1>2, EventStep DEF SendConfigure
<1>3. CASE SendClosed
  BY <1>3, EventStep DEF SendClosed
<1>4. CASE HangUp
  <2>1. RendererOK' /\ WaylandOK'
    BY <1>4 DEF Inv, TypeOK, RendererOK, WaylandOK, HangUp, rendererVars
  <2>2. AcceptNeverBlocks' /\ LoopInv' /\ listening' \in BOOLEAN
    BY <1>4 DEF Inv, TypeOK, SocketOK, LoopInv, AcceptNeverBlocks, HangUp, rendererVars, socketVars
  <2> QED
    BY <1>4, <2>1, <2>2, QuietStep DEF HangUp, rendererVars, socketVars
<1> QED
  BY <1>1, <1>2, <1>3, <1>4

\* Sequences with an element put before or after them.
LEMMA FrontAndBack ==
  ASSUME NEW S, NEW q \in Seq(S), NEW x \in S
  PROVE  /\ Len(<<x>> \o q) = Len(q) + 1 /\ (<<x>> \o q)[1] = x /\ <<x>> \o q \in Seq(S)
         /\ \A i \in 1..Len(q) : (<<x>> \o q)[i + 1] = q[i]
         /\ Tail(<<x>> \o q) = q
         /\ \A y \in S : <<x>> \o Append(q, y) = Append(<<x>> \o q, y)
<1>1. <<x>> \in Seq(S) /\ Len(<<x>>) = 1 /\ <<x>>[1] = x /\ Len(q) \in Nat
  OBVIOUS
<1>2. /\ <<x>> \o q \in Seq(S) /\ Len(<<x>> \o q) = 1 + Len(q)
      /\ \A i \in 1 .. 1 + Len(q) : (<<x>> \o q)[i] = IF i <= 1 THEN <<x>>[i] ELSE q[i - 1]
  BY <1>1, ConcatProperties
<1>3. (<<x>> \o q)[1] = x /\ \A i \in 1..Len(q) : (<<x>> \o q)[i + 1] = q[i]
  BY <1>1, <1>2
<1>4. Tail(<<x>> \o q) = q
  <2> DEFINE r == <<x>> \o q
  <2>1. r \in Seq(S) /\ Len(r) = Len(q) + 1 /\ \A i \in 1..Len(q) : r[i + 1] = q[i]
    BY <1>1, <1>2, <1>3
  <2> HIDE DEF r
  <2>2. r # <<>>
    BY <1>1, <2>1
  <2>3. /\ Tail(r) \in Seq(S) /\ Len(Tail(r)) = Len(r) - 1
        /\ \A i \in 1..Len(Tail(r)) : Tail(r)[i] = r[i + 1]
    BY <2>1, <2>2, HeadTailProperties
  <2>4. Tail(r) = q
    BY <1>1, <2>1, <2>3, SeqEqual
  <2> QED
    BY <2>4 DEF r
<1>5. ASSUME NEW y \in S PROVE <<x>> \o Append(q, y) = Append(<<x>> \o q, y)
  <2> DEFINE a == Append(q, y)
             l == <<x>> \o a
             r == Append(<<x>> \o q, y)
  <2>1. /\ a \in Seq(S) /\ Len(a) = Len(q) + 1
        /\ \A i \in 1..Len(q) : a[i] = q[i]
        /\ a[Len(q) + 1] = y
    BY <1>1, AppendProperties
  <2>2. /\ r \in Seq(S) /\ Len(r) = Len(q) + 2 /\ r[Len(q) + 2] = y
        /\ \A i \in 1 .. Len(q) + 1 : r[i] = (<<x>> \o q)[i]
    BY <1>1, <1>2, AppendProperties
  <2> HIDE DEF a, r
  <2>3. /\ l \in Seq(S) /\ Len(l) = 1 + Len(a)
        /\ \A i \in 1 .. 1 + Len(a) : l[i] = IF i <= 1 THEN <<x>>[i] ELSE a[i - 1]
    BY <1>1, <2>1, ConcatProperties
  <2> HIDE DEF l
  <2>4. ASSUME NEW i \in 1 .. Len(q) + 2 PROVE l[i] = r[i]
    <3>1. CASE i = 1
      BY <1>1, <1>3, <2>1, <2>2, <2>3, <3>1
    <3>2. CASE i = Len(q) + 2
      BY <1>1, <2>1, <2>2, <2>3, <3>2
    <3>3. CASE i \in 2 .. Len(q) + 1
      <4>1. i - 1 \in 1..Len(q) /\ i \in 1 .. 1 + Len(a) /\ ~(i <= 1)
        BY <1>1, <2>1, <3>3
      <4>2. l[i] = q[i - 1]
        BY <2>1, <2>3, <4>1
      <4>3. (<<x>> \o q)[i] = q[i - 1]
        BY <1>2, <3>3, <4>1, <1>1
      <4>4. r[i] = (<<x>> \o q)[i]
        BY <2>2, <3>3, <1>1
      <4> QED
        BY <4>2, <4>3, <4>4
    <3> QED
      BY <1>1, <3>1, <3>2, <3>3
  <2>5. l = r
    BY <1>1, <2>1, <2>2, <2>3, <2>4, SeqEqual
  <2> QED
    BY <2>5 DEF l, a, r
<1> QED
  BY <1>1, <1>2, <1>3, <1>4, <1>5

\* Appending adds one element.
LEMMA AppendSet ==
  ASSUME NEW S, NEW q \in Seq(S), NEW y \in S
  PROVE  ToSet(Append(q, y)) = ToSet(q) \cup {y}
<1> DEFINE a == Append(q, y)
<1>1. /\ a \in Seq(S) /\ Len(a) = Len(q) + 1 /\ Len(q) \in Nat
      /\ \A i \in 1..Len(q) : a[i] = q[i]
      /\ a[Len(q) + 1] = y
  BY AppendProperties
<1> HIDE DEF a
<1>2. ToSet(a) = {a[i] : i \in 1..Len(a)} /\ ToSet(q) = {q[i] : i \in 1..Len(q)}
  BY <1>1 DEF ToSet
<1>3. \A i \in 1..Len(a) : i \in 1..Len(q) \/ i = Len(q) + 1
  BY <1>1
<1>4. ToSet(a) \subseteq ToSet(q) \cup {y}
  BY <1>1, <1>2, <1>3
<1>5. \A i \in 1..Len(q) : i \in 1..Len(a)
  BY <1>1
<1>6. Len(q) + 1 \in 1..Len(a)
  BY <1>1
<1>7. ToSet(q) \cup {y} \subseteq ToSet(a)
  BY <1>1, <1>2, <1>5, <1>6
<1>8. ToSet(a) = ToSet(q) \cup {y}
  BY <1>4, <1>7
<1> QED
  BY <1>8 DEF a

\* A sequence is its head and its tail.
LEMMA TailSet ==
  ASSUME NEW S, NEW q \in Seq(S), q # <<>>
  PROVE  /\ Head(q) \in S /\ Tail(q) \in Seq(S) /\ <<Head(q)>> \o Tail(q) = q
         /\ ToSet(q) = ToSet(Tail(q)) \cup {Head(q)}
<1> DEFINE t == Tail(q)
           h == Head(q)
           a == <<h>> \o t
<1>1. /\ h \in S /\ h = q[1] /\ t \in Seq(S) /\ Len(q) \in Nat /\ Len(q) > 0 /\ Len(t) = Len(q) - 1
      /\ \A i \in 1..Len(t) : t[i] = q[i + 1]
  BY HeadTailProperties
<1> HIDE DEF t, h
<1>2. /\ Len(a) = Len(t) + 1 /\ a[1] = h /\ a \in Seq(S)
      /\ \A i \in 1..Len(t) : a[i + 1] = t[i]
  BY <1>1, FrontAndBack
<1> HIDE DEF a
<1>3. \A i \in 1..Len(q) : i = 1 \/ (i - 1 \in 1..Len(t) /\ (i - 1) + 1 = i)
  BY <1>1
<1>4. \A i \in 1..Len(q) : a[i] = q[i]
  <2>1. ASSUME NEW i \in 1..Len(q) PROVE a[i] = q[i]
    <3>1. CASE i = 1
      BY <1>1, <1>2, <3>1
    <3>2. CASE i - 1 \in 1..Len(t) /\ (i - 1) + 1 = i
      BY <1>1, <1>2, <3>2
    <3> QED
      BY <1>3, <3>1, <3>2
  <2> QED
    BY <2>1
<1>5. a = q
  BY <1>1, <1>2, <1>4, SeqEqual
<1>6. ToSet(t) = {t[i] : i \in 1..Len(t)} /\ ToSet(q) = {q[i] : i \in 1..Len(q)}
  BY <1>1 DEF ToSet
<1>7. ToSet(q) \subseteq ToSet(t) \cup {h}
  <2>1. ASSUME NEW i \in 1..Len(q) PROVE q[i] \in ToSet(t) \cup {h}
    <3>1. CASE i = 1
      BY <1>1, <3>1
    <3>2. CASE i - 1 \in 1..Len(t) /\ (i - 1) + 1 = i
      BY <1>1, <1>6, <3>2
    <3> QED
      BY <1>3, <3>1, <3>2
  <2> QED
    BY <1>6, <2>1
<1>8. \A i \in 1..Len(t) : i + 1 \in 1..Len(q)
  BY <1>1
<1>9. 1 \in 1..Len(q)
  BY <1>1
<1>10. ToSet(t) \cup {h} \subseteq ToSet(q)
  BY <1>1, <1>6, <1>8, <1>9
<1>11. ToSet(q) = ToSet(t) \cup {h}
  BY <1>7, <1>10
<1> QED
  BY <1>1, <1>5, <1>11 DEF a, t, h

\* accept() takes the first of those that wait; the order stays.
LEMMA AcceptStep == ASSUME RendererAssumption, Inv, Accept PROVE Inv' /\ UNCHANGED Line!vars
<1>1. /\ pc = "accept" /\ client = NoClient /\ configured /\ ~closed /\ shown # Off
      /\ backlog \in Seq(Senders) /\ backlog # <<>>
  BY DEF Inv, TypeOK, SocketOK, LoopInv, Accept
<1>2. /\ client' = Head(backlog) /\ backlog' = Tail(backlog) /\ pc' = "read"
      /\ UNCHANGED <<ready, configured, closed, shown, listening, written, events, hangup, committed>>
  BY DEF Accept, waylandVars
<1>3. /\ client' \in Senders /\ backlog' \in Seq(Senders) /\ <<client'>> \o backlog' = backlog
      /\ ToSet(backlog) = ToSet(backlog') \cup {client'}
  BY <1>1, <1>2, TailSet
<1>4. client' # NoClient
  BY <1>3 DEF RendererAssumption
<1>5. Order' = Order
  BY <1>1, <1>3, <1>4 DEF Order
<1>6. Connections' = Connections
  BY <1>1, <1>3, <1>4 DEF Connections
<1>7. Inbox' = Inbox /\ InOnePlace'
  BY <1>2, <1>5 DEF Inv, Inbox, InOnePlace
<1>8. RendererOK' /\ WaylandOK'
  BY <1>2, <1>3 DEF Inv, TypeOK, RendererOK, WaylandOK
<1>9. SocketOK'
  BY <1>2, <1>3, <1>6 DEF Inv, TypeOK, SocketOK
<1>10. LoopInv' /\ AcceptNeverBlocks'
  BY <1>1, <1>2, <1>4 DEF LoopInv, AcceptNeverBlocks
<1> QED
  BY <1>2, <1>7, <1>8, <1>9, <1>10 DEF Inv, TypeOK, Line!vars

\* The end of an iteration: the connection is gone and the next one is first.
LEMMA ClosedStep ==
  ASSUME RendererAssumption, Inv, client # NoClient, CloseClient
  PROVE  /\ SocketOK' /\ InOnePlace' /\ client' = NoClient
         /\ Inbox # <<>> /\ Inbox' = Tail(Inbox)
         /\ Head(Inbox) = [from |-> client, body |-> written[client]]
<1>1. /\ backlog \in Seq(Senders) /\ client \in Senders /\ Len(backlog) \in Nat
      /\ listening \in BOOLEAN /\ DOMAIN written = Connections
      /\ \A s \in DOMAIN written : written[s] \in Messages \cup {Unsent, Nothing}
  BY DEF Inv, TypeOK, RendererOK, SocketOK
<1>2. client' = NoClient /\ backlog' = backlog /\ listening' = listening
  BY DEF CloseClient
<1>3. Order = <<client>> \o backlog /\ Order' = backlog
  BY <1>2 DEF Order
<1>4. /\ Order \in Seq(Senders) /\ Len(Order) = Len(backlog) + 1 /\ Order[1] = client
      /\ \A i \in 1..Len(backlog) : Order[i + 1] = backlog[i]
  BY <1>1, <1>3, FrontAndBack
<1>5. \A i \in 1..Len(backlog) : backlog[i] # client
  <2>1. ASSUME NEW i \in 1..Len(backlog), backlog[i] = client PROVE FALSE
    <3>1. i + 1 \in 1..Len(Order) /\ 1 \in 1..Len(Order) /\ i + 1 # 1
      BY <1>1, <1>4
    <3>2. Order[i + 1] = Order[1]
      BY <1>4, <2>1
    <3> QED
      BY <3>1, <3>2 DEF Inv, InOnePlace
  <2> QED
    BY <2>1
<1>6. ToSet(backlog) = {backlog[i] : i \in 1..Len(backlog)}
  BY <1>1 DEF ToSet
<1>7. Connections = ToSet(backlog) \cup {client} /\ Connections' = ToSet(backlog)
  BY <1>2 DEF Connections
<1>8. client \notin ToSet(backlog)
  BY <1>5, <1>6
<1>9. /\ DOMAIN written' = Connections'
      /\ \A s \in Connections' : written'[s] = written[s] /\ s \in DOMAIN written
  BY <1>1, <1>7, <1>8 DEF CloseClient, Restrict
<1>10. SocketOK'
  BY <1>1, <1>2, <1>9 DEF SocketOK
<1>11. InOnePlace'
  <2>1. ASSUME NEW i \in 1..Len(backlog), NEW j \in 1..Len(backlog), backlog[i] = backlog[j] PROVE i = j
    <3>1. i + 1 \in 1..Len(Order) /\ j + 1 \in 1..Len(Order)
      BY <1>1, <1>4
    <3>2. Order[i + 1] = Order[j + 1]
      BY <1>4, <2>1
    <3>3. i + 1 = j + 1
      BY <3>1, <3>2 DEF Inv, InOnePlace
    <3> QED
      BY <3>3
  <2> QED
    BY <1>3, <2>1 DEF InOnePlace
<1>12. /\ Inbox \in Seq([from : Senders, body : Messages \cup {Unsent, Nothing}])
       /\ Len(Inbox) = Len(Order) /\ \A i \in 1..Len(Order) : Inbox[i] = [from |-> Order[i], body |-> written[Order[i]]]
  BY InboxFacts DEF Inv
<1>13. Inbox # <<>> /\ Head(Inbox) = [from |-> client, body |-> written[client]]
  <2>1. Len(Inbox) = Len(backlog) + 1 /\ 1 \in 1..Len(Order)
    BY <1>1, <1>4, <1>12
  <2>2. Inbox # <<>>
    BY <1>1, <2>1
  <2>3. Head(Inbox) = Inbox[1]
    BY <1>12, <2>2, HeadTailProperties
  <2> QED
    BY <1>4, <1>12, <2>1, <2>2, <2>3
<1>14. Inbox' = Tail(Inbox)
  <2>1. /\ Tail(Inbox) \in Seq([from : Senders, body : Messages \cup {Unsent, Nothing}])
        /\ Len(Tail(Inbox)) = Len(backlog)
        /\ \A i \in 1..Len(Tail(Inbox)) : Tail(Inbox)[i] = Inbox[i + 1]
    BY <1>1, <1>4, <1>12, <1>13, HeadTailProperties
  <2>2. Inbox' = [i \in 1..Len(backlog) |-> [from |-> backlog[i], body |-> written'[backlog[i]]]]
    BY <1>3 DEF Inbox
  <2>3. \A i \in 1..Len(backlog) : backlog[i] \in Senders /\ backlog[i] \in Connections'
    BY <1>1, <1>6, <1>7
  <2>4. \A i \in 1..Len(backlog) : written'[backlog[i]] = written[backlog[i]]
                                  /\ written[backlog[i]] \in Messages \cup {Unsent, Nothing}
    BY <1>1, <1>9, <2>3
  <2>5. Inbox' \in [1..Len(backlog) -> [from : Senders, body : Messages \cup {Unsent, Nothing}]]
    BY <2>2, <2>3, <2>4
  <2>6. Inbox' \in Seq([from : Senders, body : Messages \cup {Unsent, Nothing}]) /\ Len(Inbox') = Len(backlog)
    BY <1>1, <2>5, FunctionIsSequence
  <2>7. ASSUME NEW i \in 1..Len(backlog) PROVE Inbox'[i] = Tail(Inbox)[i]
    <3>1. i + 1 \in 1..Len(Order)
      BY <1>1, <1>4
    <3>2. Tail(Inbox)[i] = [from |-> backlog[i], body |-> written[backlog[i]]]
      BY <1>4, <1>12, <2>1, <3>1
    <3> QED
      BY <2>2, <2>4, <3>2
  <2> QED
    BY <1>1, <2>1, <2>6, <2>7, SeqEqual
<1> QED
  BY <1>2, <1>10, <1>11, <1>13, <1>14

\* A message is read; one that cannot be used closes the connection.
LEMMA ReadStep == ASSUME RendererAssumption, Inv, Read PROVE Inv' /\ [Line!Next]_(Line!vars)
<1>1. /\ pc = "read" /\ client # NoClient /\ client \in Senders /\ configured /\ ~closed /\ shown # Off
      /\ written[client] # Unsent /\ UNCHANGED waylandVars
  BY DEF Inv, TypeOK, RendererOK, LoopInv, Read
<1>2. client \in DOMAIN written /\ written[client] \in Messages \cup {Nothing}
  BY <1>1 DEF Inv, TypeOK, SocketOK, Connections
<1>3. CASE Usable(written[client])
  <2>1. pc' = "render" /\ UNCHANGED <<ready, configured, closed, client, shown, listening, backlog, written>>
    BY <1>3 DEF Read, socketVars
  <2>2. RendererOK' /\ WaylandOK'
    BY <1>1, <2>1 DEF Inv, TypeOK, RendererOK, WaylandOK, waylandVars
  <2>3. LoopInv' /\ AcceptNeverBlocks' /\ listening' \in BOOLEAN
    BY <1>1, <1>3, <2>1 DEF Inv, TypeOK, SocketOK, LoopInv, AcceptNeverBlocks, Usable
  <2> QED
    BY <2>1, <2>2, <2>3, QuietStep
<1>4. CASE ~Usable(written[client])
  <2>1. CloseClient /\ shown' = shown
    BY <1>4 DEF Read
  <2>2. pc' = "poll" /\ client' = NoClient /\ UNCHANGED <<ready, configured, closed, listening, backlog>>
    BY <2>1 DEF CloseClient
  <2>3. RendererOK' /\ WaylandOK'
    BY <1>1, <2>1, <2>2 DEF Inv, TypeOK, RendererOK, WaylandOK, waylandVars
  <2>4. LoopInv' /\ AcceptNeverBlocks'
    BY <1>1, <2>1, <2>2 DEF LoopInv, AcceptNeverBlocks
  <2>5. /\ SocketOK' /\ InOnePlace' /\ Inbox # <<>> /\ Inbox' = Tail(Inbox)
        /\ Head(Inbox) = [from |-> client, body |-> written[client]]
    BY <1>1, <2>1, ClosedStep
  <2>6. Head(Inbox).body \in {Nothing} \cup (Messages \ Valid)
    BY <1>2, <1>4, <2>5 DEF Usable
  <2>7. Line!PassOver
    BY <1>1, <2>1, <2>5, <2>6 DEF Line!PassOver
  <2> QED
    BY <2>3, <2>4, <2>5, <2>7 DEF Inv, TypeOK, Line!Next
<1> QED
  BY <1>3, <1>4

\* A valid message becomes the line shown.
LEMMA RenderStep == ASSUME RendererAssumption, Inv, Render PROVE Inv' /\ [Line!Next]_(Line!vars)
<1>1. CASE Exit
  BY <1>1, RendererExit DEF Line!Next
<1>2. CASE shown' = written[client] /\ CloseClient /\ UNCHANGED waylandVars
  <2>1. /\ pc = "render" /\ client # NoClient /\ configured /\ ~closed /\ shown # Off
        /\ written[client] \in Valid
    BY DEF Inv, LoopInv, Render
  <2>2. pc' = "poll" /\ client' = NoClient /\ UNCHANGED <<ready, configured, closed, listening, backlog>>
    BY <1>2 DEF CloseClient
  <2>3. RendererOK' /\ WaylandOK'
    BY <1>2, <2>1, <2>2 DEF Inv, TypeOK, RendererOK, WaylandOK, waylandVars
  <2>4. shown' # Off
    BY <1>2, <2>1 DEF RendererAssumption
  <2>5. LoopInv' /\ AcceptNeverBlocks'
    BY <2>1, <2>2, <2>4 DEF LoopInv, AcceptNeverBlocks
  <2>6. /\ SocketOK' /\ InOnePlace' /\ Inbox # <<>> /\ Inbox' = Tail(Inbox)
        /\ Head(Inbox) = [from |-> client, body |-> written[client]]
    BY <1>2, <2>1, ClosedStep
  <2>7. Line!Show
    BY <1>2, <2>1, <2>6 DEF Line!Show
  <2> QED
    BY <2>3, <2>5, <2>6, <2>7 DEF Inv, TypeOK, Line!Next
<1> QED
  BY <1>1, <1>2 DEF Render

\* A provider connects, and stands last in the order.
LEMMA ConnectStep ==
  ASSUME RendererAssumption, Inv, NEW s \in Senders, Connect(s)
  PROVE  Inv' /\ Line!Arrive(s)
<1> DEFINE R == [from : Senders, body : Messages \cup {Unsent, Nothing}]
<1>1. /\ backlog \in Seq(Senders) /\ client \in Senders \cup {NoClient} /\ Len(backlog) \in Nat
      /\ listening \in BOOLEAN /\ DOMAIN written = Connections
      /\ \A c \in DOMAIN written : written[c] \in Messages \cup {Unsent, Nothing}
  BY DEF Inv, TypeOK, RendererOK, SocketOK
<1>2. /\ s \notin Connections /\ backlog' = Append(backlog, s)
      /\ UNCHANGED <<pc, ready, configured, closed, client, shown, listening, events, hangup, committed>>
  BY DEF Connect, rendererVars, waylandVars
<1>3. written' = [c \in DOMAIN written \cup {s} |-> IF c = s THEN Unsent ELSE written[c]]
  BY DEF Connect
<1>4. /\ DOMAIN written' = Connections \cup {s} /\ written'[s] = Unsent
      /\ \A c \in Connections : written'[c] = written[c] /\ c # s
  BY <1>1, <1>2, <1>3
<1>5. backlog' \in Seq(Senders) /\ ToSet(backlog') = ToSet(backlog) \cup {s} /\ backlog' # <<>>
  <2>1. backlog' \in Seq(Senders) /\ Len(backlog') = Len(backlog) + 1
    BY <1>1, <1>2, AppendProperties
  <2>2. backlog' # <<>>
    BY <1>1, <2>1
  <2> QED
    BY <1>1, <1>2, <2>1, <2>2, AppendSet
<1>6. Connections' = Connections \cup {s}
  BY <1>2, <1>5 DEF Connections
<1>7. SocketOK'
  BY <1>1, <1>2, <1>4, <1>5, <1>6 DEF SocketOK
<1>8. RendererOK' /\ WaylandOK'
  BY <1>2 DEF Inv, TypeOK, RendererOK, WaylandOK
<1>9. AcceptNeverBlocks' /\ LoopInv'
  <2>1. client # NoClient => written'[client] = written[client]
    BY <1>4 DEF Connections
  <2>2. pc' = "render" => written'[client'] \in Valid
    BY <1>2, <2>1 DEF Inv, LoopInv
  <2> QED
    BY <1>2, <1>5, <2>2 DEF Inv, LoopInv, AcceptNeverBlocks
<1>10. /\ Order \in Seq(Senders) /\ Len(Order) \in Nat
       /\ Connections = {Order[i] : i \in 1..Len(Order)}
  BY OrderFacts DEF Inv
<1>11. Order' = Append(Order, s)
  <2>1. CASE client = NoClient
    BY <1>2, <2>1 DEF Order
  <2>2. CASE client # NoClient
    <3>1. client \in Senders
      BY <1>1, <2>2
    <3>2. <<client>> \o Append(backlog, s) = Append(<<client>> \o backlog, s)
      BY <1>1, <3>1, FrontAndBack
    <3> QED
      BY <1>2, <2>2, <3>2 DEF Order
  <2> QED
    BY <2>1, <2>2
<1>12. /\ Order' \in Seq(Senders) /\ Len(Order') = Len(Order) + 1
       /\ \A i \in 1..Len(Order) : Order'[i] = Order[i]
       /\ Order'[Len(Order) + 1] = s
  BY <1>10, <1>11, AppendProperties
<1>13. \A i \in 1..Len(Order') : i \in 1..Len(Order) \/ i = Len(Order) + 1
  BY <1>10, <1>12
<1>14. InOnePlace'
  <2>1. \A i \in 1..Len(Order) : Order[i] # s
    BY <1>2, <1>10
  <2>2. ASSUME NEW i \in 1..Len(Order'), NEW j \in 1..Len(Order'), Order'[i] = Order'[j] PROVE i = j
    <3>1. CASE i \in 1..Len(Order) /\ j \in 1..Len(Order)
      BY <1>12, <2>2, <3>1 DEF Inv, InOnePlace
    <3>2. CASE i \in 1..Len(Order) /\ j = Len(Order) + 1
      BY <1>12, <2>1, <2>2, <3>2
    <3>3. CASE i = Len(Order) + 1 /\ j \in 1..Len(Order)
      BY <1>12, <2>1, <2>2, <3>3
    <3> QED
      BY <1>13, <3>1, <3>2, <3>3
  <2> QED
    BY <2>2 DEF InOnePlace
<1>15. /\ Inbox \in Seq(R) /\ Len(Inbox) = Len(Order) /\ DOMAIN Inbox = 1..Len(Order)
       /\ \A i \in 1..Len(Order) : Inbox[i] = [from |-> Order[i], body |-> written[Order[i]]]
  BY InboxFacts DEF Inv
<1>16. Inbox' = Append(Inbox, [from |-> s, body |-> Unsent])
  <2> DEFINE new == [from |-> s, body |-> Unsent]
             a == Append(Inbox, new)
  <2>1. new \in R
    OBVIOUS
  <2>2. /\ a \in Seq(R) /\ Len(a) = Len(Inbox) + 1
        /\ \A i \in 1..Len(Inbox) : a[i] = Inbox[i]
        /\ a[Len(Inbox) + 1] = new
    BY <1>15, <2>1, AppendProperties
  <2> HIDE DEF a
  <2>3. Inbox' = [i \in 1..Len(Order') |-> [from |-> Order'[i], body |-> written'[Order'[i]]]]
    BY DEF Inbox
  <2>4. ASSUME NEW i \in 1..Len(Order') PROVE Inbox'[i] = a[i] /\ a[i] \in R
    <3>1. CASE i \in 1..Len(Order)
      <4>1. Order'[i] = Order[i] /\ Order[i] \in Connections
        BY <1>10, <1>12, <3>1
      <4>2. Inbox'[i] = [from |-> Order[i], body |-> written[Order[i]]]
        BY <1>4, <2>3, <4>1
      <4>3. Inbox[i] \in R
        BY <1>15, <3>1
      <4> QED
        BY <1>15, <2>2, <3>1, <4>2, <4>3
    <3>2. CASE i = Len(Order) + 1
      <4>1. Inbox'[i] = new
        BY <1>4, <1>12, <2>3, <3>2
      <4> QED
        BY <1>15, <2>1, <2>2, <3>2, <4>1
    <3> QED
      BY <1>13, <3>1, <3>2
  <2>5. Inbox' = [i \in 1..Len(Order') |-> Inbox'[i]]
    BY <2>3
  <2>6. Inbox' \in [1..Len(Order') -> R] /\ Len(Order') \in Nat
    BY <1>10, <1>12, <2>4, <2>5
  <2>7. Inbox' \in Seq(R) /\ Len(Inbox') = Len(Order')
    BY <2>6, FunctionIsSequence
  <2>8. Inbox' = a
    BY <1>12, <1>15, <2>2, <2>4, <2>7, SeqEqual
  <2> QED
    BY <2>8 DEF a
<1>17. \A i \in DOMAIN Inbox : Inbox[i].from # s
  BY <1>2, <1>10, <1>15
<1>18. Line!Arrive(s)
  BY <1>2, <1>16, <1>17 DEF Line!Arrive
<1> QED
  BY <1>7, <1>8, <1>9, <1>14, <1>18 DEF Inv, TypeOK

\* A provider writes its message and closes.
LEMMA SendStep ==
  ASSUME RendererAssumption, Inv, NEW s \in Senders, SendAndClose(s)
  PROVE  Inv' /\ Line!Next
<1> DEFINE R == [from : Senders, body : Messages \cup {Unsent, Nothing}]
<1>1. PICK body \in Messages \cup {Nothing} : written' = [written EXCEPT ![s] = body]
  BY DEF SendAndClose
<1>2. /\ s \in Connections /\ written[s] = Unsent
      /\ UNCHANGED <<pc, ready, configured, closed, client, shown, listening, backlog, events, hangup, committed>>
  BY DEF SendAndClose, rendererVars, waylandVars
<1>3. /\ DOMAIN written = Connections
      /\ \A c \in DOMAIN written : written[c] \in Messages \cup {Unsent, Nothing}
  BY DEF Inv, TypeOK, SocketOK
<1>4. /\ DOMAIN written' = Connections /\ written'[s] = body
      /\ \A c \in Connections \ {s} : written'[c] = written[c]
  BY <1>1, <1>2, <1>3
<1>5. Order' = Order /\ Connections' = Connections
  BY <1>2 DEF Order, Connections
<1>6. SocketOK'
  <2>1. \A c \in DOMAIN written' : written'[c] \in Messages \cup {Unsent, Nothing}
    BY <1>3, <1>4
  <2> QED
    BY <1>2, <1>4, <1>5, <2>1 DEF Inv, TypeOK, SocketOK
<1>7. RendererOK' /\ WaylandOK' /\ InOnePlace'
  BY <1>2, <1>5 DEF Inv, TypeOK, RendererOK, WaylandOK, InOnePlace
<1>8. AcceptNeverBlocks' /\ LoopInv'
  <2>1. pc = "render" => client # NoClient /\ written[client] \in Valid
    BY DEF Inv, LoopInv
  <2>2. pc = "render" => client # s /\ client \in Connections
    BY <1>2, <2>1 DEF RendererAssumption, Connections
  <2>3. pc' = "render" => written'[client'] \in Valid
    BY <1>2, <1>4, <2>1, <2>2
  <2> QED
    BY <1>2, <2>3 DEF Inv, LoopInv, AcceptNeverBlocks
<1>9. Len(Order) \in Nat /\ Connections = {Order[i] : i \in 1..Len(Order)}
  BY OrderFacts DEF Inv
<1>10. PICK k \in 1..Len(Order) : Order[k] = s
  BY <1>2, <1>9
<1>11. \A i \in 1..Len(Order) : Order[i] \in Connections /\ (Order[i] = s <=> i = k)
  BY <1>9, <1>10 DEF Inv, InOnePlace
<1>12. /\ Inbox \in Seq(R) /\ Len(Inbox) = Len(Order) /\ DOMAIN Inbox = 1..Len(Order)
       /\ \A i \in 1..Len(Order) : Inbox[i] = [from |-> Order[i], body |-> written[Order[i]]]
  BY InboxFacts DEF Inv
<1>13. Inbox[k].body = Unsent /\ k \in DOMAIN Inbox
  BY <1>2, <1>10, <1>12
<1>14. Inbox' = [Inbox EXCEPT ![k].body = body]
  <2> DEFINE e == [Inbox EXCEPT ![k].body = body]
  <2>1. Inbox' = [i \in 1..Len(Order) |-> [from |-> Order[i], body |-> written'[Order[i]]]]
    BY <1>5 DEF Inbox
  <2>2. Inbox = [i \in 1..Len(Order) |-> Inbox[i]]
    BY DEF Inbox
  <2>3. /\ DOMAIN e = 1..Len(Order) /\ e = [i \in 1..Len(Order) |-> e[i]]
        /\ e[k] = [Inbox[k] EXCEPT !.body = body]
        /\ \A i \in 1..Len(Order) \ {k} : e[i] = Inbox[i]
    BY <1>12, <2>2
  <2> HIDE DEF e
  <2>4. e[k] = [from |-> s, body |-> body]
    <3>1. Inbox[k] = [from |-> s, body |-> Unsent]
      BY <1>2, <1>10, <1>12
    <3> QED
      BY <2>3, <3>1
  <2>5. ASSUME NEW i \in 1..Len(Order) PROVE Inbox'[i] = e[i]
    <3>1. CASE i = k
      BY <1>4, <1>10, <2>1, <2>4, <3>1
    <3>2. CASE i # k
      <4>1. Order[i] \in Connections \ {s}
        BY <1>11, <3>2
      <4>2. Inbox'[i] = [from |-> Order[i], body |-> written[Order[i]]]
        BY <1>4, <2>1, <4>1
      <4> QED
        BY <1>12, <2>3, <3>2, <4>2
    <3> QED
      BY <3>1, <3>2
  <2>6. Inbox' = [i \in 1..Len(Order) |-> Inbox'[i]]
    BY <2>1
  <2>7. Inbox' = e
    BY <2>3, <2>5, <2>6
  <2> QED
    BY <2>7 DEF e
<1>15. Line!Write(k, body)
  BY <1>2, <1>13, <1>14 DEF Line!Write
<1> QED
  BY <1>1, <1>6, <1>7, <1>8, <1>13, <1>15 DEF Inv, TypeOK, Line!Next

\* Every step keeps the inductive invariant, and is a step of the line or none.
LEMMA RendererNext ==
  ASSUME RendererAssumption, Inv, [Next]_vars
  PROVE  Inv' /\ [Line!Next]_(Line!vars)
<1>1. CASE UNCHANGED vars
  <2>1. UNCHANGED <<pc, ready, configured, closed, client, shown, listening, backlog, written, events, hangup, committed>>
    BY <1>1 DEF vars, rendererVars, socketVars, waylandVars
  <2>2. RendererOK' /\ WaylandOK' /\ AcceptNeverBlocks' /\ LoopInv' /\ listening' \in BOOLEAN
    BY <2>1 DEF Inv, TypeOK, RendererOK, SocketOK, WaylandOK, AcceptNeverBlocks, LoopInv
  <2> QED
    BY <2>1, <2>2, QuietStep
<1>2. CASE RendererStep
  BY <1>2, ListenStep, OpenStep, RegistryStep, ConfigureStep, FirstFrameStep, PollStep, RecvStep,
     LeaveStep, AcceptStep, ReadStep, RenderStep DEF RendererStep
<1>3. CASE Crash \/ Start
  BY <1>3, LeaveStep, StartStep
<1>4. CASE \E s \in Senders : Connect(s) \/ SendAndClose(s)
  BY <1>4, ConnectStep, SendStep DEF Line!Next
<1>5. CASE AnswerSync \/ SendConfigure \/ SendClosed \/ HangUp
  BY <1>5, CompositorStep
<1> QED
  BY <1>1, <1>2, <1>3, <1>4, <1>5 DEF Next

\* For every number of senders and messages: accept() always has a connection, no frame
\* without a configured surface, and the whole inductive invariant.
THEOREM RendererHolds ==
  ASSUME RendererAssumption PROVE Spec => []Inv
<1>1. Init => Inv
  BY RendererInit
<1>2. Inv /\ [Next]_vars => Inv'
  BY RendererNext
<1> QED
  BY <1>1, <1>2, PTL DEF Spec

\* The renderer shows messages as StatusLine says: its loop implements that specification.
THEOREM RendererImplementsLine ==
  ASSUME RendererAssumption PROVE Spec => LineSpec
<1>1. Init => Line!Init
  BY RendererInit
<1>2. Inv /\ [Next]_vars => [Line!Next]_(Line!vars)
  BY RendererNext
<1>3. Spec => []Inv
  BY RendererHolds
<1> QED
  BY <1>1, <1>2, <1>3, PTL DEF Spec, LineSpec, Line!Spec

\* What the runs check of the loop follows from the inductive invariant.
LEMMA LoopSafety == ASSUME Inv PROVE AcceptNeverBlocks /\ FramesOnlyWhileConfigured
BY DEF Inv, LoopInv, FramesOnlyWhileConfigured
==============================================================================
