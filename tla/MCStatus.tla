---------------------------------- MODULE MCStatus ----------------------------------
(***************************************************************************)
(* The program: its main loop with its senders and the compositor, the     *)
(* buffers of its connection, and the functions that read a message,       *)
(* choose its colour, draw it and place its frames; and the service that   *)
(* starts it.  One of the components runs in a behaviour.                  *)
(***************************************************************************)
EXTENDS Integers, Sequences, TLC, SequenceTheorems, TLAPS

CONSTANTS s1, s2, s3, m1, m2, garbage, Unsent, Nothing, Off, Empty, NoClient,
  NaN, r1, r2, Nobody,
  ReceiveSizes, ReceiveWords, EventsSent, \* messages from the compositor, and the buffer
  SendSizes, SendWords, Bursts, Requests  \* those to it

VARIABLES
  part,    \* the component that runs in this behaviour
  main_pc, ready, configured, closed, client, shown, listening, backlog,
  written, events, hangup, committed,
  run, child, path, systemd_pc, systemd_status, reaped, signal, signalled,
  stopped,
  receive_pc, receive_status, recv_buffer, recv_index, index, handled, pipe,
  receive_sent,
  burst, buffer, message_start, writing, at, send_sent, stream, send_status,
  frames_width, frames_height, max_buffer_size, memory_len, next_frame_index,
  frames_status,
  number, count, len, message_pc, percent, states,
  file, lines, style, active, color,
  line_width, line_height, orientation, alignment, pixels, frame

mainVars == <<main_pc, ready, configured, closed, client, shown, listening,
  backlog, written, events, hangup, committed>>
systemdVars == <<run, child, path, systemd_pc, systemd_status, reaped, signal,
  signalled, stopped>>
receiveVars == <<receive_pc, receive_status, recv_buffer, recv_index, index,
  handled, pipe, receive_sent>>
sendVars == <<burst, buffer, message_start, writing, at, send_sent, stream,
  send_status>>
framesVars == <<frames_width, frames_height, max_buffer_size, memory_len,
  next_frame_index, frames_status>>
messageVars == <<number, count, len, message_pc, percent, states>>
styleVars == <<file, lines, style, active, color>>
lineVars == <<line_width, line_height, orientation, alignment, pixels, frame>>

\* -1, -0.5, 0, 0.01, 0.5, 0.99, 1, 1.01, 2, 50, 99.99, 100, 100.01 and 300
Percentages == {-100, -50, 0, 1, 50, 99, 100, 101, 200, 5000, 9999, 10000, 10001, 30000}

\* #D08770 and #A3BE8C of the README's example
Colors == {<<208, 135, 112, 255>>, <<163, 190, 140, 255>>}

Main == INSTANCE Renderer WITH
  pc <- main_pc, Senders <- {s1, s2, s3}, Messages <- {m1, m2, garbage},
  Valid <- {m1, m2}, Backlog <- 1, MaxEvents <- 2
Few == INSTANCE Renderer WITH
  pc <- main_pc, Senders <- {s1, s2}, Messages <- {m1, garbage}, Valid <- {m1},
  Backlog <- 1, MaxEvents <- 2
Systemd == INSTANCE Instance WITH
  pc <- systemd_pc, status <- systemd_status, Runs <- {r1, r2}, Nobody <- Nobody,
  ControlGroup <- TRUE, AlwaysRestarts <- FALSE, Hasty <- TRUE
Supervised == INSTANCE Instance WITH
  pc <- systemd_pc, status <- systemd_status, Runs <- {r1, r2}, Nobody <- Nobody,
  ControlGroup <- FALSE, AlwaysRestarts <- TRUE, Hasty <- FALSE
Receive == INSTANCE WireRecv WITH
  pc <- receive_pc, status <- receive_status, sent <- receive_sent,
  Sizes <- ReceiveSizes, BufferWords <- ReceiveWords, MaxMessages <- EventsSent
Send == INSTANCE WireSend WITH
  sent <- send_sent, status <- send_status, Sizes <- SendSizes,
  BufferWords <- SendWords, MaxMessages <- Requests
Frames == INSTANCE FrameGeometry WITH
  width <- frames_width, height <- frames_height, status <- frames_status,
  PixelBytes <- 4, U31 <- 4095, PageBytes <- 64,
  Widths <- {1, 2, 3, 4, 5, 7, 8, 9, 12, 16, 17, 31, 32, 33, 64, 100, 256, 257},
  Heights <- {1, 2, 3, 4}
Message == INSTANCE StatusMessage WITH
  pc <- message_pc, RecvBytes <- 64, MaxStates <- 16, NumberBytes <- 2,
  Percentages <- Percentages, Counts <- {0, 1, 2, 3, 8, 15, 16, 17, 20},
  Lengths <- {1, 2, 3, 10, 30, 61, 62, 70}
Style == INSTANCE StyleRules WITH
  States <- {"low", "charging"}, Colors <- {"white", "red", "blue"},
  White <- "white", BadColor <- "bad", NoColor <- "none", MaxLines <- 3,
  MaxStates <- 2
Line == INSTANCE LineDraw WITH
  width <- line_width, height <- line_height, MaxWidth <- 8, MaxHeight <- 5,
  Percents <- {0, 1, 1250, 2500, 3333, 5000, 7500, 9999, 10000}, Colors <- Colors

ASSUME MCStatusAssumption ==
  /\ Main!RendererAssumption
  /\ Few!RendererAssumption
  /\ garbage \notin {m1, m2}
  /\ Systemd!InstanceAssumption
  /\ Supervised!InstanceAssumption /\ Systemd!Collected /\ Supervised!Collected
  /\ Receive!WireRecvAssumption
  /\ Send!WireSendAssumption
  /\ Frames!FrameGeometryAssumption
  /\ Message!StatusMessageAssumption
  /\ Style!StyleRulesAssumption
  /\ Line!LineDrawAssumption

\* The parts that do not run stand in an initial state.
Init ==
  /\ part \in {"main", "few", "systemd", "supervised", "receive", "send",
       "frames", "message", "style", "line"}
  /\ IF part = "few" THEN Few!Init ELSE Main!Init
  /\ IF part = "supervised" THEN Supervised!Init ELSE Systemd!Init
  /\ Receive!Init
  /\ Send!Init /\ (part = "send" \/ burst = CHOOSE b \in Bursts : TRUE)
  /\ IF part = "frames" THEN Frames!Init ELSE
       /\ frames_width = 1
       /\ frames_height = 1
       /\ max_buffer_size = 0
       /\ memory_len = 0
       /\ next_frame_index = 0
       /\ frames_status = "running"
  /\ IF part = "message" THEN Message!Init ELSE
       /\ number = 0
       /\ count = 0
       /\ len = 1
       /\ message_pc = "recv"
       /\ percent = 0
       /\ states = <<>>
  /\ IF part = "style" THEN Style!Init ELSE
       /\ file = <<>>
       /\ lines = <<>>
       /\ style = [default_color |-> "white", rules |-> <<>>]
       /\ active = {}
       /\ color = "none"
  /\ IF part = "line" THEN Line!Init ELSE
       /\ line_width = 1
       /\ line_height = 1
       /\ orientation = "horizontal"
       /\ alignment = "left"
       /\ pixels = [i \in {0} |-> Line!TRANSPARENT]
       /\ frame = [percent |-> 0, color |-> Line!OPAQUE_WHITE]

Only(p) ==
  /\ part = p /\ UNCHANGED part
  /\ IF p \in {"main", "few"} THEN TRUE ELSE UNCHANGED mainVars
  /\ IF p \in {"systemd", "supervised"} THEN TRUE ELSE UNCHANGED systemdVars
  /\ IF p = "receive" THEN TRUE ELSE UNCHANGED receiveVars
  /\ IF p = "send" THEN TRUE ELSE UNCHANGED sendVars
  /\ IF p = "frames" THEN TRUE ELSE UNCHANGED framesVars
  /\ IF p = "message" THEN TRUE ELSE UNCHANGED messageVars
  /\ IF p = "style" THEN TRUE ELSE UNCHANGED styleVars
  /\ IF p = "line" THEN TRUE ELSE UNCHANGED lineVars

Next ==
  \/ Only("main") /\ Main!Next
  \/ Only("few") /\ Few!Next
  \/ Only("systemd") /\ Systemd!Next
  \/ Only("supervised") /\ Supervised!Next
  \/ Only("receive") /\ Receive!Next
  \/ Only("send") /\ Send!Next
  \/ Only("frames") /\ Frames!Next
  \/ Only("message") /\ Message!Next
  \/ Only("style") /\ Style!Next
  \/ Only("line") /\ Line!Next

vars == <<part, mainVars, systemdVars, receiveVars, sendVars, framesVars,
  messageVars, styleVars, lineVars>>

Spec == Init /\ [][Next]_vars

FewFairness ==
  /\ WF_mainVars(part = "few" /\ Few!RendererStep)
  /\ \A s \in {s1, s2} : WF_mainVars(part = "few" /\ Few!SendAndClose(s))
  /\ WF_mainVars(part = "few" /\ Few!AnswerSync)
  /\ WF_mainVars(part = "few" /\ ~configured /\ Few!SendConfigure)

SupervisedFairness ==
  /\ WF_systemdVars(part = "supervised" /\ Supervised!Shell)
  /\ \A k \in Supervised!Kinds : WF_systemdVars(part = "supervised" /\
       Supervised!Reap(k))
  /\ \A r \in {r1, r2}, k \in Supervised!Kinds : WF_systemdVars(part = "supervised" /\
       Supervised!Dies(r, k))

ReceiveFairness ==
  WF_receiveVars(part = "receive" /\ Receive!Receive)

SendFairness ==
  /\ WF_sendVars(part = "send" /\ Send!Put)
  /\ WF_sendVars(part = "send" /\ Send!End)
  /\ WF_sendVars(part = "send" /\ \E n \in 1..SendWords : Send!Flush(n))
------------------------------------------------------------------------------
\* The main loop never waits in accept() for a connection that is gone, although
\* it looks at revents of before the events it has handled, and attaches no
\* buffer but to a configured surface that is not closed (main, renderFrame).
LoopSafe ==
  /\ part = "main" => Main!Inv
  /\ part = "main" => Main!FramesOnlyWhileConfigured

\* The line shows messages as StatusLine says: in the order in which their
\* senders connected, each at most once, and only one that cannot be used is
\* passed over.
LineSpec == Main!LineSpec

\* Under systemd and under s6, the socket's path leads to the renderer that
\* listens, no process of a run outlives it, and the service is down only
\* because somebody wanted that, whichever process ends first and whenever a
\* signal comes.
ServiceSound ==
  /\ part = "systemd" => Systemd!Inv /\ Systemd!PathLeadsToRenderer
  /\ part = "supervised" => Supervised!Inv /\ Supervised!PathLeadsToRenderer

\* However the stream is cut by reads, short writes and flushes in the middle of
\* a message, both directions keep its words in order and find every header
\* where it is (dispatchMessages, flushSendBuffers).
WordsSound ==
  /\ Receive!Inv
  /\ Send!Inv
  /\ Send!HeadersTellSizes

\* A sender that has written is served or the renderer ends, a slow or silent
\* sender before it holds it up but not forever; the renderer ends with its
\* surface or its compositor, and the end of either process ends the script that
\* watches them; whole messages are handled and what was put is sent.
StatusProceeds ==
  /\ (part = "few" /\ FewFairness => Few!MessagesServed)
  /\ (part = "few" /\ FewFairness => Few!EndsWithSurface)
  /\ (part = "supervised" /\ SupervisedFairness => Supervised!ChildEndNoticed)
  /\ (part = "receive" /\ ReceiveFairness => Receive!AllHandled)
  /\ (part = "send" /\ burst <= SendWords /\ SendFairness => Send!AllSent)

\* From the sender's number to the pixels: a short message arrives whole, its
\* percent fits the line, the slot shows that and nothing of an earlier frame,
\* and the slots lie apart in a memory that can be mapped, until the one that
\* overflows u31.
MessageDrawn ==
  /\ Message!PercentFitsLine
  /\ Message!ShortMessageArrives
  /\ Line!LineShowsMessage
  /\ Frames!FramesApart
  /\ Frames!LargeFramesMap
  /\ Frames!OverflowAtMaxSlots

\* The colour follows from the rules as the file's author wrote them, whatever
\* their order and the lines between them that cannot be used (loadStyleConfig,
\* pickColorForStates).
ColorFollowsFile == Style!ColorFollowsFile

\* The configuration's "#RRGGBB" is the colour on the screen.
ConfiguredColorSeen == Line!ConfiguredColorSeen

------------------------------------------------------------------------------
(* Proofs *)

\* A behaviour of the main loop is one of Renderer.
LEMMA MainStep ==
  ASSUME part = "main", [Next]_vars
  PROVE  [Main!Next]_(Main!vars) /\ (part = "main")'
BY DEF Next, Only, vars, mainVars, Main!vars, Main!rendererVars, Main!socketVars, Main!waylandVars

\* So is one that sees too few globals.
LEMMA FewStep ==
  ASSUME part = "few", [Next]_vars
  PROVE  [Few!Next]_(Few!vars) /\ (part = "few")'
BY DEF Next, Only, vars, mainVars, Few!vars, Few!rendererVars, Few!socketVars, Few!waylandVars

\* The other components leave the main loop's variables alone.
LEMMA OtherStep ==
  ASSUME ~(part \in {"main", "few"}), [Next]_vars
  PROVE  UNCHANGED mainVars /\ ~(part \in {"main", "few"})'
BY DEF Next, Only, vars

LoopParts ==
  /\ part = "main" => Main!Inv
  /\ part = "few" => Few!Inv

\* Whichever component runs, the main loop stands in an initial state.
LEMMA LoopStarts == Init => LoopParts /\ Main!Line!Init
<1>1. Main!Init => Main!Inv /\ Main!Line!Init
  BY Main!RendererInit, MCStatusAssumption DEF MCStatusAssumption
<1>2. Few!Init => Few!Inv /\ Few!Line!Init
  BY Few!RendererInit, MCStatusAssumption DEF MCStatusAssumption
<1>3. Few!Line!Init => Main!Line!Init
  BY DEF Few!Line!Init, Main!Line!Init, Few!Inbox, Main!Inbox, Few!Order, Main!Order
<1> QED
  BY <1>1, <1>2, <1>3 DEF Init, LoopParts

\* The main loop never waits in accept() for nobody, and attaches no buffer but to a configured
\* surface (main, renderFrame); Renderer's theorem says it for any number of senders.
THEOREM LoopHolds == Spec => []LoopSafe
<1>1. Init => LoopParts
  BY LoopStarts
<1>2. LoopParts /\ [Next]_vars => LoopParts'
  <2>1. ASSUME part = "main", Main!Inv, [Next]_vars PROVE LoopParts'
    BY <2>1, MainStep, Main!RendererNext, MCStatusAssumption DEF MCStatusAssumption, LoopParts
  <2>2. ASSUME part = "few", Few!Inv, [Next]_vars PROVE LoopParts'
    BY <2>2, FewStep, Few!RendererNext, MCStatusAssumption DEF MCStatusAssumption, LoopParts
  <2>3. ASSUME ~(part \in {"main", "few"}), [Next]_vars PROVE LoopParts'
    BY <2>3, OtherStep DEF LoopParts
  <2> QED
    BY <2>1, <2>2, <2>3 DEF LoopParts
<1>3. LoopParts => LoopSafe
  BY Main!LoopSafety DEF LoopParts, LoopSafe
<1> QED
  BY <1>1, <1>2, <1>3, PTL DEF Spec

\* The line has the same steps whatever the compositor announced.
LEMMA FewLine == ASSUME [Few!Line!Next]_(Few!Line!vars) PROVE [Main!Line!Next]_(Main!Line!vars)
<1>1. Few!Inbox = Main!Inbox /\ (Few!Inbox)' = (Main!Inbox)'
  BY DEF Few!Inbox, Main!Inbox, Few!Order, Main!Order
<1>2. CASE UNCHANGED Few!Line!vars
  BY <1>1, <1>2 DEF Few!Line!vars, Main!Line!vars
<1>3. CASE \E s \in {s1, s2} : Few!Line!Arrive(s)
  BY <1>1, <1>3 DEF Few!Line!Arrive, Main!Line!Arrive, Main!Line!Next
<1>4. CASE \E i \in DOMAIN Few!Inbox, body \in {m1, garbage} \cup {Nothing} : Few!Line!Write(i, body)
  BY <1>1, <1>4 DEF Few!Line!Write, Main!Line!Write, Main!Line!Next
<1>5. CASE Few!Line!Show
  BY <1>1, <1>5 DEF Few!Line!Show, Main!Line!Show, Main!Line!Next
<1>6. CASE Few!Line!PassOver
  <2>1. {Nothing} \cup ({m1, garbage} \ {m1}) \subseteq {Nothing} \cup ({m1, m2, garbage} \ {m1, m2})
    BY MCStatusAssumption DEF MCStatusAssumption
  <2> QED
    BY <1>1, <1>6, <2>1 DEF Few!Line!PassOver, Main!Line!PassOver, Main!Line!Next
<1>7. CASE Few!Line!TurnOn
  BY <1>1, <1>7 DEF Few!Line!TurnOn, Main!Line!TurnOn, Main!Line!Next
<1>8. CASE Few!Line!TurnOff
  BY <1>1, <1>8 DEF Few!Line!TurnOff, Main!Line!TurnOff, Main!Line!Next
<1> QED
  BY <1>2, <1>3, <1>4, <1>5, <1>6, <1>7, <1>8 DEF Few!Line!Next

\* Every step of the main loop is one of StatusLine or none of it: messages are shown in the
\* order in which their senders connected, each at most once (main, the loop over poll()).
THEOREM LineHolds == Spec => LineSpec
<1>1. Init => LoopParts /\ Main!Line!Init
  BY LoopStarts
<1>2. LoopParts /\ [Next]_vars => LoopParts' /\ [Main!Line!Next]_(Main!Line!vars)
  <2>1. ASSUME part = "main", Main!Inv, [Next]_vars PROVE LoopParts' /\ [Main!Line!Next]_(Main!Line!vars)
    BY <2>1, MainStep, Main!RendererNext, MCStatusAssumption DEF MCStatusAssumption, LoopParts
  <2>2. ASSUME part = "few", Few!Inv, [Next]_vars PROVE LoopParts' /\ [Main!Line!Next]_(Main!Line!vars)
    <3>1. Few!Inv' /\ [Few!Line!Next]_(Few!Line!vars) /\ (part = "few")'
      BY <2>2, FewStep, Few!RendererNext, MCStatusAssumption DEF MCStatusAssumption
    <3> QED
      BY <3>1, FewLine DEF LoopParts
  <2>3. ASSUME ~(part \in {"main", "few"}), [Next]_vars PROVE LoopParts' /\ [Main!Line!Next]_(Main!Line!vars)
    <3>1. UNCHANGED mainVars /\ LoopParts'
      BY <2>3, OtherStep DEF LoopParts
    <3>2. UNCHANGED Main!Line!vars
      BY <3>1 DEF mainVars, Main!Line!vars, Main!Inbox, Main!Order
    <3> QED
      BY <3>1, <3>2
  <2> QED
    BY <2>1, <2>2, <2>3 DEF LoopParts
<1> QED
  BY <1>1, <1>2, PTL DEF Spec, LineSpec, Main!LineSpec, Main!Line!Spec

\* One service runs in a behaviour.
LEMMA SystemdPart == Spec => [](part = "systemd" => Systemd!Inv /\ Systemd!PathLeadsToRenderer)
<1>1. Init /\ part = "systemd" => Systemd!Init
  BY DEF Init
<1>2. part = "systemd" /\ [Next]_vars => [Systemd!Next]_(Systemd!vars) /\ (part = "systemd")'
  BY DEF Next, Only, vars, Systemd!vars, systemdVars
<1>3. ~(part = "systemd") /\ [Next]_vars => (~(part = "systemd"))'
  BY DEF Next, Only, vars
<1>4. Systemd!Spec => [](Systemd!Inv /\ Systemd!PathLeadsToRenderer)
  BY Systemd!ServiceHolds, MCStatusAssumption DEF MCStatusAssumption
<1> QED
  BY <1>1, <1>2, <1>3, <1>4, PTL DEF Spec, Systemd!Spec

\* The same under the supervisor.
LEMMA SupervisedPart == Spec => [](part = "supervised" => Supervised!Inv /\ Supervised!PathLeadsToRenderer)
<1>1. Init /\ part = "supervised" => Supervised!Init
  BY DEF Init
<1>2. part = "supervised" /\ [Next]_vars => [Supervised!Next]_(Supervised!vars) /\ (part = "supervised")'
  BY DEF Next, Only, vars, Supervised!vars, systemdVars
<1>3. ~(part = "supervised") /\ [Next]_vars => (~(part = "supervised"))'
  BY DEF Next, Only, vars
<1>4. Supervised!Spec => [](Supervised!Inv /\ Supervised!PathLeadsToRenderer)
  BY Supervised!ServiceHolds, MCStatusAssumption DEF MCStatusAssumption
<1> QED
  BY <1>1, <1>2, <1>3, <1>4, PTL DEF Spec, Supervised!Spec

\* Under systemd and under s6 no child outlives its run, the socket's path leads to the
\* renderer that listens, and the service is down only because that was wanted
\* (scripts/zlinestatus-instance), whichever process ends first.
THEOREM ServicesHold == Spec => []ServiceSound
BY SystemdPart, SupervisedPart, PTL DEF ServiceSound
------------------------------------------------------------------------------
(* Proofs: words on the wire, from the compositor *)

\* What is left of a sequence without its first words.
LEMMA RestFacts ==
  ASSUME NEW W, NEW q \in Seq(W), NEW k \in 0..Len(q)
  PROVE  /\ SubSeq(q, k + 1, Len(q)) \in Seq(W) /\ Len(SubSeq(q, k + 1, Len(q))) = Len(q) - k
         /\ \A i \in 1..(Len(q) - k) : SubSeq(q, k + 1, Len(q))[i] = q[k + i]
<1>1. Len(q) \in Nat /\ \A i \in (k + 1)..Len(q) : q[i] \in W
  OBVIOUS
<1>2. /\ SubSeq(q, k + 1, Len(q)) \in Seq(W)
      /\ Len(SubSeq(q, k + 1, Len(q))) = IF k + 1 <= Len(q) THEN Len(q) - (k + 1) + 1 ELSE 0
      /\ \A i \in 1..(Len(q) - (k + 1) + 1) : SubSeq(q, k + 1, Len(q))[i] = q[k + 1 + i - 1]
  BY <1>1, SubSeqProperties
<1>3. Len(SubSeq(q, k + 1, Len(q))) = Len(q) - k
  BY <1>1, <1>2
<1>4. \A i \in 1..(Len(q) - k) : i \in 1..(Len(q) - (k + 1) + 1) /\ k + 1 + i - 1 = k + i
  BY <1>1
<1> QED
  BY <1>2, <1>3, <1>4

\* A part of the buffer and what follows it.
Window(buf, first, last, rest) ==
  [i \in 1..(last - first + Len(rest)) |->
     IF i <= last - first THEN buf[first + i - 1] ELSE rest[i - (last - first)]]

\* A buffer of n words into which k words have been read, and one whose words
\* have moved to its start.
Filled(buf, n, last, k, rest) ==
  [i \in 0..(n - 1) |-> IF i \in last..(last + k - 1) THEN rest[i - last + 1] ELSE buf[i]]
Shifted(buf, n, first, last) ==
  [i \in 0..(n - 1) |-> IF i < last - first THEN buf[first + i] ELSE buf[i]]

\* recvmsg() moves words from the pipe to the buffer.
LEMMA WindowGrows ==
  ASSUME NEW W, NEW n \in Nat, NEW buf \in [0..(n - 1) -> W], NEW last \in 0..n, NEW first \in 0..last,
         NEW rest \in Seq(W), NEW k \in 0..Len(rest), k <= n - last,
         NEW after, after = Filled(buf, n, last, k, rest)
  PROVE  /\ after \in [0..(n - 1) -> W]
         /\ Window(after, first, last + k, SubSeq(rest, k + 1, Len(rest))) = Window(buf, first, last, rest)
<1> DEFINE u == Window(buf, first, last, rest)
           left == SubSeq(rest, k + 1, Len(rest))
           v == Window(after, first, last + k, left)
<1>1. Len(rest) \in Nat /\ \A i \in 1..Len(rest) : rest[i] \in W
  OBVIOUS
<1>2. \A i \in last..(last + k - 1) : i - last + 1 \in 1..Len(rest)
  BY <1>1
<1> USE DEF Filled
<1>3. after \in [0..(n - 1) -> W]
  BY <1>1, <1>2
<1>4. /\ left \in Seq(W) /\ Len(left) = Len(rest) - k
      /\ \A i \in 1..(Len(rest) - k) : left[i] = rest[k + i]
  BY RestFacts
<1> HIDE DEF left
<1>5. (last + k) - first + Len(left) = last - first + Len(rest)
  BY <1>1, <1>4
<1>6. ASSUME NEW i \in 1..(last - first + Len(rest))
      PROVE  (IF i <= (last + k) - first THEN after[first + i - 1] ELSE left[i - ((last + k) - first)])
               = (IF i <= last - first THEN buf[first + i - 1] ELSE rest[i - (last - first)])
  <2>1. CASE i <= last - first
    <3>1. first + i - 1 \in 0..(n - 1) /\ first + i - 1 \notin last..(last + k - 1) /\ i <= (last + k) - first
      BY <1>1, <2>1
    <3>2. after[first + i - 1] = buf[first + i - 1]
      BY <3>1
    <3> QED
      BY <2>1, <3>1, <3>2
  <2>2. CASE ~(i <= last - first) /\ i <= (last + k) - first
    <3> DEFINE j == first + i - 1
    <3>1. j \in last..(last + k - 1) /\ j \in 0..(n - 1) /\ j - last + 1 = i - (last - first)
      BY <1>1, <2>2
    <3>2. after[j] = rest[j - last + 1]
      BY <3>1
    <3> QED
      BY <2>2, <3>1, <3>2
  <2>3. CASE ~(i <= (last + k) - first)
    <3> DEFINE j == i - ((last + k) - first)
    <3>1. j \in 1..(Len(rest) - k) /\ k + j = i - (last - first) /\ ~(i <= last - first)
      BY <1>1, <2>3
    <3>2. left[j] = rest[k + j]
      BY <1>4, <3>1
    <3> QED
      BY <2>3, <3>1, <3>2
  <2> QED
    BY <2>1, <2>2, <2>3
<1>7. v = u
  <2>1. 1..((last + k) - first + Len(left)) = 1..(last - first + Len(rest))
    BY <1>5
  <2>2. v = [i \in 1..(last - first + Len(rest)) |->
               IF i <= (last + k) - first THEN after[first + i - 1] ELSE left[i - ((last + k) - first)]]
    BY <2>1, Zenon DEF Window
  <2>3. u = [i \in 1..(last - first + Len(rest)) |->
               IF i <= last - first THEN buf[first + i - 1] ELSE rest[i - (last - first)]]
    BY Zenon DEF Window
  <2> HIDE DEF u, v
  <2> QED
    BY <1>6, <2>2, <2>3, Zenon
<1> QED
  BY <1>3, <1>7 DEF left

KeepsWords(W, buf, n, first, last, rest, extent) ==
  /\ Shifted(buf, n, first, last) \in [0..(n - 1) -> W]
  /\ Window(Shifted(buf, n, first, last), 0, extent, rest) = Window(buf, first, last, rest)

\* The words left over move to the start of the buffer.
LEMMA WindowMoves ==
  ASSUME NEW W, NEW n \in Nat, NEW buf \in [0..(n - 1) -> W], NEW last \in 0..n, NEW first \in 0..last, NEW rest,
         NEW extent, extent = last - first
  PROVE  KeepsWords(W, buf, n, first, last, rest, extent)
<1> DEFINE after == Shifted(buf, n, first, last)
<1>1. \A i \in 0..(n - 1) : i < last - first => first + i \in 0..(n - 1)
  OBVIOUS
<1> USE DEF Shifted
<1>2. after \in [0..(n - 1) -> W]
  BY <1>1
<1>3. extent \in Nat /\ extent - 0 = extent /\ extent = last - first
  OBVIOUS
<1>4. \A i \in 1..extent : after[0 + i - 1] = buf[first + i - 1]
  <2> TAKE i \in 1..extent
  <2>1. 0 + i - 1 \in 0..(n - 1) /\ 0 + i - 1 < last - first /\ first + (0 + i - 1) = first + i - 1
    BY <1>3
  <2> QED
    BY <2>1
<1> DEFINE u == Window(buf, first, last, rest)
           v == Window(after, 0, extent, rest)
<1>5. u = [i \in 1..(extent + Len(rest)) |-> IF i <= extent THEN buf[first + i - 1] ELSE rest[i - extent]]
  BY <1>3, Zenon DEF Window
<1>6. v = [i \in 1..(extent - 0 + Len(rest)) |-> IF i <= extent - 0 THEN after[0 + i - 1] ELSE rest[i - (extent - 0)]]
  BY Zenon DEF Window
<1> HIDE DEF u, v
<1>7. v = [i \in 1..(extent + Len(rest)) |-> IF i <= extent THEN after[0 + i - 1] ELSE rest[i - extent]]
  BY <1>3, <1>6
<1>8. \A i \in 1..(extent + Len(rest)) : i <= extent => i \in 1..extent
  BY <1>3
<1>9. \A i \in 1..(extent + Len(rest)) :
        (IF i <= extent THEN after[0 + i - 1] ELSE rest[i - extent]) = (IF i <= extent THEN buf[first + i - 1] ELSE rest[i - extent])
  BY <1>4, <1>8, Zenon
<1>10. u = v
  BY <1>5, <1>7, <1>9, Zenon
<1> QED
  BY <1>2, <1>10 DEF u, v, KeepsWords

\* The words of one sequence after the first s of them, and with others behind them.
Without(u, v, s) == Len(v) = Len(u) - s /\ \A i \in 1..Len(v) : v[i] = u[i + s]
Followed(u, v, more) ==
  /\ Len(v) = Len(u) + Len(more)
  /\ \A i \in 1..Len(u) : v[i] = u[i]
  /\ \A i \in 1..Len(more) : v[Len(u) + i] = more[i]

\* A message is handled.
LEMMA WindowShrinks ==
  ASSUME NEW buf, NEW last \in Nat, NEW first \in 0..last, NEW rest, Len(rest) \in Nat,
         NEW s \in Nat, s <= last - first,
         NEW next, next = first + s
  PROVE  Without(Window(buf, first, last, rest), Window(buf, next, last, rest), s)
<1> DEFINE u == Window(buf, first, last, rest)
           v == Window(buf, next, last, rest)
<1> DEFINE k == last - first
           m == last - next
<1>1. k \in Nat /\ m \in Nat /\ k = m + s /\ k + Len(rest) \in Nat /\ m + Len(rest) \in Nat
  OBVIOUS
<1>2. u = [i \in 1..(k + Len(rest)) |-> IF i <= k THEN buf[first + i - 1] ELSE rest[i - k]]
  BY Zenon DEF Window
<1>3. v = [i \in 1..(m + Len(rest)) |-> IF i <= m THEN buf[next + i - 1] ELSE rest[i - m]]
  BY Zenon DEF Window
<1> HIDE DEF u, v
<1>4. Len(u) = k + Len(rest) /\ Len(v) = m + Len(rest)
  <2> HIDE DEF k, m
  <2> QED
    BY <1>1, <1>2, <1>3
<1>5. ASSUME NEW i \in 1..Len(v) PROVE v[i] = u[i + s]
  <2>1. i \in 1..(m + Len(rest)) /\ i + s \in 1..(k + Len(rest)) /\ next + i - 1 = first + (i + s) - 1
        /\ i - m = (i + s) - k /\ (i <= m <=> i + s <= k)
    BY <1>1, <1>4
  <2> HIDE DEF k, m
  <2>2. v[i] = IF i <= m THEN buf[next + i - 1] ELSE rest[i - m]
    BY <1>3, <2>1, Zenon
  <2>3. u[i + s] = IF i + s <= k THEN buf[first + (i + s) - 1] ELSE rest[(i + s) - k]
    BY <1>2, <2>1, Zenon
  <2> QED
    BY <2>1, <2>2, <2>3
<1>6. Len(v) = Len(u) - s
  BY <1>1, <1>4
<1> QED
  BY <1>5, <1>6 DEF u, v, Without

\* A message is sent.
LEMMA WindowExtends ==
  ASSUME NEW W, NEW buf, NEW last \in Nat, NEW first \in 0..last, NEW rest \in Seq(W), NEW more \in Seq(W),
         NEW longer, longer = rest \o more
  PROVE  Followed(Window(buf, first, last, rest), Window(buf, first, last, longer), more)
<1> DEFINE u == Window(buf, first, last, rest)
           v == Window(buf, first, last, longer)
           k == last - first
<1>1. k \in Nat /\ Len(rest) \in Nat /\ Len(more) \in Nat /\ k + Len(rest) \in Nat
  OBVIOUS
<1>2. /\ Len(longer) = Len(rest) + Len(more)
      /\ \A i \in 1..Len(rest) + Len(more) : longer[i] = IF i <= Len(rest) THEN rest[i] ELSE more[i - Len(rest)]
  BY ConcatProperties
<1>3. u = [i \in 1..(k + Len(rest)) |-> IF i <= k THEN buf[first + i - 1] ELSE rest[i - k]]
  BY Zenon DEF Window
<1>4. v = [i \in 1..(k + Len(longer)) |-> IF i <= k THEN buf[first + i - 1] ELSE longer[i - k]]
  BY Zenon DEF Window
<1> HIDE DEF k, u, v
<1>5. Len(u) = k + Len(rest) /\ Len(v) = k + Len(rest) + Len(more)
  BY <1>1, <1>2, <1>3, <1>4
<1>6. ASSUME NEW i \in 1..Len(u) PROVE v[i] = u[i]
  <2>1. u[i] = IF i <= k THEN buf[first + i - 1] ELSE rest[i - k]
    BY <1>3, <1>5, Zenon
  <2>2. i \in 1..(k + Len(longer)) /\ (~(i <= k) => i - k \in 1..Len(rest) + Len(more) /\ i - k <= Len(rest))
    BY <1>1, <1>2, <1>5
  <2>3. v[i] = IF i <= k THEN buf[first + i - 1] ELSE longer[i - k]
    BY <1>4, <2>2, Zenon
  <2> QED
    BY <1>2, <2>1, <2>2, <2>3, Zenon
<1>7. ASSUME NEW i \in 1..Len(more) PROVE v[Len(u) + i] = more[i]
  <2> DEFINE j == Len(u) + i
  <2>1. /\ j \in 1..(k + Len(longer)) /\ ~(j <= k) /\ j - k \in 1..Len(rest) + Len(more)
        /\ ~(j - k <= Len(rest)) /\ j - k - Len(rest) = i
    BY <1>1, <1>2, <1>5
  <2> HIDE DEF j
  <2>2. v[j] = IF j <= k THEN buf[first + j - 1] ELSE longer[j - k]
    BY <1>4, <2>1, Zenon
  <2>3. longer[j - k] = more[j - k - Len(rest)]
    BY <1>2, <2>1, Zenon
  <2>4. v[j] = more[i]
    BY <2>1, <2>2, <2>3, Zenon
  <2> QED
    BY <2>4 DEF j
<1> QED
  BY <1>1, <1>5, <1>6, <1>7 DEF u, v, Followed

\* Places counted from further on.
LEMMA PlaceInMessage ==
  ASSUME NEW i \in Nat, NEW s \in Nat, NEW a \in Nat, NEW z \in Nat, NEW k \in Nat, NEW n \in Nat,
         i - a >= 0, i - a + z <= n, k > 0, k <= z
  PROVE  i - a + k \in 1..n /\ (i - a + k) + s = (i + s) - a + k
OBVIOUS

\* A start that is the same when counted from further on is the same counted from here.
LEMMA StartsAgree ==
  ASSUME NEW i \in Nat, NEW j \in Nat, NEW s \in Nat, NEW b \in Nat, NEW c \in Nat, (i + s) - b = (j + s) - c
  PROVE  i - b = j - c
OBVIOUS

\* When the first message is handled, the words after it start the next one.
LEMMA MessageDropped ==
  ASSUME Receive!WireRecvAssumption, NEW h \in Nat, NEW t \in Nat,
         NEW u, Len(u) \in Nat, \A i \in 1..Len(u) : u[i] \in Receive!Word,
         Receive!Consecutive(u, h), Receive!Complete(u, h, t),
         Len(u) > 0, NEW v, NEW s, u[1].size = s, Without(u, v, s)
  PROVE  /\ s \in ReceiveSizes /\ s <= Len(u) /\ h + 1 <= t
         /\ Receive!Consecutive(v, h + 1) /\ Receive!Complete(v, h + 1, t)
<1> DEFINE n == Len(u)
           M(i) == u[i].msg
           A(i) == u[i].at
           Z(i) == u[i].size
<1>1. ASSUME NEW i \in 1..n
      PROVE  /\ u[i] \in Receive!Word /\ M(i) \in Nat /\ A(i) \in Nat /\ Z(i) \in Nat
             /\ Z(i) \in ReceiveSizes /\ A(i) > 0 /\ A(i) <= Z(i) /\ M(i) \in (h + 1)..t
             /\ i - A(i) >= 0 /\ i - A(i) + Z(i) <= n
             /\ \A k \in 1..Z(i) : u[i - A(i) + k] = [msg |-> M(i), at |-> k, size |-> Z(i)]
  <2>1. u[i] \in Receive!Word /\ M(i) \in Nat /\ A(i) \in Nat /\ Z(i) \in Nat
    BY DEF Receive!Word
  <2>2. /\ Z(i) \in ReceiveSizes /\ A(i) \in 1..Z(i) /\ M(i) \in (h + 1)..t
        /\ i - A(i) >= 0 /\ i - A(i) + Z(i) <= n
        /\ \A k \in 1..Z(i) : u[i - A(i) + k] = [msg |-> M(i), at |-> k, size |-> Z(i)]
    BY DEF Receive!Complete
  <2> HIDE DEF M, A, Z
  <2> QED
    BY <2>1, <2>2
<1>2. \A i, j \in 1..n : M(i) = M(j) => i - A(i) = j - A(j)
  BY DEF Receive!Complete
<1>3. M(n) = t /\ A(n) = Z(n)
  BY DEF Receive!Complete
<1>4. M(1) = h + 1 /\ A(1) = 1 /\ s = Z(1)
  BY DEF Receive!Consecutive
<1>5. ASSUME NEW i \in 1..n, i # 1
      PROVE  IF A(i - 1) < Z(i - 1) THEN M(i) = M(i - 1) /\ A(i) = A(i - 1) + 1 ELSE M(i) = M(i - 1) + 1 /\ A(i) = 1
  BY <1>5 DEF Receive!Consecutive
<1>6. ASSUME NEW i \in 1..n, NEW k \in 1..Z(i)
      PROVE  i - A(i) + k \in 1..n /\ M(i - A(i) + k) = M(i) /\ A(i - A(i) + k) = k /\ Z(i - A(i) + k) = Z(i)
  <2>1. u[i - A(i) + k] = [msg |-> M(i), at |-> k, size |-> Z(i)]
    BY <1>1
  <2>2. M(i - A(i) + k) = M(i) /\ A(i - A(i) + k) = k /\ Z(i - A(i) + k) = Z(i)
    BY <2>1
  <2>3. n \in Nat /\ A(i) \in Nat /\ Z(i) \in Nat /\ i - A(i) >= 0 /\ i - A(i) + Z(i) <= n
    BY <1>1
  <2> HIDE DEF n, M, A, Z
  <2>4. i - A(i) + k \in 1..n
    BY <2>3
  <2> QED
    BY <2>2, <2>4
<1>7. n \in Nat /\ n > 0 /\ 1 \in 1..n /\ n \in 1..n
  OBVIOUS
<1>8. Len(v) = n - s /\ \A i \in 1..Len(v) : v[i] = u[i + s]
  BY DEF Without
<1> HIDE DEF n, M, A, Z
<1>9. s \in ReceiveSizes /\ s \in Nat /\ s > 0 /\ s <= n /\ h + 1 <= t
  BY <1>1, <1>4, <1>7
<1>10. ASSUME NEW k \in 1..s PROVE M(k) = h + 1 /\ A(k) = k /\ Z(k) = s
  <2>1. 1 - A(1) + k = k
    BY <1>4, <1>9
  <2> QED
    BY <1>4, <1>6, <1>7, <2>1
\* No word after them is of the same message, or of one that began before they ended.
<1>11. ASSUME NEW i \in 1..n, i > s PROVE M(i) >= h + 2 /\ i - A(i) >= s
  <2>0. A(i) \in Nat /\ Z(i) \in Nat /\ A(i) <= Z(i) /\ A(i) > 0 /\ M(i) \in (h + 1)..t /\ i - A(i) >= 0
    BY <1>1
  <2>1. M(i) # h + 1
    <3> SUFFICES ASSUME M(i) = h + 1 PROVE FALSE
      OBVIOUS
    <3>1. i - A(i) = 1 - A(1)
      BY <1>2, <1>4, <1>7
    <3>2. A(i) = i
      BY <1>4, <2>0, <3>1
    <3>3. 1 \in 1..Z(i) /\ i - A(i) + 1 = 1
      BY <2>0, <3>2
    <3>4. Z(1) = Z(i)
      BY <1>6, <3>3
    <3> QED
      BY <1>4, <1>9, <1>11, <2>0, <3>2, <3>4
  <2>2. i - A(i) >= s
    <3> SUFFICES ASSUME i - A(i) < s PROVE FALSE
      BY <1>9, <2>0
    <3> DEFINE p == i - A(i) + 1
    <3>1. p \in 1..s /\ 1 \in 1..Z(i)
      BY <1>9, <2>0
    <3>2. M(p) = M(i)
      BY <1>6, <3>1
    <3> HIDE DEF p
    <3> QED
      BY <1>10, <2>1, <3>1, <3>2
  <2> QED
    BY <2>0, <2>1, <2>2
<1>12. ASSUME NEW i \in 1..Len(v)
       PROVE  i + s \in 1..n /\ i + s > s /\ v[i] = u[i + s] /\ v[i].msg = M(i + s) /\ v[i].at = A(i + s) /\ v[i].size = Z(i + s)
  <2>1. i + s \in 1..n /\ i + s > s
    BY <1>7, <1>8, <1>9
  <2>2. v[i] = u[i + s]
    BY <1>8
  <2> QED
    BY <2>1, <2>2 DEF M, A, Z
<1>13. Receive!Consecutive(v, h + 1)
  <2> SUFFICES ASSUME NEW i \in 1..Len(v)
               PROVE  IF i = 1 THEN v[i].msg = h + 1 + 1 /\ v[i].at = 1
                      ELSE IF v[i - 1].at < v[i - 1].size
                        THEN v[i].msg = v[i - 1].msg /\ v[i].at = v[i - 1].at + 1
                        ELSE v[i].msg = v[i - 1].msg + 1 /\ v[i].at = 1
    BY DEF Receive!Consecutive
  <2> DEFINE j == i + s
  <2>1. j \in 1..n /\ j # 1 /\ v[i].msg = M(j) /\ v[i].at = A(j) /\ v[i].size = Z(j)
    BY <1>9, <1>12
  <2>2. IF A(j - 1) < Z(j - 1) THEN M(j) = M(j - 1) /\ A(j) = A(j - 1) + 1 ELSE M(j) = M(j - 1) + 1 /\ A(j) = 1
    BY <1>5, <2>1
  <2>3. CASE i = 1
    <3>1. j - 1 = s /\ s \in 1..s
      BY <1>9, <2>3
    <3>2. M(s) = h + 1 /\ A(s) = s /\ Z(s) = s
      BY <1>10, <3>1
    <3> HIDE DEF j
    <3>3. M(j) = h + 1 + 1 /\ A(j) = 1
      BY <1>9, <2>2, <3>1, <3>2
    <3> QED
      BY <2>1, <2>3, <3>3
  <2>4. CASE i # 1
    <3>1. i - 1 \in 1..Len(v) /\ i - 1 + s = j - 1
      BY <1>8, <1>9, <1>7, <2>4
    <3>2. v[i - 1].msg = M(j - 1) /\ v[i - 1].at = A(j - 1) /\ v[i - 1].size = Z(j - 1)
      BY <1>12, <3>1
    <3> HIDE DEF j
    <3> QED
      BY <2>1, <2>2, <2>4, <3>2
  <2> QED
    BY <2>3, <2>4
<1>14. ASSUME NEW i \in 1..Len(v)
       PROVE  /\ v[i].size \in ReceiveSizes /\ v[i].at \in 1..v[i].size /\ v[i].msg \in (h + 1 + 1)..t
              /\ i - v[i].at >= 0 /\ i - v[i].at + v[i].size <= Len(v)
              /\ \A k \in 1..v[i].size : v[i - v[i].at + k] = [msg |-> v[i].msg, at |-> k, size |-> v[i].size]
  <2> DEFINE j == i + s
  <2>1. j \in 1..n /\ j > s /\ v[i].msg = M(j) /\ v[i].at = A(j) /\ v[i].size = Z(j)
    BY <1>12
  <2>2. /\ M(j) \in Nat /\ A(j) \in Nat /\ Z(j) \in Nat /\ Z(j) \in ReceiveSizes /\ A(j) > 0 /\ A(j) <= Z(j)
        /\ M(j) \in (h + 1)..t /\ j - A(j) + Z(j) <= n
        /\ \A k \in 1..Z(j) : u[j - A(j) + k] = [msg |-> M(j), at |-> k, size |-> Z(j)]
    BY <1>1, <2>1
  <2>3. M(j) >= h + 2 /\ j - A(j) >= s
    BY <1>11, <2>1
  <2> DEFINE a == A(j)
             z == Z(j)
             m == M(j)
  <2>4. a \in 1..z /\ m \in (h + 1 + 1)..t
    BY <2>2, <2>3
  <2>5. i - a >= 0 /\ i - a + z <= Len(v)
    <3>1. a \in Nat /\ z \in Nat /\ j - a + z <= n /\ j - a >= s
      BY <2>2, <2>3
    <3>2. j = i + s
      OBVIOUS
    <3> HIDE DEF a, z, j
    <3>3. i \in Nat /\ s \in Nat /\ n \in Nat /\ Len(v) = n - s
      BY <1>7, <1>8, <1>9
    <3>4. \A i0, s0, a0, z0, n0 \in Nat : (i0 + s0) - a0 + z0 <= n0 /\ (i0 + s0) - a0 >= s0
                                            => i0 - a0 >= 0 /\ i0 - a0 + z0 <= n0 - s0
      OBVIOUS
    <3>5. (i + s) - a + z <= n /\ (i + s) - a >= s
      BY <3>1, <3>2
    <3>6. i - a >= 0 /\ i - a + z <= n - s
      BY <3>1, <3>3, <3>4, <3>5, Zenon
    <3> QED
      BY <3>3, <3>6
  <2>6. ASSUME NEW k \in 1..z PROVE v[i - a + k] = [msg |-> m, at |-> k, size |-> z]
    <3> DEFINE q == i - a + k
    <3>1. a \in Nat /\ z \in Nat /\ k \in Nat /\ k <= z /\ k > 0 /\ i - a >= 0 /\ i - a + z <= Len(v) /\ Len(v) \in Int
      BY <1>7, <1>8, <1>9, <2>2, <2>5
    <3>2. q \in 1..Len(v) /\ q + s = j - a + k
      <4>1. j = i + s /\ s \in Nat /\ i \in Nat
        BY <1>9
      <4>3. Len(v) \in Nat
        BY <1>7, <1>8, <1>9
      <4> HIDE DEF a, z, j
      <4>4. i - a + k \in 1..Len(v) /\ (i - a + k) + s = (i + s) - a + k
        BY <3>1, <4>1, <4>3, PlaceInMessage
      <4> QED
        BY <4>1, <4>4
    <3>3. v[q] = u[q + s]
      BY <1>8, <3>2
    <3> HIDE DEF a, z, j, q
    <3>4. u[j - a + k] = [msg |-> m, at |-> k, size |-> z]
      BY <2>2 DEF a, z, m
    <3> QED
      BY <3>2, <3>3, <3>4 DEF q
  <2> HIDE DEF a, z, m
  <2>7. v[i].msg = m /\ v[i].at = a /\ v[i].size = z /\ z \in ReceiveSizes
    BY <2>1, <2>2 DEF a, z, m
  <2> QED
    BY <2>4, <2>5, <2>6, <2>7
<1>15. ASSUME NEW i \in 1..Len(v), NEW j \in 1..Len(v), v[i].msg = v[j].msg PROVE i - v[i].at = j - v[j].at
  <2>1. i + s \in 1..n /\ j + s \in 1..n /\ M(i + s) = M(j + s) /\ v[i].at = A(i + s) /\ v[j].at = A(j + s)
    BY <1>12, <1>15
  <2>2. (i + s) - A(i + s) = (j + s) - A(j + s)
    BY <1>2, <2>1
  <2>3. A(i + s) \in Nat /\ A(j + s) \in Nat
    BY <1>1, <2>1
  <2>4. i - A(i + s) = j - A(j + s)
    <3> DEFINE b == A(i + s)
               c == A(j + s)
    <3>1. b \in Nat /\ c \in Nat /\ (i + s) - b = (j + s) - c
      BY <2>2, <2>3
    <3> HIDE DEF b, c
    <3>3. i \in Nat /\ j \in Nat /\ s \in Nat
      BY <1>7, <1>8, <1>9
    <3>4. i - b = j - c
      BY <3>1, <3>3, StartsAgree
    <3> QED
      BY <3>4 DEF b, c
  <2> QED
    BY <2>1, <2>4
<1>16. IF Len(v) = 0 THEN h + 1 = t ELSE v[Len(v)].msg = t /\ v[Len(v)].at = v[Len(v)].size
  <2>1. CASE Len(v) = 0
    <3>1. s = n /\ s \in 1..s
      BY <1>7, <1>8, <1>9, <2>1
    <3> QED
      BY <1>3, <1>10, <2>1, <3>1
  <2>2. CASE Len(v) # 0
    <3>1. Len(v) \in 1..Len(v) /\ Len(v) + s = n
      BY <1>7, <1>8, <1>9, <2>2
    <3> QED
      BY <1>3, <1>12, <2>2, <3>1
  <2> QED
    BY <2>1, <2>2
<1>17. Receive!Complete(v, h + 1, t)
  BY <1>14, <1>15, <1>16 DEF Receive!Complete
<1> QED
  BY <1>9, <1>13, <1>17 DEF n

\* The words before a last message of a size.
WithLast(u, v, m, size) ==
  /\ Len(v) = Len(u) + size
  /\ \A i \in 1..Len(u) : v[i] = u[i]
  /\ \A k \in 1..size : v[Len(u) + k] = [msg |-> m, at |-> k, size |-> size]

\* A message that is sent goes behind the others.
LEMMA MessageAdded ==
  ASSUME Receive!WireRecvAssumption, NEW h \in Nat, NEW t \in Nat, h <= t,
         NEW u, Len(u) \in Nat, \A i \in 1..Len(u) : u[i] \in Receive!Word,
         Receive!Consecutive(u, h), Receive!Complete(u, h, t),
         NEW size \in ReceiveSizes, NEW v, WithLast(u, v, t + 1, size)
  PROVE  Receive!Consecutive(v, h) /\ Receive!Complete(v, h, t + 1)
<1> DEFINE n == Len(u)
           M(i) == v[i].msg
           A(i) == v[i].at
           Z(i) == v[i].size
<1>1. size \in Nat /\ size > 1
  BY DEF Receive!WireRecvAssumption
<1>2. n \in Nat /\ Len(v) = n + size
  BY DEF WithLast
<1>3. ASSUME NEW i \in 1..n PROVE v[i] = u[i]
  BY DEF WithLast
<1>4. ASSUME NEW k \in 1..size
      PROVE  /\ v[n + k] = [msg |-> t + 1, at |-> k, size |-> size]
             /\ M(n + k) = t + 1 /\ A(n + k) = k /\ Z(n + k) = size
  <2>1. v[n + k] = [msg |-> t + 1, at |-> k, size |-> size]
    BY DEF WithLast
  <2> HIDE DEF n
  <2> QED
    BY <2>1
<1>5. ASSUME NEW i \in 1..n
      PROVE  /\ u[i] \in Receive!Word /\ M(i) \in Nat /\ A(i) \in Nat /\ Z(i) \in Nat
             /\ Z(i) \in ReceiveSizes /\ A(i) > 0 /\ A(i) <= Z(i) /\ M(i) \in (h + 1)..t
             /\ i - A(i) >= 0 /\ i - A(i) + Z(i) <= n
             /\ \A k \in 1..Z(i) : u[i - A(i) + k] = [msg |-> M(i), at |-> k, size |-> Z(i)]
  <2>1. u[i] \in Receive!Word /\ M(i) \in Nat /\ A(i) \in Nat /\ Z(i) \in Nat
    BY <1>3 DEF Receive!Word
  <2>2. /\ Z(i) \in ReceiveSizes /\ A(i) \in 1..Z(i) /\ M(i) \in (h + 1)..t
        /\ i - A(i) >= 0 /\ i - A(i) + Z(i) <= n
        /\ \A k \in 1..Z(i) : u[i - A(i) + k] = [msg |-> M(i), at |-> k, size |-> Z(i)]
    BY <1>3 DEF Receive!Complete
  <2> HIDE DEF M, A, Z
  <2> QED
    BY <2>1, <2>2
<1>6. ASSUME NEW i \in 1..n, NEW j \in 1..n, M(i) = M(j) PROVE i - A(i) = j - A(j)
  BY <1>3, <1>6 DEF Receive!Complete
<1>7. IF n = 0 THEN h = t ELSE M(n) = t /\ A(n) = Z(n)
  <2>1. CASE n = 0
    BY <2>1 DEF Receive!Complete
  <2>2. CASE n # 0
    <3>1. n \in 1..n
      BY <1>2, <2>2
    <3>2. u[n].msg = t /\ u[n].at = u[n].size
      BY <2>2 DEF Receive!Complete
    <3> QED
      BY <1>3, <2>2, <3>1, <3>2
  <2> QED
    BY <2>1, <2>2
<1>8. ASSUME NEW i \in 1..n
      PROVE  IF i = 1 THEN M(i) = h + 1 /\ A(i) = 1
             ELSE IF A(i - 1) < Z(i - 1) THEN M(i) = M(i - 1) /\ A(i) = A(i - 1) + 1
             ELSE M(i) = M(i - 1) + 1 /\ A(i) = 1
  <2>1. IF i = 1 THEN u[i].msg = h + 1 /\ u[i].at = 1
        ELSE IF u[i - 1].at < u[i - 1].size THEN u[i].msg = u[i - 1].msg /\ u[i].at = u[i - 1].at + 1
        ELSE u[i].msg = u[i - 1].msg + 1 /\ u[i].at = 1
    BY DEF Receive!Consecutive
  <2>2. i # 1 => i - 1 \in 1..n
    BY <1>2
  <2>3. v[i] = u[i] /\ (i # 1 => v[i - 1] = u[i - 1])
    BY <1>3, <2>2
  <2> QED
    BY <2>1, <2>3
<1> HIDE DEF n, M, A, Z
<1>9. ASSUME NEW i \in 1..Len(v), ~(i \in 1..n)
      PROVE  /\ i - n \in 1..size /\ v[i] = [msg |-> t + 1, at |-> i - n, size |-> size]
             /\ M(i) = t + 1 /\ A(i) = i - n /\ Z(i) = size
  <2> DEFINE k == i - n
  <2>1. k \in 1..size /\ n + k = i
    BY <1>1, <1>2, <1>9
  <2> HIDE DEF k
  <2>2. /\ v[i] = [msg |-> t + 1, at |-> k, size |-> size]
        /\ M(i) = t + 1 /\ A(i) = k /\ Z(i) = size
    BY <1>4, <2>1
  <2> QED
    BY <2>1, <2>2 DEF k
<1>10. Receive!Consecutive(v, h)
  <2> SUFFICES ASSUME NEW i \in 1..Len(v)
               PROVE  IF i = 1 THEN M(i) = h + 1 /\ A(i) = 1
                      ELSE IF A(i - 1) < Z(i - 1) THEN M(i) = M(i - 1) /\ A(i) = A(i - 1) + 1
                      ELSE M(i) = M(i - 1) + 1 /\ A(i) = 1
    BY DEF Receive!Consecutive, M, A, Z
  <2>1. CASE i \in 1..n
    BY <1>8, <2>1
  <2>2. CASE i = n + 1
    <3>1. M(i) = t + 1 /\ A(i) = 1
      <4>1. 1 \in 1..size
        BY <1>1
      <4> QED
        BY <1>4, <2>2, <4>1
    <3>2. CASE n = 0
      BY <1>7, <2>2, <3>1, <3>2
    <3>3. CASE n # 0
      <4>1. i # 1 /\ i - 1 = n /\ n \in 1..n
        BY <1>2, <2>2, <3>3
      <4>2. M(n) = t /\ A(n) = Z(n) /\ Z(n) \in Nat
        BY <1>5, <1>7, <3>3, <4>1
      <4>3. ~(A(i - 1) < Z(i - 1)) /\ M(i - 1) = t
        BY <4>1, <4>2
      <4> QED
        BY <3>1, <4>1, <4>3
    <3> QED
      BY <3>2, <3>3
  <2>3. CASE i > n + 1
    <3>1. i \in 1..Len(v) /\ ~(i \in 1..n) /\ i - 1 \in 1..Len(v) /\ ~(i - 1 \in 1..n) /\ i # 1
      BY <1>1, <1>2, <2>3
    <3>2. /\ i - n \in 1..size /\ M(i) = t + 1 /\ A(i) = i - n
          /\ M(i - 1) = t + 1 /\ A(i - 1) = i - 1 - n /\ Z(i - 1) = size
      BY <1>9, <3>1
    <3>3. i - 1 - n < size /\ i - n = (i - 1 - n) + 1
      BY <1>1, <1>2, <3>2
    <3> QED
      BY <3>1, <3>2, <3>3
  <2> QED
    BY <1>1, <1>2, <2>1, <2>2, <2>3
<1>11. ASSUME NEW i \in 1..Len(v)
       PROVE  /\ Z(i) \in ReceiveSizes /\ A(i) \in 1..Z(i) /\ M(i) \in (h + 1)..(t + 1)
              /\ i - A(i) >= 0 /\ i - A(i) + Z(i) <= Len(v)
              /\ \A k \in 1..Z(i) : v[i - A(i) + k] = [msg |-> M(i), at |-> k, size |-> Z(i)]
  <2>1. CASE i \in 1..n
    <3> DEFINE a == A(i)
               z == Z(i)
    <3>1. /\ M(i) \in Nat /\ a \in Nat /\ z \in Nat /\ z \in ReceiveSizes /\ a > 0 /\ a <= z /\ M(i) \in (h + 1)..t
          /\ i - a >= 0 /\ i - a + z <= n
          /\ \A k \in 1..z : u[i - a + k] = [msg |-> M(i), at |-> k, size |-> z]
      BY <1>5, <2>1
    <3> HIDE DEF a, z
    <3>2. i - a + z <= Len(v) /\ a \in 1..z /\ M(i) \in (h + 1)..(t + 1)
      BY <1>1, <1>2, <3>1
    <3>3. \A k \in 1..z : i - a + k \in 1..n
      BY <1>2, <3>1
    <3>4. \A k \in 1..z : v[i - a + k] = [msg |-> M(i), at |-> k, size |-> z]
      BY <1>3, <3>1, <3>3
    <3> QED
      BY <3>1, <3>2, <3>4 DEF a, z
  <2>2. CASE ~(i \in 1..n)
    <3>1. i - n \in 1..size /\ M(i) = t + 1 /\ A(i) = i - n /\ Z(i) = size
      BY <1>9, <2>2
    <3>2. i - (i - n) = n
      BY <1>1, <1>2
    <3>3. \A k \in 1..size : v[n + k] = [msg |-> t + 1, at |-> k, size |-> size]
      BY <1>4
    <3>4. t + 1 \in (h + 1)..(t + 1) /\ n >= 0 /\ n + size <= Len(v)
      BY <1>1, <1>2
    <3> QED
      BY <3>1, <3>2, <3>3, <3>4
  <2> QED
    BY <2>1, <2>2
<1>12. ASSUME NEW i \in 1..Len(v), NEW j \in 1..Len(v), M(i) = M(j) PROVE i - A(i) = j - A(j)
  <2>1. CASE i \in 1..n /\ j \in 1..n
    BY <1>6, <1>12, <2>1
  <2>2. CASE ~(i \in 1..n) /\ ~(j \in 1..n)
    <3>1. A(i) = i - n /\ A(j) = j - n
      BY <1>9, <2>2
    <3>2. i - (i - n) = j - (j - n)
      BY <1>1, <1>2
    <3> QED
      BY <3>1, <3>2
  <2>3. ASSUME NEW p \in 1..Len(v), NEW q \in 1..Len(v), p \in 1..n, ~(q \in 1..n) PROVE M(p) # M(q)
    <3>1. M(p) \in (h + 1)..t
      BY <1>5, <2>3
    <3>2. M(q) = t + 1
      BY <1>9, <2>3
    <3> QED
      BY <3>1, <3>2
  <2> QED
    BY <1>12, <2>1, <2>2, <2>3
<1>13. Len(v) # 0 /\ M(Len(v)) = t + 1 /\ A(Len(v)) = Z(Len(v))
  <2>1. size \in 1..size /\ n + size = Len(v) /\ Len(v) # 0
    BY <1>1, <1>2
  <2> QED
    BY <1>4, <2>1
<1>14. Receive!Complete(v, h, t + 1)
  BY <1>11, <1>12, <1>13 DEF Receive!Complete, M, A, Z
<1> QED
  BY <1>10, <1>14

\* What is known of the receiver, in the terms of a window.
LEMMA ReceiveTypes ==
  ASSUME Receive!WireRecvAssumption, Receive!TypeOK
  PROVE  /\ ReceiveWords \in Nat /\ recv_buffer \in [0..(ReceiveWords - 1) -> Receive!Word]
         /\ recv_index \in Nat /\ recv_index \in 0..ReceiveWords /\ index \in 0..recv_index
         /\ pipe \in Seq(Receive!Word) /\ Len(pipe) \in Nat /\ handled \in Nat /\ receive_sent \in Nat
         /\ handled <= receive_sent /\ receive_sent <= EventsSent /\ EventsSent \in Nat
         /\ Receive!Unhandled = Window(recv_buffer, index, recv_index, pipe)
<1>1. Receive!Unhandled = Window(recv_buffer, index, recv_index, pipe)
  BY DEF Receive!Unhandled, Window
<1> QED
  BY <1>1 DEF Receive!WireRecvAssumption, Receive!TypeOK

\* Reading from the pipe and moving what is left loses no word.
LEMMA SameUnhandled ==
  ASSUME Receive!Inv, Receive!TypeOK', Receive!Unhandled' = Receive!Unhandled, UNCHANGED <<handled, receive_sent>>,
         receive_status' # "misread"
  PROVE  Receive!Inv'
<1>1. Receive!Consecutive(Receive!Unhandled', handled')
  BY DEF Receive!Inv, Receive!StreamIntact
<1>2. Receive!Complete(Receive!Unhandled', handled', receive_sent')
  BY DEF Receive!Inv, Receive!MessagesWhole
<1> QED
  BY <1>1, <1>2 DEF Receive!Inv, Receive!StreamIntact, Receive!MessagesWhole

\* recv() puts what it reads behind the words that were left in the buffer.
LEMMA RecvMsgStep ==
  ASSUME Receive!WireRecvAssumption, Receive!Inv, NEW n \in 1..ReceiveWords, Receive!RecvMsg(n)
  PROVE  Receive!Inv'
<1>1. /\ ReceiveWords \in Nat /\ recv_buffer \in [0..(ReceiveWords - 1) -> Receive!Word]
      /\ recv_index \in 0..ReceiveWords /\ index \in 0..recv_index /\ index = 0
      /\ pipe \in Seq(Receive!Word) /\ Len(pipe) \in Nat /\ n \in 0..Len(pipe) /\ n <= ReceiveWords - recv_index
      /\ Receive!Unhandled = Window(recv_buffer, index, recv_index, pipe)
  BY ReceiveTypes DEF Receive!Inv, Receive!TypeOK, Receive!RecvMsg
<1>2. /\ recv_index' = recv_index + n /\ index' = index /\ pipe' = SubSeq(pipe, n + 1, Len(pipe))
      /\ receive_pc' = "dispatch" /\ UNCHANGED <<receive_status, handled, receive_sent>>
      /\ recv_buffer' = Filled(recv_buffer, ReceiveWords, recv_index, n, pipe)
  BY <1>1 DEF Receive!RecvMsg, Filled
<1>3. /\ recv_buffer' \in [0..(ReceiveWords - 1) -> Receive!Word]
      /\ Window(recv_buffer', index, recv_index + n, SubSeq(pipe, n + 1, Len(pipe)))
           = Window(recv_buffer, index, recv_index, pipe)
  BY <1>1, <1>2, WindowGrows
<1>4. pipe' \in Seq(Receive!Word)
  BY <1>1, <1>2, RestFacts
<1>5. recv_index' \in 0..ReceiveWords /\ index' \in 0..recv_index'
  BY <1>1, <1>2
<1>6. Receive!TypeOK'
  BY <1>2, <1>3, <1>4, <1>5 DEF Receive!Inv, Receive!TypeOK
<1>7. Receive!Unhandled' = Window(recv_buffer', index', recv_index', pipe')
  BY DEF Receive!Unhandled, Window
<1>8. Receive!Unhandled' = Receive!Unhandled
  BY <1>1, <1>2, <1>3, <1>7
<1> QED
  BY <1>2, <1>6, <1>8, SameUnhandled DEF Receive!Inv, Receive!StreamIntact

\* The words left over are the same after the move.
LEMMA MoveUnusedStep ==
  ASSUME Receive!WireRecvAssumption, Receive!Inv, Receive!MoveUnused
  PROVE  Receive!Inv'
<1>1. /\ ReceiveWords \in Nat /\ recv_buffer \in [0..(ReceiveWords - 1) -> Receive!Word]
      /\ recv_index \in 0..ReceiveWords /\ index \in 0..recv_index
      /\ Receive!Unhandled = Window(recv_buffer, index, recv_index, pipe)
  BY ReceiveTypes DEF Receive!Inv
<1>2. /\ recv_index' = recv_index - index /\ index' = 0 /\ pipe' = pipe
      /\ receive_pc' = "recv" /\ UNCHANGED <<receive_status, handled, receive_sent>>
      /\ recv_buffer' = Shifted(recv_buffer, ReceiveWords, index, recv_index)
  BY <1>1 DEF Receive!MoveUnused, Receive!Moved, Shifted
<1>3. /\ recv_buffer' \in [0..(ReceiveWords - 1) -> Receive!Word]
      /\ Window(recv_buffer', 0, recv_index - index, pipe) = Window(recv_buffer, index, recv_index, pipe)
  <2> DEFINE moved == Shifted(recv_buffer, ReceiveWords, index, recv_index)
  <2>1. /\ moved \in [0..(ReceiveWords - 1) -> Receive!Word]
        /\ Window(moved, 0, recv_index - index, pipe) = Window(recv_buffer, index, recv_index, pipe)
    <3> DEFINE extent == recv_index - index
    <3>1. extent = recv_index - index
      OBVIOUS
    <3> HIDE DEF extent
    <3>2. KeepsWords(Receive!Word, recv_buffer, ReceiveWords, index, recv_index, pipe, extent)
      BY <1>1, <3>1, WindowMoves
    <3> QED
      BY <3>2 DEF extent, KeepsWords
  <2> HIDE DEF moved
  <2>2. recv_buffer' = moved
    BY <1>2 DEF moved
  <2> QED
    BY <2>1, <2>2
<1>4. recv_index' \in 0..ReceiveWords /\ index' \in 0..recv_index'
  BY <1>1, <1>2
<1>5. Receive!TypeOK'
  BY <1>2, <1>3, <1>4 DEF Receive!Inv, Receive!TypeOK
<1>6. Receive!Unhandled' = Window(recv_buffer', index', recv_index', pipe')
  BY DEF Receive!Unhandled, Window
<1>7. Receive!Unhandled' = Receive!Unhandled
  BY <1>1, <1>2, <1>3, <1>6
<1> QED
  BY <1>2, <1>5, <1>7, SameUnhandled DEF Receive!Inv, Receive!StreamIntact

\* The words not yet handled are a sequence of words.
LEMMA UnhandledWords ==
  ASSUME Receive!WireRecvAssumption, Receive!TypeOK
  PROVE  /\ Len(Receive!Unhandled) = recv_index - index + Len(pipe) /\ Len(Receive!Unhandled) \in Nat
         /\ \A i \in 1..Len(Receive!Unhandled) : Receive!Unhandled[i] \in Receive!Word
         /\ \A i \in 1..(recv_index - index) : Receive!Unhandled[i] = recv_buffer[index + i - 1]
<1> DEFINE k == recv_index - index
           u == Receive!Unhandled
<1>1. /\ ReceiveWords \in Nat /\ recv_buffer \in [0..(ReceiveWords - 1) -> Receive!Word]
      /\ recv_index \in 0..ReceiveWords /\ index \in 0..recv_index /\ index \in Nat
      /\ pipe \in Seq(Receive!Word) /\ Len(pipe) \in Nat
  BY ReceiveTypes
<1>2. k \in Nat /\ \A i \in 1..k : index + i - 1 \in 0..(ReceiveWords - 1)
  BY <1>1
<1>3. u = [i \in 1..(k + Len(pipe)) |-> IF i <= k THEN recv_buffer[index + i - 1] ELSE pipe[i - k]]
  BY DEF Receive!Unhandled
<1> HIDE DEF k, u
<1>4. Len(u) = k + Len(pipe) /\ Len(u) \in Nat
  BY <1>1, <1>2, <1>3
<1>5. ASSUME NEW i \in 1..Len(u) PROVE u[i] \in Receive!Word
  <2>1. CASE i <= k
    <3>1. i \in 1..k /\ i \in 1..(k + Len(pipe))
      BY <1>1, <1>2, <1>4, <2>1
    <3>2. u[i] = recv_buffer[index + i - 1]
      BY <1>3, <2>1, <3>1
    <3> QED
      BY <1>1, <1>2, <3>1, <3>2
  <2>2. CASE ~(i <= k)
    <3>1. i - k \in 1..Len(pipe) /\ i \in 1..(k + Len(pipe))
      BY <1>1, <1>2, <1>4, <2>2
    <3>2. u[i] = pipe[i - k]
      BY <1>3, <2>2, <3>1
    <3> QED
      BY <1>1, <3>1, <3>2
  <2> QED
    BY <2>1, <2>2
<1>6. ASSUME NEW i \in 1..k PROVE u[i] = recv_buffer[index + i - 1]
  <2>1. i \in 1..(k + Len(pipe)) /\ i <= k
    BY <1>1, <1>2
  <2> QED
    BY <1>3, <2>1
<1> QED
  BY <1>4, <1>5, <1>6 DEF k, u

\* The dispatcher finds the header of the first message not handled.
LEMMA DispatchStep ==
  ASSUME Receive!WireRecvAssumption, Receive!Inv, Receive!DispatchOne
  PROVE  Receive!Inv'
<1> DEFINE u == Receive!Unhandled
           header == recv_buffer[index]
<1>1. /\ ReceiveWords \in Nat /\ recv_index \in Nat /\ recv_index \in 0..ReceiveWords /\ index \in 0..recv_index
      /\ pipe \in Seq(Receive!Word) /\ Len(pipe) \in Nat
      /\ handled \in Nat /\ receive_sent \in Nat /\ receive_sent <= EventsSent
      /\ u = Window(recv_buffer, index, recv_index, pipe)
  BY ReceiveTypes DEF Receive!Inv
<1>2. /\ Len(u) = recv_index - index + Len(pipe) /\ Len(u) \in Nat /\ \A i \in 1..Len(u) : u[i] \in Receive!Word
      /\ \A i \in 1..(recv_index - index) : u[i] = recv_buffer[index + i - 1]
  BY UnhandledWords DEF Receive!Inv
<1>3. Receive!Consecutive(u, handled) /\ Receive!Complete(u, handled, receive_sent)
  BY DEF Receive!Inv, Receive!StreamIntact, Receive!MessagesWhole
<1>4. recv_index - index >= 2 /\ UNCHANGED <<receive_pc, recv_buffer, recv_index, pipe, receive_sent>>
  BY DEF Receive!DispatchOne, Receive!HasHeader
<1>5. u[1] = header /\ Len(u) > 0
  <2>1. 1 \in 1..(recv_index - index) /\ index + 1 - 1 = index
    BY <1>1, <1>4
  <2>2. u[1] = recv_buffer[index + 1 - 1]
    BY <1>2, <2>1
  <2> HIDE DEF u
  <2> QED
    BY <1>1, <1>2, <1>4, <2>1, <2>2
<1> DEFINE s == header.size
<1>6. header.at = 1
  <2>1. 1 \in 1..Len(u)
    BY <1>2, <1>5
  <2>2. u[1].at = 1
    BY <2>1 DEF Receive!Consecutive, Receive!Inv, Receive!StreamIntact
  <2> HIDE DEF u
  <2> QED
    BY <1>5, <2>2
<1>7. CASE s > recv_index - index
  <2>1. receive_status' = "panic" /\ UNCHANGED <<index, handled>>
    BY <1>6, <1>7 DEF Receive!DispatchOne
  <2>2. Receive!TypeOK'
    BY <1>4, <2>1 DEF Receive!Inv, Receive!TypeOK
  <2>3. Receive!Unhandled' = Receive!Unhandled
    BY <1>4, <2>1 DEF Receive!Unhandled
  <2> QED
    BY <1>4, <2>1, <2>2, <2>3, SameUnhandled
<1>8. CASE ~(s > recv_index - index)
  <2>1. index' = index + s /\ handled' = handled + 1 /\ UNCHANGED receive_status
    BY <1>6, <1>8 DEF Receive!DispatchOne, Receive!NextMessage
  <2> DEFINE v == Window(recv_buffer, index + s, recv_index, pipe)
  <2> HIDE DEF u, header
  <2>2. s \in Nat /\ s <= recv_index - index
    <3>1. u[1] \in Receive!Word
      BY <1>2, <1>5
    <3>2. s \in Nat
      BY <1>5, <3>1 DEF Receive!Word
    <3> QED
      BY <1>1, <1>8, <3>2
  <2> HIDE DEF s
  <2>3. Without(u, v, s)
    <3> DEFINE next == index + s
    <3>1. recv_index \in Nat /\ index \in 0..recv_index /\ Len(pipe) \in Nat /\ next = index + s
      BY <1>1
    <3> HIDE DEF next
    <3>2. Without(Window(recv_buffer, index, recv_index, pipe), Window(recv_buffer, next, recv_index, pipe), s)
      BY <2>2, <3>1, WindowShrinks
    <3> QED
      BY <1>1, <3>2 DEF next
  <2>4. u[1].size = s
    BY <1>5 DEF s
  <2> HIDE DEF v
  <2>5. handled + 1 <= receive_sent /\ Receive!Consecutive(v, handled + 1) /\ Receive!Complete(v, handled + 1, receive_sent)
    BY <1>1, <1>2, <1>3, <1>5, <2>3, <2>4, MessageDropped
  <2>6. index' \in 0..recv_index' /\ handled' \in 0..receive_sent' /\ (receive_pc' = "recv" => index' = 0)
    <3>1. receive_pc = "dispatch"
      BY DEF Receive!DispatchOne
    <3> QED
      BY <1>1, <1>4, <2>1, <2>2, <2>5, <3>1
  <2>7. Receive!TypeOK'
    BY <1>4, <2>1, <2>6 DEF Receive!Inv, Receive!TypeOK
  <2>8. Receive!Unhandled' = v
    BY <1>4, <2>1 DEF Receive!Unhandled, Window, v
  <2>9. Receive!Consecutive(Receive!Unhandled', handled') /\ Receive!Complete(Receive!Unhandled', handled', receive_sent')
    BY <1>4, <2>1, <2>5, <2>8
  <2>10. receive_status' # "misread"
    BY <2>1 DEF Receive!Inv, Receive!StreamIntact
  <2> QED
    BY <2>7, <2>9, <2>10 DEF Receive!Inv, Receive!StreamIntact, Receive!MessagesWhole
<1> QED
  BY <1>7, <1>8

\* The compositor sends a message.
LEMMA SendStep ==
  ASSUME Receive!WireRecvAssumption, Receive!Inv, NEW size \in ReceiveSizes, Receive!Send(size)
  PROVE  Receive!Inv'
<1> DEFINE u == Receive!Unhandled
           words == Receive!Words(receive_sent + 1, size)
           longer == pipe \o words
           v == Window(recv_buffer, index, recv_index, longer)
<1>1. /\ recv_index \in Nat /\ index \in 0..recv_index
      /\ pipe \in Seq(Receive!Word) /\ handled \in Nat /\ receive_sent \in Nat /\ handled <= receive_sent
      /\ EventsSent \in Nat
      /\ u = Window(recv_buffer, index, recv_index, pipe)
  BY ReceiveTypes DEF Receive!Inv
<1>2. Len(u) \in Nat /\ \A i \in 1..Len(u) : u[i] \in Receive!Word
  BY UnhandledWords DEF Receive!Inv
<1>3. Receive!Consecutive(u, handled) /\ Receive!Complete(u, handled, receive_sent)
  BY DEF Receive!Inv, Receive!StreamIntact, Receive!MessagesWhole
<1>4. /\ receive_sent < EventsSent /\ receive_sent' = receive_sent + 1 /\ pipe' = pipe \o words
      /\ UNCHANGED <<receive_pc, receive_status, recv_buffer, recv_index, index, handled>>
  BY DEF Receive!Send
<1>5. size \in Nat
  BY DEF Receive!WireRecvAssumption
<1>6. words \in Seq(Receive!Word) /\ Len(words) = size
      /\ \A k \in 1..size : words[k] = [msg |-> receive_sent + 1, at |-> k, size |-> size]
  <2>1. \A k \in 1..size : [msg |-> receive_sent + 1, at |-> k, size |-> size] \in Receive!Word
    BY <1>1, <1>5 DEF Receive!Word
  <2>2. words \in [1..size -> Receive!Word]
    BY <2>1 DEF Receive!Words
  <2>3. words \in Seq(Receive!Word) /\ Len(words) = size
    BY <1>5, <2>2
  <2> QED
    BY <2>3 DEF Receive!Words
<1> HIDE DEF u, words
<1>7. Followed(u, v, words)
  <2>1. longer = pipe \o words
    OBVIOUS
  <2> HIDE DEF longer
  <2>2. Followed(Window(recv_buffer, index, recv_index, pipe), Window(recv_buffer, index, recv_index, longer), words)
    BY <1>1, <1>6, <2>1, WindowExtends
  <2> QED
    BY <1>1, <2>2
<1> HIDE DEF v
<1>8. WithLast(u, v, receive_sent + 1, size)
  BY <1>6, <1>7 DEF WithLast, Followed
<1>9. Receive!Consecutive(v, handled) /\ Receive!Complete(v, handled, receive_sent + 1)
  BY <1>1, <1>2, <1>3, <1>8, MessageAdded
<1>10. pipe' \in Seq(Receive!Word)
  BY <1>1, <1>4, <1>6, ConcatProperties
<1>11. handled' \in 0..receive_sent' /\ receive_sent' \in 0..EventsSent
  BY <1>1, <1>4
<1>12. Receive!TypeOK'
  BY <1>4, <1>10, <1>11 DEF Receive!Inv, Receive!TypeOK
<1>13. Receive!Unhandled' = v
  BY <1>4 DEF Receive!Unhandled, Window, v
<1>14. Receive!Consecutive(Receive!Unhandled', handled') /\ Receive!Complete(Receive!Unhandled', handled', receive_sent')
  BY <1>4, <1>9, <1>13
<1>15. receive_status' # "misread"
  BY <1>4 DEF Receive!Inv, Receive!StreamIntact
<1> QED
  BY <1>12, <1>14, <1>15 DEF Receive!Inv, Receive!StreamIntact, Receive!MessagesWhole

\* Nothing has been sent at first.
LEMMA ReceiveStarts ==
  ASSUME Receive!WireRecvAssumption, Receive!Init
  PROVE  Receive!Inv
<1>1. pipe = <<>> /\ pipe \in Seq(Receive!Word) /\ recv_index = 0 /\ index = 0 /\ handled = 0 /\ receive_sent = 0
  BY DEF Receive!Init
<1>2. Receive!Blank \in Receive!Word
  BY DEF Receive!Blank, Receive!Word
<1>3. recv_buffer \in [0..(ReceiveWords - 1) -> Receive!Word]
  BY <1>2 DEF Receive!Init
<1>4. Receive!TypeOK
  BY <1>1, <1>3 DEF Receive!Init, Receive!TypeOK, Receive!WireRecvAssumption
<1>5. Len(Receive!Unhandled) = 0
  BY <1>1, <1>4, UnhandledWords
<1>6. Receive!Consecutive(Receive!Unhandled, handled)
  BY <1>5 DEF Receive!Consecutive
<1>7. Receive!Complete(Receive!Unhandled, handled, receive_sent)
  BY <1>1, <1>5 DEF Receive!Complete
<1> QED
  BY <1>4, <1>6, <1>7 DEF Receive!Inv, Receive!StreamIntact, Receive!MessagesWhole, Receive!Init

\* Every step of the stream keeps its words in order.
LEMMA ReceiveStep ==
  ASSUME Receive!WireRecvAssumption, Receive!Inv, [Receive!Next]_(Receive!vars)
  PROVE  Receive!Inv'
<1>1. CASE UNCHANGED Receive!vars
  BY <1>1, SameUnhandled DEF Receive!vars, Receive!Inv, Receive!TypeOK, Receive!Unhandled, Receive!StreamIntact
<1>2. CASE \E n \in 1..ReceiveWords : Receive!RecvMsg(n)
  BY <1>2, RecvMsgStep
<1>3. CASE Receive!DispatchOne
  BY <1>3, DispatchStep
<1>4. CASE Receive!MoveUnused
  BY <1>4, MoveUnusedStep
<1>5. CASE \E size \in ReceiveSizes : Receive!Send(size)
  BY <1>5, SendStep
<1> QED
  BY <1>1, <1>2, <1>3, <1>4, <1>5 DEF Receive!Next, Receive!Receive, Receive!Ended

------------------------------------------------------------------------------
(* Proofs: words on the wire, to the compositor *)

\* What is known of the sender.
LEMMA SendTypes ==
  ASSUME Send!WireSendAssumption, Send!TypeOK
  PROVE  /\ SendSizes \subseteq Nat \ {0, 1} /\ SendWords \in Nat /\ Bursts \subseteq Nat /\ Requests \in Nat
         /\ burst \in Nat /\ buffer \in Seq(Send!Word) /\ stream \in Seq(Send!Word)
         /\ Len(buffer) \in Nat /\ Len(stream) \in Nat /\ Len(buffer) <= SendWords
         /\ writing \in Nat /\ at \in Nat /\ at <= writing /\ send_sent \in Nat
         /\ (writing = 0 => message_start = -1) /\ (writing # 0 => message_start \in Nat /\ writing \in SendSizes)
<1>1. 0 \notin SendSizes /\ SendSizes \subseteq Nat
  BY DEF Send!WireSendAssumption
<1> QED
  BY <1>1 DEF Send!WireSendAssumption, Send!TypeOK, Send!NoMessage

\* Words of two sequences, one behind the other.
Joined(words, first, second) ==
  /\ Len(words) = Len(first) + Len(second)
  /\ \A i \in 1..Len(first) : words[i] = first[i]
  /\ \A i \in 1..Len(second) : words[Len(first) + i] = second[i]

\* Concatenation gives the words of the first sequence, then those of the second.
LEMMA JoinedWords ==
  ASSUME NEW W, NEW first \in Seq(W), NEW second \in Seq(W)
  PROVE  /\ Joined(first \o second, first, second) /\ first \o second \in Seq(W)
         /\ \A i \in 1..Len(first \o second) : (first \o second)[i] \in W
<1> DEFINE words == first \o second
<1>1. /\ words \in Seq(W) /\ Len(words) = Len(first) + Len(second)
      /\ \A i \in 1..Len(first) + Len(second) :
           words[i] = IF i <= Len(first) THEN first[i] ELSE second[i - Len(first)]
  BY ConcatProperties
<1>2. Len(first) \in Nat /\ Len(second) \in Nat
  OBVIOUS
<1> HIDE DEF words
<1>3. \A i \in 1..Len(first) : words[i] = first[i]
  BY <1>1, <1>2
<1>4. ASSUME NEW i \in 1..Len(second) PROVE words[Len(first) + i] = second[i]
  <2> DEFINE j == Len(first) + i
  <2>1. j \in 1..Len(first) + Len(second) /\ ~(j <= Len(first)) /\ j - Len(first) = i
    BY <1>2
  <2> HIDE DEF j
  <2>2. words[j] = second[i]
    BY <1>1, <2>1
  <2> QED
    BY <2>2 DEF j
<1>5. \A i \in 1..Len(words) : words[i] \in W
  BY <1>1
<1> QED
  BY <1>1, <1>3, <1>4, <1>5 DEF words, Joined

\* Three sequences behind each other, however they are grouped.
Regroups(W, q, r, t) == (q \o r) \o t = q \o (r \o t)

\* Concatenation is associative.
LEMMA Regrouped ==
  ASSUME NEW W, NEW q \in Seq(W), NEW r \in Seq(W), NEW t \in Seq(W)
  PROVE  Regroups(W, q, r, t)
<1> DEFINE u == (q \o r) \o t
           v == q \o (r \o t)
           a == Len(q)
           b == Len(r)
           c == Len(t)
<1>1. a \in Nat /\ b \in Nat /\ c \in Nat
  OBVIOUS
<1>2. /\ q \o r \in Seq(W) /\ Len(q \o r) = a + b
      /\ \A i \in 1..(a + b) : (q \o r)[i] = IF i <= a THEN q[i] ELSE r[i - a]
  BY ConcatProperties
<1>3. /\ r \o t \in Seq(W) /\ Len(r \o t) = b + c
      /\ \A i \in 1..(b + c) : (r \o t)[i] = IF i <= b THEN r[i] ELSE t[i - b]
  BY ConcatProperties
<1>4. /\ u \in Seq(W) /\ Len(u) = Len(q \o r) + c
      /\ \A i \in 1..(Len(q \o r) + c) : u[i] = IF i <= Len(q \o r) THEN (q \o r)[i] ELSE t[i - Len(q \o r)]
  BY <1>2, ConcatProperties
<1>5. /\ v \in Seq(W) /\ Len(v) = a + Len(r \o t)
      /\ \A i \in 1..(a + Len(r \o t)) : v[i] = IF i <= a THEN q[i] ELSE (r \o t)[i - a]
  BY <1>3, ConcatProperties
<1> DEFINE x == q \o r
           y == r \o t
<1> HIDE DEF u, v, x, y, a, b, c
<1>6. /\ Len(u) = a + b + c
      /\ \A i \in 1..(a + b + c) : u[i] = IF i <= a + b THEN x[i] ELSE t[i - (a + b)]
  BY <1>2, <1>4 DEF x
<1>7. /\ Len(v) = a + b + c
      /\ \A i \in 1..(a + b + c) : v[i] = IF i <= a THEN q[i] ELSE y[i - a]
  <2>1. a + Len(y) = a + b + c
    BY <1>1, <1>3 DEF y
  <2> QED
    BY <1>5, <2>1 DEF y
<1>8. ASSUME NEW i \in 1..(a + b + c) PROVE u[i] = v[i]
  <2>1. CASE i <= a
    <3>1. i \in 1..(a + b) /\ i <= a + b
      BY <1>1, <2>1
    <3> QED
      BY <1>2, <1>6, <1>7, <2>1, <3>1 DEF x
  <2>2. CASE ~(i <= a) /\ i <= a + b
    <3>1. i \in 1..(a + b) /\ i - a \in 1..(b + c) /\ i - a <= b
      BY <1>1, <2>2
    <3> QED
      BY <1>2, <1>3, <1>6, <1>7, <2>2, <3>1 DEF x, y
  <2>3. CASE ~(i <= a + b)
    <3>1. i - a \in 1..(b + c) /\ ~(i - a <= b) /\ ~(i <= a) /\ i - a - b = i - (a + b)
      BY <1>1, <2>3
    <3> QED
      BY <1>3, <1>6, <1>7, <2>3, <3>1 DEF y
  <2> QED
    BY <1>1, <2>1, <2>2, <2>3
<1>9. u = v
  BY <1>4, <1>5, <1>6, <1>7, <1>8, SeqEqual
<1> QED
  BY <1>9 DEF u, v, Regroups

\* A flush moves words from the buffer to the stream.
Flushes(W, first, second, n) ==
  /\ first \o SubSeq(second, 1, n) \in Seq(W) /\ Len(first \o SubSeq(second, 1, n)) = Len(first) + n
  /\ SubSeq(second, n + 1, Len(second)) \in Seq(W)
  /\ Len(SubSeq(second, n + 1, Len(second))) = Len(second) - n
  /\ (first \o SubSeq(second, 1, n)) \o SubSeq(second, n + 1, Len(second)) = first \o second

\* Whatever number of words a flush takes, stream and buffer together hold the same words.
LEMMA FlushKeepsWords ==
  ASSUME NEW W, NEW first \in Seq(W), NEW second \in Seq(W), NEW n \in 0..Len(second)
  PROVE  Flushes(W, first, second, n)
<1> DEFINE left == SubSeq(second, n + 1, Len(second))
           taken == SubSeq(second, 1, n)
<1>1. Len(second) \in Nat /\ Len(first) \in Nat /\ \A i \in 1..Len(second) : second[i] \in W
  OBVIOUS
<1>2. left \in Seq(W) /\ Len(left) = Len(second) - n
  BY RestFacts
<1>3. taken \in Seq(W) /\ Len(taken) = n
  <2>1. \A i \in 1..n : second[i] \in W
    BY <1>1
  <2>2. taken \in Seq(W) /\ Len(taken) = IF 1 <= n THEN n - 1 + 1 ELSE 0
    BY <1>1, <2>1, SubSeqProperties
  <2> QED
    BY <2>2
<1>4. taken \o left = second
  <2>1. SubSeq(second, 1, Len(second)) = second
    OBVIOUS
  <2> DEFINE m == 1
             last == Len(second)
  <2>2. m \in 1..Len(second) + 1 /\ n \in m - 1..Len(second) /\ last \in n..Len(second)
    BY <1>1
  <2> HIDE DEF m, last
  <2>3. SubSeq(second, m, n) \o SubSeq(second, n + 1, last) = SubSeq(second, m, last)
    BY <2>2, ConcatAdjacentSubSeq
  <2> QED
    BY <2>1, <2>3 DEF m, last
<1> HIDE DEF taken, left
<1>5. (first \o taken) \o left = first \o (taken \o left)
  <2>1. first \in Seq(W) /\ taken \in Seq(W) /\ left \in Seq(W)
    BY <1>2, <1>3
  <2> QED
    BY <2>1, Regrouped DEF Regroups
<1>6. first \o taken \in Seq(W) /\ Len(first \o taken) = Len(first) + n
  BY <1>3, ConcatProperties
<1> QED
  BY <1>2, <1>4, <1>5, <1>6 DEF taken, left, Flushes

\* The program writes words: they follow the last one, of the message being written.
Extends(words, more, m, start) ==
  /\ Len(more) > 0
  /\ \A i \in 1..Len(more) : more[i].msg = m /\ more[i].at = start + i

\* Where the program stands in the message it writes.
Standing(words, m, start) ==
  IF Len(words) = 0 THEN start = 0 /\ m = 1
  ELSE /\ words[Len(words)].msg = (IF start = 0 THEN m - 1 ELSE m)
       /\ start > 0 => words[Len(words)].at = start

\* They follow in order.
LEMMA InOrderExtended ==
  ASSUME NEW words, NEW more, NEW all, NEW m \in Nat, NEW start \in Nat,
         Len(words) \in Nat, Len(more) \in Nat,
         Joined(all, words, more), Send!InOrder(words), Standing(words, m, start), Extends(words, more, m, start)
  PROVE  /\ Send!InOrder(all) /\ Len(all) > 0
         /\ all[Len(all)].msg = m /\ all[Len(all)].at = start + Len(more)
<1> DEFINE n == Len(words)
           k == Len(more)
<1>1. n \in Nat /\ k \in Nat /\ k > 0 /\ Len(all) = n + k
  BY DEF Joined, Extends
<1>2. \A i \in 1..n : all[i] = words[i]
  BY DEF Joined
<1>3. \A i \in 1..k : all[n + i] = more[i] /\ all[n + i].msg = m /\ all[n + i].at = start + i
  BY DEF Joined, Extends
<1>4. IF n = 0 THEN start = 0 /\ m = 1
      ELSE words[n].msg = (IF start = 0 THEN m - 1 ELSE m) /\ (start > 0 => words[n].at = start)
  BY DEF Standing
<1>5. \A i \in 1..n : IF i = 1 THEN words[i].msg = 1 /\ words[i].at = 1 ELSE Send!Follows(words[i], words[i - 1])
  BY DEF Send!InOrder
<1> HIDE DEF n, k
<1>6. ASSUME NEW i \in 1..Len(all)
      PROVE  IF i = 1 THEN all[i].msg = 1 /\ all[i].at = 1 ELSE Send!Follows(all[i], all[i - 1])
  <2>1. CASE i <= n
    <3>1. i \in 1..n /\ (i # 1 => i - 1 \in 1..n)
      BY <1>1, <2>1
    <3> QED
      BY <1>2, <1>5, <3>1
  <2>2. CASE i = n + 1
    <3>1. all[i].msg = m /\ all[i].at = start + 1
      <4>1. 1 \in 1..k
        BY <1>1
      <4> QED
        BY <1>3, <2>2, <4>1
    <3>2. CASE n = 0
      BY <1>4, <2>2, <3>1, <3>2
    <3>3. CASE n # 0
      <4>1. n \in 1..n /\ i - 1 = n /\ i # 1
        BY <1>1, <2>2, <3>3
      <4>2. all[i - 1].msg = (IF start = 0 THEN m - 1 ELSE m) /\ (start > 0 => all[i - 1].at = start)
        BY <1>2, <1>4, <3>3, <4>1
      <4>3. CASE start = 0
        BY <3>1, <4>1, <4>2, <4>3 DEF Send!Follows
      <4>4. CASE start > 0
        BY <3>1, <4>1, <4>2, <4>4 DEF Send!Follows
      <4> QED
        BY <4>3, <4>4
    <3> QED
      BY <3>2, <3>3
  <2>3. CASE i > n + 1
    <3> DEFINE j == i - n
    <3>1. j \in 1..k /\ j - 1 \in 1..k /\ n + j = i /\ n + (j - 1) = i - 1 /\ i # 1
      BY <1>1, <2>3
    <3> HIDE DEF j
    <3>2. all[i].msg = m /\ all[i].at = start + j /\ all[i - 1].msg = m /\ all[i - 1].at = start + (j - 1)
      BY <1>3, <3>1
    <3>3. start + j = start + (j - 1) + 1
      BY <1>1, <3>1
    <3> QED
      BY <3>1, <3>2, <3>3 DEF Send!Follows
  <2> QED
    BY <1>1, <2>1, <2>2, <2>3
<1>7. all[Len(all)].msg = m /\ all[Len(all)].at = start + k
  <2>1. k \in 1..k
    BY <1>1
  <2>2. all[n + k].msg = m /\ all[n + k].at = start + k
    BY <1>3, <2>1
  <2> QED
    BY <1>1, <2>2, Zenon
<1> QED
  <2>1. Len(all) > 0
    BY <1>1
  <2> QED
    BY <1>6, <1>7, <2>1 DEF Send!InOrder, k

\* They are behind the headers, and of no size.
LEMMA HeadersExtended ==
  ASSUME NEW words, NEW more, NEW all, NEW whole \in Nat, NEW start \in Nat, NEW m,
         Len(words) \in Nat, Len(more) \in Nat, Joined(all, words, more), Extends(words, more, m, start),
         \A i \in 1..Len(more) : more[i].size = 0,
         Len(words) = whole + start, Send!HeadersLead(words, whole)
  PROVE  Send!HeadersLead(all, whole)
<1> DEFINE n == Len(words)
           k == Len(more)
<1>1. n \in Nat /\ k \in Nat /\ k > 0 /\ Len(all) = n + k /\ n = whole + start
  BY DEF Joined, Extends
<1>2. \A i \in 1..n : all[i] = words[i]
  BY DEF Joined
<1>3. \A i \in 1..k : all[n + i].size = 0 /\ all[n + i].at = start + i
  BY DEF Joined, Extends
<1>4. /\ \A i \in 1..whole : words[i].size > 0 <=> words[i].at = 2
      /\ \A i \in (whole + 1)..n : words[i].size = 0 /\ words[i].at = i - whole
      /\ \A i \in 2..whole : words[i].at = 1 => \E j \in 1..(i - 1) : Send!Header(words, whole, j, i)
      /\ whole > 0 => \E j \in 1..whole : Send!Header(words, whole, j, whole + 1)
  BY DEF Send!HeadersLead
<1> HIDE DEF n, k
<1>5. \A i \in 1..whole : all[i] = words[i]
  BY <1>1, <1>2
<1>6. ASSUME NEW j \in 1..whole, NEW i, Send!Header(words, whole, j, i) PROVE Send!Header(all, whole, j, i)
  <2>1. words[j].at = 1 /\ j + 1 <= whole /\ i = j + words[j + 1].size
    BY <1>6 DEF Send!Header
  <2>2. all[j] = words[j] /\ all[j + 1] = words[j + 1]
    BY <1>5, <2>1
  <2> QED
    BY <2>1, <2>2 DEF Send!Header
<1>7. ASSUME NEW i \in (whole + 1)..Len(all) PROVE all[i].size = 0 /\ all[i].at = i - whole
  <2>1. CASE i <= n
    <3>1. i \in (whole + 1)..n /\ i \in 1..n
      BY <1>1, <2>1
    <3> QED
      BY <1>2, <1>4, <3>1
  <2>2. CASE i > n
    <3> DEFINE j == i - n
    <3>1. j \in 1..k /\ n + j = i /\ start + j = i - whole
      BY <1>1, <2>2
    <3> HIDE DEF j
    <3> QED
      BY <1>3, <3>1
  <2> QED
    BY <1>1, <2>1, <2>2
<1>8. \A i \in 1..whole : all[i].size > 0 <=> all[i].at = 2
  BY <1>4, <1>5
<1>9. ASSUME NEW i \in 2..whole, all[i].at = 1 PROVE \E j \in 1..(i - 1) : Send!Header(all, whole, j, i)
  <2>1. i \in 1..whole
    OBVIOUS
  <2>2. PICK j \in 1..(i - 1) : Send!Header(words, whole, j, i)
    BY <1>4, <1>5, <1>9, <2>1
  <2>3. j \in 1..whole
    OBVIOUS
  <2> QED
    BY <1>6, <2>2, <2>3
<1>10. whole > 0 => \E j \in 1..whole : Send!Header(all, whole, j, whole + 1)
  BY <1>4, <1>6
<1> QED
  BY <1>7, <1>8, <1>9, <1>10 DEF Send!HeadersLead

\* What is written, as a sequence of words.
LEMMA WrittenWords ==
  ASSUME Send!WireSendAssumption, Send!TypeOK
  PROVE  /\ Joined(Send!Written, stream, buffer) /\ Send!Written \in Seq(Send!Word)
         /\ Len(Send!Written) = Len(stream) + Len(buffer) /\ Len(Send!Written) \in Nat
         /\ \A i \in 1..Len(Send!Written) : Send!Written[i] \in Send!Word
<1>1. /\ buffer \in Seq(Send!Word) /\ stream \in Seq(Send!Word) /\ Len(buffer) \in Nat /\ Len(stream) \in Nat
  BY SendTypes
<1>2. /\ Joined(stream \o buffer, stream, buffer) /\ stream \o buffer \in Seq(Send!Word)
      /\ \A i \in 1..Len(stream \o buffer) : (stream \o buffer)[i] \in Send!Word
  BY <1>1, JoinedWords
<1>3. Len(stream \o buffer) = Len(stream) + Len(buffer)
  BY <1>2 DEF Joined
<1>4. Len(stream) + Len(buffer) \in Nat
  BY <1>1
<1> QED
  BY <1>2, <1>3, <1>4 DEF Send!Written

\* The parts of the invariant but the types depend on no more than this.
LEMMA SameWritten ==
  ASSUME Send!Inv, Send!TypeOK', Send!Written' = Send!Written, Send!Whole' = Send!Whole,
         UNCHANGED <<burst, message_start, writing, at, send_sent>>, writing = 0 \/ Len(buffer') = Len(buffer) \/ burst > SendWords,
         Send!WireSendAssumption
  PROVE  Send!Inv'
<1>1. Send!WordsInOrder'
  BY DEF Send!Inv, Send!WordsInOrder
<1>2. Send!LastWritten'
  BY DEF Send!Inv, Send!LastWritten
<1>3. Send!HeadersWritten'
  <2>1. burst \in Nat /\ SendWords \in Nat /\ writing \in Nat
    BY SendTypes DEF Send!Inv
  <2>2. CASE burst <= SendWords
    <3>1. Send!HeadersLead(Send!Written', Send!Whole')
      BY <2>2 DEF Send!Inv, Send!HeadersWritten
    <3>2. writing' > 0 => Len(buffer') = message_start' + at' /\ message_start' + writing' <= burst'
      BY <2>1, <2>2 DEF Send!Inv, Send!HeadersWritten
    <3> QED
      BY <3>1, <3>2 DEF Send!HeadersWritten
  <2>3. CASE ~(burst <= SendWords)
    BY <2>3 DEF Send!HeadersWritten
  <2> QED
    BY <2>2, <2>3
<1> QED
  BY <1>1, <1>2, <1>3 DEF Send!Inv

\* A flush, between messages or when the buffer is full.
LEMMA FlushedStep ==
  ASSUME Send!WireSendAssumption, Send!Inv, NEW n \in 0..SendWords, n <= Send!MessageEnd, Send!Flushed(n),
         UNCHANGED <<burst, message_start, writing, at, send_sent>>, writing = 0 \/ burst > SendWords,
         send_status = "running"
  PROVE  Send!Inv'
<1> DEFINE end == Send!MessageEnd
<1>1. /\ buffer \in Seq(Send!Word) /\ stream \in Seq(Send!Word) /\ Len(buffer) \in Nat /\ Len(stream) \in Nat
      /\ Len(buffer) <= SendWords /\ SendWords \in Nat /\ writing \in Nat /\ burst \in Nat
  BY SendTypes DEF Send!Inv
<1>2. CASE end > Len(buffer)
  <2>1. send_status' = "assertion" /\ UNCHANGED <<buffer, stream>>
    BY <1>2 DEF Send!Flushed
  <2>2. Send!TypeOK'
    BY <2>1 DEF Send!Inv, Send!TypeOK
  <2>3. Send!Written' = Send!Written /\ Send!Whole' = Send!Whole
    BY <2>1 DEF Send!Written, Send!Whole, Send!MessageEnd
  <2> QED
    BY <2>1, <2>2, <2>3, SameWritten
<1>3. CASE ~(end > Len(buffer))
  <2>1. /\ stream' = stream \o SubSeq(buffer, 1, n) /\ buffer' = SubSeq(buffer, n + 1, Len(buffer))
        /\ UNCHANGED send_status
    BY <1>3 DEF Send!Flushed, Send!Rest
  <2>2. n \in 0..Len(buffer)
    <3>1. end \in Int
      BY <1>1 DEF Send!MessageEnd, Send!Inv, Send!TypeOK, Send!NoMessage, Send!WireSendAssumption
    <3> HIDE DEF end
    <3>2. n <= end
      BY DEF end
    <3> QED
      BY <1>1, <1>3, <3>1, <3>2
  <2>3. /\ stream' \in Seq(Send!Word) /\ Len(stream') = Len(stream) + n
        /\ buffer' \in Seq(Send!Word) /\ Len(buffer') = Len(buffer) - n
        /\ Send!Written' = Send!Written
    <3>1. Flushes(Send!Word, stream, buffer, n)
      BY <1>1, <2>2, FlushKeepsWords
    <3> QED
      BY <2>1, <3>1 DEF Send!Written, Flushes
  <2>4. Send!TypeOK'
    BY <1>1, <2>1, <2>2, <2>3 DEF Send!Inv, Send!TypeOK
  <2>5. CASE burst > SendWords
    <3>1. Send!WordsInOrder' /\ Send!LastWritten'
      BY <2>3 DEF Send!Inv, Send!WordsInOrder, Send!LastWritten
    <3>2. Send!HeadersWritten'
      BY <1>1, <2>5 DEF Send!HeadersWritten
    <3> QED
      BY <2>4, <3>1, <3>2 DEF Send!Inv
  <2>6. CASE writing = 0
    <3>1. message_start = -1 /\ message_start' = -1
      BY <2>6, SendTypes DEF Send!Inv
    <3>2. Send!Whole = Len(stream) + Len(buffer) /\ Send!Whole' = Len(stream') + Len(buffer')
      BY <3>1 DEF Send!Whole, Send!MessageEnd, Send!NoMessage
    <3>3. Send!Whole' = Send!Whole
      BY <1>1, <2>2, <2>3, <3>2
    <3> QED
      BY <2>3, <2>4, <2>6, <3>3, SameWritten
  <2> QED
    BY <2>5, <2>6
<1> QED
  BY <1>2, <1>3

\* The end of a frame.
LEMMA FlushStep ==
  ASSUME Send!WireSendAssumption, Send!Inv, NEW n \in 0..SendWords, Send!Flush(n)
  PROVE  Send!Inv'
BY FlushedStep DEF Send!Flush

\* A program that flushes often enough never drains in the middle of a message.
LEMMA DrainStep ==
  ASSUME Send!WireSendAssumption, Send!Inv, NEW n \in 0..SendWords, Send!Drain(n)
  PROVE  Send!Inv'
<1>1. burst > SendWords
  <2> SUFFICES ASSUME burst <= SendWords PROVE FALSE
    BY SendTypes DEF Send!Inv
  <2>1. /\ burst \in Nat /\ SendWords \in Nat /\ writing \in Nat /\ at \in Nat /\ Len(buffer) \in Nat
        /\ SendSizes \subseteq Nat \ {0, 1}
        /\ (writing # 0 => message_start \in Nat /\ writing \in SendSizes)
    BY SendTypes DEF Send!Inv
  <2>2. at < writing /\ ~Send!Room
    BY DEF Send!Drain
  <2>3. writing > 0 /\ message_start \in Nat /\ writing > 1
    BY <2>1, <2>2
  <2>4. Len(buffer) = message_start + at /\ message_start + writing <= burst
    BY <2>3 DEF Send!Inv, Send!HeadersWritten
  <2>5. Send!Piece <= writing - at
    BY <2>1, <2>2, <2>3 DEF Send!Piece
  <2>6. Send!Piece \in Nat
    BY DEF Send!Piece
  <2>7. Len(buffer) + Send!Piece <= SendWords
    BY <2>1, <2>3, <2>4, <2>5, <2>6
  <2> QED
    BY <2>2, <2>7 DEF Send!Room
<1> QED
  BY <1>1, FlushedStep DEF Send!Drain

\* A message begins behind what is written.
LEMMA BeginStep ==
  ASSUME Send!WireSendAssumption, Send!Inv, NEW size \in SendSizes, Send!Begin(size)
  PROVE  Send!Inv'
<1>1. /\ Len(buffer) \in Nat /\ Len(stream) \in Nat /\ SendWords \in Nat /\ size \in Nat /\ size > 1 /\ burst \in Nat
      /\ Len(buffer) <= SendWords /\ send_sent \in Nat /\ Requests \in Nat
  BY SendTypes DEF Send!Inv
<1>2. /\ writing = 0 /\ at = 0 /\ message_start = -1
  BY SendTypes DEF Send!Begin, Send!Inv
<1>3. /\ send_sent < Requests /\ Len(buffer) + size <= burst
      /\ message_start' = Len(buffer) /\ writing' = size /\ at' = 0 /\ send_sent' = send_sent + 1
      /\ UNCHANGED <<burst, buffer, stream, send_status>>
  BY DEF Send!Begin
<1>4. Send!TypeOK'
  <2>1. /\ message_start' \in {-1} \cup 0..SendWords /\ message_start' # -1 /\ writing' # 0 /\ at' \in 0..writing'
        /\ writing' \in {0} \cup SendSizes /\ send_sent' \in 0..Requests
    BY <1>1, <1>3
  <2>2. message_start' = -1 <=> writing' = 0
    BY <2>1
  <2> QED
    BY <1>3, <2>1, <2>2 DEF Send!Inv, Send!TypeOK, Send!NoMessage
<1>5. Send!Written' = Send!Written
  BY <1>3 DEF Send!Written
<1>6. Send!WordsInOrder'
  BY <1>5 DEF Send!Inv, Send!WordsInOrder
<1>7. Send!LastWritten'
  <2>1. CASE Send!Written = <<>>
    <3>1. send_sent = 0
      BY <1>2, <2>1 DEF Send!Inv, Send!LastWritten
    <3>2. send_sent' = 1 /\ writing' > 0 /\ at' = 0
      BY <1>1, <1>3, <3>1
    <3> QED
      BY <1>5, <2>1, <3>2 DEF Send!LastWritten
  <2>2. CASE Send!Written # <<>>
    <3>1. Send!Written[Len(Send!Written)].msg = send_sent
      BY <1>2, <2>2 DEF Send!Inv, Send!LastWritten
    <3>2. send_sent' - 1 = send_sent /\ writing' > 0 /\ at' = 0
      BY <1>1, <1>3
    <3> QED
      BY <1>5, <2>2, <3>1, <3>2 DEF Send!LastWritten
  <2> QED
    BY <2>1, <2>2
<1>8. Send!Whole' = Send!Whole
  <2>1. Send!MessageEnd = Len(buffer)
    BY <1>2 DEF Send!MessageEnd, Send!NoMessage
  <2>2. (Send!MessageEnd)' = Len(buffer)
    BY <1>1, <1>3 DEF Send!MessageEnd, Send!NoMessage
  <2> QED
    BY <1>3, <2>1, <2>2 DEF Send!Whole
<1>9. Send!HeadersWritten'
  <2>1. CASE burst <= SendWords
    <3>1. Send!HeadersLead(Send!Written', Send!Whole')
      BY <1>5, <1>8, <2>1 DEF Send!Inv, Send!HeadersWritten
    <3>2. Len(buffer') = message_start' + at' /\ message_start' + writing' <= burst'
      BY <1>1, <1>3
    <3> QED
      BY <3>1, <3>2 DEF Send!HeadersWritten
  <2>2. CASE ~(burst <= SendWords)
    BY <1>3, <2>2 DEF Send!HeadersWritten
  <2> QED
    BY <2>1, <2>2
<1> QED
  BY <1>4, <1>6, <1>7, <1>9 DEF Send!Inv

\* The header, or the word of an argument.
LEMMA PutStep ==
  ASSUME Send!WireSendAssumption, Send!Inv, Send!Put
  PROVE  Send!Inv'
<1> DEFINE more == [i \in 1..Send!Piece |-> [msg |-> send_sent, at |-> at + i, size |-> 0]]
<1>1. /\ buffer \in Seq(Send!Word) /\ stream \in Seq(Send!Word) /\ Len(buffer) \in Nat /\ Len(stream) \in Nat
      /\ SendWords \in Nat /\ burst \in Nat /\ writing \in Nat /\ at \in Nat /\ send_sent \in Nat /\ at < writing
      /\ message_start \in Nat /\ writing \in SendSizes /\ writing > 1
  <2>1. /\ SendSizes \subseteq Nat \ {0, 1} /\ writing \in Nat /\ at \in Nat
        /\ (writing # 0 => message_start \in Nat /\ writing \in SendSizes)
    BY SendTypes DEF Send!Inv
  <2>2. at < writing
    BY DEF Send!Put
  <2>3. writing # 0
    BY <2>1, <2>2
  <2>4. writing \in SendSizes /\ writing > 1
    BY <2>1, <2>3
  <2> QED
    BY <2>1, <2>2, <2>3, <2>4, SendTypes DEF Send!Inv
<1>2. Send!Piece \in Nat /\ Send!Piece > 0 /\ at + Send!Piece <= writing
  BY <1>1 DEF Send!Piece
<1>3. /\ Len(buffer) + Send!Piece <= SendWords /\ buffer' = buffer \o more /\ at' = at + Send!Piece
      /\ UNCHANGED <<burst, message_start, writing, send_sent, stream, send_status>>
  BY DEF Send!Put, Send!Room
<1>4. /\ more \in Seq(Send!Word) /\ Len(more) = Send!Piece
      /\ \A i \in 1..Len(more) : more[i].msg = send_sent /\ more[i].at = at + i /\ more[i].size = 0
  <2> DEFINE p == Send!Piece
  <2>1. \A i \in 1..p : [msg |-> send_sent, at |-> at + i, size |-> 0] \in Send!Word
    BY <1>1, <1>2 DEF Send!Word
  <2>2. more \in [1..p -> Send!Word]
    BY <2>1
  <2>3. more \in Seq(Send!Word) /\ Len(more) = p
    BY <1>2, <2>2
  <2> QED
    BY <2>3
<1> HIDE DEF more
<1>5. /\ buffer' \in Seq(Send!Word) /\ Len(buffer') = Len(buffer) + Len(more)
  BY <1>1, <1>3, <1>4, ConcatProperties
<1>6. Send!TypeOK'
  <2>1. Len(buffer') <= SendWords /\ at' \in 0..writing'
    BY <1>1, <1>2, <1>3, <1>4, <1>5
  <2> QED
    BY <1>3, <1>5, <2>1 DEF Send!Inv, Send!TypeOK
<1>7. Joined(Send!Written', Send!Written, more) /\ Len(Send!Written) = Len(stream) + Len(buffer) /\ Len(Send!Written) \in Nat
  <2>1. Send!Written \in Seq(Send!Word)
    BY WrittenWords DEF Send!Inv
  <2>2. Send!Written' = Send!Written \o more
    <3>1. Regroups(Send!Word, stream, buffer, more)
      BY <1>1, <1>4, Regrouped
    <3> QED
      BY <1>3, <3>1, Zenon DEF Send!Written, Regroups
  <2>3. Joined(Send!Written \o more, Send!Written, more)
    BY <1>4, <2>1, JoinedWords
  <2> QED
    BY <2>2, <2>3, WrittenWords DEF Send!Inv
<1>8. Extends(Send!Written, more, send_sent, at)
  BY <1>2, <1>4 DEF Extends
<1>9. Standing(Send!Written, send_sent, at)
  <2>1. CASE Send!Written = <<>>
    BY <1>1, <2>1 DEF Send!Inv, Send!LastWritten, Standing
  <2>2. CASE Send!Written # <<>>
    <3>1. Len(Send!Written) # 0
      BY <2>2, WrittenWords, EmptySeq DEF Send!Inv
    <3>2. /\ Send!Written[Len(Send!Written)].msg = (IF at = 0 THEN send_sent - 1 ELSE send_sent)
          /\ at > 0 => Send!Written[Len(Send!Written)].at = at
      BY <1>1, <2>2 DEF Send!Inv, Send!LastWritten
    <3> QED
      BY <3>1, <3>2 DEF Standing
  <2> QED
    BY <2>1, <2>2
<1>10. /\ Send!InOrder(Send!Written') /\ Len(Send!Written') > 0
       /\ Send!Written'[Len(Send!Written')].msg = send_sent /\ Send!Written'[Len(Send!Written')].at = at + Len(more)
  <2>1. Send!InOrder(Send!Written)
    BY DEF Send!Inv, Send!WordsInOrder
  <2>2. Len(more) \in Nat
    BY <1>2, <1>4
  <2> QED
    BY <1>1, <1>7, <1>8, <1>9, <2>1, <2>2, InOrderExtended
<1>11. Send!LastWritten'
  <2>1. Send!Written' # <<>>
    BY <1>10
  <2>2. ~(writing' > 0 /\ at' = 0) /\ at' = at + Len(more)
    BY <1>1, <1>2, <1>3, <1>4
  <2> QED
    BY <1>3, <1>10, <2>1, <2>2 DEF Send!LastWritten
<1>12. Send!HeadersWritten'
  <2>1. CASE burst <= SendWords
    <3>1. /\ Len(buffer) = message_start + at /\ message_start + writing <= burst
          /\ Send!HeadersLead(Send!Written, Send!Whole)
      BY <1>1, <2>1 DEF Send!Inv, Send!HeadersWritten
    <3>2. Send!Whole = Len(stream) + message_start /\ Send!Whole' = Send!Whole
      BY <1>1, <1>3 DEF Send!Whole, Send!MessageEnd, Send!NoMessage
    <3>3. Send!Whole \in Nat /\ Len(Send!Written) = Send!Whole + at
      BY <1>1, <1>7, <3>1, <3>2
    <3>4. \A i \in 1..Len(more) : more[i].size = 0
      BY <1>4
    <3>5. Len(more) \in Nat
      BY <1>2, <1>4
    <3>6. Send!HeadersLead(Send!Written', Send!Whole)
      BY <1>1, <1>7, <1>8, <3>1, <3>3, <3>4, <3>5, HeadersExtended
    <3>7. Len(buffer') = message_start' + at'
      BY <1>1, <1>2, <1>3, <1>4, <1>5, <3>1
    <3> QED
      BY <1>3, <3>1, <3>2, <3>6, <3>7 DEF Send!HeadersWritten
  <2>2. CASE ~(burst <= SendWords)
    BY <1>3, <2>2 DEF Send!HeadersWritten
  <2> QED
    BY <2>1, <2>2
<1> QED
  BY <1>6, <1>10, <1>11, <1>12 DEF Send!Inv, Send!WordsInOrder

\* A header gets its size.
LEMMA HeadersEnded ==
  ASSUME NEW words, NEW all, NEW whole \in Nat, NEW size \in Nat, size > 1, Len(words) = whole + size, Len(all) = Len(words),
         \A i \in 1..Len(words) : /\ all[i].at = words[i].at /\ words[i].size \in Nat
                                 /\ all[i].size = IF i = whole + 2 THEN size ELSE words[i].size,
         Send!HeadersLead(words, whole)
  PROVE  Send!HeadersLead(all, Len(all))
<1> DEFINE n == Len(all)
<1>1. n \in Nat /\ n = whole + size /\ Len(words) = n /\ Len(all) = n
  OBVIOUS
<1>2. /\ \A i \in 1..whole : words[i].size > 0 <=> words[i].at = 2
      /\ \A i \in (whole + 1)..n : words[i].size = 0 /\ words[i].at = i - whole
      /\ \A i \in 2..whole : words[i].at = 1 => \E j \in 1..(i - 1) : Send!Header(words, whole, j, i)
      /\ whole > 0 => \E j \in 1..whole : Send!Header(words, whole, j, whole + 1)
  BY DEF Send!HeadersLead
<1>3. \A i \in 1..n : /\ all[i].at = words[i].at /\ words[i].size \in Nat
                      /\ all[i].size = IF i = whole + 2 THEN size ELSE words[i].size
  OBVIOUS
<1> HIDE DEF n
<1>4. ASSUME NEW i \in 1..n PROVE all[i].size > 0 <=> all[i].at = 2
  <2>1. CASE i <= whole
    <3>1. i \in 1..whole /\ i # whole + 2
      BY <1>1, <2>1
    <3> QED
      BY <1>2, <1>3, <3>1
  <2>2. CASE i > whole
    <3>1. i \in (whole + 1)..n /\ (i = whole + 2 <=> i - whole = 2)
      BY <1>1, <2>2
    <3>2. words[i].size = 0 /\ words[i].at = i - whole
      BY <1>2, <3>1
    <3> QED
      BY <1>3, <3>1, <3>2
  <2> QED
    BY <1>1, <2>1, <2>2
<1>5. ASSUME NEW j \in 1..whole, NEW i, Send!Header(words, whole, j, i) PROVE Send!Header(all, n, j, i)
  <2>1. words[j].at = 1 /\ j + 1 <= whole /\ i = j + words[j + 1].size
    BY <1>5 DEF Send!Header
  <2>2. j \in 1..n /\ j + 1 \in 1..n /\ j + 1 # whole + 2 /\ j + 1 <= n
    BY <1>1, <2>1
  <2>3. all[j].at = words[j].at /\ all[j + 1].size = words[j + 1].size
    BY <1>3, <2>2
  <2> QED
    BY <2>1, <2>2, <2>3 DEF Send!Header
<1>6. Send!Header(all, n, whole + 1, n + 1)
  <2>1. whole + 1 \in (whole + 1)..n /\ whole + 1 \in 1..n /\ whole + 2 \in 1..n /\ whole + 1 - whole = 1
    BY <1>1
  <2>2. all[whole + 1].at = 1
    BY <1>2, <1>3, <2>1
  <2>3. all[whole + 2].size = size
    BY <1>3, <2>1
  <2>4. (whole + 1) + 1 = whole + 2 /\ (whole + 1) + 1 <= n /\ n + 1 = (whole + 1) + size
    BY <1>1
  <2> QED
    BY <2>2, <2>3, <2>4 DEF Send!Header
<1>7. ASSUME NEW i \in 2..n, all[i].at = 1 PROVE \E j \in 1..(i - 1) : Send!Header(all, n, j, i)
  <2>1. i \in 1..n /\ words[i].at = 1
    BY <1>1, <1>3, <1>7
  <2>2. CASE i <= whole
    <3>1. i \in 2..whole
      BY <1>1, <2>2
    <3>2. PICK j \in 1..(i - 1) : Send!Header(words, whole, j, i)
      BY <1>2, <2>1, <3>1
    <3>3. j \in 1..whole
      BY <1>1, <2>2
    <3> QED
      BY <1>5, <3>2, <3>3
  <2>3. CASE i > whole
    <3>1. i \in (whole + 1)..n
      BY <1>1, <2>3
    <3>2. words[i].at = i - whole
      BY <1>2, <3>1
    <3>3. i = whole + 1 /\ whole > 0 /\ whole = i - 1
      BY <1>1, <2>1, <3>2
    <3>4. PICK j \in 1..whole : Send!Header(words, whole, j, whole + 1)
      BY <1>2, <3>3
    <3>5. Send!Header(all, n, j, i)
      BY <1>5, <3>3, <3>4
    <3> QED
      BY <3>3, <3>5
  <2> QED
    BY <1>1, <2>2, <2>3
<1>8. \E j \in 1..n : Send!Header(all, n, j, n + 1)
  <2>1. whole + 1 \in 1..n
    BY <1>1
  <2> QED
    BY <1>6, <2>1
<1>9. \A i \in (n + 1)..n : all[i].size = 0 /\ all[i].at = i - n
  BY <1>1
<1>10. Send!HeadersLead(all, n)
  BY <1>1, <1>4, <1>7, <1>8, <1>9 DEF Send!HeadersLead
<1> QED
  BY <1>10 DEF n

\* A message ends.
LEMMA EndStep ==
  ASSUME Send!WireSendAssumption, Send!Inv, Send!End
  PROVE  Send!Inv'
<1> DEFINE p == message_start + 2
           size == Len(buffer) - message_start
<1>1. /\ buffer \in Seq(Send!Word) /\ stream \in Seq(Send!Word) /\ Len(buffer) \in Nat /\ Len(stream) \in Nat
      /\ SendWords \in Nat /\ burst \in Nat /\ writing \in Nat /\ send_sent \in Nat /\ Len(buffer) <= SendWords
      /\ message_start \in Nat /\ writing > 1 /\ at = writing
  <2>1. /\ SendSizes \subseteq Nat \ {0, 1} /\ writing \in Nat
        /\ (writing # 0 => message_start \in Nat /\ writing \in SendSizes)
    BY SendTypes DEF Send!Inv
  <2>2. writing > 0 /\ at = writing
    BY DEF Send!End
  <2> QED
    BY <2>1, <2>2, SendTypes DEF Send!Inv
<1>2. CASE p > Len(buffer)
  <2>1. send_status' = "assertion" /\ UNCHANGED <<burst, buffer, message_start, writing, at, send_sent, stream>>
    BY <1>2 DEF Send!End, Send!HeaderStart
  <2>2. Send!TypeOK'
    BY <2>1 DEF Send!Inv, Send!TypeOK
  <2>3. Send!Written' = Send!Written /\ Send!Whole' = Send!Whole
    BY <2>1 DEF Send!Written, Send!Whole, Send!MessageEnd
  <2> QED
    BY <2>1, <2>2, <2>3, SameWritten
<1>3. CASE ~(p > Len(buffer))
  <2>1. /\ buffer' = [buffer EXCEPT ![p].size = size] /\ message_start' = -1 /\ writing' = 0 /\ at' = 0
        /\ UNCHANGED <<burst, send_sent, stream, send_status>>
    BY <1>3 DEF Send!End, Send!HeaderStart, Send!NoMessage
  <2>2. p \in 1..Len(buffer) /\ size \in Nat /\ p \in Nat
    BY <1>1, <1>3
  <2> HIDE DEF size
  <2>3. /\ buffer' \in Seq(Send!Word) /\ Len(buffer') = Len(buffer)
        /\ \A i \in 1..Len(buffer) : /\ buffer'[i].msg = buffer[i].msg /\ buffer'[i].at = buffer[i].at
                                     /\ buffer'[i].size = IF i = p THEN size ELSE buffer[i].size
    <3> HIDE DEF p
    <3>1. buffer[p] \in Send!Word
      BY <1>1, <2>2
    <3> DEFINE w == [buffer[p] EXCEPT !.size = size]
    <3>2. w \in Send!Word /\ w.msg = buffer[p].msg /\ w.at = buffer[p].at /\ w.size = size
      BY <2>2, <3>1 DEF Send!Word
    <3>3. buffer' = [buffer EXCEPT ![p] = w]
      BY <2>1
    <3> HIDE DEF w
    <3>4. buffer \in [1..Len(buffer) -> Send!Word]
      BY <1>1
    <3>5. /\ buffer' \in [1..Len(buffer) -> Send!Word]
          /\ \A i \in 1..Len(buffer) : buffer'[i] = IF i = p THEN w ELSE buffer[i]
      BY <3>2, <3>3, <3>4
    <3>6. buffer' \in Seq(Send!Word) /\ Len(buffer') = Len(buffer)
      BY <1>1, <3>5
    <3> QED
      BY <3>2, <3>5, <3>6
  <2>4. Send!TypeOK'
    <3>1. 0 \in {0} \cup SendSizes /\ 0 \in 0..0
      OBVIOUS
    <3> QED
      BY <1>1, <2>1, <2>3, <3>1 DEF Send!Inv, Send!TypeOK, Send!NoMessage
  <2> DEFINE words == Send!Written
             all == Send!Written'
             q == Len(stream) + p
  <2>5. /\ Joined(words, stream, buffer) /\ Len(words) = Len(stream) + Len(buffer) /\ Len(words) \in Nat
        /\ \A i \in 1..Len(words) : words[i] \in Send!Word
    BY WrittenWords DEF Send!Inv
  <2>6. Joined(all, stream, buffer') /\ all \in Seq(Send!Word)
    <3>1. Joined(stream \o buffer', stream, buffer') /\ stream \o buffer' \in Seq(Send!Word)
      BY <1>1, <2>3, JoinedWords
    <3> QED
      BY <2>1, <3>1 DEF Send!Written
  <2> HIDE DEF words, all, p
  <2>7. ASSUME NEW i \in 1..Len(words)
        PROVE  /\ all[i].msg = words[i].msg /\ all[i].at = words[i].at /\ words[i].size \in Nat
               /\ all[i].size = IF i = q THEN size ELSE words[i].size
    <3>1. words[i].size \in Nat
      BY <2>5 DEF Send!Word
    <3>2. CASE i <= Len(stream)
      <4>1. i \in 1..Len(stream) /\ i # q
        BY <1>1, <2>2, <3>2
      <4>2. all[i] = stream[i] /\ words[i] = stream[i]
        BY <2>5, <2>6, <4>1 DEF Joined
      <4> QED
        BY <3>1, <4>1, <4>2
    <3>3. CASE i > Len(stream)
      <4> DEFINE j == i - Len(stream)
      <4>1. j \in 1..Len(buffer) /\ Len(stream) + j = i /\ (i = q <=> j = p)
        BY <1>1, <2>2, <2>5, <3>3
      <4> HIDE DEF j, q
      <4>2. words[Len(stream) + j] = buffer[j] /\ all[Len(stream) + j] = buffer'[j]
        BY <2>3, <2>5, <2>6, <4>1 DEF Joined
      <4>3. words[i] = buffer[j] /\ all[i] = buffer'[j]
        BY <4>1, <4>2
      <4> QED
        BY <2>3, <3>1, <4>1, <4>3
    <3> QED
      BY <1>1, <2>5, <3>2, <3>3
  <2>8. Len(all) = Len(words)
    BY <2>3, <2>5, <2>6 DEF Joined
  <2>9. Len(words) > 0
    BY <1>1, <2>2, <2>5
  <2> HIDE DEF q
  <2>10. Send!InOrder(all)
    <3> SUFFICES ASSUME NEW i \in 1..Len(words)
                 PROVE  IF i = 1 THEN all[i].msg = 1 /\ all[i].at = 1 ELSE Send!Follows(all[i], all[i - 1])
      BY <2>8, Zenon DEF Send!InOrder
    <3>1. IF i = 1 THEN words[i].msg = 1 /\ words[i].at = 1 ELSE Send!Follows(words[i], words[i - 1])
      BY DEF Send!Inv, Send!WordsInOrder, Send!InOrder, words
    <3>2. i # 1 => i - 1 \in 1..Len(words)
      BY <2>5
    <3> QED
      BY <2>7, <3>1, <3>2 DEF Send!Follows
  <2>11. Send!LastWritten'
    <3>1. Send!Written # <<>> /\ Send!Written' # <<>>
      BY <2>8, <2>9 DEF words, all
    <3>2. words[Len(words)].msg = send_sent
      BY <1>1, <3>1 DEF words, Send!Inv, Send!LastWritten
    <3>3. all[Len(all)].msg = send_sent
      BY <2>5, <2>7, <2>8, <2>9, <3>2
    <3> QED
      BY <2>1, <3>1, <3>3 DEF all, Send!LastWritten
  <2>12. Send!HeadersWritten'
    <3>1. CASE burst <= SendWords
      <4> DEFINE whole == Len(stream) + message_start
      <4>1. Send!Whole = whole
        BY <1>1 DEF Send!Whole, Send!MessageEnd, Send!NoMessage
      <4>2. Len(buffer) = message_start + writing /\ Send!HeadersLead(words, whole)
        BY <1>1, <3>1, <4>1 DEF Send!Inv, Send!HeadersWritten, words
      <4>3. whole \in Nat /\ size > 1 /\ Len(words) = whole + size /\ q = whole + 2
        BY <1>1, <2>5, <4>2 DEF size, q, p
      <4> HIDE DEF whole
      <4>4. \A i \in 1..Len(words) : /\ all[i].at = words[i].at /\ words[i].size \in Nat
                                    /\ all[i].size = IF i = whole + 2 THEN size ELSE words[i].size
        BY <2>7, <4>3
      <4>5. Send!HeadersLead(all, Len(all))
        BY <2>2, <2>8, <4>2, <4>3, <4>4, HeadersEnded
      <4>6. Send!Whole' = Len(stream') + Len(buffer')
        BY <2>1 DEF Send!Whole, Send!MessageEnd, Send!NoMessage
      <4>7. Send!Whole' = Len(all)
        BY <2>1, <2>3, <2>5, <2>8, <4>6
      <4> QED
        BY <2>1, <4>5, <4>7 DEF all, Send!HeadersWritten
    <3>2. CASE ~(burst <= SendWords)
      BY <2>1, <3>2 DEF Send!HeadersWritten
    <3> QED
      BY <3>1, <3>2
  <2> QED
    BY <2>4, <2>10, <2>11, <2>12 DEF Send!Inv, Send!WordsInOrder, all
<1> QED
  BY <1>2, <1>3

\* Nothing has been written at first.
LEMMA SendStarts ==
  ASSUME Send!WireSendAssumption, Send!Init
  PROVE  Send!Inv
<1>1. /\ burst \in Bursts /\ buffer = <<>> /\ stream = <<>> /\ message_start = -1 /\ writing = 0 /\ at = 0
      /\ send_sent = 0 /\ send_status = "running"
  BY DEF Send!Init, Send!NoMessage
<1>2. buffer \in Seq(Send!Word) /\ stream \in Seq(Send!Word) /\ Len(buffer) = 0 /\ Len(stream) = 0
  BY <1>1
<1>3. Send!TypeOK
  BY <1>1, <1>2 DEF Send!WireSendAssumption, Send!TypeOK, Send!NoMessage
<1>4. Len(Send!Written) = 0 /\ Send!Written = <<>>
  <2>1. Send!Written \in Seq(Send!Word) /\ Len(Send!Written) = 0
    BY <1>2, <1>3, WrittenWords
  <2> QED
    BY <2>1, EmptySeq
<1>5. Send!Whole = 0
  BY <1>1, <1>2 DEF Send!Whole, Send!MessageEnd, Send!NoMessage
<1>6. Send!WordsInOrder
  BY <1>4 DEF Send!WordsInOrder, Send!InOrder
<1>7. Send!LastWritten
  BY <1>1, <1>4 DEF Send!LastWritten
<1>8. Send!HeadersWritten
  BY <1>1, <1>4, <1>5 DEF Send!HeadersWritten, Send!HeadersLead
<1> QED
  BY <1>3, <1>6, <1>7, <1>8 DEF Send!Inv

\* Every step of the sender keeps the words in order and the headers true.
LEMMA SenderStep ==
  ASSUME Send!WireSendAssumption, Send!Inv, [Send!Next]_(Send!vars)
  PROVE  Send!Inv'
<1>1. CASE UNCHANGED Send!vars
  <2>1. UNCHANGED <<burst, buffer, message_start, writing, at, send_sent, stream, send_status>>
    BY <1>1 DEF Send!vars
  <2>2. Send!TypeOK'
    BY <2>1 DEF Send!Inv, Send!TypeOK
  <2>3. Send!Written' = Send!Written /\ Send!Whole' = Send!Whole
    BY <2>1 DEF Send!Written, Send!Whole, Send!MessageEnd
  <2> QED
    BY <2>1, <2>2, <2>3, SameWritten
<1>2. CASE \E size \in SendSizes : Send!Begin(size)
  BY <1>2, BeginStep
<1>3. CASE Send!Put
  BY <1>3, PutStep
<1>4. CASE Send!End
  BY <1>4, EndStep
<1>5. CASE \E n \in 0..SendWords : Send!Flush(n) \/ Send!Drain(n)
  BY <1>5, FlushStep, DrainStep
<1> QED
  BY <1>1, <1>2, <1>3, <1>4, <1>5 DEF Send!Next, Send!Ended

\* What holds of the words written holds of those on the socket.
LEMMA StreamTellsSizes ==
  ASSUME Send!WireSendAssumption, Send!Inv
  PROVE  Send!HeadersTellSizes
<1> SUFFICES ASSUME burst <= SendWords
             PROVE  /\ \A i \in 1..Len(stream) : stream[i].size > 0 <=> stream[i].at = 2
                    /\ \A i \in Send!Heads \ {1} : \E j \in Send!Heads : j < i /\ i = j + stream[j + 1].size
  BY DEF Send!HeadersTellSizes
<1> DEFINE words == Send!Written
           whole == Send!Whole
<1>1. /\ Len(stream) \in Nat /\ whole \in Nat /\ Len(stream) <= whole
  <2>1. /\ Len(buffer) \in Nat /\ Len(stream) \in Nat /\ writing \in Nat
        /\ (writing = 0 => message_start = -1) /\ (writing # 0 => message_start \in Nat)
    BY SendTypes DEF Send!Inv
  <2>2. Send!MessageEnd \in Nat
    BY <2>1 DEF Send!MessageEnd, Send!NoMessage
  <2> QED
    BY <2>1, <2>2 DEF Send!Whole
<1>2. \A i \in 1..Len(stream) : words[i] = stream[i]
  BY WrittenWords DEF Joined, Send!Inv
<1>3. /\ \A i \in 1..whole : words[i].size > 0 <=> words[i].at = 2
      /\ \A i \in 2..whole : words[i].at = 1 => \E j \in 1..(i - 1) : Send!Header(words, whole, j, i)
  BY DEF Send!Inv, Send!HeadersWritten, Send!HeadersLead
<1> HIDE DEF words, whole
<1>4. ASSUME NEW i \in 1..Len(stream) PROVE stream[i].size > 0 <=> stream[i].at = 2
  <2>1. i \in 1..whole
    BY <1>1
  <2> QED
    BY <1>2, <1>3, <2>1
<1>5. ASSUME NEW i \in Send!Heads, i # 1 PROVE \E j \in Send!Heads : j < i /\ i = j + stream[j + 1].size
  <2>1. i \in 1..Len(stream) /\ stream[i].at = 1
    BY DEF Send!Heads
  <2>2. i \in 2..whole /\ words[i].at = 1
    BY <1>1, <1>2, <1>5, <2>1
  <2>3. PICK j \in 1..(i - 1) : Send!Header(words, whole, j, i)
    BY <1>3, <2>2
  <2>4. words[j].at = 1 /\ i = j + words[j + 1].size
    BY <2>3 DEF Send!Header
  <2>5. j \in 1..Len(stream) /\ j + 1 \in 1..Len(stream) /\ j < i
    BY <1>1, <2>1
  <2>6. words[j] = stream[j] /\ words[j + 1] = stream[j + 1]
    BY <1>2, <2>5
  <2>7. j \in Send!Heads /\ i = j + stream[j + 1].size
    BY <2>4, <2>5, <2>6 DEF Send!Heads
  <2> QED
    BY <2>5, <2>7
<1> QED
  BY <1>4, <1>5

\* Whichever component runs, the words of both directions are in order.
WordsKept == Receive!Inv /\ Send!Inv

\* The words of both directions stay in order, without a gap or a repeat, and every header is
\* where it is looked for and tells where the next one is, for any sizes of messages and of the
\* buffers, however reads and flushes cut the stream (dispatchMessages, flushSendBuffers).
THEOREM WordsHold == Spec => []WordsSound
<1>1. Receive!WireRecvAssumption /\ Send!WireSendAssumption
  BY MCStatusAssumption DEF MCStatusAssumption
<1>2. Init => WordsKept
  BY <1>1, ReceiveStarts, SendStarts DEF Init, WordsKept
<1>3. WordsKept /\ [Next]_vars => WordsKept'
  <2> SUFFICES ASSUME WordsKept, [Next]_vars PROVE WordsKept'
    OBVIOUS
  <2>1. [Receive!Next]_(Receive!vars)
    BY DEF Next, Only, vars, receiveVars, Receive!vars
  <2>2. [Send!Next]_(Send!vars)
    BY DEF Next, Only, vars, sendVars, Send!vars
  <2> QED
    BY <1>1, <2>1, <2>2, ReceiveStep, SenderStep DEF WordsKept
<1>4. WordsKept => WordsSound
  BY <1>1, StreamTellsSizes DEF WordsKept, WordsSound
<1> QED
  BY <1>2, <1>3, <1>4, PTL DEF Spec

==================================================================================
