------------------------------- MODULE WireRecv -------------------------------
(***************************************************************************)
(* How Connection.recv() cuts the byte stream from the compositor into      *)
(* messages.  The unit is a 32-bit word: a message is two words of header   *)
(* and its arguments, and a word that has not arrived whole is as good as   *)
(* one that has not arrived.  The stream carries no file descriptors, as no *)
(* event the program listens to has one.                                    *)
(***************************************************************************)
EXTENDS Integers, SequencesExt

CONSTANTS
  Sizes,         \* sizes of messages, in words
  BufferWords,   \* size of recv_buffer
  MaxMessages    \* bound: messages that the compositor sends

WireRecvAssumption ==
  /\ Sizes \subseteq Nat \ {0, 1} /\ \A size \in Sizes : size <= BufferWords
  /\ BufferWords \in Nat /\ MaxMessages \in Nat \ {0}

VARIABLES
  pc,            \* "recv" or "dispatch"
  status,        \* "running", "panic" (a slice past the end) or "misread"
  recv_buffer,   \* its words, from 0
  recv_index,    \* where the next read goes
  index,         \* where the dispatcher stands
  handled,       \* messages handed to their objects
  pipe,          \* words sent and not yet read
  sent           \* messages sent

vars == <<pc, status, recv_buffer, recv_index, index, handled, pipe, sent>>

Blank == [msg |-> 0, at |-> 0, size |-> 0]

\* The words of the msg-th message; the first one and the size make its header.
Words(msg, size) == [i \in 1..size |-> [msg |-> msg, at |-> i, size |-> size]]

Init ==
  /\ pc = "recv" /\ status = "running"
  /\ recv_buffer = [i \in 0..(BufferWords - 1) |-> Blank]
  /\ recv_index = 0 /\ index = 0 /\ handled = 0
  /\ pipe = <<>> /\ sent = 0

\* The compositor sends a message.
Send(size) ==
  /\ sent < MaxMessages
  /\ sent' = sent + 1
  /\ pipe' = pipe \o Words(sent + 1, size)
  /\ UNCHANGED <<pc, status, recv_buffer, recv_index, index, handled>>

\* recvmsg() returns some of what has arrived, into the unused part of the buffer.
RecvMsg(n) ==
  /\ status = "running" /\ pc = "recv"
  /\ n <= Len(pipe) /\ n <= BufferWords - recv_index
  /\ recv_buffer' = [i \in DOMAIN recv_buffer |->
                       IF i \in recv_index..(recv_index + n - 1)
                         THEN pipe[i - recv_index + 1] ELSE recv_buffer[i]]
  /\ pipe' = SubSeq(pipe, n + 1, Len(pipe))
  /\ recv_index' = recv_index + n
  /\ index' = 0
  /\ pc' = "dispatch"
  /\ UNCHANGED <<status, handled, sent>>

\* Mutant: a message that is only a header waits for another.
MoreThanHeader == recv_index - index > 2

HasHeader == recv_index - index >= 2

NextMessage(header) == index + header.size

\* dispatchMessages(): the header gives the size of the slice to hand over, and
\* nothing asks whether that much has arrived.
DispatchOne ==
  /\ status = "running" /\ pc = "dispatch" /\ HasHeader
  /\ LET header == recv_buffer[index] IN
       CASE header.at # 1 ->
              status' = "misread" /\ UNCHANGED <<index, handled>>
         [] header.at = 1 /\ header.size > recv_index - index ->
              status' = "panic" /\ UNCHANGED <<index, handled>>
         [] OTHER ->
              index' = NextMessage(header) /\ handled' = handled + 1 /\ UNCHANGED status
  /\ UNCHANGED <<pc, recv_buffer, recv_index, pipe, sent>>

\* Mutant: the words left over stay where they are.
NotMoved == recv_buffer

Moved == [i \in DOMAIN recv_buffer |->
            IF i < recv_index - index THEN recv_buffer[index + i] ELSE recv_buffer[i]]

\* What is left goes to the start of the buffer (processRecvMsgReturn).
MoveUnused ==
  /\ status = "running" /\ pc = "dispatch" /\ ~HasHeader
  /\ recv_buffer' = Moved
  /\ recv_index' = recv_index - index
  /\ index' = 0
  /\ pc' = "recv"
  /\ UNCHANGED <<status, handled, pipe, sent>>

Ended == (status # "running" \/ (sent = MaxMessages /\ pipe = <<>>)) /\ UNCHANGED vars

Receive == (\E n \in 1..BufferWords : RecvMsg(n)) \/ DispatchOne \/ MoveUnused

Next == Receive \/ (\E size \in Sizes : Send(size)) \/ Ended

\* recv() is called while there is something to read (poll).
Fairness == WF_vars(Receive)

Spec == Init /\ [][Next]_vars /\ Fairness
------------------------------------------------------------------------------
Word == [msg : Nat, at : Nat, size : Nat]

TypeOK ==
  /\ pc \in {"recv", "dispatch"} /\ status \in {"running", "panic", "misread"}
  /\ recv_buffer \in [0..(BufferWords - 1) -> Word]
  /\ recv_index \in 0..BufferWords /\ index \in 0..recv_index
  /\ pc = "recv" => index = 0
  /\ handled \in 0..sent /\ sent \in 0..MaxMessages
  /\ pipe \in Seq(Word)

\* The words not yet handled: those in the buffer, and then those in the pipe.
Unhandled ==
  [i \in 1..(recv_index - index + Len(pipe)) |->
     IF i <= recv_index - index THEN recv_buffer[index + i - 1]
     ELSE pipe[i - (recv_index - index)]]

\* The words start the message after the one given and go on without a gap or a repeat.
Consecutive(words, before) ==
  \A i \in 1..Len(words) :
    LET word == words[i] IN
      IF i = 1 THEN word.msg = before + 1 /\ word.at = 1
      ELSE LET previous == words[i - 1] IN
        IF previous.at < previous.size
          THEN word.msg = previous.msg /\ word.at = previous.at + 1
          ELSE word.msg = previous.msg + 1 /\ word.at = 1

\* However the stream is cut up, what the dispatcher has still to see is the
\* stream from the first message not handled on: a header is never looked for in
\* the middle of a message (dispatchMessages, processRecvMsgReturn).
StreamIntact == status # "misread" /\ Consecutive(Unhandled, handled)

\* The words around each are those of its message, and the messages end with the
\* last one given.
Complete(words, before, through) ==
  /\ \A i \in 1..Len(words) :
       LET word == words[i] IN
         /\ word.size \in Sizes /\ word.at \in 1..word.size /\ word.msg \in (before + 1)..through
         /\ i - word.at >= 0 /\ i - word.at + word.size <= Len(words)
         /\ \A k \in 1..word.size :
              words[i - word.at + k] = [msg |-> word.msg, at |-> k, size |-> word.size]
  /\ \A i, j \in 1..Len(words) :
       words[i].msg = words[j].msg => i - words[i].at = j - words[j].at
  /\ IF Len(words) = 0 THEN before = through
     ELSE LET last == words[Len(words)] IN last.msg = through /\ last.at = last.size

\* No message not handled is there in part.
MessagesWhole == Complete(Unhandled, handled, sent)

\* The inductive invariant.
Inv == TypeOK /\ StreamIntact /\ MessagesWhole

\* Every message sent is handled, unless the receiver panics.
AllHandled == \A k \in 1..MaxMessages : (sent = k) ~> (handled >= k \/ status = "panic")

\* The receiver keeps a message that has not arrived whole for its next read,
\* as the comment at processRecvMsgReturn has it: it never slices past the end.
PartialMessagesWait == status # "panic"
==============================================================================
