------------------------------- MODULE WireSend -------------------------------
(***************************************************************************)
(* How requests get from the program's calls to the socket: wire.Connection *)
(* writes them word by word into message_writer, whose drain function is    *)
(* Connection.flushSendBuffers().  A message is two words of header and its *)
(* arguments; its size goes into the second word when it ends.             *)
(***************************************************************************)
EXTENDS Integers, SequencesExt

CONSTANTS
  Sizes,         \* sizes of requests, in words
  BufferWords,   \* size of send_buffer
  Bursts,        \* how many words the program may queue at most between two flushes
  MaxMessages    \* bound: requests the program sends

WireSendAssumption ==
  /\ Sizes \subseteq Nat \ {0, 1} /\ \A size \in Sizes : size <= BufferWords
  /\ BufferWords \in Nat /\ Bursts \subseteq Nat /\ MaxMessages \in Nat \ {0}

VARIABLES
  burst,         \* the one of Bursts that this program keeps to
  buffer,        \* message_writer.buffer up to its end
  message_start, \* where the message being written began, or NoMessage
  writing,       \* size of that message, 0 between messages
  at,            \* how many of its words are written
  sent,          \* messages begun
  stream,        \* the words on the socket
  status         \* "running", or "assertion"

vars == <<burst, buffer, message_start, writing, at, sent, stream, status>>

NoMessage == -1

Init ==
  /\ burst \in Bursts
  /\ buffer = <<>> /\ message_start = NoMessage /\ writing = 0 /\ at = 0
  /\ sent = 0 /\ stream = <<>> /\ status = "running"

\* A message that is being written stays in the buffer.
MessageEnd == IF message_start = NoMessage THEN Len(buffer) ELSE message_start

\* Mutant: what sendmsg() did not take is dropped.
AllConsumed(n) == SubSeq(buffer, MessageEnd + 1, Len(buffer))

Rest(n) == SubSeq(buffer, n + 1, Len(buffer))

\* flushSendBuffers(): sendmsg() takes n words, and what is left moves to the
\* start of the buffer.
Flushed(n) ==
  IF MessageEnd > Len(buffer)
    THEN status' = "assertion" /\ UNCHANGED <<buffer, stream>>
    ELSE /\ stream' = stream \o SubSeq(buffer, 1, n)
         /\ buffer' = Rest(n)
         /\ UNCHANGED status

\* recv(), and the end of a frame.  A signal may cut sendmsg() short.
Flush(n) ==
  /\ status = "running" /\ writing = 0
  /\ n <= MessageEnd
  /\ Flushed(n)
  /\ UNCHANGED <<burst, message_start, writing, at, sent>>

\* begin(): nothing is written yet.
Begin(size) ==
  /\ status = "running" /\ writing = 0 /\ sent < MaxMessages
  /\ Len(buffer) + size <= burst
  /\ message_start' = Len(buffer)
  /\ writing' = size
  /\ at' = 0
  /\ sent' = sent + 1
  /\ UNCHANGED <<burst, buffer, stream, status>>

\* What is written at once: the header, or an argument's word.
Piece == IF at = 0 THEN 2 ELSE 1

Room == Len(buffer) + Piece <= BufferWords

\* The size is not known before the message ends.
Put ==
  /\ status = "running" /\ at < writing /\ Room
  /\ buffer' = buffer \o [i \in 1..Piece |-> [msg |-> sent, at |-> at + i, size |-> 0]]
  /\ at' = at + Piece
  /\ UNCHANGED <<burst, message_start, writing, sent, stream, status>>

\* What finds no room drains the buffer and is tried again.
Drain(n) ==
  /\ status = "running" /\ at < writing /\ ~Room
  /\ n <= MessageEnd
  /\ Flushed(n)
  /\ UNCHANGED <<burst, message_start, writing, at, sent>>

\* Mutant: the header is looked for at the start of the buffer.
FirstHeader == 0

HeaderStart == message_start

\* end(): the size goes into the header.
End ==
  /\ status = "running" /\ writing > 0 /\ at = writing
  /\ IF HeaderStart + 2 > Len(buffer)
       THEN status' = "assertion" /\ UNCHANGED <<buffer, message_start, writing, at>>
       ELSE /\ buffer' = [buffer EXCEPT ![HeaderStart + 2].size = Len(buffer) - HeaderStart]
            /\ message_start' = NoMessage /\ writing' = 0 /\ at' = 0
            /\ UNCHANGED status
  /\ UNCHANGED <<burst, sent, stream>>

Ended ==
  /\ status = "assertion" \/ (sent = MaxMessages /\ writing = 0 /\ buffer = <<>>)
  /\ UNCHANGED vars

Next ==
  \/ \E size \in Sizes : Begin(size)
  \/ Put \/ End
  \/ \E n \in 0..BufferWords : Flush(n) \/ Drain(n)
  \/ Ended

\* The program goes on with a message it has begun, and flushes again and again.
Fairness ==
  /\ WF_vars(Put) /\ WF_vars(End)
  /\ WF_vars(\E n \in 1..BufferWords : Flush(n))

Spec == Init /\ [][Next]_vars /\ Fairness
------------------------------------------------------------------------------
Word == [msg : Nat, at : Nat, size : Nat]

TypeOK ==
  /\ burst \in Bursts /\ buffer \in Seq(Word) /\ stream \in Seq(Word)
  /\ Len(buffer) <= BufferWords
  /\ message_start \in {NoMessage} \cup 0..BufferWords
  /\ writing \in {0} \cup Sizes /\ at \in 0..writing
  /\ message_start = NoMessage <=> writing = 0
  /\ sent \in 0..MaxMessages /\ status \in {"running", "assertion"}

Written == stream \o buffer

Follows(w, v) ==
  \/ w.msg = v.msg /\ w.at = v.at + 1
  \/ w.msg = v.msg + 1 /\ w.at = 1

\* Each word is the next of its message or the first of the next message.
InOrder(words) ==
  \A i \in 1..Len(words) :
    IF i = 1 THEN words[i].msg = 1 /\ words[i].at = 1 ELSE Follows(words[i], words[i - 1])

\* Whatever is flushed when, the words reach the socket in the order they were
\* written, without a gap or a repeat, also when a full buffer is drained in the
\* middle of a message (drain, consume).
WordsInOrder == InOrder(Written)

Heads == {i \in 1..Len(stream) : stream[i].at = 1}

\* The compositor can cut the stream into the requests sent: the header of each
\* says where the next one begins, and no other word has been written over
\* (begin, end, flushSendBuffers).  It takes a program that flushes before the
\* buffer is full.
HeadersTellSizes ==
  burst <= BufferWords =>
    /\ \A i \in 1..Len(stream) : stream[i].size > 0 <=> stream[i].at = 2
    /\ \A i \in Heads \ {1} : \E j \in Heads : j < i /\ i = j + stream[j + 1].size

\* The last word written is where the program stands in its message.
LastWritten ==
  IF Written = <<>> THEN at = 0 /\ sent = (IF writing > 0 THEN 1 ELSE 0)
  ELSE LET last == Written[Len(Written)] IN
       /\ last.msg = (IF writing > 0 /\ at = 0 THEN sent - 1 ELSE sent)
       /\ at > 0 => last.at = at

\* The words of messages that have ended.
Whole == Len(stream) + MessageEnd

Header(words, whole, j, n) == words[j].at = 1 /\ j + 1 <= whole /\ n = j + words[j + 1].size

\* The headers of the messages that have ended lead from one to the next, and
\* after the last to the one that is being written.
HeadersLead(words, whole) ==
  /\ \A i \in 1..whole : words[i].size > 0 <=> words[i].at = 2
  /\ \A i \in (whole + 1)..Len(words) : words[i].size = 0 /\ words[i].at = i - whole
  /\ \A i \in 2..whole : words[i].at = 1 => \E j \in 1..(i - 1) : Header(words, whole, j, i)
  /\ whole > 0 => \E j \in 1..whole : Header(words, whole, j, whole + 1)

\* Without a drain the message being written stands at the end of the buffer.
HeadersWritten ==
  burst <= BufferWords =>
    /\ writing > 0 => Len(buffer) = message_start + at /\ message_start + writing <= burst
    /\ HeadersLead(Written, Whole)

\* The inductive invariant.
Inv == TypeOK /\ WordsInOrder /\ LastWritten /\ HeadersWritten

\* Every request reaches the socket whole.
AllSent ==
  \A k \in 1..MaxMessages :
    sent = k ~> \E i \in DOMAIN stream :
                  /\ stream[i].msg = k /\ stream[i].at = 2
                  /\ i + stream[i].size - 2 \in DOMAIN stream

\* flushSendBuffers and end assert where the message being written stands in the
\* buffer.
AssertionsHold == status # "assertion"
==============================================================================
