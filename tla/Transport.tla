------------------------------ MODULE Transport ------------------------------
(***************************************************************************)
(* libwayland: one direction of a connection, from wl_closure_send() on one *)
(* side to wl_connection_demarshal() on the other.  The bytes of a message  *)
(* and its file descriptors wait in buffers of their own; the socket takes  *)
(* what it has room for, and gives back what lies up to the next            *)
(* descriptors.  RingBuffer has what a buffer is made of.                   *)
(***************************************************************************)
EXTENDS SequencesExt, Integers

CONSTANTS
  Messages,      \* what is sent: records of len, in bytes, and fds, a number
  Chunk,         \* the socket takes multiples of this many bytes
  Room,          \* bytes the socket has room for
  MaxFdsOut,     \* MAX_FDS_OUT, more than a message has
  DefaultBits,   \* WL_BUFFER_DEFAULT_SIZE_POT
  MaxSent        \* bound: messages sent

TransportAssumption ==
  /\ \A m \in Messages : m.len \in Nat \ {0} /\ m.fds \in 0..(MaxFdsOut - 1)
  /\ Chunk \in Nat \ {0} /\ Room \in Nat \ {0} /\ MaxFdsOut \in Nat /\ DefaultBits \in Nat
  /\ MaxSent \in Nat

VARIABLES
  out, fds_out, want_flush,   \* the sender's connection
  stage,         \* what the sender is doing
  writing,       \* the message it writes, and how many descriptors it has put
  sent,          \* messages begun
  socket,        \* pieces: bytes, and the descriptors that came with them
  closed,        \* the sender is gone
  in, fds_in,    \* the receiver's connection
  got,           \* messages demarshalled
  status         \* of the receiver: "reading", "hung up" or "failed"

sender == <<out, fds_out, want_flush, stage, writing, sent>>
receiver == <<in, fds_in, got, status>>
vars == <<sender, socket, closed, receiver>>

Nothing == [msg |-> 0, len |-> 0, fds |-> 0, put |-> 0]

Init ==
  /\ out = <<>> /\ fds_out = <<>> /\ want_flush = FALSE
  /\ stage = "idle" /\ writing = Nothing /\ sent = 0
  /\ socket = <<>> /\ closed = FALSE
  /\ in = <<>> /\ fds_in = <<>> /\ got = <<>> /\ status = "reading"

MinOf(a, b) == IF a < b THEN a ELSE b

DefaultMaxSize == 2^DefaultBits
------------------------------------------------------------------------------
\* wl_closure_send()
Send(m) ==
  /\ ~closed /\ stage = "idle" /\ sent < MaxSent
  /\ sent' = sent + 1
  /\ writing' = [msg |-> sent + 1, len |-> m.len, fds |-> m.fds, put |-> 0]
  /\ stage' = "fds"
  /\ UNCHANGED <<out, fds_out, want_flush, socket, closed, receiver>>

Fds(from, to) == [k \in 1..(to - from) |-> [msg |-> writing.msg, at |-> from + k]]

\* wl_connection_put_fd(): when there are as many as one sendmsg() takes, they are
\* sent first.
FlushFds ==
  /\ ~closed /\ stage = "fds" /\ writing.put < writing.fds
  /\ Len(fds_out) >= MaxFdsOut
  /\ want_flush' = TRUE
  /\ stage' = "flushing fds"
  /\ UNCHANGED <<out, fds_out, writing, sent, socket, closed, receiver>>

PutFd ==
  /\ ~closed /\ stage \in {"fds", "flushed fds"} /\ writing.put < writing.fds
  /\ stage = "fds" => Len(fds_out) < MaxFdsOut
  /\ fds_out' = fds_out \o Fds(writing.put, writing.put + 1)
  /\ writing' = [writing EXCEPT !.put = @ + 1]
  /\ stage' = "fds"
  /\ UNCHANGED <<out, want_flush, sent, socket, closed, receiver>>

\* wl_connection_queue(): a buffer of the default size is flushed before it grows.
FlushData ==
  /\ ~closed /\ stage = "fds" /\ writing.put = writing.fds
  /\ Len(out) + writing.len > DefaultMaxSize
  /\ want_flush' = TRUE
  /\ stage' = "flushing data"
  /\ UNCHANGED <<out, fds_out, writing, sent, socket, closed, receiver>>

\* wl_connection_write()
PutData ==
  /\ ~closed /\ stage \in {"fds", "flushed data"} /\ writing.put = writing.fds
  /\ stage = "fds" => Len(out) + writing.len <= DefaultMaxSize
  /\ out' = out \o [i \in 1..writing.len |-> [msg |-> writing.msg, at |-> i, len |-> writing.len, fds |-> writing.fds]]
  /\ want_flush' = TRUE
  /\ stage' = "idle" /\ writing' = Nothing
  /\ UNCHANGED <<fds_out, sent, socket, closed, receiver>>

\* wl_connection_flush()
Flush ==
  /\ ~closed /\ stage = "idle" /\ want_flush
  /\ stage' = "flushing"
  /\ UNCHANGED <<out, fds_out, want_flush, writing, sent, socket, closed, receiver>>

Flushing == stage \in {"flushing", "flushing fds", "flushing data"}

After(s) == CASE s = "flushing" -> "idle" [] s = "flushing fds" -> "flushed fds" [] OTHER -> "flushed data"

Free == Room - Len(FlattenSeq([i \in DOMAIN socket |-> socket[i].bytes]))

\* Mutant: all bytes go with the first descriptors.
AllAtOnce == Len(out)

\* When a sendmsg() takes all the descriptors it can there may be more of them, and
\* one byte goes with each lot.
Offered == IF Len(fds_out) >= MaxFdsOut THEN 1 ELSE Len(out)

Taken(n) == n <= MinOf(Offered, Free) /\ (n % Chunk = 0 \/ n = Offered)

\* Mutant: what sendmsg() did not take counts as sent.
NothingLeft(n) == <<>>

Unsent(n) == SubSeq(out, n + 1, Len(out))

\* One sendmsg() of the loop.
SendMsg(n) ==
  /\ ~closed /\ Flushing /\ Taken(n)
  /\ LET k == MinOf(Len(fds_out), MaxFdsOut) IN
     /\ socket' = Append(socket, [bytes |-> SubSeq(out, 1, n), fds |-> SubSeq(fds_out, 1, k)])
     /\ fds_out' = SubSeq(fds_out, k + 1, Len(fds_out))
  /\ out' = Unsent(n)
  /\ UNCHANGED <<want_flush, stage, writing, sent, closed, receiver>>

\* All is sent.
FlushDone ==
  /\ ~closed /\ Flushing /\ out = <<>>
  /\ want_flush' = FALSE /\ stage' = After(stage)
  /\ UNCHANGED <<out, fds_out, writing, sent, socket, closed, receiver>>

\* Mutant: a flush is done even if the socket was full.
NotWanted == FALSE

StillWanted == want_flush

\* EAGAIN: what is left waits for the next flush, and the caller goes on.
FlushFull ==
  /\ ~closed /\ Flushing /\ out # <<>> /\ \A n \in 1..Len(out) : ~Taken(n)
  /\ stage' = After(stage) /\ want_flush' = StillWanted
  /\ UNCHANGED <<out, fds_out, writing, sent, socket, closed, receiver>>

\* The sender ends: what it has not sent is lost.
Die ==
  /\ ~closed /\ closed' = TRUE
  /\ UNCHANGED <<sender, socket, receiver>>
------------------------------------------------------------------------------
\* The size of buffer that holds n bytes.
SizeFor(n) == 2^(CHOOSE b \in DefaultBits..20 : 2^b >= n /\ \A c \in DefaultBits..(b - 1) : 2^c < n)

\* ring_buffer_is_max_size_reached() of a buffer without a maximum
MaxSizeReached == Len(in) + 1 >= SizeFor(Len(in) + 1)

\* recvmsg() joins pieces up to the first one that has descriptors.
Joined ==
  IF \E i \in DOMAIN socket : socket[i].fds # <<>>
    THEN CHOOSE i \in DOMAIN socket : socket[i].fds # <<>> /\ \A j \in 1..(i - 1) : socket[j].fds = <<>>
    ELSE Len(socket)

\* Mutant: the descriptors are left for the next call.
FdsLater(n, bytes, last) == <<>>

\* They come with the first byte of their piece.
FdsWith(n, bytes, last) == IF n > Len(bytes) - Len(last.bytes) THEN last.fds ELSE <<>>

\* One recvmsg() of the loop in wl_connection_read().
RecvMsg ==
  /\ status = "reading" /\ socket # <<>> /\ ~MaxSizeReached
  /\ LET bytes == FlattenSeq([i \in 1..Joined |-> socket[i].bytes])
         last  == socket[Joined]
         n     == MinOf(Len(bytes), SizeFor(Len(in) + 1) - Len(in))
         rest  == [bytes |-> SubSeq(bytes, n + 1, Len(bytes)),
                   fds |-> IF FdsWith(n, bytes, last) = <<>> THEN last.fds ELSE <<>>]
     IN  /\ in' = in \o SubSeq(bytes, 1, n)
         /\ fds_in' = fds_in \o FdsWith(n, bytes, last)
         /\ socket' = (IF rest.bytes = <<>> THEN <<>> ELSE <<rest>>) \o SubSeq(socket, Joined + 1, Len(socket))
  /\ UNCHANGED <<sender, closed, got, status>>

Complete == in # <<>> /\ Len(in) >= in[1].len

\* wl_connection_demarshal() of the next message: a descriptor that is not there is
\* an error.
Demarshal ==
  /\ status = "reading" /\ Complete
  /\ IF Len(fds_in) < in[1].fds
       THEN status' = "failed" /\ UNCHANGED <<in, fds_in, got>>
       ELSE /\ got' = Append(got, [msg |-> in[1].msg, fds |-> SubSeq(fds_in, 1, in[1].fds)])
            /\ in' = SubSeq(in, in[1].len + 1, Len(in))
            /\ fds_in' = SubSeq(fds_in, in[1].fds + 1, Len(fds_in))
            /\ UNCHANGED status
  /\ UNCHANGED <<sender, socket, closed>>

\* The end of the stream: wl_connection_read() returns what is in the buffer, and only
\* nothing tells the receiver.
ReadEnd ==
  /\ status = "reading" /\ closed /\ socket = <<>> /\ in = <<>>
  /\ status' = "hung up"
  /\ UNCHANGED <<sender, socket, closed, in, fds_in, got>>

Next ==
  \/ \E m \in Messages : Send(m)
  \/ FlushFds \/ PutFd \/ FlushData \/ PutData
  \/ Flush \/ FlushDone \/ FlushFull \/ (\E n \in 1..Len(out) : SendMsg(n))
  \/ Die \/ RecvMsg \/ Demarshal \/ ReadEnd

\* A sender finishes what it has begun and flushes, as long as it lives; the receiver
\* reads.
Fairness ==
  /\ WF_vars(FlushFds \/ PutFd \/ FlushData \/ PutData)
  /\ WF_vars(Flush) /\ WF_vars(FlushDone \/ FlushFull \/ \E n \in 1..Len(out) : SendMsg(n))
  /\ WF_vars(RecvMsg) /\ WF_vars(Demarshal) /\ WF_vars(ReadEnd)

Spec == Init /\ [][Next]_vars /\ Fairness
------------------------------------------------------------------------------
TypeOK ==
  /\ Free >= 0 /\ sent \in 0..MaxSent /\ want_flush \in BOOLEAN
  /\ stage \in {"idle", "fds", "flushing", "flushing fds", "flushing data", "flushed fds", "flushed data"}
  /\ \A i \in DOMAIN socket : socket[i].bytes # <<>>
  /\ status \in {"reading", "hung up", "failed"}

\* A message is there with its descriptors, those and no others, whether the socket
\* was full in between, more of them waited than one sendmsg() takes, or a read ended
\* anywhere (wl_connection_flush: all file descriptors are sent before the bytes are
\* cleared out).
FdsComeWithMessages ==
  /\ status # "failed"
  /\ \A i \in DOMAIN got : \A k \in DOMAIN got[i].fds : got[i].fds[k] = [msg |-> got[i].msg, at |-> k]

\* Messages arrive in the order in which they were sent, and none twice.
MessagesInOrder == \A i \in DOMAIN got : got[i].msg = i

\* Once the bytes are out, so are the descriptors, but for the message being written.
NoFdsLeftBehind == out = <<>> => \A i \in DOMAIN fds_out : fds_out[i].msg = writing.msg

\* What is sent by a sender that lives on arrives.
AllArrive == \A n \in 1..MaxSent : (sent = n) ~> (closed \/ Len(got) >= n)
==============================================================================
