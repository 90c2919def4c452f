------------------------------- MODULE Closure -------------------------------
(***************************************************************************)
(* libwayland: a message as arguments and as words.  A call is marshalled   *)
(* into a closure, serialized into the connection, demarshalled on the      *)
(* other side, and handed to the implementation; what arrives may also be   *)
(* words that no wl_closure_send() has written.  Integers, fixed numbers    *)
(* and ids are one word; how ids become objects is ProxyLife's.             *)
(***************************************************************************)
EXTENDS SequencesExt, Integers

CONSTANTS
  Signatures,    \* sequences of [type, nullable]; "u" stands for i, u and f
  WordBytes,     \* sizeof(uint32_t)
  ByteValues,    \* values of a byte
  SizeWords,     \* values of the header's size field
  BadSizes,      \* sizes in headers from elsewhere
  BadBodies,     \* words from elsewhere
  NULL

WordValues == ByteValues^WordBytes

ClosureAssumption ==
  /\ WordBytes \in Nat \ {0} /\ ByteValues \in Nat \ {0, 1} /\ SizeWords \in Nat
  /\ \A s \in Signatures : \A i \in DOMAIN s :
       s[i].type \in {"u", "s", "o", "n", "a", "h"} /\ s[i].nullable \in BOOLEAN
  /\ BadSizes \subseteq Nat /\ \A b \in BadBodies : \A i \in DOMAIN b : b[i] \in 0..(WordValues - 1)

VARIABLES
  step,        \* "idle", "marshalled", "copied", "written", "arrived", "read", "looked up"
  signature, args,
  closure,     \* the sender's: its arguments, or NULL
  message,     \* in the connection: size and body, or NULL
  passed,      \* file descriptors in the connection
  received,    \* the receiver's closure: arguments and where they were read, or NULL
  open,        \* open descriptors
  handled      \* those that the implementation has got

vars == <<step, signature, args, closure, message, passed, received, open, handled>>

Init ==
  /\ step = "idle" /\ signature = <<>> /\ args = <<>>
  /\ closure = NULL /\ message = NULL /\ passed = <<>> /\ received = NULL
  /\ open = {} /\ handled = {}

Count == Len(signature)
Fd(i) == signature[i].type = "h"

\* A descriptor's number is the lowest one that is free.
Lowest(used) == CHOOSE n \in 1..10 : n \notin used /\ \A k \in 1..(n - 1) : k \in used

\* The descriptors that wl_closure_close_fds() closes.
FdsOf(c) == IF c = NULL THEN {} ELSE {c[i] : i \in {j \in DOMAIN c : Fd(j)}} \ {-1}
------------------------------------------------------------------------------
Bytes(n) == UNION {[1..k -> 0..(ByteValues - 1)] : k \in 0..n}
Text(n) == UNION {[1..k -> 1..(ByteValues - 1)] : k \in 0..n}

\* What a caller may pass for an argument: a text, some bytes, or one number.
Values(type) ==
  CASE type = "u" -> {<<0>>, <<WordValues - 1>>}
    [] type = "s" -> {NULL} \cup Text(2)
    [] type = "o" -> {NULL, <<1>>}
    [] type = "n" -> {NULL, <<2>>}
    [] type = "a" -> {NULL} \cup Bytes(1)
    [] type = "h" -> {<<>>}

Call(sig) ==
  /\ step = "idle" /\ step' = "called"
  /\ signature' = sig
  /\ \E given \in [DOMAIN sig -> UNION {Values(sig[i].type) : i \in DOMAIN sig}] :
       /\ \A i \in DOMAIN sig : given[i] \in Values(sig[i].type)
       /\ LET fds == {i \in DOMAIN sig : sig[i].type = "h"} IN
          /\ args' = [i \in DOMAIN sig |-> IF i \in fds THEN Cardinality({j \in fds : j <= i}) ELSE given[i]]
          /\ open' = 1..Cardinality(fds)
  /\ UNCHANGED <<closure, message, passed, received, handled>>

\* Mutant: the caller's descriptors stay in the copy of its arguments.
NotCleared == args

\* wl_closure_init()
Cleared == [i \in DOMAIN args |-> IF Fd(i) THEN -1 ELSE args[i]]

Refused(i) ==
  CASE signature[i].type \in {"s", "o"} -> ~signature[i].nullable /\ args[i] = NULL
    [] signature[i].type \in {"n", "a"} -> args[i] = NULL
    [] OTHER -> FALSE

\* The arguments up to i are in the closure, the descriptors duplicated.
MarshalledTo(i) ==
  FoldLeft(LAMBDA c, j : IF Fd(j) THEN [c EXCEPT ![j] = Lowest(open \cup FdsOf(c))] ELSE c,
           Cleared, [j \in 1..i |-> j])

\* wl_closure_marshal()
Marshal ==
  /\ step = "called" /\ \A i \in 1..Count : ~Refused(i)
  /\ closure' = MarshalledTo(Count)
  /\ open' = open \cup FdsOf(MarshalledTo(Count))
  /\ step' = "marshalled"
  /\ UNCHANGED <<signature, args, message, passed, received, handled>>

\* A null argument, or dup() fails: the closure is destroyed.
MarshalFails ==
  /\ step = "called"
  /\ \E i \in 1..Count :
       /\ Refused(i) \/ Fd(i)
       /\ \A j \in 1..(i - 1) : ~Refused(j)
       /\ LET c == MarshalledTo(i - 1) IN open' = (open \cup FdsOf(c)) \ FdsOf(c)
  /\ step' = "refused"
  /\ UNCHANGED <<signature, args, closure, message, passed, received, handled>>

Forgotten(c, i) == [c EXCEPT ![i] = -1]

\* copy_fds_to_connection(), of the arguments before i
CopyTo(i) ==
  /\ passed' = [k \in 1..Cardinality({j \in 1..(i - 1) : Fd(j)}) |->
                  closure[CHOOSE j \in 1..(i - 1) : Fd(j) /\ Cardinality({m \in 1..j : Fd(m)}) = k]]
  /\ closure' = FoldLeft(LAMBDA c, j : IF Fd(j) THEN Forgotten(c, j) ELSE c, closure, [j \in 1..(i - 1) |-> j])

CopyFds ==
  /\ step = "marshalled" /\ step' = "copied"
  /\ CopyTo(Count + 1)
  /\ UNCHANGED <<signature, args, message, received, open, handled>>

\* The connection's buffer for descriptors is full.
CopyFails ==
  /\ step = "marshalled" /\ step' = "failed"
  /\ \E i \in 1..Count : Fd(i) /\ CopyTo(i)
  /\ UNCHANGED <<signature, args, message, received, open, handled>>
------------------------------------------------------------------------------
\* Mutant: the sum is computed in a word.
RoundedInWord(n) == ((n + WordBytes - 1) % WordValues) \div WordBytes

div_roundup(n) == (n + WordBytes - 1) \div WordBytes

Word(bytes) == FoldRight(LAMBDA b, w : w * ByteValues + b, bytes, 0)

\* wl_closure_queue() does not clear the buffer before.
Padded(bytes, pad) ==
  [k \in 1..div_roundup(Len(bytes)) |->
     Word([b \in 1..WordBytes |-> LET at == (k - 1) * WordBytes + b IN IF at <= Len(bytes) THEN bytes[at] ELSE pad])]

\* Mutant: the nul of a string is not counted.
TextOnly(text) == Len(text)

Told(text) == Len(text) + 1

WordsOf(i, c, pad) ==
  CASE signature[i].type = "h" -> <<>>
    [] c[i] = NULL -> <<0>>
    [] signature[i].type = "s" -> <<Told(c[i])>> \o Padded(c[i] \o <<0>>, pad)
    [] signature[i].type = "a" -> <<Len(c[i])>> \o Padded(c[i], pad)
    [] OTHER -> c[i]

\* Mutant: the nul of a string needs no room.
NoRoomForNul(c, i) == Len(c[i])

DataSize(c, i) == IF signature[i].type = "s" THEN Len(c[i]) + 1 ELSE Len(c[i])

\* buffer_size_for_closure()
buffer_size(c) ==
  FoldLeft(LAMBDA n, i : n + (IF Fd(i) THEN 0
                              ELSE IF signature[i].type \in {"s", "a"} /\ c[i] # NULL
                                     THEN 1 + div_roundup(DataSize(c, i)) ELSE 1),
           2, [i \in 1..Count |-> i])

serialize(c, pad) == FlattenSeq([i \in 1..Count |-> WordsOf(i, c, pad)])

SizeOf(words) == (2 + Len(words)) * WordBytes

\* serialize_closure() and wl_connection_write(); a body that the buffer does not hold
\* is the overflow of serialize_closure().
Write ==
  /\ step = "copied"
  /\ \E pad \in 0..(ByteValues - 1) :
       LET words == serialize(closure, pad) IN
       IF 2 + Len(words) > buffer_size(closure)
         THEN step' = "overflow" /\ UNCHANGED message
         ELSE step' = "written" /\ message' = [size |-> SizeOf(words) % SizeWords, body |-> words]
  /\ UNCHANGED <<signature, args, closure, passed, received, open, handled>>

WriteFails ==
  /\ step = "copied" /\ step' = "failed"
  /\ UNCHANGED <<signature, args, closure, message, passed, received, open, handled>>

\* The caller gives the closure up, the socket takes the message, and the sender's
\* copies of the descriptors are closed when the receiver's are there.
Send ==
  /\ step = "written" /\ step' = "arrived"
  /\ open' = open \ FdsOf(closure)
  /\ closure' = NULL
  /\ UNCHANGED <<signature, args, message, passed, received, handled>>

\* wl_closure_destroy() after an error; what is in the connection goes with it.
GiveUp ==
  /\ step = "failed" /\ step' = "refused"
  /\ open' = open \ (FdsOf(closure) \cup Range(passed))
  /\ closure' = NULL /\ passed' = <<>>
  /\ UNCHANGED <<signature, args, message, received, handled>>

\* A message from a peer that is not libwayland.
Arrive(sig) ==
  /\ step = "idle" /\ step' = "arrived"
  /\ signature' = sig /\ args' = NULL
  /\ \E size \in BadSizes, body \in BadBodies, fds \in 0..1 :
       /\ SizeOf(body) >= size
       /\ message' = [size |-> size, body |-> body]
       /\ passed' = [i \in 1..fds |-> i] /\ open' = 1..fds
  /\ UNCHANGED <<closure, received, handled>>
------------------------------------------------------------------------------
\* The words of the message that the header tells of, without the header.
End == message.size \div WordBytes - 2

\* What lies behind the message is not known; no word of it should be asked for.
WordAt(p) == IF p \in DOMAIN message.body THEN message.body[p] ELSE 0

Byte(p, k) == (WordAt(p + (k - 1) \div WordBytes) \div ByteValues^((k - 1) % WordBytes)) % ByteValues

\* One argument: p is where the next word is, read are the words that were looked at.
DemarshalArg(s, i, reserved) ==
  LET type == signature[i].type
      word == WordAt(s.p)
      last == s.p + (word + WordBytes - 1) \div WordBytes
      Bad == [s EXCEPT !.ok = FALSE]
      One(v) == [s EXCEPT !.p = @ + 1, !.args = Append(@, v), !.read = @ \cup {s.p}]
      Many(v) == [s EXCEPT !.p = @ + 1 + div_roundup(word), !.args = Append(@, v), !.read = @ \cup (s.p..last)]
      Data(n) == [k \in 1..n |-> Byte(s.p + 1, k)]
      Short == End - s.p < div_roundup(word)
  IN CASE ~s.ok \/ (type # "h" /\ s.p > End) \/ (type = "h" /\ s.fds = <<>>) -> Bad
       [] s.ok /\ type = "h" /\ s.fds # <<>> -> [s EXCEPT !.args = Append(@, Head(s.fds)), !.fds = Tail(@)]
       [] OTHER ->
          CASE word = 0 /\ (type = "n" \/ (type \in {"s", "o"} /\ ~signature[i].nullable)) -> Bad
            [] word = 0 /\ type \in {"s", "o"} /\ signature[i].nullable -> One(NULL)
            [] type = "n" /\ word # 0 -> IF reserved THEN One(<<word>>) ELSE Bad
            [] type = "u" \/ (type = "o" /\ word # 0) -> One(<<word>>)
            [] type = "s" /\ word # 0 -> IF Short \/ Byte(s.p + 1, word) # 0 THEN Bad ELSE Many(Data(word - 1))
            [] type = "a" -> IF Short THEN Bad ELSE Many(Data(word))

Start == [ok |-> message.size >= 2 * WordBytes, p |-> 1, args |-> <<>>, fds |-> passed, read |-> {}]

Demarshalled(reserved) ==
  FoldLeft(LAMBDA s, i : DemarshalArg(s, i, reserved), Start, [i \in 1..Count |-> i])

\* The arguments demarshalled so far, those to come cleared.
Partial(s) == [i \in 1..Count |-> IF i <= Len(s.args) THEN s.args[i] ELSE -1]

\* wl_connection_demarshal(); wl_map_reserve_new() may refuse the id.  On an error the
\* closure is destroyed and the connection given up.
Demarshal ==
  /\ step = "arrived"
  /\ \E reserved \in BOOLEAN :
       LET s == Demarshalled(reserved) IN
       IF s.ok
         THEN /\ step' = "read"
              /\ received' = [args |-> s.args, read |-> s.read]
              /\ passed' = s.fds /\ UNCHANGED open
         ELSE /\ step' = "protocol error"
              /\ open' = open \ (FdsOf(Partial(s)) \cup Range(s.fds))
              /\ passed' = <<>> /\ UNCHANGED received
  /\ UNCHANGED <<signature, args, closure, message, handled>>

\* wl_closure_lookup_objects() finds no object of the type.
LookupFails ==
  /\ step = "read" /\ \E i \in 1..Count : signature[i].type = "o" /\ received.args[i] # NULL
  /\ step' = "protocol error"
  /\ open' = open \ (FdsOf(received.args) \cup Range(passed))
  /\ received' = NULL /\ passed' = <<>>
  /\ UNCHANGED <<signature, args, closure, message, handled>>

\* wl_closure_invoke() or wl_closure_dispatch(): the descriptors belong to the
\* implementation.
Invoke ==
  /\ step = "read" /\ step' = "invoked"
  /\ handled' = FdsOf(received.args)
  /\ received' = [received EXCEPT !.args = FoldLeft(LAMBDA c, j : IF Fd(j) THEN Forgotten(c, j) ELSE c, @, [j \in 1..Count |-> j])]
  /\ UNCHANGED <<signature, args, closure, message, passed, open>>

\* The closure is destroyed, with or without having been handed over.
Destroy ==
  /\ step \in {"read", "invoked"} /\ step' = "done"
  /\ open' = open \ FdsOf(received.args)
  /\ received' = NULL
  /\ UNCHANGED <<signature, args, closure, message, passed, handled>>

Next ==
  \/ \E sig \in Signatures : Call(sig) \/ Arrive(sig)
  \/ Marshal \/ MarshalFails \/ CopyFds \/ CopyFails \/ Write \/ WriteFails \/ Send \/ GiveUp
  \/ Demarshal \/ LookupFails \/ Invoke \/ Destroy

Spec == Init /\ [][Next]_vars
------------------------------------------------------------------------------
OfCaller == IF args = NULL THEN {} ELSE FdsOf(args)

TypeOK ==
  /\ open \subseteq 1..10 /\ handled \subseteq open /\ Range(passed) \subseteq open
  /\ closure = NULL \/ DOMAIN closure = 1..Count

\* A descriptor belongs to one of the caller, a closure, the connection and the
\* implementation: none stays open with nobody to close it, none is closed twice or
\* under somebody's hands, whatever fails on the way (wl_closure_close_fds,
\* wl_closure_clear_fds).
FdsAccounted ==
  LET holders == <<OfCaller, FdsOf(closure), Range(passed),
                   IF received = NULL THEN {} ELSE FdsOf(received.args), handled>>
  IN  /\ open = UNION {holders[h] : h \in 1..5}
      /\ \A g, h \in 1..5 : g < h => holders[g] \cap holders[h] = {}

\* What is marshalled is demarshalled, but for the numbers of the descriptors; null and
\* empty stay apart.
ArgumentsArrive ==
  step = "read" /\ args # NULL =>
    \A i \in 1..Count : ~Fd(i) => received.args[i] = args[i]

\* buffer_size_for_closure() and serialize_closure() count alike: the one's buffer is
\* filled by the other to the last word.
BufferExact ==
  /\ step # "overflow"
  /\ step = "written" => Len(message.body) + 2 = buffer_size(closure)

\* No word outside the message is read, whatever lengths it tells of
\* (wl_connection_demarshal).
ReadsInside == step = "read" => \A w \in received.read : w <= End /\ w <= Len(message.body)
==============================================================================
