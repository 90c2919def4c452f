---------------------------- MODULE ScannerParse ----------------------------
(***************************************************************************)
(* wayland-scanner, which turns a protocol in XML into C: the elements of   *)
(* the protocol come one after the other, are put where they belong, and    *)
(* are checked.  A check that fails ends the program.                       *)
(***************************************************************************)
EXTENDS FiniteSets, SequencesExt, Integers

CONSTANTS
  Absent, Wrong, \* no such attribute; one that is not a number, or not an attribute's value
  Elements,      \* the elements that come, besides protocol and interface
  Names,         \* of interfaces
  Begins,        \* pairs of names of which the second begins with the first
  Versions,      \* values of since and deprecated-since
  Messages,      \* names of requests and events, and whether they are destructors
  ArgTypes,      \* types of arguments
  AllowNull,     \* values of allow-null
  Described,     \* the elements that may have a description
  MaxNodes,      \* bound: elements
  MaxOf          \* bound: elements of a kind

ScannerParseAssumption ==
  /\ Elements \subseteq {"request", "event", "arg", "enum", "entry", "description"}
  /\ Described \subseteq Elements \cup {"protocol", "interface"}
  /\ Begins \subseteq Names \X Names /\ \A n \in Names : <<n, n>> \in Begins
  /\ Versions \subseteq {Absent, Wrong} \cup Nat
  /\ Messages \subseteq {"destroy", "other"} \X BOOLEAN /\ AllowNull \subseteq BOOLEAN
  /\ ArgTypes \subseteq {"int", "uint", "fixed", "string", "array", "fd", "new_id", "object"}
  /\ MaxNodes \in Nat /\ MaxOf \in [Elements \cup {"protocol", "interface"} -> Nat]

VARIABLES
  nodes,         \* the elements so far, with what was made of their attributes
  open,          \* those that have not ended, the innermost one first
  interface, message, enumeration, entry, \* struct parse_context: which element, or 0
  describes,     \* for every description what it was given to
  result         \* "scanning", "failed", or "done"

ctx == <<interface, message, enumeration, entry>>
vars == <<nodes, open, ctx, describes, result>>

Node(el) ==
  [el |-> el, parent |-> IF open = <<>> THEN 0 ELSE Head(open), of |-> interface, name |-> Absent, since |-> 1,
   deprecated |-> 0, destructor |-> FALSE, type |-> Absent, null |-> FALSE, bitfield |-> FALSE, enum |-> Absent]

Init ==
  /\ nodes = <<>> /\ open = <<>> /\ result = "scanning"
  /\ interface = 0 /\ message = 0 /\ enumeration = 0 /\ entry = 0
  /\ describes = <<>>

This == Len(nodes) + 1

\* The content models of protocol/wayland.dtd.
Content(el) ==
  CASE el = "protocol" -> {"interface"}
    [] el = "interface" -> {"request", "event", "enum"}
    [] el \in {"request", "event"} -> {"arg"}
    [] el = "enum" -> {"entry"}
    [] OTHER -> {}

Starts(el) ==
  /\ result = "scanning" /\ Len(nodes) < MaxNodes
  /\ Cardinality({i \in DOMAIN nodes : nodes[i].el = el}) < MaxOf[el]
  /\ IF open = <<>> THEN el = "protocol" /\ nodes = <<>> ELSE el \in Content(nodes[Head(open)].el)

\* fail()
Fail == result' = "failed" /\ UNCHANGED <<nodes, open, ctx, describes>>

Insert(node) == nodes' = Append(nodes, node) /\ open' = <<This>> \o open /\ UNCHANGED <<describes, result>>
------------------------------------------------------------------------------
StartProtocol == Starts("protocol") /\ Insert(Node("protocol")) /\ UNCHANGED ctx

\* The version is that of the since attributes, or more.
StartInterface(name, version) ==
  /\ Starts("interface") /\ \A i \in DOMAIN nodes : nodes[i].name # name
  /\ Insert([Node("interface") EXCEPT !.name = name, !.since = version])
  /\ interface' = This /\ UNCHANGED <<message, enumeration, entry>>

WithinVersion(v) == v <= nodes[interface].since

\* version_from_since(), version_from_deprecated_since(): the number, or none.
VersionFrom(value, default) == IF value = Absent THEN default ELSE value

Valid(value) == value = Absent \/ (value # Wrong /\ WithinVersion(value))

\* Mutant: the same version will do.
NotBefore(since, deprecated) == deprecated > 0 => since <= deprecated

After(since, deprecated) == deprecated > 0 => since < deprecated

\* Mutant: it does not matter what is called destroy.
AnyDestroy(name, destructor) == TRUE

DestroyIsDestructor(name, destructor) == name = "destroy" => destructor

Attributes(node, name, destructor, since, deprecated) ==
  [node EXCEPT !.name = name, !.destructor = destructor, !.since = VersionFrom(since, 1), !.deprecated = VersionFrom(deprecated, 0)]

\* A request or an event.
StartMessage(el, name, destructor, since, deprecated) ==
  /\ Starts(el)
  /\ IF /\ Valid(since) /\ Valid(deprecated)
        /\ After(VersionFrom(since, 1), VersionFrom(deprecated, 0))
        /\ DestroyIsDestructor(name, destructor)
       THEN /\ Insert(Attributes(Node(el), name, destructor, since, deprecated))
            /\ message' = This /\ UNCHANGED <<interface, enumeration, entry>>
       ELSE Fail

\* is_nullable_type()
Nullable(type) == type \in {"string", "object"}

\* enum: the name of an enumeration of this interface, or of the one that is named.
StartArg(type, null, enum) ==
  /\ Starts("arg")
  /\ IF null => Nullable(type)
       THEN Insert([Node("arg") EXCEPT !.type = type, !.null = null, !.enum = enum]) /\ UNCHANGED ctx
       ELSE Fail

\* Every enumeration has the same name, so that an interface has one at most.
StartEnum(bitfield) ==
  /\ Starts("enum") /\ \A i \in DOMAIN nodes : ~(nodes[i].el = "enum" /\ nodes[i].of = interface)
  /\ IF bitfield = Wrong THEN Fail
     ELSE /\ Insert([Node("enum") EXCEPT !.bitfield = bitfield])
          /\ enumeration' = This /\ UNCHANGED <<interface, message, entry>>

StartEntry(since, deprecated) ==
  /\ Starts("entry")
  /\ IF /\ Valid(since) /\ Valid(deprecated)
        /\ After(VersionFrom(since, 1), VersionFrom(deprecated, 0))
       THEN /\ Insert(Attributes(Node("entry"), Absent, FALSE, since, deprecated))
            /\ entry' = This /\ UNCHANGED <<interface, message, enumeration>>
       ELSE Fail

\* Whom a description is given to.
Innermost ==
  IF message # 0 THEN message ELSE IF entry # 0 THEN entry
  ELSE IF enumeration # 0 THEN enumeration ELSE IF interface # 0 THEN interface ELSE 1

\* A description comes before what else is in the element.
StartDescription ==
  /\ result = "scanning" /\ Len(nodes) < MaxNodes
  /\ open # <<>> /\ Head(open) = Len(nodes) /\ nodes[Head(open)].el \in Described
  /\ nodes' = Append(nodes, Node("description")) /\ open' = <<This>> \o open
  /\ describes' = Append(describes, [description |-> This, of |-> Innermost])
  /\ UNCHANGED <<ctx, result>>
------------------------------------------------------------------------------
Of(el, i) == {e \in DOMAIN nodes : nodes[e].el = el /\ nodes[e].of = i}

\* Mutant: the first interface, whatever its name.
AnyName(i, name) == TRUE

\* strncmp() over the length of the name that is looked for.
NameMatches(i, name) == <<name, nodes[i].name>> \in Begins

\* find_enumeration(): the first one whose interface matches.
find_enumeration(a) ==
  IF nodes[a].enum = "own"
    THEN Of("enum", nodes[a].of)
    ELSE LET found == {e \in DOMAIN nodes : nodes[e].el = "enum" /\ NameMatches(nodes[e].of, nodes[a].enum)} IN
         {e \in found : \A other \in found : e <= other}

\* verify_arguments()
verify_arguments(a) ==
  nodes[a].enum # Absent =>
    CASE nodes[a].type = "int" -> \A e \in find_enumeration(a) : ~nodes[e].bitfield
      [] nodes[a].type = "uint" -> TRUE
      [] OTHER -> FALSE

EmptyEnum == \A e \in DOMAIN nodes : nodes[e].parent # enumeration \/ nodes[e].el # "entry"

\* Mutant: the message stays the one that a description is given to.
MessageKept == message

MessageAfter == 0

\* end_element()
EndElement ==
  /\ result = "scanning" /\ open # <<>>
  /\ LET el == nodes[Head(open)].el IN
     IF (el = "enum" /\ EmptyEnum) \/ (el = "protocol" /\ ~\A a \in DOMAIN nodes : verify_arguments(a))
       THEN Fail
       ELSE /\ open' = Tail(open)
            /\ message' = IF el \in {"request", "event"} THEN MessageAfter ELSE message
            /\ enumeration' = IF el = "enum" THEN 0 ELSE enumeration
            /\ entry' = IF el = "entry" THEN 0 ELSE entry
            /\ result' = IF el = "protocol" THEN "done" ELSE result
            /\ UNCHANGED <<nodes, interface, describes>>

MaybeIn(el, s) == IF el \in Elements THEN s ELSE {}

Next ==
  \/ StartProtocol
  \/ \E name \in Names, version \in (Versions \cap Nat) \cup {1} : StartInterface(name, version)
  \/ \E el \in Elements \cap {"request", "event"}, m \in Messages, s, d \in Versions :
       StartMessage(el, m[1], m[2], s, d)
  \/ \E type \in MaybeIn("arg", ArgTypes), null \in AllowNull, enum \in {Absent, "own"} \cup Names : StartArg(type, null, enum)
  \/ \E bitfield \in MaybeIn("enum", BOOLEAN \cup {Wrong}) : StartEnum(bitfield)
  \/ \E s, d \in MaybeIn("entry", Versions) : StartEntry(s, d)
  \/ StartDescription
  \/ EndElement

Spec == Init /\ [][Next]_vars
------------------------------------------------------------------------------
TypeOK ==
  /\ \A i \in DOMAIN open : open[i] \in DOMAIN nodes
  /\ \A c \in {interface, message, enumeration, entry} : c \in 0..Len(nodes)
  /\ \A i \in DOMAIN describes : describes[i].of \in DOMAIN nodes
  /\ result \in {"scanning", "failed", "done"}

\* What a description describes is the element that it is in, wherever elements began and
\* ended before it ("ctx->message", "ctx->entry", ... of start_element and end_element).
\* It holds if no argument is Described: its description is taken for its message's.
DescriptionsInPlace ==
  \A i \in DOMAIN describes : describes[i].of = nodes[describes[i].description].parent

\* A client that asks for a version of an interface gets nothing of a later one, and nothing
\* that is deprecated before it comes (version_from_since, version_from_deprecated_since).
VersionsFit ==
  \A i \in DOMAIN nodes : nodes[i].el \in {"request", "event", "entry"} =>
    LET last == nodes[nodes[i].of].since IN
    /\ nodes[i].since <= last
    /\ nodes[i].deprecated # 0 => nodes[i].since < nodes[i].deprecated /\ nodes[i].deprecated <= last

\* emit_stubs() finds no interface with "method named destroy but no destructor", which the
\* elements were checked for one by one.
StubsCanBeEmitted ==
  \A i \in DOMAIN nodes :
    LET requests == Of("request", i) IN
    (\E r \in requests : nodes[r].name = "destroy") => \E r \in requests : nodes[r].destructor

\* The enumeration that is meant: the one of the interface of that name.
Meant(a) ==
  IF nodes[a].enum = "own" THEN Of("enum", nodes[a].of)
  ELSE {e \in DOMAIN nodes : nodes[e].el = "enum" /\ nodes[nodes[e].of].name = nodes[a].enum}

\* "if the enum is defined as a bitfield, it can only be used on uint args"
\* (doc/publican/sources/Protocol.xml): of no protocol that is accepted, wherever the
\* enumeration is, before the argument or after it.  It holds for Begins without a
\* pair of two names: find_enumeration() takes the first interface whose name begins
\* with the one that is named.
BitfieldsOnUint ==
  result = "done" => \A a \in DOMAIN nodes :
    nodes[a].el = "arg" /\ nodes[a].enum # Absent =>
      \A e \in Meant(a) : nodes[e].bitfield => nodes[a].type = "uint"

\* No argument of another type is refused for the sake of an enumeration that is not meant.
RefusedOnlyForMeant ==
  result = "scanning" => \A a \in DOMAIN nodes :
    nodes[a].el = "arg" /\ nodes[a].enum # Absent /\ nodes[a].type = "int" /\ ~verify_arguments(a) =>
      \E e \in Meant(a) : nodes[e].bitfield
==============================================================================
