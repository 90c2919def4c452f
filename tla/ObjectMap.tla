------------------------------ MODULE ObjectMap ------------------------------
(***************************************************************************)
(* libwayland: struct wl_map, twice: the client's and the compositor's for  *)
(* one connection.  Each side makes ids of its own half, by growing an      *)
(* array or from a list of freed entries in it; the other side follows what *)
(* it hears, in order, and must find every new id where it expects it.      *)
(***************************************************************************)
EXTENDS SequencesExt, Integers

CONSTANTS
  MAX_OBJECTS,    \* WL_MAP_MAX_OBJECTS
  Creators,       \* the sides that make objects
  Bound           \* bound: messages on the way in each direction

ObjectMapAssumption == MAX_OBJECTS \in Nat \ {0} /\ Bound \in Nat /\ Creators \subseteq {"client", "server"}

Sides == {"client", "server"}
Other(s) == IF s = "client" THEN "server" ELSE "client"

VARIABLES
  map,        \* of each side: an array for each half, and the list of its own freed entries
  mail,       \* messages on the way to each side
  deleted,    \* ids that the compositor gave back before the client destroyed the object
  refused     \* "invalid new id": the connection has ended

vars == <<map, mail, deleted, refused>>

\* An entry is a word: a pointer (a multiple of 4), its flag (2), or the next freed
\* entry (twice its index, plus 1).
NULL == 0
Object == 4
Callback == 8      \* the compositor destroys it when it likes
Zombie == 12
Data == {Object, Callback, Zombie}

ZOMBIE_FLAG == 1

map_entry_is_free(e) == e % 2 = 1
map_entry_get_data(e) == (e \div 4) * 4
map_entry_get_flags(e) == (e \div 2) % 2

\* The display is the client's object 1; index 0 is nobody.
NewMap == [client |-> <<NULL, Object>>, server |-> <<>>, free_list |-> 0]

Init ==
  /\ map = [s \in Sides |-> NewMap]
  /\ mail = [s \in Sides |-> <<>>]
  /\ deleted = {} /\ refused = FALSE
------------------------------------------------------------------------------
Entry(m, half, i) == m[half][i + 1]
Set(m, half, i, e) == [m EXCEPT ![half] = IF i = Len(@) THEN Append(@, e) ELSE [@ EXCEPT ![i + 1] = e]]

\* Mutant: the entry is used and stays in the list.
StillFree(m, half) == m.free_list

NextFree(m, half) == Entry(m, half, m.free_list \div 2)

\* wl_map_insert_new(), of the side's own half: the map, and the index or nothing
insert_new(m, half, data) ==
  LET i == IF m.free_list # 0 THEN m.free_list \div 2 ELSE Len(m[half])
      l == IF m.free_list # 0 THEN NextFree(m, half) ELSE 0
      full == i > MAX_OBJECTS
  IN  [map |-> [Set(m, half, i, IF full THEN NULL ELSE data) EXCEPT !.free_list = l],
       id |-> IF full THEN -1 ELSE i]

\* wl_map_insert_at() of an index that is there or the next
insert_at(m, flags, half, i, data) == Set(m, half, i, data + 2 * (flags % 2))

Reservable(m, half, i) == i <= Len(m[half]) /\ (i < Len(m[half]) => Entry(m, half, i) = NULL)

\* wl_map_reserve_new() of an id of the other side's half
reserve_new(m, half, i) == IF i = Len(m[half]) THEN Set(m, half, i, NULL) ELSE m

\* wl_map_remove(): a side keeps freed entries of its own half only.
remove(m, side, half, i) ==
  IF side # half THEN m
  ELSE [Set(m, half, i, m.free_list) EXCEPT !.free_list = 2 * i + 1]

lookup(m, half, i) ==
  IF i < Len(m[half]) /\ ~map_entry_is_free(Entry(m, half, i)) THEN map_entry_get_data(Entry(m, half, i)) ELSE NULL

lookup_flags(m, half, i) ==
  IF i < Len(m[half]) /\ ~map_entry_is_free(Entry(m, half, i)) THEN map_entry_get_flags(Entry(m, half, i)) ELSE 0

Live(s, half) == {i \in 0..MAX_OBJECTS : i > (IF half = "client" THEN 1 ELSE -1) /\ lookup(map[s], half, i) \in {Object, Callback}}

Message(what, half, i, data) == [what |-> what, half |-> half, id |-> i, data |-> data]
Mail(s, message) == mail' = [mail EXCEPT ![s] = Append(@, message)]
Open(s) == ~refused /\ Len(mail[s]) < Bound
Received(s) == mail' = [mail EXCEPT ![s] = Tail(@)]
------------------------------------------------------------------------------
\* A request or an event with a new id: proxy_create(), wl_resource_create()
Create(s, data) ==
  /\ s \in Creators /\ Open(Other(s))
  /\ s = "server" => data = Object
  /\ LET new == insert_new(map[s], s, data) IN
     /\ map' = [map EXCEPT ![s] = new.map]
     /\ Len(new.map[s]) <= MAX_OBJECTS + 2
     /\ IF new.id = -1 THEN UNCHANGED mail ELSE Mail(Other(s), Message("new", s, new.id, data))
  /\ UNCHANGED <<deleted, refused>>

\* It arrives: wl_map_reserve_new(), and then wl_map_insert_at() by the handler.
Follow(s) ==
  /\ ~refused /\ mail[s] # <<>> /\ Head(mail[s]).what = "new"
  /\ LET m == Head(mail[s]) IN
     IF Reservable(map[s], m.half, m.id)
       THEN map' = [map EXCEPT ![s] = insert_at(reserve_new(@, m.half, m.id), 0, m.half, m.id, m.data)]
            /\ UNCHANGED refused
       ELSE refused' = TRUE /\ UNCHANGED map
  /\ Received(s) /\ UNCHANGED deleted

\* Mutant: the id is free as soon as the client has destroyed the object.
FreedAtOnce(i) == remove(map["client"], "client", "client", i)

\* The client destroys an object of its own: a zombie stays until delete_id, if that
\* has not come yet.
Left(i) ==
  IF i \in deleted THEN remove(map["client"], "client", "client", i)
  ELSE insert_at(map["client"], ZOMBIE_FLAG, "client", i, Zombie)

ClientDestroys(i) ==
  /\ Open("server") /\ i \in Live("client", "client")
  /\ map' = [map EXCEPT !["client"] = Left(i)]
  /\ deleted' = deleted \ {i}
  /\ IF lookup(map["client"], "client", i) = Object THEN Mail("server", Message("destroy", "client", i, NULL)) ELSE UNCHANGED mail
  /\ UNCHANGED refused

\* It destroys one of the compositor's: the place is empty at once.
ClientDestroysServers(i) ==
  /\ Open("server") /\ i \in Live("client", "server")
  /\ map' = [map EXCEPT !["client"] = insert_at(@, 0, "server", i, NULL)]
  /\ Mail("server", Message("destroy", "server", i, NULL))
  /\ UNCHANGED <<deleted, refused>>

\* remove_and_destroy_resource()
ResourceRemoved(half, i) ==
  IF half = "client" THEN insert_at(map["server"], 0, half, i, NULL) ELSE remove(map["server"], "server", half, i)

ResourceGone(half, i) ==
  map' = [map EXCEPT !["server"] = ResourceRemoved(half, i)]

\* The request to destroy arrives; delete_id goes back for an id of the client's half.
ServeDestroy ==
  /\ Open("client") /\ mail["server"] # <<>> /\ Head(mail["server"]).what = "destroy"
  /\ LET m == Head(mail["server"]) IN
     /\ ResourceGone(m.half, m.id)
     /\ mail' = [server |-> Tail(mail["server"]),
                 client |-> IF m.half = "client" THEN Append(mail["client"], Message("delete_id", "client", m.id, NULL)) ELSE mail["client"]]
  /\ UNCHANGED <<deleted, refused>>

\* The compositor destroys a callback.
ServerDestroys(i) ==
  /\ Open("client") /\ i \in Live("server", "client") /\ lookup(map["server"], "client", i) = Callback
  /\ ResourceGone("client", i)
  /\ Mail("client", Message("delete_id", "client", i, NULL))
  /\ UNCHANGED <<deleted, refused>>

\* display_handle_delete_id()
DeleteId ==
  /\ ~refused /\ mail["client"] # <<>> /\ Head(mail["client"]).what = "delete_id"
  /\ LET i == Head(mail["client"]).id IN
     IF lookup_flags(map["client"], "client", i) # 0
       THEN map' = [map EXCEPT !["client"] = remove(@, "client", "client", i)] /\ UNCHANGED deleted
       ELSE /\ deleted' = IF lookup(map["client"], "client", i) # NULL THEN deleted \cup {i} ELSE deleted
            /\ UNCHANGED map
  /\ Received("client") /\ UNCHANGED refused

Next ==
  \/ \E s \in Sides : Create(s, Object) \/ Create(s, Callback) \/ Follow(s)
  \/ \E i \in 0..MAX_OBJECTS : ClientDestroys(i) \/ ClientDestroysServers(i) \/ ServerDestroys(i)
  \/ ServeDestroy \/ DeleteId

Spec == Init /\ [][Next]_vars
------------------------------------------------------------------------------
\* The freed entries, along the list.
Chain(s, n) ==
  LET step[k \in 0..n] == IF k = 0 THEN map[s].free_list
                          ELSE IF ~map_entry_is_free(step[k - 1]) THEN 0 ELSE Entry(map[s], s, step[k - 1] \div 2)
  IN  step[n]

Freed(s) == {Chain(s, n) \div 2 : n \in {k \in 0..MAX_OBJECTS : Chain(s, k) # 0}}

TypeOK ==
  /\ \A s, half \in Sides : Range(map[s][half]) \subseteq
       {NULL, 2} \cup Data \cup {d + 2 : d \in Data} \cup {2 * i + 1 : i \in 0..MAX_OBJECTS}
  /\ \A s \in Sides : Len(mail[s]) <= Bound

\* The list of freed entries ends, names no entry twice and none that holds something;
\* its entries are on the own half and only the last of them reads as empty.
FreeListSound ==
  \A s \in Sides :
    /\ Chain(s, MAX_OBJECTS + 1) = 0
    /\ \A i \in Freed(s) : lookup(map[s], s, i) = NULL
    /\ \A n \in 0..MAX_OBJECTS : Chain(s, n) # 0 =>
         /\ map_entry_is_free(Chain(s, n))
         /\ \A k \in 0..(n - 1) : Chain(s, k) # Chain(s, n)

Taken(s) ==
  [i \in {j \in 0..(Len(map[s][s]) - 1) : j <= MAX_OBJECTS /\ j \notin Freed(s)} |-> lookup(map[s], s, i)]

ClientIds == INSTANCE IdTable WITH Ids <- 0..MAX_OBJECTS, taken <- Taken("client")
ServerIds == INSTANCE IdTable WITH Ids <- 0..MAX_OBJECTS, taken <- Taken("server")

\* The client's array with its list is a table of ids: a new object gets an id that
\* names nothing, and no other entry changes (wl_map_insert_new, wl_map_remove).
ClientTable == ClientIds!Spec

\* So is the compositor's.
ServerTable == ServerIds!Spec

\* No new id is refused: in whatever order ids are freed and used again, the other
\* side, which has no list of freed entries, finds the id empty or next
\* (wl_map_reserve_new).
PeerFollows == ~refused
==============================================================================
