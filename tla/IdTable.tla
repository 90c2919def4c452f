------------------------------- MODULE IdTable -------------------------------
(***************************************************************************)
(* libwayland: what one side needs of its ids.  A new object gets an id     *)
(* that names nothing; it stays with the object, and then with its zombie,  *)
(* until the id is given back.                                              *)
(***************************************************************************)
EXTENDS Integers

CONSTANTS Ids, Data, NULL

VARIABLE taken   \* ids in use: data, or NULL for a reserved id or an empty zombie

Init == \E S \in SUBSET Ids : taken \in [S -> Data \cup {NULL}]

Insert(i, d) ==
  /\ i \notin DOMAIN taken
  /\ taken' = [j \in DOMAIN taken \cup {i} |-> IF j = i THEN d ELSE taken[j]]

Replace(i, d) ==
  /\ i \in DOMAIN taken
  /\ taken' = [taken EXCEPT ![i] = d]

Remove(i) ==
  /\ i \in DOMAIN taken
  /\ taken' = [j \in DOMAIN taken \ {i} |-> taken[j]]

Next == \E i \in Ids : Remove(i) \/ \E d \in Data \cup {NULL} : Insert(i, d) \/ Replace(i, d)

Spec == Init /\ [][Next]_taken
==============================================================================
