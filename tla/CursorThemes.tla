---------------------------- MODULE CursorThemes ----------------------------
(***************************************************************************)
(* How a cursor theme is put together (cursor/xcursor.c,                   *)
(* xcursor_load_theme_protected, and cursor/wayland-cursor.c,              *)
(* wl_cursor_theme_load): the directories of the search path are gone      *)
(* through for the theme, then the themes it inherits, which may inherit   *)
(* one another in any way.                                                 *)
(*                                                                         *)
(* A string of theme names between colons is the sequence of the names;    *)
(* the code passes the rest of such a string as the name of a theme, of    *)
(* which only the first name is used to find its directory.                *)
(***************************************************************************)
EXTENDS Naturals, Sequences, FiniteSets, SequencesExt

CONSTANTS
    Themes,     \* the names of themes
    Default,    \* the theme "default"
    Empty,      \* the theme named "", whose directory is that of all themes
    Dirs,       \* the number of directories in the search path
    Cursors,    \* the names of cursors
    MaxInherits \* bound: the themes that one inherits

CursorThemesAssumption ==
    /\ IsFiniteSet(Themes) /\ Default \in Themes /\ Empty \notin Themes
    /\ Dirs \in Nat \ {0} /\ MaxInherits \in Nat

VARIABLES
    files,      \* the cursor files of each theme in each directory
    index,      \* what its index.theme says it inherits, <<>> without one
    name,       \* the theme that was asked for
    stage,      \* "named", "default" or "done"
    stack,      \* the calls of xcursor_load_theme_protected
    cursors     \* the cursors that were found, in order, with their origin

vars == <<files, index, name, stack, stage, cursors>>
disk == <<files, index, name>>

Places == (1 .. Dirs) \X Themes
InheritLists == SeqOf(Themes, MaxInherits) \cup {<<Empty>>}

Call(node) == [node |-> node, path |-> 1, inherits |-> <<>>, i |-> <<>>]

Calls == [node : SeqOf(Themes \cup {Empty}, MaxInherits),
          path : 1 .. Dirs + 1,
          inherits : InheritLists,
          i : InheritLists]

TypeOK ==
    /\ files \in [Places -> SUBSET Cursors]
    /\ index \in [Places -> InheritLists]
    /\ name \in Themes
    /\ stage \in {"named", "default", "done"}
    /\ \A k \in DOMAIN stack : stack[k] \in Calls
    /\ \A k \in DOMAIN cursors :
        cursors[k] \in [name : Cursors, dir : 0 .. Dirs, theme : Themes]

Init ==
    /\ files \in [Places -> SUBSET Cursors]
    /\ index \in [Places -> InheritLists]
    /\ name \in Themes
    /\ stage = "named"
    /\ stack = <<Call(<<name>>)>>
    /\ cursors = <<>>

Top == Last(stack)
FilesOf(dir, theme) == IF theme = Empty THEN {} ELSE files[<<dir, theme>>]
IndexOf(dir, theme) == IF theme = Empty THEN <<>> ELSE index[<<dir, theme>>]

\* Mutant: a cursor that is there already is added.
HasNone(c) == FALSE

HasCursor(c) == \E k \in DOMAIN cursors : cursors[k].name = c

Origin(c, dir, theme) == [name |-> c, dir |-> dir, theme |-> theme]

KeepsFirst(old, new) == IF old = <<>> THEN new ELSE old

\* All cursors of the theme in a directory of the path, and what it
\* inherits, if no directory before has said so.
LoadDir ==
    /\ stage # "done" /\ stack # <<>>
    /\ Top.path <= Dirs
    /\ LET theme == Head(Top.node)
           dir == Top.path
           found == SetToSeq({c \in FilesOf(dir, theme) : ~HasCursor(c)})
           inherits == KeepsFirst(Top.inherits, IndexOf(dir, theme)) IN
        /\ cursors' = cursors \o [k \in DOMAIN found |-> Origin(found[k], dir, theme)]
        /\ stack' = [stack EXCEPT ![Len(stack)] =
               [@ EXCEPT !.path = @ + 1, !.inherits = inherits, !.i = inherits]]
    /\ UNCHANGED <<disk, stage>>

\* Mutant: nothing is on the list.
never_contains(i) == FALSE

\* Mutant: only lengths are compared.
contains_length(i) == \E k \in DOMAIN stack : Len(stack[k].node) = Len(i)

nodelist_contains(i) == \E k \in DOMAIN stack : stack[k].node = i

\* Mutant: the last directory is looked at again.
SamePath(i) == IF Len(i) > 1 THEN i ELSE Tail(i)

NextPath(i) == Tail(i)

\* The next theme of the list is loaded, with what it inherits, unless the
\* rest of the list is that of a call in progress.
Inherit ==
    /\ stage # "done" /\ stack # <<>>
    /\ Top.path > Dirs /\ Top.i # <<>>
    /\ LET on == [stack EXCEPT ![Len(stack)].i = NextPath(@)] IN
        stack' = IF nodelist_contains(Top.i) THEN on ELSE Append(on, Call(Top.i))
    /\ UNCHANGED <<disk, stage, cursors>>

Return ==
    /\ stage # "done" /\ stack # <<>>
    /\ Top.path > Dirs /\ Top.i = <<>>
    /\ stack' = Front(stack)
    /\ UNCHANGED <<disk, stage, cursors>>

\* wl_cursor_theme_load: the default theme, if there was no cursor at all.
Loaded ==
    /\ stack = <<>>
    /\ \/ /\ stage = "named" /\ cursors = <<>>
          /\ stage' = "default"
          /\ stack' = <<Call(<<Default>>)>>
       \/ /\ stage = "named" /\ cursors # <<>>
          /\ stage' = "done"
          /\ UNCHANGED stack
       \/ /\ stage = "default"
          /\ stage' = "done"
          /\ UNCHANGED stack
    /\ UNCHANGED <<disk, cursors>>

Next == LoadDir \/ Inherit \/ Return \/ Loaded

Fairness == WF_vars(Next)

Spec == Init /\ [][Next]_vars /\ Fairness

-----------------------------------------------------------------------------

\* What a theme inherits, and the themes one reaches that way.
InheritsOf(theme) ==
    LET with == {d \in 1 .. Dirs : index[<<d, theme>>] # <<>>} IN
    IF with = {} THEN {}
    ELSE ToSet(index[<<CHOOSE d \in with : \A e \in with : d <= e, theme>>]) \ {Empty}

Reached(theme) ==
    LET reach[n \in 0 .. Cardinality(Themes)] ==
        IF n = 0 THEN {theme}
        ELSE reach[n - 1] \cup UNION {InheritsOf(t) : t \in reach[n - 1]}
    IN reach[Cardinality(Themes)]

CursorsOf(theme) == UNION {files[<<d, theme>>] : d \in 1 .. Dirs}

AllCursors(theme) == UNION {CursorsOf(t) : t \in Reached(theme)}

Found == {cursors[k].name : k \in DOMAIN cursors}

(* Loading a theme comes to an end, however the themes inherit one another *)
(* (nodelist_contains).                                                    *)
Terminates == <>(stage = "done")

(* The recursion is no deeper than the themes and the names they list,     *)
(* although a theme may be on the stack several times, with different      *)
(* rests of a list.                                                        *)
DepthBounded == Len(stack) <=
    1 + FoldSet(LAMBDA p, n : n + Len(index[p]), 0, Places)

(* At the end the theme has every cursor of the themes it reaches, or, if  *)
(* there are none, those of the default theme: the cut of a cycle leaves   *)
(* no theme out ("If no theme with the given name exists, a default theme  *)
(* will be loaded").                                                       *)
NothingLeftOut == stage = "done" =>
    Found = IF AllCursors(name) # {} THEN AllCursors(name) ELSE AllCursors(Default)

(* A cursor is in the theme once, and one that a theme has itself is never *)
(* replaced by one that it inherits, nor by one of a later directory       *)
(* (load_callback).                                                        *)
OwnComesFirst ==
    /\ \A j, k \in DOMAIN cursors : j # k => cursors[j].name # cursors[k].name
    /\ \A k \in DOMAIN cursors : LET c == cursors[k] IN
        /\ (stage = "named" /\ c.name \in CursorsOf(name)) => c.theme = name
        /\ \A d \in 1 .. c.dir - 1 : c.name \notin files[<<d, c.theme>>]

=============================================================================
