---------------------------- MODULE ClientSocket ----------------------------
(***************************************************************************)
(* libwayland, the client: how a process comes to its socket.  The number   *)
(* of an open one is in WAYLAND_SOCKET, or it makes one and connects it.    *)
(* Every step may fail.  Meanwhile other parts of the process open and      *)
(* close files, whose numbers are used again, and start programs.           *)
(***************************************************************************)
EXTENDS FiniteSetsExt, Functions, Integers

CONSTANTS
  MaxFd,         \* bound: the highest number of a file
  MaxSockets,    \* bound: calls of wl_display_connect()
  MaxOthers      \* bound: files that other parts of the process open

\* The highest number is never given to a file.
ClientSocketAssumption ==
  /\ MaxFd \in Nat /\ MaxSockets \in Nat /\ MaxOthers \in Nat
  /\ MaxFd > MaxSockets + MaxOthers

VARIABLES
  WAYLAND_SOCKET,\* in the environment: a number, or one of the below
  files,         \* what a number stands for
  count,         \* calls of wl_display_connect()
  opened,        \* files that others opened
  others,        \* those they have open
  pc, fd,        \* wl_display_connect(): where it is, and its variable
  displays,      \* the number and the file of every display
  inherited      \* files in programs that were started

conn == <<pc, fd>>
vars == <<WAYLAND_SOCKET, files, count, opened, others, conn, displays, inherited>>

Fds == 0..MaxFd

Unset == -1
NotNumber == -2

\* The files: what the process was started with, sockets it makes, others.
File(kind, i) == [kind |-> kind, i |-> i, cloexec |-> kind # "given"]
Name(file) == <<file.kind, file.i>>
Closed == [kind |-> "none", i |-> 0, cloexec |-> FALSE]

NextFd == Min({n \in Fds : files[n] = Closed})

\* Started with a socket and its number, with nothing, with something else in the
\* variable, or with the number of a file that is closed.
Init ==
  /\ WAYLAND_SOCKET \in {Unset, NotNumber, 0, MaxFd}
  /\ files = [n \in Fds |-> IF n = 0 /\ WAYLAND_SOCKET = 0 THEN File("given", 0) ELSE Closed]
  /\ count = 0 /\ opened = 0 /\ others = {}
  /\ pc = "idle" /\ fd = Unset /\ displays = {} /\ inherited = {}
------------------------------------------------------------------------------
\* strtol()
Number == IF WAYLAND_SOCKET \in Fds THEN WAYLAND_SOCKET ELSE Unset

\* wl_display_connect(): the variable, if there is one.
Connect ==
  /\ pc = "idle" /\ count < MaxSockets /\ count' = count + 1
  /\ fd' = Number
  /\ pc' = CASE WAYLAND_SOCKET = NotNumber -> "idle"
             [] WAYLAND_SOCKET = Unset -> "socket"
             [] OTHER -> "given"
  /\ UNCHANGED <<WAYLAND_SOCKET, files, opened, others, displays, inherited>>

\* Mutant: the flags are not touched.
FlagsKept(file) == file

\* FD_CLOEXEC
SetCloexec(file) == [file EXCEPT !.cloexec = TRUE]

\* fcntl(): of a number of no file it fails.
CheckFd ==
  /\ pc = "given"
  /\ IF files[fd] = Closed
       THEN pc' = "idle" /\ UNCHANGED files
       ELSE pc' = "unset" /\ files' = [files EXCEPT ![fd] = SetCloexec(@)]
  /\ UNCHANGED <<WAYLAND_SOCKET, count, opened, others, fd, displays, inherited>>

\* Mutant: the variable stays.
EnvironmentKept == WAYLAND_SOCKET

\* unsetenv()
EnvironmentAfter == Unset

UnsetEnv ==
  /\ pc = "unset" /\ pc' = "display" /\ WAYLAND_SOCKET' = EnvironmentAfter
  /\ UNCHANGED <<files, count, opened, others, fd, displays, inherited>>

\* wl_os_socket_cloexec(); before it XDG_RUNTIME_DIR may be found invalid.
MakeSocket ==
  /\ pc = "socket"
  /\ \/ pc' = "idle" /\ UNCHANGED <<files, fd>>
     \/ pc' = "connect" /\ fd' = NextFd /\ files' = [files EXCEPT ![NextFd] = File("socket", count)]
  /\ UNCHANGED <<WAYLAND_SOCKET, count, opened, others, displays, inherited>>

Close(n) == [files EXCEPT ![n] = Closed]

\* connect(), and before it the length of the path: both may fail.
ConnectSocket ==
  /\ pc = "connect"
  /\ \/ pc' = "display" /\ UNCHANGED files
     \/ pc' = "idle" /\ files' = Close(fd)
  /\ UNCHANGED <<WAYLAND_SOCKET, count, opened, others, fd, displays, inherited>>

\* wl_display_connect_to_fd(): an allocation may fail.
ConnectToFd ==
  /\ pc = "display" /\ pc' = "idle"
  /\ \/ displays' = displays \cup {[fd |-> fd, file |-> Name(files[fd])]} /\ UNCHANGED files
     \/ files' = Close(fd) /\ UNCHANGED displays
  /\ UNCHANGED <<WAYLAND_SOCKET, count, opened, others, fd, inherited>>

\* Mutant: the file is left to the caller.
Freed(d) == files

\* close() at the end of wl_display_disconnect().
Hung(d) == Close(d.fd)

\* wl_display_disconnect()
Disconnect(d) ==
  /\ pc = "idle" /\ d \in displays
  /\ displays' = displays \ {d} /\ files' = Hung(d)
  /\ UNCHANGED <<WAYLAND_SOCKET, count, opened, others, conn, inherited>>
------------------------------------------------------------------------------
OtherOpen ==
  /\ opened < MaxOthers /\ opened' = opened + 1
  /\ files' = [files EXCEPT ![NextFd] = File("other", opened + 1)]
  /\ others' = others \cup {[fd |-> NextFd, file |-> Name(File("other", opened + 1))]}
  /\ UNCHANGED <<WAYLAND_SOCKET, count, conn, displays, inherited>>

OtherClose(f) ==
  /\ f \in others /\ others' = others \ {f} /\ files' = Close(f.fd)
  /\ UNCHANGED <<WAYLAND_SOCKET, count, opened, conn, displays, inherited>>

\* A program is started: it has the files that are not closed by exec().
Start ==
  /\ inherited' = inherited \cup {Name(f) : f \in {g \in Range(files) : g # Closed /\ ~g.cloexec}}
  /\ UNCHANGED <<WAYLAND_SOCKET, files, count, opened, others, conn, displays>>

Next ==
  \/ Connect \/ CheckFd \/ UnsetEnv \/ MakeSocket \/ ConnectSocket \/ ConnectToFd
  \/ \E d \in displays : Disconnect(d)
  \/ OtherOpen \/ Start
  \/ \E f \in others : OtherClose(f)

Spec == Init /\ [][Next]_vars
------------------------------------------------------------------------------
TypeOK ==
  /\ WAYLAND_SOCKET \in Fds \cup {Unset, NotNumber} /\ fd \in Fds \cup {Unset}
  /\ pc \in {"idle", "given", "unset", "socket", "connect", "display"}
  /\ files \in [Fds -> [kind : {"none", "given", "socket", "other"}, i : Nat, cloexec : BOOLEAN]]
  /\ files[MaxFd] = Closed
  /\ displays \subseteq [fd : Fds, file : {"given", "socket"} \X Nat]
  /\ others \subseteq [fd : Fds, file : {"other"} \X Nat]
  /\ count \in 0..MaxSockets /\ opened \in 0..MaxOthers

\* A display has its socket as long as it lives, one of its own, also when it was given
\* its number in the environment, more than once (wl_display_connect).
DisplaysHaveSockets ==
  /\ \A d \in displays : Name(files[d.fd]) = d.file /\ d.file[1] # "other"
  /\ \A d, e \in displays : d # e => d.fd # e.fd

\* Nobody closes the file of another part of the process, whose number may be one that a
\* display had before ("will close it when the display is destroyed").
OthersKeepFiles == \A f \in others : Name(files[f.fd]) = f.file

\* "The fd will also be closed in case of failure" (wl_display_connect_to_fd): between
\* calls every socket is a display's, or the one whose number is in the environment.
NothingLeaks ==
  pc = "idle" =>
    \A n \in Fds : files[n].kind \in {"given", "socket"} =>
      n = WAYLAND_SOCKET \/ \E d \in displays : d.fd = n

\* wl_display_connect() has an open socket that is no display's yet.
Holding == pc \in {"unset", "connect", "display"}

\* The same in the middle of a call, and what is known of the variable: it goes before
\* there is a display, and names nobody else's file.
SocketsOwned ==
  /\ \A n \in Fds : files[n].kind \in {"given", "socket"} =>
       n = WAYLAND_SOCKET \/ (Holding /\ n = fd) \/ \E d \in displays : d.fd = n
  /\ Holding => fd \in Fds /\ files[fd].kind \in {"given", "socket"} /\ \A d \in displays : d.fd # fd
  /\ pc \in {"given", "unset"} => WAYLAND_SOCKET \in Fds /\ fd = WAYLAND_SOCKET
  /\ pc \in {"socket", "connect", "display"} \/ displays # {} => WAYLAND_SOCKET = Unset
  /\ WAYLAND_SOCKET \in Fds \ {MaxFd} => files[WAYLAND_SOCKET].kind = "given"

Taken == {n \in Fds : files[n] # Closed}

\* There is a number for every file: what is open was given, made or opened.
NumbersSuffice == Cardinality(Taken) + (IF pc = "socket" THEN 1 ELSE 0) <= 1 + count + opened

\* Only the file that the process was given can be without FD_CLOEXEC, and that only until
\* wl_display_connect() has looked at it: what it holds, and every display, is marked.
MarkedInTime ==
  /\ \A n \in Fds : files[n] # Closed /\ ~files[n].cloexec => files[n].kind = "given"
  /\ \A n \in Fds : files[n].kind = "given" => n = 0
  /\ Holding => files[fd].cloexec
  /\ \A d \in displays : files[d.fd].cloexec

\* The inductive invariant.
Inv == TypeOK /\ DisplaysHaveSockets /\ OthersKeepFiles /\ NothingLeaks /\ SocketsOwned /\ NumbersSuffice

\* A program that is started gets the socket of no display (FD_CLOEXEC), and no more than
\* the one that was meant for it.
NotInherited == [][\A d \in displays : d.file \in inherited' => d.file \in inherited]_vars
==============================================================================
