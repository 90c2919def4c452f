----------------------------- MODULE SocketLock -----------------------------
(***************************************************************************)
(* How libwayland gives a display its socket (wayland-server.c): several   *)
(* compositors are started, restarted and killed, and the lock file beside *)
(* each socket decides which of them may use its path.  The file system is *)
(* part of the model: a path names an inode or nothing, a lock belongs to  *)
(* an inode and not to a path, and it ends with the process that holds it. *)
(* The proofs at the end are for any number of processes, names, starts.   *)
(***************************************************************************)
EXTENDS Integers, FiniteSets, FiniteSetTheorems, TLAPS

CONSTANTS
    Procs,          \* the compositors
    MaxDisplayno,   \* the last display name wl_display_add_socket_auto tries
    MaxStarts,      \* bound: how often a compositor is started
    Orderly,        \* whether wl_socket_destroy is reached, or only crashes
    None,           \* no process
    Stale           \* the socket of a process that is gone

SocketLockAssumption ==
    /\ IsFiniteSet(Procs)
    /\ MaxDisplayno \in Nat
    /\ MaxStarts \in Nat \ {0}
    /\ Orderly \in BOOLEAN
    /\ None \notin Procs /\ Stale \notin Procs /\ None # Stale

Names == 0 .. MaxDisplayno

\* An inode is in use while a path or a process refers to it.
Inodes == 1 .. Cardinality(Names) + Cardinality(Procs)

VARIABLES
    pc,         \* what each process does next
    name,       \* the display name it has in hand
    auto,       \* whether it tries the names one after the other
    fd_lock,    \* the inode of the lock file it has open, 0 for none
    lockfile,   \* the inode each lock path names, 0 for none
    locked,     \* the process that holds the lock of each inode
    sockfile,   \* whose socket each path names
    starts      \* how often each process has been started

vars == <<pc, name, auto, fd_lock, lockfile, locked, sockfile, starts>>
files == <<lockfile, locked, sockfile>>

Steps == {"idle", "open", "flock", "stat", "unlink", "bind", "serving",
          "gone1", "gone2", "gone3", "exhausted"}

TypeOK ==
    /\ pc \in [Procs -> Steps]
    /\ name \in [Procs -> Names]
    /\ auto \in [Procs -> BOOLEAN]
    /\ fd_lock \in [Procs -> {0} \cup Inodes]
    /\ lockfile \in [Names -> {0} \cup Inodes]
    /\ locked \in [Inodes -> Procs \cup {None}]
    /\ sockfile \in [Names -> Procs \cup {None, Stale}]
    /\ starts \in [Procs -> 0 .. MaxStarts]

Init ==
    /\ pc = [p \in Procs |-> "idle"]
    /\ name = [p \in Procs |-> 0]
    /\ auto = [p \in Procs |-> FALSE]
    /\ fd_lock = [p \in Procs |-> 0]
    /\ lockfile = [n \in Names |-> 0]
    /\ locked = [i \in Inodes |-> None]
    /\ sockfile = [n \in Names |-> None]
    /\ starts = [p \in Procs |-> 0]

Fresh == CHOOSE i \in Inodes :
    /\ \A n \in Names : lockfile[n] # i
    /\ \A p \in Procs : fd_lock[p] # i

Goto(p, step) == pc' = [pc EXCEPT ![p] = step]

\* The process adds a socket of a given name, or asks for the first that is
\* free.
Start(p, n, a) ==
    /\ pc[p] = "idle"
    /\ starts[p] < MaxStarts
    /\ a => n = 0
    /\ Goto(p, "open")
    /\ name' = [name EXCEPT ![p] = n]
    /\ auto' = [auto EXCEPT ![p] = a]
    /\ starts' = [starts EXCEPT ![p] = @ + 1]
    /\ UNCHANGED <<fd_lock, files>>

OpenLock(p) ==
    /\ pc[p] = "open"
    /\ LET inode == IF lockfile[name[p]] = 0 THEN Fresh ELSE lockfile[name[p]] IN
        /\ lockfile' = [lockfile EXCEPT ![name[p]] = inode]
        /\ fd_lock' = [fd_lock EXCEPT ![p] = inode]
    /\ Goto(p, "flock")
    /\ UNCHANGED <<name, auto, locked, sockfile, starts>>

\* Mutant: flock() succeeds whoever has the lock.
LockGrantedAlways(p) == TRUE

LockGranted(p) == locked[fd_lock[p]] = None

TakeLock(p) ==
    /\ pc[p] = "flock"
    /\ LockGranted(p)
    /\ locked' = [locked EXCEPT ![fd_lock[p]] = p]
    /\ Goto(p, "stat")
    /\ UNCHANGED <<name, auto, fd_lock, lockfile, sockfile, starts>>

\* Mutant: the last name is not tried.
TriedTooFew(p) ==
    IF ~auto[p] THEN "idle"
    ELSE IF name[p] + 1 < MaxDisplayno THEN "open" ELSE "exhausted"

\* The name in hand is given up: without its path, so that what the holder
\* of the lock has there is left alone.
Tried(p) ==
    IF ~auto[p] THEN "idle"
    ELSE IF name[p] < MaxDisplayno THEN "open" ELSE "exhausted"

LockRefused(p) ==
    /\ pc[p] = "flock"
    /\ ~LockGranted(p)
    /\ fd_lock' = [fd_lock EXCEPT ![p] = 0]
    /\ Goto(p, Tried(p))
    /\ name' = [name EXCEPT ![p] = IF Tried(p) = "open" THEN @ + 1 ELSE @]
    /\ UNCHANGED <<auto, files, starts>>

\* Mutant: what is left of another is not removed.
NothingLeftBehind(p) == FALSE

\* A socket that was left behind is removed, by whoever holds the lock.
LeftBehind(p) == sockfile[name[p]] # None

Stat(p) ==
    /\ pc[p] = "stat"
    /\ Goto(p, IF LeftBehind(p) THEN "unlink" ELSE "bind")
    /\ UNCHANGED <<name, auto, fd_lock, files, starts>>

Unlink(p) ==
    /\ pc[p] = "unlink"
    /\ sockfile' = [sockfile EXCEPT ![name[p]] = None]
    /\ Goto(p, "bind")
    /\ UNCHANGED <<name, auto, fd_lock, lockfile, locked, starts>>

Bind(p) ==
    /\ pc[p] = "bind"
    /\ IF sockfile[name[p]] = None
       THEN /\ sockfile' = [sockfile EXCEPT ![name[p]] = p]
            /\ Goto(p, "serving")
       ELSE /\ Goto(p, "gone1")
            /\ UNCHANGED sockfile
    /\ UNCHANGED <<name, auto, fd_lock, lockfile, locked, starts>>

\* socket, bind or listen fails for another reason.
BindFails(p) ==
    /\ Orderly
    /\ pc[p] = "bind"
    /\ Goto(p, "gone1")
    /\ UNCHANGED <<name, auto, fd_lock, files, starts>>

\* wl_display_destroy, called while the display serves its clients.
Destroy(p) ==
    /\ Orderly
    /\ pc[p] = "serving"
    /\ Goto(p, "gone1")
    /\ UNCHANGED <<name, auto, fd_lock, files, starts>>

UnlinkSocket(p) ==
    /\ pc[p] = "gone1"
    /\ sockfile' = [sockfile EXCEPT ![name[p]] = None]
    /\ Goto(p, "gone2")
    /\ UNCHANGED <<name, auto, fd_lock, lockfile, locked, starts>>

UnlinkLock(p) ==
    /\ pc[p] = "gone2"
    /\ lockfile' = [lockfile EXCEPT ![name[p]] = 0]
    /\ Goto(p, "gone3")
    /\ UNCHANGED <<name, auto, fd_lock, locked, sockfile, starts>>

\* Mutant: the lock outlives its holder.
NotReleased(p) == locked

Released(p) == [i \in Inodes |-> IF locked[i] = p THEN None ELSE locked[i]]

CloseLock(p) ==
    /\ pc[p] = "gone3"
    /\ locked' = Released(p)
    /\ fd_lock' = [fd_lock EXCEPT ![p] = 0]
    /\ Goto(p, "idle")
    /\ UNCHANGED <<name, auto, lockfile, sockfile, starts>>

\* The process is killed: its files stay behind, its lock does not.
Crash(p) ==
    /\ pc[p] \notin {"idle", "exhausted"}
    /\ sockfile' = [n \in Names |-> IF sockfile[n] = p THEN Stale ELSE sockfile[n]]
    /\ locked' = Released(p)
    /\ fd_lock' = [fd_lock EXCEPT ![p] = 0]
    /\ Goto(p, "idle")
    /\ UNCHANGED <<name, auto, lockfile, starts>>

Next == \E p \in Procs :
    \/ \E n \in Names, a \in BOOLEAN : Start(p, n, a)
    \/ OpenLock(p) \/ TakeLock(p) \/ LockRefused(p)
    \/ Stat(p) \/ Unlink(p) \/ Bind(p) \/ BindFails(p)
    \/ Destroy(p) \/ UnlinkSocket(p) \/ UnlinkLock(p) \/ CloseLock(p)
    \/ Crash(p)

Spec == Init /\ [][Next]_vars

-----------------------------------------------------------------------------

(* While a compositor serves its clients the path leads to it: no other    *)
(* compositor has taken the path away, whenever it was started             *)
(* (wl_socket_lock; "The function also fails [...] if the path is already  *)
(* in use").  If ends may be orderly it takes that each of two starts      *)
(* once: wl_socket_destroy unlinks a lock file that another may have open. *)
OneOwner == \A p \in Procs : pc[p] = "serving" => sockfile[name[p]] = p

(* Looking at the path, removing what was left there and binding to it are *)
(* three calls: whoever holds the lock finds the path as it left it, so    *)
(* that bind never fails on a socket of a process that is gone.            *)
PathFree == \A p \in Procs : pc[p] = "bind" => sockfile[name[p]] = None

(* wl_display_add_socket_auto finds a name when there is one for each      *)
(* compositor: none is taken twice, skipped or held by one that only tried *)
(* it.                                                                     *)
AutoFindsName ==
    Cardinality(Procs) <= Cardinality(Names)
        => \A p \in Procs : pc[p] # "exhausted"

(* A lock is held by a process that uses it or gives it up, never by one   *)
(* that has failed or has ended: no restart finds the path locked for      *)
(* nothing.                                                                *)
LockedByUser == \A i \in Inodes : locked[i] # None =>
    /\ fd_lock[locked[i]] = i
    /\ pc[locked[i]] \in {"stat", "unlink", "bind", "serving", "gone1", "gone2", "gone3"}

-----------------------------------------------------------------------------

\* From open to close, and from flock to close.
Opened == {"flock", "stat", "unlink", "bind", "serving", "gone1", "gone2"}
Holding == {"stat", "unlink", "bind", "serving", "gone1", "gone2", "gone3"}

\* Either no end is orderly, or two compositors start once each.
OrderlyOrFew ==
    Orderly => /\ MaxStarts = 1
               /\ \A p, q, r \in Procs : p = q \/ q = r \/ p = r

\* The process may yet open a lock file, or uses one.
MayUse(p) == starts[p] = 0 \/ pc[p] \in Opened \cup {"open"}

\* A path keeps its inode while somebody has it open: only a process that has come
\* to its orderly end takes it away.
LockFilesKept ==
    /\ \A p \in Procs : fd_lock[p] # 0 <=> pc[p] \in Opened \cup Holding
    /\ \A p \in Procs : pc[p] \in Holding => locked[fd_lock[p]] = p
    /\ \A m, n \in Names : lockfile[m] # 0 /\ lockfile[m] = lockfile[n] => m = n
    /\ \A p \in Procs :
        pc[p] \in Opened /\ (~Orderly \/ \A q \in Procs \ {p} : MayUse(q))
            => fd_lock[p] = lockfile[name[p]]
    /\ \A p \in Procs : ~Orderly => pc[p] \notin {"gone1", "gone2", "gone3"}
    /\ \A p \in Procs : starts[p] = 0 => pc[p] = "idle"

\* The inductive invariant.
Inv == TypeOK /\ LockFilesKept /\ LockedByUser /\ OneOwner /\ PathFree

\* The process tries no further name.
Settled(p) == starts[p] = 1 /\ pc[p] \notin {"open", "flock", "exhausted"}

\* Each name that a process has given up is that of another, which keeps it.
NamesTaken ==
    /\ \A p \in Procs : auto[p] /\ pc[p] \in {"open", "flock"} =>
        \A m \in Names : m < name[p] => \E q \in Procs \ {p} : Settled(q) /\ name[q] = m
    /\ \A p \in Procs : pc[p] = "exhausted" =>
        \A m \in Names : \E q \in Procs \ {p} : Settled(q) /\ name[q] = m

-----------------------------------------------------------------------------

\* A function has no more values on a set than the set has members.
LEMMA ImageCardinality ==
  ASSUME NEW S, IsFiniteSet(S), NEW T, NEW f \in [T -> Nat], S \subseteq T
  PROVE  LET image == {f[x] : x \in S} IN
           IsFiniteSet(image) /\ Cardinality(image) <= Cardinality(S) /\ Cardinality(image) \in Nat
<1> DEFINE image == {f[x] : x \in S}
           g == [x \in S |-> f[x]]
<1>1. g \in Surjection(S, image)
  BY DEF Surjection
<1>2. IsFiniteSet(image) /\ Cardinality(image) <= Cardinality(S)
  BY <1>1, FS_Surjection
<1> QED
  BY <1>2, FS_CardinalityType

\* There are as many inodes as names and processes.
LEMMA InodesFinite ==
  ASSUME SocketLockAssumption
  PROVE  /\ IsFiniteSet(Names) /\ Cardinality(Names) \in Nat /\ Cardinality(Procs) \in Nat
         /\ Inodes \subseteq Nat \ {0}
         /\ IsFiniteSet(Inodes) /\ Cardinality(Inodes) = Cardinality(Names) + Cardinality(Procs)
<1>1. IsFiniteSet(Names) /\ Cardinality(Names) \in Nat /\ Cardinality(Procs) \in Nat
  <2>1. MaxDisplayno \in Int /\ 0 \in Int
    BY DEF SocketLockAssumption
  <2> QED
    BY <2>1, FS_Interval, FS_CardinalityType DEF Names, SocketLockAssumption
<1>2. Cardinality(Names) + Cardinality(Procs) \in Nat
  BY <1>1
<1> HIDE DEF Names
<1>3. IsFiniteSet(Inodes) /\ Cardinality(Inodes) = Cardinality(Names) + Cardinality(Procs)
  BY <1>1, <1>2, FS_Interval DEF Inodes
<1> QED
  BY <1>1, <1>3 DEF Inodes

\* A path without a lock file gets an inode that nothing refers to.
LEMMA FreshInode ==
  ASSUME SocketLockAssumption, TypeOK, NEW p \in Procs, fd_lock[p] = 0,
         NEW n \in Names, lockfile[n] = 0
  PROVE  /\ Fresh \in Inodes
         /\ \A m \in Names : lockfile[m] # Fresh
         /\ \A q \in Procs : fd_lock[q] # Fresh
<1> DEFINE used == {lockfile[m] : m \in Names \ {n}} \cup {fd_lock[q] : q \in Procs \ {p}}
<1>1. lockfile \in [Names -> Nat] /\ fd_lock \in [Procs -> Nat]
  BY InodesFinite DEF TypeOK
<1>2. IsFiniteSet(Procs)
  BY DEF SocketLockAssumption
<1>3. /\ IsFiniteSet(Names \ {n}) /\ Cardinality(Names \ {n}) = Cardinality(Names) - 1
      /\ IsFiniteSet(Procs \ {p}) /\ Cardinality(Procs \ {p}) = Cardinality(Procs) - 1
  BY <1>2, InodesFinite, FS_RemoveElement
<1> DEFINE A == {lockfile[m] : m \in Names \ {n}}
           B == {fd_lock[q] : q \in Procs \ {p}}
<1>4. IsFiniteSet(A) /\ Cardinality(A) <= Cardinality(Names) - 1 /\ Cardinality(A) \in Nat
  BY <1>1, <1>3, ImageCardinality
<1>5. IsFiniteSet(B) /\ Cardinality(B) <= Cardinality(Procs) - 1 /\ Cardinality(B) \in Nat
  BY <1>1, <1>3, ImageCardinality
<1>6. used = A \cup B
  OBVIOUS
<1> HIDE DEF A, B, used
<1>7. IsFiniteSet(used) /\ Cardinality(used) < Cardinality(Names) + Cardinality(Procs)
  <2>1. Cardinality(A \cap B) \in Nat
    BY <1>4, FS_Intersection, FS_CardinalityType
  <2>2. IsFiniteSet(A \cup B) /\ Cardinality(A \cup B) = Cardinality(A) + Cardinality(B) - Cardinality(A \cap B)
    BY <1>4, <1>5, FS_Union
  <2> QED
    BY <1>4, <1>5, <1>6, <2>1, <2>2, InodesFinite
<1>8. PICK i \in Inodes : i \notin used
  <2>1. SUFFICES ASSUME Inodes \subseteq used PROVE FALSE
    OBVIOUS
  <2>2. Cardinality(Inodes) <= Cardinality(used) /\ Cardinality(used) \in Nat
    BY <1>7, <2>1, FS_Subset, FS_CardinalityType
  <2> QED
    BY <1>7, <2>2, InodesFinite
<1>9. i # 0
  BY InodesFinite
<1>10. (\A m \in Names : lockfile[m] # i) /\ (\A q \in Procs : fd_lock[q] # i)
  BY <1>8, <1>9 DEF used
<1> QED
  BY <1>10 DEF Fresh

\* At first nobody has started.
LEMMA LockInit == ASSUME SocketLockAssumption, Init PROVE Inv
<1>1. 0 \in Names /\ 0 \in 0..MaxStarts
  BY DEF Names, SocketLockAssumption
<1>2. TypeOK
  BY <1>1 DEF Init, TypeOK, Steps
<1>3. LockFilesKept
  BY DEF Init, LockFilesKept, Opened, Holding
<1> QED
  BY <1>2, <1>3 DEF Init, Inv, LockedByUser, OneOwner, PathFree

\* Two processes that have a lock do not have it of one name.
LEMMA LockExclusive ==
  ASSUME SocketLockAssumption, OrderlyOrFew, Inv, NEW p \in Procs, NEW q \in Procs, p # q,
         pc[p] \in Opened \cap Holding, pc[q] \in Opened \cap Holding
  PROVE  name[p] # name[q]
<1>1. MayUse(p) /\ MayUse(q)
  BY DEF MayUse
<1>2. Orderly => \A r \in Procs : r = p \/ r = q
  BY DEF OrderlyOrFew
<1>3. fd_lock[p] = lockfile[name[p]] /\ fd_lock[q] = lockfile[name[q]]
  BY <1>1, <1>2 DEF Inv, LockFilesKept
<1>4. locked[fd_lock[p]] = p /\ locked[fd_lock[q]] = q
  BY DEF Inv, LockFilesKept
<1> QED
  BY <1>3, <1>4

\* A step of a process that has its lock, with its socket: the lock files stay as they are.
LEMMA LockStep ==
  ASSUME SocketLockAssumption, OrderlyOrFew, Inv, NEW p \in Procs,
         pc[p] \in Opened \cap Holding, NEW s \in Opened \cap Holding,
         s \in {"gone1", "gone2"} => Orderly,
         pc' = [pc EXCEPT ![p] = s],
         UNCHANGED <<name, auto, fd_lock, lockfile, locked, starts>>,
         sockfile' \in [Names -> Procs \cup {None, Stale}]
  PROVE  TypeOK' /\ LockFilesKept' /\ LockedByUser'
<1>1. TypeOK /\ LockFilesKept /\ LockedByUser
  BY DEF Inv
<1>2. s \in Steps /\ pc \in [Procs -> Steps]
  BY <1>1 DEF Opened, Steps, TypeOK
<1>3. TypeOK'
  BY <1>1, <1>2 DEF TypeOK
<1>4. pc'[p] = s /\ \A q \in Procs \ {p} : pc'[q] = pc[q]
  BY <1>2
<1>5. \A q \in Procs : MayUse(q)' => MayUse(q)
  BY <1>4 DEF MayUse
<1>6. \A q \in Procs : (pc'[q] \in Opened <=> pc[q] \in Opened) /\ (pc'[q] \in Holding <=> pc[q] \in Holding)
  BY <1>4
<1>7. s # "gone3" /\ s # "idle" /\ pc[p] # "idle"
  BY DEF Opened
<1>8. LockFilesKept'
  BY <1>1, <1>4, <1>5, <1>6, <1>7 DEF LockFilesKept
<1>9. LockedByUser'
  BY <1>1, <1>4, <1>6 DEF LockedByUser, Holding, TypeOK
<1> QED
  BY <1>3, <1>8, <1>9

\* stat() finds what was left behind, and bind follows only if nothing was.
LEMMA LockStat ==
  ASSUME SocketLockAssumption, OrderlyOrFew, Inv, NEW p \in Procs, Stat(p) PROVE Inv'
<1> DEFINE s == IF LeftBehind(p) THEN "unlink" ELSE "bind"
<1>1. /\ pc[p] = "stat" /\ pc' = [pc EXCEPT ![p] = s]
      /\ UNCHANGED <<name, auto, fd_lock, lockfile, locked, sockfile, starts>>
  BY DEF Stat, Goto, files
<1>2. TypeOK /\ OneOwner /\ PathFree
  BY DEF Inv
<1>3. s \in {"unlink", "bind"} /\ (s = "bind" => sockfile[name[p]] = None)
  BY DEF LeftBehind
<1> HIDE DEF s
<1>4. TypeOK' /\ LockFilesKept' /\ LockedByUser'
  <2>1. sockfile' \in [Names -> Procs \cup {None, Stale}]
    BY <1>1, <1>2 DEF TypeOK
  <2> QED
    BY <1>1, <1>3, <2>1, LockStep DEF Opened, Holding
<1>5. pc'[p] = s /\ \A q \in Procs \ {p} : pc'[q] = pc[q]
  BY <1>1, <1>2 DEF TypeOK
<1>6. OneOwner' /\ PathFree'
  BY <1>1, <1>2, <1>3, <1>5 DEF OneOwner, PathFree
<1> QED
  BY <1>4, <1>6 DEF Inv

\* unlink() takes the path from nobody that serves: it follows the lock.
LEMMA LockUnlink ==
  ASSUME SocketLockAssumption, OrderlyOrFew, Inv, NEW p \in Procs,
         Unlink(p) \/ UnlinkSocket(p)
  PROVE Inv'
<1> DEFINE s == IF pc[p] = "unlink" THEN "bind" ELSE "gone2"
<1>1. /\ pc[p] \in {"unlink", "gone1"} /\ pc' = [pc EXCEPT ![p] = s]
      /\ sockfile' = [sockfile EXCEPT ![name[p]] = None]
      /\ UNCHANGED <<name, auto, fd_lock, lockfile, locked, starts>>
  BY DEF Unlink, UnlinkSocket, Goto
<1>2. TypeOK /\ OneOwner /\ PathFree /\ LockFilesKept
  BY DEF Inv
<1>3. s \in {"bind", "gone2"} /\ (s = "gone2" => Orderly)
  BY <1>1, <1>2 DEF LockFilesKept
<1> HIDE DEF s
<1>4. name \in [Procs -> Names] /\ sockfile \in [Names -> Procs \cup {None, Stale}] /\ pc \in [Procs -> Steps]
  BY <1>2 DEF TypeOK
<1>5. TypeOK' /\ LockFilesKept' /\ LockedByUser'
  <2>1. sockfile' \in [Names -> Procs \cup {None, Stale}]
    BY <1>1, <1>4
  <2> QED
    BY <1>1, <1>3, <2>1, LockStep DEF Opened, Holding
<1>6. pc'[p] = s /\ \A q \in Procs \ {p} : pc'[q] = pc[q]
  BY <1>1, <1>4
<1>7. \A q \in Procs \ {p} : pc[q] \in {"serving", "bind"} => name[p] # name[q]
  BY <1>1, LockExclusive DEF Opened, Holding
<1>8. sockfile'[name[p]] = None /\ \A q \in Procs : name[q] # name[p] => sockfile'[name[q]] = sockfile[name[q]]
  BY <1>1, <1>4
<1>9. OneOwner' /\ PathFree'
  BY <1>1, <1>2, <1>3, <1>6, <1>7, <1>8 DEF OneOwner, PathFree
<1> QED
  BY <1>5, <1>9 DEF Inv

\* bind() finds the path free, and it was nobody else's.
LEMMA LockBind ==
  ASSUME SocketLockAssumption, OrderlyOrFew, Inv, NEW p \in Procs, Bind(p) PROVE Inv'
<1>1. TypeOK /\ OneOwner /\ PathFree
  BY DEF Inv
<1>2. /\ pc[p] = "bind" /\ sockfile[name[p]] = None /\ pc' = [pc EXCEPT ![p] = "serving"]
      /\ sockfile' = [sockfile EXCEPT ![name[p]] = p]
      /\ UNCHANGED <<name, auto, fd_lock, lockfile, locked, starts>>
  BY <1>1 DEF Bind, Goto, PathFree
<1>4. name \in [Procs -> Names] /\ sockfile \in [Names -> Procs \cup {None, Stale}] /\ pc \in [Procs -> Steps]
  BY <1>1 DEF TypeOK
<1>5. TypeOK' /\ LockFilesKept' /\ LockedByUser'
  <2>1. sockfile' \in [Names -> Procs \cup {None, Stale}]
    BY <1>2, <1>4
  <2> QED
    BY <1>2, <2>1, LockStep DEF Opened, Holding
<1>6. pc'[p] = "serving" /\ \A q \in Procs \ {p} : pc'[q] = pc[q]
  BY <1>2, <1>4
<1>7. \A q \in Procs \ {p} : pc[q] \in {"serving", "bind"} => name[p] # name[q]
  BY <1>2, LockExclusive DEF Opened, Holding
<1>8. sockfile'[name[p]] = p /\ \A q \in Procs : name[q] # name[p] => sockfile'[name[q]] = sockfile[name[q]]
  BY <1>2, <1>4
<1>9. OneOwner' /\ PathFree'
  BY <1>1, <1>2, <1>6, <1>7, <1>8 DEF OneOwner, PathFree
<1> QED
  BY <1>5, <1>9 DEF Inv

\* An orderly end leaves the path to nobody.
LEMMA LockGivenUp ==
  ASSUME SocketLockAssumption, OrderlyOrFew, Inv, NEW p \in Procs,
         BindFails(p) \/ Destroy(p)
  PROVE  Inv'
<1>1. /\ Orderly /\ pc[p] \in {"bind", "serving"} /\ pc' = [pc EXCEPT ![p] = "gone1"]
      /\ UNCHANGED <<name, auto, fd_lock, lockfile, locked, sockfile, starts>>
  BY DEF BindFails, Destroy, Goto, files
<1>2. TypeOK /\ OneOwner /\ PathFree
  BY DEF Inv
<1>3. TypeOK' /\ LockFilesKept' /\ LockedByUser'
  <2>1. sockfile' \in [Names -> Procs \cup {None, Stale}]
    BY <1>1, <1>2 DEF TypeOK
  <2> QED
    BY <1>1, <2>1, LockStep DEF Opened, Holding
<1>4. pc'[p] = "gone1" /\ \A q \in Procs \ {p} : pc'[q] = pc[q]
  BY <1>1, <1>2 DEF TypeOK
<1>5. OneOwner' /\ PathFree'
  BY <1>1, <1>2, <1>4 DEF OneOwner, PathFree
<1> QED
  BY <1>3, <1>5 DEF Inv

\* A process that starts has nothing open.
LEMMA LockStart ==
  ASSUME SocketLockAssumption, OrderlyOrFew, Inv, NEW p \in Procs, NEW n \in Names,
         NEW a \in BOOLEAN, Start(p, n, a)
  PROVE  Inv'
<1>1. /\ pc[p] = "idle" /\ starts[p] < MaxStarts /\ pc' = [pc EXCEPT ![p] = "open"]
      /\ name' = [name EXCEPT ![p] = n] /\ auto' = [auto EXCEPT ![p] = a]
      /\ starts' = [starts EXCEPT ![p] = starts[p] + 1]
      /\ UNCHANGED <<fd_lock, lockfile, locked, sockfile>>
  BY DEF Start, Goto, files
<1>2. TypeOK /\ OneOwner /\ PathFree /\ LockFilesKept /\ LockedByUser
  BY DEF Inv
<1>3. /\ name \in [Procs -> Names] /\ auto \in [Procs -> BOOLEAN] /\ pc \in [Procs -> Steps]
      /\ starts \in [Procs -> 0..MaxStarts] /\ MaxStarts \in Nat
  BY <1>2 DEF TypeOK, SocketLockAssumption
<1>4. /\ pc'[p] = "open" /\ name'[p] = n /\ starts'[p] = starts[p] + 1 /\ starts'[p] # 0
      /\ \A q \in Procs \ {p} : pc'[q] = pc[q] /\ name'[q] = name[q] /\ starts'[q] = starts[q]
  BY <1>1, <1>3
<1>5. TypeOK'
  <2>1. pc' \in [Procs -> Steps] /\ name' \in [Procs -> Names] /\ auto' \in [Procs -> BOOLEAN]
    BY <1>1, <1>3 DEF Steps
  <2>2. starts' \in [Procs -> 0..MaxStarts]
    BY <1>1, <1>3
  <2> QED
    BY <1>1, <1>2, <2>1, <2>2 DEF TypeOK
<1>6. Orderly => \A q \in Procs : MayUse(q)' => MayUse(q)
  <2>1. Orderly => starts[p] = 0
    BY <1>1, <1>3 DEF OrderlyOrFew
  <2> QED
    BY <1>4, <2>1 DEF MayUse
<1>7. LockFilesKept'
  <2>1. pc'[p] \notin Opened \cup Holding /\ pc[p] \notin Opened \cup Holding
    BY <1>1, <1>4 DEF Opened, Holding
  <2> QED
    BY <1>1, <1>2, <1>4, <1>6, <2>1 DEF LockFilesKept
<1>8. LockedByUser'
  <2>1. ASSUME NEW i \in Inodes, locked[i] # None PROVE locked[i] \in Procs \ {p}
    BY <1>1, <1>2, <2>1 DEF LockedByUser, TypeOK
  <2> QED
    BY <1>1, <1>2, <1>4, <2>1 DEF LockedByUser
<1>9. OneOwner' /\ PathFree'
  BY <1>1, <1>2, <1>4 DEF OneOwner, PathFree
<1> QED
  BY <1>2, <1>5, <1>7, <1>8, <1>9 DEF Inv

\* open(O_CREAT) gives the inode that the path names, or a fresh one.
LEMMA LockOpenLock ==
  ASSUME SocketLockAssumption, OrderlyOrFew, Inv, NEW p \in Procs, OpenLock(p) PROVE Inv'
<1> DEFINE inode == IF lockfile[name[p]] = 0 THEN Fresh ELSE lockfile[name[p]]
<1>1. /\ pc[p] = "open" /\ pc' = [pc EXCEPT ![p] = "flock"]
      /\ lockfile' = [lockfile EXCEPT ![name[p]] = inode]
      /\ fd_lock' = [fd_lock EXCEPT ![p] = inode]
      /\ UNCHANGED <<name, auto, locked, sockfile, starts>>
  BY DEF OpenLock, Goto
<1>2. TypeOK /\ OneOwner /\ PathFree /\ LockFilesKept /\ LockedByUser
  BY DEF Inv
<1>3. /\ name \in [Procs -> Names] /\ pc \in [Procs -> Steps]
      /\ fd_lock \in [Procs -> {0} \cup Inodes] /\ lockfile \in [Names -> {0} \cup Inodes]
      /\ locked \in [Inodes -> Procs \cup {None}]
  BY <1>2 DEF TypeOK
<1>4. fd_lock[p] = 0
  BY <1>1, <1>2 DEF LockFilesKept, Opened, Holding
<1>5. /\ inode \in Inodes /\ inode # 0
      /\ lockfile[name[p]] # 0 => inode = lockfile[name[p]]
      /\ lockfile[name[p]] = 0 => /\ \A m \in Names : lockfile[m] # inode
                                /\ \A q \in Procs : fd_lock[q] # inode
  BY <1>2, <1>3, <1>4, FreshInode, InodesFinite
<1> HIDE DEF inode
<1>6. /\ pc'[p] = "flock" /\ fd_lock'[p] = inode /\ lockfile'[name[p]] = inode
      /\ \A q \in Procs \ {p} : pc'[q] = pc[q] /\ fd_lock'[q] = fd_lock[q]
      /\ \A m \in Names \ {name[p]} : lockfile'[m] = lockfile[m]
  BY <1>1, <1>3
<1>7. TypeOK'
  BY <1>1, <1>2, <1>3, <1>5 DEF TypeOK, Steps
<1>8. \A q \in Procs : MayUse(q)' => MayUse(q)
  BY <1>1, <1>6 DEF MayUse
<1>9. LockFilesKept'
  <2>1. \A q \in Procs : /\ fd_lock'[q] # 0 <=> pc'[q] \in Opened \cup Holding
                         /\ ~Orderly => pc'[q] \notin {"gone1", "gone2", "gone3"}
                         /\ starts'[q] = 0 => pc'[q] = "idle"
    BY <1>1, <1>2, <1>5, <1>6 DEF LockFilesKept, Opened
  <2>2. \A q \in Procs : pc'[q] \in Holding => locked'[fd_lock'[q]] = q
    BY <1>1, <1>2, <1>6 DEF LockFilesKept, Holding
  <2>3. \A m, n \in Names : lockfile'[m] # 0 /\ lockfile'[m] = lockfile'[n] => m = n
    BY <1>2, <1>3, <1>5, <1>6 DEF LockFilesKept
  <2>4. ASSUME NEW q \in Procs, pc'[q] \in Opened,
               ~Orderly \/ \A r \in Procs \ {q} : MayUse(r)'
        PROVE  fd_lock'[q] = lockfile'[name'[q]]
    <3>1. CASE q = p
      BY <1>1, <1>6, <3>1
    <3>2. CASE q # p
      <4>1. fd_lock[q] = lockfile[name[q]] /\ fd_lock[q] # 0
        BY <1>2, <1>6, <1>8, <2>4, <3>2 DEF LockFilesKept
      <4>2. lockfile'[name[q]] = lockfile[name[q]]
        BY <1>3, <1>5, <1>6, <4>1
      <4> QED
        BY <1>1, <1>6, <3>2, <4>1, <4>2
    <3> QED
      BY <3>1, <3>2
  <2> QED
    BY <2>1, <2>2, <2>3, <2>4 DEF LockFilesKept
<1>10. LockedByUser'
  <2>1. ASSUME NEW i \in Inodes, locked[i] # None PROVE locked[i] \in Procs \ {p}
    BY <1>1, <1>2, <1>3, <2>1 DEF LockedByUser
  <2> QED
    BY <1>1, <1>2, <1>6, <2>1 DEF LockedByUser
<1>11. OneOwner' /\ PathFree'
  BY <1>1, <1>2, <1>6 DEF OneOwner, PathFree
<1> QED
  BY <1>7, <1>9, <1>10, <1>11 DEF Inv

\* flock() gives the lock of an inode that nobody has locked.
LEMMA LockTakeLock ==
  ASSUME SocketLockAssumption, OrderlyOrFew, Inv, NEW p \in Procs, TakeLock(p) PROVE Inv'
<1>1. /\ pc[p] = "flock" /\ pc' = [pc EXCEPT ![p] = "stat"] /\ locked[fd_lock[p]] = None
      /\ locked' = [locked EXCEPT ![fd_lock[p]] = p]
      /\ UNCHANGED <<name, auto, fd_lock, lockfile, sockfile, starts>>
  BY DEF TakeLock, Goto, LockGranted
<1>2. TypeOK /\ OneOwner /\ PathFree /\ LockFilesKept /\ LockedByUser
  BY DEF Inv
<1>3. /\ pc \in [Procs -> Steps] /\ fd_lock \in [Procs -> {0} \cup Inodes]
      /\ locked \in [Inodes -> Procs \cup {None}]
  BY <1>2 DEF TypeOK
<1>4. fd_lock[p] \in Inodes
  BY <1>1, <1>2, <1>3 DEF LockFilesKept, Opened
<1>5. /\ pc'[p] = "stat" /\ locked'[fd_lock[p]] = p
      /\ \A q \in Procs \ {p} : pc'[q] = pc[q]
      /\ \A i \in Inodes \ {fd_lock[p]} : locked'[i] = locked[i]
  BY <1>1, <1>3, <1>4
<1>6. TypeOK'
  BY <1>1, <1>2, <1>3, <1>4 DEF TypeOK, Steps
<1>7. \A q \in Procs : MayUse(q)' => MayUse(q)
  BY <1>1, <1>5 DEF MayUse, Opened
<1>8. LockFilesKept'
  <2>1. \A q \in Procs : /\ fd_lock'[q] # 0 <=> pc'[q] \in Opened \cup Holding
                         /\ ~Orderly => pc'[q] \notin {"gone1", "gone2", "gone3"}
                         /\ starts'[q] = 0 => pc'[q] = "idle"
    BY <1>1, <1>2, <1>5 DEF LockFilesKept, Opened
  <2>2. \A q \in Procs : pc'[q] \in Holding => locked'[fd_lock'[q]] = q
    <3>1. ASSUME NEW q \in Procs \ {p}, pc[q] \in Holding PROVE fd_lock[q] \in Inodes \ {fd_lock[p]} /\ locked[fd_lock[q]] = q
      BY <1>1, <1>2, <1>3, <3>1 DEF LockFilesKept, SocketLockAssumption
    <3> QED
      BY <1>1, <1>5, <3>1
  <2>3. \A m, n \in Names : lockfile'[m] # 0 /\ lockfile'[m] = lockfile'[n] => m = n
    BY <1>1, <1>2 DEF LockFilesKept
  <2>4. \A q \in Procs : pc'[q] \in Opened /\ (~Orderly \/ \A r \in Procs \ {q} : MayUse(r)')
            => fd_lock'[q] = lockfile'[name'[q]]
    BY <1>1, <1>2, <1>5, <1>7 DEF LockFilesKept, Opened
  <2> QED
    BY <2>1, <2>2, <2>3, <2>4 DEF LockFilesKept
<1>9. LockedByUser'
  <2>1. ASSUME NEW i \in Inodes, locked'[i] # None
        PROVE  fd_lock'[locked'[i]] = i /\ pc'[locked'[i]] \in Holding
    <3>1. CASE i = fd_lock[p]
      BY <1>1, <1>5, <3>1 DEF Holding
    <3>2. CASE i # fd_lock[p]
      <4>1. locked'[i] = locked[i] /\ locked[i] \in Procs
        BY <1>3, <1>5, <2>1, <3>2
      <4>2. fd_lock[locked[i]] = i /\ pc[locked[i]] \in Holding
        BY <1>2, <2>1, <4>1 DEF LockedByUser, Holding
      <4> QED
        BY <1>1, <1>5, <3>2, <4>1, <4>2
    <3> QED
      BY <3>1, <3>2
  <2> QED
    BY <2>1 DEF LockedByUser, Holding
<1>10. OneOwner' /\ PathFree'
  BY <1>1, <1>2, <1>5 DEF OneOwner, PathFree
<1> QED
  BY <1>6, <1>8, <1>9, <1>10 DEF Inv

\* A process that is refused the lock closes the file and leaves the path.
LEMMA LockLockRefused ==
  ASSUME SocketLockAssumption, OrderlyOrFew, Inv, NEW p \in Procs, LockRefused(p) PROVE Inv'
<1> DEFINE s == Tried(p)
           n == IF Tried(p) = "open" THEN name[p] + 1 ELSE name[p]
<1>1. /\ pc[p] = "flock" /\ pc' = [pc EXCEPT ![p] = s] /\ fd_lock' = [fd_lock EXCEPT ![p] = 0]
      /\ name' = [name EXCEPT ![p] = n]
      /\ UNCHANGED <<auto, lockfile, locked, sockfile, starts>>
  BY DEF LockRefused, Goto, files
<1>2. TypeOK /\ OneOwner /\ PathFree /\ LockFilesKept /\ LockedByUser
  BY DEF Inv
<1>3. /\ pc \in [Procs -> Steps] /\ fd_lock \in [Procs -> {0} \cup Inodes]
      /\ name \in [Procs -> Names] /\ locked \in [Inodes -> Procs \cup {None}]
  BY <1>2 DEF TypeOK
<1>4. s \in {"idle", "open", "exhausted"} /\ n \in Names
  <2>1. name[p] \in 0..MaxDisplayno /\ MaxDisplayno \in Nat
    BY <1>3 DEF Names, SocketLockAssumption
  <2>2. s \in {"idle", "open", "exhausted"} /\ (s = "open" => name[p] < MaxDisplayno)
    BY DEF Tried
  <2> QED
    BY <2>1, <2>2 DEF Names
<1> HIDE DEF s, n
<1>5. /\ pc'[p] = s /\ fd_lock'[p] = 0 /\ name'[p] = n
      /\ \A q \in Procs \ {p} : pc'[q] = pc[q] /\ fd_lock'[q] = fd_lock[q] /\ name'[q] = name[q]
  BY <1>1, <1>3
<1>6. TypeOK'
  BY <1>1, <1>2, <1>3, <1>4 DEF TypeOK, Steps
<1>7. \A q \in Procs : MayUse(q)' => MayUse(q)
  BY <1>1, <1>5 DEF MayUse, Opened
<1>8. starts[p] # 0
  BY <1>1, <1>2 DEF LockFilesKept
<1>9. LockFilesKept'
  <2>1. s \notin Opened \cup Holding /\ s \notin {"gone1", "gone2", "gone3"}
    BY <1>4 DEF Opened, Holding
  <2>2. \A q \in Procs : /\ fd_lock'[q] # 0 <=> pc'[q] \in Opened \cup Holding
                         /\ ~Orderly => pc'[q] \notin {"gone1", "gone2", "gone3"}
                         /\ starts'[q] = 0 => pc'[q] = "idle"
    BY <1>1, <1>2, <1>5, <1>8, <2>1 DEF LockFilesKept
  <2>3. \A q \in Procs : pc'[q] \in Holding => locked'[fd_lock'[q]] = q
    BY <1>1, <1>2, <1>5, <2>1 DEF LockFilesKept
  <2>4. \A m, k \in Names : lockfile'[m] # 0 /\ lockfile'[m] = lockfile'[k] => m = k
    BY <1>1, <1>2 DEF LockFilesKept
  <2>5. \A q \in Procs : pc'[q] \in Opened /\ (~Orderly \/ \A r \in Procs \ {q} : MayUse(r)')
            => fd_lock'[q] = lockfile'[name'[q]]
    BY <1>1, <1>2, <1>5, <1>7, <2>1 DEF LockFilesKept
  <2> QED
    BY <2>2, <2>3, <2>4, <2>5 DEF LockFilesKept
<1>10. LockedByUser'
  <2>1. ASSUME NEW i \in Inodes, locked[i] # None PROVE locked[i] \in Procs \ {p}
    BY <1>1, <1>2, <1>3, <2>1 DEF LockedByUser
  <2> QED
    BY <1>1, <1>2, <1>5, <2>1 DEF LockedByUser
<1>11. OneOwner' /\ PathFree'
  BY <1>1, <1>2, <1>4, <1>5 DEF OneOwner, PathFree
<1> QED
  BY <1>6, <1>9, <1>10, <1>11 DEF Inv

\* The lock file is removed by who will not open it again, nor the other of two.
LEMMA LockUnlinkLock ==
  ASSUME SocketLockAssumption, OrderlyOrFew, Inv, NEW p \in Procs, UnlinkLock(p) PROVE Inv'
<1>1. /\ pc[p] = "gone2" /\ pc' = [pc EXCEPT ![p] = "gone3"]
      /\ lockfile' = [lockfile EXCEPT ![name[p]] = 0]
      /\ UNCHANGED <<name, auto, fd_lock, locked, sockfile, starts>>
  BY DEF UnlinkLock, Goto
<1>2. TypeOK /\ OneOwner /\ PathFree /\ LockFilesKept /\ LockedByUser
  BY DEF Inv
<1>3. /\ pc \in [Procs -> Steps] /\ name \in [Procs -> Names] /\ lockfile \in [Names -> {0} \cup Inodes]
  BY <1>2 DEF TypeOK
<1>4. /\ pc'[p] = "gone3" /\ lockfile'[name[p]] = 0
      /\ \A q \in Procs \ {p} : pc'[q] = pc[q]
      /\ \A m \in Names \ {name[p]} : lockfile'[m] = lockfile[m]
  BY <1>1, <1>3
<1>5. TypeOK'
  BY <1>1, <1>2, <1>3 DEF TypeOK, Steps
<1>6. Orderly /\ starts[p] # 0
  BY <1>1, <1>2 DEF LockFilesKept
<1>7. ~MayUse(p)'
  BY <1>1, <1>4, <1>6 DEF MayUse, Opened
<1>8. LockFilesKept'
  <2>1. \A q \in Procs : /\ fd_lock'[q] # 0 <=> pc'[q] \in Opened \cup Holding
                         /\ ~Orderly => pc'[q] \notin {"gone1", "gone2", "gone3"}
                         /\ starts'[q] = 0 => pc'[q] = "idle"
    BY <1>1, <1>2, <1>4, <1>6 DEF LockFilesKept, Opened, Holding
  <2>2. \A q \in Procs : pc'[q] \in Holding => locked'[fd_lock'[q]] = q
    BY <1>1, <1>2, <1>4 DEF LockFilesKept, Holding
  <2>3. \A m, n \in Names : lockfile'[m] # 0 /\ lockfile'[m] = lockfile'[n] => m = n
    BY <1>2, <1>3, <1>4 DEF LockFilesKept
  <2>4. \A q \in Procs : pc'[q] \in Opened /\ (~Orderly \/ \A r \in Procs \ {q} : MayUse(r)')
            => fd_lock'[q] = lockfile'[name'[q]]
    BY <1>4, <1>6, <1>7 DEF Opened
  <2> QED
    BY <2>1, <2>2, <2>3, <2>4 DEF LockFilesKept
<1>9. LockedByUser'
  BY <1>1, <1>2, <1>4 DEF LockedByUser, TypeOK
<1>10. OneOwner' /\ PathFree'
  BY <1>1, <1>2, <1>4 DEF OneOwner, PathFree
<1> QED
  BY <1>5, <1>8, <1>9, <1>10 DEF Inv

\* close() or the death of the process ends its lock.
LEMMA LockEnd ==
  ASSUME SocketLockAssumption, OrderlyOrFew, Inv, NEW p \in Procs,
         CloseLock(p) \/ Crash(p)
  PROVE  Inv'
<1>1. /\ pc[p] \notin {"idle", "exhausted"} /\ pc' = [pc EXCEPT ![p] = "idle"]
      /\ locked' = Released(p) /\ fd_lock' = [fd_lock EXCEPT ![p] = 0]
      /\ UNCHANGED <<name, auto, lockfile, starts>>
      /\ \/ UNCHANGED sockfile
         \/ sockfile' = [n \in Names |-> IF sockfile[n] = p THEN Stale ELSE sockfile[n]]
  BY DEF CloseLock, Crash, Goto
<1>2. TypeOK /\ OneOwner /\ PathFree /\ LockFilesKept /\ LockedByUser
  BY DEF Inv
<1>3. /\ pc \in [Procs -> Steps] /\ fd_lock \in [Procs -> {0} \cup Inodes]
      /\ name \in [Procs -> Names] /\ locked \in [Inodes -> Procs \cup {None}]
      /\ sockfile \in [Names -> Procs \cup {None, Stale}]
      /\ None \notin Procs /\ Stale \notin Procs /\ None # Stale
  BY <1>2 DEF TypeOK, SocketLockAssumption
<1>4. /\ pc'[p] = "idle" /\ fd_lock'[p] = 0
      /\ \A q \in Procs \ {p} : pc'[q] = pc[q] /\ fd_lock'[q] = fd_lock[q]
      /\ \A i \in Inodes : locked'[i] = IF locked[i] = p THEN None ELSE locked[i]
  BY <1>1, <1>3 DEF Released
<1>5. \A n \in Names : /\ sockfile'[n] \in Procs \cup {None, Stale}
                       /\ sockfile[n] = None => sockfile'[n] = None
                       /\ \A q \in Procs \ {p} : sockfile[n] = q => sockfile'[n] = q
  BY <1>1, <1>3
<1>6. TypeOK'
  <2>1. sockfile' \in [Names -> Procs \cup {None, Stale}]
    BY <1>1, <1>3
  <2>2. locked' \in [Inodes -> Procs \cup {None}]
    BY <1>1, <1>3 DEF Released
  <2>3. pc' \in [Procs -> Steps] /\ fd_lock' \in [Procs -> {0} \cup Inodes]
    BY <1>1, <1>3 DEF Steps
  <2> QED
    BY <1>1, <1>2, <2>1, <2>2, <2>3 DEF TypeOK
<1>7. starts[p] # 0
  BY <1>1, <1>2 DEF LockFilesKept
<1>8. ~MayUse(p)'
  BY <1>1, <1>4, <1>7 DEF MayUse, Opened
<1>9. LockFilesKept'
  <2>1. "idle" \notin Opened \cup Holding
    BY DEF Opened, Holding
  <2>2. \A q \in Procs : /\ fd_lock'[q] # 0 <=> pc'[q] \in Opened \cup Holding
                         /\ ~Orderly => pc'[q] \notin {"gone1", "gone2", "gone3"}
                         /\ starts'[q] = 0 => pc'[q] = "idle"
    BY <1>1, <1>2, <1>4, <1>7, <2>1 DEF LockFilesKept
  <2>3. ASSUME NEW q \in Procs, pc'[q] \in Holding PROVE locked'[fd_lock'[q]] = q
    <3>1. q # p /\ fd_lock'[q] = fd_lock[q] /\ locked[fd_lock[q]] = q /\ fd_lock[q] \in Inodes
      BY <1>2, <1>3, <1>4, <2>1, <2>3 DEF LockFilesKept
    <3> QED
      BY <1>4, <3>1
  <2>4. \A m, n \in Names : lockfile'[m] # 0 /\ lockfile'[m] = lockfile'[n] => m = n
    BY <1>1, <1>2 DEF LockFilesKept
  <2>5. ASSUME NEW q \in Procs, pc'[q] \in Opened, ~Orderly \/ \A r \in Procs \ {q} : MayUse(r)'
        PROVE  fd_lock'[q] = lockfile'[name'[q]]
    <3>1. q # p
      BY <1>4, <2>1, <2>5
    <3>2. ~Orderly
      BY <1>8, <2>5, <3>1
    <3> QED
      BY <1>1, <1>2, <1>4, <2>5, <3>1, <3>2 DEF LockFilesKept
  <2> QED
    BY <2>2, <2>3, <2>4, <2>5 DEF LockFilesKept
<1>10. LockedByUser'
  <2>1. ASSUME NEW i \in Inodes, locked'[i] # None
        PROVE  locked'[i] = locked[i] /\ locked[i] \in Procs \ {p} /\ locked[i] # None
    BY <1>3, <1>4, <2>1
  <2> QED
    BY <1>1, <1>2, <1>4, <2>1 DEF LockedByUser
<1>11. OneOwner' /\ PathFree'
  BY <1>1, <1>2, <1>3, <1>4, <1>5 DEF OneOwner, PathFree
<1> QED
  BY <1>6, <1>9, <1>10, <1>11 DEF Inv

\* Every step keeps the inductive invariant.
LEMMA LockNext ==
  ASSUME SocketLockAssumption, OrderlyOrFew, Inv, [Next]_vars PROVE Inv'
<1>1. CASE UNCHANGED vars
  <2>1. TypeOK' /\ LockFilesKept'
    BY <1>1 DEF vars, Inv, TypeOK, LockFilesKept, MayUse
  <2> QED
    BY <1>1, <2>1 DEF vars, Inv, LockedByUser, OneOwner, PathFree
<1>2. CASE Next
  BY <1>2, LockStart, LockOpenLock, LockTakeLock, LockLockRefused, LockStat, LockUnlink,
     LockBind, LockGivenUp, LockUnlinkLock, LockEnd DEF Next
<1> QED
  BY <1>1, <1>2

\* One compositor owns a socket's path and bind finds it free, however many are started,
\* killed and started again; with orderly ends, for two that are started once.
THEOREM LockHolds ==
  ASSUME SocketLockAssumption, OrderlyOrFew PROVE Spec => []Inv
BY LockInit, LockNext, PTL DEF Spec

\* Who has come past the lock, or has ended, keeps its name.
LEMMA SettledStays ==
  ASSUME SocketLockAssumption, MaxStarts = 1, TypeOK, [Next]_vars, NEW q \in Procs, Settled(q)
  PROVE  Settled(q)' /\ name'[q] = name[q]
<1>1. /\ pc \in [Procs -> Steps] /\ name \in [Procs -> Names] /\ starts \in [Procs -> 0..MaxStarts]
      /\ starts[q] = 1 /\ pc[q] \notin {"open", "flock", "exhausted"}
  BY DEF TypeOK, Settled
<1>2. CASE UNCHANGED vars
  BY <1>1, <1>2 DEF vars, Settled
<1>3. ASSUME NEW p \in Procs, NEW n \in Names, NEW a \in BOOLEAN, Start(p, n, a)
      PROVE  Settled(q)' /\ name'[q] = name[q]
  <2>1. p # q
    BY <1>1, <1>3 DEF Start
  <2> QED
    BY <1>1, <1>3, <2>1 DEF Start, Goto, Settled
<1>4. ASSUME NEW p \in Procs, OpenLock(p) \/ TakeLock(p) \/ LockRefused(p)
      PROVE  Settled(q)' /\ name'[q] = name[q]
  <2>1. p # q
    BY <1>1, <1>4 DEF OpenLock, TakeLock, LockRefused
  <2> QED
    BY <1>1, <1>4, <2>1 DEF OpenLock, TakeLock, LockRefused, Goto, Settled
<1>5. ASSUME NEW p \in Procs,
             Stat(p) \/ Unlink(p) \/ Bind(p) \/ BindFails(p) \/ Destroy(p) \/ UnlinkSocket(p)
               \/ UnlinkLock(p) \/ CloseLock(p) \/ Crash(p)
      PROVE  Settled(q)' /\ name'[q] = name[q]
  <2>1. /\ name' = name /\ starts' = starts
        /\ \E s \in Steps : pc' = [pc EXCEPT ![p] = s] /\ s \notin {"open", "flock", "exhausted"}
    BY <1>5 DEF Stat, Unlink, Bind, BindFails, Destroy, UnlinkSocket, UnlinkLock, CloseLock, Crash, Goto, Steps
  <2> QED
    BY <1>1, <2>1 DEF Settled
<1> QED
  BY <1>2, <1>3, <1>4, <1>5 DEF Next

\* Who tries a name has tried it before, has just been started, or has been refused another.
LEMMA TriesNext ==
  ASSUME SocketLockAssumption, TypeOK, [Next]_vars, NEW p \in Procs,
         pc'[p] \in {"open", "flock", "exhausted"}
  PROVE  \/ /\ pc[p] = "exhausted" <=> pc'[p] = "exhausted"
            /\ pc[p] \in {"open", "flock", "exhausted"} /\ name'[p] = name[p] /\ auto'[p] = auto[p]
         \/ pc'[p] = "open" /\ (auto'[p] => name'[p] = 0)
         \/ LockRefused(p)
<1>1. /\ pc \in [Procs -> Steps] /\ name \in [Procs -> Names] /\ auto \in [Procs -> BOOLEAN]
  BY DEF TypeOK
<1>2. CASE UNCHANGED vars
  BY <1>1, <1>2 DEF vars
<1>3. ASSUME NEW r \in Procs, NEW n \in Names, NEW a \in BOOLEAN, Start(r, n, a)
      PROVE  \/ /\ pc'[p] = pc[p] /\ name'[p] = name[p] /\ auto'[p] = auto[p]
             \/ pc'[p] = "open" /\ (auto'[p] => name'[p] = 0)
  BY <1>1, <1>3 DEF Start, Goto
<1>4. ASSUME NEW r \in Procs, r # p, LockRefused(r)
      PROVE  pc'[p] = pc[p] /\ name'[p] = name[p] /\ auto'[p] = auto[p]
  BY <1>1, <1>4 DEF LockRefused, Goto
<1>5. ASSUME NEW r \in Procs, OpenLock(r)
      PROVE  /\ pc'[p] = pc[p] \/ (pc[p] = "open" /\ pc'[p] = "flock")
             /\ name'[p] = name[p] /\ auto'[p] = auto[p]
  BY <1>1, <1>5 DEF OpenLock, Goto
<1>6. ASSUME NEW r \in Procs,
             TakeLock(r) \/ Stat(r) \/ Unlink(r) \/ Bind(r) \/ BindFails(r) \/ Destroy(r) \/ UnlinkSocket(r)
               \/ UnlinkLock(r) \/ CloseLock(r) \/ Crash(r)
      PROVE  pc'[p] = pc[p] /\ name'[p] = name[p] /\ auto'[p] = auto[p]
  <2>1. /\ name' = name /\ auto' = auto
        /\ \E s \in Steps : pc' = [pc EXCEPT ![r] = s] /\ s \notin {"open", "flock", "exhausted"}
    BY <1>6 DEF TakeLock, Stat, Unlink, Bind, BindFails, Destroy, UnlinkSocket, UnlinkLock, CloseLock, Crash, Goto, Steps
  <2> QED
    BY <1>1, <2>1
<1> QED
  BY <1>2, <1>3, <1>4, <1>5, <1>6 DEF Next

\* A name is refused to who finds its lock with another: that one is settled.
LEMMA RefusedBySettled ==
  ASSUME SocketLockAssumption, ~Orderly, MaxStarts = 1, Inv, NEW p \in Procs, LockRefused(p)
  PROVE  \E q \in Procs \ {p} : Settled(q) /\ name[q] = name[p]
<1> DEFINE q == locked[fd_lock[p]]
<1>1. pc[p] = "flock" /\ q # None
  BY DEF LockRefused, LockGranted
<1>2. TypeOK /\ LockFilesKept /\ LockedByUser
  BY DEF Inv
<1>3. fd_lock[p] \in Inodes /\ fd_lock[p] = lockfile[name[p]] /\ fd_lock[p] # 0
  BY <1>1, <1>2 DEF LockFilesKept, TypeOK, Opened
<1>4. q \in Procs
  BY <1>1, <1>2, <1>3 DEF TypeOK
<1>5. fd_lock[q] = fd_lock[p] /\ pc[q] \in Holding
  BY <1>1, <1>2, <1>3 DEF LockedByUser, Holding
<1> HIDE DEF q
<1>6. q # p /\ pc[q] \in Opened
  BY <1>1, <1>2, <1>4, <1>5 DEF LockFilesKept, Holding, Opened
<1>7. name[q] = name[p]
  <2>1. fd_lock[q] = lockfile[name[q]]
    BY <1>2, <1>4, <1>6 DEF LockFilesKept
  <2> QED
    BY <1>2, <1>3, <1>4, <1>5, <2>1 DEF LockFilesKept, TypeOK
<1>8. Settled(q)
  <2>1. starts[q] # 0 /\ starts[q] \in 0..1
    BY <1>2, <1>4, <1>5 DEF LockFilesKept, TypeOK, Holding
  <2> QED
    BY <1>5, <2>1 DEF Settled, Holding
<1> QED
  BY <1>4, <1>6, <1>7, <1>8

\* A process goes on to the next name past one that another keeps.
LEMMA NamesTakenNext ==
  ASSUME SocketLockAssumption, ~Orderly, MaxStarts = 1, Inv, NamesTaken, [Next]_vars
  PROVE  NamesTaken'
<1>1. TypeOK /\ TypeOK'
  BY LockNext DEF Inv, OrderlyOrFew
<1>2. ASSUME NEW p \in Procs, NEW m \in Names,
             \E q \in Procs \ {p} : Settled(q) /\ name[q] = m
      PROVE  \E q \in Procs \ {p} : Settled(q)' /\ name'[q] = m
  BY <1>1, <1>2, SettledStays
<1>3. ASSUME NEW p \in Procs, LockRefused(p)
      PROVE  /\ pc'[p] \in {"open", "exhausted"} => auto[p]
             /\ pc'[p] = "open" => name'[p] = name[p] + 1
             /\ pc'[p] = "exhausted" => name[p] = MaxDisplayno
             /\ auto'[p] = auto[p] /\ pc[p] = "flock" /\ pc'[p] # "flock"
  <2>1. /\ pc \in [Procs -> Steps] /\ name \in [Procs -> Names] /\ name[p] \in 0..MaxDisplayno
        /\ MaxDisplayno \in Nat
    BY <1>1 DEF TypeOK, Names, SocketLockAssumption
  <2>2. pc'[p] = Tried(p) /\ (Tried(p) = "open" => name'[p] = name[p] + 1) /\ auto' = auto /\ pc[p] = "flock"
    BY <1>3, <2>1 DEF LockRefused, Goto
  <2> QED
    BY <2>1, <2>2 DEF Tried
<1>4. ASSUME NEW p \in Procs, auto'[p], pc'[p] \in {"open", "flock"}, NEW m \in Names, m < name'[p]
      PROVE  \E q \in Procs \ {p} : Settled(q)' /\ name'[q] = m
  <2>0. m \in Nat /\ name[p] \in Nat
    BY <1>1 DEF Names, TypeOK
  <2>1. CASE pc[p] \in {"open", "flock"} /\ name'[p] = name[p] /\ auto'[p] = auto[p]
    BY <1>2, <1>4, <2>1 DEF NamesTaken
  <2>2. CASE LockRefused(p)
    <3>1. auto[p] /\ name'[p] = name[p] + 1 /\ pc[p] = "flock"
      BY <1>3, <1>4, <2>2
    <3>2. CASE m = name[p]
      BY <1>2, <2>2, <3>2, RefusedBySettled
    <3>3. CASE m < name[p]
      BY <1>2, <3>1, <3>3 DEF NamesTaken
    <3>4. m = name[p] \/ m < name[p]
      BY <1>4, <2>0, <3>1
    <3> QED
      BY <3>2, <3>3, <3>4
  <2>3. ~(name'[p] = 0)
    BY <1>4, <2>0
  <2> QED
    BY <1>1, <1>4, <2>1, <2>2, <2>3, TriesNext
<1>5. ASSUME NEW p \in Procs, pc'[p] = "exhausted", NEW m \in Names
      PROVE  \E q \in Procs \ {p} : Settled(q)' /\ name'[q] = m
  <2>1. CASE pc[p] = "exhausted"
    BY <1>2, <2>1 DEF NamesTaken
  <2>2. CASE LockRefused(p)
    <3>1. auto[p] /\ name[p] = MaxDisplayno /\ pc[p] = "flock" /\ m \in 0..MaxDisplayno /\ MaxDisplayno \in Nat
      BY <1>3, <1>5, <2>2 DEF Names, SocketLockAssumption
    <3>2. CASE m = name[p]
      BY <1>2, <2>2, <3>2, RefusedBySettled
    <3>3. CASE m < name[p]
      BY <1>2, <3>1, <3>3 DEF NamesTaken
    <3> QED
      BY <3>1, <3>2, <3>3
  <2> QED
    BY <1>1, <1>5, <2>1, <2>2, TriesNext
<1> QED
  BY <1>4, <1>5 DEF NamesTaken

\* Each name belongs to a process of its own, so that as many names are enough.
LEMMA NamesSuffice ==
  ASSUME SocketLockAssumption, TypeOK, NamesTaken PROVE AutoFindsName
<1> SUFFICES ASSUME NEW p \in Procs, pc[p] = "exhausted" PROVE Cardinality(Names) < Cardinality(Procs)
  BY InodesFinite DEF AutoFindsName
<1> DEFINE others == Procs \ {p}
           taken == {name[q] : q \in others}
<1>1. IsFiniteSet(others) /\ Cardinality(others) = Cardinality(Procs) - 1
  BY FS_RemoveElement DEF SocketLockAssumption
<1>2. name \in [Procs -> Nat]
  BY DEF TypeOK, Names
<1>3. IsFiniteSet(taken) /\ Cardinality(taken) <= Cardinality(others) /\ Cardinality(taken) \in Nat
  BY <1>1, <1>2, ImageCardinality
<1>4. Names \subseteq taken
  BY DEF NamesTaken
<1> HIDE DEF taken, others
<1>5. Cardinality(Names) <= Cardinality(taken)
  BY <1>3, <1>4, FS_Subset
<1> QED
  BY <1>1, <1>3, <1>5, InodesFinite

\* wl_display_add_socket_auto() finds a name if there is one for each compositor.
THEOREM AutoHolds ==
  ASSUME SocketLockAssumption, ~Orderly, MaxStarts = 1 PROVE Spec => [](NamesTaken /\ AutoFindsName)
<1>1. OrderlyOrFew
  BY DEF OrderlyOrFew
<1>2. Init => NamesTaken
  BY DEF Init, NamesTaken
<1>3. Inv /\ NamesTaken /\ [Next]_vars => NamesTaken'
  BY NamesTakenNext
<1>4. Inv /\ NamesTaken => AutoFindsName
  BY NamesSuffice DEF Inv
<1> QED
  BY <1>1, <1>2, <1>3, <1>4, LockHolds, PTL DEF Spec

=============================================================================
