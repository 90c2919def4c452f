---------------------------------- MODULE MCServer ----------------------------------
(***************************************************************************)
(* libwayland on the compositor's side: shared memory, the socket and its  *)
(* lock, globals, the life of clients and their resources, and the main    *)
(* loop.  One of the components runs in a behaviour.                       *)
(***************************************************************************)
EXTENDS Integers, Sequences, TLC

CONSTANTS
  Threads, Pools, MaxNest,                             \* of the guard
  Buffers, INT32_MAX, Numbers, MaxRefs,                \* of the pool
  GoodClients, Interfaces, Hidden, Limit, MaxRequests, \* of the globals
  Clients,                                             \* of the globals and the clients
  Ids, MaxDepth,                                       \* of the clients
  p1, p2, p3, c2, i2, None, Stale

VARIABLES
  part,    \* the component that runs in this behaviour
  sigbus_is_impossible, mapping, installed, sigbus_data, access, guard_error,
  killed,
  pool, resource, internal_refcount, external_refcount, size, new_size, data,
  pointer, buffer, fd, asked, legal, referenced, pool_error,
  pc, name, auto, fd_lock, lockfile, locked, sockfile, starts,
  patient, global_list, next_global_name, client, registries, events, requests,
  view, bound,
  state, served_error, display_resource, objects, client_list, tmp_client_list,
  hung, stack,
  run, terminate_efd, main, ready, runs, term, calls

guardVars == <<sigbus_is_impossible, mapping, installed, sigbus_data, access,
  guard_error, killed>>
poolVars == <<pool, resource, internal_refcount, external_refcount, size,
  new_size, data, pointer, buffer, fd, asked, legal, referenced,
  pool_error>>
lockVars == <<pc, name, auto, fd_lock, lockfile, locked, sockfile, starts>>
registryVars == <<patient, global_list, next_global_name, client, registries,
  events, requests, view, bound>>
servedVars == <<state, served_error, display_resource, objects, client_list,
  tmp_client_list, hung, stack>>
runningVars == <<run, terminate_efd, main, ready, runs, term, calls>>

Guard == INSTANCE SigbusGuard WITH
  error <- guard_error
Pool == INSTANCE PoolMapping WITH
  error <- pool_error
Lock == INSTANCE SocketLock WITH
  Procs <- {p1, p2, p3}, MaxDisplayno <- 0, MaxStarts <- 3, Orderly <- FALSE
Numbered == INSTANCE SocketLock WITH
  Procs <- {p1, p2, p3}, MaxDisplayno <- 2, MaxStarts <- 1, Orderly <- FALSE
Orderly == INSTANCE SocketLock WITH
  Procs <- {p1, p2}, MaxDisplayno <- 0, MaxStarts <- 1, Orderly <- TRUE
Registry == INSTANCE Globals
Served == INSTANCE ServerClients WITH
  error <- served_error, Cautious <- TRUE
Erring == INSTANCE ServerClients WITH
  error <- served_error, Ids <- {2}, MaxDepth <- 3, Cautious <- TRUE
Running == INSTANCE DisplayRun WITH
  MaxCalls <- 2, MaxRuns <- 2

\* What the filter hides in the run: one interface from one client.
HiddenFromOne == {<<c2, i2>>}

\* What the client sends of sizes and places in the run, where INT32_MAX is 7.
SentNumbers == {-1, 0, 1, 2, 4, 7}

ASSUME MCServerAssumption ==
  /\ Guard!SigbusGuardAssumption
  /\ Pool!PoolMappingAssumption
  /\ Lock!SocketLockAssumption
  /\ Numbered!SocketLockAssumption
  /\ Orderly!SocketLockAssumption
  /\ Registry!GlobalsAssumption
  /\ Served!ServerClientsAssumption
  /\ Erring!ServerClientsAssumption
  /\ 2 \in Ids /\ MaxDepth >= 3
  /\ Running!DisplayRunAssumption

\* The parts that do not run stand in an initial state.
Init ==
  /\ part \in {"guard", "pool", "lock", "auto", "orderly",
       "registry", "served", "erring", "running"}
  /\ IF part = "guard" THEN Guard!Init ELSE
       /\ sigbus_is_impossible = [p \in Pools |-> FALSE]
       /\ mapping = [p \in Pools |-> "file"]
       /\ installed = FALSE
       /\ sigbus_data = [t \in Threads |-> Guard!NoData]
       /\ access = [t \in Threads |-> <<>>]
       /\ guard_error = [p \in Pools |-> FALSE]
       /\ killed = FALSE
  /\ Pool!Init
  /\ IF part = "auto" THEN Numbered!Init ELSE IF part = "orderly" THEN Orderly!Init ELSE Lock!Init
  /\ Registry!Init /\ (patient => part = "registry")
  /\ IF part = "erring" THEN Erring!Init ELSE Served!Init
  /\ Running!Init

Only(p) ==
  /\ part = p /\ UNCHANGED part
  /\ IF p = "guard" THEN TRUE ELSE UNCHANGED guardVars
  /\ IF p = "pool" THEN TRUE ELSE UNCHANGED poolVars
  /\ IF p \in {"lock", "auto", "orderly"} THEN TRUE ELSE UNCHANGED lockVars
  /\ IF p = "registry" THEN TRUE ELSE UNCHANGED registryVars
  /\ IF p \in {"served", "erring"} THEN TRUE ELSE UNCHANGED servedVars
  /\ IF p = "running" THEN TRUE ELSE UNCHANGED runningVars

Next ==
  \/ Only("guard") /\ Guard!Next
  \/ Only("pool") /\ Pool!Next
  \/ Only("lock") /\ Lock!Next
  \/ Only("auto") /\ Numbered!Next
  \/ Only("orderly") /\ Orderly!Next
  \/ Only("registry") /\ Registry!Next
  \/ Only("served") /\ Served!Next
  \/ Only("erring") /\ Erring!Next
  \/ Only("running") /\ Running!Next

vars == <<part, guardVars, poolVars, lockVars, registryVars, servedVars,
  runningVars>>

Spec == Init /\ [][Next]_vars

ErringFairness ==
  /\ SF_servedVars(part = "erring" /\ Erring!HandlerReturns)
  /\ SF_servedVars(part = "erring" /\ Erring!TimerReturns)
  /\ SF_servedVars(part = "erring" /\ Erring!DestroySignalled)
  /\ SF_servedVars(part = "erring" /\ Erring!ResourceSignalled)
  /\ SF_servedVars(part = "erring" /\ Erring!Free)
  /\ SF_servedVars(part = "erring" /\ Erring!NoMoreRequests)
  /\ WF_servedVars(part = "erring" /\ Erring!DataReturns)
  /\ WF_servedVars(part = "erring" /\ Erring!NextResource)
  /\ WF_servedVars(part = "erring" /\ Erring!AllResourcesDestroyed)
  /\ WF_servedVars(part = "erring" /\ Erring!ResourceRemoved)
  /\ WF_servedVars(part = "erring" /\ Erring!Advance)
  /\ WF_servedVars(part = "erring" /\ Erring!DestroyFirst)
  /\ WF_servedVars(part = "erring" /\ Erring!AllDestroyed)
  /\ WF_servedVars(part = "erring" /\ (Erring!Flushed \/ Erring!FlushFails))
  /\ \A c \in Clients : WF_servedVars(part = "erring" /\
       served_error[c] /\ Erring!HangUp(c))
  /\ \A c \in Clients : SF_servedVars(part = "erring" /\
       c \in hung /\ Erring!ConnectionFails(c))

RunningFairness ==
  /\ WF_runningVars(part = "running" /\ Running!Check)
  /\ WF_runningVars(part = "running" /\ Running!Dispatch)
  /\ WF_runningVars(part = "running" /\
       (Running!CallbackReturns \/ Running!CallbackClears))
  /\ WF_runningVars(part = "running" /\ Running!CallbackWrites)
  /\ \A t \in Threads : WF_runningVars(part = "running" /\ Running!WriteEfd(t))
------------------------------------------------------------------------------
\* A fault in a pool that its client has cut short kills nobody and is told to
\* that client, once, whatever threads and nested accesses there are; a pool's
\* mapping and its file live as long as its users, and no buffer or pointer into
\* it is left outside.
MemorySound ==
  /\ Guard!Inv
  /\ Guard!FaultTold
  /\ Pool!Inv

\* One compositor at a time owns a socket's name, wherever others are killed
\* between the lock, the removal of what is left, and bind; and it gets it if
\* nobody has it.
SocketSound ==
  /\ part = "lock" => Lock!Inv
  /\ part = "auto" => Numbered!Inv /\ Numbered!NamesTaken /\ Numbered!AutoFindsName
  /\ part = "orderly" => Orderly!Inv

\* What a client was told of globals adds up however they come and go, a name
\* means one global for ever, and neither the filter nor a bind on its way can
\* be got around.
GlobalsSound ==
  /\ Registry!Inv
  /\ Registry!OneGlobalPerName

\* Clients and resources that callbacks destroy in the middle of their
\* destruction, or of a walk over them, are destroyed once and not used after.
ClientsSound ==
  /\ Running!TypeOK
  /\ Served!Inv

\* A client that follows the protocol is never refused a global that is removed
\* but not yet destroyed, and wl_display_destroy_clients leaves no client.
ServerSteps ==
  /\ Registry!GoodNeverRefused
  /\ Served!AllAreDestroyed

\* wl_display_terminate from a callback or another thread ends the loop, which
\* does not spin until then; and a client whose error is noted is freed.
ServerProceeds ==
  /\ (part = "erring" /\ ErringFairness => Erring!ErrorEndsClient)
  /\ (part = "running" /\ RunningFairness => Running!TerminateEnds)
  /\ (part = "running" /\ RunningFairness => Running!NoBusyLoop)

==============================================================================
