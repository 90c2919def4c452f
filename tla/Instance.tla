------------------------------ MODULE Instance -------------------------------
(***************************************************************************)
(* One service: the shell script that starts a renderer and a provider and  *)
(* watches both (scripts/zlinestatus-instance), what the two do to the      *)
(* socket's path, and the service manager that starts the script again.     *)
(* kill -0 finds a child that has ended until the shell has collected it,   *)
(* which it does at some time while it waits for a command.                 *)
(***************************************************************************)
EXTENDS Naturals, TLAPS

CONSTANTS
  Runs,          \* the times the service is started; one is used again when all of it has ended
  Nobody,        \* no run
  ControlGroup,  \* the manager ends what is left of a run: systemd does, s6-supervise does not
  AlwaysRestarts,\* the manager starts the script again whatever its status: s6-supervise does
  Hasty          \* a signal may come before the traps are set and while cleanup runs

Kinds == {"renderer", "provider"}
Terminated == 143  \* the status of a child that a signal has ended
Killed == 256      \* the script itself was ended by a signal: to systemd a clean exit

InstanceAssumption ==
  /\ Nobody \notin Runs /\ Runs # {}
  /\ {ControlGroup, AlwaysRestarts, Hasty} \subseteq BOOLEAN

\* A script that a signal can end before it has waited for its children is started
\* only by a manager that ends them itself.
Collected == ControlGroup \/ ~Hasty

VARIABLES
  run,           \* the current one
  child,         \* the two processes of each
  path,          \* whose socket the path leads to
  pc, status,    \* of the script
  reaped,        \* the children whose end the shell has collected
  signal,        \* one has come and waits for the command to end
  signalled,     \* somebody has sent the script a signal
  stopped        \* somebody has stopped the service

vars == <<run, child, path, pc, status, reaped, signal, signalled, stopped>>
managerVars == <<run, stopped>>
shellVars == <<pc, status, reaped, signal, signalled>>

Absent == [at |-> "none", code |-> 0, term |-> FALSE]
Alive(r, k) == child[r][k].at \notin {"none", "dead"}
Over(r) == \A k \in Kinds : ~Alive(r, k)

Exits(r, k, code) == child' = [child EXCEPT ![r][k] = [at |-> "dead", code |-> code, term |-> FALSE]]
Moves(r, k, from, to) ==
  /\ child[r][k].at = from
  /\ child' = [child EXCEPT ![r][k].at = to]
------------------------------------------------------------------------------
\* The renderer, up to its main loop (main of zlinestatus.zig).
Unlink(r) ==
  /\ Moves(r, "renderer", "start", "unlinked") /\ path' = Nobody
  /\ UNCHANGED <<managerVars, shellVars>>

Bind(r) ==
  /\ IF path = Nobody
       THEN Moves(r, "renderer", "unlinked", "bound") /\ path' = r
       ELSE child[r].renderer.at = "unlinked" /\ Exits(r, "renderer", 1) /\ UNCHANGED path
  /\ UNCHANGED <<managerVars, shellVars>>

Listen(r) ==
  /\ Moves(r, "renderer", "bound", "listening")
  /\ UNCHANGED <<path, managerVars, shellVars>>

\* Each way out of main is an error, the end of its surface too; its socket stays
\* in the file system.
RendererEnds(r) ==
  /\ Alive(r, "renderer")
  /\ Exits(r, "renderer", 1)
  /\ UNCHANGED <<path, managerVars, shellVars>>

Reachable == path # Nobody /\ child[path].renderer.at = "listening"

\* The provider's zsendvalue fails when nobody listens; some providers end then.
Send(r) ==
  /\ Alive(r, "provider")
  /\ \/ Reachable /\ Moves(r, "provider", "start", "sent")
     \/ ~Reachable /\ Exits(r, "provider", 1)
  /\ UNCHANGED <<path, managerVars, shellVars>>

ProviderEnds(r, code) ==
  /\ Alive(r, "provider") /\ code \in {0, 1}
  /\ Exits(r, "provider", code)
  /\ UNCHANGED <<path, managerVars, shellVars>>

Dies(r, k) ==
  /\ Alive(r, k) /\ child[r][k].term
  /\ Exits(r, k, Terminated)
  /\ UNCHANGED <<path, managerVars, shellVars>>
------------------------------------------------------------------------------
\* The script.  A signal is acted on between two commands.
Goes(from, to) == pc = from /\ ~signal /\ pc' = to
Starts(k) == child' = [child EXCEPT ![run][k] = [Absent EXCEPT !.at = "start"]]

StartRenderer ==
  /\ Goes("renderer", "trap_exit") /\ Starts("renderer")
  /\ UNCHANGED <<path, status, reaped, signal, signalled, managerVars>>

SetTraps ==
  /\ Goes("trap_exit", "trap_signals") \/ Goes("trap_signals", "provider")
  /\ UNCHANGED <<child, path, status, reaped, signal, signalled, managerVars>>

\* A type that has no provider starts only the renderer.
StartProvider ==
  /\ Goes("provider", "check_renderer")
  /\ Starts("provider") \/ UNCHANGED child
  /\ UNCHANGED <<path, status, reaped, signal, signalled, managerVars>>

\* exit runs the trap.
CheckRenderer ==
  /\ IF "renderer" \in reaped
       THEN Goes("check_renderer", "kill_renderer") /\ status' = child[run].renderer.code
       ELSE Goes("check_renderer", "check_provider") /\ UNCHANGED status
  /\ UNCHANGED <<child, path, reaped, signal, signalled, managerVars>>

\* Mutant: the provider's status is the script's.
ProviderStatusKept == child[run].provider.code

ProviderStatus == IF child[run].provider.code = 0 THEN 1 ELSE child[run].provider.code

\* Mutant: only the renderer is watched.
ProviderUnwatched ==
  /\ Goes("check_provider", "sleep")
  /\ UNCHANGED <<child, path, status, reaped, signal, signalled, managerVars>>

CheckProvider ==
  /\ IF "provider" \in reaped
       THEN Goes("check_provider", "kill_renderer") /\ status' = ProviderStatus
       ELSE Goes("check_provider", "sleep") /\ UNCHANGED status
  /\ UNCHANGED <<child, path, reaped, signal, signalled, managerVars>>

\* The wait for sleep returns after it has returned every child that ended before.
Sleep ==
  /\ pc = "sleep" /\ pc' = "check_renderer"
  /\ \A k \in Kinds : child[run][k].at = "dead" => k \in reaped
  /\ UNCHANGED <<child, path, status, reaped, signal, signalled, managerVars>>

Reap(k) ==
  /\ pc \in {"sleep", "wait_renderer", "wait_provider"}
  /\ child[run][k].at = "dead" /\ k \notin reaped
  /\ reaped' = reaped \cup {k}
  /\ UNCHANGED <<child, path, pc, status, signal, signalled, managerVars>>

\* cleanup
Kill(k, from, to) ==
  /\ pc = from /\ pc' = to
  /\ child' = IF Alive(run, k) THEN [child EXCEPT ![run][k].term = TRUE] ELSE child
  /\ UNCHANGED <<path, status, reaped, signal, signalled, managerVars>>

\* Mutant: cleanup does not wait.
NoWait(k, from, to) ==
  /\ pc = from /\ pc' = to
  /\ UNCHANGED <<child, path, status, reaped, signal, signalled, managerVars>>

Wait(k, from, to) ==
  /\ pc = from /\ pc' = to
  /\ child[run][k].at = "none" \/ k \in reaped
  /\ UNCHANGED <<child, path, status, reaped, signal, signalled, managerVars>>

\* Mutant: cleanup leaves the provider alone.
RendererCleanedUp ==
  Kill("renderer", "kill_renderer", "wait_renderer") \/ Wait("renderer", "wait_renderer", "gone")

Cleanup ==
  \/ Kill("renderer", "kill_renderer", "kill_provider")
  \/ Kill("provider", "kill_provider", "wait_renderer")
  \/ Wait("renderer", "wait_renderer", "wait_provider")
  \/ Wait("provider", "wait_provider", "gone")

Trapped == pc \in {"provider", "check_renderer", "check_provider", "sleep"}
Running == pc \notin {"gone", "down"}

\* The trap of INT and TERM; during sleep it waits.
HandleSignal ==
  /\ signal /\ Trapped /\ pc # "sleep"
  /\ signal' = FALSE /\ status' = 0 /\ pc' = "kill_renderer"
  /\ UNCHANGED <<child, path, reaped, signalled, managerVars>>

\* Without a trap the script ends where it stands; between the two traps some
\* shells run the first one.
Signalled ==
  /\ Trapped \/ (Hasty /\ Running)
  /\ signalled' = TRUE
  /\ IF Trapped
       THEN signal' = TRUE /\ UNCHANGED <<pc, status>>
       ELSE /\ status' = Killed /\ UNCHANGED signal
            /\ pc' \in {"gone"} \cup (IF pc = "trap_signals" THEN {"kill_renderer"} ELSE {})
  /\ UNCHANGED reaped

SendSignal ==
  /\ Signalled
  /\ UNCHANGED <<child, path, managerVars>>
------------------------------------------------------------------------------
\* The service manager.
TermAll ==
  child' = [r \in Runs |-> [k \in Kinds |->
             IF Alive(r, k) THEN [child[r][k] EXCEPT !.term = TRUE] ELSE child[r][k]]]

\* systemctl stop reaches every process of the service, s6-svc -d the script.
Stop ==
  /\ Signalled /\ ~stopped /\ stopped' = TRUE
  /\ IF ControlGroup /\ pc' = pc THEN TermAll ELSE UNCHANGED child
  /\ UNCHANGED <<path, run>>

EndGroup ==
  /\ pc = "gone" /\ ControlGroup
  /\ TermAll /\ child' # child
  /\ UNCHANGED <<path, managerVars, shellVars>>

Settled == pc = "gone" /\ (ControlGroup => \A r \in Runs : Over(r))
Wanted == ~stopped /\ (AlwaysRestarts \/ status \notin {0, Killed})

Begin(r) ==
  /\ Over(r)
  /\ run' = r /\ child' = [child EXCEPT ![r] = [k \in Kinds |-> Absent]]
  /\ pc' = "renderer" /\ status' = 0 /\ reaped' = {}
  /\ signal' = FALSE /\ signalled' = FALSE /\ stopped' = FALSE
  /\ UNCHANGED path

Restart == Settled /\ Wanted /\ \E r \in Runs : Begin(r)

GoDown ==
  /\ Settled /\ ~Wanted
  /\ pc' = "down"
  /\ UNCHANGED <<child, path, status, reaped, signal, signalled, managerVars>>

Start == pc = "down" /\ \E r \in Runs : Begin(r)
------------------------------------------------------------------------------
Init ==
  /\ run = CHOOSE r \in Runs : TRUE
  /\ child = [r \in Runs |-> [k \in Kinds |-> Absent]]
  /\ path = Nobody /\ pc = "down" /\ status = 0 /\ reaped = {}
  /\ signal = FALSE /\ signalled = FALSE /\ stopped = FALSE

Shell ==
  \/ StartRenderer \/ SetTraps \/ StartProvider \/ CheckRenderer \/ CheckProvider
  \/ Sleep \/ Cleanup \/ HandleSignal

Manager == Stop \/ EndGroup \/ Restart \/ GoDown \/ Start

Next ==
  \/ Shell \/ Manager \/ SendSignal
  \/ \E k \in Kinds : Reap(k)
  \/ \E r \in Runs :
       \/ Unlink(r) \/ Bind(r) \/ Listen(r) \/ Send(r)
       \/ RendererEnds(r) \/ \E code \in {0, 1} : ProviderEnds(r, code)
       \/ \E k \in Kinds : Dies(r, k)

\* The shell runs and collects its children, and a signal ends a process.
Fairness ==
  /\ WF_vars(Shell) /\ \A k \in Kinds : WF_vars(Reap(k))
  /\ \A r \in Runs, k \in Kinds : WF_vars(Dies(r, k))

Spec == Init /\ [][Next]_vars
LiveSpec == Spec /\ Fairness
------------------------------------------------------------------------------
Child == [at : {"none", "start", "unlinked", "bound", "listening", "sent", "dead"},
          code : {0, 1, Terminated}, term : BOOLEAN]

TypeOK ==
  /\ run \in Runs /\ path \in Runs \cup {Nobody}
  /\ child \in [Runs -> [Kinds -> Child]]
  /\ pc \in {"down", "renderer", "trap_exit", "trap_signals", "provider", "check_renderer",
             "check_provider", "sleep", "kill_renderer", "kill_provider", "wait_renderer",
             "wait_provider", "gone"}
  /\ status \in {0, 1, Terminated, Killed} /\ reaped \subseteq Kinds
  /\ signal \in BOOLEAN /\ signalled \in BOOLEAN /\ stopped \in BOOLEAN

\* The path leads to the renderer that listens, however its predecessors have ended
\* and whatever they have left there: unlink and bind, two steps without a lock, are
\* enough because no renderer of an earlier run lives.
PathLeadsToRenderer ==
  \A r \in Runs : child[r].renderer.at = "listening" => path = r

\* When the service is started again or is down, both processes of the last run have
\* ended: cleanup waits for them, or the manager ends them.
NoChildLeft ==
  /\ \A r \in Runs \ {run} : Over(r)
  /\ pc = "down" => Over(run)

\* The service is down only because it was stopped, or somebody sent its script a
\* signal and the manager takes that for a clean exit: the end of either process,
\* a provider's with status 0 too, has the service started again.
DownForAReason ==
  pc = "down" /\ child[run].renderer.at # "none" =>
    stopped \/ (signalled /\ ~AlwaysRestarts)

\* Only one renderer lives, so nothing binds the path between its two steps.
PathOwned ==
  /\ child[run].renderer.at = "unlinked" => path = Nobody
  /\ child[run].renderer.at \in {"bound", "listening"} => path = run

\* Where the script stands tells which children have been started, and which of them
\* it has waited for.
ChildrenKnown ==
  /\ pc = "renderer" => child[run].renderer.at = "none"
  /\ pc \in {"renderer", "trap_exit", "trap_signals", "provider"} => child[run].provider.at = "none"
  /\ pc = "wait_provider" => ~Alive(run, "renderer")
  /\ pc = "gone" /\ ~Hasty => Over(run)
  /\ \A k \in reaped : child[run][k].at = "dead"

\* A script that ends with a status that the manager takes for a clean exit was signalled.
ReasonKept ==
  /\ child[run].renderer.at = "dead" => child[run].renderer.code # 0
  /\ signal => signalled
  /\ pc \in {"kill_renderer", "kill_provider", "wait_renderer", "wait_provider", "gone"} =>
       status \notin {0, Killed} \/ signalled

\* The inductive invariant.
Inv == TypeOK /\ NoChildLeft /\ PathOwned /\ ChildrenKnown /\ ReasonKept /\ DownForAReason

\* The end of either process ends the script, and by then the other one.
ChildEndNoticed ==
  \A k \in Kinds : (Trapped /\ child[run][k].at = "dead") ~> (~Running)
------------------------------------------------------------------------------
(* Proofs *)

\* Whatever changes no child's stage or code keeps what the invariant says of them.
SameStages ==
  /\ child' \in [Runs -> [Kinds -> Child]]
  /\ \A r \in Runs, k \in Kinds : child'[r][k].at = child[r][k].at /\ child'[r][k].code = child[r][k].code

\* No child changes: no stage does.
LEMMA Untouched == ASSUME TypeOK, UNCHANGED child PROVE SameStages
BY DEF TypeOK, SameStages

\* SIGTERM to all changes no child's stage.
LEMMA TermAllStages == ASSUME TypeOK, TermAll PROVE SameStages
<1>1. child \in [Runs -> [Kinds -> Child]]
  BY DEF TypeOK
<1>2. child' = [r \in Runs |-> [k \in Kinds |->
             IF Alive(r, k) THEN [child[r][k] EXCEPT !.term = TRUE] ELSE child[r][k]]]
  BY DEF TermAll
<1>3. ASSUME NEW r \in Runs, NEW k \in Kinds
      PROVE  child'[r][k] \in Child /\ child'[r][k].at = child[r][k].at /\ child'[r][k].code = child[r][k].code
  <2>1. child'[r][k] = IF Alive(r, k) THEN [child[r][k] EXCEPT !.term = TRUE] ELSE child[r][k]
    BY <1>2
  <2>2. child[r][k] \in Child
    BY <1>1
  <2> QED
    BY <2>1, <2>2 DEF Child
<1>4. child' \in [Runs -> [Kinds -> Child]]
  BY <1>2, <1>3
<1> QED
  BY <1>3, <1>4 DEF SameStages

\* Who lives, and which runs are over, depends on the stages alone.
LEMMA SameOver ==
  ASSUME SameStages, NEW r \in Runs PROVE Over(r)' = Over(r) /\ \A k \in Kinds : Alive(r, k)' = Alive(r, k)
BY DEF SameStages, Over, Alive

\* A step of the script or the manager that starts no child and ends none.
LEMMA SameRun ==
  ASSUME TypeOK, NoChildLeft, PathOwned, SameStages, UNCHANGED <<run, path>>
  PROVE  /\ PathOwned'
         /\ \A r \in Runs \ {run'} : Over(r)'
         /\ run' \in Runs /\ path' \in Runs \cup {Nobody} /\ child' \in [Runs -> [Kinds -> Child]]
         /\ \A k \in Kinds : child'[run'][k].at = child[run][k].at /\ child'[run'][k].code = child[run][k].code
         /\ Over(run)' = Over(run) /\ Alive(run, "renderer")' = Alive(run, "renderer")
<1>1. run \in Runs /\ path \in Runs \cup {Nobody} /\ run' = run /\ path' = path
  BY DEF TypeOK
<1>2. \A k \in Kinds : child'[run'][k].at = child[run][k].at /\ child'[run'][k].code = child[run][k].code
  BY <1>1 DEF SameStages
<1>3. PathOwned'
  BY <1>1, <1>2 DEF PathOwned, Kinds
<1>4. \A r \in Runs : Over(r)' = Over(r) /\ \A k \in Kinds : Alive(r, k)' = Alive(r, k)
  BY SameOver
<1>5. \A r \in Runs \ {run'} : Over(r)'
  BY <1>1, <1>4 DEF NoChildLeft
<1>6. Over(run)' = Over(run) /\ Alive(run, "renderer")' = Alive(run, "renderer")
  BY <1>1, <1>4 DEF Kinds
<1> QED
  BY <1>1, <1>2, <1>3, <1>5, <1>6 DEF SameStages

\* A step of one child that is alive.
LEMMA ChildStep ==
  ASSUME Inv, NEW r \in Runs, NEW k \in Kinds, Alive(r, k), NEW c \in Child,
         c.at # "none", k = "renderer" /\ c.at = "dead" => c.code # 0,
         child' = [child EXCEPT ![r][k] = c], UNCHANGED <<run, stopped, pc, status, reaped, signal, signalled>>,
         path' \in Runs \cup {Nobody}, PathOwned'
  PROVE  Inv'
<1>1. /\ run \in Runs /\ child \in [Runs -> [Kinds -> Child]]
      /\ run' = run /\ pc' = pc /\ reaped' = reaped /\ status' = status
      /\ signal' = signal /\ signalled' = signalled /\ stopped' = stopped
  BY DEF Inv, TypeOK
<1>2. child' \in [Runs -> [Kinds -> Child]]
  BY <1>1
<1>3. TypeOK'
  BY <1>1, <1>2 DEF Inv, TypeOK
<1>4. r = run
  BY DEF Inv, NoChildLeft, Over
<1>5. /\ child'[run][k] = c
      /\ \A j \in Kinds \ {k} : child'[run][j] = child[run][j]
      /\ \A q \in Runs \ {run} : child'[q] = child[q]
  BY <1>1, <1>4
<1>6. ~Over(run) /\ child[run][k].at # "dead" /\ child[run][k].at # "none"
  BY <1>4 DEF Over, Alive
<1>7. pc # "down"
  BY <1>6 DEF Inv, NoChildLeft
<1>8. NoChildLeft'
  <2>1. \A q \in Runs \ {run} : Over(q)'
    BY <1>1, <1>5 DEF Inv, NoChildLeft, Over, Alive
  <2> QED
    BY <1>1, <1>7, <2>1 DEF NoChildLeft
<1>9. ChildrenKnown'
  <2>1. pc' = "renderer" => child'[run'].renderer.at = "none"
    <3>1. pc = "renderer" => child[run].renderer.at = "none" /\ child[run].provider.at = "none"
      BY DEF Inv, ChildrenKnown
    <3>2. k = "renderer" \/ k = "provider"
      BY DEF Kinds
    <3> QED
      BY <1>1, <1>6, <3>1, <3>2
  <2>2. pc' \in {"renderer", "trap_exit", "trap_signals", "provider"} => child'[run'].provider.at = "none"
    <3>1. pc \in {"renderer", "trap_exit", "trap_signals", "provider"} => child[run].provider.at = "none" /\ k # "provider"
      BY <1>6 DEF Inv, ChildrenKnown
    <3> QED
      BY <1>1, <1>5, <3>1 DEF Kinds
  <2>3. pc' = "wait_provider" => ~Alive(run, "renderer")'
    <3>1. pc = "wait_provider" => ~Alive(run, "renderer") /\ k # "renderer"
      BY <1>4 DEF Inv, ChildrenKnown
    <3> QED
      BY <1>1, <1>5, <3>1 DEF Kinds, Alive
  <2>4. ~(pc' = "gone" /\ ~Hasty)
    BY <1>1, <1>6 DEF Inv, ChildrenKnown
  <2>5. \A j \in reaped' : child'[run'][j].at = "dead"
    <3>1. \A j \in reaped : j \in Kinds /\ j # k /\ child[run][j].at = "dead"
      BY <1>6 DEF Inv, ChildrenKnown, TypeOK
    <3> QED
      BY <1>1, <1>5, <3>1
  <2> QED
    BY <1>1, <2>1, <2>2, <2>3, <2>4, <2>5 DEF ChildrenKnown
<1>10. ReasonKept'
  <2>1. child'[run'].renderer.at = "dead" => child'[run'].renderer.code # 0
    <3>1. CASE k = "renderer"
      BY <1>1, <1>5, <3>1
    <3>2. CASE k # "renderer"
      BY <1>1, <1>5, <3>2 DEF Inv, ReasonKept, Kinds
    <3> QED
      BY <3>1, <3>2
  <2> QED
    BY <1>1, <2>1 DEF Inv, ReasonKept
<1>11. DownForAReason'
  BY <1>1, <1>7 DEF DownForAReason
<1> QED
  BY <1>3, <1>8, <1>9, <1>10, <1>11 DEF Inv

\* A child ends by itself or is killed from outside.
LEMMA ExitStep ==
  ASSUME Inv, NEW r \in Runs, NEW k \in Kinds, Alive(r, k), NEW code \in {0, 1, Terminated},
         k = "renderer" => code # 0, Exits(r, k, code), UNCHANGED <<path, managerVars, shellVars>>
  PROVE  Inv'
<1> DEFINE c == [at |-> "dead", code |-> code, term |-> FALSE]
<1>1. c \in Child /\ c.at = "dead" /\ c.code = code
  BY DEF Child
<1>2. child' = [child EXCEPT ![r][k] = c]
  BY DEF Exits
<1>3. UNCHANGED <<run, stopped, pc, status, reaped, signal, signalled, path>>
  BY DEF managerVars, shellVars
<1>4. run \in Runs /\ r = run /\ child \in [Runs -> [Kinds -> Child]] /\ path \in Runs \cup {Nobody}
  BY DEF Inv, NoChildLeft, Over, TypeOK
<1> HIDE DEF c
<1>5. child'[run][k] = c /\ \A j \in Kinds \ {k} : child'[run][j] = child[run][j]
  BY <1>2, <1>4
<1>6. PathOwned'
  <2>1. CASE k = "renderer"
    BY <1>1, <1>3, <1>5, <2>1 DEF PathOwned
  <2>2. CASE k # "renderer"
    BY <1>3, <1>5, <2>2 DEF Inv, PathOwned, Kinds
  <2> QED
    BY <2>1, <2>2
<1> QED
  BY <1>1, <1>2, <1>3, <1>4, <1>6, ChildStep

\* A renderer or provider goes from one stage to the next.
LEMMA MoveStep ==
  ASSUME Inv, NEW r \in Runs, NEW k \in Kinds, NEW from, from \notin {"none", "dead"},
         NEW to \in {"unlinked", "bound", "listening", "sent"},
         Moves(r, k, from, to), UNCHANGED <<managerVars, shellVars>>,
         path' \in Runs \cup {Nobody},
         k = "renderer" => (to = "unlinked" => path' = Nobody) /\ (to # "unlinked" => path' = r),
         k # "renderer" => path' = path
  PROVE  Inv'
<1> DEFINE c == [child[r][k] EXCEPT !.at = to]
<1>1. child \in [Runs -> [Kinds -> Child]] /\ child[r][k].at = from /\ run \in Runs
  BY DEF Inv, TypeOK, Moves
<1>2. c \in Child /\ c.at = to
  <2>1. child[r][k] \in Child
    BY <1>1
  <2> QED
    BY <2>1 DEF Child
<1>3. child' = [child EXCEPT ![r][k] = c]
  <2>1. child' = [child EXCEPT ![r] = [child[r] EXCEPT ![k].at = to]]
    BY <1>1 DEF Moves
  <2>2. [child[r] EXCEPT ![k].at = to] = [child[r] EXCEPT ![k] = c]
    BY <1>1
  <2>3. [child EXCEPT ![r] = [child[r] EXCEPT ![k] = c]] = [child EXCEPT ![r][k] = c]
    BY <1>1
  <2> QED
    BY <2>1, <2>2, <2>3
<1>4. Alive(r, k)
  BY <1>1 DEF Alive
<1>5. r = run
  BY <1>4 DEF Inv, NoChildLeft, Over
<1>6. UNCHANGED <<run, stopped, pc, status, reaped, signal, signalled>>
  BY DEF managerVars, shellVars
<1> HIDE DEF c
<1>7. child'[run][k] = c /\ \A j \in Kinds \ {k} : child'[run][j] = child[run][j]
  BY <1>1, <1>3, <1>5
<1>8. PathOwned'
  <2>1. CASE k = "renderer"
    BY <1>2, <1>5, <1>6, <1>7, <2>1 DEF PathOwned
  <2>2. CASE k # "renderer"
    BY <1>6, <1>7, <2>2 DEF Inv, PathOwned, Kinds
  <2> QED
    BY <2>1, <2>2
<1> QED
  BY <1>2, <1>3, <1>4, <1>6, <1>8, ChildStep

\* Every step of a child.
LEMMA ChildrenStep ==
  ASSUME Inv, NEW r \in Runs,
         \/ Unlink(r) \/ Bind(r) \/ Listen(r) \/ Send(r)
         \/ RendererEnds(r) \/ \E code \in {0, 1} : ProviderEnds(r, code)
         \/ \E k \in Kinds : Dies(r, k)
  PROVE  Inv'
<1> USE DEF Kinds
<1>1. CASE Unlink(r)
  BY <1>1, MoveStep DEF Unlink
<1>2. CASE Bind(r)
  <2>1. CASE Moves(r, "renderer", "unlinked", "bound") /\ path' = r /\ UNCHANGED <<managerVars, shellVars>>
    BY <2>1, MoveStep
  <2>2. CASE child[r].renderer.at = "unlinked" /\ path # Nobody
    <3>1. Alive(r, "renderer")
      BY <2>2 DEF Alive
    <3>2. r = run
      BY <3>1 DEF Inv, NoChildLeft, Over
    <3> QED
      BY <2>2, <3>2 DEF Inv, PathOwned
  <2> QED
    BY <1>2, <2>1, <2>2 DEF Bind
<1>3. CASE Listen(r)
  <2>1. child[r].renderer.at = "bound"
    BY <1>3 DEF Listen, Moves
  <2>2. Alive(r, "renderer")
    BY <2>1 DEF Alive
  <2>3. r = run /\ path = r
    BY <2>1, <2>2 DEF Inv, NoChildLeft, Over, PathOwned
  <2> QED
    BY <1>3, <2>3, MoveStep DEF Listen
<1>4. CASE Send(r)
  <2>1. CASE Moves(r, "provider", "start", "sent")
    BY <1>4, <2>1, MoveStep DEF Send, Inv, TypeOK
  <2>2. CASE Exits(r, "provider", 1)
    BY <1>4, <2>2, ExitStep DEF Send
  <2> QED
    BY <1>4, <2>1, <2>2 DEF Send
<1>5. CASE RendererEnds(r)
  BY <1>5, ExitStep DEF RendererEnds
<1>6. CASE \E code \in {0, 1} : ProviderEnds(r, code)
  BY <1>6, ExitStep DEF ProviderEnds
<1>7. CASE \E k \in Kinds : Dies(r, k)
  BY <1>7, ExitStep DEF Dies, Terminated
<1> QED
  BY <1>1, <1>2, <1>3, <1>4, <1>5, <1>6, <1>7

\* The script goes on, or the manager acts: no child starts and none ends.
LEMMA ScriptStep ==
  ASSUME Inv, SameStages, UNCHANGED <<run, path>>,
         pc' \in {"down", "trap_exit", "trap_signals", "provider", "check_renderer",
                 "check_provider", "sleep", "kill_renderer", "kill_provider", "wait_renderer",
                 "wait_provider", "gone"},
         status' \in {0, 1, Terminated, Killed}, reaped' \subseteq Kinds,
         signal' \in BOOLEAN, signalled' \in BOOLEAN, stopped' \in BOOLEAN,
         \A k \in reaped' : child[run][k].at = "dead",
         pc' \in {"trap_exit", "trap_signals", "provider"} => child[run].provider.at = "none",
         pc' = "wait_provider" => ~Alive(run, "renderer"),
         pc' = "down" \/ (pc' = "gone" /\ ~Hasty) => Over(run),
         signal' => signalled',
         pc' \in {"kill_renderer", "kill_provider", "wait_renderer", "wait_provider", "gone"} =>
           status' \notin {0, Killed} \/ signalled',
         pc' = "down" => stopped' \/ (signalled' /\ ~AlwaysRestarts)
  PROVE  Inv'
<1>1. /\ PathOwned'
      /\ \A r \in Runs \ {run'} : Over(r)'
      /\ run' \in Runs /\ path' \in Runs \cup {Nobody} /\ child' \in [Runs -> [Kinds -> Child]]
      /\ \A k \in Kinds : child'[run'][k].at = child[run][k].at /\ child'[run'][k].code = child[run][k].code
      /\ Over(run)' = Over(run) /\ Alive(run, "renderer")' = Alive(run, "renderer")
  BY SameRun DEF Inv
<1>2. TypeOK'
  BY <1>1 DEF TypeOK
<1>3. NoChildLeft'
  BY <1>1 DEF NoChildLeft
<1>4. /\ child'[run'].renderer.at = child[run].renderer.at /\ child'[run'].provider.at = child[run].provider.at
      /\ child'[run'].renderer.code = child[run].renderer.code
  BY <1>1 DEF Kinds
<1>5. ChildrenKnown'
  <2>1. \A k \in reaped' : child'[run'][k].at = "dead"
    BY <1>1
  <2> QED
    BY <1>1, <1>4, <2>1 DEF ChildrenKnown
<1>6. ReasonKept'
  BY <1>4 DEF Inv, ReasonKept
<1>7. DownForAReason'
  BY DEF DownForAReason
<1> QED
  BY <1>1, <1>2, <1>3, <1>5, <1>6, <1>7 DEF Inv

\* A child of the current run starts.
LEMMA StartStep ==
  ASSUME Inv, NEW k \in Kinds, child[run][k].at = "none", Starts(k),
         k = "renderer" => pc = "renderer" /\ pc' = "trap_exit",
         k = "provider" => pc = "provider" /\ pc' = "check_renderer",
         UNCHANGED <<path, status, reaped, signal, signalled, managerVars>>
  PROVE  Inv'
<1> DEFINE c == [Absent EXCEPT !.at = "start"]
<1>1. c \in Child /\ c.at = "start"
  BY DEF Child, Absent
<1>2. run \in Runs /\ child \in [Runs -> [Kinds -> Child]]
  BY DEF Inv, TypeOK
<1>3. child' = [child EXCEPT ![run][k] = c]
  BY DEF Starts
<1>4. UNCHANGED <<run, path, status, reaped, signal, signalled, stopped>>
  BY DEF managerVars
<1> HIDE DEF c
<1>5. child' \in [Runs -> [Kinds -> Child]]
  BY <1>1, <1>2, <1>3
<1>6. /\ child'[run][k] = c
      /\ \A j \in Kinds \ {k} : child'[run][j] = child[run][j]
      /\ \A q \in Runs \ {run} : child'[q] = child[q]
  BY <1>2, <1>3
<1>7. pc' \in {"trap_exit", "check_renderer"} /\ (k = "renderer" \/ k = "provider")
  BY DEF Kinds
<1>8. TypeOK'
  BY <1>2, <1>4, <1>5, <1>7 DEF Inv, TypeOK
<1>9. NoChildLeft'
  <2>1. \A q \in Runs \ {run} : Over(q)'
    BY <1>4, <1>6 DEF Inv, NoChildLeft, Over, Alive
  <2> QED
    BY <1>4, <1>7, <2>1 DEF NoChildLeft
<1>10. PathOwned'
  <2>1. CASE k = "renderer"
    BY <1>1, <1>4, <1>6, <2>1 DEF PathOwned
  <2>2. CASE k = "provider"
    BY <1>4, <1>6, <2>2 DEF Inv, PathOwned, Kinds
  <2> QED
    BY <1>7, <2>1, <2>2
<1>11. ChildrenKnown'
  <2>1. pc' = "trap_exit" => child'[run'].provider.at = "none"
    <3>1. pc' = "trap_exit" => k = "renderer" /\ pc = "renderer"
      BY <1>7
    <3>2. pc' = "trap_exit" => child[run].provider.at = "none"
      BY <3>1 DEF Inv, ChildrenKnown
    <3> QED
      BY <1>4, <1>6, <3>1, <3>2 DEF Kinds
  <2>2. \A j \in reaped' : child'[run'][j].at = "dead"
    <3>1. \A j \in reaped : j \in Kinds /\ j # k /\ child[run][j].at = "dead"
      BY DEF Inv, ChildrenKnown, TypeOK
    <3> QED
      BY <1>4, <1>6, <3>1
  <2> QED
    BY <1>7, <2>1, <2>2 DEF ChildrenKnown
<1>12. ReasonKept'
  <2>1. child'[run'].renderer.at = "dead" => child'[run'].renderer.code # 0
    <3>1. CASE k = "renderer"
      BY <1>1, <1>4, <1>6, <3>1
    <3>2. CASE k = "provider"
      BY <1>4, <1>6, <3>2 DEF Inv, ReasonKept, Kinds
    <3> QED
      BY <1>7, <3>1, <3>2
  <2> QED
    BY <1>4, <1>7, <2>1 DEF Inv, ReasonKept
<1>13. DownForAReason'
  BY <1>7 DEF DownForAReason
<1> QED
  BY <1>8, <1>9, <1>10, <1>11, <1>12, <1>13 DEF Inv

\* kill: the stage of the one it is for stays.
LEMMA KillStages ==
  ASSUME TypeOK, NEW k \in Kinds, child' = IF Alive(run, k) THEN [child EXCEPT ![run][k].term = TRUE] ELSE child
  PROVE  SameStages
<1>1. run \in Runs /\ child \in [Runs -> [Kinds -> Child]]
  BY DEF TypeOK
<1>2. CASE child' = child
  BY <1>1, <1>2 DEF SameStages
<1>3. CASE child' = [child EXCEPT ![run][k].term = TRUE]
  <2>1. child' \in [Runs -> [Kinds -> Child]]
    <3>1. child[run][k] \in Child
      BY <1>1
    <3>2. [child[run][k] EXCEPT !.term = TRUE] \in Child
      BY <3>1 DEF Child
    <3> QED
      BY <1>1, <1>3, <3>2
  <2>2. \A r \in Runs, j \in Kinds : child'[r][j].at = child[r][j].at /\ child'[r][j].code = child[r][j].code
    BY <1>1, <1>3 DEF Child
  <2> QED
    BY <2>1, <2>2 DEF SameStages
<1> QED
  BY <1>2, <1>3

\* What the script has waited for is dead, and what it remembers is of its kind.
LEMMA ReapedStays ==
  ASSUME Inv PROVE /\ \A k \in reaped : child[run][k].at = "dead"
                   /\ reaped \subseteq Kinds /\ status \in {0, 1, Terminated, Killed}
                   /\ signal \in BOOLEAN /\ signalled \in BOOLEAN /\ stopped \in BOOLEAN
                   /\ (signal => signalled)
BY DEF Inv, TypeOK, ChildrenKnown, ReasonKept

\* Every line of the script (main, stop_children, the traps, wait).
LEMMA ShellStep == ASSUME Inv, Shell \/ \E k \in Kinds : Reap(k) PROVE Inv'
<1>1. /\ \A k \in reaped : child[run][k].at = "dead"
      /\ reaped \subseteq Kinds /\ status \in {0, 1, Terminated, Killed}
      /\ signal \in BOOLEAN /\ signalled \in BOOLEAN /\ stopped \in BOOLEAN
      /\ (signal => signalled)
  BY ReapedStays
<1>2. /\ "renderer" \in reaped => child[run].renderer.code \in {1, Terminated}
      /\ child[run].provider.code \in {0, 1, Terminated}
  <2>1. run \in Runs /\ child \in [Runs -> [Kinds -> Child]]
    BY DEF Inv, TypeOK
  <2>2. child[run]["renderer"] \in Child /\ child[run]["provider"] \in Child
    <3>1. "renderer" \in Kinds /\ "provider" \in Kinds
      BY DEF Kinds
    <3> QED
      BY <2>1, <3>1
  <2>3. "renderer" \in reaped => child[run].renderer.at = "dead"
    BY <1>1
  <2> QED
    BY <2>2, <2>3 DEF Child, Inv, ReasonKept
<1>3. CASE StartRenderer
  BY <1>3, StartStep DEF StartRenderer, Goes, Kinds, Inv, ChildrenKnown
<1>4. CASE SetTraps
  <2>1. SameStages /\ UNCHANGED <<run, path, status, reaped, signal, signalled, stopped>>
    BY <1>4, Untouched DEF SetTraps, managerVars, Inv
  <2>2. pc' \in {"trap_signals", "provider"} /\ child[run].provider.at = "none"
    BY <1>4 DEF SetTraps, Goes, Inv, ChildrenKnown
  <2> QED
    BY <1>1, <2>1, <2>2, ScriptStep
<1>5. CASE StartProvider
  <2>1. CASE Starts("provider")
    BY <1>5, <2>1, StartStep DEF StartProvider, Goes, Kinds, Inv, ChildrenKnown
  <2>2. CASE UNCHANGED child
    <3>1. SameStages /\ UNCHANGED <<run, path, status, reaped, signal, signalled, stopped>> /\ pc' = "check_renderer"
      BY <1>5, <2>2, Untouched DEF StartProvider, Goes, managerVars, Inv
    <3> QED
      BY <1>1, <3>1, ScriptStep
  <2> QED
    BY <1>5, <2>1, <2>2 DEF StartProvider
<1>6. CASE CheckRenderer \/ CheckProvider
  <2>1. SameStages /\ UNCHANGED <<run, path, reaped, signal, signalled, stopped>>
    BY <1>6, Untouched DEF CheckRenderer, CheckProvider, managerVars, Inv
  <2>2. \/ pc' \in {"check_provider", "sleep"} /\ status' = status
        \/ pc' = "kill_renderer" /\ status' \in {1, Terminated}
    BY <1>2, <1>6 DEF CheckRenderer, CheckProvider, ProviderStatus, Goes
  <2>3. 1 \notin {0, Killed} /\ Terminated \notin {0, Killed}
    BY DEF Terminated, Killed
  <2> QED
    BY <1>1, <2>1, <2>2, <2>3, ScriptStep
<1>7. CASE Sleep
  <2>1. SameStages /\ UNCHANGED <<run, path, status, reaped, signal, signalled, stopped>> /\ pc' = "check_renderer"
    BY <1>7, Untouched DEF Sleep, managerVars, Inv
  <2> QED
    BY <1>1, <2>1, ScriptStep
<1>8. CASE Cleanup
  <2>1. CASE \/ Kill("renderer", "kill_renderer", "kill_provider")
             \/ Kill("provider", "kill_provider", "wait_renderer")
    <3>1. SameStages
      BY <2>1, KillStages DEF Kill, Inv, Kinds
    <3>2. UNCHANGED <<run, path, status, reaped, signal, signalled, stopped>>
      BY <2>1 DEF Kill, managerVars
    <3>3. pc \in {"kill_renderer", "kill_provider"} /\ pc' \in {"kill_provider", "wait_renderer"}
      BY <2>1 DEF Kill
    <3>4. status \notin {0, Killed} \/ signalled
      BY <3>3 DEF Inv, ReasonKept
    <3> QED
      BY <1>1, <3>1, <3>2, <3>3, <3>4, ScriptStep
  <2>2. CASE Wait("renderer", "wait_renderer", "wait_provider")
    <3>1. SameStages /\ UNCHANGED <<run, path, status, reaped, signal, signalled, stopped>>
      BY <2>2, Untouched DEF Wait, managerVars, Inv
    <3>2. pc = "wait_renderer" /\ pc' = "wait_provider"
      BY <2>2 DEF Wait
    <3>3. ~Alive(run, "renderer")
      BY <1>1, <2>2 DEF Wait, Alive
    <3>4. status \notin {0, Killed} \/ signalled
      BY <3>2 DEF Inv, ReasonKept
    <3> QED
      BY <1>1, <3>1, <3>2, <3>3, <3>4, ScriptStep
  <2>3. CASE Wait("provider", "wait_provider", "gone")
    <3>1. SameStages /\ UNCHANGED <<run, path, status, reaped, signal, signalled, stopped>>
      BY <2>3, Untouched DEF Wait, managerVars, Inv
    <3>2. pc = "wait_provider" /\ pc' = "gone"
      BY <2>3 DEF Wait
    <3>3. ~Alive(run, "renderer") /\ ~Alive(run, "provider")
      BY <1>1, <2>3, <3>2 DEF Wait, Alive, Inv, ChildrenKnown
    <3>4. Over(run)
      BY <3>3 DEF Over, Kinds
    <3>5. status \notin {0, Killed} \/ signalled
      BY <3>2 DEF Inv, ReasonKept
    <3> QED
      BY <1>1, <3>1, <3>2, <3>4, <3>5, ScriptStep
  <2> QED
    BY <1>8, <2>1, <2>2, <2>3 DEF Cleanup
<1>9. CASE HandleSignal
  <2>1. SameStages /\ UNCHANGED <<run, path, reaped, signalled, stopped>>
    BY <1>9, Untouched DEF HandleSignal, managerVars, Inv
  <2>2. pc' = "kill_renderer" /\ status' = 0 /\ signal' = FALSE /\ signalled'
    BY <1>1, <1>9, <2>1 DEF HandleSignal
  <2> QED
    BY <1>1, <2>1, <2>2, ScriptStep
<1>10. CASE \E k \in Kinds : Reap(k)
  <2>1. PICK k \in Kinds : Reap(k)
    BY <1>10
  <2>2. SameStages /\ UNCHANGED <<run, path, pc, status, signal, signalled, stopped>>
    BY <2>1, Untouched DEF Reap, managerVars, Inv
  <2>3. reaped' = reaped \cup {k} /\ child[run][k].at = "dead" /\ pc \in {"sleep", "wait_renderer", "wait_provider"}
    BY <2>1 DEF Reap
  <2>4. \A j \in reaped' : child[run][j].at = "dead"
    BY <1>1, <2>3
  <2>5. reaped' \subseteq Kinds
    BY <1>1, <2>3
  <2>6. pc' = "wait_provider" => ~Alive(run, "renderer")
    BY <2>2 DEF Inv, ChildrenKnown
  <2>7. pc' \in {"wait_renderer", "wait_provider"} => status' \notin {0, Killed} \/ signalled'
    BY <2>2 DEF Inv, ReasonKept
  <2> QED
    BY <1>1, <2>2, <2>3, <2>4, <2>5, <2>6, <2>7, ScriptStep
<1> QED
  BY <1>3, <1>4, <1>5, <1>6, <1>7, <1>8, <1>9, <1>10 DEF Shell

\* A signal to the script, and the same with the service stopped.
LEMMA SignalStep ==
  ASSUME Inv, Signalled, SameStages, UNCHANGED <<run, path>>, stopped' \in BOOLEAN
  PROVE  Inv'
<1>1. /\ \A k \in reaped : child[run][k].at = "dead"
      /\ reaped \subseteq Kinds /\ status \in {0, 1, Terminated, Killed}
      /\ signal \in BOOLEAN
  BY ReapedStays
<1>2. reaped' = reaped /\ signalled' = TRUE
  BY DEF Signalled
<1>3. CASE Trapped
  <2>1. pc' = pc /\ pc \in {"provider", "check_renderer", "check_provider", "sleep"} /\ status' = status /\ signal' = TRUE
    BY <1>3 DEF Trapped, Signalled
  <2>2. pc' = "provider" => child[run].provider.at = "none"
    BY <2>1 DEF Inv, ChildrenKnown
  <2> QED
    BY <1>1, <1>2, <2>1, <2>2, ScriptStep
<1>4. CASE ~Trapped
  <2>1. pc' \in {"gone", "kill_renderer"} /\ status' = Killed /\ signal' = signal /\ Hasty
    BY <1>4 DEF Signalled
  <2> QED
    BY <1>1, <1>2, <2>1, ScriptStep
<1> QED
  BY <1>3, <1>4

\* A new run finds the one before it over.
LEMMA BeginStep ==
  ASSUME Inv, NEW r \in Runs, Begin(r), Over(run) PROVE Inv'
<1> DEFINE new == [k \in Kinds |-> Absent]
<1>1. child \in [Runs -> [Kinds -> Child]] /\ path \in Runs \cup {Nobody} /\ path' = path
  BY DEF Inv, TypeOK, Begin
<1>2. Absent \in Child /\ Absent.at = "none"
  BY DEF Absent, Child
<1>3. new \in [Kinds -> Child] /\ \A k \in Kinds : new[k].at = "none"
  BY <1>2
<1>4. child' = [child EXCEPT ![r] = new] /\ run' = r
  BY DEF Begin
<1> HIDE DEF new
<1>5. /\ child' \in [Runs -> [Kinds -> Child]] /\ child'[r] = new
      /\ \A q \in Runs \ {r} : child'[q] = child[q]
  BY <1>1, <1>3, <1>4
<1>6. /\ pc' = "renderer" /\ status' = 0 /\ reaped' = {}
      /\ signal' = FALSE /\ signalled' = FALSE /\ stopped' = FALSE
  BY DEF Begin
<1>7. TypeOK'
  BY <1>1, <1>4, <1>5, <1>6 DEF TypeOK
<1>8. child'[run'].renderer.at = "none" /\ child'[run'].provider.at = "none"
  BY <1>3, <1>4, <1>5 DEF Kinds
<1>9. NoChildLeft'
  <2>1. \A q \in Runs : Over(q)
    BY DEF Inv, NoChildLeft
  <2>2. \A q \in Runs \ {r} : Over(q)'
    BY <1>5, <2>1 DEF Over, Alive
  <2> QED
    BY <1>4, <1>6, <2>2 DEF NoChildLeft
<1>10. PathOwned' /\ DownForAReason'
  BY <1>6, <1>8 DEF PathOwned, DownForAReason
<1>11. ChildrenKnown' /\ ReasonKept'
  BY <1>6, <1>8 DEF ChildrenKnown, ReasonKept
<1> QED
  BY <1>7, <1>9, <1>10, <1>11 DEF Inv

\* What the service manager does: signals, the end of a control group, a restart.
LEMMA ManagerStep == ASSUME Collected, Inv, Manager PROVE Inv'
<1>1. /\ \A k \in reaped : child[run][k].at = "dead"
      /\ reaped \subseteq Kinds /\ status \in {0, 1, Terminated, Killed}
      /\ signal \in BOOLEAN /\ signalled \in BOOLEAN /\ stopped \in BOOLEAN
      /\ (signal => signalled) /\ run \in Runs
  BY ReapedStays DEF Inv, TypeOK
<1>2. Settled => Over(run)
  BY <1>1 DEF Settled, Collected, Inv, ChildrenKnown
<1>3. CASE Stop
  <2>1. SameStages
    BY <1>3, TermAllStages, Untouched DEF Stop, Inv
  <2> QED
    BY <1>3, <2>1, SignalStep DEF Stop
<1>4. CASE EndGroup
  <2>1. SameStages
    BY <1>4, TermAllStages DEF EndGroup, Inv
  <2>2. pc = "gone" /\ UNCHANGED <<run, path, pc, status, reaped, signal, signalled, stopped>>
    BY <1>4 DEF EndGroup, managerVars, shellVars
  <2>3. status \notin {0, Killed} \/ signalled
    BY <2>2 DEF Inv, ReasonKept
  <2>4. ~Hasty => Over(run)
    BY <2>2 DEF Inv, ChildrenKnown
  <2> QED
    BY <1>1, <2>1, <2>2, <2>3, <2>4, ScriptStep
<1>5. CASE Restart
  BY <1>2, <1>5, BeginStep DEF Restart
<1>6. CASE GoDown
  <2>1. SameStages /\ UNCHANGED <<run, path, status, reaped, signal, signalled, stopped>> /\ pc' = "down" /\ pc = "gone"
    BY <1>6, Untouched DEF GoDown, Settled, managerVars, Inv
  <2>2. Over(run) /\ ~Wanted
    BY <1>2, <1>6 DEF GoDown
  <2>3. status \notin {0, Killed} \/ signalled
    BY <2>1 DEF Inv, ReasonKept
  <2>4. stopped' \/ (signalled' /\ ~AlwaysRestarts)
    BY <2>1, <2>2, <2>3 DEF Wanted
  <2> QED
    BY <1>1, <2>1, <2>2, <2>4, ScriptStep
<1>7. CASE Start
  BY <1>7, BeginStep DEF Start, Inv, NoChildLeft
<1> QED
  BY <1>3, <1>4, <1>5, <1>6, <1>7 DEF Manager

\* No run but the first, which has no children yet.
LEMMA ServiceInit == ASSUME InstanceAssumption, Init PROVE Inv
<1>1. Absent \in Child /\ Absent.at = "none"
  BY DEF Absent, Child
<1>2. child = [r \in Runs |-> [k \in Kinds |-> Absent]]
  BY DEF Init
<1>3. child \in [Runs -> [Kinds -> Child]] /\ \A r \in Runs, k \in Kinds : child[r][k].at = "none"
  BY <1>1, <1>2
<1>4. run \in Runs
  BY DEF Init, InstanceAssumption
<1>5. TypeOK
  BY <1>3, <1>4 DEF Init, TypeOK
<1>6. child[run].renderer.at = "none" /\ child[run].provider.at = "none"
  BY <1>3, <1>4 DEF Kinds
<1>7. NoChildLeft
  BY <1>3, <1>4 DEF NoChildLeft, Over, Alive
<1>8. PathOwned /\ ChildrenKnown /\ ReasonKept /\ DownForAReason
  BY <1>6 DEF Init, PathOwned, ChildrenKnown, ReasonKept, DownForAReason
<1> QED
  BY <1>5, <1>7, <1>8 DEF Inv

\* Every step of the service keeps the inductive invariant.
LEMMA ServiceNext == ASSUME Collected, Inv, [Next]_vars PROVE Inv'
<1>1. CASE UNCHANGED vars
  BY <1>1 DEF vars, Inv, TypeOK, NoChildLeft, Over, Alive, PathOwned, ChildrenKnown, ReasonKept, DownForAReason
<1>2. CASE Shell \/ \E k \in Kinds : Reap(k)
  BY <1>2, ShellStep
<1>3. CASE Manager
  BY <1>3, ManagerStep
<1>4. CASE SendSignal
  <2>1. SameStages /\ UNCHANGED <<run, path, stopped>>
    BY <1>4, Untouched DEF SendSignal, managerVars, Inv
  <2> QED
    BY <1>4, <2>1, SignalStep DEF SendSignal, Inv, TypeOK
<1>5. ASSUME NEW r \in Runs,
             \/ Unlink(r) \/ Bind(r) \/ Listen(r) \/ Send(r)
             \/ RendererEnds(r) \/ \E code \in {0, 1} : ProviderEnds(r, code)
             \/ \E k \in Kinds : Dies(r, k)
      PROVE  Inv'
  BY <1>5, ChildrenStep
<1> QED
  BY <1>1, <1>2, <1>3, <1>4, <1>5 DEF Next

\* The one renderer that lives is the current run's, and only it binds the path.
LEMMA ServicePath == ASSUME Inv PROVE PathLeadsToRenderer
<1>1. ASSUME NEW r \in Runs, child[r].renderer.at = "listening" PROVE path = r
  <2>1. Alive(r, "renderer")
    BY <1>1 DEF Alive
  <2>2. r = run
    BY <2>1 DEF Inv, NoChildLeft, Over, Kinds
  <2> QED
    BY <1>1, <2>2 DEF Inv, PathOwned
<1> QED
  BY <1>1 DEF PathLeadsToRenderer

\* For any number of runs: the path leads to the renderer that listens, no child is left
\* behind, and the service is down only for a reason, whatever ends first.
THEOREM ServiceHolds ==
  ASSUME InstanceAssumption, Collected PROVE Spec => [](Inv /\ PathLeadsToRenderer)
<1>1. Init => Inv
  BY ServiceInit
<1>2. Inv /\ [Next]_vars => Inv'
  BY ServiceNext
<1>3. Inv => PathLeadsToRenderer
  BY ServicePath
<1> QED
  BY <1>1, <1>2, <1>3, PTL DEF Spec
==============================================================================
