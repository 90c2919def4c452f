---------------------------- MODULE ServerProofs ----------------------------
(***************************************************************************)
(* Proofs about libwayland on the compositor's side: the guard against      *)
(* faults (SigbusGuard), for all threads, pools and nesting, and with the   *)
(* theorems of the other components what the suite MCServer checks.         *)
(***************************************************************************)
EXTENDS MCServer, FiniteSetTheorems, SequenceTheorems, WellFoundedInduction, TLAPS

\* What is left of a sequence without its first element.
LEMMA TailFacts ==
  ASSUME NEW S, NEW seq \in Seq(S), seq # <<>>
  PROVE  /\ Tail(seq) \in Seq(S) /\ Len(Tail(seq)) = Len(seq) - 1
         /\ \A i \in 1..Len(Tail(seq)) : Tail(seq)[i] = seq[i + 1] /\ i + 1 \in 1..Len(seq)
         /\ (Tail(seq) = <<>> <=> Len(seq) = 1)
         /\ (Tail(seq) # <<>> => 1 \in 1..Len(Tail(seq)))
<1>1. /\ Tail(seq) \in Seq(S) /\ Len(Tail(seq)) = Len(seq) - 1 /\ Len(seq) \in Nat \ {0}
      /\ \A i \in 1..Len(Tail(seq)) : Tail(seq)[i] = seq[i + 1] /\ i + 1 \in 1..Len(seq)
  OBVIOUS
<1>2. Tail(seq) # <<>> => Len(Tail(seq)) \in Nat \ {0}
  BY <1>1, EmptySeq
<1>3. Tail(seq) = <<>> => Len(Tail(seq)) = 0
  BY EmptySeq
<1> QED
  BY <1>1, <1>2, <1>3

\* At first no thread looks at a pool.
LEMMA GuardInit == ASSUME Guard!SigbusGuardAssumption, Guard!Init PROVE Guard!Inv
<1> USE DEF Guard!Init, Guard!NoData, Guard!SigbusGuardAssumption
<1>1. /\ access \in [Threads -> Seq(Pools)] /\ \A t \in Threads : ~Guard!Guarded(t)
      /\ \A t \in Threads : \A i \in 1..Len(access[t]) : access[t][i] = access[t][1]
  BY DEF Guard!Guarded
<1>2. sigbus_data \in [Threads -> [current_pool : Pools \cup {None}, access_count : 0..MaxNest,
                                   fallback_mapping_used : BOOLEAN]]
  OBVIOUS
<1>3. Guard!TypeOK
  BY <1>1, <1>2 DEF Guard!TypeOK
<1>4. Guard!FaultsRemembered
  BY <1>1 DEF Guard!FaultsRemembered
<1> QED
  BY <1>3, <1>4 DEF Guard!Inv, Guard!NeverKilled, Guard!BlamesRightClient

\* A step of one thread keeps what the others remember.
LEMMA GuardOthers ==
  ASSUME Guard!Inv, NEW t \in Threads, NEW mind, NEW nest \in Seq(Pools),
         UNCHANGED sigbus_is_impossible,
         access' = [access EXCEPT ![t] = nest], sigbus_data' = [sigbus_data EXCEPT ![t] = mind],
         mind \in [current_pool : Pools \cup {None}, access_count : 0..MaxNest,
                   fallback_mapping_used : BOOLEAN],
         \A i \in 1..Len(nest) : nest[i] = nest[1],
         IF nest # <<>> /\ ~sigbus_is_impossible[nest[1]]
           THEN mind.current_pool = nest[1] /\ mind.access_count = Len(nest)
           ELSE mind = Guard!NoData,
         mapping' \in [Pools -> {"file", "zeros"}], installed' \in BOOLEAN,
         guard_error' \in [Pools -> BOOLEAN], killed' \in BOOLEAN
  PROVE  /\ Guard!TypeOK'
         /\ access'[t] = nest /\ sigbus_data'[t] = mind
         /\ \A u \in Threads \ {t} : access'[u] = access[u] /\ sigbus_data'[u] = sigbus_data[u]
         /\ Guard!Guarded(t)' = (nest # <<>> /\ ~sigbus_is_impossible[nest[1]])
         /\ \A u \in Threads \ {t} : Guard!Guarded(u)' = Guard!Guarded(u)
<1>1. access \in [Threads -> Seq(Pools)] /\ sigbus_data \in [Threads ->
        [current_pool : Pools \cup {None}, access_count : 0..MaxNest, fallback_mapping_used : BOOLEAN]]
  BY DEF Guard!Inv, Guard!TypeOK
<1>2. /\ access' \in [Threads -> Seq(Pools)]
      /\ sigbus_data' \in [Threads -> [current_pool : Pools \cup {None}, access_count : 0..MaxNest,
                                       fallback_mapping_used : BOOLEAN]]
      /\ access'[t] = nest /\ sigbus_data'[t] = mind
      /\ \A u \in Threads \ {t} : access'[u] = access[u] /\ sigbus_data'[u] = sigbus_data[u]
  BY <1>1
<1>3. /\ Guard!Guarded(t)' = (nest # <<>> /\ ~sigbus_is_impossible[nest[1]])
      /\ \A u \in Threads \ {t} : Guard!Guarded(u)' = Guard!Guarded(u)
  BY <1>2 DEF Guard!Guarded
<1>4. ASSUME NEW u \in Threads
      PROVE  /\ \A i \in 1..Len(access'[u]) : access'[u][i] = access'[u][1]
             /\ IF Guard!Guarded(u)'
                  THEN sigbus_data'[u].current_pool = access'[u][1] /\ sigbus_data'[u].access_count = Len(access'[u])
                  ELSE sigbus_data'[u] = Guard!NoData
  BY <1>2, <1>3, ZenonT(60) DEF Guard!Inv, Guard!TypeOK
<1>5. sigbus_is_impossible' \in [Pools -> BOOLEAN]
  BY DEF Guard!Inv, Guard!TypeOK
<1>6. Guard!TypeOK'
  BY <1>2, <1>4, <1>5 DEF Guard!TypeOK, Guard!NoData
<1> QED
  BY <1>2, <1>3, <1>6

\* wl_shm_buffer_begin_access() counts an access of the pool that the thread guards already.
LEMMA GuardBegin ==
  ASSUME Guard!SigbusGuardAssumption, Guard!Inv, NEW t \in Threads, NEW p \in Pools, Guard!Begin(t, p)
  PROVE  Guard!Inv'
<1> DEFINE nest == Append(access[t], p)
           mind == IF sigbus_is_impossible[p] THEN sigbus_data[t] ELSE Guard!Entered(sigbus_data[t], p)
<1>1. /\ access[t] \in Seq(Pools) /\ (access[t] # <<>> => access[t][1] = p)
      /\ \A i \in 1..Len(access[t]) : access[t][i] = access[t][1]
      /\ Len(access[t]) < MaxNest
  BY DEF Guard!Inv, Guard!TypeOK, Guard!Begin
<1>2. /\ nest \in Seq(Pools) /\ nest # <<>> /\ nest[1] = p /\ Len(nest) = Len(access[t]) + 1
      /\ \A i \in 1..Len(nest) : nest[i] = p
  BY <1>1, AppendProperties
<1>3. /\ sigbus_data[t] \in [current_pool : Pools \cup {None}, access_count : 0..MaxNest,
                             fallback_mapping_used : BOOLEAN]
      /\ sigbus_is_impossible[p] => sigbus_data[t] = Guard!NoData
      /\ ~sigbus_is_impossible[p] => /\ sigbus_data[t].access_count = Len(access[t])
                                     /\ sigbus_data[t].current_pool \in {None, p}
                                     /\ access[t] = <<>> => ~sigbus_data[t].fallback_mapping_used
  BY <1>1 DEF Guard!Inv, Guard!TypeOK, Guard!Guarded, Guard!NoData
<1>4. /\ mind \in [current_pool : Pools \cup {None}, access_count : 0..MaxNest,
                   fallback_mapping_used : BOOLEAN]
      /\ IF ~sigbus_is_impossible[p] THEN mind.current_pool = p /\ mind.access_count = Len(nest)
                                     ELSE mind = Guard!NoData
      /\ mind.fallback_mapping_used = sigbus_data[t].fallback_mapping_used
  <2>1. CASE sigbus_is_impossible[p]
    BY <1>3, <2>1
  <2>2. CASE ~sigbus_is_impossible[p]
    <3>1. mind = [current_pool |-> p, access_count |-> sigbus_data[t].access_count + 1,
                  fallback_mapping_used |-> sigbus_data[t].fallback_mapping_used]
      BY <1>3, <2>2 DEF Guard!Entered
    <3>2. sigbus_data[t].access_count + 1 \in 0..MaxNest
      BY <1>1, <1>3, <2>2 DEF Guard!SigbusGuardAssumption
    <3> QED
      BY <1>1, <1>2, <1>3, <2>2, <3>1, <3>2
  <2> QED
    BY <2>1, <2>2
<1>5. /\ sigbus_is_impossible' = sigbus_is_impossible /\ mapping' = mapping /\ guard_error' = guard_error
      /\ access' = [access EXCEPT ![t] = nest] /\ sigbus_data' = [sigbus_data EXCEPT ![t] = mind]
      /\ killed' = FALSE /\ installed' = (installed \/ ~sigbus_is_impossible[p])
  BY <1>3 DEF Guard!Begin, Guard!Inv, Guard!TypeOK
<1> HIDE DEF nest, mind
<1>0. /\ mapping \in [Pools -> {"file", "zeros"}] /\ installed \in BOOLEAN
      /\ guard_error \in [Pools -> BOOLEAN] /\ sigbus_is_impossible \in [Pools -> BOOLEAN]
  BY DEF Guard!Inv, Guard!TypeOK
<1>6. /\ mapping' \in [Pools -> {"file", "zeros"}] /\ installed' \in BOOLEAN
      /\ guard_error' \in [Pools -> BOOLEAN] /\ killed' \in BOOLEAN
  BY <1>0, <1>5
<1>7. /\ Guard!TypeOK'
      /\ access'[t] = nest /\ sigbus_data'[t] = mind
      /\ \A u \in Threads \ {t} : access'[u] = access[u] /\ sigbus_data'[u] = sigbus_data[u]
      /\ Guard!Guarded(t)' = (nest # <<>> /\ ~sigbus_is_impossible[nest[1]])
      /\ \A u \in Threads \ {t} : Guard!Guarded(u)' = Guard!Guarded(u)
  BY <1>2, <1>4, <1>5, <1>6, GuardOthers
<1>8. Guard!FaultsRemembered'
  <2>1. \A u \in Threads : Guard!Guarded(u)' => installed'
    BY <1>2, <1>5, <1>7 DEF Guard!Inv, Guard!FaultsRemembered
  <2>2. \A u \in Threads : sigbus_data'[u].fallback_mapping_used => mapping'[access'[u][1]] = "zeros"
    BY <1>1, <1>2, <1>3, <1>4, <1>5, <1>7 DEF Guard!Inv, Guard!FaultsRemembered, Guard!NoData
  <2>3. ASSUME NEW q \in Pools, mapping'[q] = "zeros", ~guard_error'[q]
        PROVE  \E u \in Threads : Guard!Guarded(u)' /\ access'[u][1] = q /\ sigbus_data'[u].fallback_mapping_used
    <3>1. PICK u \in Threads : Guard!Guarded(u) /\ access[u][1] = q /\ sigbus_data[u].fallback_mapping_used
      BY <1>5, <2>3 DEF Guard!Inv, Guard!FaultsRemembered
    <3>2. CASE u = t
      BY <1>1, <1>2, <1>4, <1>7, <3>1, <3>2 DEF Guard!Guarded
    <3> QED
      BY <1>7, <3>1, <3>2
  <2> QED
    BY <2>1, <2>2, <2>3 DEF Guard!FaultsRemembered
<1> QED
  BY <1>5, <1>7, <1>8 DEF Guard!Inv, Guard!NeverKilled, Guard!BlamesRightClient

\* A fault in the guarded pool is mended there, and nowhere else.
LEMMA GuardFault ==
  ASSUME Guard!SigbusGuardAssumption, Guard!Inv, NEW t \in Threads, Guard!Fault(t)
  PROVE  Guard!Inv'
<1> DEFINE p == access[t][1]
           nest == access[t]
           mind == [sigbus_data[t] EXCEPT !.fallback_mapping_used = TRUE]
<1>1. /\ nest \in Seq(Pools) /\ nest # <<>> /\ p \in Pools /\ ~sigbus_is_impossible[p]
      /\ \A i \in 1..Len(nest) : nest[i] = p
      /\ sigbus_data[t] \in [current_pool : Pools \cup {None}, access_count : 0..MaxNest,
                             fallback_mapping_used : BOOLEAN]
      /\ sigbus_data[t].current_pool = p /\ sigbus_data[t].access_count = Len(nest) /\ installed
  BY DEF Guard!Fault, Guard!Inv, Guard!TypeOK, Guard!FaultsRemembered, Guard!Guarded
<1>2. /\ mind \in [current_pool : Pools \cup {None}, access_count : 0..MaxNest,
                   fallback_mapping_used : BOOLEAN]
      /\ mind.current_pool = p /\ mind.access_count = Len(nest) /\ mind.fallback_mapping_used
  BY <1>1
<1>3. /\ mapping' = [mapping EXCEPT ![p] = "zeros"] /\ killed' = killed
      /\ sigbus_data' = [sigbus_data EXCEPT ![t] = mind]
      /\ UNCHANGED <<sigbus_is_impossible, installed, access, guard_error>>
  BY <1>1 DEF Guard!Fault, Guard!Inv, Guard!TypeOK
<1>4. /\ mapping \in [Pools -> {"file", "zeros"}] /\ installed \in BOOLEAN /\ killed \in BOOLEAN
      /\ guard_error \in [Pools -> BOOLEAN] /\ sigbus_is_impossible \in [Pools -> BOOLEAN]
      /\ access \in [Threads -> Seq(Pools)]
  BY DEF Guard!Inv, Guard!TypeOK
<1>5. /\ mapping' \in [Pools -> {"file", "zeros"}] /\ installed' \in BOOLEAN
      /\ guard_error' \in [Pools -> BOOLEAN] /\ killed' \in BOOLEAN
      /\ access' = [access EXCEPT ![t] = nest]
  BY <1>3, <1>4
<1>6. mapping'[p] = "zeros" /\ \A q \in Pools \ {p} : mapping'[q] = mapping[q]
  BY <1>1, <1>3, <1>4
<1> HIDE DEF nest, mind
<1>7. /\ Guard!TypeOK'
      /\ access'[t] = nest /\ sigbus_data'[t] = mind
      /\ \A u \in Threads \ {t} : access'[u] = access[u] /\ sigbus_data'[u] = sigbus_data[u]
      /\ Guard!Guarded(t)' = (nest # <<>> /\ ~sigbus_is_impossible[nest[1]])
      /\ \A u \in Threads \ {t} : Guard!Guarded(u)' = Guard!Guarded(u)
  BY <1>1, <1>2, <1>3, <1>5, GuardOthers DEF nest
<1>8. Guard!FaultsRemembered'
  <2>1. \A u \in Threads : Guard!Guarded(u)' => installed'
    BY <1>1, <1>3
  <2>2. ASSUME NEW u \in Threads, sigbus_data'[u].fallback_mapping_used
        PROVE  mapping'[access'[u][1]] = "zeros"
    <3>1. CASE u = t
      BY <1>3, <1>6, <3>1
    <3>2. CASE u # t
      <4>1. access[u] \in Seq(Pools) /\ access[u] # <<>> /\ mapping[access[u][1]] = "zeros"
        BY <1>4, <1>7, <2>2, <3>2 DEF Guard!Inv, Guard!TypeOK, Guard!FaultsRemembered, Guard!Guarded, Guard!NoData
      <4> QED
        BY <1>3, <1>6, <4>1
    <3> QED
      BY <3>1, <3>2
  <2>3. ASSUME NEW q \in Pools, mapping'[q] = "zeros", ~guard_error'[q]
        PROVE  \E u \in Threads : Guard!Guarded(u)' /\ access'[u][1] = q /\ sigbus_data'[u].fallback_mapping_used
    <3>1. CASE q = p
      BY <1>1, <1>2, <1>3, <1>7, <3>1 DEF nest
    <3>2. CASE q # p
      <4>1. PICK u \in Threads : Guard!Guarded(u) /\ access[u][1] = q /\ sigbus_data[u].fallback_mapping_used
        BY <1>3, <1>6, <2>3, <3>2 DEF Guard!Inv, Guard!FaultsRemembered
      <4> QED
        BY <1>7, <3>2, <4>1
    <3> QED
      BY <3>1, <3>2
  <2> QED
    BY <2>1, <2>2, <2>3 DEF Guard!FaultsRemembered
<1>9. \A q \in Pools : guard_error'[q] => mapping'[q] = "zeros"
  BY <1>3, <1>6 DEF Guard!Inv, Guard!BlamesRightClient
<1> QED
  BY <1>3, <1>7, <1>8, <1>9 DEF Guard!Inv, Guard!NeverKilled, Guard!BlamesRightClient

\* wl_shm_buffer_end_access() of the last access tells the client of the fault.
LEMMA GuardEnd ==
  ASSUME Guard!SigbusGuardAssumption, Guard!Inv, NEW t \in Threads, Guard!End(t)
  PROVE  Guard!Inv'
<1> DEFINE p == access[t][1]
           nest == Tail(access[t])
           mind == IF sigbus_is_impossible[p] THEN sigbus_data[t] ELSE Guard!Left(sigbus_data[t])
<1>1. /\ access[t] \in Seq(Pools) /\ access[t] # <<>> /\ p \in Pools
      /\ \A i \in 1..Len(access[t]) : access[t][i] = p
      /\ sigbus_data[t] \in [current_pool : Pools \cup {None}, access_count : 0..MaxNest,
                             fallback_mapping_used : BOOLEAN]
      /\ (sigbus_is_impossible[p] => sigbus_data[t] = Guard!NoData)
      /\ (~sigbus_is_impossible[p] =>
            sigbus_data[t].current_pool = p /\ sigbus_data[t].access_count = Len(access[t]))
  BY DEF Guard!End, Guard!Inv, Guard!TypeOK, Guard!Guarded
<1>2. /\ nest \in Seq(Pools) /\ Len(nest) = Len(access[t]) - 1
      /\ \A i \in 1..Len(nest) : nest[i] = p
      /\ (nest = <<>> <=> Len(access[t]) = 1) /\ (nest # <<>> => nest[1] = p)
  BY <1>1, TailFacts
<1> HIDE DEF nest
<1>3. /\ mind \in [current_pool : Pools \cup {None}, access_count : 0..MaxNest,
                   fallback_mapping_used : BOOLEAN]
      /\ IF nest # <<>> /\ ~sigbus_is_impossible[p]
           THEN /\ mind.current_pool = p /\ mind.access_count = Len(nest)
                /\ mind.fallback_mapping_used = sigbus_data[t].fallback_mapping_used
           ELSE mind = Guard!NoData
  <2>1. CASE sigbus_is_impossible[p]
    BY <1>1, <2>1
  <2>2. CASE ~sigbus_is_impossible[p] /\ Len(access[t]) = 1
    BY <1>1, <1>2, <2>2 DEF Guard!Left, Guard!NoData, Guard!SigbusGuardAssumption
  <2>3. CASE ~sigbus_is_impossible[p] /\ Len(access[t]) # 1
    <3>1. mind = [current_pool |-> p, access_count |-> Len(access[t]) - 1,
                  fallback_mapping_used |-> sigbus_data[t].fallback_mapping_used]
      BY <1>1, <2>3 DEF Guard!Left
    <3>2. Len(access[t]) - 1 \in 0..MaxNest /\ nest # <<>>
      BY <1>1, <1>2, <2>3 DEF Guard!SigbusGuardAssumption
    <3> QED
      BY <1>1, <1>2, <2>3, <3>1, <3>2
  <2> QED
    BY <2>1, <2>2, <2>3
<1>4. /\ mapping \in [Pools -> {"file", "zeros"}] /\ installed \in BOOLEAN /\ killed \in BOOLEAN
      /\ guard_error \in [Pools -> BOOLEAN] /\ sigbus_is_impossible \in [Pools -> BOOLEAN]
      /\ access \in [Threads -> Seq(Pools)] /\ sigbus_data = [sigbus_data EXCEPT ![t] = sigbus_data[t]]
  BY DEF Guard!Inv, Guard!TypeOK
<1>5. /\ access' = [access EXCEPT ![t] = nest] /\ sigbus_data' = [sigbus_data EXCEPT ![t] = mind]
      /\ UNCHANGED <<sigbus_is_impossible, mapping, installed, killed>>
  BY <1>4 DEF Guard!End, nest
<1>6. /\ guard_error' \in [Pools -> BOOLEAN]
      /\ \A q \in Pools \ {p} : guard_error'[q] = guard_error[q]
      /\ guard_error[p] => guard_error'[p]
      /\ (nest = <<>> /\ sigbus_data[t].fallback_mapping_used /\ ~sigbus_is_impossible[p]) => guard_error'[p]
      /\ (guard_error'[p] /\ ~guard_error[p]) => sigbus_data[t].fallback_mapping_used
  <2>1. CASE sigbus_is_impossible[p]
    BY <1>4, <2>1 DEF Guard!End
  <2>2. CASE ~sigbus_is_impossible[p]
    <3>1. guard_error' = [guard_error EXCEPT ![p] =
            @ \/ (sigbus_data[t].access_count = 1 /\ sigbus_data[t].fallback_mapping_used)]
      BY <2>2 DEF Guard!End
    <3>2. (nest = <<>>) <=> sigbus_data[t].access_count = 1
      BY <1>1, <1>2, <2>2
    <3>3. guard_error'[p] = (guard_error[p] \/ (sigbus_data[t].access_count = 1 /\ sigbus_data[t].fallback_mapping_used))
      BY <1>1, <1>4, <3>1
    <3>4. \A q \in Pools \ {p} : guard_error'[q] = guard_error[q]
      BY <1>4, <3>1
    <3>5. guard_error' \in [Pools -> BOOLEAN]
      BY <1>4, <3>1
    <3> QED
      BY <3>2, <3>3, <3>4, <3>5
  <2> QED
    BY <2>1, <2>2
<1> HIDE DEF mind
<1>7. /\ Guard!TypeOK'
      /\ access'[t] = nest /\ sigbus_data'[t] = mind
      /\ \A u \in Threads \ {t} : access'[u] = access[u] /\ sigbus_data'[u] = sigbus_data[u]
      /\ Guard!Guarded(t)' = (nest # <<>> /\ ~sigbus_is_impossible[nest[1]])
      /\ \A u \in Threads \ {t} : Guard!Guarded(u)' = Guard!Guarded(u)
  <2>1. IF nest # <<>> /\ ~sigbus_is_impossible[nest[1]]
           THEN mind.current_pool = nest[1] /\ mind.access_count = Len(nest)
           ELSE mind = Guard!NoData
    BY <1>2, <1>3
  <2>2. \A i \in 1..Len(nest) : nest[i] = nest[1]
    BY <1>2
  <2>3. /\ mapping' \in [Pools -> {"file", "zeros"}] /\ installed' \in BOOLEAN /\ killed' \in BOOLEAN
    BY <1>4, <1>5
  <2> QED
    BY <1>2, <1>3, <1>5, <1>6, <2>1, <2>2, <2>3, GuardOthers
<1>8. Guard!FaultsRemembered'
  <2>1. \A u \in Threads : Guard!Guarded(u)' => installed'
    <3>1. ASSUME NEW u \in Threads, Guard!Guarded(u)' PROVE Guard!Guarded(u)
      <4>1. CASE u = t
        <5>1. nest # <<>> /\ nest[1] = p /\ ~sigbus_is_impossible[p]
          BY <1>2, <1>7, <3>1, <4>1
        <5> QED
          BY <1>1, <4>1, <5>1 DEF Guard!Guarded
      <4> QED
        BY <1>7, <3>1, <4>1
    <3> QED
      BY <1>5, <3>1 DEF Guard!Inv, Guard!FaultsRemembered
  <2>2. ASSUME NEW u \in Threads, sigbus_data'[u].fallback_mapping_used
        PROVE  mapping'[access'[u][1]] = "zeros"
    <3>1. CASE u = t
      <4>1. mind.fallback_mapping_used
        BY <1>7, <2>2, <3>1
      <4>2. nest # <<>> /\ nest[1] = p /\ sigbus_data[t].fallback_mapping_used
        <5>1. ~Guard!NoData.fallback_mapping_used
          BY DEF Guard!NoData
        <5>2. nest # <<>> /\ ~sigbus_is_impossible[p]
          BY <1>3, <4>1, <5>1
        <5> QED
          BY <1>2, <1>3, <4>1, <5>2
      <4>3. mapping[p] = "zeros"
        BY <4>2 DEF Guard!Inv, Guard!FaultsRemembered
      <4>4. access'[u][1] = p
        BY <1>7, <3>1, <4>2
      <4> QED
        BY <1>5, <4>3, <4>4
    <3>2. CASE u # t
      BY <1>5, <1>7, <2>2, <3>2 DEF Guard!Inv, Guard!FaultsRemembered
    <3> QED
      BY <3>1, <3>2
  <2>3. ASSUME NEW q \in Pools, mapping'[q] = "zeros", ~guard_error'[q]
        PROVE  \E u \in Threads : Guard!Guarded(u)' /\ access'[u][1] = q /\ sigbus_data'[u].fallback_mapping_used
    <3>1. PICK u \in Threads : Guard!Guarded(u) /\ access[u][1] = q /\ sigbus_data[u].fallback_mapping_used
      BY <1>5, <1>6, <2>3 DEF Guard!Inv, Guard!FaultsRemembered
    <3>2. CASE u = t
      <4>1. q = p /\ ~sigbus_is_impossible[p] /\ nest # <<>>
        BY <1>6, <2>3, <3>1, <3>2 DEF Guard!Guarded
      <4> QED
        BY <1>2, <1>3, <1>7, <3>1, <3>2, <4>1
    <3> QED
      BY <1>7, <3>1, <3>2
  <2> QED
    BY <2>1, <2>2, <2>3 DEF Guard!FaultsRemembered
<1>9. \A q \in Pools : guard_error'[q] => mapping'[q] = "zeros"
  BY <1>5, <1>6 DEF Guard!Inv, Guard!BlamesRightClient, Guard!FaultsRemembered
<1> QED
  BY <1>5, <1>7, <1>8, <1>9 DEF Guard!Inv, Guard!NeverKilled, Guard!BlamesRightClient

\* A fault kills nobody, is remembered by the thread that met it, and is told to the
\* client whose pool it was: for every set of threads and pools, however deep they nest.
THEOREM GuardHolds ==
  ASSUME Guard!SigbusGuardAssumption PROVE Guard!Spec => [](Guard!Inv /\ Guard!FaultTold)
<1>1. Guard!Init => Guard!Inv
  BY GuardInit
<1>2. Guard!Inv /\ [Guard!Next]_(Guard!vars) => Guard!Inv'
  <2> SUFFICES ASSUME Guard!Inv, [Guard!Next]_(Guard!vars) PROVE Guard!Inv'
    OBVIOUS
  <2>1. CASE UNCHANGED Guard!vars
    BY <2>1 DEF Guard!vars, Guard!Inv, Guard!TypeOK, Guard!NeverKilled, Guard!BlamesRightClient,
                Guard!FaultsRemembered, Guard!Guarded
  <2> QED
    BY <2>1, GuardBegin, GuardFault, GuardEnd DEF Guard!Next
<1>3. Guard!Inv => Guard!FaultTold
  BY DEF Guard!Inv, Guard!FaultsRemembered, Guard!FaultTold, Guard!Guarded
<1> QED
  BY <1>1, <1>2, <1>3, PTL DEF Guard!Spec
------------------------------------------------------------------------------
(* Globals and their registries *)

\* An event more does not change what was known before it, and is the last word on its global.
LEMMA KnowsAppended ==
  ASSUME NEW seen, NEW told \in Seq(Registry!Events), NEW e \in Registry!Events, NEW p \in Registry!Announced
  PROVE  /\ \A k \in 0..Len(told) : Registry!Knows(seen, Append(told, e), k, p) = Registry!Knows(seen, told, k, p)
         /\ Registry!Knows(seen, Append(told, e), Len(told) + 1, p) =
              (e = Registry!Added(p) \/ (Registry!Knows(seen, told, Len(told), p) /\ e # Registry!Taken(p)))
<1> DEFINE more == Append(told, e)
           n == Len(told)
<1>1. n \in Nat /\ \A i \in 1..n : more[i] = told[i]
  OBVIOUS
<1>2. more[n + 1] = e
  OBVIOUS
<1>3. Registry!Added(p) # Registry!Taken(p)
  BY DEF Registry!Added, Registry!Taken
<1> HIDE DEF more, n
<1>4. ASSUME NEW k \in 0..n PROVE Registry!Knows(seen, more, k, p) = Registry!Knows(seen, told, k, p)
  <2>1. \A j \in 0..k : \A i \in j + 1 .. k : more[i] = told[i]
    BY <1>1
  <2>2. \A j \in 0..k : j # 0 => more[j] = told[j]
    BY <1>1
  <2>3. \A j \in 0..k :
          /\ IF j = 0 THEN p \in seen ELSE more[j] = Registry!Added(p)
          /\ \A i \in j + 1 .. k : more[i] # Registry!Taken(p)
        <=>
          /\ IF j = 0 THEN p \in seen ELSE told[j] = Registry!Added(p)
          /\ \A i \in j + 1 .. k : told[i] # Registry!Taken(p)
    BY <2>1, <2>2
  <2> QED
    BY <2>3 DEF Registry!Knows
<1>5. Registry!Knows(seen, more, n + 1, p) =
        (e = Registry!Added(p) \/ (Registry!Knows(seen, told, n, p) /\ e # Registry!Taken(p)))
  <2>1. ASSUME e = Registry!Added(p) PROVE Registry!Knows(seen, more, n + 1, p)
    BY <1>1, <1>2, <2>1 DEF Registry!Knows
  <2>2. ASSUME Registry!Knows(seen, told, n, p), e # Registry!Taken(p)
        PROVE  Registry!Knows(seen, more, n + 1, p)
    <3>1. PICK j \in 0..n : /\ IF j = 0 THEN p \in seen ELSE told[j] = Registry!Added(p)
                            /\ \A i \in j + 1 .. n : told[i] # Registry!Taken(p)
      BY <2>2 DEF Registry!Knows
    <3>2. \A i \in j + 1 .. n + 1 : more[i] # Registry!Taken(p)
      BY <1>1, <1>2, <2>2, <3>1
    <3>3. IF j = 0 THEN p \in seen ELSE more[j] = Registry!Added(p)
      BY <1>1, <3>1
    <3> QED
      BY <1>1, <3>2, <3>3 DEF Registry!Knows
  <2>3. ASSUME Registry!Knows(seen, more, n + 1, p), e # Registry!Added(p)
        PROVE  Registry!Knows(seen, told, n, p) /\ e # Registry!Taken(p)
    <3>1. PICK j \in 0..n + 1 : /\ IF j = 0 THEN p \in seen ELSE more[j] = Registry!Added(p)
                                /\ \A i \in j + 1 .. n + 1 : more[i] # Registry!Taken(p)
      BY <2>3 DEF Registry!Knows
    <3>2. j \in 0..n
      BY <1>1, <1>2, <2>3, <3>1
    <3>3. more[n + 1] # Registry!Taken(p)
      BY <1>1, <3>1, <3>2
    <3>4. \A i \in j + 1 .. n : told[i] # Registry!Taken(p)
      BY <1>1, <3>1, <3>2
    <3>5. IF j = 0 THEN p \in seen ELSE told[j] = Registry!Added(p)
      BY <1>1, <3>1, <3>2
    <3> QED
      BY <1>2, <3>2, <3>3, <3>4, <3>5 DEF Registry!Knows
  <2> QED
    BY <2>1, <2>2, <2>3 DEF Registry!Knows
<1> QED
  BY <1>4, <1>5 DEF more, n

\* A client that reads an event knows what it was about to.
LEMMA KnowsRead ==
  ASSUME NEW seen, NEW told \in Seq(Registry!Events), told # <<>>, NEW p \in Registry!Announced,
         NEW k \in 0..(Len(told) - 1)
  PROVE  Registry!Knows(Registry!Learnt(seen, Head(told)), Tail(told), k, p) = Registry!Knows(seen, told, k + 1, p)
<1> DEFINE rest == Tail(told)
           e == told[1]
           n == Len(told)
<1>1. /\ n \in Nat \ {0} /\ Head(told) = e /\ e \in Registry!Events
      /\ \A i \in 1..(n - 1) : rest[i] = told[i + 1]
  BY TailFacts
<1>2. e \in {<<"global", e[2], e[3]>>, <<"global_remove", e[2], e[3]>>}
  BY <1>1 DEF Registry!Events
<1>3. p = <<p[1], p[2]>>
  BY DEF Registry!Announced
<1>4. p \in Registry!Learnt(seen, e) <=>
        (e = Registry!Added(p) \/ (p \in seen /\ e # Registry!Taken(p)))
  BY <1>2, <1>3 DEF Registry!Learnt, Registry!Added, Registry!Taken
<1>5. k \in Nat /\ n \in Nat /\ k + 1 <= n
  BY <1>1
<1> HIDE DEF rest, e, n
<1>6. ASSUME Registry!Knows(Registry!Learnt(seen, e), rest, k, p) PROVE Registry!Knows(seen, told, k + 1, p)
  <2>1. PICK j \in 0..k : /\ IF j = 0 THEN p \in Registry!Learnt(seen, e) ELSE rest[j] = Registry!Added(p)
                          /\ \A i \in j + 1 .. k : rest[i] # Registry!Taken(p)
    BY <1>6 DEF Registry!Knows
  <2>2. ASSUME NEW i \in j + 2 .. k + 1 PROVE told[i] # Registry!Taken(p)
    <3>1. i - 1 \in j + 1 .. k /\ i - 1 \in 1..(n - 1) /\ i - 1 + 1 = i
      BY <1>5
    <3> QED
      BY <1>1, <2>1, <3>1
  <2>3. CASE j # 0
    <3>1. told[j + 1] = Registry!Added(p)
      BY <1>1, <1>5, <2>1, <2>3
    <3> QED
      BY <1>5, <2>2, <2>3, <3>1 DEF Registry!Knows
  <2>4. CASE j = 0 /\ e = Registry!Added(p)
    BY <1>5, <2>2, <2>4 DEF Registry!Knows, e
  <2>5. CASE j = 0 /\ e # Registry!Added(p)
    <3>1. p \in seen /\ e # Registry!Taken(p)
      BY <1>4, <2>1, <2>5
    <3>2. \A i \in 0 + 1 .. k + 1 : told[i] # Registry!Taken(p)
      BY <2>2, <2>5, <3>1 DEF e
    <3> QED
      BY <1>5, <3>1, <3>2 DEF Registry!Knows
  <2> QED
    BY <2>3, <2>4, <2>5
<1>7. ASSUME Registry!Knows(seen, told, k + 1, p) PROVE Registry!Knows(Registry!Learnt(seen, e), rest, k, p)
  <2>1. PICK j \in 0..(k + 1) : /\ IF j = 0 THEN p \in seen ELSE told[j] = Registry!Added(p)
                                /\ \A i \in j + 1 .. k + 1 : told[i] # Registry!Taken(p)
    BY <1>7 DEF Registry!Knows
  <2>2. ASSUME NEW i \in 1..k, i >= j PROVE rest[i] # Registry!Taken(p)
    <3>1. i \in 1..(n - 1) /\ i + 1 \in j + 1 .. k + 1
      BY <1>5, <2>2
    <3> QED
      BY <1>1, <2>1, <3>1
  <2>3. CASE j > 1
    <3>1. j - 1 \in 1..(n - 1) /\ j - 1 + 1 = j /\ j - 1 \in 0..k /\ j - 1 # 0
      BY <1>5, <2>3
    <3>2. rest[j - 1] = Registry!Added(p)
      BY <1>1, <2>1, <3>1
    <3>3. \A i \in j - 1 + 1 .. k : rest[i] # Registry!Taken(p)
      BY <2>2, <3>1
    <3> QED
      BY <3>1, <3>2, <3>3 DEF Registry!Knows
  <2>4. CASE j <= 1
    <3>1. p \in Registry!Learnt(seen, e)
      <4>1. CASE j = 0
        <5>1. 1 \in 0 + 1 .. k + 1
          BY <1>5
        <5> QED
          BY <1>4, <2>1, <4>1, <5>1 DEF e
      <4>2. CASE j = 1
        BY <1>4, <2>1, <4>2 DEF e
      <4> QED
        BY <2>4, <4>1, <4>2
    <3>2. \A i \in 0 + 1 .. k : rest[i] # Registry!Taken(p)
      BY <2>2, <2>4
    <3> QED
      BY <1>5, <3>1, <3>2 DEF Registry!Knows
  <2> QED
    BY <2>3, <2>4
<1> QED
  BY <1>1, <1>6, <1>7 DEF rest, e, Registry!Knows

\* An event is an announcement or a removal of one global.
LEMMA EventKinds ==
  ASSUME NEW e \in Registry!Events
  PROVE  /\ <<e[2], e[3]>> \in Registry!Announced
         /\ e[1] = "global" => e = Registry!Added(<<e[2], e[3]>>) /\ e # Registry!Taken(<<e[2], e[3]>>)
         /\ e[1] # "global" => e = Registry!Taken(<<e[2], e[3]>>) /\ e # Registry!Added(<<e[2], e[3]>>)
         /\ \A p \in Registry!Announced :
              (e = Registry!Added(p) <=> e[1] = "global" /\ p = <<e[2], e[3]>>)
              /\ (e = Registry!Taken(p) <=> e[1] # "global" /\ p = <<e[2], e[3]>>)
<1>1. e \in {"global", "global_remove"} \X Registry!Names \X Interfaces
  BY DEF Registry!Events
<1>2. e = <<e[1], e[2], e[3]>> /\ e[1] \in {"global", "global_remove"} /\ e[2] \in Registry!Names /\ e[3] \in Interfaces
  BY <1>1
<1>3. \A p \in Registry!Announced : p = <<p[1], p[2]>>
  BY DEF Registry!Announced
<1> QED
  BY <1>2, <1>3 DEF Registry!Announced, Registry!Added, Registry!Taken

\* An event that fits what the client will believe, and what it will believe then.
LEMMA SenseAppended ==
  ASSUME NEW seen, NEW told \in Seq(Registry!Events), NEW e \in Registry!Events, Registry!MakeSense(seen, told),
         (e[1] = "global") <=> (<<e[2], e[3]>> \notin Registry!After(seen, told, Len(told)))
  PROVE  /\ Registry!MakeSense(seen, Append(told, e))
         /\ Registry!After(seen, Append(told, e), Len(Append(told, e)))
              = Registry!Learnt(Registry!After(seen, told, Len(told)), e)
<1>1. \A p \in Registry!Announced :
        /\ \A k \in 0..Len(told) : Registry!Knows(seen, Append(told, e), k, p) = Registry!Knows(seen, told, k, p)
        /\ Registry!Knows(seen, Append(told, e), Len(told) + 1, p) =
             (e = Registry!Added(p) \/ (Registry!Knows(seen, told, Len(told), p) /\ e # Registry!Taken(p)))
  BY KnowsAppended
<1>2. \A k \in 0..Len(told) : Registry!After(seen, Append(told, e), k) = Registry!After(seen, told, k)
  BY <1>1 DEF Registry!After
<1>3. /\ Len(told) \in Nat /\ Len(Append(told, e)) = Len(told) + 1 /\ DOMAIN told = 1..Len(told)
      /\ DOMAIN Append(told, e) = 1..(Len(told) + 1)
      /\ \A k \in 1..Len(told) : Append(told, e)[k] = told[k]
      /\ Append(told, e)[Len(told) + 1] = e
  OBVIOUS
<1>4. Registry!MakeSense(seen, Append(told, e))
  <2>1. ASSUME NEW k \in 1..Len(told)
        PROVE  (told[k][1] = "global") <=> (<<told[k][2], told[k][3]>> \notin Registry!After(seen, Append(told, e), k - 1))
    <3>1. k - 1 \in 0..Len(told)
      BY <1>3
    <3> QED
      BY <1>2, <1>3, <3>1 DEF Registry!MakeSense
  <2>2. (e[1] = "global") <=> (<<e[2], e[3]>> \notin Registry!After(seen, Append(told, e), Len(told) + 1 - 1))
    <3>1. Len(told) + 1 - 1 = Len(told) /\ Len(told) \in 0..Len(told)
      BY <1>3
    <3> QED
      BY <1>2, <3>1
  <2>3. \A k \in DOMAIN Append(told, e) : k \in 1..Len(told) \/ k = Len(told) + 1
    BY <1>3
  <2> QED
    BY <1>3, <2>1, <2>2, <2>3 DEF Registry!MakeSense
<1>5. ASSUME NEW p \in Registry!Announced
      PROVE  Registry!Knows(seen, Append(told, e), Len(told) + 1, p)
               <=> p \in Registry!Learnt(Registry!After(seen, told, Len(told)), e)
  <2>1. /\ e = Registry!Added(p) <=> e[1] = "global" /\ p = <<e[2], e[3]>>
        /\ e = Registry!Taken(p) <=> e[1] # "global" /\ p = <<e[2], e[3]>>
    BY EventKinds
  <2>2. p \in Registry!After(seen, told, Len(told)) <=> Registry!Knows(seen, told, Len(told), p)
    BY DEF Registry!After
  <2>3. p \in Registry!Learnt(Registry!After(seen, told, Len(told)), e)
          <=> (e = Registry!Added(p) \/ (Registry!Knows(seen, told, Len(told), p) /\ e # Registry!Taken(p)))
    BY <2>1, <2>2 DEF Registry!Learnt
  <2> QED
    BY <1>1, <2>3
<1>6. Registry!Learnt(Registry!After(seen, told, Len(told)), e) \subseteq Registry!Announced
  BY EventKinds DEF Registry!Learnt, Registry!After
<1>7. Registry!After(seen, Append(told, e), Len(told) + 1) = Registry!Learnt(Registry!After(seen, told, Len(told)), e)
  BY <1>5, <1>6 DEF Registry!After
<1> QED
  BY <1>3, <1>4, <1>7

\* What the client reads does not change what it will believe.
LEMMA SenseRead ==
  ASSUME NEW seen, NEW told \in Seq(Registry!Events), told # <<>>, Registry!MakeSense(seen, told)
  PROVE  /\ Registry!MakeSense(Registry!Learnt(seen, Head(told)), Tail(told))
         /\ Registry!After(Registry!Learnt(seen, Head(told)), Tail(told), Len(Tail(told)))
              = Registry!After(seen, told, Len(told))
<1> DEFINE then == Registry!Learnt(seen, Head(told))
           rest == Tail(told)
<1>1. \A p \in Registry!Announced : \A k \in 0..(Len(told) - 1) :
        Registry!Knows(then, rest, k, p) = Registry!Knows(seen, told, k + 1, p)
  BY KnowsRead
<1>2. \A k \in 0..(Len(told) - 1) : Registry!After(then, rest, k) = Registry!After(seen, told, k + 1)
  BY <1>1 DEF Registry!After
<1>3. /\ Len(told) \in Nat \ {0} /\ Len(rest) = Len(told) - 1 /\ DOMAIN told = 1..Len(told)
      /\ DOMAIN rest = 1..Len(rest) /\ \A k \in 1..Len(rest) : rest[k] = told[k + 1] /\ k + 1 \in 1..Len(told)
  BY TailFacts
<1> HIDE DEF then, rest
<1>4. ASSUME NEW k \in 1..Len(rest)
      PROVE  (rest[k][1] = "global") <=> (<<rest[k][2], rest[k][3]>> \notin Registry!After(then, rest, k - 1))
  <2>1. k - 1 \in 0..(Len(told) - 1) /\ k - 1 + 1 = k /\ k + 1 \in DOMAIN told /\ k + 1 - 1 = k /\ rest[k] = told[k + 1]
    BY <1>3
  <2>2. Registry!After(then, rest, k - 1) = Registry!After(seen, told, k)
    BY <1>2, <2>1
  <2>3. (told[k + 1][1] = "global") <=> (<<told[k + 1][2], told[k + 1][3]>> \notin Registry!After(seen, told, k))
    BY <2>1 DEF Registry!MakeSense
  <2> QED
    BY <2>1, <2>2, <2>3
<1>5. Registry!MakeSense(then, rest)
  BY <1>3, <1>4 DEF Registry!MakeSense
<1>6. Registry!After(then, rest, Len(rest)) = Registry!After(seen, told, Len(told))
  <2>1. Len(rest) \in 0..(Len(told) - 1) /\ Len(rest) + 1 = Len(told)
    BY <1>3
  <2> QED
    BY <1>2, <2>1
<1> QED
  BY <1>5, <1>6 DEF then, rest

\* A registry's first events announce globals, each once.
LEMMA SenseFirst ==
  ASSUME NEW told \in Seq(Registry!Events),
         \A k \in 1..Len(told) : told[k][1] = "global",
         \A j, k \in 1..Len(told) : j < k => <<told[j][2], told[j][3]>> # <<told[k][2], told[k][3]>>
  PROVE  /\ Registry!MakeSense({}, told)
         /\ Registry!After({}, told, Len(told)) = {<<told[k][2], told[k][3]>> : k \in 1..Len(told)}
<1>1. Len(told) \in Nat /\ DOMAIN told = 1..Len(told) /\ \A k \in 1..Len(told) : told[k] \in Registry!Events
  OBVIOUS
<1>2. ASSUME NEW p \in Registry!Announced, NEW k \in 0..Len(told)
      PROVE  Registry!Knows({}, told, k, p) <=> \E j \in 1..k : p = <<told[j][2], told[j][3]>>
  <2>1. \A j \in 1..k : told[j] # Registry!Taken(p) /\ (told[j] = Registry!Added(p) <=> p = <<told[j][2], told[j][3]>>)
    <3>1. \A j \in 1..k : j \in 1..Len(told)
      BY <1>1
    <3> QED
      BY <1>1, <3>1, EventKinds
  <2>2. \A j \in 0..k : \A i \in j + 1 .. k : told[i] # Registry!Taken(p)
    BY <1>1, <2>1
  <2>3. Registry!Knows({}, told, k, p) <=> \E j \in 1..k : told[j] = Registry!Added(p)
    <3>1. (\E j \in 1..k : told[j] = Registry!Added(p)) => Registry!Knows({}, told, k, p)
      <4> SUFFICES ASSUME NEW j \in 1..k, told[j] = Registry!Added(p) PROVE Registry!Knows({}, told, k, p)
        OBVIOUS
      <4>1. j \in 0..k /\ j # 0
        BY <1>1
      <4> QED
        BY <2>2, <4>1 DEF Registry!Knows
    <3>2. Registry!Knows({}, told, k, p) => \E j \in 1..k : told[j] = Registry!Added(p)
      <4> SUFFICES ASSUME Registry!Knows({}, told, k, p) PROVE \E j \in 1..k : told[j] = Registry!Added(p)
        OBVIOUS
      <4>1. PICK j \in 0..k : IF j = 0 THEN p \in {} ELSE told[j] = Registry!Added(p)
        BY DEF Registry!Knows
      <4>2. j \in 1..k
        BY <1>1, <4>1
      <4> QED
        BY <4>1, <4>2
    <3> QED
      BY <3>1, <3>2
  <2> QED
    BY <2>1, <2>3
<1>3. Registry!MakeSense({}, told)
  <2> SUFFICES ASSUME NEW k \in 1..Len(told)
               PROVE  <<told[k][2], told[k][3]>> \notin Registry!After({}, told, k - 1)
    BY <1>1 DEF Registry!MakeSense
  <2>1. k - 1 \in 0..Len(told) /\ \A j \in 1..(k - 1) : j < k /\ j \in 1..Len(told)
    BY <1>1
  <2>2. <<told[k][2], told[k][3]>> \in Registry!Announced
    BY <1>1, EventKinds
  <2>3. ~Registry!Knows({}, told, k - 1, <<told[k][2], told[k][3]>>)
    <3> DEFINE p == <<told[k][2], told[k][3]>>
    <3>1. \A j \in 1..(k - 1) : p # <<told[j][2], told[j][3]>>
      BY <2>1
    <3>2. p \in Registry!Announced
      BY <2>2
    <3> HIDE DEF p
    <3>3. ~Registry!Knows({}, told, k - 1, p)
      BY <1>2, <2>1, <3>1, <3>2
    <3> QED
      BY <3>3 DEF p
  <2> QED
    BY <2>3 DEF Registry!After
<1>4. Registry!After({}, told, Len(told)) = {<<told[k][2], told[k][3]>> : k \in 1..Len(told)}
  <2>1. \A k \in 1..Len(told) : <<told[k][2], told[k][3]>> \in Registry!Announced
    BY <1>1, EventKinds
  <2>2. Len(told) \in 0..Len(told)
    BY <1>1
  <2> QED
    BY <1>2, <2>1, <2>2 DEF Registry!After
<1> QED
  BY <1>3, <1>4

\* At first there is no global and no client.
LEMMA RegistryInit ==
  ASSUME Registry!GlobalsAssumption, Registry!Init
  PROVE  Registry!Inv
<1> USE DEF Registry!Init
<1>1. Registry!TypeOK
  BY DEF Registry!TypeOK, Registry!GlobalsAssumption
<1>2. Registry!ViewInSync /\ Registry!HiddenNeverBound /\ Registry!RegistriesAlive /\ Registry!AsksOnce /\ Registry!KnownCanBeBound
  BY DEF Registry!ViewInSync, Registry!HiddenNeverBound, Registry!RegistriesAlive, Registry!AsksOnce, Registry!KnownCanBeBound
<1>3. Registry!EventsMakeSense
  BY DEF Registry!EventsMakeSense, Registry!MakeSense
<1>4. Registry!Mentioned = {}
  BY DEF Registry!Mentioned, Registry!ToSet
<1>5. Registry!NamesMeanOne
  BY <1>4 DEF Registry!NamesMeanOne
<1> QED
  BY <1>1, <1>2, <1>3, <1>5 DEF Registry!Inv

\* Nothing is mentioned but in a global, a view or an event.
LEMMA MentionedIn ==
  ASSUME Registry!TypeOK
  PROVE  /\ \A g \in global_list : <<g.name, g.interface>> \in Registry!Mentioned
         /\ \A c \in Clients : view[c] \subseteq Registry!Mentioned
         /\ \A c \in Clients : \A k \in 1..Len(events[c]) : <<events[c][k][2], events[c][k][3]>> \in Registry!Mentioned
         /\ \A c \in Clients : events[c] \in Seq(Registry!Events) /\ DOMAIN events[c] = 1..Len(events[c])
         /\ Registry!Mentioned \subseteq Registry!Announced
<1>1. \A c \in Clients : events[c] \in Seq(Registry!Events) /\ DOMAIN events[c] = 1..Len(events[c])
  BY DEF Registry!TypeOK
<1>2. \A c \in Clients : Registry!ToSet(events[c]) = {events[c][k] : k \in 1..Len(events[c])}
  BY <1>1 DEF Registry!ToSet
<1>3. \A c \in Clients : \A e \in Registry!ToSet(events[c]) : e \in Registry!Events
  <2>1. \A c \in Clients : \A k \in 1..Len(events[c]) : events[c][k] \in Registry!Events
    BY <1>1
  <2> QED
    BY <1>2, <2>1
<1>4. Registry!Mentioned \subseteq Registry!Announced
  <2>1. \A g \in global_list : <<g.name, g.interface>> \in Registry!Announced
    BY DEF Registry!TypeOK, Registry!Global, Registry!Announced
  <2>2. \A c \in Clients : view[c] \subseteq Registry!Announced
    BY DEF Registry!TypeOK
  <2>3. \A c \in Clients : \A e \in Registry!ToSet(events[c]) : <<e[2], e[3]>> \in Registry!Announced
    BY <1>3, EventKinds
  <2> QED
    BY <2>1, <2>2, <2>3 DEF Registry!Mentioned
<1>5. \A g \in global_list : <<g.name, g.interface>> \in Registry!Mentioned
  BY DEF Registry!Mentioned
<1>6. \A c \in Clients : view[c] \subseteq Registry!Mentioned
  BY DEF Registry!Mentioned
<1>7. \A c \in Clients : \A k \in 1..Len(events[c]) : <<events[c][k][2], events[c][k][3]>> \in Registry!Mentioned
  BY <1>2, SMTT(60) DEF Registry!Mentioned
<1> QED
  BY <1>1, <1>4, <1>5, <1>6, <1>7

\* A name means one global as long as nothing new is mentioned.
LEMMA NamesKept ==
  ASSUME Registry!Inv, Registry!Mentioned' \subseteq Registry!Mentioned, UNCHANGED next_global_name,
         \A g, h \in global_list' : g.name = h.name => g = h
  PROVE  Registry!NamesMeanOne'
BY DEF Registry!Inv, Registry!NamesMeanOne

\* What mentions something after a step.
LEMMA MentionedBy ==
  ASSUME NEW S,
         \A g \in global_list' : <<g.name, g.interface>> \in S,
         \A c \in Clients : view'[c] \subseteq S,
         \A c \in Clients : events'[c] \in Seq(Registry!Events),
         \A c \in Clients : \A k \in 1..Len(events'[c]) : <<events'[c][k][2], events'[c][k][3]>> \in S
  PROVE  Registry!Mentioned' \subseteq S
<1>1. \A c \in Clients : Registry!ToSet(events'[c]) = {events'[c][k] : k \in 1..Len(events'[c])}
  BY DEF Registry!ToSet
<1>2. ASSUME NEW c \in Clients PROVE {<<e[2], e[3]>> : e \in Registry!ToSet(events'[c])} \subseteq S
  BY <1>1
<1>3. ASSUME NEW c \in Clients PROVE view'[c] \cup {<<e[2], e[3]>> : e \in Registry!ToSet(events'[c])} \subseteq S
  BY <1>2
<1>4. {<<g.name, g.interface>> : g \in global_list'} \subseteq S
  OBVIOUS
<1> QED
  BY <1>3, <1>4 DEF Registry!Mentioned

\* What a client is posted about a global, if anything.
PostedTo(c, kind, n, i) ==
  /\ events[c] \in Seq(Registry!Events) /\ DOMAIN events[c] = 1..Len(events[c]) /\ Len(events[c]) \in Nat
  /\ events'[c] \in Seq(Registry!Events) /\ DOMAIN events'[c] = 1..Len(events'[c])
  /\ IF c \in registries /\ client[c] = "alive" /\ Registry!IsVisible(c, i)
     THEN /\ events'[c] = Append(events[c], <<kind, n, i>>)
          /\ \A k \in 1..Len(events'[c]) :
               \/ k \in 1..Len(events[c]) /\ events'[c][k] = events[c][k]
               \/ events'[c][k] = <<kind, n, i>>
     ELSE events'[c] = events[c]

\* It is what the clients concerned are posted.
LEMMA Posted ==
  ASSUME Registry!TypeOK, NEW kind \in {"global", "global_remove"}, NEW n \in Registry!Names, NEW i \in Interfaces,
         Registry!Post(kind, n, i), NEW c \in Clients
  PROVE  PostedTo(c, kind, n, i)
<1>1. <<kind, n, i>> \in Registry!Events
  BY DEF Registry!Events
<1>2. events[c] \in Seq(Registry!Events)
  BY DEF Registry!TypeOK
<1>3. events'[c] = IF c \in registries /\ client[c] = "alive" /\ Registry!IsVisible(c, i)
                   THEN Append(events[c], <<kind, n, i>>) ELSE events[c]
  BY DEF Registry!Post
<1>4. Append(events[c], <<kind, n, i>>) \in Seq(Registry!Events)
  BY <1>1, <1>2
<1>5. \A k \in 1..Len(Append(events[c], <<kind, n, i>>)) :
        \/ k \in 1..Len(events[c]) /\ Append(events[c], <<kind, n, i>>)[k] = events[c][k]
        \/ Append(events[c], <<kind, n, i>>)[k] = <<kind, n, i>>
  BY <1>1, <1>2
<1>6. DOMAIN events[c] = 1..Len(events[c]) /\ Len(events[c]) \in Nat
  BY <1>2
<1>7. DOMAIN events'[c] = 1..Len(events'[c])
  BY <1>2, <1>3, <1>4
<1> QED
  BY <1>2, <1>3, <1>4, <1>5, <1>6, <1>7 DEF PostedTo

\* The events stay sequences of events.
LEMMA PostedTypes ==
  ASSUME Registry!TypeOK, NEW kind \in {"global", "global_remove"}, NEW n \in Registry!Names, NEW i \in Interfaces,
         Registry!Post(kind, n, i)
  PROVE  events' \in [Clients -> Seq(Registry!Events)]
<1>1. \A c \in Clients : PostedTo(c, kind, n, i)
  BY Posted
<1>2. DOMAIN events' = Clients /\ events' = [c \in Clients |-> events'[c]]
  BY DEF Registry!Post
<1> QED
  BY <1>1, <1>2 DEF PostedTo

\* An event about a global fits what its clients believe, and they believe in what there is.
LEMMA PostedInSync ==
  ASSUME Registry!Inv, NEW kind \in {"global", "global_remove"}, NEW n \in Registry!Names, NEW i \in Interfaces,
         Registry!Post(kind, n, i), UNCHANGED <<client, registries, view>>,
         \A c \in Clients : Registry!IsVisible(c, i) => (kind = "global" <=> <<n, i>> \notin Registry!Shown(c)),
         \A c \in Clients : Registry!IsVisible(c, i) => Registry!Shown(c)' = Registry!Learnt(Registry!Shown(c), <<kind, n, i>>),
         \A c \in Clients : ~Registry!IsVisible(c, i) => Registry!Shown(c)' = Registry!Shown(c)
  PROVE  Registry!ViewInSync' /\ Registry!EventsMakeSense'
<1> DEFINE e == <<kind, n, i>>
<1>1. Registry!TypeOK
  BY DEF Registry!Inv
<1>2. e \in Registry!Events /\ e[1] = kind /\ e[2] = n /\ e[3] = i
  BY DEF Registry!Events
<1>3. \A c \in Clients : events[c] \in Seq(Registry!Events) /\ Registry!MakeSense(view[c], events[c])
  BY <1>1 DEF Registry!TypeOK, Registry!Inv, Registry!EventsMakeSense
<1>4. ASSUME NEW c \in Clients
      PROVE  /\ Registry!MakeSense(view[c], events'[c])
             /\ c \in registries /\ client[c] = "alive" =>
                  Registry!After(view[c], events'[c], Len(events'[c])) = Registry!Shown(c)'
  <2>1. c \in registries /\ client[c] = "alive" => Registry!After(view[c], events[c], Len(events[c])) = Registry!Shown(c)
    BY DEF Registry!Inv, Registry!ViewInSync, Registry!ViewAfter
  <2>4. PostedTo(c, kind, n, i)
    BY <1>1, Posted
  <2>2. CASE c \in registries /\ client[c] = "alive" /\ Registry!IsVisible(c, i)
    <3>1. events'[c] = Append(events[c], e)
      BY <2>2, <2>4 DEF PostedTo
    <3>2. e[1] = "global" <=> <<e[2], e[3]>> \notin Registry!After(view[c], events[c], Len(events[c]))
      BY <1>2, <2>1, <2>2
    <3> HIDE DEF e
    <3>3. Registry!MakeSense(view[c], Append(events[c], e)) /\
            Registry!After(view[c], Append(events[c], e), Len(Append(events[c], e)))
              = Registry!Learnt(Registry!After(view[c], events[c], Len(events[c])), e)
      BY <1>2, <1>3, <3>2, SenseAppended
    <3> QED
      BY <2>1, <2>2, <3>1, <3>3 DEF e
  <2>3. CASE ~(c \in registries /\ client[c] = "alive" /\ Registry!IsVisible(c, i))
    <3>1. events'[c] = events[c]
      BY <2>3, <2>4 DEF PostedTo
    <3> QED
      BY <1>3, <2>1, <2>3, <3>1
  <2> QED
    BY <2>2, <2>3
<1>5. Registry!EventsMakeSense'
  BY <1>4 DEF Registry!EventsMakeSense
<1>6. Registry!ViewInSync'
  BY <1>4 DEF Registry!ViewInSync, Registry!ViewAfter, Registry!Inv, Registry!TypeOK
<1> QED
  BY <1>5, <1>6

\* What a client knows of after a post, it knew of before or was just told of.
LEMMA PostedKnown ==
  ASSUME Registry!TypeOK, NEW kind \in {"global", "global_remove"}, NEW n \in Registry!Names, NEW i \in Interfaces,
         Registry!Post(kind, n, i), UNCHANGED <<requests, view>>,
         NEW c \in Clients, NEW p \in Registry!Announced, Registry!KnowsOf(c, p)'
  PROVE  Registry!KnowsOf(c, p) \/ (kind = "global" /\ p = <<n, i>> /\ Registry!IsVisible(c, i))
<1>1. PostedTo(c, kind, n, i) /\ p = <<p[1], p[2]>>
  BY Posted DEF Registry!Announced
<1>2. ASSUME NEW k \in DOMAIN events'[c], events'[c][k] = Registry!Added(p)
      PROVE  Registry!KnowsOf(c, p) \/ (kind = "global" /\ p = <<n, i>> /\ Registry!IsVisible(c, i))
  <2>1. CASE k \in DOMAIN events[c] /\ events'[c][k] = events[c][k]
    BY <1>2, <2>1 DEF Registry!KnowsOf
  <2>2. CASE events'[c][k] = <<kind, n, i>> /\ Registry!IsVisible(c, i)
    BY <1>1, <1>2, <2>2 DEF Registry!Added
  <2> QED
    BY <1>1, <2>1, <2>2 DEF PostedTo
<1> QED
  BY <1>2 DEF Registry!KnowsOf

\* wl_global_create tells those who may see the global, by a name that nobody has heard of.
LEMMA CreateStep ==
  ASSUME Registry!GlobalsAssumption, Registry!Inv, NEW i \in Interfaces, Registry!Create(i)
  PROVE  Registry!Inv'
<1> DEFINE n == next_global_name
           new == [name |-> n, interface |-> i, removed |-> FALSE]
<1>1. /\ Registry!TypeOK /\ n \in Registry!Names /\ n \in Nat /\ Registry!Post("global", n, i)
      /\ global_list' = global_list \cup {new} /\ next_global_name' = n + 1
      /\ UNCHANGED <<patient, client, registries, requests, view, bound>>
      /\ n + 1 \in 1..Limit
  BY DEF Registry!Create, Registry!NextName, Registry!Inv, Registry!TypeOK, Registry!Names, Registry!GlobalsAssumption
<1>2. new \in Registry!Global /\ new.name = n /\ new.interface = i /\ ~new.removed
  BY <1>1 DEF Registry!Global
<1>3. /\ \A p \in Registry!Mentioned : p[1] < n /\ p[1] \in Nat
      /\ \A p, q \in Registry!Mentioned : p[1] = q[1] => p = q
      /\ \A g, h \in global_list : g.name = h.name => g = h
  BY <1>1, MentionedIn DEF Registry!Inv, Registry!NamesMeanOne, Registry!Announced, Registry!Names
<1>4. \A g \in global_list : g \in Registry!Global /\ g.name # n /\ g.name \in Registry!Names /\ g.interface \in Interfaces
  <2>1. ASSUME NEW g \in global_list PROVE g.name # n
    <3>1. <<g.name, g.interface>> \in Registry!Mentioned
      BY <1>1, MentionedIn
    <3>2. <<g.name, g.interface>>[1] < n
      BY <1>3, <3>1
    <3> QED
      BY <1>1, <3>2
  <2> QED
    BY <1>1, <2>1 DEF Registry!TypeOK, Registry!Global
<1>5. \A c \in Clients : PostedTo(c, "global", n, i)
  BY <1>1, Posted
<1>6. events' \in [Clients -> Seq(Registry!Events)]
  BY <1>1, PostedTypes
<1> HIDE DEF n, new
<1>7. Registry!TypeOK'
  BY <1>1, <1>2, <1>6 DEF Registry!TypeOK
<1>8. ASSUME NEW c \in Clients
      PROVE  /\ <<n, i>> \notin Registry!Shown(c)
             /\ Registry!IsVisible(c, i) =>
                  Registry!Shown(c)' = Registry!Learnt(Registry!Shown(c), <<"global", n, i>>)
             /\ ~Registry!IsVisible(c, i) => Registry!Shown(c)' = Registry!Shown(c)
  <2>1. <<n, i>> \notin Registry!Shown(c)
    BY <1>1, <1>4 DEF Registry!Shown
  <2>2. \A p \in Registry!Announced : (\E g \in global_list' :
            <<g.name, g.interface>> = p /\ ~g.removed /\ <<c, g.interface>> \notin Hidden)
          <=> (p \in Registry!Shown(c) \/ (p = <<n, i>> /\ Registry!IsVisible(c, i)))
    BY <1>1, <1>2 DEF Registry!Shown, Registry!IsVisible
  <2>3. Registry!Learnt(Registry!Shown(c), <<"global", n, i>>) = Registry!Shown(c) \cup {<<n, i>>}
    BY DEF Registry!Learnt
  <2>4. <<n, i>> \in Registry!Announced /\ Registry!Shown(c) \subseteq Registry!Announced
    BY <1>1 DEF Registry!Announced, Registry!Shown
  <2>5. Registry!Shown(c)' = {p \in Registry!Announced : p \in Registry!Shown(c) \/ (p = <<n, i>> /\ Registry!IsVisible(c, i))}
    BY <2>2 DEF Registry!Shown
  <2> QED
    BY <2>1, <2>3, <2>4, <2>5
<1>9. Registry!ViewInSync' /\ Registry!EventsMakeSense'
  BY <1>1, <1>8, PostedInSync
<1>10. Registry!NamesMeanOne'
  <2> DEFINE S == Registry!Mentioned \cup {<<n, i>>}
  <2>1. ASSUME NEW c \in Clients, NEW k \in 1..Len(events'[c])
        PROVE  <<events'[c][k][2], events'[c][k][3]>> \in S
    <3>1. CASE k \in 1..Len(events[c]) /\ events'[c][k] = events[c][k]
      BY <1>1, <3>1, MentionedIn
    <3>2. CASE events'[c][k] = <<"global", n, i>>
      BY <3>2
    <3>3. PostedTo(c, "global", n, i)
      BY <1>5
    <3> QED
      BY <3>1, <3>2, <3>3 DEF PostedTo
  <2>2. \A g \in global_list' : <<g.name, g.interface>> \in S
    BY <1>1, <1>2, MentionedIn
  <2>3. \A c \in Clients : view'[c] \subseteq S
    BY <1>1, MentionedIn
  <2>4. Registry!Mentioned' \subseteq S
    <3> HIDE DEF S
    <3> QED
      BY <1>6, <2>1, <2>2, <2>3, MentionedBy
  <2>5. \A p \in S : p[1] < n + 1
    BY <1>1, <1>3
  <2>6. \A p, q \in S : p[1] = q[1] => p = q
    BY <1>1, <1>3
  <2>7. \A g, h \in global_list' : g.name = h.name => g = h
    BY <1>1, <1>2, <1>3, <1>4
  <2> HIDE DEF S
  <2> QED
    BY <1>1, <2>4, <2>5, <2>6, <2>7 DEF Registry!NamesMeanOne
<1>11. Registry!AsksOnce'
  BY <1>1, <1>5 DEF Registry!Inv, Registry!AsksOnce, PostedTo
<1>12. Registry!KnownCanBeBound'
  <2> SUFFICES ASSUME patient, NEW c \in Clients, c \in registries, client[c] = "alive", NEW p \in Registry!Announced,
                      Registry!KnowsOf(c, p)'
               PROVE  Registry!Bindable(c, p)'
    BY <1>1 DEF Registry!KnownCanBeBound, Registry!TypeOK
  <2>1. Registry!KnowsOf(c, p) => Registry!Bindable(c, p)
    BY DEF Registry!Inv, Registry!KnownCanBeBound
  <2>2. Registry!KnowsOf(c, p) \/ (p = <<n, i>> /\ Registry!IsVisible(c, i))
    BY <1>1, PostedKnown
  <2>3. p = <<n, i>> /\ Registry!IsVisible(c, i) => Registry!Bindable(c, p)'
    BY <1>1, <1>2 DEF Registry!Bindable, Registry!IsVisible
  <2>4. Registry!Bindable(c, p) => Registry!Bindable(c, p)'
    BY <1>1 DEF Registry!Bindable
  <2> QED
    BY <2>1, <2>2, <2>3, <2>4
<1>13. Registry!HiddenNeverBound' /\ Registry!RegistriesAlive'
  BY <1>1 DEF Registry!Inv, Registry!HiddenNeverBound, Registry!RegistriesAlive
<1> QED
  BY <1>7, <1>9, <1>10, <1>11, <1>12, <1>13 DEF Registry!Inv

\* What the removal of a global leaves to be shown, and the rest of the state.
LEMMA RemovalPosted ==
  ASSUME Registry!Inv, NEW g \in global_list, ~g.removed, Registry!Post("global_remove", g.name, g.interface),
         UNCHANGED <<patient, next_global_name, client, registries, requests, view, bound>>,
         NEW rest \in SUBSET {[g EXCEPT !.removed = TRUE]}, global_list' = (global_list \ {g}) \cup rest
  PROVE  /\ Registry!TypeOK' /\ Registry!ViewInSync' /\ Registry!EventsMakeSense' /\ Registry!NamesMeanOne'
         /\ Registry!AsksOnce' /\ Registry!HiddenNeverBound' /\ Registry!RegistriesAlive'
<1> DEFINE n == g.name
           i == g.interface
<1>1. /\ Registry!TypeOK /\ g \in Registry!Global /\ n \in Registry!Names /\ i \in Interfaces
      /\ \A h \in global_list : h.name = n => h = g
      /\ \A h \in rest : h \in Registry!Global /\ h.name = n /\ h.interface = i /\ h.removed
      /\ \A h, k \in rest : h = k
  BY DEF Registry!Inv, Registry!TypeOK, Registry!Global, Registry!NamesMeanOne
<1>2. \A c \in Clients : PostedTo(c, "global_remove", n, i)
  BY <1>1, Posted
<1>3. events' \in [Clients -> Seq(Registry!Events)]
  BY <1>1, PostedTypes
<1>4. Registry!TypeOK'
  BY <1>1, <1>3 DEF Registry!TypeOK
<1>5. ASSUME NEW c \in Clients
      PROVE  /\ Registry!IsVisible(c, i) => <<n, i>> \in Registry!Shown(c)
             /\ Registry!IsVisible(c, i) =>
                  Registry!Shown(c)' = Registry!Learnt(Registry!Shown(c), <<"global_remove", n, i>>)
             /\ ~Registry!IsVisible(c, i) => Registry!Shown(c)' = Registry!Shown(c)
  <2>1. <<n, i>> \in Registry!Announced
    BY <1>1 DEF Registry!Announced
  <2>2. Registry!IsVisible(c, i) => <<n, i>> \in Registry!Shown(c)
    BY <2>1 DEF Registry!Shown, Registry!IsVisible
  <2>3. ASSUME NEW p \in Registry!Announced
        PROVE  p \in Registry!Shown(c)' <=> p \in Registry!Shown(c) /\ (Registry!IsVisible(c, i) => p # <<n, i>>)
    <3>1. p \in Registry!Shown(c)' => p \in Registry!Shown(c) /\ p # <<n, i>>
      <4> SUFFICES ASSUME p \in Registry!Shown(c)' PROVE p \in Registry!Shown(c) /\ p # <<n, i>>
        OBVIOUS
      <4>1. PICK h \in global_list' : <<h.name, h.interface>> = p /\ ~h.removed /\ <<c, h.interface>> \notin Hidden
        BY DEF Registry!Shown
      <4>2. h \in global_list /\ h # g
        BY <1>1, <4>1
      <4> QED
        BY <1>1, <4>1, <4>2 DEF Registry!Shown
    <3>2. p \in Registry!Shown(c) /\ (Registry!IsVisible(c, i) => p # <<n, i>>) => p \in Registry!Shown(c)'
      <4> SUFFICES ASSUME p \in Registry!Shown(c), Registry!IsVisible(c, i) => p # <<n, i>> PROVE p \in Registry!Shown(c)'
        OBVIOUS
      <4>1. PICK h \in global_list : <<h.name, h.interface>> = p /\ ~h.removed /\ <<c, h.interface>> \notin Hidden
        BY DEF Registry!Shown
      <4>2. h # g
        BY <4>1 DEF Registry!IsVisible
      <4>3. h \in global_list'
        BY <4>2
      <4> QED
        BY <4>1, <4>3 DEF Registry!Shown
    <3> QED
      BY <3>1, <3>2
  <2>4. Registry!Shown(c) \subseteq Registry!Announced /\ Registry!Shown(c)' \subseteq Registry!Announced
    BY DEF Registry!Shown
  <2>5. Registry!Learnt(Registry!Shown(c), <<"global_remove", n, i>>) = Registry!Shown(c) \ {<<n, i>>}
    BY DEF Registry!Learnt
  <2> QED
    BY <2>2, <2>3, <2>4, <2>5
<1> HIDE DEF n, i
<1>6. Registry!ViewInSync' /\ Registry!EventsMakeSense'
  <2>1. Registry!Post("global_remove", n, i)
    BY DEF n, i
  <2> QED
    BY <1>1, <1>5, <2>1, PostedInSync
<1>7. Registry!NamesMeanOne'
  <2>1. \A h \in global_list' : <<h.name, h.interface>> \in Registry!Mentioned
    BY <1>1, MentionedIn DEF n, i
  <2>2. ASSUME NEW c \in Clients, NEW k \in 1..Len(events'[c])
        PROVE  <<events'[c][k][2], events'[c][k][3]>> \in Registry!Mentioned
    <3>1. CASE k \in 1..Len(events[c]) /\ events'[c][k] = events[c][k]
      BY <1>1, <3>1, MentionedIn
    <3>2. CASE events'[c][k] = <<"global_remove", n, i>>
      <4>1. <<n, i>> \in Registry!Mentioned
        BY <1>1, MentionedIn DEF n, i
      <4> QED
        BY <3>2, <4>1
    <3>3. PostedTo(c, "global_remove", n, i)
      BY <1>2
    <3> QED
      BY <3>1, <3>2, <3>3 DEF PostedTo
  <2>3. Registry!Mentioned' \subseteq Registry!Mentioned
    BY <1>1, <1>3, <2>1, <2>2, MentionedIn, MentionedBy
  <2>4. \A h, k \in global_list' : h.name = k.name => h = k
    BY <1>1 DEF Registry!Inv, Registry!NamesMeanOne
  <2> QED
    BY <2>3, <2>4, NamesKept
<1>8. Registry!AsksOnce'
  BY <1>1, <1>2 DEF Registry!Inv, Registry!AsksOnce, PostedTo
<1>9. Registry!HiddenNeverBound' /\ Registry!RegistriesAlive'
  BY DEF Registry!Inv, Registry!HiddenNeverBound, Registry!RegistriesAlive
<1> QED
  BY <1>4, <1>6, <1>7, <1>8, <1>9

\* A global that is removed is still there to be bound.
LEMMA RemoveStep ==
  ASSUME Registry!Inv, NEW g \in global_list, Registry!RemoveGlobal(g)
  PROVE  Registry!Inv'
<1> DEFINE rest == {[g EXCEPT !.removed = TRUE]}
<1>1. /\ Registry!TypeOK /\ ~g.removed /\ Registry!Post("global_remove", g.name, g.interface)
      /\ global_list' = (global_list \ {g}) \cup rest
      /\ UNCHANGED <<patient, next_global_name, client, registries, requests, view, bound>>
  BY DEF Registry!RemoveGlobal, Registry!Inv
<1>2. \A h \in rest : h.name = g.name /\ h.interface = g.interface
  BY <1>1 DEF Registry!TypeOK, Registry!Global
<1>3. rest # {} /\ rest \in SUBSET {[g EXCEPT !.removed = TRUE]}
  OBVIOUS
<1>4. g.name \in Registry!Names /\ g.interface \in Interfaces
  BY <1>1 DEF Registry!TypeOK, Registry!Global
<1> HIDE DEF rest
<1>5. /\ Registry!TypeOK' /\ Registry!ViewInSync' /\ Registry!EventsMakeSense' /\ Registry!NamesMeanOne'
      /\ Registry!AsksOnce' /\ Registry!HiddenNeverBound' /\ Registry!RegistriesAlive'
  BY <1>1, <1>3, RemovalPosted
<1>6. Registry!KnownCanBeBound'
  <2> SUFFICES ASSUME patient, NEW c \in Clients, c \in registries, client[c] = "alive", NEW p \in Registry!Announced,
                      Registry!KnowsOf(c, p)'
               PROVE  Registry!Bindable(c, p)'
    BY <1>1 DEF Registry!KnownCanBeBound, Registry!TypeOK
  <2>1. Registry!KnowsOf(c, p)
    BY <1>1, <1>4, PostedKnown
  <2>2. Registry!Bindable(c, p)
    BY <2>1 DEF Registry!Inv, Registry!KnownCanBeBound
  <2>3. PICK h \in global_list : <<h.name, h.interface>> = p /\ <<c, h.interface>> \notin Hidden
    BY <2>2 DEF Registry!Bindable
  <2>4. CASE h = g
    <3>1. PICK k \in rest : TRUE
      BY <1>3
    <3> QED
      BY <1>1, <1>2, <2>3, <2>4, <3>1 DEF Registry!Bindable
  <2>5. CASE h # g
    BY <1>1, <2>3, <2>5 DEF Registry!Bindable
  <2> QED
    BY <2>4, <2>5
<1> QED
  BY <1>5, <1>6 DEF Registry!Inv

\* Nobody who may still ask for it knows a global that all have seen removed.
LEMMA SettledUnknown ==
  ASSUME Registry!Inv, NEW g \in global_list, Registry!Settled(g), NEW c \in Clients, c \in registries,
         client[c] = "alive"
  PROVE  ~Registry!KnowsOf(c, <<g.name, g.interface>>)
<1> DEFINE p == <<g.name, g.interface>>
<1> SUFFICES ASSUME Registry!KnowsOf(c, p) PROVE FALSE
  OBVIOUS
<1>1. Registry!TypeOK /\ g.removed /\ p \in Registry!Announced
  BY DEF Registry!Inv, Registry!TypeOK, Registry!Global, Registry!Announced, Registry!Settled
<1>2. DOMAIN events[c] = 1..Len(events[c]) /\ Len(events[c]) \in Nat
  BY <1>1 DEF Registry!TypeOK
<1>3. \A k \in DOMAIN events[c] : events[c][k] # Registry!Added(p) /\ events[c][k] # Registry!Taken(p)
  BY DEF Registry!Settled, Registry!Added, Registry!Taken
<1>4. \A k \in DOMAIN requests[c] : requests[c][k] # <<"bind", p[1], p[2]>>
  BY DEF Registry!Settled
<1>5. p \in view[c]
  BY <1>3, <1>4 DEF Registry!KnowsOf
<1> HIDE DEF p
<1>6. Registry!Knows(view[c], events[c], Len(events[c]), p)
  BY <1>2, <1>3, <1>5 DEF Registry!Knows
<1>7. p \in Registry!Shown(c)
  BY <1>1, <1>6 DEF Registry!Inv, Registry!ViewInSync, Registry!ViewAfter, Registry!After
<1>8. PICK h \in global_list : <<h.name, h.interface>> = p /\ ~h.removed
  BY <1>7 DEF Registry!Shown
<1>9. h = g
  BY <1>8 DEF p, Registry!Inv, Registry!NamesMeanOne
<1> QED
  BY <1>1, <1>8, <1>9

\* A global that is destroyed is told of like one that is removed, if it has not been.
LEMMA DestroyStep ==
  ASSUME Registry!Inv, NEW g \in global_list, Registry!DestroyGlobal(g)
  PROVE  Registry!Inv'
<1>1. /\ Registry!TypeOK
      /\ patient => Registry!Settled(g)
      /\ global_list' = global_list \ {g}
      /\ UNCHANGED <<patient, next_global_name, client, registries, requests, view, bound>>
      /\ IF ~g.removed THEN Registry!Post("global_remove", g.name, g.interface) ELSE UNCHANGED events
  BY DEF Registry!DestroyGlobal, Registry!Removes, Registry!Inv
<1>2. CASE ~g.removed
  <2>1. global_list' = (global_list \ {g}) \cup {} /\ {} \in SUBSET {[g EXCEPT !.removed = TRUE]}
    BY <1>1
  <2>2. Registry!Post("global_remove", g.name, g.interface)
    BY <1>1, <1>2
  <2>3. /\ Registry!TypeOK' /\ Registry!ViewInSync' /\ Registry!EventsMakeSense' /\ Registry!NamesMeanOne'
        /\ Registry!AsksOnce' /\ Registry!HiddenNeverBound' /\ Registry!RegistriesAlive'
    BY <1>1, <1>2, <2>1, <2>2, RemovalPosted
  <2>4. Registry!KnownCanBeBound'
    <3>1. ~patient /\ patient' = patient
      BY <1>1, <1>2 DEF Registry!Settled
    <3> QED
      BY <3>1 DEF Registry!KnownCanBeBound
  <2> QED
    BY <2>3, <2>4 DEF Registry!Inv
<1>3. CASE g.removed
  <2>1. UNCHANGED events
    BY <1>1, <1>3
  <2>2. \A c \in Clients : Registry!Shown(c)' = Registry!Shown(c)
    BY <1>1, <1>3 DEF Registry!Shown
  <2>3. Registry!TypeOK'
    <3>1. global_list' \subseteq global_list
      BY <1>1
    <3> QED
      BY <1>1, <2>1, <3>1 DEF Registry!TypeOK
  <2>4. Registry!ViewInSync' /\ Registry!EventsMakeSense'
    BY <1>1, <2>1, <2>2 DEF Registry!Inv, Registry!ViewInSync, Registry!EventsMakeSense, Registry!ViewAfter, Registry!TypeOK
  <2>5. Registry!NamesMeanOne'
    <3>1. Registry!Mentioned' \subseteq Registry!Mentioned
      BY <1>1, <2>1 DEF Registry!Mentioned
    <3> QED
      BY <1>1, <3>1, NamesKept DEF Registry!Inv, Registry!NamesMeanOne
  <2>6. Registry!AsksOnce' /\ Registry!HiddenNeverBound' /\ Registry!RegistriesAlive'
    BY <1>1, <2>1 DEF Registry!Inv, Registry!AsksOnce, Registry!HiddenNeverBound, Registry!RegistriesAlive
  <2>7. Registry!KnownCanBeBound'
    <3> SUFFICES ASSUME patient, NEW c \in Clients, c \in registries, client[c] = "alive", NEW p \in Registry!Announced,
                        Registry!KnowsOf(c, p)
                 PROVE  Registry!Bindable(c, p)'
      <4>1. \A c \in Clients, p \in Registry!Announced : Registry!KnowsOf(c, p)' <=> Registry!KnowsOf(c, p)
        BY <1>1, <2>1 DEF Registry!KnowsOf
      <4> QED
        BY <1>1, <4>1 DEF Registry!KnownCanBeBound, Registry!TypeOK
    <3>1. Registry!Bindable(c, p)
      BY DEF Registry!Inv, Registry!KnownCanBeBound
    <3>2. PICK h \in global_list : <<h.name, h.interface>> = p /\ <<c, h.interface>> \notin Hidden
      BY <3>1 DEF Registry!Bindable
    <3>3. Registry!Settled(g)
      BY <1>1
    <3>4. ~Registry!KnowsOf(c, <<g.name, g.interface>>)
      BY <3>3, SettledUnknown
    <3>5. h # g
      BY <3>2, <3>4
    <3> QED
      BY <1>1, <3>2, <3>5 DEF Registry!Bindable
  <2> QED
    BY <2>3, <2>4, <2>5, <2>6, <2>7 DEF Registry!Inv
<1> QED
  BY <1>2, <1>3 DEF Registry!Inv, Registry!TypeOK, Registry!Global

\* The invariants of one client.
ClientOK(c) ==
  /\ c \in registries => client[c] # "gone"
  /\ c \in registries /\ client[c] = "alive" => Registry!ViewAfter(c, Len(events[c])) = Registry!Shown(c)
  /\ Registry!MakeSense(view[c], events[c])
  /\ \A b \in bound[c] : <<c, b[2]>> \notin Hidden
  /\ IF c \in registries
     THEN \A k \in DOMAIN requests[c] : requests[c][k][1] = "bind"
     ELSE /\ view[c] = {} /\ events[c] = <<>> /\ Len(requests[c]) <= 1
          /\ \A k \in DOMAIN requests[c] : requests[c][k] = <<"get_registry">>
  /\ patient /\ c \in registries /\ client[c] = "alive" =>
       \A p \in Registry!Announced : Registry!KnowsOf(c, p) => Registry!Bindable(c, p)

\* They are those of the registry.
LEMMA AllClients ==
  ASSUME Registry!Inv
  PROVE  \A c \in Clients : ClientOK(c)
BY DEF Registry!Inv, ClientOK, Registry!TypeOK, Registry!ViewInSync, Registry!EventsMakeSense,
       Registry!HiddenNeverBound, Registry!RegistriesAlive, Registry!AsksOnce, Registry!KnownCanBeBound

\* A step of one client, or of the server about it.
LEMMA LocalStep ==
  ASSUME Registry!Inv, NEW c \in Clients, Registry!TypeOK',
         UNCHANGED <<patient, global_list, next_global_name>>,
         \A d \in Clients \ {c} :
           /\ d \in registries' <=> d \in registries
           /\ client'[d] = client[d] /\ events'[d] = events[d] /\ requests'[d] = requests[d]
           /\ view'[d] = view[d] /\ bound'[d] = bound[d],
         view'[c] \subseteq Registry!Mentioned,
         \A k \in 1..Len(events'[c]) : <<events'[c][k][2], events'[c][k][3]>> \in Registry!Mentioned,
         ClientOK(c)'
  PROVE  Registry!Inv'
<1>1. \A d \in Clients : ClientOK(d) /\ Registry!TypeOK
  BY AllClients DEF Registry!Inv
<1>2. ASSUME NEW d \in Clients \ {c} PROVE ClientOK(d)'
  <2>1. Registry!Shown(d)' = Registry!Shown(d)
    BY DEF Registry!Shown
  <2>2. \A p \in Registry!Announced :
          (Registry!KnowsOf(d, p)' <=> Registry!KnowsOf(d, p)) /\ (Registry!Bindable(d, p)' <=> Registry!Bindable(d, p))
    BY DEF Registry!KnowsOf, Registry!Bindable
  <2>3. Registry!After(view'[d], events'[d], Len(events'[d])) = Registry!After(view[d], events[d], Len(events[d]))
    BY DEF Registry!ViewAfter
  <2>4. ClientOK(d)
    BY <1>1
  <2> QED
    BY <2>1, <2>2, <2>3, <2>4 DEF ClientOK, Registry!ViewAfter
<1>3. \A d \in Clients : ClientOK(d)'
  BY <1>2
<1>4. Registry!NamesMeanOne'
  <2>1. \A g \in global_list' : <<g.name, g.interface>> \in Registry!Mentioned
    BY <1>1, MentionedIn
  <2>2. \A d \in Clients : view'[d] \subseteq Registry!Mentioned
    BY <1>1, MentionedIn
  <2>3. \A d \in Clients : events'[d] \in Seq(Registry!Events)
    BY DEF Registry!TypeOK
  <2>4. \A d \in Clients : \A k \in 1..Len(events'[d]) : <<events'[d][k][2], events'[d][k][3]>> \in Registry!Mentioned
    BY <1>1, MentionedIn
  <2>5. Registry!Mentioned' \subseteq Registry!Mentioned
    BY <2>1, <2>2, <2>3, <2>4, MentionedBy
  <2>6. \A g, h \in global_list' : g.name = h.name => g = h
    BY DEF Registry!Inv, Registry!NamesMeanOne
  <2> QED
    BY <2>5, <2>6, NamesKept
<1>5. /\ Registry!ViewInSync' /\ Registry!EventsMakeSense' /\ Registry!HiddenNeverBound'
      /\ Registry!RegistriesAlive' /\ Registry!AsksOnce' /\ Registry!KnownCanBeBound'
  <2>1. registries' \subseteq Clients
    BY DEF Registry!TypeOK
  <2> QED
    BY <1>3, <2>1 DEF ClientOK, Registry!ViewInSync, Registry!EventsMakeSense,
       Registry!HiddenNeverBound, Registry!RegistriesAlive, Registry!AsksOnce, Registry!KnownCanBeBound
<1> QED
  BY <1>4, <1>5 DEF Registry!Inv

\* What the lemmas about one client start from.
LEMMA OneClient ==
  ASSUME Registry!Inv, NEW c \in Clients
  PROVE  /\ Registry!TypeOK /\ ClientOK(c)
         /\ view[c] \subseteq Registry!Mentioned
         /\ \A k \in 1..Len(events[c]) : <<events[c][k][2], events[c][k][3]>> \in Registry!Mentioned
         /\ events[c] \in Seq(Registry!Events) /\ DOMAIN events[c] = 1..Len(events[c])
         /\ requests[c] \in Seq(Registry!Requests) /\ DOMAIN requests[c] = 1..Len(requests[c])
         /\ Len(requests[c]) \in Nat
BY AllClients, MentionedIn DEF Registry!Inv, Registry!TypeOK

\* A client that connects has no registry.
LEMMA ConnectStep ==
  ASSUME Registry!Inv, NEW c \in Clients, Registry!Connect(c)
  PROVE  Registry!Inv'
<1> USE DEF Registry!Connect
<1>1. Registry!TypeOK /\ ClientOK(c)
  BY OneClient
<1>2. Registry!TypeOK'
  BY <1>1 DEF Registry!TypeOK
<1>3. c \notin registries /\ c \notin registries'
  BY <1>1 DEF ClientOK
<1>4. ClientOK(c)'
  BY <1>1, <1>3 DEF ClientOK
<1>5. view'[c] \subseteq Registry!Mentioned /\
        \A k \in 1..Len(events'[c]) : <<events'[c][k][2], events'[c][k][3]>> \in Registry!Mentioned
  BY OneClient
<1>6. \A d \in Clients \ {c} : client'[d] = client[d]
  BY <1>1 DEF Registry!TypeOK
<1> QED
  BY <1>2, <1>4, <1>5, <1>6, LocalStep

\* A client that goes leaves nothing.
LEMMA DestroyClientStep ==
  ASSUME Registry!Inv, NEW c \in Clients, Registry!DestroyClient(c)
  PROVE  Registry!Inv'
<1> USE DEF Registry!DestroyClient, Registry!Unbound
<1>1. Registry!TypeOK
  BY OneClient
<1>2. Registry!TypeOK'
  <2>1. <<>> \in Seq(Registry!Events) /\ <<>> \in Seq(Registry!Requests)
    BY EmptySeq
  <2> QED
    BY <1>1, <2>1 DEF Registry!TypeOK
<1>3. c \notin registries' /\ events'[c] = <<>> /\ requests'[c] = <<>> /\ view'[c] = {} /\ bound'[c] = {}
  BY <1>1 DEF Registry!TypeOK
<1>4. ClientOK(c)'
  BY <1>3 DEF ClientOK, Registry!MakeSense
<1>5. \A k \in 1..Len(events'[c]) : <<events'[c][k][2], events'[c][k][3]>> \in Registry!Mentioned
  BY <1>3
<1>6. \A d \in Clients \ {c} :
           /\ d \in registries' <=> d \in registries
           /\ client'[d] = client[d] /\ events'[d] = events[d] /\ requests'[d] = requests[d]
           /\ view'[d] = view[d] /\ bound'[d] = bound[d]
  BY <1>1 DEF Registry!TypeOK
<1> QED
  BY <1>2, <1>3, <1>4, <1>5, <1>6, LocalStep

\* A request that is under way changes nothing but what the client asks for.
LEMMA SendsStep ==
  ASSUME Registry!Inv, NEW c \in Clients, NEW r \in Registry!Requests, Registry!Sends(c, r),
         IF c \in registries
         THEN /\ r[1] = "bind"
              /\ c \in GoodClients => <<r[2], r[3]>> \in view[c]
         ELSE requests[c] = <<>> /\ r = <<"get_registry">>
  PROVE  Registry!Inv'
<1> USE DEF Registry!Sends
<1> DEFINE more == Append(requests[c], r)
<1>1. /\ Registry!TypeOK /\ ClientOK(c) /\ requests[c] \in Seq(Registry!Requests)
      /\ DOMAIN requests[c] = 1..Len(requests[c]) /\ Len(requests[c]) \in Nat
  BY OneClient
<1>2. /\ more \in Seq(Registry!Requests) /\ DOMAIN more = 1..(Len(requests[c]) + 1)
      /\ \A k \in DOMAIN more : more[k] = r \/ (k \in DOMAIN requests[c] /\ more[k] = requests[c][k])
      /\ Len(more) = Len(requests[c]) + 1
  BY <1>1
<1>3. requests'[c] = more /\ requests' = [requests EXCEPT ![c] = more]
  BY <1>1 DEF Registry!TypeOK
<1> HIDE DEF more
<1>4. Registry!TypeOK'
  BY <1>1, <1>2, <1>3 DEF Registry!TypeOK
<1>5. ASSUME NEW p \in Registry!Announced, Registry!KnowsOf(c, p)', c \in registries PROVE Registry!KnowsOf(c, p)
  <2>1. p = <<p[1], p[2]>>
    BY DEF Registry!Announced
  <2>2. ASSUME NEW k \in DOMAIN more, more[k] = <<"bind", p[1], p[2]>>, c \in GoodClients PROVE Registry!KnowsOf(c, p)
    <3>1. CASE more[k] = r
      <4>1. r[2] = p[1] /\ r[3] = p[2]
        BY <2>2, <3>1
      <4> QED
        BY <1>5, <2>1, <2>2, <4>1 DEF Registry!KnowsOf
    <3>2. CASE k \in DOMAIN requests[c] /\ more[k] = requests[c][k]
      BY <2>2, <3>2 DEF Registry!KnowsOf
    <3> QED
      BY <1>2, <3>1, <3>2
  <2> QED
    BY <1>3, <1>5, <2>2 DEF Registry!KnowsOf
<1>6. IF c \in registries
      THEN \A k \in DOMAIN more : more[k][1] = "bind"
      ELSE /\ view[c] = {} /\ events[c] = <<>> /\ Len(more) <= 1
           /\ \A k \in DOMAIN more : more[k] = <<"get_registry">>
  <2>1. CASE c \in registries
    BY <1>1, <1>2, <2>1 DEF ClientOK
  <2>2. CASE c \notin registries
    <3>1. requests[c] = <<>> /\ r = <<"get_registry">> /\ Len(requests[c]) = 0
      BY <2>2
    <3> QED
      BY <1>1, <1>2, <2>2, <3>1 DEF ClientOK
  <2> QED
    BY <2>1, <2>2
<1>7. ClientOK(c)'
  <2>1. Registry!Shown(c)' = Registry!Shown(c)
    BY DEF Registry!Shown
  <2>2. Registry!After(view'[c], events'[c], Len(events'[c])) = Registry!After(view[c], events[c], Len(events[c]))
    BY DEF Registry!ViewAfter
  <2>3. patient /\ c \in registries /\ client[c] = "alive" =>
          \A p \in Registry!Announced : Registry!KnowsOf(c, p)' => Registry!Bindable(c, p)'
    BY <1>1, <1>5 DEF ClientOK, Registry!Bindable
  <2> QED
    BY <1>1, <1>3, <1>6, <2>1, <2>2, <2>3 DEF ClientOK, Registry!ViewAfter
<1>8. view'[c] \subseteq Registry!Mentioned /\
        \A k \in 1..Len(events'[c]) : <<events'[c][k][2], events'[c][k][3]>> \in Registry!Mentioned
  BY OneClient
<1>9. \A d \in Clients \ {c} : requests'[d] = requests[d]
  BY <1>1 DEF Registry!TypeOK
<1> QED
  BY <1>4, <1>7, <1>8, <1>9, LocalStep

\* A client asks for its registry when it has none and has not asked.
LEMMA AskRegistryStep ==
  ASSUME Registry!Inv, NEW c \in Clients, Registry!AskRegistry(c)
  PROVE  Registry!Inv'
<1>1. /\ ClientOK(c) /\ requests[c] \in Seq(Registry!Requests)
      /\ DOMAIN requests[c] = 1..Len(requests[c]) /\ Len(requests[c]) \in Nat
  BY OneClient
<1>2. /\ c \notin registries /\ <<"get_registry">> \notin Registry!ToSet(requests[c])
      /\ Registry!Sends(c, <<"get_registry">>)
  BY DEF Registry!AskRegistry
<1>3. \A k \in 1..Len(requests[c]) : requests[c][k] = <<"get_registry">>
  BY <1>1, <1>2 DEF ClientOK
<1>4. \A k \in 1..Len(requests[c]) : requests[c][k] \in Registry!ToSet(requests[c])
  BY <1>1 DEF Registry!ToSet
<1>5. Len(requests[c]) = 0
  <2>1. 1 \notin 1..Len(requests[c])
    BY <1>2, <1>3, <1>4
  <2> QED
    BY <1>1, <2>1
<1>6. requests[c] = <<>>
  BY <1>1, <1>5, EmptySeq
<1>7. <<"get_registry">> \in Registry!Requests
  BY DEF Registry!Requests
<1> QED
  BY <1>2, <1>6, <1>7, SendsStep

\* A good client asks for what it has been told of.
LEMMA AskBindStep ==
  ASSUME Registry!Inv, NEW c \in Clients, NEW n \in Registry!Names, NEW i \in Interfaces, Registry!AskBind(c, n, i)
  PROVE  Registry!Inv'
<1> DEFINE r == <<"bind", n, i>>
<1>1. c \in registries /\ (c \in GoodClients => <<n, i>> \in view[c]) /\ Registry!Sends(c, r)
  BY DEF Registry!AskBind
<1>2. r \in Registry!Requests /\ r[1] = "bind" /\ r[2] = n /\ r[3] = i
  BY DEF Registry!Requests
<1> HIDE DEF r
<1> QED
  BY <1>1, <1>2, SendsStep

\* A client that reads an event learns what it is about to be told of no more.
LEMMA ReadStep ==
  ASSUME Registry!Inv, NEW c \in Clients, Registry!ReadEvent(c)
  PROVE  Registry!Inv'
<1> DEFINE e == Head(events[c])
           rest == Tail(events[c])
           seen == Registry!Learnt(view[c], e)
<1>1. /\ Registry!TypeOK /\ ClientOK(c) /\ events[c] \in Seq(Registry!Events) /\ events[c] # <<>>
      /\ view[c] \subseteq Registry!Mentioned
      /\ \A k \in 1..Len(events[c]) : <<events[c][k][2], events[c][k][3]>> \in Registry!Mentioned
      /\ DOMAIN events[c] = 1..Len(events[c])
      /\ Registry!Mentioned \subseteq Registry!Announced
  BY OneClient, MentionedIn DEF Registry!ReadEvent
<1>2. /\ view' = [view EXCEPT ![c] = seen] /\ events' = [events EXCEPT ![c] = rest]
      /\ UNCHANGED <<patient, global_list, next_global_name, client, registries, requests, bound>>
  BY DEF Registry!ReadEvent
<1>3. /\ rest \in Seq(Registry!Events) /\ DOMAIN rest = 1..Len(rest)
      /\ \A k \in 1..Len(rest) : k + 1 \in 1..Len(events[c]) /\ rest[k] = events[c][k + 1]
      /\ 1 \in 1..Len(events[c]) /\ e = events[c][1] /\ e \in Registry!Events
  BY <1>1, TailFacts
<1>4. seen \subseteq Registry!Mentioned
  BY <1>1, <1>3 DEF Registry!Learnt
<1>5. /\ Registry!MakeSense(seen, rest)
      /\ Registry!After(seen, rest, Len(rest)) = Registry!After(view[c], events[c], Len(events[c]))
  BY <1>1, SenseRead DEF ClientOK
<1>6. view'[c] = seen /\ events'[c] = rest
  BY <1>1, <1>2 DEF Registry!TypeOK
<1>7. c \in registries
  BY <1>1 DEF ClientOK
<1>8. ASSUME NEW p \in Registry!Announced, Registry!KnowsOf(c, p)' PROVE Registry!KnowsOf(c, p)
  <2>1. CASE p \in seen
    <3>1. p \in view[c] \/ e = Registry!Added(p)
      BY <1>3, <2>1, EventKinds DEF Registry!Learnt
    <3> QED
      BY <1>1, <1>3, <3>1 DEF Registry!KnowsOf
  <2>2. ASSUME NEW k \in 1..Len(rest), rest[k] = Registry!Added(p) PROVE Registry!KnowsOf(c, p)
    <3>1. k + 1 \in DOMAIN events[c] /\ events[c][k + 1] = Registry!Added(p)
      BY <1>1, <1>3, <2>2
    <3> QED
      BY <3>1 DEF Registry!KnowsOf
  <2> HIDE DEF seen, rest
  <2> QED
    BY <1>2, <1>3, <1>6, <1>8, <2>1, <2>2 DEF Registry!KnowsOf
<1> HIDE DEF e, rest, seen
<1>9. Registry!TypeOK'
  BY <1>1, <1>2, <1>3, <1>4 DEF Registry!TypeOK
<1>10. ClientOK(c)'
  <2>1. Registry!Shown(c)' = Registry!Shown(c)
    BY <1>2 DEF Registry!Shown
  <2>2. Registry!After(view'[c], events'[c], Len(events'[c])) = Registry!After(view[c], events[c], Len(events[c]))
    BY <1>5, <1>6
  <2>3. patient /\ c \in registries /\ client[c] = "alive" =>
          \A p \in Registry!Announced : Registry!KnowsOf(c, p)' => Registry!Bindable(c, p)'
    BY <1>1, <1>2, <1>8 DEF ClientOK, Registry!Bindable
  <2>4. Registry!MakeSense(view'[c], events'[c])
    BY <1>5, <1>6
  <2> QED
    BY <1>1, <1>2, <1>7, <2>1, <2>2, <2>3, <2>4 DEF ClientOK, Registry!ViewAfter
<1>11. \A k \in 1..Len(events'[c]) : <<events'[c][k][2], events'[c][k][3]>> \in Registry!Mentioned
  BY <1>1, <1>3, <1>6
<1>12. \A d \in Clients \ {c} : view'[d] = view[d] /\ events'[d] = events[d]
  BY <1>1, <1>2 DEF Registry!TypeOK
<1> QED
  BY <1>2, <1>4, <1>6, <1>9, <1>10, <1>11, <1>12, LocalStep

\* A request of a client that is taken.
LEMMA Takes ==
  ASSUME Registry!Inv, NEW c \in Clients, NEW kind, Registry!TakesRequest(c, kind)
  PROVE  /\ requests[c] \in Seq(Registry!Requests) /\ requests[c] # <<>> /\ Head(requests[c]) = requests[c][1]
         /\ requests[c][1] \in Registry!Requests /\ requests[c][1][1] = kind /\ 1 \in DOMAIN requests[c]
         /\ requests'[c] = Tail(requests[c]) /\ requests'[c] \in Seq(Registry!Requests)
         /\ requests' \in [Clients -> Seq(Registry!Requests)]
         /\ DOMAIN requests'[c] = 1..Len(requests'[c]) /\ Len(requests'[c]) = Len(requests[c]) - 1
         /\ \A k \in DOMAIN requests'[c] : k + 1 \in DOMAIN requests[c] /\ requests'[c][k] = requests[c][k + 1]
         /\ \A d \in Clients \ {c} : requests'[d] = requests[d]
         /\ client[c] = "alive" /\ Len(requests[c]) \in Nat
<1>1. /\ Registry!TypeOK /\ requests[c] \in Seq(Registry!Requests) /\ DOMAIN requests[c] = 1..Len(requests[c])
      /\ requests \in [Clients -> Seq(Registry!Requests)] /\ Len(requests[c]) \in Nat
  BY OneClient DEF Registry!TypeOK
<1>2. /\ requests[c] # <<>> /\ Head(requests[c])[1] = kind /\ client[c] = "alive"
      /\ requests' = [requests EXCEPT ![c] = Tail(requests[c])]
  BY DEF Registry!TakesRequest
<1>3. /\ Tail(requests[c]) \in Seq(Registry!Requests) /\ Len(Tail(requests[c])) = Len(requests[c]) - 1
      /\ \A k \in 1..Len(Tail(requests[c])) : Tail(requests[c])[k] = requests[c][k + 1] /\ k + 1 \in 1..Len(requests[c])
      /\ Head(requests[c]) = requests[c][1] /\ 1 \in 1..Len(requests[c]) /\ requests[c][1] \in Registry!Requests
  BY <1>1, <1>2, TailFacts
<1>4. DOMAIN Tail(requests[c]) = 1..Len(Tail(requests[c]))
  BY <1>3
<1>5. requests'[c] = Tail(requests[c])
  BY <1>1, <1>2
<1> QED
  BY <1>1, <1>2, <1>3, <1>4, <1>5

\* A request that is taken leaves a client less to be told of.
LEMMA TakenStep ==
  ASSUME Registry!Inv, NEW c \in Clients, NEW kind, Registry!TakesRequest(c, kind),
         UNCHANGED <<patient, global_list, next_global_name, registries, events, view>>,
         client' \in {client, [client EXCEPT ![c] = "error"]},
         NEW more \in SUBSET {p \in Registry!Announced : <<c, p[2]>> \notin Hidden},
         bound' = [bound EXCEPT ![c] = @ \cup more]
  PROVE  Registry!Inv'
<1>1. Registry!TypeOK /\ ClientOK(c)
  BY OneClient
<1>2. Registry!TypeOK'
  <2>1. requests' \in [Clients -> Seq(Registry!Requests)]
    BY Takes
  <2>2. client' \in [Clients -> {"gone", "alive", "error"}] /\ bound' \in [Clients -> SUBSET Registry!Announced]
    BY <1>1 DEF Registry!TypeOK
  <2> QED
    BY <1>1, <2>1, <2>2 DEF Registry!TypeOK
<1>3. /\ client'[c] # "gone" /\ (client'[c] = "alive" => client[c] = "alive")
      /\ bound'[c] = bound[c] \cup more
      /\ \A d \in Clients \ {c} : client'[d] = client[d] /\ bound'[d] = bound[d]
  <2>1. client[c] = "alive"
    BY DEF Registry!TakesRequest
  <2> QED
    BY <1>1, <2>1 DEF Registry!TypeOK
<1>4. \A k \in DOMAIN requests'[c] : k + 1 \in DOMAIN requests[c] /\ requests'[c][k] = requests[c][k + 1]
  BY Takes
<1>5. Len(requests[c]) <= 1 => Len(requests'[c]) <= 1
  BY Takes
<1>6. \A d \in Clients \ {c} : requests'[d] = requests[d]
  BY Takes
<1>7. \A p \in Registry!Announced : Registry!KnowsOf(c, p)' => Registry!KnowsOf(c, p)
  BY <1>4 DEF Registry!KnowsOf
<1>8. ClientOK(c)'
  <2>1. Registry!Shown(c)' = Registry!Shown(c)
    BY DEF Registry!Shown
  <2>2. patient /\ c \in registries /\ client'[c] = "alive" =>
          \A p \in Registry!Announced : Registry!KnowsOf(c, p)' => Registry!Bindable(c, p)'
    BY <1>1, <1>3, <1>7 DEF ClientOK, Registry!Bindable
  <2>3. \A b \in bound'[c] : <<c, b[2]>> \notin Hidden
    BY <1>1, <1>3 DEF ClientOK
  <2>4. IF c \in registries
        THEN \A k \in DOMAIN requests'[c] : requests'[c][k][1] = "bind"
        ELSE /\ view[c] = {} /\ events[c] = <<>> /\ Len(requests'[c]) <= 1
             /\ \A k \in DOMAIN requests'[c] : requests'[c][k] = <<"get_registry">>
    BY <1>1, <1>4, <1>5 DEF ClientOK
  <2> QED
    BY <1>1, <1>3, <2>1, <2>2, <2>3, <2>4 DEF ClientOK, Registry!ViewAfter
<1>9. view'[c] \subseteq Registry!Mentioned /\
        \A k \in 1..Len(events'[c]) : <<events'[c][k][2], events'[c][k][3]>> \in Registry!Mentioned
  BY OneClient
<1> QED
  BY <1>2, <1>3, <1>6, <1>8, <1>9, LocalStep

\* A registry for which there is no memory.
LEMMA NoMemoryStep ==
  ASSUME Registry!Inv, NEW c \in Clients, Registry!NoMemory(c)
  PROVE  Registry!Inv'
<1>1. bound' = [bound EXCEPT ![c] = @ \cup {}]
  BY OneClient DEF Registry!NoMemory, Registry!TypeOK
<1>2. {} \in SUBSET {p \in Registry!Announced : <<c, p[2]>> \notin Hidden}
  OBVIOUS
<1> QED
  BY <1>1, <1>2, TakenStep DEF Registry!NoMemory

\* A bind gives what the filter shows.
LEMMA BindStep ==
  ASSUME Registry!Inv, NEW c \in Clients, Registry!RegistryBind(c)
  PROVE  Registry!Inv'
<1> DEFINE n == Head(requests[c])[2]
           i == Head(requests[c])[3]
<1>1. /\ Registry!TypeOK /\ Registry!TakesRequest(c, "bind")
      /\ UNCHANGED <<patient, global_list, next_global_name, registries, events, view>>
      /\ IF Registry!Binds(c, n, i)
         THEN /\ bound' = [bound EXCEPT ![c] = @ \cup {<<n, i>>}]
              /\ UNCHANGED client
         ELSE /\ client' = [client EXCEPT ![c] = "error"]
              /\ UNCHANGED bound
  BY OneClient DEF Registry!RegistryBind
<1>2. CASE Registry!Binds(c, n, i)
  <2>1. PICK g \in global_list : g.name = n /\ g.interface = i /\ <<c, i>> \notin Hidden
    BY <1>2 DEF Registry!Binds, Registry!IsVisible
  <2>2. <<n, i>> \in Registry!Announced
    BY <1>1, <2>1 DEF Registry!TypeOK, Registry!Global, Registry!Announced
  <2> HIDE DEF n, i
  <2>3. {<<n, i>>} \in SUBSET {p \in Registry!Announced : <<c, p[2]>> \notin Hidden}
    BY <2>1, <2>2
  <2> QED
    BY <1>1, <1>2, <2>3, TakenStep
<1>3. CASE ~Registry!Binds(c, n, i)
  <2>1. bound' = [bound EXCEPT ![c] = @ \cup {}]
    BY <1>1, <1>3 DEF Registry!TypeOK
  <2>2. {} \in SUBSET {p \in Registry!Announced : <<c, p[2]>> \notin Hidden}
    OBVIOUS
  <2>3. client' = [client EXCEPT ![c] = "error"]
    BY <1>1, <1>3
  <2> QED
    BY <1>1, <2>1, <2>2, <2>3, TakenStep
<1> QED
  BY <1>2, <1>3

\* A set of globals in order, and the events that announce them.
LEMMA Ordered ==
  ASSUME Registry!GlobalsAssumption, Registry!Inv, NEW S \in SUBSET global_list, NEW shown \in Registry!InOrder(S),
         NEW told, told = [k \in DOMAIN shown |-> <<"global", shown[k].name, shown[k].interface>>]
  PROVE  /\ told \in Seq(Registry!Events) /\ DOMAIN told = 1..Len(told) /\ Len(told) \in Nat
         /\ \A k \in 1..Len(told) : shown[k] \in S /\ told[k] = <<"global", shown[k].name, shown[k].interface>>
         /\ \A g \in S : \E k \in 1..Len(told) : shown[k] = g
         /\ \A j, k \in 1..Len(told) : j < k => <<told[j][2], told[j][3]>> # <<told[k][2], told[k][3]>>
<1>1. PICK n \in 0 .. Limit - 1 : shown \in [1..n -> S]
  BY DEF Registry!InOrder
<1>2. /\ Registry!ToSet(shown) = S /\ n \in Nat
      /\ \A j, k \in 1..n : j < k => shown[j].name < shown[k].name
  BY <1>1 DEF Registry!InOrder, Registry!GlobalsAssumption
<1>3. \A k \in 1..n : shown[k] \in S /\ shown[k].name \in Registry!Names /\ shown[k].interface \in Interfaces
  BY <1>1 DEF Registry!Inv, Registry!TypeOK, Registry!Global
<1>4. \A k \in 1..n : <<"global", shown[k].name, shown[k].interface>> \in Registry!Events
  BY <1>3 DEF Registry!Events
<1>5. told \in [1..n -> Registry!Events]
  BY <1>1, <1>4
<1>6. told \in Seq(Registry!Events) /\ Len(told) = n /\ DOMAIN told = 1..n
  BY <1>2, <1>5
<1>7. \A k \in 1..n : told[k] = <<"global", shown[k].name, shown[k].interface>>
  BY <1>1
<1>8. \A g \in S : \E k \in 1..n : shown[k] = g
  BY <1>1, <1>2 DEF Registry!ToSet
<1>9. \A j, k \in 1..n : j < k => <<told[j][2], told[j][3]>> # <<told[k][2], told[k][3]>>
  <2> SUFFICES ASSUME NEW j \in 1..n, NEW k \in 1..n, j < k PROVE told[j][2] # told[k][2]
    OBVIOUS
  <2>1. shown[j].name < shown[k].name /\ shown[j].name \in Nat /\ shown[k].name \in Nat
    BY <1>2, <1>3 DEF Registry!Names
  <2>2. told[j] = <<"global", shown[j].name, shown[j].interface>> /\ told[k] = <<"global", shown[k].name, shown[k].interface>>
    BY <1>7
  <2>3. shown[j].name # shown[k].name
    BY <2>1
  <2> QED
    BY <2>2, <2>3
<1> QED
  BY <1>2, <1>3, <1>6, <1>7, <1>8, <1>9

\* A registry begins with the globals that there are.
LEMMA GetRegistryStep ==
  ASSUME Registry!GlobalsAssumption, Registry!Inv, NEW c \in Clients, Registry!GetRegistry(c)
  PROVE  Registry!Inv'
<1> DEFINE S == {g \in global_list : Registry!Advertises(c, g)}
           first(shown) == [k \in DOMAIN shown |-> <<"global", shown[k].name, shown[k].interface>>]
<1>1. /\ Registry!TypeOK /\ ClientOK(c) /\ requests[c] \in Seq(Registry!Requests)
      /\ Registry!TakesRequest(c, "get_registry") /\ registries' = registries \cup {c}
      /\ UNCHANGED <<patient, global_list, next_global_name, client, view, bound>>
      /\ view[c] \subseteq Registry!Mentioned
  BY OneClient DEF Registry!GetRegistry
<1>2. PICK shown \in Registry!InOrder(S) : events' = [events EXCEPT ![c] = @ \o first(shown)]
  BY DEF Registry!GetRegistry
<1> DEFINE told == first(shown)
<1>3. /\ told \in Seq(Registry!Events) /\ DOMAIN told = 1..Len(told) /\ Len(told) \in Nat
      /\ \A k \in 1..Len(told) : shown[k] \in S /\ told[k] = <<"global", shown[k].name, shown[k].interface>>
      /\ \A g \in S : \E k \in 1..Len(told) : shown[k] = g
      /\ \A j, k \in 1..Len(told) : j < k => <<told[j][2], told[j][3]>> # <<told[k][2], told[k][3]>>
  <2>1. S \in SUBSET global_list
    OBVIOUS
  <2> HIDE DEF S
  <2> QED
    BY <2>1, Ordered
<1>4. /\ requests[c][1][1] = "get_registry" /\ 1 \in DOMAIN requests[c] /\ client[c] = "alive"
      /\ requests' \in [Clients -> Seq(Registry!Requests)] /\ \A d \in Clients \ {c} : requests'[d] = requests[d]
      /\ Len(requests'[c]) = Len(requests[c]) - 1 /\ Len(requests[c]) \in Nat
      /\ DOMAIN requests'[c] = 1..Len(requests'[c])
  BY <1>1, Takes
<1>5. c \notin registries
  BY <1>1, <1>4 DEF ClientOK
<1>6. view[c] = {} /\ events[c] = <<>> /\ DOMAIN requests'[c] = {}
  BY <1>1, <1>4, <1>5 DEF ClientOK
<1> HIDE DEF first
<1>7. events'[c] = told /\ events' = [events EXCEPT ![c] = told]
  <2>1. <<>> \o told = told
    BY <1>3
  <2> QED
    BY <1>1, <1>2, <1>6, <2>1 DEF Registry!TypeOK
<1> HIDE DEF told
<1>8. Registry!TypeOK'
  BY <1>1, <1>3, <1>4, <1>7 DEF Registry!TypeOK
<1>9. /\ Registry!MakeSense({}, told)
      /\ Registry!After({}, told, Len(told)) = {<<told[k][2], told[k][3]>> : k \in 1..Len(told)}
  <2>1. \A k \in 1..Len(told) : told[k][1] = "global"
    BY <1>3
  <2> QED
    BY <1>3, <2>1, SenseFirst
<1>10. Registry!Shown(c)' = {<<told[k][2], told[k][3]>> : k \in 1..Len(told)}
  <2>1. ASSUME NEW p \in Registry!Shown(c)' PROVE p \in {<<told[k][2], told[k][3]>> : k \in 1..Len(told)}
    <3>1. PICK g \in global_list : <<g.name, g.interface>> = p /\ ~g.removed /\ <<c, g.interface>> \notin Hidden
      BY <1>1, <2>1 DEF Registry!Shown
    <3>2. g \in S
      BY <3>1 DEF Registry!Advertises, Registry!IsVisible
    <3> QED
      BY <1>3, <3>1, <3>2
  <2>2. ASSUME NEW k \in 1..Len(told) PROVE <<told[k][2], told[k][3]>> \in Registry!Shown(c)'
    <3>1. /\ shown[k] \in global_list /\ ~shown[k].removed /\ <<c, shown[k].interface>> \notin Hidden
          /\ <<told[k][2], told[k][3]>> = <<shown[k].name, shown[k].interface>>
      <4>1. shown[k] \in S /\ told[k] = <<"global", shown[k].name, shown[k].interface>>
        BY <1>3
      <4> QED
        BY <4>1 DEF Registry!Advertises, Registry!IsVisible
    <3>2. <<shown[k].name, shown[k].interface>> \in Registry!Announced
      BY <1>1, <3>1 DEF Registry!TypeOK, Registry!Global, Registry!Announced
    <3> QED
      BY <1>1, <3>1, <3>2 DEF Registry!Shown
  <2> QED
    BY <2>1, <2>2
<1>11. ASSUME NEW p \in Registry!Announced, Registry!KnowsOf(c, p)' PROVE Registry!Bindable(c, p)'
  <2>1. PICK k \in 1..Len(told) : told[k] = Registry!Added(p)
    BY <1>1, <1>3, <1>6, <1>7, <1>11 DEF Registry!KnowsOf
  <2>2. p = <<p[1], p[2]>>
    BY DEF Registry!Announced
  <2>3. shown[k] \in global_list /\ <<c, shown[k].interface>> \notin Hidden /\ <<shown[k].name, shown[k].interface>> = p
    <3>1. shown[k] \in S /\ told[k] = <<"global", shown[k].name, shown[k].interface>>
      BY <1>3
    <3>2. shown[k].name = p[1] /\ shown[k].interface = p[2]
      BY <2>1, <3>1 DEF Registry!Added
    <3> QED
      BY <2>2, <3>1, <3>2 DEF Registry!Advertises, Registry!IsVisible
  <2> QED
    BY <1>1, <2>3 DEF Registry!Bindable
<1>12. ClientOK(c)'
  <2>1. Registry!MakeSense(view'[c], events'[c]) /\ c \in registries'
    BY <1>1, <1>6, <1>7, <1>9
  <2>2. Registry!After(view'[c], events'[c], Len(events'[c])) = Registry!Shown(c)'
    BY <1>1, <1>6, <1>7, <1>9, <1>10
  <2> QED
    BY <1>1, <1>4, <1>6, <1>11, <2>1, <2>2 DEF ClientOK, Registry!ViewAfter
<1>13. \A k \in 1..Len(events'[c]) : <<events'[c][k][2], events'[c][k][3]>> \in Registry!Mentioned
  <2>1. \A k \in 1..Len(told) : <<told[k][2], told[k][3]>> = <<shown[k].name, shown[k].interface>> /\ shown[k] \in global_list
    BY <1>3
  <2> QED
    BY <1>1, <1>7, <2>1, MentionedIn
<1>14. \A d \in Clients \ {c} : events'[d] = events[d] /\ (d \in registries' <=> d \in registries)
  BY <1>1, <1>7 DEF Registry!TypeOK
<1> QED
  BY <1>1, <1>4, <1>8, <1>12, <1>13, <1>14, LocalStep

\* Every step of the compositor, its clients and the streams between them keeps the invariant.
LEMMA RegistryStep ==
  ASSUME Registry!GlobalsAssumption, Registry!Inv, [Registry!Next]_(Registry!vars)
  PROVE  Registry!Inv'
<1>1. CASE UNCHANGED Registry!vars
  <2> USE <1>1 DEF Registry!vars
  <2>1. \A c \in Clients : Registry!Shown(c)' = Registry!Shown(c)
    BY DEF Registry!Shown
  <2>2. \A c \in Clients, p \in Registry!Announced :
          (Registry!KnowsOf(c, p)' <=> Registry!KnowsOf(c, p)) /\ (Registry!Bindable(c, p)' <=> Registry!Bindable(c, p))
    BY DEF Registry!KnowsOf, Registry!Bindable
  <2>3. Registry!Mentioned' = Registry!Mentioned
    BY DEF Registry!Mentioned
  <2>4. Registry!NamesMeanOne'
    BY <2>3 DEF Registry!Inv, Registry!NamesMeanOne
  <2>5. Registry!ViewInSync' /\ Registry!EventsMakeSense' /\ Registry!KnownCanBeBound'
    BY <2>1, <2>2 DEF Registry!Inv, Registry!TypeOK, Registry!ViewInSync, Registry!EventsMakeSense, Registry!ViewAfter,
       Registry!KnownCanBeBound
  <2> QED
    BY <2>4, <2>5 DEF Registry!Inv, Registry!TypeOK, Registry!HiddenNeverBound, Registry!RegistriesAlive, Registry!AsksOnce
<1>2. CASE \E i \in Interfaces : Registry!Create(i)
  BY <1>2, CreateStep
<1>3. CASE \E g \in global_list : Registry!RemoveGlobal(g) \/ Registry!DestroyGlobal(g)
  BY <1>3, RemoveStep, DestroyStep
<1>4. ASSUME NEW c \in Clients,
             \/ Registry!Connect(c) \/ Registry!DestroyClient(c)
             \/ Registry!AskRegistry(c) \/ Registry!GetRegistry(c) \/ Registry!NoMemory(c)
             \/ \E n \in Registry!Names, i \in Interfaces : Registry!AskBind(c, n, i)
             \/ Registry!RegistryBind(c) \/ Registry!ReadEvent(c)
      PROVE  Registry!Inv'
  BY <1>4, ConnectStep, DestroyClientStep, AskRegistryStep, GetRegistryStep, NoMemoryStep, AskBindStep, BindStep, ReadStep
<1> QED
  BY <1>1, <1>2, <1>3, <1>4 DEF Registry!Next

\* What a client believes in, it was told of.
LEMMA BelievedMentioned ==
  ASSUME Registry!Inv
  PROVE  Registry!OneGlobalPerName
<1> SUFFICES ASSUME NEW c \in Clients, NEW k \in 0..Len(events[c])
             PROVE  Registry!ViewAfter(c, k) \subseteq Registry!Mentioned
  BY MentionedIn DEF Registry!OneGlobalPerName, Registry!Inv, Registry!NamesMeanOne
<1>1. /\ view[c] \subseteq Registry!Mentioned /\ DOMAIN events[c] = 1..Len(events[c]) /\ Len(events[c]) \in Nat
      /\ \A j \in 1..Len(events[c]) : <<events[c][j][2], events[c][j][3]>> \in Registry!Mentioned
  BY OneClient DEF Registry!TypeOK
<1>2. ASSUME NEW p \in Registry!Announced, Registry!Knows(view[c], events[c], k, p) PROVE p \in Registry!Mentioned
  <2>1. PICK j \in 0..k : IF j = 0 THEN p \in view[c] ELSE events[c][j] = Registry!Added(p)
    BY <1>2 DEF Registry!Knows
  <2>2. CASE j = 0
    BY <1>1, <2>1, <2>2
  <2>3. CASE j # 0
    <3>1. j \in 1..Len(events[c]) /\ events[c][j] = Registry!Added(p)
      BY <1>1, <2>1, <2>3
    <3>2. <<p[1], p[2]>> = p /\ Registry!Added(p)[2] = p[1] /\ Registry!Added(p)[3] = p[2]
      BY DEF Registry!Announced, Registry!Added
    <3> QED
      BY <1>1, <3>1, <3>2
  <2> QED
    BY <2>2, <2>3
<1> QED
  BY <1>2 DEF Registry!ViewAfter, Registry!After

\* A good client is not refused by a patient compositor.
LEMMA GoodBinds ==
  ASSUME Registry!Inv, NEW c \in GoodClients, c \in Clients, patient, Registry!RegistryBind(c)
  PROVE  client'[c] = "alive"
<1> DEFINE r == requests[c][1]
           p == <<r[2], r[3]>>
<1>1. /\ Registry!TakesRequest(c, "bind")
      /\ Registry!Binds(c, Head(requests[c])[2], Head(requests[c])[3]) => UNCHANGED client
  BY DEF Registry!RegistryBind
<1>2. /\ Registry!TypeOK /\ ClientOK(c) /\ Head(requests[c]) = r /\ r \in Registry!Requests /\ r[1] = "bind"
      /\ 1 \in DOMAIN requests[c] /\ client[c] = "alive"
  BY <1>1, OneClient, Takes
<1>3. r = <<"bind", r[2], r[3]>> /\ p \in Registry!Announced
  BY <1>2 DEF Registry!Requests, Registry!Announced
<1>4. c \in registries
  BY <1>2 DEF ClientOK
<1>5. Registry!KnowsOf(c, p)
  BY <1>2, <1>3 DEF Registry!KnowsOf
<1>6. Registry!Bindable(c, p)
  <2> HIDE DEF p
  <2> QED
    BY <1>2, <1>3, <1>4, <1>5 DEF ClientOK
<1>7. Registry!Binds(c, r[2], r[3])
  BY <1>6 DEF Registry!Bindable, Registry!Binds, Registry!IsVisible
<1> QED
  BY <1>1, <1>2, <1>7
------------------------------------------------------------------------------
(* Pools: what is mapped, and who refers to it (PoolMapping) *)

\* A pool counts its buffers as everybody counts.
LEMMA PoolCardinality ==
  /\ \A S : Pool!Cardinality(S) = Cardinality(S)
  /\ \A S : Pool!IsFiniteSet(S) <=> IsFiniteSet(S)
<1>1. \A S : Pool!Cardinality(S) = Cardinality(S)
  BY Zenon DEF Cardinality, Pool!Cardinality
<1>2. \A S : Pool!IsFiniteSet(S) <=> IsFiniteSet(S)
  BY Zenon DEF IsFiniteSet, Pool!IsFiniteSet
<1> QED
  BY <1>1, <1>2

\* The counting of subsets of a finite set.
LEMMA PoolSubset ==
  ASSUME NEW S, Pool!IsFiniteSet(S), NEW T \in SUBSET S
  PROVE  /\ Pool!IsFiniteSet(T) /\ Pool!Cardinality(T) \in Nat /\ Pool!Cardinality(S) \in Nat
         /\ Pool!Cardinality(T) <= Pool!Cardinality(S)
<1>1. IsFiniteSet(S)
  BY PoolCardinality
<1>2. IsFiniteSet(T) /\ Cardinality(T) <= Cardinality(S)
  BY <1>1, FS_Subset
<1>3. Cardinality(T) \in Nat /\ Cardinality(S) \in Nat
  BY <1>1, <1>2, FS_CardinalityType
<1> QED
  BY <1>2, <1>3, PoolCardinality

\* The empty set is the one with no element.
LEMMA PoolEmpty ==
  /\ Pool!IsFiniteSet({}) /\ Pool!Cardinality({}) = 0
  /\ \A S : Pool!IsFiniteSet(S) => (Pool!Cardinality(S) = 0 <=> S = {})
BY PoolCardinality, FS_EmptySet

\* One element more or less.
LEMMA PoolElements ==
  ASSUME NEW S, NEW x, Pool!IsFiniteSet(S)
  PROVE  /\ Pool!Cardinality(S \cup {x}) = IF x \in S THEN Pool!Cardinality(S) ELSE Pool!Cardinality(S) + 1
         /\ Pool!Cardinality(S \ {x}) = IF x \in S THEN Pool!Cardinality(S) - 1 ELSE Pool!Cardinality(S)
<1>1. IsFiniteSet(S)
  BY PoolCardinality
<1>2. /\ Cardinality(S \cup {x}) = IF x \in S THEN Cardinality(S) ELSE Cardinality(S) + 1
      /\ Cardinality(S \ {x}) = IF x \in S THEN Cardinality(S) - 1 ELSE Cardinality(S)
  BY <1>1, FS_AddElement, FS_RemoveElement
<1>3. /\ Pool!Cardinality(S) = Cardinality(S) /\ Pool!Cardinality(S \cup {x}) = Cardinality(S \cup {x})
      /\ Pool!Cardinality(S \ {x}) = Cardinality(S \ {x})
  BY PoolCardinality
<1> QED
  BY <1>2, <1>3

\* The buffers are finitely many: they can be counted.
LEMMA PoolAliveFinite ==
  ASSUME Pool!PoolMappingAssumption
  PROVE  /\ Pool!IsFiniteSet(Pool!Alive) /\ Pool!Cardinality(Pool!Alive) \in 0..Pool!Cardinality(Buffers) /\ Pool!Cardinality(Buffers) \in Nat
         /\ (Pool!Cardinality(Pool!Alive) = 0 <=> Pool!Alive = {})
BY PoolSubset, PoolEmpty DEF Pool!Alive, Pool!PoolMappingAssumption

\* At first there is no pool.
LEMMA PoolInit == ASSUME Pool!PoolMappingAssumption, Pool!Init PROVE Pool!Inv
<1>1. Pool!Alive = {} /\ Pool!Cardinality(Pool!Alive) = 0
  BY PoolEmpty DEF Pool!Init, Pool!Alive
<1>2. Pool!TypeOK
  <2>1. Pool!CountsOK
    <3>1. Pool!Cardinality(Buffers) \in Nat /\ MaxRefs \in Nat
      BY PoolAliveFinite DEF Pool!PoolMappingAssumption
    <3>2. pool \in {"none", "live", "freed"} /\ resource \in BOOLEAN
      BY DEF Pool!Init
    <3>3. internal_refcount \in 0..(1 + Pool!Cardinality(Buffers)) /\ external_refcount \in 0..MaxRefs
      <4> HIDE DEF Pool!Init
      <4>1. internal_refcount = 0 /\ external_refcount = 0
        BY DEF Pool!Init
      <4> QED
        BY <3>1, <4>1
    <3> QED
      BY <3>2, <3>3 DEF Pool!CountsOK
  <2>2. Pool!SizesOK
    BY DEF Pool!Init, Pool!PoolMappingAssumption, Pool!SizesOK
  <2>3. buffer \in [Buffers -> {None} \cup Pool!Places]
    BY DEF Pool!Init
  <2>4. pointer \in {None} \cup 0..2
    BY DEF Pool!Init
  <2> QED
    BY <2>1, <2>2, <2>3, <2>4 DEF Pool!TypeOK, Pool!Init
<1> QED
  BY <1>1, <1>2 DEF Pool!Init, Pool!Inv, Pool!FreedWithLast, Pool!BuffersInside, Pool!PointersStay, Pool!FdClosedOnce, Pool!SizesAgree, Pool!LegalNotRefused

\* shm_create_pool() makes a pool that nobody has used yet, or an error.
LEMMA PoolCreatePool ==
  ASSUME Pool!PoolMappingAssumption, Pool!Inv, NEW n \in Numbers, Pool!CreatePool(n) PROVE Pool!Inv'
<1> USE DEF Pool!Inv, Pool!PoolMappingAssumption
<1>1. Pool!Alive' = Pool!Alive /\ Pool!Alive = {} /\ Pool!Cardinality(Pool!Alive) = 0 /\ internal_refcount = 0 /\ external_refcount = 0
  BY PoolEmpty DEF Pool!CreatePool, Pool!Alive, Pool!SizesAgree, Pool!FreedWithLast
<1>2. fd' = "closed" /\ UNCHANGED <<pointer, buffer, referenced>>
  BY DEF Pool!CreatePool, Pool!Closed
<1>3. n \in Int /\ n <= INT32_MAX /\ pool = "none" /\ ~pool_error
  BY DEF Pool!CreatePool
<1>4. CASE /\ pool_error' = TRUE /\ legal' = FALSE
           /\ UNCHANGED <<pool, resource, Pool!refcounts, size, new_size, data, asked>>
  <2>1. Pool!TypeOK'
    BY <1>2, <1>4 DEF Pool!TypeOK, Pool!refcounts, Pool!CountsOK, Pool!SizesOK
  <2> QED
    BY <1>1, <1>2, <1>4, <2>1 DEF Pool!FreedWithLast, Pool!BuffersInside, Pool!PointersStay, Pool!FdClosedOnce, Pool!SizesAgree, Pool!LegalNotRefused, Pool!refcounts, Pool!CreatePool, Pool!Inside
<1>5. CASE /\ n > 0 /\ pool' = "live" /\ resource' = TRUE /\ internal_refcount' = 1 /\ external_refcount' = 0
           /\ size' = n /\ new_size' = n /\ data' = 1 /\ asked' = n
           /\ UNCHANGED <<legal, pool_error>>
  <2>1. Pool!CountsOK'
    BY <1>5, PoolAliveFinite DEF Pool!CountsOK
  <2>2. Pool!SizesOK'
    BY <1>3, <1>5 DEF Pool!SizesOK
  <2>3. Pool!TypeOK'
    BY <1>2, <1>5, <2>1, <2>2 DEF Pool!TypeOK
  <2>4. Pool!FreedWithLast' /\ Pool!BuffersInside' /\ Pool!PointersStay'
    <3>1. Pool!Cardinality(Pool!Alive') = 0 /\ Pool!Alive' = {}
      BY <1>1
    <3> QED
      BY <1>1, <1>2, <1>5, <3>1 DEF Pool!FreedWithLast, Pool!BuffersInside, Pool!PointersStay
  <2>5. Pool!FdClosedOnce'
    BY <1>1, <1>2, <1>5 DEF Pool!FdClosedOnce
  <2>6. Pool!SizesAgree' /\ Pool!LegalNotRefused'
    BY <1>1, <1>2, <1>5, <1>3 DEF Pool!SizesAgree, Pool!LegalNotRefused
  <2> QED
    BY <2>3, <2>4, <2>5, <2>6
<1> QED
  BY <1>4, <1>5 DEF Pool!CreatePool

\* What the overflow test of shm_pool_create_buffer() divides instead of multiplying.
LEMMA PoolProduct ==
  ASSUME NEW m \in Nat, NEW s \in Nat \ {0}, NEW h \in Nat, s * h <= m PROVE h <= m \div s /\ m \div s \in Nat
  OBVIOUS

\* A buffer that is not refused lies in the mapping; a lawful one is not refused.
LEMMA PoolCreateBuffer ==
  ASSUME Pool!PoolMappingAssumption, Pool!Inv, NEW b \in Buffers, NEW o \in Numbers, NEW w \in Numbers,
         NEW h \in Numbers, NEW s \in Numbers, Pool!CreateBuffer(b, o, w, h, s)
  PROVE  Pool!Inv'
<1>0. /\ Pool!CountsOK /\ Pool!SizesOK /\ Pool!TypeOK
      /\ Pool!FreedWithLast /\ Pool!BuffersInside /\ Pool!PointersStay /\ Pool!FdClosedOnce /\ Pool!SizesAgree
      /\ Pool!LegalNotRefused
  BY DEF Pool!Inv, Pool!TypeOK
<1>n. INT32_MAX \in Nat /\ Numbers \subseteq (-INT32_MAX - 1)..INT32_MAX
  BY DEF Pool!PoolMappingAssumption
<1>1. /\ resource /\ ~pool_error /\ buffer[b] = None /\ b \notin Pool!Alive
      /\ UNCHANGED <<pool, resource, external_refcount, size, new_size, data, pointer, fd, asked, referenced>>
  BY DEF Pool!CreateBuffer, Pool!Alive
<1>2. o \in Int /\ w \in Int /\ h \in Int /\ s \in Int /\ h <= INT32_MAX /\ s <= INT32_MAX
  BY <1>n
<1>a. s * h \in Int
  BY <1>2
<1>b. size \in Nat /\ size <= INT32_MAX /\ INT32_MAX \in Nat
  BY <1>0, <1>n DEF Pool!SizesOK
<1>3. Pool!SizesOK' /\ pointer' \in {None} \cup 0..2 /\ Pool!PointersStay'
  BY <1>0, <1>1 DEF Pool!TypeOK, Pool!SizesOK, Pool!PointersStay
<1>4. CASE Pool!Invalid(o, w, h, s)
  <2>1. /\ pool_error' = TRUE /\ UNCHANGED <<internal_refcount, buffer>>
        /\ legal' = (legal /\ Pool!Inside(o, h, s, asked) /\ 0 < w /\ w <= s /\ 0 < h)
    BY <1>0, <1>4 DEF Pool!CreateBuffer
  <2>2. Pool!Alive' = Pool!Alive
    BY <1>0, <2>1 DEF Pool!Alive
  <2>3. Pool!TypeOK'
    <3>1. legal' \in BOOLEAN
      BY <1>0, <2>1 DEF Pool!TypeOK
    <3>2. Pool!CountsOK'
      BY <1>0, <1>1, <2>1 DEF Pool!TypeOK, Pool!CountsOK
    <3> QED
      BY <1>0, <1>1, <1>3, <2>1, <3>1, <3>2 DEF Pool!TypeOK
  <2>4. Pool!FreedWithLast' /\ Pool!BuffersInside' /\ Pool!FdClosedOnce'
    BY <1>0, <1>1, <2>1, <2>2 DEF Pool!FreedWithLast, Pool!BuffersInside, Pool!FdClosedOnce, Pool!SizesAgree, Pool!Inside
  <2>5. Pool!SizesAgree'
    BY <1>0, <1>1, <2>1, <2>2 DEF Pool!SizesAgree
  <2>6. ASSUME ~referenced, legal' PROVE FALSE
    <3>1. asked = size /\ Pool!Inside(o, h, s, size) /\ 0 < w /\ w <= s /\ 0 < h
      BY <1>0, <1>1, <2>1, <2>6 DEF Pool!SizesAgree
    <3>2. o >= 0 /\ o + s * h <= size
      BY <1>0, <3>1 DEF Pool!Inside
    <3>4. s * h <= INT32_MAX /\ o <= size - s * h
      BY <1>0, <1>2, <1>a, <1>b, <3>2
    <3>5. s \in Nat \ {0} /\ h \in Nat
      BY <1>2, <3>1
    <3>6. h <= INT32_MAX \div s /\ INT32_MAX \div s \in Nat
      BY <1>b, <3>4, <3>5, PoolProduct
    <3> QED
      BY <1>2, <1>4, <1>b, <1>a, <3>1, <3>2, <3>4, <3>5, <3>6 DEF Pool!Invalid
  <2> QED
    BY <1>1, <1>3, <2>3, <2>4, <2>5, <2>6 DEF Pool!Inv, Pool!LegalNotRefused
<1>5. CASE ~Pool!Invalid(o, w, h, s)
  <2> DEFINE place == [offset |-> o, height |-> h, stride |-> s]
  <2>1. /\ buffer' = [buffer EXCEPT ![b] = place]
        /\ internal_refcount' = internal_refcount + 1 /\ UNCHANGED <<pool_error, legal>>
    BY <1>0, <1>5 DEF Pool!CreateBuffer
  <2>2. o >= 0 /\ w > 0 /\ h > 0 /\ s >= w /\ o <= size - s * h
    <3> DEFINE area == s * h
    <3>1. ~(o < 0) /\ ~(w <= 0) /\ ~(h <= 0) /\ ~(s < w) /\ ~(o > size - area)
      BY <1>0, <1>5, Zenon DEF Pool!Invalid
    <3>3. area \in Int
      BY <1>0, <1>a
    <3> HIDE DEF area
    <3>2. o >= 0 /\ w > 0 /\ h > 0 /\ s >= w /\ o <= size - area
      BY <1>0, <1>2, <1>b, <3>1, <3>3
    <3> QED
      BY <1>0, <3>2 DEF area
  <2>3. place \in Pool!Places /\ place # None
    BY <1>2, <2>2 DEF Pool!Places, Pool!PoolMappingAssumption
  <2>4. Pool!Inside(place.offset, place.height, place.stride, size)
    <3> DEFINE area == s * h
    <3>1. o >= 0 /\ o <= size - area /\ area \in Int
      BY <1>0, <2>2, <1>a
    <3> HIDE DEF area
    <3>2. o + area <= size
      BY <1>0, <1>2, <1>b, <3>1
    <3> QED
      BY <1>0, <2>2, <3>2 DEF Pool!Inside, area
  <2> HIDE DEF place
  <2>5. buffer' \in [Buffers -> {None} \cup Pool!Places]
    BY <1>0, <2>1, <2>3 DEF Pool!TypeOK
  <2>6. Pool!Alive' = Pool!Alive \cup {b}
    BY <1>0, <2>1, <2>3 DEF Pool!Alive, Pool!TypeOK
  <2>7. Pool!Cardinality(Pool!Alive') = Pool!Cardinality(Pool!Alive) + 1
    BY <1>0, <1>1, <2>6, PoolAliveFinite, PoolElements
  <2>8. Pool!IsFiniteSet(Pool!Alive') /\ Pool!Cardinality(Pool!Alive') <= Pool!Cardinality(Buffers) /\ Pool!Alive' # {}
    <3>1. Pool!Alive' \subseteq Buffers /\ Pool!IsFiniteSet(Buffers)
      BY DEF Pool!Alive, Pool!PoolMappingAssumption
    <3> QED
      BY <2>6, <3>1, PoolSubset
  <2>9. Pool!FreedWithLast'
    <3>1. internal_refcount' = Pool!Cardinality(Pool!Alive') + (IF resource' THEN 1 ELSE 0)
      BY <1>0, <1>1, <2>1, <2>7, PoolAliveFinite DEF Pool!FreedWithLast
    <3> QED
      BY <1>0, <1>1, <2>8, <3>1 DEF Pool!FreedWithLast
  <2>10. Pool!CountsOK'
    <3>1. internal_refcount' \in 0..(1 + Pool!Cardinality(Buffers))
      BY <1>0, <1>1, <2>1, <2>7, <2>8, PoolAliveFinite DEF Pool!FreedWithLast
    <3> QED
      BY <1>0, <1>1, <3>1 DEF Pool!CountsOK
  <2>11. Pool!TypeOK'
    BY <1>0, <1>1, <1>3, <2>1, <2>5, <2>10 DEF Pool!TypeOK
  <2>12. Pool!BuffersInside'
    <3>1. ASSUME NEW c \in Pool!Alive' PROVE Pool!Inside(buffer'[c].offset, buffer'[c].height, buffer'[c].stride, size')
      <4>1. CASE c = b
        BY <1>0, <1>1, <2>1, <2>4, <4>1 DEF Pool!TypeOK, Pool!Inside
      <4>2. CASE c # b
        BY <1>0, <1>1, <2>1, <2>6, <3>1, <4>2 DEF Pool!TypeOK, Pool!Inside, Pool!BuffersInside, Pool!Alive
      <4> QED
        BY <1>0, <4>1, <4>2
    <3> QED
      BY <1>0, <3>1 DEF Pool!BuffersInside
  <2>13. Pool!FdClosedOnce' /\ Pool!SizesAgree'
    BY <1>0, <1>1, <2>1, <2>8 DEF Pool!FdClosedOnce, Pool!SizesAgree
  <2>14. Pool!LegalNotRefused'
    BY <1>0, <1>1, <2>1 DEF Pool!LegalNotRefused
  <2> QED
    BY <1>3, <2>9, <2>11, <2>12, <2>13, <2>14 DEF Pool!Inv
<1> QED
  BY <1>0, <1>4, <1>5

\* A place in a mapping is in every larger one.
LEMMA PoolInsideGrows ==
  ASSUME Pool!PoolMappingAssumption, NEW p \in Pool!Places, NEW n \in Nat, NEW m \in Nat, n <= m,
         Pool!Inside(p.offset, p.height, p.stride, n)
  PROVE  Pool!Inside(p.offset, p.height, p.stride, m)
<1> DEFINE o == p.offset
           area == p.stride * p.height
<1>1. o \in Nat /\ p.height \in Int /\ p.stride \in Int
  BY DEF Pool!Places
<1>2. area \in Int
  BY <1>1
<1>3. o + area <= n /\ o >= 0
  BY DEF Pool!Inside
<1> HIDE DEF o, area
<1>4. o + area <= m /\ o >= 0
  BY <1>1, <1>2, <1>3
<1> QED
  BY <1>4 DEF Pool!Inside, o, area

\* The mapping never becomes smaller, so that the buffers stay inside.
LEMMA PoolFinishResize ==
  ASSUME Pool!PoolMappingAssumption, Pool!TypeOK, Pool!BuffersInside, UNCHANGED buffer,
         NEW n \in 0..INT32_MAX, size <= n, pool # "none",
         \/ Pool!FinishResize(n)
         \/ UNCHANGED <<size, data, pool_error>>
  PROVE  /\ size' \in 0..INT32_MAX /\ size <= size' /\ size' <= n
         /\ data' \in 1..2 /\ pool_error' \in BOOLEAN
         /\ Pool!BuffersInside'
<1>1. size \in 0..INT32_MAX /\ data \in 1..2 /\ pool_error \in BOOLEAN /\ INT32_MAX \in Nat
  <2>1. Pool!SizesOK /\ pool_error \in BOOLEAN /\ INT32_MAX \in Nat
    BY DEF Pool!TypeOK, Pool!PoolMappingAssumption
  <2> QED
    BY <2>1 DEF Pool!SizesOK
<1>2. size' \in 0..INT32_MAX /\ size <= size' /\ size' <= n
  BY <1>1 DEF Pool!FinishResize
<1>3. data' \in 1..2
  <2>1. 3 - data \in 1..2
    BY <1>1
  <2>2. data' = data \/ data' = 3 - data
    BY DEF Pool!FinishResize
  <2> QED
    BY <1>1, <2>1, <2>2
<1>4. pool_error' \in BOOLEAN
  BY <1>1 DEF Pool!FinishResize
<1>5. Pool!BuffersInside'
  <2>1. ASSUME NEW c \in Pool!Alive'
        PROVE  Pool!Inside(buffer'[c].offset, buffer'[c].height, buffer'[c].stride, size')
    <3>1. c \in Pool!Alive /\ buffer'[c] = buffer[c]
      BY DEF Pool!Alive
    <3>2. buffer[c] \in Pool!Places
      BY <3>1 DEF Pool!Alive, Pool!TypeOK
    <3>3. Pool!Inside(buffer[c].offset, buffer[c].height, buffer[c].stride, size)
      BY <3>1 DEF Pool!BuffersInside
    <3>4. Pool!Inside(buffer[c].offset, buffer[c].height, buffer[c].stride, size')
      BY <1>1, <1>2, <3>2, <3>3, PoolInsideGrows
    <3> QED
      BY <3>1, <3>4
  <2> QED
    BY <2>1 DEF Pool!BuffersInside
<1> QED
  BY <1>2, <1>3, <1>4, <1>5

\* A resize keeps the pointers of the compositor: it waits for its references.
LEMMA PoolResize ==
  ASSUME Pool!PoolMappingAssumption, Pool!Inv, NEW n \in Numbers, Pool!Resize(n) PROVE Pool!Inv'
<1>0. /\ Pool!CountsOK /\ Pool!SizesOK /\ Pool!TypeOK
      /\ Pool!FreedWithLast /\ Pool!BuffersInside /\ Pool!PointersStay /\ Pool!FdClosedOnce /\ Pool!SizesAgree
      /\ Pool!LegalNotRefused
  BY DEF Pool!Inv, Pool!TypeOK
<1>1. /\ resource /\ ~pool_error /\ UNCHANGED <<pool, resource, Pool!refcounts, pointer, buffer, fd, referenced>>
  BY DEF Pool!Resize
<1>2. Pool!Alive' = Pool!Alive /\ UNCHANGED <<internal_refcount, external_refcount>>
  BY <1>1 DEF Pool!Alive, Pool!refcounts
<1>3. Pool!FreedWithLast' /\ Pool!CountsOK' /\ pool # "none"
  <2>1. Pool!FreedWithLast'
    BY <1>0, <1>1, <1>2 DEF Pool!FreedWithLast
  <2>2. Pool!CountsOK'
    BY <1>0, <1>1, <1>2 DEF Pool!CountsOK
  <2> QED
    BY <1>0, <1>1, <2>1, <2>2 DEF Pool!SizesAgree
<1>4. n \in Int /\ n <= INT32_MAX /\ size \in Nat /\ new_size \in 0..INT32_MAX /\ asked \in Nat
  BY <1>0 DEF Pool!PoolMappingAssumption, Pool!SizesOK
<1>5. Pool!FdClosedOnce'
  BY <1>0, <1>1, <1>3 DEF Pool!FdClosedOnce
<1>6. CASE Pool!Shrinks(n)
  <2>1. pool_error' = TRUE /\ legal' = (legal /\ n >= asked) /\ UNCHANGED <<new_size, size, data, asked>>
    BY <1>6 DEF Pool!Resize
  <2>2. Pool!TypeOK'
    <3>1. legal' \in BOOLEAN
      BY <1>0, <2>1 DEF Pool!TypeOK
    <3> QED
      BY <1>0, <1>1, <1>3, <2>1, <3>1 DEF Pool!TypeOK, Pool!SizesOK
  <2>3. Pool!BuffersInside' /\ Pool!PointersStay' /\ Pool!SizesAgree'
    BY <1>0, <1>1, <1>2, <2>1 DEF Pool!BuffersInside, Pool!PointersStay, Pool!SizesAgree, Pool!Inside
  <2>4. ~referenced => ~legal'
    <3>1. ~referenced /\ legal => asked = size
      BY <1>0, <1>1 DEF Pool!SizesAgree
    <3>2. n < size
      BY <1>6 DEF Pool!Shrinks
    <3>3. legal' => legal /\ n >= asked
      BY <2>1, Zenon
    <3> QED
      BY <1>4, <3>1, <3>2, <3>3
  <2> QED
    BY <1>1, <1>3, <1>5, <2>2, <2>3, <2>4 DEF Pool!Inv, Pool!LegalNotRefused
<1>7. CASE ~Pool!Shrinks(n)
  <2>1. /\ new_size' = n /\ asked' = n /\ legal' = (legal /\ n >= asked /\ ~pool_error')
        /\ IF Pool!MayMove THEN Pool!FinishResize(n) ELSE UNCHANGED <<size, data, pool_error>>
    BY <1>7 DEF Pool!Resize
  <2>2. n \in 0..INT32_MAX /\ size <= n
    BY <1>4, <1>7 DEF Pool!Shrinks
  <2>3. /\ size' \in 0..INT32_MAX /\ size <= size' /\ size' <= n
        /\ data' \in 1..2 /\ pool_error' \in BOOLEAN /\ Pool!BuffersInside'
    BY <1>0, <1>1, <1>3, <2>1, <2>2, PoolFinishResize
  <2>4. Pool!TypeOK'
    <3>1. legal' \in BOOLEAN
      BY <1>0, <2>1, <2>3 DEF Pool!TypeOK
    <3>2. Pool!SizesOK'
      BY <2>1, <2>2, <2>3 DEF Pool!SizesOK
    <3> QED
      BY <1>0, <1>1, <1>3, <2>3, <3>1, <3>2 DEF Pool!TypeOK
  <2>5. Pool!PointersStay'
    BY <1>0, <1>1, <1>2, <2>1 DEF Pool!PointersStay, Pool!MayMove, Pool!CountsOK
  <2>6. Pool!SizesAgree'
    <3>1. ASSUME ~referenced, legal' PROVE asked' = size'
      <4>1. Pool!MayMove
        BY <1>0, <3>1 DEF Pool!MayMove, Pool!CountsOK, Pool!SizesAgree, Pool!PoolMappingAssumption
      <4> QED
        BY <1>1, <2>1, <3>1, <4>1 DEF Pool!FinishResize
    <3>2. (external_refcount > 0 => referenced)'
      BY <1>0, <1>1, <1>2 DEF Pool!SizesAgree
    <3> QED
      BY <1>1, <1>3, <2>1, <2>3, <3>1, <3>2, Zenon DEF Pool!SizesAgree
  <2> QED
    BY <1>3, <1>5, <2>1, <2>3, <2>4, <2>5, <2>6 DEF Pool!Inv, Pool!LegalNotRefused
<1> QED
  BY <1>6, <1>7

\* An allocation that fails changes nothing but the connection.
LEMMA PoolBufferFails == ASSUME Pool!PoolMappingAssumption, Pool!Inv, Pool!BufferFails PROVE Pool!Inv'
<1>0. /\ Pool!CountsOK /\ Pool!SizesOK /\ Pool!TypeOK
      /\ Pool!FreedWithLast /\ Pool!BuffersInside /\ Pool!PointersStay /\ Pool!FdClosedOnce /\ Pool!SizesAgree
  BY DEF Pool!Inv, Pool!TypeOK
<1>1. resource /\ ~pool_error /\ pool_error' = TRUE /\ legal' = FALSE
      /\ UNCHANGED <<pool, resource, internal_refcount, external_refcount, size, new_size, data, pointer, buffer, fd, asked, referenced>>
  BY DEF Pool!BufferFails, Pool!refcounts
<1>2. Pool!Alive' = Pool!Alive
  BY <1>1 DEF Pool!Alive
<1>3. Pool!TypeOK'
  BY <1>0, <1>1 DEF Pool!TypeOK, Pool!CountsOK, Pool!SizesOK
<1>4. Pool!FreedWithLast' /\ Pool!PointersStay' /\ Pool!SizesAgree'
  BY <1>0, <1>1, <1>2 DEF Pool!FreedWithLast, Pool!PointersStay, Pool!SizesAgree
<1>5. Pool!BuffersInside' /\ Pool!FdClosedOnce'
  BY <1>0, <1>1, <1>2 DEF Pool!BuffersInside, Pool!FdClosedOnce, Pool!SizesAgree, Pool!Inside
<1> QED
  BY <1>1, <1>3, <1>4, <1>5 DEF Pool!Inv, Pool!LegalNotRefused

\* With a buffer goes one internal reference, and the pool with the last.
LEMMA PoolDestroyBuffer ==
  ASSUME Pool!PoolMappingAssumption, Pool!Inv, NEW b \in Buffers, Pool!DestroyBuffer(b) PROVE Pool!Inv'
<1>0. /\ Pool!CountsOK /\ Pool!SizesOK /\ Pool!TypeOK
      /\ Pool!FreedWithLast /\ Pool!BuffersInside /\ Pool!PointersStay /\ Pool!FdClosedOnce /\ Pool!SizesAgree
      /\ Pool!LegalNotRefused
  BY DEF Pool!Inv, Pool!TypeOK
<1>1. /\ buffer[b] # None /\ buffer' = [buffer EXCEPT ![b] = None]
      /\ internal_refcount' = internal_refcount - 1 /\ Pool!FreeIfUnused
      /\ UNCHANGED <<external_refcount, resource, size, new_size, data, pointer, fd, asked, legal, referenced, pool_error>>
  BY DEF Pool!DestroyBuffer
<1>2. buffer' \in [Buffers -> {None} \cup Pool!Places]
  BY <1>0, <1>1 DEF Pool!TypeOK
<1>3. Pool!Alive' = Pool!Alive \ {b} /\ b \in Pool!Alive
  BY <1>0, <1>1 DEF Pool!Alive, Pool!TypeOK
<1>4. Pool!Cardinality(Pool!Alive') = Pool!Cardinality(Pool!Alive) - 1
  BY <1>3, PoolAliveFinite, PoolElements
<1>5. /\ Pool!IsFiniteSet(Pool!Alive') /\ Pool!Cardinality(Pool!Alive') \in Nat /\ (Pool!Cardinality(Pool!Alive') = 0 <=> Pool!Alive' = {})
  BY <1>3, PoolAliveFinite, PoolSubset, PoolEmpty
<1>6. pool = "live"
  BY <1>0, <1>3 DEF Pool!SizesAgree, Pool!FreedWithLast, Pool!CountsOK
<1>7. internal_refcount' = Pool!Cardinality(Pool!Alive') + (IF resource' THEN 1 ELSE 0)
  BY <1>0, <1>1, <1>4, PoolAliveFinite DEF Pool!FreedWithLast
<1>8. external_refcount \in Nat
  BY <1>0 DEF Pool!CountsOK, Pool!PoolMappingAssumption
<1>9. Pool!NoneLeft <=> ~resource' /\ Pool!Alive' = {} /\ external_refcount' = 0
  BY <1>1, <1>5, <1>7, <1>8 DEF Pool!NoneLeft
<1>10. pool' \in {"live", "freed"} /\ (pool' = "freed" <=> Pool!NoneLeft)
  BY <1>1, <1>6 DEF Pool!FreeIfUnused
<1>11. Pool!FreedWithLast'
  BY <1>7, <1>9, <1>10 DEF Pool!FreedWithLast
<1>12. Pool!TypeOK'
  <2>1. Pool!CountsOK'
    <3>1. internal_refcount' \in 0..(1 + Pool!Cardinality(Buffers))
      BY <1>0, <1>1, <1>5, <1>7, PoolAliveFinite DEF Pool!CountsOK
    <3> QED
      BY <1>0, <1>1, <1>10, <3>1 DEF Pool!CountsOK
  <2> QED
    BY <1>0, <1>1, <1>2, <1>6, <2>1 DEF Pool!TypeOK, Pool!SizesOK
<1>13. Pool!BuffersInside'
  <2>1. ASSUME NEW c \in Pool!Alive'
        PROVE  c \in Pool!Alive /\ buffer'[c] = buffer[c]
    BY <1>0, <1>1, <1>3 DEF Pool!Alive, Pool!TypeOK
  <2> QED
    BY <1>0, <1>1, <2>1 DEF Pool!BuffersInside, Pool!Inside
<1>14. Pool!PointersStay' /\ Pool!FdClosedOnce' /\ Pool!SizesAgree'
  BY <1>0, <1>1, <1>6, <1>10 DEF Pool!PointersStay, Pool!FdClosedOnce, Pool!SizesAgree
<1> QED
  BY <1>0, <1>1, <1>11, <1>12, <1>13, <1>14 DEF Pool!Inv, Pool!LegalNotRefused

\* With the object goes one internal reference, and the pool with the last.
LEMMA PoolDestroyPool == ASSUME Pool!PoolMappingAssumption, Pool!Inv, Pool!DestroyPool PROVE Pool!Inv'
<1>0. /\ Pool!CountsOK /\ Pool!SizesOK /\ Pool!TypeOK
      /\ Pool!FreedWithLast /\ Pool!BuffersInside /\ Pool!PointersStay /\ Pool!FdClosedOnce /\ Pool!SizesAgree
      /\ Pool!LegalNotRefused
  BY DEF Pool!Inv, Pool!TypeOK
<1>1. /\ resource /\ resource' = FALSE
      /\ internal_refcount' = internal_refcount - 1 /\ Pool!FreeIfUnused
      /\ UNCHANGED <<external_refcount, size, new_size, data, pointer, buffer, fd, asked, legal, referenced, pool_error>>
  BY DEF Pool!DestroyPool
<1>2. Pool!Alive' = Pool!Alive
  BY <1>1 DEF Pool!Alive
<1>6. pool = "live"
  BY <1>0, <1>1 DEF Pool!SizesAgree, Pool!FreedWithLast, Pool!CountsOK
<1>7. internal_refcount' = Pool!Cardinality(Pool!Alive')
  BY <1>0, <1>1, <1>2, PoolAliveFinite DEF Pool!FreedWithLast
<1>8. external_refcount \in Nat
  BY <1>0 DEF Pool!CountsOK, Pool!PoolMappingAssumption
<1>9. Pool!NoneLeft <=> Pool!Alive' = {} /\ external_refcount' = 0
  BY <1>1, <1>2, <1>7, <1>8, PoolAliveFinite DEF Pool!NoneLeft
<1>10. pool' \in {"live", "freed"} /\ (pool' = "freed" <=> Pool!NoneLeft)
  BY <1>1, <1>6 DEF Pool!FreeIfUnused
<1>11. Pool!FreedWithLast'
  BY <1>1, <1>2, <1>7, <1>9, <1>10, PoolAliveFinite DEF Pool!FreedWithLast
<1>12. Pool!TypeOK'
  <2>1. Pool!CountsOK'
    <3>1. internal_refcount' \in 0..(1 + Pool!Cardinality(Buffers))
      BY <1>2, <1>7, PoolAliveFinite
    <3> QED
      BY <1>0, <1>1, <1>10, <3>1 DEF Pool!CountsOK
  <2> QED
    BY <1>0, <1>1, <1>6, <2>1 DEF Pool!TypeOK, Pool!SizesOK
<1>14. Pool!PointersStay' /\ Pool!FdClosedOnce' /\ Pool!SizesAgree'
  BY <1>0, <1>1, <1>6, <1>10 DEF Pool!PointersStay, Pool!FdClosedOnce, Pool!SizesAgree
<1>15. Pool!BuffersInside'
  BY <1>0, <1>1, <1>2 DEF Pool!BuffersInside, Pool!Inside
<1> QED
  BY <1>0, <1>1, <1>11, <1>12, <1>14, <1>15 DEF Pool!Inv, Pool!LegalNotRefused

\* A reference of the compositor comes with a pointer to where the mapping is.
LEMMA PoolRefPool == ASSUME Pool!PoolMappingAssumption, Pool!Inv, Pool!RefPool PROVE Pool!Inv'
<1>0. /\ Pool!CountsOK /\ Pool!SizesOK /\ Pool!TypeOK
      /\ Pool!FreedWithLast /\ Pool!BuffersInside /\ Pool!PointersStay /\ Pool!FdClosedOnce /\ Pool!SizesAgree
      /\ Pool!LegalNotRefused
  BY DEF Pool!Inv, Pool!TypeOK
<1>1. /\ external_refcount < MaxRefs /\ Pool!Alive # {}
      /\ external_refcount' = external_refcount + 1 /\ pointer' = data /\ referenced' = TRUE
      /\ UNCHANGED <<pool, resource, internal_refcount, size, new_size, data, buffer, fd, asked, legal, pool_error>>
  BY DEF Pool!RefPool, Pool!Alive
<1>2. Pool!Alive' = Pool!Alive
  BY <1>1 DEF Pool!Alive
<1>3. external_refcount' \in 0..MaxRefs /\ external_refcount' # 0 /\ pool # "none"
  BY <1>0, <1>1 DEF Pool!CountsOK, Pool!PoolMappingAssumption, Pool!SizesAgree
<1>4. Pool!TypeOK'
  <2>1. pointer' \in {None} \cup 0..2
    BY <1>0, <1>1 DEF Pool!SizesOK
  <2> QED
    BY <1>0, <1>1, <1>3, <2>1 DEF Pool!TypeOK, Pool!CountsOK, Pool!SizesOK
<1>5. Pool!FreedWithLast' /\ Pool!PointersStay' /\ Pool!SizesAgree'
  BY <1>0, <1>1, <1>2, <1>3 DEF Pool!FreedWithLast, Pool!PointersStay, Pool!SizesAgree
<1>6. Pool!BuffersInside' /\ Pool!FdClosedOnce'
  BY <1>0, <1>1, <1>2 DEF Pool!BuffersInside, Pool!FdClosedOnce, Pool!Inside
<1> QED
  BY <1>0, <1>1, <1>4, <1>5, <1>6 DEF Pool!Inv, Pool!LegalNotRefused

\* With the last reference of the compositor goes its pointer: the mapping may move.
LEMMA PoolUnrefPool == ASSUME Pool!PoolMappingAssumption, Pool!Inv, Pool!UnrefPool PROVE Pool!Inv'
<1>0. /\ Pool!CountsOK /\ Pool!SizesOK /\ Pool!TypeOK
      /\ Pool!FreedWithLast /\ Pool!BuffersInside /\ Pool!PointersStay /\ Pool!FdClosedOnce /\ Pool!SizesAgree
      /\ Pool!LegalNotRefused
  BY DEF Pool!Inv, Pool!TypeOK
<1>1. /\ external_refcount > 0 /\ external_refcount' = external_refcount - 1
      /\ IF external_refcount' = 0 THEN Pool!FinishResize(new_size) /\ pointer' = None
         ELSE UNCHANGED <<size, data, pool_error, pointer>>
      /\ legal' = (legal /\ pool_error' = pool_error) /\ Pool!FreeIfUnused
      /\ UNCHANGED <<internal_refcount, resource, new_size, buffer, fd, asked, referenced>>
  BY DEF Pool!UnrefPool
<1>2. Pool!Alive' = Pool!Alive
  BY <1>1 DEF Pool!Alive
<1>3. pool = "live"
  BY <1>0, <1>1 DEF Pool!SizesAgree, Pool!FreedWithLast, Pool!CountsOK
<1>4. new_size \in 0..INT32_MAX /\ size <= new_size
  BY <1>0 DEF Pool!SizesOK, Pool!SizesAgree
<1>5. /\ size' \in 0..INT32_MAX /\ size <= size' /\ size' <= new_size
      /\ data' \in 1..2 /\ pool_error' \in BOOLEAN /\ Pool!BuffersInside'
  BY <1>0, <1>1, <1>3, <1>4, PoolFinishResize
<1>6. external_refcount' \in 0..MaxRefs /\ referenced /\ referenced'
  BY <1>0, <1>1 DEF Pool!CountsOK, Pool!PoolMappingAssumption, Pool!SizesAgree
<1>7. Pool!NoneLeft <=> ~resource' /\ Pool!Alive' = {} /\ external_refcount' = 0
  <2>1. internal_refcount' = Pool!Cardinality(Pool!Alive') + (IF resource' THEN 1 ELSE 0)
    BY <1>0, <1>1, <1>2 DEF Pool!FreedWithLast
  <2> QED
    BY <1>2, <1>6, <2>1, PoolAliveFinite DEF Pool!NoneLeft, Pool!PoolMappingAssumption
<1>8. pool' \in {"live", "freed"} /\ (pool' = "freed" <=> Pool!NoneLeft)
  BY <1>1, <1>3 DEF Pool!FreeIfUnused
<1>9. Pool!FreedWithLast'
  BY <1>0, <1>1, <1>2, <1>7, <1>8 DEF Pool!FreedWithLast
<1>10. Pool!TypeOK'
  <2>1. Pool!CountsOK'
    BY <1>0, <1>1, <1>6, <1>8 DEF Pool!CountsOK
  <2>2. Pool!SizesOK'
    BY <1>0, <1>1, <1>5 DEF Pool!SizesOK
  <2>3. legal' \in BOOLEAN
    BY <1>0, <1>1, <1>5 DEF Pool!TypeOK
  <2>4. pointer' \in {None} \cup 0..2
    BY <1>0, <1>1 DEF Pool!TypeOK
  <2> QED
    BY <1>0, <1>1, <1>5, <2>1, <2>2, <2>3, <2>4 DEF Pool!TypeOK
<1>11. Pool!PointersStay' /\ Pool!FdClosedOnce' /\ Pool!SizesAgree'
  BY <1>0, <1>1, <1>3, <1>5, <1>6, <1>8 DEF Pool!PointersStay, Pool!FdClosedOnce, Pool!SizesAgree
<1> QED
  BY <1>5, <1>6, <1>9, <1>10, <1>11 DEF Pool!Inv, Pool!LegalNotRefused

\* The pool is freed with its last user and not before, its buffers lie inside the mapping,
\* the mapping does not move under a reference of the compositor, and the descriptor is
\* closed once: for every set of buffers, size, request and number of references.
THEOREM PoolHolds == ASSUME Pool!PoolMappingAssumption PROVE Pool!Spec => []Pool!Inv
<1>1. Pool!Inv /\ [Pool!Next]_(Pool!vars) => Pool!Inv'
  <2> SUFFICES ASSUME Pool!Inv, [Pool!Next]_(Pool!vars) PROVE Pool!Inv'
    OBVIOUS
  <2>1. CASE UNCHANGED Pool!vars
    <3>1. Pool!Alive' = Pool!Alive
      BY <2>1 DEF Pool!vars, Pool!Alive
    <3>2. Pool!TypeOK' /\ Pool!FreedWithLast' /\ Pool!PointersStay' /\ Pool!FdClosedOnce'
      BY <2>1, <3>1 DEF Pool!vars, Pool!Inv, Pool!TypeOK, Pool!CountsOK, Pool!SizesOK, Pool!FreedWithLast, Pool!PointersStay, Pool!FdClosedOnce
    <3>3. Pool!BuffersInside' /\ Pool!SizesAgree' /\ Pool!LegalNotRefused'
      BY <2>1, <3>1 DEF Pool!vars, Pool!Inv, Pool!BuffersInside, Pool!Inside, Pool!SizesAgree, Pool!LegalNotRefused
    <3> QED
      BY <3>2, <3>3 DEF Pool!Inv
  <2>2. CASE Pool!Next
    BY <2>2, PoolCreatePool, PoolResize, PoolDestroyBuffer, PoolCreateBuffer, PoolBufferFails, PoolDestroyPool, PoolRefPool, PoolUnrefPool DEF Pool!Next
  <2> QED
    BY <2>1, <2>2
<1> QED
  BY <1>1, PoolInit, PTL DEF Pool!Spec
------------------------------------------------------------------------------
(* The suite: each component runs alone or stands still *)

\* The suite runs the guard, or leaves it as it is.
LEMMA GuardRuns == Spec => Guard!Spec
<1>1. Init => Guard!Init
  BY DEF Init, Guard!Init
<1>2. [Next]_vars => [Guard!Next]_(Guard!vars)
  BY DEF Next, Only, vars, Guard!vars, guardVars
<1> QED
  BY <1>1, <1>2, PTL DEF Spec, Guard!Spec

\* The suite runs a pool, or leaves it as it is.
LEMMA PoolRuns == Spec => Pool!Spec
<1>1. Init => Pool!Init
  BY DEF Init
<1>2. [Next]_vars => [Pool!Next]_(Pool!vars)
  BY DEF Next, Only, vars, Pool!vars, poolVars
<1> QED
  BY <1>1, <1>2, PTL DEF Spec, Pool!Spec

\* The suite runs compositors that may be killed, or leaves them as they are.
LEMMA LockPart ==
  Spec => [](part = "lock" => Lock!Inv)
<1>1. Init /\ part = "lock" => Lock!Init
  BY DEF Init
<1>2. part = "lock" /\ [Next]_vars => [Lock!Next]_(Lock!vars) /\ (part = "lock")'
  BY DEF Next, Only, vars, Lock!vars, lockVars
<1>3. ~(part = "lock") /\ [Next]_vars => (~(part = "lock"))'
  BY DEF Next, Only, vars
<1>4. Lock!Spec => []Lock!Inv
  BY Lock!LockHolds, MCServerAssumption DEF MCServerAssumption, Lock!OrderlyOrFew
<1> QED
  BY <1>1, <1>2, <1>3, <1>4, PTL DEF Spec, Lock!Spec

\* The suite runs compositors that look for a name, or leaves them as they are.
LEMMA NumberedPart ==
  Spec => [](part = "auto" => Numbered!Inv /\ Numbered!NamesTaken /\ Numbered!AutoFindsName)
<1>1. Init /\ part = "auto" => Numbered!Init
  BY DEF Init
<1>2. part = "auto" /\ [Next]_vars => [Numbered!Next]_(Numbered!vars) /\ (part = "auto")'
  BY DEF Next, Only, vars, Numbered!vars, lockVars
<1>3. ~(part = "auto") /\ [Next]_vars => (~(part = "auto"))'
  BY DEF Next, Only, vars
<1>4. Numbered!Spec => []Numbered!Inv
  BY Numbered!LockHolds, MCServerAssumption DEF MCServerAssumption, Numbered!OrderlyOrFew
<1>5. Numbered!Spec => [](Numbered!NamesTaken /\ Numbered!AutoFindsName)
  BY Numbered!AutoHolds, MCServerAssumption DEF MCServerAssumption
<1> QED
  BY <1>1, <1>2, <1>3, <1>4, <1>5, PTL DEF Spec, Numbered!Spec

\* The suite runs two compositors that end in order, or leaves them as they are.
LEMMA OrderlyPart ==
  Spec => [](part = "orderly" => Orderly!Inv)
<1>1. Init /\ part = "orderly" => Orderly!Init
  BY DEF Init
<1>2. part = "orderly" /\ [Next]_vars => [Orderly!Next]_(Orderly!vars) /\ (part = "orderly")'
  BY DEF Next, Only, vars, Orderly!vars, lockVars
<1>3. ~(part = "orderly") /\ [Next]_vars => (~(part = "orderly"))'
  BY DEF Next, Only, vars
<1>4. Orderly!OrderlyOrFew
  BY DEF Orderly!OrderlyOrFew
<1>5. Orderly!Spec => []Orderly!Inv
  BY <1>4, Orderly!LockHolds, MCServerAssumption DEF MCServerAssumption
<1> QED
  BY <1>1, <1>2, <1>3, <1>4, <1>5, PTL DEF Spec, Orderly!Spec

\* The suite runs the globals and their registries, or leaves them as they are.
LEMMA RegistryRuns == Spec => Registry!Spec
<1>1. Init => Registry!Init
  BY DEF Init
<1>2. [Next]_vars => [Registry!Next]_(Registry!vars)
  BY DEF Next, Only, vars, Registry!vars, registryVars
<1> QED
  BY <1>1, <1>2, PTL DEF Spec, Registry!Spec

\* Globals that come and go while clients are told of them, bind them and leave: the
\* invariant of the registries, and what follows from it.
LEMMA RegistryHolds == Spec => []Registry!Inv
<1>1. Registry!GlobalsAssumption
  BY MCServerAssumption DEF MCServerAssumption
<1>2. Registry!Init => Registry!Inv
  BY <1>1, RegistryInit
<1>3. Registry!Inv /\ [Registry!Next]_(Registry!vars) => Registry!Inv'
  BY <1>1, RegistryStep
<1> QED
  BY <1>2, <1>3, RegistryRuns, PTL DEF Registry!Spec

\* A part of a sequence.
LEMMA PartFacts ==
  ASSUME NEW S, NEW seq \in Seq(S), NEW m \in 1..(Len(seq) + 1), NEW n \in 0..Len(seq), m <= n + 1
  PROVE  /\ SubSeq(seq, m, n) \in Seq(S) /\ Len(SubSeq(seq, m, n)) = n - m + 1
         /\ \A i \in 1..(n - m + 1) : SubSeq(seq, m, n)[i] = seq[m + i - 1]
<1>1. Len(seq) \in Nat /\ m \in Int /\ n \in Int
  OBVIOUS
<1>2. \A i \in m..n : seq[i] \in S
  BY <1>1
<1>3. /\ SubSeq(seq, m, n) \in Seq(S) /\ Len(SubSeq(seq, m, n)) = IF m <= n THEN n - m + 1 ELSE 0
      /\ \A i \in 1 .. n - m + 1 : SubSeq(seq, m, n)[i] = seq[m + i - 1]
  BY <1>1, <1>2, SubSeqProperties
<1> QED
  BY <1>1, <1>3

\* All of a sequence but its last element.
LEMMA FrontFacts ==
  ASSUME NEW S, NEW seq \in Seq(S), Len(seq) # 0
  PROVE  /\ SubSeq(seq, 1, Len(seq) - 1) \in Seq(S) /\ Len(SubSeq(seq, 1, Len(seq) - 1)) = Len(seq) - 1
         /\ \A k \in 1..(Len(seq) - 1) : SubSeq(seq, 1, Len(seq) - 1)[k] = seq[k]
<1>1. 1 \in 1..(Len(seq) + 1) /\ Len(seq) - 1 \in 0..Len(seq) /\ 1 <= Len(seq) - 1 + 1
      /\ Len(seq) - 1 - 1 + 1 = Len(seq) - 1
  OBVIOUS
<1>2. \A k \in 1..(Len(seq) - 1) : 1 + k - 1 = k
  OBVIOUS
<1> QED
  BY <1>1, <1>2, PartFacts

\* The last element of a sequence is changed.
WithLast(seq, f) == [seq EXCEPT ![Len(seq)] = f]

\* What is left of a sequence whose last element is changed.
LEMMA LastChanged ==
  ASSUME NEW S, NEW seq \in Seq(S), Len(seq) # 0, NEW f \in S
  PROVE  /\ WithLast(seq, f) \in Seq(S) /\ Len(WithLast(seq, f)) = Len(seq)
         /\ WithLast(seq, f)[Len(seq)] = f
         /\ \A k \in 1..(Len(seq) - 1) : WithLast(seq, f)[k] = seq[k]
<1> DEFINE n == Len(seq)
<1>1. n \in Nat \ {0} /\ seq \in [1..n -> S] /\ DOMAIN seq = 1..n
  OBVIOUS
<1>2. WithLast(seq, f) = [seq EXCEPT ![n] = f]
  BY DEF WithLast
<1> HIDE DEF n
<1>3. WithLast(seq, f) \in [1..n -> S] /\ WithLast(seq, f)[n] = f
      /\ \A k \in 1..(n - 1) : WithLast(seq, f)[k] = seq[k]
  BY <1>1, <1>2
<1>4. WithLast(seq, f) \in Seq(S) /\ Len(WithLast(seq, f)) = n
  BY <1>1, <1>3
<1> QED
  BY <1>3, <1>4 DEF n

\* The invariant of clients and calls from which the rest of it follows.
Fit == Served!TypeOK /\ Served!FramesFit /\ Served!ListsFit /\ Served!NoPostThroughFreed

\* A list without a client that was in it once.
Shorter(list, less, c) ==
  /\ less \in Seq(Clients) /\ Served!Once(less)
  /\ \A d \in Clients : d \in Served!ToSet(less) <=> d \in Served!ToSet(list) /\ d # c
  /\ list = <<>> => less = <<>>

\* What unlinking a client leaves of a list (wl_list_remove).
LEMMA ListShorter ==
  ASSUME NEW list \in Seq(Clients), Served!Once(list), NEW c \in Clients
  PROVE  Shorter(list, Served!Without(list, c), c)
<1>1. CASE c \notin Served!ToSet(list)
  BY <1>1 DEF Served!Without, Shorter
<1>2. CASE c \in Served!ToSet(list)
  <2> DEFINE n == Len(list)
             p == Served!Place(list, c)
             less == Served!RemoveAt(list, p)
  <2>1. n \in Nat /\ DOMAIN list = 1..n /\ \A i \in 1..n : list[i] \in Clients
    OBVIOUS
  <2>2. p \in 1..n /\ list[p] = c
    BY <1>2, <2>1 DEF Served!Place, Served!ToSet
  <2>3. less = SubSeq(list, 1, p - 1) \o SubSeq(list, p + 1, n)
    BY DEF Served!RemoveAt
  <2> HIDE DEF n, p, less
  <2>4. /\ SubSeq(list, 1, p - 1) \in Seq(Clients) /\ Len(SubSeq(list, 1, p - 1)) = p - 1
        /\ \A i \in 1..(p - 1) : SubSeq(list, 1, p - 1)[i] = list[i]
    <3>1. 1 \in 1..(Len(list) + 1) /\ p - 1 \in 0..Len(list) /\ 1 <= p - 1 + 1 /\ p - 1 - 1 + 1 = p - 1
      BY <2>1, <2>2 DEF n
    <3>2. \A i \in 1..(p - 1) : 1 + i - 1 = i
      BY <2>1, <2>2
    <3> QED
      BY <3>1, <3>2, PartFacts
  <2>5. /\ SubSeq(list, p + 1, n) \in Seq(Clients) /\ Len(SubSeq(list, p + 1, n)) = n - p
        /\ \A i \in 1..(n - p) : SubSeq(list, p + 1, n)[i] = list[p + i]
    <3>1. p + 1 \in 1..(Len(list) + 1) /\ n \in 0..Len(list) /\ p + 1 <= n + 1 /\ n - (p + 1) + 1 = n - p
      BY <2>1, <2>2 DEF n
    <3>2. \A i \in 1..(n - p) : (p + 1) + i - 1 = p + i
      BY <2>1, <2>2
    <3>3. /\ SubSeq(list, p + 1, n) \in Seq(Clients) /\ Len(SubSeq(list, p + 1, n)) = n - (p + 1) + 1
          /\ \A i \in 1..(n - (p + 1) + 1) : SubSeq(list, p + 1, n)[i] = list[(p + 1) + i - 1]
      BY <3>1, PartFacts
    <3> QED
      BY <3>1, <3>2, <3>3
  <2>6. less \in Seq(Clients) /\ Len(less) = n - 1 /\ DOMAIN less = 1..(n - 1)
    BY <2>1, <2>2, <2>3, <2>4, <2>5
  <2>7. \A i \in 1..(n - 1) : less[i] = IF i < p THEN list[i] ELSE list[i + 1]
    <3>1. ASSUME NEW i \in 1..(n - 1), i < p PROVE less[i] = list[i]
      BY <2>1, <2>2, <2>3, <2>4, <2>5, <3>1
    <3>2. ASSUME NEW i \in 1..(n - 1), i >= p PROVE less[i] = list[i + 1]
      <4>1. less[i] = SubSeq(list, p + 1, n)[i - (p - 1)]
        <5> DEFINE front == SubSeq(list, 1, p - 1)
                   back == SubSeq(list, p + 1, n)
        <5>1. /\ i \in 1..((p - 1) + (n - p)) /\ ~(i <= p - 1)
          BY <2>1, <2>2, <3>2
        <5>2. /\ front \in Seq(Clients) /\ back \in Seq(Clients) /\ less = front \o back
              /\ Len(front) = p - 1 /\ Len(back) = n - p
          BY <2>3, <2>4, <2>5
        <5> HIDE DEF front, back
        <5>3. less[i] = back[i - Len(front)]
          BY <5>1, <5>2
        <5> QED
          BY <5>2, <5>3 DEF back
      <4>2. i - (p - 1) \in 1..(n - p) /\ p + (i - (p - 1)) = i + 1
        BY <2>1, <2>2, <3>2
      <4> QED
        BY <2>5, <4>1, <4>2
    <3> QED
      BY <2>1, <2>2, <3>1, <3>2
  <2>8. \A j, k \in 1..n : list[j] = list[k] => j = k
    BY <2>1 DEF Served!Once
  <2>9. Served!Once(less)
    BY <2>1, <2>2, <2>6, <2>7, <2>8 DEF Served!Once
  <2>10. ASSUME NEW d \in Clients PROVE d \in Served!ToSet(less) <=> d \in Served!ToSet(list) /\ d # c
    <3>1. ASSUME NEW i \in 1..(n - 1) PROVE less[i] \in Served!ToSet(list) /\ less[i] # c
      <4>1. i \in 1..n /\ i + 1 \in 1..n
        BY <2>1, <3>1
      <4>2. \E j \in 1..n : j # p /\ less[i] = list[j]
        <5>1. CASE i < p
          BY <2>2, <2>7, <4>1, <5>1
        <5>2. CASE ~(i < p)
          <6>1. i + 1 # p
            BY <2>1, <2>2, <5>2
          <6> QED
            BY <2>7, <4>1, <5>2, <6>1
        <5> QED
          BY <5>1, <5>2
      <4> QED
        BY <2>1, <2>2, <2>8, <4>2 DEF Served!ToSet
    <3>2. ASSUME NEW i \in 1..n, i # p PROVE list[i] \in Served!ToSet(less)
      <4>1. CASE i < p
        <5>1. i \in 1..(n - 1) /\ less[i] = list[i]
          BY <2>1, <2>2, <2>7, <4>1
        <5> QED
          BY <2>6, <5>1 DEF Served!ToSet
      <4>2. CASE i > p
        <5>1. i - 1 \in 1..(n - 1) /\ ~(i - 1 < p) /\ (i - 1) + 1 = i
          BY <2>1, <2>2, <4>2
        <5>2. less[i - 1] = list[i]
          BY <2>7, <5>1
        <5> QED
          BY <2>6, <5>1, <5>2 DEF Served!ToSet
      <4> QED
        BY <2>1, <2>2, <3>2, <4>1, <4>2
    <3>3. \A i \in DOMAIN less : less[i] \in Served!ToSet(list) /\ less[i] # c
      BY <2>6, <3>1
    <3>4. d \in Served!ToSet(less) => d \in Served!ToSet(list) /\ d # c
      BY <3>3 DEF Served!ToSet
    <3>5. d \in Served!ToSet(list) /\ d # c => d \in Served!ToSet(less)
      <4> SUFFICES ASSUME d \in Served!ToSet(list), d # c PROVE d \in Served!ToSet(less)
        OBVIOUS
      <4>1. PICK i \in 1..n : list[i] = d
        BY <2>1 DEF Served!ToSet
      <4> QED
        BY <2>2, <3>2, <4>1
    <3> QED
      BY <3>4, <3>5
  <2>11. list # <<>>
    BY <2>1, <2>2 DEF n
  <2>12. Served!Without(list, c) = less
    BY <1>2 DEF Served!Without, less, p
  <2> QED
    BY <2>6, <2>9, <2>10, <2>11, <2>12 DEF Shorter
<1> QED
  BY <1>1, <1>2

\* The frames of the calls in progress.
LEMMA FrameTypes ==
  ASSUME Served!TypeOK
  PROVE  /\ stack \in Seq(Served!Frame) /\ DOMAIN stack = 1..Len(stack) /\ Len(stack) \in Nat
         /\ stack # <<>> => Len(stack) \in 1..Len(stack) /\ Len(stack) - 1 \in 0..Len(stack) /\ Served!Top = stack[Len(stack)]
         /\ stack = <<>> <=> Len(stack) = 0
         /\ \A k \in 1..Len(stack) :
              /\ stack[k] \in Served!Frame /\ stack[k].call \in Served!Calls /\ stack[k].at \in Served!Points
              /\ stack[k].c \in Clients \cup {None} /\ stack[k].next \in Clients \cup {None}
              /\ stack[k].id \in Ids \cup {0, Served!DisplayId} /\ stack[k].all \subseteq Clients
<1>1. stack \in Seq(Served!Frame) /\ DOMAIN stack = 1..Len(stack) /\ Len(stack) \in Nat
  BY DEF Served!TypeOK
<1>2. \A k \in 1..Len(stack) : stack[k] \in Served!Frame
  BY <1>1
<1>3. \A f \in Served!Frame :
        /\ f.call \in Served!Calls /\ f.at \in Served!Points
        /\ f.c \in Clients \cup {None} /\ f.next \in Clients \cup {None}
        /\ f.id \in Ids \cup {0, Served!DisplayId} /\ f.all \subseteq Clients
  BY DEF Served!Frame
<1>4. stack = <<>> <=> Len(stack) = 0
  BY <1>1, EmptySeq
<1> QED
  BY <1>1, <1>2, <1>3, <1>4 DEF Served!Top, Served!Last

\* The calls in progress are the first n of those before, and at most one more.
Below(n) ==
  /\ n \in 0..Len(stack) /\ n \in Nat /\ n <= Len(stack) /\ Len(stack') \in Nat
  /\ stack' \in Seq(Served!Frame) /\ DOMAIN stack' = 1..Len(stack')
  /\ \A k \in 1..n : stack'[k] = stack[k]
  /\ Len(stack') = n \/ Len(stack') = n + 1
Above(n, f) == Below(n) /\ Len(stack') = n + 1 /\ stack'[n + 1] = f

\* A call is made.
LEMMA Pushes ==
  ASSUME Served!TypeOK, NEW f \in Served!Frame, Served!Push(f)
  PROVE  Above(Len(stack), f)
<1>1. /\ stack \in Seq(Served!Frame) /\ Len(stack) \in Nat /\ stack' = Append(stack, f)
  BY FrameTypes DEF Served!Push
<1>2. /\ Append(stack, f) \in Seq(Served!Frame) /\ Len(Append(stack, f)) = Len(stack) + 1
      /\ \A k \in 1..Len(stack) : Append(stack, f)[k] = stack[k]
      /\ Append(stack, f)[Len(stack) + 1] = f
  BY <1>1
<1>3. DOMAIN Append(stack, f) = 1..Len(Append(stack, f))
  BY <1>2
<1> QED
  BY <1>1, <1>2, <1>3 DEF Above, Below

\* The innermost call returns.
LEMMA Returns ==
  ASSUME Served!TypeOK, stack # <<>>, Served!Return
  PROVE  Below(Len(stack) - 1) /\ Len(stack') = Len(stack) - 1
<1>1. /\ stack \in Seq(Served!Frame) /\ Len(stack) \in Nat \ {0} /\ Len(stack) - 1 \in 0..Len(stack)
      /\ Len(stack) - 1 \in Nat
      /\ stack' = SubSeq(stack, 1, Len(stack) - 1)
  BY FrameTypes DEF Served!Return, Served!Front
<1>2. /\ SubSeq(stack, 1, Len(stack) - 1) \in Seq(Served!Frame)
      /\ Len(SubSeq(stack, 1, Len(stack) - 1)) = Len(stack) - 1
      /\ \A k \in 1..(Len(stack) - 1) : SubSeq(stack, 1, Len(stack) - 1)[k] = stack[k]
  BY <1>1, FrontFacts
<1>3. DOMAIN stack' = 1..Len(stack')
  BY <1>1, <1>2
<1> QED
  BY <1>1, <1>2, <1>3 DEF Below

\* The innermost call returns and another is made.
LEMMA Replaces ==
  ASSUME Served!TypeOK, stack # <<>>, NEW f \in Served!Frame, stack' = Append(Served!Front(stack), f)
  PROVE  Above(Len(stack) - 1, f)
<1> DEFINE rest == SubSeq(stack, 1, Len(stack) - 1)
<1>1. /\ stack \in Seq(Served!Frame) /\ Len(stack) \in Nat \ {0} /\ Len(stack) - 1 \in 0..Len(stack)
      /\ Len(stack) - 1 \in Nat
      /\ stack' = Append(rest, f)
  BY FrameTypes DEF Served!Front
<1>2. /\ rest \in Seq(Served!Frame) /\ Len(rest) = Len(stack) - 1
      /\ \A k \in 1..(Len(stack) - 1) : rest[k] = stack[k]
  BY <1>1, FrontFacts
<1> HIDE DEF rest
<1>3. /\ Append(rest, f) \in Seq(Served!Frame) /\ Len(Append(rest, f)) = Len(rest) + 1
      /\ \A k \in 1..Len(rest) : Append(rest, f)[k] = rest[k]
      /\ Append(rest, f)[Len(rest) + 1] = f
  BY <1>2
<1>4. DOMAIN Append(rest, f) = 1..Len(Append(rest, f))
  BY <1>3
<1> QED
  BY <1>1, <1>2, <1>3, <1>4 DEF Above, Below

\* The innermost call goes on.
LEMMA Changes ==
  ASSUME Served!TypeOK, stack # <<>>, NEW f \in Served!Frame, stack' = [stack EXCEPT ![Len(stack)] = f]
  PROVE  Above(Len(stack) - 1, f)
<1>1. /\ stack \in Seq(Served!Frame) /\ Len(stack) \in Nat \ {0} /\ Len(stack) - 1 \in 0..Len(stack)
      /\ Len(stack) - 1 + 1 = Len(stack) /\ Len(stack) - 1 \in Nat /\ Len(stack) # 0
  BY FrameTypes
<1>2. /\ stack' \in Seq(Served!Frame) /\ Len(stack') = Len(stack) /\ stack'[Len(stack)] = f
      /\ \A k \in 1..(Len(stack) - 1) : stack'[k] = stack[k]
  <2>1. /\ WithLast(stack, f) \in Seq(Served!Frame) /\ Len(WithLast(stack, f)) = Len(stack)
        /\ WithLast(stack, f)[Len(stack)] = f
        /\ \A k \in 1..(Len(stack) - 1) : WithLast(stack, f)[k] = stack[k]
    BY <1>1, LastChanged
  <2>2. stack' = WithLast(stack, f)
    BY DEF WithLast
  <2> QED
    BY <2>1, <2>2
<1>3. DOMAIN stack' = 1..Len(stack')
  <2>1. \A seq \in Seq(Served!Frame) : DOMAIN seq = 1..Len(seq)
    OBVIOUS
  <2> QED
    BY <1>2, <2>1
<1>4. /\ Len(stack) - 1 <= Len(stack) /\ Len(stack') \in Nat /\ Len(stack') = (Len(stack) - 1) + 1
      /\ stack'[(Len(stack) - 1) + 1] = f
  <2> DEFINE m == Len(stack')
             l == Len(stack)
  <2>1. m = l /\ l \in Nat \ {0} /\ l - 1 + 1 = l /\ stack'[l] = f
    BY <1>1, <1>2
  <2> HIDE DEF m, l
  <2>2. l - 1 <= l /\ m \in Nat /\ m = (l - 1) + 1 /\ stack'[(l - 1) + 1] = f
    BY <2>1
  <2> QED
    BY <2>2 DEF m, l
<1>5. Below(Len(stack) - 1)
  BY <1>1, <1>2, <1>3, <1>4 DEF Below
<1> QED
  BY <1>4, <1>5 DEF Above

\* The first n calls have nothing to do with a client.
Spare(n, c) == \A k \in 1..n : /\ stack[k].call # "flush" => stack[k].c # c
                               /\ stack[k].next # c
                               /\ stack[k].call = "flush" => stack[k].at = "advance"

\* A call does not begin while wl_display_flush_clients looks at a client.
MayBegin(n) == ~(Len(stack') = n + 1 /\ n = Len(stack) /\ n # 0 /\ stack[n].call = "flush" /\ stack[n].at = "loop")

\* The outer calls are not disturbed by what concerns other clients.
LEMMA FramesKept ==
  ASSUME Fit, NEW n \in Nat, Below(n), MayBegin(n),
         \A c \in Clients : state'[c] = state[c] \/ (state'[c] # "none" /\ Spare(n, c)),
         \A k \in 1..n : stack[k].call = "resource" => stack[k].id \in objects'[stack[k].c],
         \A k \in 1..n : stack[k].c \in Clients /\ display_resource'[stack[k].c] => display_resource[stack[k].c],
         n # 0 /\ client_list = <<>> => client_list' = <<>>
  PROVE  \A k \in 1..n : Served!FrameFits(k)'
<1> SUFFICES ASSUME NEW k \in 1..n PROVE Served!FrameFits(k)'
  OBVIOUS
<1> DEFINE f == stack[k]
<1>1. /\ Served!TypeOK /\ k \in DOMAIN stack /\ k \in 1..Len(stack) /\ n \in Nat /\ n <= Len(stack) /\ Len(stack) \in Nat
      /\ stack'[k] = f /\ \A j \in 1..(k - 1) : stack'[j] = stack[j] /\ j \in 1..n
  BY FrameTypes DEF Fit, Below
<1>2. Served!FrameFits(k)
  BY <1>1 DEF Fit, Served!FramesFit
<1>3. /\ f.c \in Clients \cup {None} /\ f.next \in Clients \cup {None} /\ f.all \subseteq Clients
  BY <1>1, FrameTypes
<1> HIDE DEF f
<1>4. f.call \notin {"timer", "destroy_all"} <=> f.c \in Clients
  BY <1>2 DEF Served!FrameFits, f
<1>5. k # 1 => f.call \in {"destroy", "late", "resource"}
  BY <1>2 DEF Served!FrameFits, f
<1>6. f.call # "flush" /\ f.c \in Clients => state'[f.c] = state[f.c]
  BY DEF Spare, f
<1>7. f.call = "data" => state'[f.c] = "linked"
  BY <1>2, <1>4, <1>6 DEF Served!FrameFits, f
<1>8. f.call = "resource" =>
        /\ k # 1 /\ state'[f.c] \in {"linked", "dying"} /\ f.id \in objects'[f.c]
        /\ f.at = "remove" /\ f.id = Served!DisplayId => ~display_resource'[f.c]
        /\ \A j \in 1..(k - 1) : stack'[j].call = "resource" =>
            <<stack'[j].c, stack'[j].id>> # <<f.c, f.id>>
  BY <1>1, <1>2, <1>4, <1>6 DEF Served!FrameFits, f
<1>9. f.call \in {"destroy", "late"} =>
        /\ k <= MaxDepth /\ state'[f.c] = "dying"
        /\ \A j \in 1..(k - 1) : stack'[j].call # "flush" => stack'[j].c # f.c
  BY <1>1, <1>2, <1>4, <1>6 DEF Served!FrameFits, f
<1>10. f.call = "late" => ~display_resource'[f.c]
  BY <1>1, <1>2, <1>4 DEF Served!FrameFits, f
<1>15. f.call = "flush" => f.at \in {"loop", "advance"}
  BY <1>2 DEF Served!FrameFits, f
<1>11. f.call = "flush" => (f.at = "loop" => state'[f.c] = "linked" /\ k = Len(stack'))
  <2> SUFFICES ASSUME f.call = "flush", f.at = "loop" PROVE state'[f.c] = "linked" /\ k = Len(stack')
    OBVIOUS
  <2>1. state[f.c] = "linked" /\ k = Len(stack)
    BY <1>2 DEF Served!FrameFits, f
  <2>2. state'[f.c] = state[f.c]
    BY <1>4 DEF Spare, f
  <2>3. n = Len(stack) /\ n # 0 /\ k = n
    BY <1>1, <2>1
  <2>4. (Len(stack') = n \/ Len(stack') = n + 1) /\ Len(stack') # n + 1
    BY <2>3 DEF Below, MayBegin, f
  <2> QED
    BY <2>1, <2>2, <2>3, <2>4
<1>12. f.call = "flush" => (f.next # None => state'[f.next] = "linked" /\ f.next # f.c)
  <2>1. f.next \in Clients => state'[f.next] = state[f.next]
    BY DEF Spare, f
  <2> QED
    BY <1>2, <1>3, <2>1 DEF Served!FrameFits, f
<1>13. f.call # "flush" => f.next = None
  BY <1>2 DEF Served!FrameFits, f
<1>14. f.call = "destroy_all" => client_list' = <<>> /\ \A c \in f.all : state'[c] # "none"
  BY <1>1, <1>2, <1>3 DEF Served!FrameFits, f
<1> QED
  BY <1>1, <1>4, <1>5, <1>7, <1>8, <1>9, <1>10, <1>11, <1>12, <1>13, <1>14, <1>15 DEF Served!FrameFits, Served!DisplayId

\* The frames fit if the outer ones and the innermost do.
LEMMA FramesTogether ==
  ASSUME NEW n \in Nat, Below(n), \A k \in 1..n : Served!FrameFits(k)', Len(stack') = n + 1 => Served!FrameFits(n + 1)'
  PROVE  Served!FramesFit'
<1>1. \A k \in DOMAIN stack' : k \in 1..n \/ (k = n + 1 /\ Len(stack') = n + 1)
  BY DEF Below
<1> QED
  BY <1>1 DEF Served!FramesFit

\* The calls change, and nothing is linked, unlinked or freed.
Quiet(n) ==
  /\ Below(n) /\ MayBegin(n)
  /\ n <= MaxDepth \/ n < Len(stack) \/ Len(stack') = n
  /\ UNCHANGED <<state, objects, client_list, tmp_client_list>>
  /\ served_error' \in [Clients -> BOOLEAN] /\ display_resource' \in [Clients -> BOOLEAN] /\ hung' \subseteq Clients
  /\ \A c \in Clients : display_resource'[c] => display_resource[c]
  /\ Len(stack') = n + 1 => Served!FrameFits(n + 1)'
  /\ \A k \in (n + 1)..Len(stack) : stack[k].call \in {"destroy", "late"} =>
       Len(stack') = n + 1 /\ stack'[n + 1].call \in {"destroy", "late"} /\ stack'[n + 1].c = stack[k].c
  /\ n = 0 /\ stack # <<>> => tmp_client_list = <<>> \/ (Len(stack') = 1 /\ stack'[1].call = stack[1].call)

\* Such a step keeps the invariant.
LEMMA QuietStep ==
  ASSUME Fit, NEW n \in Nat, Quiet(n), Served!ServerClientsAssumption
  PROVE  Fit'
<1>1. Served!TypeOK /\ Served!FramesFit /\ Served!ListsFit /\ Served!NoPostThroughFreed
  BY DEF Fit
<1>2. (\A k : k \in DOMAIN stack <=> k \in 1..Len(stack)) /\ Len(stack) \in Nat /\ Len(stack) <= MaxDepth + 1 /\ MaxDepth \in Nat
  BY <1>1, FrameTypes DEF Served!ServerClientsAssumption, Served!TypeOK
<1>3. /\ n \in Nat /\ (\A k : k \in DOMAIN stack' <=> k \in 1..Len(stack')) /\ (Len(stack') = n \/ Len(stack') = n + 1)
      /\ n <= Len(stack) /\ Len(stack') \in Nat
  BY DEF Quiet, Below
<1>9. \A k \in 1..n : stack'[k] = stack[k]
  BY DEF Quiet, Below
<1>10. stack' \in Seq(Served!Frame)
  BY DEF Quiet, Below
<1>4. UNCHANGED <<state, objects, client_list, tmp_client_list>>
  BY DEF Quiet
<1>5. Served!TypeOK'
  <2>1. Len(stack') <= MaxDepth + 1
    <3> DEFINE m == Len(stack')
               l == Len(stack)
    <3>1. n <= MaxDepth \/ n < l \/ m = n
      BY DEF Quiet
    <3>2. n \in Nat /\ m \in Nat /\ l \in Nat /\ n <= l /\ l <= MaxDepth + 1 /\ MaxDepth \in Nat /\ (m = n \/ m = n + 1)
      BY <1>2, <1>3
    <3> HIDE DEF m, l
    <3>3. m <= MaxDepth + 1
      BY <3>1, <3>2
    <3> QED
      BY <3>3 DEF m
  <2>2. served_error' \in [Clients -> BOOLEAN] /\ display_resource' \in [Clients -> BOOLEAN] /\ hung' \subseteq Clients
    BY DEF Quiet
  <2> QED
    BY <1>1, <1>4, <1>10, <2>1, <2>2 DEF Served!TypeOK
<1>6. Served!FramesFit'
  <2>1. \A k \in 1..n : stack[k].call = "resource" => stack[k].id \in objects'[stack[k].c]
    <3>1. ASSUME NEW k \in 1..n, stack[k].call = "resource" PROVE stack[k].id \in objects[stack[k].c]
      <4>1. k \in DOMAIN stack
        BY <1>2, <1>3
      <4>2. Served!FrameFits(k)
        BY <1>1, <4>1 DEF Served!FramesFit
      <4> QED
        BY <3>1, <4>2 DEF Served!FrameFits
    <3> QED
      BY <1>4, <3>1
  <2>2. Below(n) /\ MayBegin(n) /\ (Len(stack') = n + 1 => Served!FrameFits(n + 1)')
    BY DEF Quiet
  <2>3. \A c \in Clients : state'[c] = state[c] \/ (state'[c] # "none" /\ Spare(n, c))
    BY <1>4
  <2>4. \A k \in 1..n : stack[k].c \in Clients /\ display_resource'[stack[k].c] => display_resource[stack[k].c]
    BY DEF Quiet
  <2>5. n # 0 /\ client_list = <<>> => client_list' = <<>>
    BY <1>4
  <2>6. \A k \in 1..n : Served!FrameFits(k)'
    BY <2>1, <2>2, <2>3, <2>4, <2>5, FramesKept
  <2> QED
    BY <2>2, <2>6, FramesTogether
<1>7. Served!ListsFit'
  <2>1. ASSUME NEW c \in Clients, state[c] = "dying"
        PROVE  \E k \in DOMAIN stack' : stack'[k].c = c /\ stack'[k].call \in {"destroy", "late"}
    <3>1. PICK k \in 1..Len(stack) : stack[k].c = c /\ stack[k].call \in {"destroy", "late"}
      BY <1>1, <1>2, <2>1 DEF Served!ListsFit
    <3>2. CASE k \in 1..n
      <4>1. k \in DOMAIN stack'
        BY <1>3, <3>2
      <4>2. stack'[k] = stack[k]
        BY <1>9, <3>2
      <4> QED
        BY <3>1, <4>1, <4>2
    <3>3. CASE k \in (n + 1)..Len(stack)
      <4>1. Len(stack') = n + 1 /\ stack'[n + 1].call \in {"destroy", "late"} /\ stack'[n + 1].c = stack[k].c
        BY <3>1, <3>3 DEF Quiet
      <4>2. n + 1 \in DOMAIN stack'
        BY <1>3, <4>1
      <4> QED
        BY <3>1, <4>1, <4>2
    <3>4. k \in 1..n \/ k \in (n + 1)..Len(stack)
      BY <1>2, <1>3
    <3> QED
      BY <3>2, <3>3, <3>4
  <2>2. ASSUME tmp_client_list # <<>> PROVE stack' # <<>> /\ stack'[1].call = "destroy_all"
    <3>1. stack # <<>> /\ stack[1].call = "destroy_all"
      BY <1>1, <2>2 DEF Served!ListsFit, Served!Idle
    <3>2. Len(stack') # 0 /\ stack'[1].call = stack[1].call
      <4>1. CASE n = 0
        BY <2>2, <3>1, <4>1 DEF Quiet
      <4>2. CASE n # 0
        <5>1. 1 \in 1..n /\ Len(stack') # 0
          BY <1>3, <4>2
        <5> QED
          BY <1>9, <5>1
      <4> QED
        BY <4>1, <4>2
    <3>3. stack' # <<>>
      BY <3>2
    <3> QED
      BY <3>1, <3>2, <3>3
  <2> QED
    BY <1>1, <1>4, <2>1, <2>2 DEF Served!ListsFit, Served!Idle
<1>8. Served!NoPostThroughFreed'
  <2>1. \A c \in Clients : display_resource'[c] => display_resource[c]
    BY DEF Quiet
  <2> QED
    BY <1>1, <1>4, <2>1 DEF Served!NoPostThroughFreed
<1> QED
  BY <1>5, <1>6, <1>7, <1>8 DEF Fit

\* A call in progress, by its fields.
Fields(f, call, c, at, id, next, all) ==
  /\ f \in Served!Frame
  /\ f.call = call /\ f.c = c /\ f.at = at /\ f.id = id /\ f.next = next /\ f.all = all

\* The fields of a call that begins.
LEMMA CalledFields ==
  ASSUME NEW call \in Served!Calls, NEW c \in Clients \cup {None}, NEW at \in Served!Points
  PROVE  Fields(Served!Called(call, c, at), call, c, at, 0, None, {})
BY DEF Fields, Served!Called, Served!Frame

\* The fields of a call that destroys a resource.
LEMMA ResourceFields ==
  ASSUME NEW c \in Clients, NEW id \in Ids \cup {Served!DisplayId}
  PROVE  Fields([Served!Called("resource", c, "callback") EXCEPT !.id = id], "resource", c, "callback", id, None, {})
BY DEF Fields, Served!Called, Served!Frame, Served!Calls, Served!Points

\* The fields of a call of wl_display_flush_clients.
LEMMA FlushFields ==
  ASSUME NEW c \in Clients, NEW next \in Clients \cup {None}
  PROVE  Fields([Served!Called("flush", c, "loop") EXCEPT !.next = next], "flush", c, "loop", 0, next, {})
BY DEF Fields, Served!Called, Served!Frame, Served!Calls, Served!Points

\* The fields of a call of wl_display_destroy_clients.
LEMMA AllFields ==
  ASSUME NEW all \in SUBSET Clients
  PROVE  Fields([Served!Called("destroy_all", None, "loop") EXCEPT !.all = all], "destroy_all", None, "loop", 0, None, all)
BY DEF Fields, Served!Called, Served!Frame, Served!Calls, Served!Points

\* The fields of a call that goes on.
LEMMA MovedFields ==
  ASSUME NEW f \in Served!Frame, NEW at \in Served!Points
  PROVE  Fields([f EXCEPT !.at = at], f.call, f.c, at, f.id, f.next, f.all)
BY DEF Fields, Served!Frame

\* The fields of wl_display_flush_clients at the next client.
LEMMA NextFields ==
  ASSUME NEW f \in Served!Frame, NEW c \in Clients, NEW next \in Clients \cup {None}
  PROVE  Fields([f EXCEPT !.c = c, !.at = "loop", !.next = next], f.call, c, "loop", f.id, next, f.all)
BY DEF Fields, Served!Frame, Served!Points

\* What the innermost call in progress says of itself.
Inner(l, f) ==
  /\ l = Len(stack) /\ l \in Nat /\ l # 0 /\ f = stack[l] /\ f = Served!Top /\ f \in Served!Frame
  /\ f.call \in Served!Calls /\ f.at \in Served!Points /\ f.id \in Ids \cup {0, Served!DisplayId}
  /\ f.c \in Clients \cup {None} /\ f.next \in Clients \cup {None} /\ f.all \subseteq Clients
  /\ l - 1 \in Nat /\ l - 1 < l /\ (l - 1) + 1 = l

\* The innermost call is a frame that fits.
LEMMA InnerFacts ==
  ASSUME Fit, stack # <<>>
  PROVE  \E l \in Nat, f \in Served!Frame : Inner(l, f) /\ Served!FrameFits(l)
<1>1. Served!TypeOK /\ Served!FramesFit
  BY DEF Fit
<1>2. /\ stack \in Seq(Served!Frame) /\ DOMAIN stack = 1..Len(stack) /\ Len(stack) \in Nat
      /\ Len(stack) \in 1..Len(stack) /\ Served!Top = stack[Len(stack)]
      /\ stack = <<>> <=> Len(stack) = 0
      /\ \A k \in 1..Len(stack) :
              /\ stack[k] \in Served!Frame /\ stack[k].call \in Served!Calls /\ stack[k].at \in Served!Points
              /\ stack[k].c \in Clients \cup {None} /\ stack[k].next \in Clients \cup {None}
              /\ stack[k].id \in Ids \cup {0, Served!DisplayId} /\ stack[k].all \subseteq Clients
  BY <1>1, FrameTypes
<1>3. Inner(Len(stack), stack[Len(stack)])
  BY <1>2 DEF Inner
<1>4. Served!FrameFits(Len(stack))
  BY <1>1, <1>2 DEF Served!FramesFit
<1> QED
  BY <1>2, <1>3, <1>4

\* Nothing changes but the calls, and what the clients are told.
Tells ==
  /\ UNCHANGED <<state, objects, client_list, tmp_client_list>>
  /\ served_error' \in [Clients -> BOOLEAN] /\ display_resource' \in [Clients -> BOOLEAN] /\ hung' \subseteq Clients
  /\ \A c \in Clients : display_resource'[c] => display_resource[c]

\* The innermost call goes on.
LEMMA GoesOn ==
  ASSUME Fit, Served!ServerClientsAssumption, stack # <<>>, Tells,
         NEW at \in Served!Points, Served!Goto(at),
         Served!Top.call = "flush" => at = "advance",
         Served!Top.call = "resource" /\ at = "remove" /\ Served!Top.id = Served!DisplayId =>
            ~display_resource'[Served!Top.c]
  PROVE  Fit'
<1>1. PICK l \in Nat, f \in Served!Frame : Inner(l, f) /\ Served!FrameFits(l)
  BY InnerFacts
<1> DEFINE n == l - 1
           g == [f EXCEPT !.at = at]
<1>2. Served!TypeOK
  BY DEF Fit
<1>3. Fields(g, f.call, f.c, at, f.id, f.next, f.all)
  BY <1>1, MovedFields DEF Inner
<1>4. stack' = [stack EXCEPT ![Len(stack)] = g]
  BY <1>1 DEF Served!Goto, Inner
<1>5. Above(Len(stack) - 1, g)
  BY <1>2, <1>3, <1>4, Changes DEF Fields
<1> HIDE DEF g
<1>6. /\ n \in Nat /\ Below(n) /\ Len(stack') = n + 1 /\ stack'[n + 1] = g /\ n + 1 = l /\ n < l
  BY <1>1, <1>5 DEF Above, Inner
<1>7. \A k \in 1..n : stack'[k] = stack[k]
  BY <1>6 DEF Below
<1>8. stack'[l] = g /\ l = Len(stack') /\ l \in Nat
  BY <1>1, <1>6 DEF Inner
<1>9. /\ g.call = f.call /\ g.c = f.c /\ g.at = at /\ g.id = f.id /\ g.next = f.next /\ g.all = f.all
      /\ f = Served!Top
  BY <1>1, <1>3 DEF Fields, Inner
<1>10. /\ UNCHANGED <<state, objects, client_list, tmp_client_list>>
       /\ \A c \in Clients : display_resource'[c] => display_resource[c]
  BY DEF Tells
<1>11. \A k \in 1..(l - 1) : stack'[k] = stack[k]
  BY <1>7
<1> HIDE DEF n
<1>12. f = stack[l]
  BY <1>1 DEF Inner
<1>13. Served!FrameFits(l)'
  <2>1. g.call \notin {"timer", "destroy_all"} <=> g.c \in Clients
    BY <1>1, <1>9, <1>12 DEF Served!FrameFits
  <2>2. l # 1 => g.call \in {"destroy", "late", "resource"}
    BY <1>1, <1>9, <1>12 DEF Served!FrameFits
  <2>3. g.call = "data" => state'[g.c] = "linked"
    BY <1>1, <1>9, <1>10, <1>12 DEF Served!FrameFits
  <2>4. g.call = "resource" =>
        /\ l # 1 /\ state'[g.c] \in {"linked", "dying"} /\ g.id \in objects'[g.c]
        /\ g.at = "remove" /\ g.id = Served!DisplayId => ~display_resource'[g.c]
        /\ \A j \in 1..(l - 1) : stack'[j].call = "resource" =>
            <<stack'[j].c, stack'[j].id>> # <<g.c, g.id>>
    BY <1>1, <1>9, <1>10, <1>11, <1>12 DEF Served!FrameFits
  <2>5. g.call \in {"destroy", "late"} =>
        /\ l <= MaxDepth /\ state'[g.c] = "dying"
        /\ \A j \in 1..(l - 1) : stack'[j].call # "flush" => stack'[j].c # g.c
    BY <1>1, <1>9, <1>10, <1>11, <1>12 DEF Served!FrameFits
  <2>6. g.call = "late" => ~display_resource'[g.c]
    BY <1>1, <1>9, <1>10, <1>12, <2>1 DEF Served!FrameFits
  <2>7. g.call = "flush" =>
        /\ g.at \in {"loop", "advance"}
        /\ g.at = "loop" => state'[g.c] = "linked" /\ l = Len(stack')
        /\ g.next # None => state'[g.next] = "linked" /\ g.next # g.c
    BY <1>1, <1>9, <1>10, <1>12 DEF Served!FrameFits
  <2>8. g.call # "flush" => g.next = None
    BY <1>1, <1>9, <1>12 DEF Served!FrameFits
  <2>9. g.call = "destroy_all" => client_list' = <<>> /\ \A c \in g.all : state'[c] # "none"
    BY <1>1, <1>9, <1>10, <1>12 DEF Served!FrameFits
  <2> QED
    BY <1>8, <2>1, <2>2, <2>3, <2>4, <2>5, <2>6, <2>7, <2>8, <2>9 DEF Served!FrameFits, Served!DisplayId
<1>14. MayBegin(n)
  BY <1>1, <1>6 DEF MayBegin, Inner
<1>15. \A k \in (n + 1)..Len(stack) : stack[k].call \in {"destroy", "late"} =>
       Len(stack') = n + 1 /\ stack'[n + 1].call \in {"destroy", "late"} /\ stack'[n + 1].c = stack[k].c
  <2>1. \A k \in (n + 1)..Len(stack) : k = l
    BY <1>1, <1>6 DEF Inner
  <2> QED
    BY <1>6, <1>9, <1>12, <2>1
<1>16. n = 0 => Len(stack') = 1 /\ stack'[1].call = stack[1].call
  <2> SUFFICES ASSUME n = 0 PROVE Len(stack') = 1 /\ stack'[1].call = stack[1].call
    OBVIOUS
  <2>1. l = 1
    BY <1>6
  <2> QED
    BY <1>8, <1>9, <1>12, <2>1
<1>17. Served!FrameFits(n + 1)'
  BY <1>6, <1>13
<1>18. n < Len(stack)
  BY <1>1, <1>6 DEF Inner
<1>19. Quiet(n)
  BY <1>6, <1>14, <1>15, <1>16, <1>17, <1>18 DEF Quiet, Tells
<1> QED
  BY <1>6, <1>19, QuietStep

\* The innermost call returns, and it is not one that destroys a client.
LEMMA GoesBack ==
  ASSUME Fit, Served!ServerClientsAssumption, stack # <<>>, Tells, Served!Return,
         Served!Top.call \notin {"destroy", "late"},
         Served!Top.call = "destroy_all" => tmp_client_list = <<>>
  PROVE  Fit'
<1>1. PICK l \in Nat, f \in Served!Frame : Inner(l, f) /\ Served!FrameFits(l)
  BY InnerFacts
<1> DEFINE n == l - 1
<1>2. Served!TypeOK /\ Served!ListsFit
  BY DEF Fit
<1>3. Below(Len(stack) - 1) /\ Len(stack') = Len(stack) - 1
  BY <1>2, Returns
<1>4. n \in Nat /\ Below(n) /\ Len(stack') = n /\ n + 1 = l /\ n < l
  BY <1>1, <1>3 DEF Inner
<1>5. f = stack[l] /\ f = Served!Top /\ l = Len(stack)
  BY <1>1 DEF Inner
<1> HIDE DEF n
<1>6. MayBegin(n)
  BY <1>4 DEF MayBegin
<1>7. \A k \in (n + 1)..Len(stack) : stack[k].call \notin {"destroy", "late"}
  <2>1. \A k \in (n + 1)..Len(stack) : k = l
    BY <1>4, <1>5
  <2> QED
    BY <1>5, <2>1
<1>8. n = 0 => tmp_client_list = <<>>
  <2>1. n = 0 => l = 1
    BY <1>4
  <2> QED
    BY <1>2, <1>5, <2>1 DEF Served!ListsFit
<1>9. Len(stack') # n + 1
  BY <1>4
<1>10. Quiet(n)
  BY <1>4, <1>6, <1>7, <1>8, <1>9 DEF Quiet, Tells
<1> QED
  BY <1>4, <1>10, QuietStep

\* A call is made.
LEMMA GoesIn ==
  ASSUME Fit, Served!ServerClientsAssumption, Tells, NEW l \in Nat, l = Len(stack), l <= MaxDepth,
         NEW f \in Served!Frame, Served!Push(f),
         l = 0 \/ stack[l].call # "flush" \/ stack[l].at # "loop",
         Above(l, f) => Served!FrameFits(l + 1)'
  PROVE  Fit'
<1>1. Served!TypeOK
  BY DEF Fit
<1>2. Above(l, f)
  BY <1>1, Pushes
<1>3. Below(l) /\ Len(stack') = l + 1 /\ stack'[l + 1] = f
  BY <1>2 DEF Above
<1>4. MayBegin(l)
  BY DEF MayBegin
<1>5. \A k \in (l + 1)..Len(stack) : FALSE
  BY <1>1
<1>6. l = 0 => stack = <<>>
  BY <1>1, FrameTypes
<1>7. Served!FrameFits(l + 1)'
  BY <1>2
<1>8. Quiet(l)
  BY <1>3, <1>4, <1>5, <1>6, <1>7 DEF Quiet, Tells
<1> QED
  BY <1>8, QuietStep

\* The calls do not change.
LEMMA GoesNowhere ==
  ASSUME Fit, Served!ServerClientsAssumption, Tells, UNCHANGED stack
  PROVE  Fit'
<1>1. Served!TypeOK /\ Served!FramesFit
  BY DEF Fit
<1>2. PICK l \in Nat : l = Len(stack)
  BY <1>1, FrameTypes
<1>3. /\ stack \in Seq(Served!Frame) /\ DOMAIN stack = 1..Len(stack) /\ (stack = <<>> <=> Len(stack) = 0)
  BY <1>1, FrameTypes
<1>4. Below(l)
  BY <1>2, <1>3 DEF Below
<1>5. Len(stack') = l /\ Len(stack') # l + 1
  BY <1>2
<1>6. MayBegin(l)
  BY <1>5 DEF MayBegin
<1>7. \A k \in (l + 1)..Len(stack) : FALSE
  BY <1>2
<1>8. l = 0 => stack = <<>>
  BY <1>2, <1>3
<1>9. Quiet(l)
  BY <1>4, <1>5, <1>6, <1>7, <1>8 DEF Quiet, Tells
<1> QED
  BY <1>9, QuietStep

\* Steps that change the calls only.
LEMMA TellsNothing ==
  ASSUME Fit, UNCHANGED <<state, served_error, display_resource, objects, client_list, tmp_client_list, hung>>
  PROVE  Tells
BY DEF Fit, Served!TypeOK, Tells

\* Steps that note an error of a client (wl_client_post_no_memory and the like).
LEMMA TellsError ==
  ASSUME Fit, NEW c, Served!PostError(c),
         UNCHANGED <<state, display_resource, objects, client_list, tmp_client_list, hung>>
  PROVE  Tells
<1>1. Served!TypeOK
  BY DEF Fit
<1>2. served_error' \in [Clients -> BOOLEAN]
  <2>1. (served_error[c] \/ Served!MayReport(c)) \in BOOLEAN
    OBVIOUS
  <2>2. served_error' = [served_error EXCEPT ![c] = served_error[c] \/ Served!MayReport(c)]
    BY DEF Served!PostError
  <2> QED
    BY <1>1, <2>1, <2>2 DEF Served!TypeOK
<1> QED
  BY <1>1, <1>2 DEF Served!TypeOK, Tells

\* A call that is somewhere is the innermost.
LEMMA RunningFacts ==
  ASSUME NEW call, NEW at, Served!Running(call, at)
  PROVE  stack # <<>> /\ Served!Top.call = call /\ Served!Top.at = at
BY DEF Served!Running, Served!Idle

\* Calls that go on.
LEMMA CallsGoOn ==
  ASSUME Fit, Served!ServerClientsAssumption,
         \/ Served!Request \/ Served!InvalidRequest \/ Served!NoMoreRequests \/ Served!HandlerReturns
         \/ Served!DestroySignalled \/ Served!ResourceSignalled \/ Served!Flushed
  PROVE  Fit'
<1> USE DEF Served!lists
<1>0. /\ "dispatch" \in Served!Points /\ "callback" \in Served!Points /\ "check" \in Served!Points
      /\ "resources" \in Served!Points /\ "remove" \in Served!Points /\ "advance" \in Served!Points
  BY DEF Served!Points
<1>1. CASE Served!Request
  <2>1. stack # <<>> /\ Served!Top.call = "data" /\ Tells /\ Served!Goto("callback")
    BY <1>1, RunningFacts, TellsNothing DEF Served!Request
  <2> QED
    BY <1>0, <2>1, GoesOn
<1>2. CASE Served!InvalidRequest
  <2>1. stack # <<>> /\ Served!Top.call = "data" /\ Served!Goto("check")
    BY <1>2, RunningFacts DEF Served!InvalidRequest
  <2>2. Tells
    BY <1>2, TellsError DEF Served!InvalidRequest
  <2> QED
    BY <1>0, <2>1, <2>2, GoesOn
<1>3. CASE Served!NoMoreRequests
  <2>1. stack # <<>> /\ Served!Top.call = "data" /\ Tells /\ Served!Goto("check")
    BY <1>3, RunningFacts, TellsNothing DEF Served!NoMoreRequests
  <2> QED
    BY <1>0, <2>1, GoesOn
<1>4. CASE Served!HandlerReturns
  <2> DEFINE at == IF served_error[Served!Top.c] THEN "check" ELSE "dispatch"
  <2>1. stack # <<>> /\ Served!Top.call = "data" /\ Tells /\ Served!Goto(at)
    BY <1>4, RunningFacts, TellsNothing DEF Served!HandlerReturns
  <2>2. at \in Served!Points
    BY <1>0
  <2> QED
    BY <2>1, <2>2, GoesOn
<1>5. CASE Served!DestroySignalled
  <2>1. stack # <<>> /\ Served!Top.call = "destroy" /\ Tells /\ Served!Goto("resources")
    BY <1>5, RunningFacts, TellsNothing DEF Served!DestroySignalled
  <2> QED
    BY <1>0, <2>1, GoesOn
<1>6. CASE Served!ResourceSignalled
  <2>1. stack # <<>> /\ Served!Top.call = "resource" /\ Served!Goto("remove")
    BY <1>6, RunningFacts DEF Served!ResourceSignalled
  <2>2. Served!TypeOK
    BY DEF Fit
  <2>3. PICK l \in Nat, f \in Served!Frame : Inner(l, f) /\ Served!FrameFits(l)
    BY <2>1, InnerFacts
  <2>4. Served!Top.c \in Clients
    BY <2>1, <2>3 DEF Served!FrameFits, Inner
  <2> DEFINE set == Served!StillSet(Served!Top.c, Served!Top.id)
  <2>5. display_resource' = [display_resource EXCEPT ![Served!Top.c] = set]
    BY <1>6 DEF Served!ResourceSignalled
  <2>6. set \in BOOLEAN /\ (set => display_resource[Served!Top.c]) /\ (Served!Top.id = Served!DisplayId => ~set)
    BY DEF Served!StillSet
  <2> HIDE DEF set
  <2>7. display_resource' \in [Clients -> BOOLEAN]
    BY <2>2, <2>4, <2>5, <2>6 DEF Served!TypeOK
  <2>8. \A c \in Clients : display_resource'[c] => display_resource[c]
    BY <2>2, <2>4, <2>5, <2>6 DEF Served!TypeOK
  <2>9. Served!Top.id = Served!DisplayId => ~display_resource'[Served!Top.c]
    BY <2>2, <2>4, <2>5, <2>6 DEF Served!TypeOK
  <2>10. Tells
    BY <1>6, <2>2, <2>7, <2>8 DEF Tells, Served!ResourceSignalled, Served!TypeOK
  <2> QED
    BY <1>0, <2>1, <2>9, <2>10, GoesOn
<1>7. CASE Served!Flushed
  <2>1. stack # <<>> /\ Served!Top.call = "flush" /\ Tells /\ Served!Goto("advance")
    BY <1>7, RunningFacts, TellsNothing DEF Served!Flushed
  <2> QED
    BY <1>0, <2>1, GoesOn
<1> QED
  BY <1>1, <1>2, <1>3, <1>4, <1>5, <1>6, <1>7

\* Calls that return, and steps that are not calls.
LEMMA CallsGoBack ==
  ASSUME Fit, Served!ServerClientsAssumption,
         \/ Served!TimerReturns \/ Served!AllDestroyed
         \/ \E c \in Clients : Served!HangUp(c) \/ Served!CallPostError(c)
  PROVE  Fit'
<1> USE DEF Served!lists
<1>1. CASE Served!TimerReturns
  <2>1. stack # <<>> /\ Served!Top.call = "timer" /\ Tells /\ Served!Return
    BY <1>1, RunningFacts, TellsNothing DEF Served!TimerReturns
  <2> QED
    BY <2>1, GoesBack
<1>2. CASE Served!AllDestroyed
  <2>1. stack # <<>> /\ Served!Top.call = "destroy_all" /\ Tells /\ Served!Return /\ tmp_client_list = <<>>
    BY <1>2, RunningFacts, TellsNothing DEF Served!AllDestroyed, Served!NoneLeft
  <2> QED
    BY <2>1, GoesBack
<1>3. ASSUME NEW c \in Clients, Served!HangUp(c) PROVE Fit'
  <2>1. Tells /\ UNCHANGED stack
    BY <1>3 DEF Served!HangUp, Tells, Fit, Served!TypeOK
  <2> QED
    BY <2>1, GoesNowhere
<1>4. ASSUME NEW c \in Clients, Served!CallPostError(c) PROVE Fit'
  <2>1. Tells /\ UNCHANGED stack
    BY <1>4, TellsError DEF Served!CallPostError
  <2> QED
    BY <2>1, GoesNowhere
<1> QED
  BY <1>1, <1>2, <1>3, <1>4

\* The client that wl_display_flush_clients saves as the next one.
LEMMA SuccessorFacts ==
  ASSUME Served!TypeOK, Served!ListsFit, NEW c \in Served!ToSet(client_list)
  PROVE  /\ Served!Successor(c) \in Clients \cup {None}
         /\ Served!Successor(c) # None => state[Served!Successor(c)] = "linked" /\ Served!Successor(c) # c
<1>1. client_list \in Seq(Clients) /\ Served!Once(client_list)
  BY DEF Served!TypeOK, Served!ListsFit
<1>2. PICK n \in Nat : n = Len(client_list)
  BY <1>1
<1>3. (\A k : k \in DOMAIN client_list <=> k \in 1..n) /\ (\A k \in 1..n : client_list[k] \in Clients)
  BY <1>1, <1>2
<1>4. PICK p : p = Served!Place(client_list, c)
  OBVIOUS
<1>5. p \in 1..n /\ client_list[p] = c
  BY <1>3, <1>4 DEF Served!Place, Served!ToSet
<1>6. CASE p < n
  <2>1. p + 1 \in 1..n /\ p + 1 # p
    BY <1>5, <1>6
  <2>2. client_list[p + 1] \in Clients /\ client_list[p + 1] # c /\ client_list[p + 1] \in Served!ToSet(client_list)
    BY <1>1, <1>3, <1>5, <2>1 DEF Served!Once, Served!ToSet
  <2>3. Served!Successor(c) = client_list[p + 1]
    BY <1>2, <1>4, <1>6 DEF Served!Successor
  <2> QED
    BY <2>2, <2>3 DEF Served!ListsFit
<1>7. CASE ~(p < n)
  BY <1>2, <1>4, <1>7 DEF Served!Successor
<1> QED
  BY <1>6, <1>7

\* A set of numbers has a lowest one.
LEMMA HasLowest ==
  ASSUME NEW S \in SUBSET Nat, S # {}
  PROVE  \E i \in S : \A j \in S : i <= j
<1>1. PICK i \in S : \A j \in S : <<j, i>> \notin OpToRel(<, Nat)
  BY WFMin, NatLessThanWellFounded, Zenon
<1>2. \A j \in S : ~(j < i)
  BY <1>1, Zenon DEF OpToRel
<1> QED
  BY <1>2

\* The frame of a new call, seen from the calls it joins.
LEMMA Joined ==
  ASSUME NEW l \in Nat, NEW f, Above(l, f)
  PROVE  stack'[l + 1] = f /\ Len(stack') = l + 1 /\ (\A j \in 1..((l + 1) - 1) : stack'[j] = stack[j])
<1>1. (l + 1) - 1 = l
  OBVIOUS
<1>2. \A j \in 1..l : stack'[j] = stack[j]
  BY DEF Above, Below
<1>3. stack'[l + 1] = f /\ Len(stack') = l + 1
  BY DEF Above
<1> QED
  BY <1>1, <1>2, <1>3

\* A resource is destroyed by a callback of its client's destruction or of another call.
LEMMA ResourceCalled ==
  ASSUME Fit, Served!ServerClientsAssumption, stack # <<>>, Len(stack) <= MaxDepth,
         UNCHANGED <<state, served_error, display_resource, objects, client_list, tmp_client_list, hung>>,
         ~(Served!Top.call = "flush" /\ Served!Top.at = "loop"),
         NEW c \in Clients, NEW id \in objects[c], Served!DestroyResource(c, id),
         state[c] \in {"linked", "dying"},
         \A k \in DOMAIN stack : stack[k].call = "resource" => <<stack[k].c, stack[k].id>> # <<c, id>>
  PROVE  Fit'
<1>1. PICK l \in Nat, f \in Served!Frame : Inner(l, f) /\ Served!FrameFits(l)
  BY InnerFacts
<1>2. Served!TypeOK
  BY DEF Fit
<1>3. PICK g : g = [Served!Called("resource", c, "callback") EXCEPT !.id = id]
  OBVIOUS
<1>4. id \in Ids \cup {Served!DisplayId}
  BY <1>2 DEF Served!TypeOK
<1>5. Fields(g, "resource", c, "callback", id, None, {})
  BY <1>3, <1>4, ResourceFields
<1>6. g \in Served!Frame /\ Served!Push(g)
  BY <1>3, <1>5 DEF Served!DestroyResource, Fields
<1>7. l = Len(stack) /\ l # 0 /\ l <= MaxDepth /\ stack[l] = Served!Top
  BY <1>1 DEF Inner
<1>8. ASSUME Above(l, g) PROVE Served!FrameFits(l + 1)'
  <2>1. /\ stack'[l + 1] = g /\ Len(stack') = l + 1 /\ (\A j \in 1..((l + 1) - 1) : stack'[j] = stack[j])
    BY <1>8, Joined
  <2>2. \A j \in 1..((l + 1) - 1) : j \in DOMAIN stack
    BY <1>2, <1>7, FrameTypes
  <2>3. \A j \in 1..((l + 1) - 1) : stack'[j].call = "resource" => <<stack'[j].c, stack'[j].id>> # <<c, id>>
    BY <2>1, <2>2
  <2>4. l + 1 # 1
    BY <1>7
  <2>5. /\ g.call = "resource" /\ g.c = c /\ g.at = "callback" /\ g.id = id /\ g.next = None /\ g.all = {}
    BY <1>5 DEF Fields
  <2> QED
    BY <2>1, <2>3, <2>4, <2>5 DEF Served!FrameFits
<1>9. Tells
  BY TellsNothing
<1>10. l = 0 \/ stack[l].call # "flush" \/ stack[l].at # "loop"
  BY <1>7
<1> QED
  BY <1>6, <1>7, <1>8, <1>9, <1>10, GoesIn

\* Steps that make a call.
LEMMA CallsGoIn ==
  ASSUME Fit, Served!ServerClientsAssumption,
         \/ Served!Timer \/ Served!FlushClients \/ Served!NextResource
         \/ \E c \in Clients : Served!ConnectionData(c)
         \/ \E c \in Clients, id \in Ids : Served!CallDestroyResource(c, id)
  PROVE  Fit'
<1> USE DEF Served!lists
<1>1. Served!TypeOK /\ Served!FramesFit /\ Served!ListsFit
  BY DEF Fit
<1>2. None \notin Clients /\ 0 \in Nat /\ 0 <= MaxDepth
  BY DEF Served!ServerClientsAssumption
<1>3. stack = <<>> <=> Len(stack) = 0
  BY <1>1, FrameTypes
<1>4. CASE Served!Timer
  <2>1. PICK g : g = Served!Called("timer", None, "callback")
    OBVIOUS
  <2>2. Fields(g, "timer", None, "callback", 0, None, {})
    BY <2>1, CalledFields DEF Served!Calls, Served!Points
  <2>3. g \in Served!Frame /\ Served!Push(g) /\ 0 = Len(stack) /\ Tells
    BY <1>3, <1>4, <2>1, <2>2, TellsNothing DEF Fields, Served!Timer, Served!Idle
  <2>4. ASSUME Above(0, g) PROVE Served!FrameFits(0 + 1)'
    <3>1. /\ stack'[0 + 1] = g /\ Len(stack') = 0 + 1
      BY <2>4, Joined
    <3>2. /\ g.call = "timer" /\ g.c = None /\ g.next = None
      BY <2>2 DEF Fields
    <3> QED
      BY <1>2, <3>1, <3>2 DEF Served!FrameFits
  <2> QED
    BY <1>2, <2>3, <2>4, GoesIn
<1>5. CASE Served!FlushClients
  <2>1. client_list # <<>> /\ client_list \in Seq(Clients) /\ stack = <<>>
    BY <1>1, <1>5 DEF Served!FlushClients, Served!TypeOK, Served!Idle
  <2>2. PICK c : c = Head(client_list)
    OBVIOUS
  <2>3. c \in Clients /\ state[c] = "linked" /\ c \in Served!ToSet(client_list) /\ tmp_client_list = <<>>
    <3>1. c \in Clients /\ c \in Served!ToSet(client_list)
      BY <2>1, <2>2 DEF Served!ToSet
    <3> QED
      BY <1>1, <2>1, <3>1 DEF Served!ListsFit, Served!Idle
  <2>4. PICK next : next = Served!Successor(c)
    OBVIOUS
  <2>5. next \in Clients \cup {None} /\ (next # None => state[next] = "linked" /\ next # c)
    BY <1>1, <2>3, <2>4, SuccessorFacts
  <2>6. PICK g : g = [Served!Called("flush", c, "loop") EXCEPT !.next = next]
    OBVIOUS
  <2>7. Fields(g, "flush", c, "loop", 0, next, {})
    BY <2>3, <2>5, <2>6, FlushFields
  <2>8. g \in Served!Frame /\ Served!Push(g) /\ 0 = Len(stack) /\ Tells
    BY <1>3, <1>5, <2>1, <2>2, <2>4, <2>6, <2>7, TellsNothing DEF Fields, Served!FlushClients
  <2>9. ASSUME Above(0, g) PROVE Served!FrameFits(0 + 1)'
    <3>1. /\ stack'[0 + 1] = g /\ Len(stack') = 0 + 1
      BY <2>9, Joined
    <3>2. /\ g.call = "flush" /\ g.c = c /\ g.next = next /\ g.at = "loop"
      BY <2>7 DEF Fields
    <3>3. state' = state
      BY <1>5 DEF Served!FlushClients
    <3> QED
      BY <2>3, <2>5, <3>1, <3>2, <3>3 DEF Served!FrameFits
  <2> QED
    BY <1>2, <2>8, <2>9, GoesIn
<1>6. CASE Served!NextResource
  <2>1. stack # <<>> /\ Served!Top.call = "destroy"
    BY <1>6, RunningFacts DEF Served!NextResource
  <2>2. PICK l \in Nat, f \in Served!Frame : Inner(l, f) /\ Served!FrameFits(l)
    BY <2>1, InnerFacts
  <2>3. PICK c \in Clients : c = Served!Top.c
    BY <2>1, <2>2 DEF Served!FrameFits, Inner
  <2>4. state[c] = "dying" /\ Len(stack) <= MaxDepth
    BY <2>1, <2>2, <2>3 DEF Served!FrameFits, Inner
  <2>5. PICK id : id = Served!Lowest(objects[c])
    OBVIOUS
  <2>6. id \in objects[c]
    <3>1. objects[c] # {} /\ objects[c] \subseteq Nat
      <4>1. objects[c] # {}
        BY <1>6, <2>3 DEF Served!NextResource
      <4>2. Ids \cup {Served!DisplayId} \subseteq Nat
        BY DEF Served!ServerClientsAssumption, Served!DisplayId
      <4>3. objects[c] \subseteq Ids \cup {Served!DisplayId}
        BY <1>1 DEF Served!TypeOK
      <4> QED
        BY <4>1, <4>2, <4>3
    <3>2. \E i \in objects[c] : \A j \in objects[c] : i <= j
      BY <3>1, HasLowest
    <3> QED
      BY <2>5, <3>2 DEF Served!Lowest
  <2>7. Served!DestroyResource(c, id)
    BY <1>6, <2>3, <2>5 DEF Served!NextResource
  <2>8. ASSUME NEW k \in DOMAIN stack, stack[k].call = "resource" PROVE <<stack[k].c, stack[k].id>> # <<c, id>>
    <3>1. l = Len(stack) /\ k \in 1..l /\ stack[l] = Served!Top
      BY <1>1, <2>2, FrameTypes DEF Inner
    <3>2. k # l
      BY <2>1, <2>8, <3>1
    <3>3. k \in 1..(l - 1)
      BY <3>1, <3>2
    <3> QED
      BY <2>1, <2>2, <2>3, <2>8, <3>1, <3>3 DEF Served!FrameFits
  <2>9. UNCHANGED <<state, served_error, display_resource, objects, client_list, tmp_client_list, hung>>
    BY <1>6 DEF Served!NextResource
  <2> QED
    BY <2>1, <2>4, <2>6, <2>7, <2>8, <2>9, ResourceCalled
<1>7. ASSUME NEW c \in Clients, Served!ConnectionData(c) PROVE Fit'
  <2>1. PICK g : g = Served!Called("data", c, "dispatch")
    OBVIOUS
  <2>2. Fields(g, "data", c, "dispatch", 0, None, {})
    BY <2>1, CalledFields DEF Served!Calls, Served!Points
  <2>3. g \in Served!Frame /\ Served!Push(g) /\ 0 = Len(stack) /\ Tells
    BY <1>3, <1>7, <2>1, <2>2, TellsNothing DEF Fields, Served!ConnectionData, Served!Idle
  <2>4. ASSUME Above(0, g) PROVE Served!FrameFits(0 + 1)'
    <3>1. /\ stack'[0 + 1] = g /\ Len(stack') = 0 + 1
      BY <2>4, Joined
    <3>2. /\ g.call = "data" /\ g.c = c /\ g.next = None
      BY <2>2 DEF Fields
    <3>3. state'[c] = "linked"
      BY <1>7 DEF Served!ConnectionData
    <3> QED
      BY <1>2, <3>1, <3>2, <3>3 DEF Served!FrameFits
  <2> QED
    BY <1>2, <2>3, <2>4, GoesIn
<1>8. ASSUME NEW c \in Clients, NEW id \in Ids, Served!CallDestroyResource(c, id) PROVE Fit'
  <2>1. stack # <<>> /\ Served!Top.at = "callback" /\ Len(stack) <= MaxDepth
    BY <1>1, <1>2, <1>8, FrameTypes DEF Served!CallDestroyResource, Served!MayNest, Served!InCallback, Served!Idle,
       Served!ServerClientsAssumption
  <2>2. id \in objects[c] /\ state[c] \in {"linked", "dying"} /\ Served!DestroyResource(c, id)
        /\ UNCHANGED <<state, served_error, display_resource, objects, client_list, tmp_client_list, hung>>
        /\ \A k \in DOMAIN stack : <<stack[k].c, stack[k].id>> # <<c, id>>
    BY <1>8 DEF Served!CallDestroyResource
  <2>3. ~(Served!Top.call = "flush" /\ Served!Top.at = "loop")
    BY <2>1
  <2> QED
    BY <2>1, <2>2, <2>3, ResourceCalled
<1> QED
  BY <1>4, <1>5, <1>6, <1>7, <1>8

\* A call is replaced by one that is made at once.
LEMMA Relays ==
  ASSUME Fit, Served!ServerClientsAssumption, stack # <<>>, Tells,
         NEW f \in Served!Frame,
         \/ stack' = Append(Served!Front(stack), f)
         \/ stack' = [stack EXCEPT ![Len(stack)] = f],
         Served!Top.call \in {"destroy", "late"} => f.call \in {"destroy", "late"} /\ f.c = Served!Top.c,
         Served!Top.call # "destroy_all",
         NEW l \in Nat, l = Len(stack),
         Above(l - 1, f) /\ (l - 1) + 1 = l => Served!FrameFits(l)'
  PROVE  Fit'
<1>1. Served!TypeOK /\ Served!ListsFit
  BY DEF Fit
<1>2. Above(l - 1, f)
  BY <1>1, Replaces, Changes
<1> DEFINE n == l - 1
<1>3. l # 0
  BY <1>1, FrameTypes
<1>4. n \in Nat /\ n + 1 = l /\ n < l /\ Below(n) /\ Len(stack') = n + 1 /\ stack'[n + 1] = f
  BY <1>2, <1>3 DEF Above
<1>5. Served!FrameFits(l)'
  BY <1>2, <1>3
<1> HIDE DEF n
<1>6. Served!FrameFits(n + 1)'
  BY <1>4, <1>5
<1>7. stack[l] = Served!Top
  BY <1>1, FrameTypes
<1>8. MayBegin(n)
  BY <1>4 DEF MayBegin
<1>9. \A k \in (n + 1)..Len(stack) : stack[k].call \in {"destroy", "late"} =>
       Len(stack') = n + 1 /\ stack'[n + 1].call \in {"destroy", "late"} /\ stack'[n + 1].c = stack[k].c
  <2>1. \A k \in (n + 1)..Len(stack) : k = l
    BY <1>4
  <2> QED
    BY <1>4, <1>7, <2>1
<1>10. n = 0 => tmp_client_list = <<>>
  <2>1. n = 0 => l = 1
    BY <1>4
  <2> QED
    BY <1>1, <1>7, <2>1 DEF Served!ListsFit
<1>11. n < Len(stack)
  BY <1>4
<1>12. Quiet(n)
  BY <1>4, <1>6, <1>8, <1>9, <1>10, <1>11 DEF Quiet, Tells
<1> QED
  BY <1>4, <1>12, QuietStep

\* Steps that end a call and make another at once, or go on with the next client.
LEMMA CallsRelayed ==
  ASSUME Fit, Served!ServerClientsAssumption, Served!AllResourcesDestroyed \/ Served!Advance
  PROVE  Fit'
<1> USE DEF Served!lists
<1>1. Served!TypeOK /\ Served!FramesFit /\ Served!ListsFit /\ Served!NoPostThroughFreed
  BY DEF Fit
<1>2. None \notin Clients
  BY DEF Served!ServerClientsAssumption
<1>3. CASE Served!AllResourcesDestroyed
  <2>1. stack # <<>> /\ Served!Top.call = "destroy" /\ Tells /\ objects[Served!Top.c] = {}
        /\ stack' = Append(Served!Front(stack), Served!Called("late", Served!Top.c, "callback"))
    BY <1>3, RunningFacts, TellsNothing DEF Served!AllResourcesDestroyed
  <2>2. PICK l \in Nat, f \in Served!Frame : Inner(l, f) /\ Served!FrameFits(l)
    BY <2>1, InnerFacts
  <2>3. PICK c \in Clients : c = Served!Top.c
    BY <2>1, <2>2 DEF Served!FrameFits, Inner
  <2>4. PICK g : g = Served!Called("late", c, "callback")
    OBVIOUS
  <2>5. Fields(g, "late", c, "callback", 0, None, {})
    BY <2>4, CalledFields DEF Served!Calls, Served!Points
  <2>6. ~display_resource[c]
    BY <1>1, <2>1, <2>3 DEF Served!NoPostThroughFreed
  <2>7. stack[l] = f /\ f.call = "destroy" /\ f.c = c /\ l = Len(stack)
    BY <2>1, <2>2, <2>3 DEF Inner
  <2>8. ASSUME Above(l - 1, g), (l - 1) + 1 = l PROVE Served!FrameFits(l)'
    <3>1. stack'[l] = g /\ Len(stack') = l /\ (\A j \in 1..(l - 1) : stack'[j] = stack[j])
      BY <2>8 DEF Above, Below
    <3>2. /\ g.call = "late" /\ g.c = c /\ g.next = None
      BY <2>5 DEF Fields
    <3>3. state' = state /\ display_resource' = display_resource
      BY <1>3 DEF Served!AllResourcesDestroyed
    <3>4. l <= MaxDepth /\ state[c] = "dying" /\ \A j \in 1..(l - 1) : stack[j].call # "flush" => stack[j].c # c
      BY <2>2, <2>7 DEF Served!FrameFits
    <3> QED
      BY <2>6, <3>1, <3>2, <3>3, <3>4 DEF Served!FrameFits
  <2>9. g \in Served!Frame /\ g.call = "late" /\ g.c = c
    BY <2>5 DEF Fields
  <2> QED
    BY <2>1, <2>3, <2>4, <2>7, <2>8, <2>9, Relays
<1>4. CASE Served!Advance
  <2>1. stack # <<>> /\ Served!Top.call = "flush" /\ Tells
    BY <1>4, RunningFacts, TellsNothing DEF Served!Advance
  <2>2. PICK l \in Nat, f \in Served!Frame : Inner(l, f) /\ Served!FrameFits(l)
    BY <2>1, InnerFacts
  <2>3. CASE Served!Top.next = None
    <3>1. Served!Return
      BY <1>4, <2>3 DEF Served!Advance
    <3> QED
      BY <2>1, <3>1, GoesBack
  <2>4. CASE Served!Top.next # None
    <3>1. PICK c \in Clients : c = Served!Top.next
      BY <2>2, <2>4 DEF Inner
    <3>2. stack[l] = f /\ f.call = "flush" /\ f.next = c /\ l = Len(stack) /\ f = Served!Top
      BY <2>1, <2>2, <3>1 DEF Inner
    <3>3. l = 1 /\ state[c] = "linked"
      BY <1>2, <2>2, <3>2 DEF Served!FrameFits
    <3>4. tmp_client_list = <<>>
      BY <1>1, <3>2, <3>3 DEF Served!ListsFit
    <3>5. c \in Served!ToSet(client_list)
      BY <1>1, <3>3, <3>4 DEF Served!ListsFit, Served!ToSet
    <3>6. PICK next : next = Served!Successor(c)
      OBVIOUS
    <3>7. next \in Clients \cup {None} /\ (next # None => state[next] = "linked" /\ next # c)
      BY <1>1, <3>5, <3>6, SuccessorFacts
    <3>8. PICK g : g = [f EXCEPT !.c = c, !.at = "loop", !.next = next]
      OBVIOUS
    <3>9. Fields(g, f.call, c, "loop", f.id, next, f.all)
      BY <3>7, <3>8, NextFields
    <3>10. g \in Served!Frame /\ g.call = "flush" /\ g.c = c /\ g.at = "loop" /\ g.next = next
      BY <3>2, <3>9 DEF Fields
    <3>11. stack' = [stack EXCEPT ![Len(stack)] = g]
      BY <1>4, <2>4, <3>1, <3>2, <3>6, <3>8 DEF Served!Advance
    <3>12. ASSUME Above(l - 1, g), (l - 1) + 1 = l PROVE Served!FrameFits(l)'
      <4>1. stack'[l] = g /\ Len(stack') = l
        BY <3>12 DEF Above
      <4>2. state' = state
        BY <1>4 DEF Served!Advance
      <4> QED
        BY <3>3, <3>7, <3>10, <4>1, <4>2 DEF Served!FrameFits
    <3> QED
      BY <2>1, <3>2, <3>10, <3>11, <3>12, Relays
  <2> QED
    BY <2>3, <2>4
<1> QED
  BY <1>3, <1>4

\* The lists still fit when a call returns that is not the first and destroys no client.
LEMMA ListsStay ==
  ASSUME Fit, NEW n \in Nat, Below(n), Len(stack') = n, UNCHANGED <<state, client_list, tmp_client_list>>,
         n + 1 = Len(stack), n # 0, stack[n + 1].call \notin {"destroy", "late"}
  PROVE  Served!ListsFit'
<1>1. Served!ListsFit /\ Served!TypeOK
  BY DEF Fit
<1>2. (\A k : k \in DOMAIN stack <=> k \in 1..(n + 1)) /\ (\A k : k \in DOMAIN stack' <=> k \in 1..n)
  BY <1>1, FrameTypes DEF Below
<1>3. \A k \in 1..n : stack'[k] = stack[k]
  BY DEF Below
<1>4. ASSUME NEW c \in Clients, state[c] = "dying"
      PROVE  \E k \in DOMAIN stack' : stack'[k].c = c /\ stack'[k].call \in {"destroy", "late"}
  <2>1. PICK k \in 1..(n + 1) : stack[k].c = c /\ stack[k].call \in {"destroy", "late"}
    BY <1>1, <1>2, <1>4 DEF Served!ListsFit
  <2>2. k \in 1..n
    BY <2>1
  <2> QED
    BY <1>2, <1>3, <2>1, <2>2
<1>5. 1 \in 1..n /\ 1 \in DOMAIN stack' /\ stack'[1] = stack[1]
  BY <1>2, <1>3
<1>6. stack' # <<>>
  BY <1>5
<1> QED
  BY <1>1, <1>4, <1>5, <1>6 DEF Served!ListsFit, Served!Idle

\* A resource goes, or one is created: the map of one client changes.
LEMMA ResourceGone ==
  ASSUME Fit, Served!ServerClientsAssumption, Served!ResourceRemoved
  PROVE  Fit'
<1> USE DEF Served!lists
<1>1. Served!TypeOK /\ Served!FramesFit /\ Served!ListsFit /\ Served!NoPostThroughFreed
  BY DEF Fit
<1>2. stack # <<>> /\ Served!Top.call = "resource" /\ Served!Top.at = "remove" /\ Served!Return
      /\ UNCHANGED <<state, display_resource, client_list, tmp_client_list, hung>>
  BY RunningFacts DEF Served!ResourceRemoved
<1>3. PICK l \in Nat, f \in Served!Frame : Inner(l, f) /\ Served!FrameFits(l)
  BY <1>2, InnerFacts
<1>4. stack[l] = f /\ f.call = "resource" /\ f.at = "remove" /\ l = Len(stack) /\ f = Served!Top
  BY <1>2, <1>3 DEF Inner
<1>5. PICK c \in Clients : c = f.c
  BY <1>3, <1>4 DEF Served!FrameFits
<1>6. PICK n \in Nat : n = l - 1 /\ n + 1 = l /\ n < l
  BY <1>3 DEF Inner
<1>7. Below(n) /\ Len(stack') = n /\ Len(stack') # n + 1
  BY <1>1, <1>2, <1>4, <1>6, Returns
<1>8. objects' = [objects EXCEPT ![c] = objects[c] \ {f.id}]
  BY <1>4, <1>5 DEF Served!ResourceRemoved, Served!Removed
<1>9. served_error' \in [Clients -> BOOLEAN]
  <2>1. PICK fails \in BOOLEAN : served_error' = [served_error EXCEPT ![c] = served_error[c] \/ (fails /\ display_resource[c])]
    BY <1>4, <1>5 DEF Served!ResourceRemoved
  <2>2. (served_error[c] \/ (fails /\ display_resource[c])) \in BOOLEAN
    OBVIOUS
  <2> QED
    BY <1>1, <2>1, <2>2 DEF Served!TypeOK
<1>10. l # 1 /\ (f.id = Served!DisplayId => ~display_resource[c])
       /\ \A j \in 1..n : stack[j].call = "resource" => <<stack[j].c, stack[j].id>> # <<c, f.id>>
  BY <1>3, <1>4, <1>5, <1>6 DEF Served!FrameFits
<1>11. \A d \in Clients : d # c => objects'[d] = objects[d]
  BY <1>1, <1>8 DEF Served!TypeOK
<1>12. objects'[c] = objects[c] \ {f.id}
  BY <1>1, <1>8 DEF Served!TypeOK
<1>13. Served!TypeOK'
  <2>1. objects' \in [Clients -> SUBSET (Ids \cup {Served!DisplayId})]
    BY <1>1, <1>8 DEF Served!TypeOK
  <2>2. stack' \in Seq(Served!Frame)
    BY <1>7 DEF Below
  <2>3. Len(stack') <= MaxDepth + 1
    <3>1. l <= MaxDepth + 1 /\ MaxDepth \in Nat
      BY <1>1, <1>4 DEF Served!TypeOK, Served!ServerClientsAssumption
    <3> QED
      BY <1>6, <1>7, <3>1
  <2>4. Served!DisplayId' = Served!DisplayId
    BY DEF Served!DisplayId
  <2> QED
    BY <1>1, <1>2, <1>9, <2>1, <2>2, <2>3, <2>4 DEF Served!TypeOK
<1>14. Served!FramesFit'
  <2>1. ASSUME NEW k \in 1..n, stack[k].call = "resource" PROVE stack[k].id \in objects'[stack[k].c]
    <3>1. k \in DOMAIN stack
      BY <1>1, <1>4, <1>6, FrameTypes
    <3>2. stack[k].c \in Clients /\ stack[k].id \in objects[stack[k].c]
      BY <1>1, <2>1, <3>1 DEF Served!FramesFit, Served!FrameFits
    <3>3. CASE stack[k].c = c
      BY <1>10, <1>12, <2>1, <3>2, <3>3
    <3>4. CASE stack[k].c # c
      BY <1>11, <3>2, <3>4
    <3> QED
      BY <3>3, <3>4
  <2>2. MayBegin(n)
    BY <1>6, <1>7 DEF MayBegin
  <2>3. \A k \in 1..n : Served!FrameFits(k)'
    BY <1>2, <1>7, <2>1, <2>2, FramesKept
  <2> QED
    BY <1>7, <2>3, FramesTogether
<1>15. Served!ListsFit'
  BY <1>2, <1>4, <1>6, <1>7, <1>10, ListsStay
<1>16. Served!NoPostThroughFreed'
  <2> SUFFICES ASSUME NEW d \in Clients, display_resource[d]
               PROVE  state[d] \in {"linked", "dying"} /\ Served!DisplayId \in objects'[d]
    BY <1>2 DEF Served!NoPostThroughFreed, Served!DisplayId
  <2>1. state[d] \in {"linked", "dying"} /\ Served!DisplayId \in objects[d]
    BY <1>1 DEF Served!NoPostThroughFreed
  <2>2. CASE d = c
    BY <1>10, <1>12, <2>1, <2>2
  <2>3. CASE d # c
    BY <1>11, <2>1, <2>3
  <2> QED
    BY <2>2, <2>3
<1> QED
  BY <1>13, <1>14, <1>15, <1>16 DEF Fit

\* A list with a client at its end that was not in it.
LEMMA ListLonger ==
  ASSUME NEW list \in Seq(Clients), Served!Once(list), NEW c \in Clients, c \notin Served!ToSet(list)
  PROVE  /\ Append(list, c) \in Seq(Clients) /\ Served!Once(Append(list, c))
         /\ \A d \in Clients : d \in Served!ToSet(Append(list, c)) <=> d \in Served!ToSet(list) \/ d = c
<1>1. PICK n \in Nat : n = Len(list)
  OBVIOUS
<1>2. PICK more : more = Append(list, c)
  OBVIOUS
<1>3. /\ more \in Seq(Clients) /\ (\A k : k \in DOMAIN list <=> k \in 1..n)
      /\ \A k : k \in DOMAIN more <=> k \in 1..(n + 1)
  BY <1>1, <1>2
<1>4. more[n + 1] = c /\ \A k \in 1..n : more[k] = list[k]
  BY <1>1, <1>2
<1>5. \A k \in 1..(n + 1) : k \in 1..n \/ k = n + 1
  OBVIOUS
<1>6. n + 1 \in 1..(n + 1) /\ \A k \in 1..n : k \in 1..(n + 1)
  OBVIOUS
<1>7. \A k \in 1..n : list[k] # c
  BY <1>3 DEF Served!ToSet
<1>8. Served!Once(more)
  <2> SUFFICES ASSUME NEW j \in 1..(n + 1), NEW k \in 1..(n + 1), more[j] = more[k] PROVE j = k
    BY <1>3 DEF Served!Once
  <2>1. \A i, m \in 1..n : list[i] = list[m] => i = m
    BY <1>3 DEF Served!Once
  <2> QED
    BY <1>4, <1>5, <1>7, <2>1
<1>9. ASSUME NEW d \in Clients PROVE d \in Served!ToSet(more) <=> d \in Served!ToSet(list) \/ d = c
  <2>1. d \in Served!ToSet(more) <=> \E k \in 1..(n + 1) : more[k] = d
    BY <1>3 DEF Served!ToSet
  <2>2. d \in Served!ToSet(list) <=> \E k \in 1..n : list[k] = d
    BY <1>3 DEF Served!ToSet
  <2> QED
    BY <1>4, <1>5, <1>6, <2>1, <2>2
<1> QED
  BY <1>2, <1>3, <1>8, <1>9

\* A client is freed.
LEMMA ClientFreed ==
  ASSUME Fit, Served!ServerClientsAssumption, Served!Free
  PROVE  Fit'
<1> USE DEF Served!lists
<1>1. Served!TypeOK /\ Served!FramesFit /\ Served!ListsFit /\ Served!NoPostThroughFreed
  BY DEF Fit
<1>2. stack # <<>> /\ Served!Top.call = "late" /\ Served!Return
      /\ UNCHANGED <<served_error, display_resource, objects, client_list, tmp_client_list, hung>>
  BY RunningFacts DEF Served!Free
<1>3. PICK l \in Nat, f \in Served!Frame : Inner(l, f) /\ Served!FrameFits(l)
  BY <1>2, InnerFacts
<1>4. stack[l] = f /\ f.call = "late" /\ l = Len(stack) /\ f = Served!Top
  BY <1>2, <1>3 DEF Inner
<1>5. PICK c \in Clients : c = f.c
  BY <1>3, <1>4 DEF Served!FrameFits
<1>6. PICK n \in Nat : n = l - 1 /\ n + 1 = l /\ n < l
  BY <1>3 DEF Inner
<1>7. Below(n) /\ Len(stack') = n /\ Len(stack') # n + 1
  BY <1>1, <1>2, <1>4, <1>6, Returns
<1>8. state' = [state EXCEPT ![c] = "freed"]
  BY <1>4, <1>5 DEF Served!Free
<1>9. state[c] = "dying" /\ ~display_resource[c] /\ \A j \in 1..n : stack[j].call # "flush" => stack[j].c # c
  BY <1>3, <1>4, <1>5, <1>6 DEF Served!FrameFits
<1>10. state'[c] = "freed" /\ \A d \in Clients : d # c => state'[d] = state[d]
  BY <1>1, <1>8 DEF Served!TypeOK
<1>11. /\ \A k : k \in DOMAIN stack <=> k \in 1..(n + 1)
       /\ \A k : k \in DOMAIN stack' <=> k \in 1..n
       /\ \A k \in 1..n : stack'[k] = stack[k]
  BY <1>1, <1>4, <1>6, <1>7, FrameTypes DEF Below
<1>12. Served!TypeOK'
  <2>1. state' \in [Clients -> {"none", "linked", "dying", "freed"}]
    BY <1>1, <1>8 DEF Served!TypeOK
  <2>2. stack' \in Seq(Served!Frame)
    BY <1>7 DEF Below
  <2>3. Len(stack') <= MaxDepth + 1
    <3>1. l <= MaxDepth + 1 /\ MaxDepth \in Nat
      BY <1>1, <1>4 DEF Served!TypeOK, Served!ServerClientsAssumption
    <3> QED
      BY <1>6, <1>7, <3>1
  <2> QED
    BY <1>1, <1>2, <2>1, <2>2, <2>3 DEF Served!TypeOK
<1>13. Served!FramesFit'
  <2>1. Spare(n, c)
    <3>1. ASSUME NEW k \in 1..n PROVE stack[k].next # c /\ (stack[k].call = "flush" => stack[k].at = "advance")
      <4>1. k \in DOMAIN stack /\ k # Len(stack)
        BY <1>4, <1>6, <1>11
      <4>2. Served!FrameFits(k)
        BY <1>1, <4>1 DEF Served!FramesFit
      <4>3. None \notin Clients
        BY DEF Served!ServerClientsAssumption
      <4> QED
        BY <1>9, <4>1, <4>2, <4>3 DEF Served!FrameFits
    <3> QED
      BY <1>9, <3>1 DEF Spare
  <2>2. \A d \in Clients : state'[d] = state[d] \/ (state'[d] # "none" /\ Spare(n, d))
    BY <1>10, <2>1
  <2>3. ASSUME NEW k \in 1..n, stack[k].call = "resource" PROVE stack[k].id \in objects'[stack[k].c]
    <3>1. k \in DOMAIN stack
      BY <1>11
    <3>2. stack[k].id \in objects[stack[k].c]
      BY <1>1, <2>3, <3>1 DEF Served!FramesFit, Served!FrameFits
    <3> QED
      BY <1>2, <3>2
  <2>4. MayBegin(n)
    BY <1>6, <1>7 DEF MayBegin
  <2>5. \A k \in 1..n : Served!FrameFits(k)'
    BY <1>2, <1>7, <2>2, <2>3, <2>4, FramesKept
  <2> QED
    BY <1>7, <2>5, FramesTogether
<1>14. Served!ListsFit'
  <2>1. ASSUME NEW d \in Clients, state'[d] = "dying"
        PROVE  \E k \in DOMAIN stack' : stack'[k].c = d /\ stack'[k].call \in {"destroy", "late"}
    <3>1. d # c /\ state[d] = "dying"
      BY <1>10, <2>1
    <3>2. PICK k \in 1..(n + 1) : stack[k].c = d /\ stack[k].call \in {"destroy", "late"}
      BY <1>1, <1>11, <3>1 DEF Served!ListsFit
    <3>3. k # n + 1
      BY <1>4, <1>5, <1>6, <3>1, <3>2
    <3>4. k \in 1..n
      BY <3>3
    <3> QED
      BY <1>11, <3>2, <3>4
  <2>2. ASSUME tmp_client_list # <<>> PROVE stack' # <<>> /\ stack'[1].call = "destroy_all"
    <3>1. stack[1].call = "destroy_all"
      BY <1>1, <2>2 DEF Served!ListsFit
    <3>2. n # 0
      BY <1>4, <1>6, <3>1
    <3>3. 1 \in 1..n
      BY <3>2
    <3>4. 1 \in DOMAIN stack' /\ stack'[1] = stack[1]
      BY <1>11, <3>3
    <3>5. stack' # <<>>
      BY <3>4
    <3> QED
      BY <3>1, <3>4, <3>5
  <2>3. \A d \in Clients : state'[d] = "linked" <=> state[d] = "linked"
    BY <1>9, <1>10
  <2> QED
    BY <1>1, <1>2, <2>1, <2>2, <2>3 DEF Served!ListsFit, Served!Idle
<1>15. Served!NoPostThroughFreed'
  BY <1>1, <1>2, <1>9, <1>10 DEF Served!NoPostThroughFreed, Served!DisplayId
<1> QED
  BY <1>12, <1>13, <1>14, <1>15 DEF Fit

\* A request handler makes a resource.
LEMMA ResourceCreated ==
  ASSUME Fit, Served!ServerClientsAssumption, NEW id \in Ids, Served!CallCreate(id)
  PROVE  Fit'
<1> USE DEF Served!lists
<1>1. Served!TypeOK /\ Served!FramesFit /\ Served!ListsFit /\ Served!NoPostThroughFreed
  BY DEF Fit
<1>2. PICK c : c = Served!Top.c
  OBVIOUS
<1>3. stack # <<>> /\ Served!Top.call = "data" /\ UNCHANGED <<state, display_resource, client_list, tmp_client_list, hung, stack>>
  BY RunningFacts DEF Served!CallCreate
<1>4. PICK l \in Nat, f \in Served!Frame : Inner(l, f) /\ Served!FrameFits(l)
  BY <1>3, InnerFacts
<1>5. c \in Clients /\ state[c] = "linked" /\ l = Len(stack)
  BY <1>2, <1>3, <1>4 DEF Served!FrameFits, Inner
<1>6. CASE id \in objects[c]
  <2>1. Tells
    BY <1>2, <1>3, <1>6, TellsError DEF Served!CallCreate
  <2> QED
    BY <1>3, <2>1, GoesNowhere
<1>7. CASE id \notin objects[c]
  <2>1. objects' = [objects EXCEPT ![c] = objects[c] \cup {id}] /\ UNCHANGED served_error
    BY <1>2, <1>7 DEF Served!CallCreate
  <2>2. \A d \in Clients : objects[d] \subseteq objects'[d]
    BY <1>1, <2>1 DEF Served!TypeOK
  <2>3. objects' \in [Clients -> SUBSET (Ids \cup {Served!DisplayId})]
    BY <1>1, <1>5, <2>1 DEF Served!TypeOK
  <2>4. Served!DisplayId' = Served!DisplayId
    BY DEF Served!DisplayId
  <2>5. Served!TypeOK'
    BY <1>1, <1>3, <2>1, <2>3, <2>4 DEF Served!TypeOK
  <2>6. Served!FramesFit'
    <3>1. stack \in Seq(Served!Frame) /\ DOMAIN stack = 1..Len(stack) /\ Len(stack) \in Nat
      BY <1>1, FrameTypes
    <3>2. Below(l) /\ Len(stack') = l /\ Len(stack') # l + 1
      BY <1>3, <1>5, <3>1 DEF Below
    <3>3. MayBegin(l)
      BY <3>2 DEF MayBegin
    <3>4. ASSUME NEW k \in 1..l, stack[k].call = "resource" PROVE stack[k].id \in objects'[stack[k].c]
      <4>1. k \in DOMAIN stack
        BY <1>5, <3>1
      <4>2. stack[k].c \in Clients /\ stack[k].id \in objects[stack[k].c]
        BY <1>1, <3>4, <4>1 DEF Served!FramesFit, Served!FrameFits
      <4> QED
        BY <2>2, <4>2
    <3>5. \A k \in 1..l : Served!FrameFits(k)'
      BY <1>3, <3>2, <3>3, <3>4, FramesKept
    <3> QED
      BY <3>2, <3>5, FramesTogether
  <2>7. Served!ListsFit'
    BY <1>1, <1>3 DEF Served!ListsFit, Served!Idle
  <2>8. Served!NoPostThroughFreed'
    BY <1>1, <1>3, <2>2, <2>4 DEF Served!NoPostThroughFreed
  <2> QED
    BY <2>5, <2>6, <2>7, <2>8 DEF Fit
<1> QED
  BY <1>6, <1>7

\* A client connects, at the end of the list.
LEMMA ClientConnects ==
  ASSUME Fit, Served!ServerClientsAssumption, NEW c \in Clients, Served!Connect(c)
  PROVE  Fit'
<1> USE DEF Served!lists
<1>1. Served!TypeOK /\ Served!FramesFit /\ Served!ListsFit /\ Served!NoPostThroughFreed
  BY DEF Fit
<1>2. stack = <<>> /\ stack' = <<>> /\ UNCHANGED <<served_error, tmp_client_list, hung>> /\ state[c] = "none"
      /\ client_list' = Append(client_list, c)
  BY DEF Served!Connect, Served!Idle
<1>3. state' = [state EXCEPT ![c] = "linked"]
      /\ objects' = [objects EXCEPT ![c] = {Served!DisplayId}]
      /\ display_resource' = [display_resource EXCEPT ![c] = TRUE]
  BY DEF Served!Connect
<1>4. tmp_client_list = <<>>
  BY <1>1, <1>2 DEF Served!ListsFit, Served!Idle
<1>5. /\ client_list' \in Seq(Clients) /\ Served!Once(client_list')
      /\ \A d \in Clients : d \in Served!ToSet(client_list') <=> d \in Served!ToSet(client_list) \/ d = c
  <2>1. client_list \in Seq(Clients) /\ Served!Once(client_list) /\ c \notin Served!ToSet(client_list)
    BY <1>1, <1>2 DEF Served!ListsFit, Served!TypeOK
  <2> QED
    BY <1>2, <2>1, ListLonger
<1>6. /\ state'[c] = "linked" /\ objects'[c] = {Served!DisplayId}
      /\ \A d \in Clients : d # c => state'[d] = state[d] /\ objects'[d] = objects[d] /\ display_resource'[d] = display_resource[d]
  BY <1>1, <1>3 DEF Served!TypeOK
<1>7. Served!DisplayId' = Served!DisplayId
  BY DEF Served!DisplayId
<1>8. Served!TypeOK'
  <2>1. /\ state' \in [Clients -> {"none", "linked", "dying", "freed"}]
        /\ objects' \in [Clients -> SUBSET (Ids \cup {Served!DisplayId})]
        /\ display_resource' \in [Clients -> BOOLEAN]
    BY <1>1, <1>3 DEF Served!TypeOK
  <2> QED
    BY <1>1, <1>2, <1>5, <1>7, <2>1 DEF Served!TypeOK
<1>9. Served!FramesFit'
  BY <1>2 DEF Served!FramesFit
<1>10. \A d \in Clients : state[d] # "dying"
  BY <1>1, <1>2 DEF Served!ListsFit
<1>11. Served!ListsFit'
  <2>1. \A d \in Clients : state'[d] = "linked" <=> d \in Served!ToSet(client_list') \cup Served!ToSet(tmp_client_list')
    BY <1>1, <1>2, <1>5, <1>6 DEF Served!ListsFit
  <2>2. \A d \in Clients : state'[d] # "dying"
    BY <1>6, <1>10
  <2>3. Served!Once(tmp_client_list')
    BY <1>1, <1>2 DEF Served!ListsFit
  <2> QED
    BY <1>2, <1>4, <1>5, <2>1, <2>2, <2>3 DEF Served!ListsFit
<1>12. Served!NoPostThroughFreed'
  BY <1>1, <1>6, <1>7 DEF Served!NoPostThroughFreed
<1> QED
  BY <1>8, <1>9, <1>11, <1>12 DEF Fit

\* What the lists say of the clients, without one that is destroyed.
Destroyed(c) ==
  /\ state[c] = "linked" /\ state' = [state EXCEPT ![c] = "dying"] /\ Served!Unlink(c)
  /\ UNCHANGED <<served_error, display_resource, objects, hung>>

\* The lists hold the other clients.
LEMMA ListsDestroyed ==
  ASSUME Fit, NEW c \in Clients, Destroyed(c)
  PROVE  /\ client_list' \in Seq(Clients) /\ tmp_client_list' \in Seq(Clients)
         /\ Served!Once(client_list)' /\ Served!Once(tmp_client_list)'
         /\ \A d \in Clients :
              state'[d] = "linked" <=> d \in Served!ToSet(client_list)' \cup Served!ToSet(tmp_client_list)'
         /\ client_list = <<>> => client_list' = <<>>
         /\ tmp_client_list = <<>> => tmp_client_list' = <<>>
         /\ state'[c] = "dying" /\ \A d \in Clients : d # c => state'[d] = state[d]
         /\ state' \in [Clients -> {"none", "linked", "dying", "freed"}]
<1>1. Served!TypeOK /\ Served!ListsFit
  BY DEF Fit
<1>2. Shorter(client_list, client_list', c) /\ Shorter(tmp_client_list, tmp_client_list', c)
  <2>1. /\ client_list \in Seq(Clients) /\ Served!Once(client_list)
        /\ tmp_client_list \in Seq(Clients) /\ Served!Once(tmp_client_list)
    BY <1>1 DEF Served!TypeOK, Served!ListsFit
  <2>2. Shorter(client_list, Served!Without(client_list, c), c)
    BY <2>1, ListShorter
  <2>3. Shorter(tmp_client_list, Served!Without(tmp_client_list, c), c)
    BY <2>1, ListShorter
  <2> QED
    BY <2>2, <2>3 DEF Destroyed, Served!Unlink
<1>3. /\ state'[c] = "dying" /\ \A d \in Clients : d # c => state'[d] = state[d]
      /\ state' \in [Clients -> {"none", "linked", "dying", "freed"}]
  BY <1>1 DEF Destroyed, Served!TypeOK
<1>4. ASSUME NEW d \in Clients
      PROVE  state'[d] = "linked" <=> d \in Served!ToSet(client_list') \cup Served!ToSet(tmp_client_list')
  <2>1. state[d] = "linked" <=> d \in Served!ToSet(client_list) \cup Served!ToSet(tmp_client_list)
    BY <1>1 DEF Served!ListsFit
  <2>2. /\ d \in Served!ToSet(client_list') <=> d \in Served!ToSet(client_list) /\ d # c
        /\ d \in Served!ToSet(tmp_client_list') <=> d \in Served!ToSet(tmp_client_list) /\ d # c
    BY <1>2 DEF Shorter
  <2>3. state'[d] = "linked" <=> state[d] = "linked" /\ d # c
    BY <1>3
  <2> QED
    BY <2>1, <2>2, <2>3
<1>5. Served!Once(client_list') /\ Served!Once(tmp_client_list')
      /\ client_list' \in Seq(Clients) /\ tmp_client_list' \in Seq(Clients)
      /\ (client_list = <<>> => client_list' = <<>>) /\ (tmp_client_list = <<>> => tmp_client_list' = <<>>)
  BY <1>2 DEF Shorter
<1> QED
  BY <1>3, <1>4, <1>5

\* A client is destroyed by a call that follows the first n.
LEMMA ClientDestroyed ==
  ASSUME Fit, Served!ServerClientsAssumption, NEW n \in Nat, n < MaxDepth, NEW c \in Clients, Destroyed(c),
         NEW f, Fields(f, "destroy", c, "callback", 0, None, {}), Above(n, f), MayBegin(n), Spare(n, c),
         \A k \in (n + 1)..Len(stack) : stack[k].call \notin {"destroy", "late"},
         n = 0 => tmp_client_list = <<>>
  PROVE  Fit'
<1>1. Served!TypeOK /\ Served!FramesFit /\ Served!ListsFit /\ Served!NoPostThroughFreed
  BY DEF Fit
<1>2. /\ client_list' \in Seq(Clients) /\ tmp_client_list' \in Seq(Clients)
      /\ Served!Once(client_list)' /\ Served!Once(tmp_client_list)'
      /\ \A d \in Clients :
           state'[d] = "linked" <=> d \in Served!ToSet(client_list)' \cup Served!ToSet(tmp_client_list)'
  BY ListsDestroyed
<1>3. /\ client_list = <<>> => client_list' = <<>>
      /\ tmp_client_list = <<>> => tmp_client_list' = <<>>
  BY ListsDestroyed
<1>4. /\ state'[c] = "dying" /\ \A d \in Clients : d # c => state'[d] = state[d]
      /\ state' \in [Clients -> {"none", "linked", "dying", "freed"}]
  BY ListsDestroyed
<1>5. UNCHANGED <<served_error, display_resource, objects, hung>> /\ state[c] = "linked"
  BY DEF Destroyed
<1>6. /\ \A k : k \in DOMAIN stack <=> k \in 1..Len(stack)
      /\ \A k : k \in DOMAIN stack' <=> k \in 1..(n + 1)
      /\ \A k \in 1..n : stack'[k] = stack[k]
      /\ stack'[n + 1] = f /\ Len(stack') = n + 1
  BY <1>1, FrameTypes DEF Above, Below
<1>7. Below(n) /\ n <= Len(stack) /\ Len(stack) \in Nat
  BY DEF Above, Below
<1>8. f.call = "destroy" /\ f.c = c /\ f.next = None
  BY DEF Fields
<1>9. Served!TypeOK'
  <2>1. stack' \in Seq(Served!Frame)
    BY <1>7 DEF Below
  <2>2. Len(stack') <= MaxDepth + 1
    BY <1>6 DEF Served!ServerClientsAssumption
  <2>3. Served!DisplayId' = Served!DisplayId
    BY DEF Served!DisplayId
  <2> QED
    BY <1>1, <1>2, <1>4, <1>5, <2>1, <2>2, <2>3 DEF Served!TypeOK
<1>10. Served!FramesFit'
  <2>1. \A d \in Clients : state'[d] = state[d] \/ (state'[d] # "none" /\ Spare(n, d))
    BY <1>4
  <2>2. ASSUME NEW k \in 1..n, stack[k].call = "resource" PROVE stack[k].id \in objects'[stack[k].c]
    <3>1. k \in DOMAIN stack
      BY <1>6, <1>7
    <3>2. stack[k].id \in objects[stack[k].c]
      BY <1>1, <2>2, <3>1 DEF Served!FramesFit, Served!FrameFits
    <3> QED
      BY <1>5, <3>2
  <2>3. \A k \in 1..n : Served!FrameFits(k)'
    BY <1>3, <1>5, <1>7, <2>1, <2>2, FramesKept
  <2>4. Served!FrameFits(n + 1)'
    <3>1. \A j \in 1..((n + 1) - 1) : stack'[j].call # "flush" => stack'[j].c # c
      BY <1>6 DEF Spare
    <3>2. n + 1 <= MaxDepth
      BY DEF Served!ServerClientsAssumption
    <3> QED
      BY <1>4, <1>6, <1>8, <3>1, <3>2 DEF Served!FrameFits
  <2> QED
    BY <1>7, <2>3, <2>4, FramesTogether
<1>11. Served!ListsFit'
  <2>1. ASSUME NEW d \in Clients, state'[d] = "dying"
        PROVE  \E k \in DOMAIN stack' : stack'[k].c = d /\ stack'[k].call \in {"destroy", "late"}
    <3>1. n + 1 \in DOMAIN stack'
      BY <1>6
    <3>2. CASE d = c
      BY <1>6, <1>8, <3>1, <3>2
    <3>3. CASE d # c
      <4>1. PICK k \in 1..Len(stack) : stack[k].c = d /\ stack[k].call \in {"destroy", "late"}
        BY <1>1, <1>4, <1>6, <2>1, <3>3 DEF Served!ListsFit
      <4>2. k \in 1..n
        <5>1. k \notin (n + 1)..Len(stack)
          BY <4>1
        <5> QED
          BY <1>7, <5>1
      <4>3. k \in DOMAIN stack' /\ stack'[k] = stack[k]
        <5>1. k \in 1..(n + 1)
          BY <4>2
        <5> QED
          BY <1>6, <4>2, <5>1
      <4> QED
        BY <4>1, <4>3
    <3> QED
      BY <3>2, <3>3
  <2>2. ASSUME tmp_client_list' # <<>> PROVE stack' # <<>> /\ stack'[1].call = "destroy_all"
    <3>1. stack[1].call = "destroy_all" /\ n # 0
      BY <1>1, <1>3, <2>2 DEF Served!ListsFit
    <3>2. 1 \in 1..n /\ 1 \in 1..(n + 1)
      BY <3>1
    <3>3. 1 \in DOMAIN stack' /\ stack'[1] = stack[1]
      BY <1>6, <3>2
    <3>4. stack' # <<>>
      BY <3>3
    <3> QED
      BY <3>1, <3>3, <3>4
  <2> QED
    BY <1>2, <2>1, <2>2 DEF Served!ListsFit, Served!Idle
<1>12. Served!NoPostThroughFreed'
  <2> SUFFICES ASSUME NEW d \in Clients, display_resource[d]
               PROVE  state'[d] \in {"linked", "dying"} /\ Served!DisplayId \in objects[d]
    BY <1>5 DEF Served!NoPostThroughFreed, Served!DisplayId
  <2>1. state[d] \in {"linked", "dying"} /\ Served!DisplayId \in objects[d]
    BY <1>1 DEF Served!NoPostThroughFreed
  <2> QED
    BY <1>4, <2>1
<1> QED
  BY <1>9, <1>10, <1>11, <1>12 DEF Fit

\* wl_client_destroy is called, perhaps for a client that is being destroyed.
LEMMA DestroyCalled ==
  ASSUME Fit, Served!ServerClientsAssumption, NEW c \in Clients, Served!DestroyClient(c),
         UNCHANGED <<display_resource, objects, hung>>, NEW l \in Nat, l = Len(stack),
         state[c] = "dying" \/ (state[c] = "linked" /\ l < MaxDepth /\ Spare(l, c)),
         l = 0 => tmp_client_list = <<>>, l = 0 \/ stack[l].call # "flush" \/ stack[l].at # "loop"
  PROVE  Fit'
<1>1. Served!TypeOK
  BY DEF Fit
<1>2. CASE state[c] = "dying"
  <2>1. served_error' = [served_error EXCEPT ![c] = TRUE] /\ UNCHANGED <<state, client_list, tmp_client_list, stack>>
    BY <1>2 DEF Served!DestroyClient, Served!ReentrantCall, Served!lists
  <2>2. Tells
    BY <1>1, <2>1 DEF Tells, Served!TypeOK
  <2> QED
    BY <2>1, <2>2, GoesNowhere
<1>3. CASE state[c] = "linked"
  <2>1. PICK f : f = Served!Called("destroy", c, "callback")
    OBVIOUS
  <2>2. Destroyed(c) /\ Served!Push(f)
    BY <1>3, <2>1 DEF Served!DestroyClient, Served!ReentrantCall, Destroyed
  <2>3. Fields(f, "destroy", c, "callback", 0, None, {})
    BY <2>1, CalledFields DEF Served!Calls, Served!Points
  <2>4. Above(l, f)
    BY <1>1, <2>2, <2>3, Pushes DEF Fields
  <2>5. MayBegin(l)
    BY DEF MayBegin
  <2>6. \A k \in (l + 1)..Len(stack) : FALSE
    OBVIOUS
  <2>7. l < MaxDepth /\ Spare(l, c)
    BY <1>3
  <2> QED
    BY <2>2, <2>3, <2>4, <2>5, <2>6, <2>7, ClientDestroyed
<1> QED
  BY <1>2, <1>3

\* Steps that call wl_client_destroy.
LEMMA CallsDestroy ==
  ASSUME Fit, Served!ServerClientsAssumption,
         Served!DestroyFirst \/ \E c \in Clients : Served!ConnectionFails(c) \/ Served!CallDestroy(c)
  PROVE  Fit'
<1>1. Served!TypeOK /\ Served!FramesFit /\ Served!ListsFit
  BY DEF Fit
<1>2. None \notin Clients /\ MaxDepth \in Nat /\ 0 < MaxDepth /\ 1 < MaxDepth
  BY DEF Served!ServerClientsAssumption
<1>3. PICK l \in Nat : l = Len(stack)
  BY <1>1, FrameTypes
<1>4. /\ \A k : k \in DOMAIN stack <=> k \in 1..l
      /\ stack = <<>> <=> l = 0
      /\ stack # <<>> => Served!Top = stack[l]
  BY <1>1, <1>3, FrameTypes
<1>5. CASE Served!DestroyFirst
  <2>1. stack # <<>> /\ Served!Top.call = "destroy_all" /\ tmp_client_list # <<>>
    BY <1>5, RunningFacts DEF Served!DestroyFirst, Served!NoneLeft
  <2>2. Served!FrameFits(l) /\ l # 0 /\ stack[l].call = "destroy_all"
    BY <1>1, <1>4, <2>1 DEF Served!FramesFit
  <2>3. l = 1 /\ stack[l].c \notin Clients /\ stack[l].next = None
    BY <2>2 DEF Served!FrameFits
  <2>4. PICK c : c = Head(tmp_client_list)
    OBVIOUS
  <2>5. c \in Clients /\ c \in Served!ToSet(tmp_client_list)
    <3>1. tmp_client_list \in Seq(Clients)
      BY <1>1 DEF Served!TypeOK
    <3> QED
      BY <2>1, <2>4, <3>1 DEF Served!ToSet
  <2>6. state[c] = "linked"
    BY <1>1, <2>5 DEF Served!ListsFit
  <2>7. Spare(l, c)
    <3>1. \A k \in 1..l : k = l
      BY <2>3
    <3>2. stack[l].c # c /\ stack[l].next # c /\ stack[l].call # "flush"
      BY <1>2, <2>2, <2>3, <2>5
    <3> QED
      BY <3>1, <3>2 DEF Spare
  <2>8. l < MaxDepth
    BY <1>2, <2>3
  <2>9. Served!DestroyClient(c) /\ UNCHANGED <<display_resource, objects, hung>>
    BY <1>5, <2>4 DEF Served!DestroyFirst
  <2> QED
    BY <1>3, <2>2, <2>5, <2>6, <2>7, <2>8, <2>9, DestroyCalled
<1>6. ASSUME NEW c \in Clients, Served!ConnectionFails(c) PROVE Fit'
  <2>1. /\ stack = <<>> /\ state[c] = "linked" /\ Served!DestroyClient(c)
        /\ UNCHANGED <<display_resource, objects, hung>>
    BY <1>6 DEF Served!ConnectionFails, Served!Idle
  <2>2. l = 0 /\ tmp_client_list = <<>>
    BY <1>1, <1>4, <2>1 DEF Served!ListsFit, Served!Idle
  <2>3. l < MaxDepth
    BY <1>2, <2>2
  <2>4. Spare(l, c)
    BY <2>2 DEF Spare
  <2> QED
    BY <1>3, <2>1, <2>2, <2>3, <2>4, DestroyCalled
<1>7. ASSUME NEW c \in Clients, Served!CallDestroy(c) PROVE Fit'
  <2>1. /\ stack # <<>> /\ Served!Top.at = "callback" /\ l < MaxDepth /\ Served!DestroyClient(c)
        /\ UNCHANGED <<display_resource, objects, hung>>
    BY <1>3, <1>7 DEF Served!CallDestroy, Served!MayNest, Served!InCallback, Served!Idle
  <2>2. l # 0 /\ stack[l].at = "callback"
    BY <1>4, <2>1
  <2>3. ASSUME state[c] # "dying" PROVE state[c] = "linked" /\ Spare(l, c)
    <3>1. /\ state[c] = "linked"
          /\ \A k \in DOMAIN stack : stack[k].call # "flush" => stack[k].c # c
          /\ \A k \in DOMAIN stack : stack[k].next # c
      BY <1>7, <2>3 DEF Served!CallDestroy, Served!MayDestroy
    <3>2. ASSUME NEW k \in 1..l, stack[k].call = "flush" PROVE stack[k].at = "advance"
      <4>1. Served!FrameFits(k)
        BY <1>1, <1>4 DEF Served!FramesFit
      <4>2. stack[k].at = "loop" => k = l
        BY <1>3, <3>2, <4>1 DEF Served!FrameFits
      <4>3. stack[k].at \in {"loop", "advance"}
        BY <3>2, <4>1 DEF Served!FrameFits
      <4> QED
        BY <2>2, <4>2, <4>3
    <3> QED
      BY <1>4, <3>1, <3>2 DEF Spare
  <2> QED
    BY <1>3, <2>1, <2>2, <2>3, DestroyCalled
<1> QED
  BY <1>5, <1>6, <1>7

\* The requests of a client end with it, if there was an error.
LEMMA RequestsEnd ==
  ASSUME Fit, Served!ServerClientsAssumption, Served!DataReturns
  PROVE  Fit'
<1> USE DEF Served!lists
<1>1. Served!TypeOK /\ Served!FramesFit /\ Served!ListsFit
  BY DEF Fit
<1>2. stack # <<>> /\ Served!Top.call = "data"
  BY RunningFacts DEF Served!DataReturns
<1>3. PICK l \in Nat, f \in Served!Frame : Inner(l, f) /\ Served!FrameFits(l)
  BY <1>2, InnerFacts
<1>4. stack[l] = f /\ f.call = "data" /\ l = Len(stack) /\ f = Served!Top
  BY <1>2, <1>3 DEF Inner
<1>5. PICK c \in Clients : c = f.c
  BY <1>3, <1>4 DEF Served!FrameFits
<1>6. l = 1 /\ state[c] = "linked"
  BY <1>3, <1>4, <1>5 DEF Served!FrameFits
<1>7. CASE served_error[c]
  <2>1. PICK g : g = Served!Called("destroy", c, "callback")
    OBVIOUS
  <2>2. Destroyed(c) /\ stack' = Append(Served!Front(stack), g)
    BY <1>4, <1>5, <1>6, <1>7, <2>1 DEF Served!DataReturns, Served!EndsClient, Destroyed
  <2>3. Fields(g, "destroy", c, "callback", 0, None, {})
    BY <2>1, CalledFields DEF Served!Calls, Served!Points
  <2>4. Above(Len(stack) - 1, g)
    BY <1>1, <1>2, <2>2, <2>3, Replaces DEF Fields
  <2>5. Len(stack) - 1 = 0
    BY <1>4, <1>6
  <2>6. Above(0, g)
    BY <2>4, <2>5
  <2>7. MayBegin(0)
    BY DEF MayBegin
  <2>8. Spare(0, c)
    BY DEF Spare
  <2>9. \A k \in (0 + 1)..Len(stack) : stack[k].call \notin {"destroy", "late"}
    <3>1. \A k \in (0 + 1)..Len(stack) : k = l
      BY <1>4, <1>6
    <3> QED
      BY <1>4, <3>1
  <2>10. tmp_client_list = <<>>
    BY <1>1, <1>4, <1>6 DEF Served!ListsFit
  <2>11. 0 \in Nat /\ 0 < MaxDepth
    BY DEF Served!ServerClientsAssumption
  <2> QED
    BY <2>2, <2>3, <2>6, <2>7, <2>8, <2>9, <2>10, <2>11, ClientDestroyed
<1>8. CASE ~served_error[c]
  <2>1. Served!Return /\ UNCHANGED <<state, served_error, display_resource, objects, client_list, tmp_client_list, hung>>
    BY <1>4, <1>5, <1>8 DEF Served!DataReturns, Served!EndsClient
  <2>2. Tells
    BY <2>1, TellsNothing
  <2> QED
    BY <1>2, <2>1, <2>2, GoesBack
<1> QED
  BY <1>7, <1>8

\* The client whose events wl_display_flush_clients cannot write is destroyed.
LEMMA FlushEnds ==
  ASSUME Fit, Served!ServerClientsAssumption, Served!FlushFails
  PROVE  Fit'
<1>1. Served!TypeOK /\ Served!FramesFit /\ Served!ListsFit /\ Served!NoPostThroughFreed
  BY DEF Fit
<1>2. stack # <<>> /\ Served!Top.call = "flush" /\ Served!Top.at = "loop"
  BY RunningFacts DEF Served!FlushFails
<1>3. PICK l \in Nat, f \in Served!Frame : Inner(l, f) /\ Served!FrameFits(l)
  BY <1>2, InnerFacts
<1>4. stack[l] = f /\ f.call = "flush" /\ f.at = "loop" /\ l = Len(stack) /\ f = Served!Top
  BY <1>2, <1>3 DEF Inner
<1>5. PICK c \in Clients : c = f.c
  BY <1>3, <1>4 DEF Served!FrameFits
<1>6. l = 1 /\ state[c] = "linked" /\ (f.next # None => state[f.next] = "linked" /\ f.next # c)
  BY <1>3, <1>4, <1>5 DEF Served!FrameFits
<1>7. PICK a : a = [f EXCEPT !.at = "advance"]
  OBVIOUS
<1>8. PICK g : g = Served!Called("destroy", c, "callback")
  OBVIOUS
<1>9. /\ a \in Served!Frame /\ a.call = "flush" /\ a.c = c /\ a.at = "advance" /\ a.next = f.next
      /\ f.next \in Clients \cup {None}
  <2>1. Fields(a, f.call, f.c, "advance", f.id, f.next, f.all)
    BY <1>7, MovedFields DEF Served!Points
  <2> QED
    BY <1>3, <1>4, <1>5, <2>1 DEF Fields, Inner
<1>10. g \in Served!Frame /\ g.call = "destroy" /\ g.c = c /\ g.next = None
  <2>1. Fields(g, "destroy", c, "callback", 0, None, {})
    BY <1>8, CalledFields DEF Served!Calls, Served!Points
  <2> QED
    BY <2>1 DEF Fields
<1>11. Destroyed(c)
  BY <1>4, <1>5, <1>6 DEF Served!FlushFails, Destroyed
<1>12. /\ stack' \in Seq(Served!Frame) /\ Len(stack') = 2 /\ stack'[1] = a /\ stack'[2] = g
       /\ \A k : k \in DOMAIN stack' <=> k \in 1..2
  <2>1. PICK one : one = WithLast(stack, a)
    OBVIOUS
  <2>2. stack' = Append(one, g)
    BY <1>4, <1>5, <1>7, <1>8, <2>1 DEF Served!FlushFails, WithLast
  <2>3. stack \in Seq(Served!Frame) /\ Len(stack) = 1
    BY <1>1, <1>4, <1>6 DEF Served!TypeOK
  <2>4. one \in Seq(Served!Frame) /\ Len(one) = 1 /\ one[1] = a
    <3>1. a \in Served!Frame /\ Len(stack) # 0
      BY <1>9, <2>3
    <3>2. /\ WithLast(stack, a) \in Seq(Served!Frame) /\ Len(WithLast(stack, a)) = Len(stack)
          /\ WithLast(stack, a)[Len(stack)] = a
      BY <2>3, <3>1, LastChanged
    <3> QED
      BY <2>1, <2>3, <3>2
  <2>5. g \in Served!Frame
    BY <1>10
  <2>6. PICK two : two = Append(one, g)
    OBVIOUS
  <2>7. two \in Seq(Served!Frame) /\ Len(two) = 2 /\ two[1] = a /\ two[2] = g
    <3>1. /\ two \in Seq(Served!Frame) /\ Len(two) = Len(one) + 1 /\ two[Len(one) + 1] = g
          /\ \A k \in 1..Len(one) : two[k] = one[k]
      <4>1. one \in Seq(Served!Frame)
        BY <2>4
      <4> QED
        BY <2>5, <2>6, <4>1
    <3>2. 1 + 1 = 2 /\ 1 \in 1..1
      OBVIOUS
    <3> QED
      BY <2>4, <3>1, <3>2
  <2>8. \A k : k \in DOMAIN two <=> k \in 1..2
    BY <2>7
  <2>9. stack' = two
    BY <2>2, <2>6
  <2> QED
    BY <2>7, <2>8, <2>9
<1>13. /\ client_list' \in Seq(Clients) /\ tmp_client_list' \in Seq(Clients)
       /\ Served!Once(client_list)' /\ Served!Once(tmp_client_list)'
       /\ \A d \in Clients :
            state'[d] = "linked" <=> d \in Served!ToSet(client_list)' \cup Served!ToSet(tmp_client_list)'
  BY <1>11, ListsDestroyed
<1>14. tmp_client_list' = <<>>
  <2>1. tmp_client_list = <<>>
    BY <1>1, <1>4, <1>6 DEF Served!ListsFit
  <2> QED
    BY <1>11, <2>1, ListsDestroyed
<1>15. /\ state'[c] = "dying" /\ \A d \in Clients : d # c => state'[d] = state[d]
       /\ state' \in [Clients -> {"none", "linked", "dying", "freed"}]
  BY <1>11, ListsDestroyed
<1>16. UNCHANGED <<served_error, display_resource, objects, hung>>
  BY <1>11 DEF Destroyed
<1>17. Served!TypeOK'
  <2>1. Len(stack') <= MaxDepth + 1
    BY <1>12 DEF Served!ServerClientsAssumption
  <2>2. Served!DisplayId' = Served!DisplayId
    BY DEF Served!DisplayId
  <2> QED
    BY <1>1, <1>12, <1>13, <1>15, <1>16, <2>1, <2>2 DEF Served!TypeOK
<1>18. Served!FramesFit'
  <2>1. Served!FrameFits(1)'
    BY <1>6, <1>9, <1>12, <1>15 DEF Served!FrameFits
  <2>2. Served!FrameFits(2)'
    <3>1. \A j \in 1..(2 - 1) : stack'[j].call = "flush"
      BY <1>9, <1>12
    <3>2. 2 <= MaxDepth
      BY DEF Served!ServerClientsAssumption
    <3> QED
      BY <1>10, <1>12, <1>15, <3>1, <3>2 DEF Served!FrameFits
  <2> QED
    BY <1>12, <2>1, <2>2 DEF Served!FramesFit
<1>19. Served!ListsFit'
  <2>1. ASSUME NEW d \in Clients, state'[d] = "dying"
        PROVE  \E k \in DOMAIN stack' : stack'[k].c = d /\ stack'[k].call \in {"destroy", "late"}
    <3>1. d = c
      <4> SUFFICES ASSUME d # c PROVE FALSE
        OBVIOUS
      <4>1. PICK k \in DOMAIN stack : stack[k].c = d /\ stack[k].call \in {"destroy", "late"}
        BY <1>1, <1>15, <2>1 DEF Served!ListsFit
      <4>2. k = 1
        BY <1>1, <1>4, <1>6, FrameTypes
      <4> QED
        BY <1>4, <1>6, <4>1, <4>2
    <3>2. 2 \in DOMAIN stack'
      BY <1>12
    <3> QED
      BY <1>10, <1>12, <3>1, <3>2
  <2> QED
    BY <1>13, <1>14, <2>1 DEF Served!ListsFit
<1>20. Served!NoPostThroughFreed'
  <2> SUFFICES ASSUME NEW d \in Clients, display_resource[d]
               PROVE  state'[d] \in {"linked", "dying"} /\ Served!DisplayId \in objects[d]
    BY <1>16 DEF Served!NoPostThroughFreed, Served!DisplayId
  <2>1. state[d] \in {"linked", "dying"} /\ Served!DisplayId \in objects[d]
    BY <1>1 DEF Served!NoPostThroughFreed
  <2> QED
    BY <1>15, <2>1
<1> QED
  BY <1>17, <1>18, <1>19, <1>20 DEF Fit

\* wl_display_destroy_clients takes over the list.
LEMMA ListTaken ==
  ASSUME Fit, Served!ServerClientsAssumption, Served!DestroyClients
  PROVE  Fit'
<1>1. Served!TypeOK /\ Served!FramesFit /\ Served!ListsFit /\ Served!NoPostThroughFreed
  BY DEF Fit
<1>2. /\ stack = <<>> /\ tmp_client_list' = client_list /\ client_list' = <<>>
      /\ UNCHANGED <<state, served_error, display_resource, objects, hung>>
  BY DEF Served!DestroyClients, Served!Idle
<1>3. PICK all \in SUBSET Clients : all = Served!ToSet(client_list)
  <2>1. \A k \in DOMAIN client_list : client_list[k] \in Clients
    BY <1>1 DEF Served!TypeOK
  <2>2. Served!ToSet(client_list) \subseteq Clients
    BY <2>1 DEF Served!ToSet
  <2> QED
    BY <2>2
<1>4. PICK g : g = [Served!Called("destroy_all", None, "loop") EXCEPT !.all = all]
  OBVIOUS
<1>5. /\ g \in Served!Frame /\ g.call = "destroy_all" /\ g.c = None /\ g.next = None /\ g.all = all
  <2>1. Fields(g, "destroy_all", None, "loop", 0, None, all)
    BY <1>4, AllFields
  <2> QED
    BY <2>1 DEF Fields
<1>6. stack' = Append(<<>>, g)
  BY <1>2, <1>3, <1>4 DEF Served!DestroyClients, Served!Push
<1>7. /\ stack' \in Seq(Served!Frame) /\ Len(stack') = 1 /\ stack'[1] = g /\ stack' # <<>>
      /\ \A k : k \in DOMAIN stack' <=> k = 1
  BY <1>5, <1>6
<1>8. tmp_client_list = <<>>
  BY <1>1, <1>2 DEF Served!ListsFit, Served!Idle
<1>9. \A d \in Clients : d \notin Served!ToSet(<<>>)
  BY DEF Served!ToSet
<1>10. \A d \in Clients : state[d] = "linked" <=> d \in Served!ToSet(client_list)
  BY <1>1, <1>8, <1>9 DEF Served!ListsFit
<1>11. \A d \in Clients : state[d] # "dying"
  BY <1>1, <1>2 DEF Served!ListsFit
<1>12. Served!TypeOK'
  <2>1. Len(stack') <= MaxDepth + 1
    BY <1>7 DEF Served!ServerClientsAssumption
  <2>2. Served!DisplayId' = Served!DisplayId
    BY DEF Served!DisplayId
  <2>3. client_list' \in Seq(Clients) /\ tmp_client_list' \in Seq(Clients)
    BY <1>1, <1>2 DEF Served!TypeOK
  <2> QED
    BY <1>1, <1>2, <1>7, <2>1, <2>2, <2>3 DEF Served!TypeOK
<1>13. Served!FramesFit'
  <2>1. \A d \in all : state'[d] # "none"
    BY <1>2, <1>3, <1>10
  <2>2. None \notin Clients
    BY DEF Served!ServerClientsAssumption
  <2>3. Served!FrameFits(1)'
    BY <1>2, <1>5, <1>7, <2>1, <2>2 DEF Served!FrameFits
  <2> QED
    BY <1>7, <2>3 DEF Served!FramesFit
<1>14. Served!ListsFit'
  <2>1. Served!Once(client_list')
    BY <1>2 DEF Served!Once
  <2>2. Served!Once(tmp_client_list')
    BY <1>1, <1>2 DEF Served!ListsFit
  <2>3. \A d \in Clients : state'[d] = "linked" <=> d \in Served!ToSet(client_list') \cup Served!ToSet(tmp_client_list')
    BY <1>2, <1>9, <1>10
  <2>4. stack'[1].call = "destroy_all"
    BY <1>5, <1>7
  <2> QED
    BY <1>2, <1>7, <1>11, <2>1, <2>2, <2>3, <2>4 DEF Served!ListsFit, Served!Idle
<1>15. Served!NoPostThroughFreed'
  BY <1>1, <1>2 DEF Served!NoPostThroughFreed, Served!DisplayId
<1> QED
  BY <1>12, <1>13, <1>14, <1>15 DEF Fit

\* The invariant of clients and calls holds at first.
LEMMA FitInit ==
  ASSUME Served!Init
  PROVE  Fit
<1>1. /\ stack = <<>> /\ client_list = <<>> /\ tmp_client_list = <<>> /\ state = [c \in Clients |-> "none"]
      /\ display_resource = [c \in Clients |-> FALSE]
  BY DEF Served!Init
<1>2. Served!TypeOK
  <2>1. 0 <= MaxDepth + 1
    BY MCServerAssumption DEF Served!ServerClientsAssumption
  <2>2. stack \in Seq(Served!Frame) /\ Len(stack) = 0 /\ client_list \in Seq(Clients) /\ tmp_client_list \in Seq(Clients)
    BY <1>1
  <2> QED
    BY <2>1, <2>2 DEF Served!Init, Served!TypeOK
<1>3. Served!FramesFit
  BY <1>1 DEF Served!FramesFit
<1>4. Served!ListsFit
  <2>1. Served!Once(<<>>) /\ \A d \in Clients : d \notin Served!ToSet(<<>>)
    BY DEF Served!Once, Served!ToSet
  <2> QED
    BY <1>1, <2>1 DEF Served!ListsFit
<1>5. Served!NoPostThroughFreed
  BY <1>1 DEF Served!NoPostThroughFreed
<1> QED
  BY <1>2, <1>3, <1>4, <1>5 DEF Fit

\* Every step of the server's clients keeps it.
LEMMA FitNext ==
  ASSUME Fit, Served!Next
  PROVE  Fit'
<1>1. Served!ServerClientsAssumption
  BY MCServerAssumption
<1>2. CASE \E c \in Clients : Served!Connect(c)
  BY <1>1, <1>2, ClientConnects
<1>3. CASE \/ Served!TimerReturns \/ Served!AllDestroyed
           \/ \E c \in Clients : Served!HangUp(c) \/ Served!CallPostError(c)
  BY <1>1, <1>3, CallsGoBack
<1>4. CASE Served!DestroyFirst \/ \E c \in Clients : Served!ConnectionFails(c) \/ Served!CallDestroy(c)
  BY <1>1, <1>4, CallsDestroy
<1>5. CASE \/ Served!Timer \/ Served!FlushClients \/ Served!NextResource
           \/ \E c \in Clients : Served!ConnectionData(c)
           \/ \E c \in Clients, id \in Ids : Served!CallDestroyResource(c, id)
  BY <1>1, <1>5, CallsGoIn
<1>6. CASE \/ Served!Request \/ Served!InvalidRequest \/ Served!NoMoreRequests \/ Served!HandlerReturns
           \/ Served!DestroySignalled \/ Served!ResourceSignalled \/ Served!Flushed
  BY <1>1, <1>6, CallsGoOn
<1>7. CASE Served!AllResourcesDestroyed \/ Served!Advance
  BY <1>1, <1>7, CallsRelayed
<1>8. CASE Served!DataReturns
  BY <1>1, <1>8, RequestsEnd
<1>9. CASE Served!Free
  BY <1>1, <1>9, ClientFreed
<1>10. CASE Served!ResourceRemoved
  BY <1>1, <1>10, ResourceGone
<1>11. CASE Served!FlushFails
  BY <1>1, <1>11, FlushEnds
<1>12. CASE Served!DestroyClients
  BY <1>1, <1>12, ListTaken
<1>13. CASE \E id \in Ids : Served!CallCreate(id)
  BY <1>1, <1>13, ResourceCreated
<1> QED
  BY <1>2, <1>3, <1>4, <1>5, <1>6, <1>7, <1>8, <1>9, <1>10, <1>11, <1>12, <1>13 DEF Served!Next

\* With one resource and little nesting, clients do nothing that they may not do.
LEMMA ErringSteps ==
  ASSUME Served!TypeOK, Erring!Next
  PROVE  Served!Next
<1>1. 2 \in Ids /\ MaxDepth >= 3 /\ MaxDepth \in Nat
  BY MCServerAssumption DEF MCServerAssumption, Served!ServerClientsAssumption
<1> USE DEF Served!Called, Erring!Called, Served!Top, Erring!Top, Served!Idle, Erring!Idle,
       Served!Running, Erring!Running, Served!Push, Erring!Push, Served!Goto, Erring!Goto, Served!Return, Erring!Return,
       Served!Front, Erring!Front, Served!Last, Erring!Last, Served!lists, Erring!lists,
       Served!DisplayId, Erring!DisplayId
<1>2. ASSUME NEW c \in Clients, Erring!Connect(c) PROVE Served!Connect(c)
  BY <1>2 DEF Erring!Connect, Served!Connect
<1>3. ASSUME NEW c \in Clients, Erring!HangUp(c) PROVE Served!HangUp(c)
  BY <1>3 DEF Erring!HangUp, Served!HangUp
<1>4. \A c : Erring!Unlink(c) => Served!Unlink(c)
  <2>1. \A list, c : Erring!Without(list, c) = Served!Without(list, c)
    BY DEF Erring!Without, Served!Without, Erring!Place, Served!Place, Erring!ToSet, Served!ToSet,
       Erring!RemoveAt, Served!RemoveAt
  <2> QED
    BY <2>1 DEF Erring!Unlink, Served!Unlink
<1>5. \A c : Erring!DestroyClient(c) => Served!DestroyClient(c)
  BY <1>4 DEF Erring!DestroyClient, Served!DestroyClient, Erring!ReentrantCall, Served!ReentrantCall
<1>6. ASSUME NEW c \in Clients, Erring!ConnectionFails(c) PROVE Served!ConnectionFails(c)
  BY <1>5, <1>6 DEF Erring!ConnectionFails, Served!ConnectionFails
<1>7. ASSUME NEW c \in Clients, Erring!ConnectionData(c) PROVE Served!ConnectionData(c)
  BY <1>7 DEF Erring!ConnectionData, Served!ConnectionData
<1>8. Erring!Request => Served!Request
  BY DEF Erring!Request, Served!Request
<1>9. \A c : Erring!PostError(c) => Served!PostError(c)
  BY DEF Erring!PostError, Served!PostError, Erring!MayReport, Served!MayReport
<1>10. Erring!InvalidRequest => Served!InvalidRequest
  BY <1>9 DEF Erring!InvalidRequest, Served!InvalidRequest
<1>11. Erring!NoMoreRequests => Served!NoMoreRequests
  BY DEF Erring!NoMoreRequests, Served!NoMoreRequests
<1>12. Erring!HandlerReturns => Served!HandlerReturns
  BY DEF Erring!HandlerReturns, Served!HandlerReturns
<1>13. Erring!DataReturns => Served!DataReturns
  BY <1>4 DEF Erring!DataReturns, Served!DataReturns, Erring!EndsClient, Served!EndsClient
<1>14. Erring!Timer => Served!Timer
  BY DEF Erring!Timer, Served!Timer
<1>15. Erring!TimerReturns => Served!TimerReturns
  BY DEF Erring!TimerReturns, Served!TimerReturns
<1>16. Erring!DestroySignalled => Served!DestroySignalled
  BY DEF Erring!DestroySignalled, Served!DestroySignalled
<1>17. Erring!NextResource => Served!NextResource
  <2>1. \A S : Erring!Lowest(S) = Served!Lowest(S)
    BY DEF Erring!Lowest, Served!Lowest
  <2>2. \A c, id : Erring!DestroyResource(c, id) => Served!DestroyResource(c, id)
    BY DEF Erring!DestroyResource, Served!DestroyResource
  <2> QED
    BY <2>1, <2>2 DEF Erring!NextResource, Served!NextResource
<1>18. Erring!AllResourcesDestroyed => Served!AllResourcesDestroyed
  BY DEF Erring!AllResourcesDestroyed, Served!AllResourcesDestroyed
<1>19. Erring!Free => Served!Free
  BY DEF Erring!Free, Served!Free
<1>20. Erring!ResourceSignalled => Served!ResourceSignalled
  BY DEF Erring!ResourceSignalled, Served!ResourceSignalled, Erring!StillSet, Served!StillSet
<1>21. Erring!ResourceRemoved => Served!ResourceRemoved
  BY DEF Erring!ResourceRemoved, Served!ResourceRemoved, Erring!Removed, Served!Removed
<1>22. \A c : Erring!Successor(c) = Served!Successor(c)
  BY DEF Erring!Successor, Served!Successor, Erring!Place, Served!Place
<1>23. Erring!FlushClients => Served!FlushClients
  BY <1>22 DEF Erring!FlushClients, Served!FlushClients
<1>24. Erring!Flushed => Served!Flushed
  BY DEF Erring!Flushed, Served!Flushed
<1>25. Erring!FlushFails => Served!FlushFails
  BY <1>4 DEF Erring!FlushFails, Served!FlushFails
<1>26. Erring!Advance => Served!Advance
  BY <1>22 DEF Erring!Advance, Served!Advance
<1>27. Erring!DestroyClients => Served!DestroyClients
  BY DEF Erring!DestroyClients, Served!DestroyClients, Erring!ToSet, Served!ToSet
<1>28. Erring!DestroyFirst => Served!DestroyFirst
  BY <1>5 DEF Erring!DestroyFirst, Served!DestroyFirst, Erring!NoneLeft, Served!NoneLeft
<1>29. Erring!AllDestroyed => Served!AllDestroyed
  BY DEF Erring!AllDestroyed, Served!AllDestroyed, Erring!NoneLeft, Served!NoneLeft
<1>30. Erring!MayNest => Served!MayNest
  <2>1. Len(stack) \in Nat
    BY FrameTypes
  <2> QED
    BY <1>1, <2>1 DEF Erring!MayNest, Served!MayNest, Erring!InCallback, Served!InCallback
<1>31. ASSUME NEW c \in Clients, Erring!CallDestroy(c) PROVE Served!CallDestroy(c)
  BY <1>5, <1>30, <1>31 DEF Erring!CallDestroy, Served!CallDestroy, Erring!MayDestroy, Served!MayDestroy
<1>32. ASSUME NEW c \in Clients, Erring!CallPostError(c) PROVE Served!CallPostError(c)
  BY <1>9, <1>32 DEF Erring!CallPostError, Served!CallPostError, Erring!InCallback, Served!InCallback
<1>33. ASSUME NEW c \in Clients, NEW id \in {2}, Erring!CallDestroyResource(c, id)
       PROVE  id \in Ids /\ Served!CallDestroyResource(c, id)
  BY <1>1, <1>30, <1>33 DEF Erring!CallDestroyResource, Served!CallDestroyResource,
     Erring!DestroyResource, Served!DestroyResource
<1>34. ASSUME NEW id \in {2}, Erring!CallCreate(id) PROVE id \in Ids /\ Served!CallCreate(id)
  BY <1>1, <1>9, <1>34 DEF Erring!CallCreate, Served!CallCreate
<1> QED
  BY <1>2, <1>3, <1>6, <1>7, <1>8, <1>10, <1>11, <1>12, <1>13, <1>14, <1>15, <1>16, <1>17, <1>18, <1>19, <1>20, <1>21,
     <1>23, <1>24, <1>25, <1>26, <1>27, <1>28, <1>29, <1>31, <1>32, <1>33, <1>34 DEF Erring!Next, Served!Next

\* What a call in progress may rely on follows from how the calls fit together.
LEMMA FitGives ==
  ASSUME Fit
  PROVE  Served!Inv
<1>1. Served!TypeOK /\ Served!FramesFit /\ Served!ListsFit /\ Served!NoPostThroughFreed
  BY DEF Fit
<1>2. \A k : k \in DOMAIN stack <=> k \in 1..Len(stack)
  BY <1>1, FrameTypes
<1>3. Served!CallsHaveClient
  BY <1>1 DEF Served!CallsHaveClient, Served!FramesFit, Served!FrameFits
<1>4. Served!NextStillListed
  BY <1>1 DEF Served!NextStillListed, Served!FramesFit, Served!FrameFits
<1>5. Served!DestroyedOnce
  <2> SUFFICES ASSUME NEW k \in DOMAIN stack
               PROVE  /\ stack[k].call = "resource" => stack[k].id \in objects[stack[k].c]
                      /\ \A j \in DOMAIN stack : (j < k /\ stack[k].call \in {"destroy", "resource"}) =>
                           [stack[j] EXCEPT !.at = stack[k].at] # stack[k]
    BY DEF Served!DestroyedOnce
  <2>1. Served!FrameFits(k)
    BY <1>1 DEF Served!FramesFit
  <2>2. stack[k].call = "resource" => stack[k].id \in objects[stack[k].c]
    BY <2>1 DEF Served!FrameFits
  <2>3. ASSUME NEW j \in DOMAIN stack, j < k, stack[k].call \in {"destroy", "resource"},
               [stack[j] EXCEPT !.at = stack[k].at] = stack[k]
        PROVE  FALSE
    <3>1. j \in 1..(k - 1)
      BY <1>2, <2>3
    <3>2. stack[j] \in Served!Frame /\ stack[k].at \in Served!Points
      BY <1>1, <1>2, FrameTypes
    <3>3. Fields(stack[k], stack[j].call, stack[j].c, stack[k].at, stack[j].id, stack[j].next, stack[j].all)
      <4>1. Fields([stack[j] EXCEPT !.at = stack[k].at], stack[j].call, stack[j].c, stack[k].at, stack[j].id,
              stack[j].next, stack[j].all)
        BY <3>2, MovedFields
      <4> QED
        BY <2>3, <4>1
    <3>4. stack[k].call = stack[j].call /\ stack[k].c = stack[j].c /\ stack[k].id = stack[j].id
      BY <3>3 DEF Fields
    <3>5. CASE stack[k].call = "destroy"
      BY <2>1, <3>1, <3>4, <3>5 DEF Served!FrameFits
    <3>6. CASE stack[k].call = "resource"
      BY <2>1, <3>1, <3>4, <3>6 DEF Served!FrameFits
    <3> QED
      BY <2>3, <3>5, <3>6
  <2> QED
    BY <2>2, <2>3
<1> QED
  BY <1>1, <1>3, <1>4, <1>5 DEF Served!Inv

\* When no client is left to destroy, all of them are freed.
LEMMA AllFreed ==
  ASSUME Fit, Served!AllDestroyed
  PROVE  \A c \in Served!Top.all : state[c] = "freed"
<1>1. Served!TypeOK /\ Served!ListsFit
  BY DEF Fit
<1>2. stack # <<>> /\ Served!Top.call = "destroy_all" /\ tmp_client_list = <<>>
  BY RunningFacts DEF Served!AllDestroyed, Served!NoneLeft
<1>3. PICK l \in Nat, f \in Served!Frame : Inner(l, f) /\ Served!FrameFits(l)
  BY <1>2, InnerFacts
<1>4. stack[l] = f /\ f.call = "destroy_all" /\ l = Len(stack) /\ f = Served!Top /\ f.all \subseteq Clients
  BY <1>2, <1>3 DEF Inner
<1>5. l = 1 /\ client_list = <<>> /\ \A c \in f.all : state[c] # "none"
  BY <1>3, <1>4 DEF Served!FrameFits
<1>6. \A c \in Clients : c \notin Served!ToSet(<<>>)
  BY DEF Served!ToSet
<1>7. ASSUME NEW c \in f.all PROVE state[c] = "freed"
  <2>1. c \in Clients /\ state[c] \in {"none", "linked", "dying", "freed"}
    BY <1>1, <1>4 DEF Served!TypeOK
  <2>2. state[c] # "linked"
    BY <1>1, <1>2, <1>5, <1>6, <2>1 DEF Served!ListsFit
  <2>3. state[c] # "dying"
    <3> SUFFICES ASSUME state[c] = "dying" PROVE FALSE
      OBVIOUS
    <3>1. PICK k \in DOMAIN stack : stack[k].call \in {"destroy", "late"}
      BY <1>1, <2>1 DEF Served!ListsFit
    <3>2. k = 1
      BY <1>1, <1>4, <1>5, FrameTypes
    <3> QED
      BY <1>4, <1>5, <3>1, <3>2
  <2> QED
    BY <1>5, <2>1, <2>2, <2>3
<1> QED
  BY <1>4, <1>7

\* Clients that connect, fail, are flushed and destroyed, with callbacks that destroy
\* clients and resources themselves.
LEMMA ClientsFit == Spec => []Fit
<1>1. Init => Fit
  <2>1. Erring!Init => Served!Init
    BY DEF Erring!Init, Served!Init
  <2>2. Init => Served!Init
    BY <2>1 DEF Init
  <2> QED
    BY <2>2, FitInit
<1>2. Fit /\ [Next]_vars => Fit'
  <2> SUFFICES ASSUME Fit, [Next]_vars PROVE Fit'
    OBVIOUS
  <2>1. CASE UNCHANGED servedVars
    <3>1. UNCHANGED <<state, served_error, display_resource, objects, client_list, tmp_client_list, hung>>
          /\ UNCHANGED stack
      BY <2>1 DEF servedVars
    <3>2. Served!ServerClientsAssumption
      BY MCServerAssumption DEF MCServerAssumption
    <3> QED
      BY <3>1, <3>2, TellsNothing, GoesNowhere
  <2>2. CASE Served!Next
    BY <2>2, FitNext
  <2>3. CASE Erring!Next
    <3>1. Served!TypeOK
      BY DEF Fit
    <3>2. Served!Next
      BY <2>3, <3>1, ErringSteps
    <3> QED
      BY <3>2, FitNext
  <2> QED
    BY <2>1, <2>2, <2>3 DEF Next, Only, vars
<1> QED
  BY <1>1, <1>2, PTL DEF Spec

\* The main loop and the threads that end it, as far as their types go.
LEMMA RunningTyped == Spec => []Running!TypeOK
<1>1. Init => Running!TypeOK
  <2> SUFFICES ASSUME Running!Init PROVE Running!TypeOK
    BY DEF Init
  <2>1. run \in BOOLEAN /\ ready \in BOOLEAN
    BY DEF Running!Init
  <2>2. main \in {"out", "check", "dispatch", "callback", "terminating"}
    BY DEF Running!Init
  <2>3. terminate_efd \in Nat /\ runs \in 0 .. 2
    BY DEF Running!Init
  <2>4. term \in [Threads -> {"out", "write"}] /\ calls \in [Threads -> 0 .. 2]
    BY DEF Running!Init
  <2> QED
    BY <2>1, <2>2, <2>3, <2>4 DEF Running!TypeOK
<1>2. Running!TypeOK /\ [Next]_vars => Running!TypeOK'
  <2> SUFFICES ASSUME Running!TypeOK, [Next]_vars PROVE Running!TypeOK'
    OBVIOUS
  <2>0. /\ run \in BOOLEAN /\ terminate_efd \in Nat /\ ready \in BOOLEAN
        /\ main \in {"out", "check", "dispatch", "callback", "terminating"}
        /\ runs \in 0 .. 2 /\ term \in [Threads -> {"out", "write"}] /\ calls \in [Threads -> 0 .. 2]
    BY DEF Running!TypeOK
  <2>1. CASE UNCHANGED runningVars
    <3>1. UNCHANGED <<run, terminate_efd, main, ready, runs, term, calls>>
      BY <2>1 DEF runningVars
    <3> QED
      BY <2>0, <3>1 DEF Running!TypeOK
  <2>2. CASE Running!Next
    <3>1. CASE Running!Run \/ Running!Check \/ Running!Dispatch \/ Running!DispatchFails
      <4> USE DEF Running!Run, Running!Check, Running!Dispatch, Running!DispatchFails, Running!EfdAfterRead
      <4>1. run' \in BOOLEAN /\ ready' \in BOOLEAN
        BY <2>0, <3>1
      <4>2. main' \in {"out", "check", "dispatch", "callback", "terminating"}
        BY <3>1
      <4>3. terminate_efd' \in Nat /\ runs' \in 0 .. 2
        BY <2>0, <3>1
      <4>4. UNCHANGED <<term, calls>>
        BY <3>1
      <4> QED
        BY <2>0, <4>1, <4>2, <4>3, <4>4 DEF Running!TypeOK
    <3>2. CASE Running!CallbackReturns \/ Running!CallbackClears \/ Running!CallbackWrites \/ Running!SourceReady
      <4> USE DEF Running!CallbackReturns, Running!CallbackClears, Running!CallbackWrites, Running!SourceReady
      <4>1. run' \in BOOLEAN /\ ready' \in BOOLEAN
        BY <2>0, <3>2
      <4>2. main' \in {"out", "check", "dispatch", "callback", "terminating"}
        BY <2>0, <3>2
      <4>3. terminate_efd' \in Nat
        BY <2>0, <3>2
      <4>4. UNCHANGED <<runs, term, calls>>
        BY <3>2
      <4> QED
        BY <2>0, <4>1, <4>2, <4>3, <4>4 DEF Running!TypeOK
    <3>3. ASSUME NEW t \in Threads, Running!ClearRun(t) PROVE Running!TypeOK'
      <4>1. calls[t] + 1 \in 0 .. 2
        BY <2>0, <3>3 DEF Running!ClearRun
      <4>2. calls' \in [Threads -> 0 .. 2] /\ term' \in [Threads -> {"out", "write"}]
        BY <2>0, <3>3, <4>1 DEF Running!ClearRun
      <4>3. run' \in BOOLEAN /\ UNCHANGED <<terminate_efd, main, ready, runs>>
        BY <3>3 DEF Running!ClearRun
      <4> QED
        BY <2>0, <4>2, <4>3 DEF Running!TypeOK
    <3>4. ASSUME NEW t \in Threads, Running!WriteEfd(t) PROVE Running!TypeOK'
      <4>1. /\ terminate_efd' \in Nat /\ term' \in [Threads -> {"out", "write"}]
            /\ UNCHANGED <<run, main, ready, runs, calls>>
        BY <2>0, <3>4 DEF Running!WriteEfd
      <4> QED
        BY <2>0, <4>1 DEF Running!TypeOK
    <3> QED
      BY <2>2, <3>1, <3>2, <3>3, <3>4 DEF Running!Next
  <2> QED
    BY <2>1, <2>2 DEF Next, Only, vars
<1> QED
  BY <1>1, <1>2, PTL DEF Spec

\* What the suite checks of shared memory holds in it, for every set of threads and pools
\* under the guard, and for every set of buffers, size and request of a pool.
THEOREM MemoryHolds == Spec => []MemorySound
<1>1. Spec => [](Guard!Inv /\ Guard!FaultTold)
  BY GuardRuns, GuardHolds, MCServerAssumption, PTL DEF MCServerAssumption
<1>2. Spec => []Pool!Inv
  BY PoolRuns, PoolHolds, MCServerAssumption, PTL DEF MCServerAssumption
<1> QED
  BY <1>1, <1>2, PTL DEF MemorySound

\* What the suite checks of sockets and their locks holds in it.
THEOREM SocketHolds == Spec => []SocketSound
BY LockPart, NumberedPart, OrderlyPart, PTL DEF SocketSound

\* What the suite checks of globals holds in it, for all clients, interfaces, filters and
\* lengths of the streams.
THEOREM GlobalsHold == Spec => []GlobalsSound
<1>1. Registry!Inv => GlobalsSound
  BY BelievedMentioned DEF GlobalsSound
<1> QED
  BY <1>1, RegistryHolds, PTL

\* No client that binds what it was told of is refused while globals are destroyed only
\* when all have seen their removal.
THEOREM GoodHold == Spec => Registry!GoodNeverRefused
<1>1. Registry!Inv /\ [Registry!Next]_(Registry!vars) =>
        [\A c \in GoodClients : patient /\ Registry!RegistryBind(c) => client'[c] = "alive"]_(Registry!vars)
  BY GoodBinds, MCServerAssumption DEF MCServerAssumption, Registry!GlobalsAssumption
<1> QED
  BY <1>1, RegistryHolds, RegistryRuns, PTL DEF Registry!Spec, Registry!GoodNeverRefused

\* What the suite checks of clients holds in it, for all clients, resources and depths of
\* calls.
THEOREM ClientsHold == Spec => []ClientsSound
<1>1. Fit => Served!Inv
  BY FitGives
<1> QED
  BY <1>1, ClientsFit, RunningTyped, PTL DEF ClientsSound

\* wl_display_destroy_clients leaves no client of those it was called for.
THEOREM AllHold == Spec => Served!AllAreDestroyed
<1>1. Fit => [Served!AllDestroyed => \A c \in Served!Top.all : state[c] = "freed"]_(Served!vars)
  BY AllFreed
<1> QED
  BY <1>1, ClientsFit, PTL DEF Served!AllAreDestroyed

\* What the suite checks of the steps of the server holds in it.
THEOREM ServerStepsHold == Spec => ServerSteps
BY GoodHold, AllHold, PTL DEF ServerSteps
==============================================================================
