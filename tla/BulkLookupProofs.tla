-------------------------- MODULE BulkLookupProofs --------------------------
(***************************************************************************)
(* Proofs about BulkLookup and the window of BulkSession for any set of    *)
(* runs, any finite set of domains and any concurrency: the accounting of  *)
(* permits and progress, that a Stop holds, that the engine is a pool and  *)
(* that the pause button tells the truth.                                  *)
(***************************************************************************)
EXTENDS BulkSession, FiniteSetTheorems, TLAPS

\* A run that has not spawned its tasks has none, no task is outside work, and
\* a run works with a concurrency some caller asked for.
TasksMatchWork ==
  /\ \A r \in Run : phase[r] # "idle" => limit[r] \in Concurrency
  /\ \A r \in Run : phase[r] \in {"idle", "starting"} =>
       \A d \in Domain : at[r][d] = "none"
  /\ \A r \in Run : \A d \in Domain : d \notin work[r] => at[r][d] = "none"

\* The mutex of sent_counter: at most one task of a run is emitting.
OneEmits ==
  \A r \in Run : \A d, e \in Domain :
    at[r][d] = "emit" /\ at[r][e] = "emit" => d = e

\* Tasks are barred only while the flag that bars them is up.
BarredByFlag == \A r \in Run : barred[r] # {} => stopped

\* The inductive invariant.
IInv ==
  /\ TypeOK
  /\ TasksMatchWork
  /\ OneEmits
  /\ BarredByFlag
  /\ StopHolds
  /\ PermitsConserved
  /\ ProgressMatchesLookups

----------------------------------------------------------------------------
\* The domains whose task stands at one of the places of S.
AtPlaces(f, S) == {x \in Domain : f[x] \in S}

\* Moving one task changes the number of tasks at the places of S by one when
\* it enters or leaves S and not at all otherwise.
LEMMA OneMove ==
  ASSUME NEW f \in [Domain -> Place], NEW d \in Domain, NEW to \in Place, NEW S
  PROVE  LET g == [f EXCEPT ![d] = to]
             before == Cardinality(AtPlaces(f, S))
             after  == Cardinality(AtPlaces(g, S))
         IN /\ before \in Nat /\ after \in Nat
            /\ (f[d] \in S <=> to \in S) => after = before
            /\ (f[d] \notin S /\ to \in S) => after = before + 1
            /\ (f[d] \in S /\ to \notin S) => after = before - 1
<1> DEFINE g == [f EXCEPT ![d] = to]
<1>1. IsFiniteSet(AtPlaces(f, S)) /\ IsFiniteSet(AtPlaces(g, S))
  BY BulkAssumption, FS_Subset DEF AtPlaces
<1>2. Cardinality(AtPlaces(f, S)) \in Nat /\ Cardinality(AtPlaces(g, S)) \in Nat
  BY <1>1, FS_CardinalityType
<1>3. CASE f[d] \in S <=> to \in S
  <2>1. AtPlaces(g, S) = AtPlaces(f, S)
    BY <1>3 DEF AtPlaces
  <2> QED BY <1>2, <1>3, <2>1
<1>4. CASE f[d] \notin S /\ to \in S
  <2>1. AtPlaces(g, S) = AtPlaces(f, S) \cup {d} /\ d \notin AtPlaces(f, S)
    BY <1>4 DEF AtPlaces
  <2>2. Cardinality(AtPlaces(g, S)) = Cardinality(AtPlaces(f, S)) + 1
    BY <1>1, <2>1, FS_AddElement
  <2> QED BY <1>2, <1>4, <2>2
<1>5. CASE f[d] \in S /\ to \notin S
  <2>1. AtPlaces(g, S) = AtPlaces(f, S) \ {d} /\ d \in AtPlaces(f, S)
    BY <1>5 DEF AtPlaces
  <2>2. Cardinality(AtPlaces(g, S)) = Cardinality(AtPlaces(f, S)) - 1
    BY <1>1, <2>1, FS_RemoveElement
  <2> QED BY <1>2, <1>5, <2>2
<1> QED BY <1>3, <1>4, <1>5

\* What moving one task does to at.
LEMMA MoveEffect ==
  ASSUME TypeOK, NEW r \in Run, NEW d \in Domain, NEW to \in Place,
         at' = [at EXCEPT ![r][d] = to]
  PROVE  /\ at' \in [Run -> [Domain -> Place]]
         /\ at'[r] = [at[r] EXCEPT ![d] = to]
         /\ \A q \in Run : q # r => at'[q] = at[q]
         /\ \A q \in Run, e \in Domain :
              at'[q][e] = IF q = r /\ e = d THEN to ELSE at[q][e]
BY DEF TypeOK

\* Moving one task keeps the accounts when the permits and the counters change
\* by what the move takes or gives: a permit when it enters or leaves a place
\* that holds one, sent when it becomes counted, shown when it has emitted.
LEMMA MoveKeepsAccounts ==
  ASSUME TypeOK, PermitsConserved, ProgressMatchesLookups,
         NEW r \in Run, NEW d \in Domain, NEW to \in Place,
         at' = [at EXCEPT ![r][d] = to],
         UNCHANGED <<phase, limit>>,
         permits' \in [Run -> Nat], sent' \in [Run -> Nat], shown' \in [Run -> Nat],
         \A q \in Run : q # r => /\ permits'[q] = permits[q]
                                 /\ sent'[q] = sent[q]
                                 /\ shown'[q] = shown[q],
         permits'[r] = IF at[r][d] \in HoldsPermit /\ to \notin HoldsPermit THEN permits[r] + 1
                       ELSE IF at[r][d] \notin HoldsPermit /\ to \in HoldsPermit THEN permits[r] - 1
                       ELSE permits[r],
         at[r][d] # "done",
         to = "done" <=> at[r][d] = "emit",
         sent'[r] = IF to = "emit" THEN sent[r] + 1 ELSE sent[r],
         shown'[r] = IF to = "done" THEN shown[r] + 1 ELSE shown[r]
  PROVE  PermitsConserved' /\ ProgressMatchesLookups'
<1> DEFINE N(S) == Cardinality(AtPlaces(at[r], S))
           M(S) == Cardinality(AtPlaces(at'[r], S))
<1>1. /\ at'[r] = [at[r] EXCEPT ![d] = to]
      /\ \A q \in Run : q # r => at'[q] = at[q]
  BY MoveEffect
<1>2. at[r] \in [Domain -> Place]
  BY DEF TypeOK
<1>3. \A S : /\ N(S) \in Nat /\ M(S) \in Nat
             /\ (at[r][d] \in S <=> to \in S) => M(S) = N(S)
             /\ (at[r][d] \notin S /\ to \in S) => M(S) = N(S) + 1
             /\ (at[r][d] \in S /\ to \notin S) => M(S) = N(S) - 1
  BY <1>1, <1>2, OneMove
<1>4. PermitsConserved'
  <2> SUFFICES ASSUME NEW q \in Run, phase'[q] \in {"running", "returned"}
               PROVE  permits'[q] + Cardinality(Holding(q)') = limit'[q]
    BY DEF PermitsConserved
  <2>1. permits[q] + Cardinality(Holding(q)) = limit[q]
    BY DEF PermitsConserved
  <2>2. CASE q # r
    BY <2>1, <2>2, <1>1 DEF Holding
  <2>3. CASE q = r
    <3>1. Holding(r) = AtPlaces(at[r], HoldsPermit) /\ Holding(r)' = AtPlaces(at'[r], HoldsPermit)
      BY DEF Holding, AtPlaces
    <3>2. permits[r] \in Nat /\ limit[r] \in Nat
      BY DEF TypeOK
    <3>3. permits[r] + N(HoldsPermit) = limit[r]
      BY <2>1, <2>3, <3>1
    <3>4. permits'[r] + M(HoldsPermit) = limit[r]
      <4>1. /\ N(HoldsPermit) \in Nat /\ M(HoldsPermit) \in Nat
            /\ (at[r][d] \in HoldsPermit <=> to \in HoldsPermit) => M(HoldsPermit) = N(HoldsPermit)
            /\ (at[r][d] \notin HoldsPermit /\ to \in HoldsPermit) => M(HoldsPermit) = N(HoldsPermit) + 1
            /\ (at[r][d] \in HoldsPermit /\ to \notin HoldsPermit) => M(HoldsPermit) = N(HoldsPermit) - 1
        BY <1>3
      <4> HIDE DEF N, M
      <4> QED BY <4>1, <3>2, <3>3
    <3> QED BY <2>3, <3>1, <3>4
  <2> QED BY <2>2, <2>3
<1>5. ProgressMatchesLookups'
  <2> SUFFICES ASSUME NEW q \in Run
               PROVE  /\ sent'[q] = Cardinality(Counted(q)')
                      /\ shown'[q] + Cardinality({e \in Domain : at'[q][e] = "emit"}) = sent'[q]
    BY DEF ProgressMatchesLookups
  <2>1. /\ sent[q] = Cardinality(Counted(q))
        /\ shown[q] + Cardinality({e \in Domain : at[q][e] = "emit"}) = sent[q]
    BY DEF ProgressMatchesLookups
  <2>2. CASE q # r
    BY <2>1, <2>2, <1>1 DEF Counted
  <2>3. CASE q = r
    <3>1. /\ Counted(r) = AtPlaces(at[r], {"emit", "done"})
          /\ Counted(r)' = AtPlaces(at'[r], {"emit", "done"})
          /\ {e \in Domain : at[r][e] = "emit"} = AtPlaces(at[r], {"emit"})
          /\ {e \in Domain : at'[r][e] = "emit"} = AtPlaces(at'[r], {"emit"})
      BY DEF Counted, AtPlaces
    <3>2. sent[r] \in Nat /\ shown[r] \in Nat
      BY DEF TypeOK
    <3>3. M({"emit", "done"}) = sent'[r]
      <4>1. sent[r] = N({"emit", "done"})
        BY <2>1, <2>3, <3>1
      <4>2. CASE at[r][d] = "emit"
        BY <1>3, <3>2, <4>1, <4>2
      <4>3. CASE at[r][d] # "emit" /\ to = "emit"
        <5>1. M({"emit", "done"}) = N({"emit", "done"}) + 1
          BY <1>3, <4>3
        <5> QED BY <4>1, <4>3, <5>1
      <4>4. CASE at[r][d] # "emit" /\ to # "emit"
        <5>1. M({"emit", "done"}) = N({"emit", "done"})
          BY <1>3, <4>4
        <5> QED BY <4>1, <4>4, <5>1
      <4> QED BY <4>2, <4>3, <4>4
    <3>4. shown'[r] + M({"emit"}) = sent'[r]
      <4>1. N({"emit"}) \in Nat /\ M({"emit"}) \in Nat /\ shown[r] + N({"emit"}) = sent[r]
        BY <1>3, <2>1, <2>3, <3>1
      <4>2. CASE at[r][d] = "emit"
        <5>1. to = "done"
          BY <4>2
        <5>2. M({"emit"}) = N({"emit"}) - 1
          BY <1>3, <4>2, <5>1
        <5> QED BY <3>2, <4>1, <4>2, <5>1, <5>2
      <4>3. CASE at[r][d] # "emit" /\ to = "emit"
        <5>1. M({"emit"}) = N({"emit"}) + 1
          BY <1>3, <4>3
        <5> QED BY <3>2, <4>1, <4>3, <5>1
      <4>4. CASE at[r][d] # "emit" /\ to # "emit"
        <5>1. M({"emit"}) = N({"emit"})
          BY <1>3, <4>4
        <5> QED BY <3>2, <4>1, <4>4, <5>1
      <4> QED BY <4>2, <4>3, <4>4
    <3> QED BY <2>3, <3>1, <3>3, <3>4
  <2> QED BY <2>2, <2>3
<1> QED BY <1>4, <1>5
----------------------------------------------------------------------------
LEMMA TypeInit == Init => TypeOK
<1> SUFFICES ASSUME Init PROVE TypeOK
  OBVIOUS
<1>1. "idle" \in Phase /\ "none" \in Place /\ {} \in SUBSET Domain /\ 0 \in Nat
  BY DEF Phase, Place
<1> QED BY <1>1 DEF Init, TypeOK

LEMMA TypeStep ==
  ASSUME TypeOK, [Next]_vars
  PROVE  TypeOK'
<1> USE DEF TypeOK, Phase, Place
<1>1. ASSUME NEW r \in Run, NEW W \in SUBSET Domain, NEW n \in Concurrency, Start(r, W, n)
      PROVE  TypeOK'
  BY <1>1, BulkAssumption DEF Start
<1>2. ASSUME NEW r \in Run, Spawn(r) PROVE TypeOK'
  BY <1>2 DEF Spawn, shared
<1>3. ASSUME NEW r \in Run, Return(r) PROVE TypeOK'
  BY <1>3 DEF Return, shared
<1>4. ASSUME NEW r \in Run, NEW d \in Domain, Task(r, d) PROVE TypeOK'
  <2>1. CASE FirstCheck(r, d)
    BY <2>1 DEF FirstCheck, Moves, shared, callVars
  <2>2. CASE PassGate(r, d)
    BY <2>2 DEF PassGate, Moves, shared, callVars
  <2>3. CASE Acquire(r, d)
    BY <2>3 DEF Acquire, Moves, shared, callVars
  <2>4. CASE LookupReturns(r, d)
    BY <2>4 DEF LookupReturns, Moves, shared, callVars
  <2>5. CASE LookupPanics(r, d)
    BY <2>5 DEF LookupPanics, Moves, shared, callVars
  <2>6. CASE Count(r, d)
    BY <2>6 DEF Count, shared, callVars
  <2>7. CASE Emit(r, d)
    BY <2>7 DEF Emit, shared, callVars
  <2> QED BY <1>4, <2>1, <2>2, <2>3, <2>4, <2>5, <2>6, <2>7 DEF Task
<1>5. CASE Pause
  BY <1>5 DEF Pause, callVars
<1>6. CASE Continue
  BY <1>6 DEF Continue, callVars
<1>7. CASE Stop
  BY <1>7 DEF Stop, callVars, StillOutside
<1>8. CASE UNCHANGED vars
  BY <1>8 DEF vars
<1> QED BY <1>1, <1>2, <1>3, <1>4, <1>5, <1>6, <1>7, <1>8 DEF Next

\* Every variable of the engine keeps its type.
THEOREM TypeCorrect == Spec => []TypeOK
<1>1. TypeOK /\ [Next]_vars => TypeOK'
  BY TypeStep
<1> QED BY TypeInit, <1>1, PTL DEF Spec

\* A task never leaves the places a barred task may be at while it is barred,
\* and no step of a task touches what the other parts of IInv speak of.
LEMMA TaskStep ==
  ASSUME IInv, TypeOK', NEW r \in Run, NEW d \in Domain, Task(r, d)
  PROVE  IInv'
<1> USE DEF IInv
<1>1. /\ d \in work[r] /\ phase[r] \notin {"idle", "starting"}
      /\ UNCHANGED <<phase, work, limit, stopped, barred>>
  BY DEF Task, FirstCheck, PassGate, Acquire, LookupReturns, LookupPanics, Count, Emit, Moves,
         TasksMatchWork, shared, callVars
<1>2. PICK to \in Place \ {"none"} : at' = [at EXCEPT ![r][d] = to]
  BY DEF Task, FirstCheck, PassGate, Acquire, LookupReturns, LookupPanics, Count, Emit, Moves, Place
<1>3. \A q \in Run, e \in Domain : at'[q][e] = IF q = r /\ e = d THEN to ELSE at[q][e]
  BY <1>2, MoveEffect
<1>4. TasksMatchWork'
  BY <1>1, <1>3 DEF TasksMatchWork
<1>5. OneEmits'
  <2>1. to = "emit" => \A e \in Domain : at[r][e] # "emit"
    BY <1>2, <1>3 DEF Task, FirstCheck, PassGate, Acquire, LookupReturns, LookupPanics, Count, Emit, Moves, TypeOK
  <2> QED BY <1>3, <2>1 DEF OneEmits
<1>6. BarredByFlag'
  BY <1>1 DEF BarredByFlag
<1>7. StopHolds'
  <2> SUFFICES ASSUME NEW q \in Run, NEW e \in barred[q]
               PROVE  at'[q][e] \in NotQueuedYet \cup {"refused"}
    BY <1>1 DEF StopHolds
  <2>1. stopped /\ e \in Domain /\ at[q][e] \in NotQueuedYet \cup {"refused"}
    BY DEF BarredByFlag, StopHolds, TypeOK
  <2>2. CASE q = r /\ e = d
    BY <1>3, <2>1, <2>2 DEF Task, FirstCheck, PassGate, Acquire, LookupReturns, LookupPanics, Count,
       Emit, Moves, NotQueuedYet, TypeOK
  <2> QED BY <1>3, <2>1, <2>2
<1>8. PermitsConserved' /\ ProgressMatchesLookups'
  <2> USE DEF TypeOK, Moves, shared, callVars, HoldsPermit, Place
  <2>1. CASE FirstCheck(r, d)
    BY <2>1, MoveKeepsAccounts DEF FirstCheck
  <2>2. CASE PassGate(r, d)
    BY <2>2, MoveKeepsAccounts DEF PassGate
  <2>3. CASE Acquire(r, d)
    BY <2>3, MoveKeepsAccounts DEF Acquire
  <2>4. CASE LookupReturns(r, d)
    BY <2>4, MoveKeepsAccounts DEF LookupReturns
  <2>5. CASE LookupPanics(r, d)
    BY <2>5, MoveKeepsAccounts DEF LookupPanics
  <2>6. CASE Count(r, d)
    BY <2>6, MoveKeepsAccounts DEF Count
  <2>7. CASE Emit(r, d)
    <3>1. {e \in Domain : at[r][e] = "emit"} = {d}
      BY <2>7 DEF Emit, OneEmits
    <3>2. sent[r] = shown[r] + 1
      BY <3>1, FS_Singleton DEF ProgressMatchesLookups
    <3> QED BY <2>7, <3>2, MoveKeepsAccounts DEF Emit
  <2> QED BY <2>1, <2>2, <2>3, <2>4, <2>5, <2>6, <2>7 DEF Task
<1> QED BY <1>4, <1>5, <1>6, <1>7, <1>8

\* The steps of a call and of the three commands.
LEMMA CallStep ==
  ASSUME IInv, TypeOK', NEW r \in Run,
         (\E W \in SUBSET Domain, n \in Concurrency : Start(r, W, n)) \/ Spawn(r) \/ Return(r)
  PROVE  IInv'
<1> USE DEF IInv
<1>1. ASSUME NEW W \in SUBSET Domain, NEW n \in Concurrency, Start(r, W, n) PROVE IInv'
  <2>1. /\ \A q \in Run : phase'[q] \in {"running", "returned"} =>
              /\ phase[q] \in {"running", "returned"}
              /\ limit'[q] = limit[q]
        /\ UNCHANGED <<permits, at, sent, shown>>
        /\ barred' = [q \in Run |-> {}]
    BY <1>1 DEF Start, TypeOK
  <2>2. TasksMatchWork'
    BY <1>1 DEF Start, TasksMatchWork, TypeOK
  <2>3. OneEmits' /\ BarredByFlag' /\ StopHolds'
    BY <2>1 DEF OneEmits, BarredByFlag, StopHolds
  <2>4. PermitsConserved'
    BY <2>1 DEF PermitsConserved, Holding
  <2>5. ProgressMatchesLookups'
    BY <2>1 DEF ProgressMatchesLookups, Counted
  <2> QED BY <2>2, <2>3, <2>4, <2>5
<1>2. CASE Spawn(r)
  <2>1. /\ UNCHANGED <<stopped, work, limit, sent, shown, barred>>
        /\ permits'[r] = limit[r]
        /\ \A q \in Run : q # r => /\ phase'[q] = phase[q]
                                   /\ permits'[q] = permits[q]
                                   /\ at'[q] = at[q]
        /\ \A e \in Domain : at[r][e] = "none"
        /\ \A e \in Domain : at'[r][e] = IF e \in work[r] THEN "spawned" ELSE "none"
    BY <1>2 DEF Spawn, TasksMatchWork, TypeOK, shared
  <2>2. TasksMatchWork'
    <3>1. phase'[r] = "running" /\ limit[r] \in Concurrency
      BY <1>2 DEF Spawn, TypeOK, TasksMatchWork
    <3> QED BY <2>1, <3>1 DEF TasksMatchWork
  <2>3. OneEmits'
    BY <2>1 DEF OneEmits
  <2>4. BarredByFlag'
    BY <2>1 DEF BarredByFlag
  <2>5. StopHolds'
    BY <2>1 DEF StopHolds, NotQueuedYet, TypeOK
  <2>6. PermitsConserved'
    <3>1. Holding(r)' = {}
      BY <2>1 DEF Holding, HoldsPermit
    <3>2. Cardinality(Holding(r)') = 0
      BY <3>1, FS_EmptySet
    <3>3. limit'[r] = limit[r] /\ limit[r] \in Nat
      BY <2>1 DEF TypeOK
    <3>4. permits'[r] + Cardinality(Holding(r)') = limit'[r]
      BY <2>1, <3>2, <3>3
    <3>5. ASSUME NEW q \in Run, q # r, phase'[q] \in {"running", "returned"}
          PROVE  permits'[q] + Cardinality(Holding(q)') = limit'[q]
      <4>1. Holding(q)' = Holding(q)
        BY <2>1, <3>5 DEF Holding
      <4>2. permits[q] + Cardinality(Holding(q)) = limit[q]
        BY <2>1, <3>5 DEF PermitsConserved
      <4> QED BY <2>1, <3>5, <4>1, <4>2
    <3> QED BY <3>4, <3>5 DEF PermitsConserved
  <2>7. ProgressMatchesLookups'
    <3> SUFFICES ASSUME NEW q \in Run
                 PROVE  /\ sent'[q] = Cardinality(Counted(q)')
                        /\ shown'[q] + Cardinality({e \in Domain : at'[q][e] = "emit"}) = sent'[q]
      BY DEF ProgressMatchesLookups
    <3>1. /\ Counted(q)' = Counted(q)
          /\ {e \in Domain : at'[q][e] = "emit"} = {e \in Domain : at[q][e] = "emit"}
      BY <2>1 DEF Counted
    <3> QED BY <2>1, <3>1 DEF ProgressMatchesLookups
  <2> QED BY <2>2, <2>3, <2>4, <2>5, <2>6, <2>7
<1>3. CASE Return(r)
  <2>1. /\ UNCHANGED <<shared, work, limit, permits, at, sent, shown, barred>>
        /\ \A q \in Run : /\ phase'[q] \in {"running", "returned"} => phase[q] \in {"running", "returned"}
                          /\ phase'[q] \in {"idle", "starting"} => phase[q] \in {"idle", "starting"}
                          /\ phase'[q] # "idle" => phase[q] # "idle"
    BY <1>3 DEF Return, TypeOK
  <2>2. TasksMatchWork' /\ OneEmits' /\ BarredByFlag' /\ StopHolds'
    BY <2>1 DEF TasksMatchWork, OneEmits, BarredByFlag, StopHolds, shared
  <2>3. PermitsConserved'
    BY <2>1 DEF PermitsConserved, Holding
  <2>4. ProgressMatchesLookups'
    BY <2>1 DEF ProgressMatchesLookups, Counted
  <2> QED BY <2>2, <2>3, <2>4
<1> QED BY <1>1, <1>2, <1>3

LEMMA CommandStep ==
  ASSUME IInv, TypeOK', Pause \/ Continue \/ Stop \/ UNCHANGED vars
  PROVE  IInv'
<1> USE DEF IInv
<1>1. UNCHANGED <<phase, work, limit, permits, at, sent, shown>>
  BY DEF Pause, Continue, Stop, vars, callVars
<1>2. TasksMatchWork' /\ OneEmits'
  BY <1>1 DEF TasksMatchWork, OneEmits
<1>3. PermitsConserved'
  BY <1>1 DEF PermitsConserved, Holding
<1>4. ProgressMatchesLookups'
  BY <1>1 DEF ProgressMatchesLookups, Counted
<1>5. BarredByFlag' /\ StopHolds'
  <2>1. CASE Stop
    BY <1>1, <2>1 DEF Stop, StillOutside, BarredByFlag, StopHolds
  <2>2. CASE UNCHANGED <<stopped, barred>>
    BY <1>1, <2>2 DEF BarredByFlag, StopHolds
  <2> QED BY <2>1, <2>2 DEF Pause, Continue, vars
<1> QED BY <1>2, <1>3, <1>4, <1>5

LEMMA InvInit == Init => IInv
<1> SUFFICES ASSUME Init PROVE IInv
  OBVIOUS
<1>1. TypeOK
  BY TypeInit
<1>2. TasksMatchWork /\ OneEmits /\ BarredByFlag /\ StopHolds /\ PermitsConserved
  BY DEF Init, TasksMatchWork, OneEmits, BarredByFlag, StopHolds, PermitsConserved
<1>3. ProgressMatchesLookups
  <2> SUFFICES ASSUME NEW r \in Run
               PROVE  /\ sent[r] = Cardinality(Counted(r))
                      /\ shown[r] + Cardinality({d \in Domain : at[r][d] = "emit"}) = sent[r]
    BY DEF ProgressMatchesLookups
  <2>1. Counted(r) = {} /\ {d \in Domain : at[r][d] = "emit"} = {}
    BY DEF Init, Counted
  <2>2. sent[r] = 0 /\ shown[r] = 0 /\ Cardinality({}) = 0
    BY FS_EmptySet DEF Init
  <2> QED BY <2>1, <2>2
<1> QED BY <1>1, <1>2, <1>3 DEF IInv

LEMMA InvStep ==
  ASSUME IInv, [Next]_vars
  PROVE  IInv'
<1>1. TypeOK'
  BY TypeStep DEF IInv
<1> QED BY <1>1, TaskStep, CallStep, CommandStep DEF Next

\* The invariant that makes the accounting inductive: who is counted follows
\* from where the tasks stand, and bars are up only while the flag is.
THEOREM InvariantHolds == Spec => []IInv
<1>1. IInv /\ [Next]_vars => IInv'
  BY InvStep
<1> QED BY InvInit, <1>1, PTL DEF Spec

\* Permits are conserved for any number of tasks, panicking or not.
THEOREM PermitsAlwaysConserved == Spec => []PermitsConserved
<1>1. IInv => PermitsConserved
  BY DEF IInv
<1> QED BY InvariantHolds, <1>1, PTL

\* The counter and the last event agree with the tasks that finished a lookup.
THEOREM ProgressAlwaysMatches == Spec => []ProgressMatchesLookups
<1>1. IInv => ProgressMatchesLookups
  BY DEF IInv
<1> QED BY InvariantHolds, <1>1, PTL

\* A task caught by a Stop never reaches a server.
THEOREM StopAlwaysHolds == Spec => []StopHolds
<1>1. IInv => StopHolds
  BY DEF IInv
<1> QED BY InvariantHolds, <1>1, PTL

\* The progress events of a run come in order, one at a time.
THEOREM ProgressAlwaysInOrder == Spec => ProgressInOrder
<1>1. IInv /\ [Next]_vars => [\A r \in Run : shown'[r] \in {shown[r], shown[r] + 1}]_vars
  <2> SUFFICES ASSUME IInv, [Next]_vars, NEW q \in Run
               PROVE  shown'[q] \in {shown[q], shown[q] + 1}
    OBVIOUS
  <2>1. CASE UNCHANGED shown
    BY <2>1
  <2>2. ASSUME NEW r \in Run, NEW d \in Domain, Emit(r, d)
        PROVE  shown'[q] \in {shown[q], shown[q] + 1}
    <3>1. {e \in Domain : at[r][e] = "emit"} = {d}
      BY <2>2 DEF Emit, IInv, OneEmits
    <3>2. sent[r] = shown[r] + 1
      BY <3>1, FS_Singleton DEF IInv, ProgressMatchesLookups
    <3> QED BY <2>2, <3>2 DEF Emit, IInv, TypeOK
  <2>3. UNCHANGED shown \/ \E r \in Run, d \in Domain : Emit(r, d)
    BY DEF Next, vars, Start, Spawn, Return, Task, FirstCheck, PassGate, Acquire, LookupReturns,
       LookupPanics, Count, Moves, Pause, Continue, Stop
  <2> QED BY <2>1, <2>2, <2>3
<1> QED BY <1>1, InvariantHolds, PTL DEF Spec, ProgressInOrder
----------------------------------------------------------------------------
\* The abstraction of each place, and of a call's phase.
LEMMA Outcomes ==
  /\ OutcomeAt("none") = "none"
  /\ \A p \in {"spawned", "gate", "queued"} : OutcomeAt(p) = "waiting"
  /\ \A p \in HoldsPermit : OutcomeAt(p) = "active"
  /\ OutcomeAt("done") = "answered"
  /\ OutcomeAt("refused") = "refused"
  /\ OutcomeAt("panicked") = "lost"
  /\ StatusOf("idle") = "new" /\ StatusOf("starting") = "new"
  /\ StatusOf("running") = "open" /\ StatusOf("returned") = "closed"
BY DEF OutcomeAt, StatusOf, HoldsPermit

\* The abstraction of one task's move.
LEMMA MoveMapped ==
  ASSUME TypeOK, NEW r \in Run, NEW d \in Domain, NEW to \in Place,
         at' = [at EXCEPT ![r][d] = to]
  PROVE  [q \in Run |-> [e \in Domain |-> OutcomeAt(at'[q][e])]]
           = [[q \in Run |-> [e \in Domain |-> OutcomeAt(at[q][e])]] EXCEPT ![r][d] = OutcomeAt(to)]
<1> DEFINE F == [q \in Run |-> [e \in Domain |-> OutcomeAt(at[q][e])]]
<1>1. [F EXCEPT ![r][d] = OutcomeAt(to)]
        = [q \in Run |-> [e \in Domain |-> IF q = r /\ e = d THEN OutcomeAt(to) ELSE OutcomeAt(at[q][e])]]
  OBVIOUS
<1>2. \A q \in Run, e \in Domain :
        OutcomeAt(at'[q][e]) = IF q = r /\ e = d THEN OutcomeAt(to) ELSE OutcomeAt(at[q][e])
  BY MoveEffect
<1> QED BY <1>1, <1>2

\* Every step of the engine is a step of the pool or none the caller can see.
LEMMA PoolStep ==
  ASSUME IInv, [Next]_vars
  PROVE  [Pool!Next]_(Pool!vars)
<1> DEFINE oc == [q \in Run |-> [e \in Domain |-> OutcomeAt(at[q][e])]]
           st == [q \in Run |-> StatusOf(phase[q])]
           cp == [q \in Run |-> IF StatusOf(phase[q]) = "new" THEN 0 ELSE limit[q]]
<1> USE DEF IInv
<1>1. ASSUME NEW r \in Run, NEW W \in SUBSET Domain, NEW n \in Concurrency, Start(r, W, n)
      PROVE  UNCHANGED Pool!vars
  <2>1. UNCHANGED at
    BY <1>1 DEF Start
  <2>2. \A q \in Run : StatusOf(phase'[q]) = StatusOf(phase[q])
    <3>1. \A q \in Run : phase'[q] = IF q = r THEN "starting" ELSE phase[q]
      BY <1>1 DEF Start, TypeOK
    <3>2. phase[r] = "idle"
      BY <1>1 DEF Start
    <3>3. StatusOf("starting") = "new" /\ StatusOf("idle") = "new"
      BY DEF StatusOf
    <3> QED BY <3>1, <3>2, <3>3
  <2>3. cp' = cp
    <3>1. \A q \in Run : q # r => limit'[q] = limit[q]
      BY <1>1 DEF Start, TypeOK
    <3>2. StatusOf(phase[r]) = "new"
      BY <1>1 DEF Start, StatusOf
    <3> QED BY <2>2, <3>1, <3>2
  <2> QED BY <2>1, <2>2, <2>3 DEF Pool!vars
<1>2. ASSUME NEW r \in Run, Spawn(r)
      PROVE  Pool!Next
  <2>1. st[r] = "new" /\ st' = [st EXCEPT ![r] = "open"]
    BY <1>2 DEF Spawn, StatusOf, TypeOK, Phase
  <2>2. cp' = [cp EXCEPT ![r] = limit[r]]
    BY <1>2 DEF Spawn, StatusOf, TypeOK, Phase
  <2>3. oc' = [oc EXCEPT ![r] = [e \in Domain |-> IF e \in work[r] THEN "waiting" ELSE "none"]]
    <3>1. \A q \in Run, e \in Domain :
            at'[q][e] = IF q = r THEN IF e \in work[r] THEN "spawned" ELSE "none" ELSE at[q][e]
      BY <1>2 DEF Spawn, TypeOK
    <3>2. OutcomeAt("spawned") = "waiting" /\ OutcomeAt("none") = "none"
      BY Outcomes
    <3>3. \A q \in Run, e \in Domain :
            OutcomeAt(at'[q][e]) = IF q = r THEN IF e \in work[r] THEN "waiting" ELSE "none"
                                   ELSE OutcomeAt(at[q][e])
      BY <3>1, <3>2
    <3> QED BY <3>3
  <2>4. PICK W \in SUBSET Domain, n \in Concurrency : W = work[r] /\ n = limit[r]
    BY <1>2 DEF Spawn, TypeOK, TasksMatchWork
  <2>5. Pool!Begin(r, W, n)
    <3> HIDE DEF oc, st, cp
    <3>1. /\ st[r] = "new"
          /\ st' = [st EXCEPT ![r] = "open"]
          /\ cp' = [cp EXCEPT ![r] = n]
          /\ oc' = [oc EXCEPT ![r] = [e \in Domain |-> IF e \in W THEN "waiting" ELSE "none"]]
      BY <2>1, <2>2, <2>3, <2>4
    <3> QED BY <3>1, Zenon DEF Pool!Begin, oc, st, cp
  <2> QED BY <2>5 DEF Pool!Next
<1>3. ASSUME NEW r \in Run, Return(r)
      PROVE  Pool!Next
  <2>1. st[r] = "open" /\ st' = [st EXCEPT ![r] = "closed"]
    BY <1>3 DEF Return, StatusOf, TypeOK, Phase
  <2>2. cp' = cp /\ oc' = oc
    BY <1>3 DEF Return, StatusOf, TypeOK, Phase
  <2>3. \A d \in Domain : oc[r][d] \in Pool!Settled \cup {"none"}
    BY <1>3 DEF Return, TasksMatchWork, Finished, OutcomeAt, HoldsPermit, Pool!Settled
  <2>4. Pool!Close(r)
    BY <2>1, <2>2, <2>3 DEF Pool!Close
  <2> QED BY <2>4 DEF Pool!Next
<1>4. ASSUME NEW r \in Run, NEW d \in Domain, Task(r, d)
      PROVE  [Pool!Next]_(Pool!vars)
  <2>1. UNCHANGED <<phase, limit>>
    BY <1>4 DEF Task, FirstCheck, PassGate, Acquire, LookupReturns, LookupPanics, Count, Emit,
       Moves, callVars
  <2>2. st' = st /\ cp' = cp
    BY <2>1
  <2>3. ASSUME NEW to \in Place, at' = [at EXCEPT ![r][d] = to]
        PROVE  oc' = [oc EXCEPT ![r][d] = OutcomeAt(to)] /\ oc[r][d] = OutcomeAt(at[r][d])
    <3>1. oc' = [oc EXCEPT ![r][d] = OutcomeAt(to)]
      BY <2>3, MoveMapped
    <3> QED BY <3>1
  <2>4. ASSUME NEW to \in Place, at' = [at EXCEPT ![r][d] = to], OutcomeAt(to) = OutcomeAt(at[r][d])
        PROVE  UNCHANGED Pool!vars
    <3>1. oc' = oc
      BY <2>3, <2>4
    <3> QED BY <2>2, <3>1 DEF Pool!vars
  <2>5. CASE FirstCheck(r, d)
    <3>1. CASE stopped
      <4>1. Pool!Refuse(r, d)
        BY <2>2, <2>3, <2>5, <3>1 DEF FirstCheck, Moves, Place, Pool!Refuse, OutcomeAt, HoldsPermit
      <4> QED BY <4>1 DEF Pool!Next
    <3>2. CASE ~stopped
      BY <2>4, <2>5, <3>2 DEF FirstCheck, Moves, Place, OutcomeAt
    <3> QED BY <3>1, <3>2
  <2>6. CASE PassGate(r, d)
    <3>1. CASE stopped
      <4>1. Pool!Refuse(r, d)
        BY <2>2, <2>3, <2>6, <3>1 DEF PassGate, Moves, Place, Pool!Refuse, OutcomeAt, HoldsPermit
      <4> QED BY <4>1 DEF Pool!Next
    <3>2. CASE ~stopped
      BY <2>4, <2>6, <3>2 DEF PassGate, Moves, Place, OutcomeAt
    <3> QED BY <3>1, <3>2
  <2>7. CASE Acquire(r, d)
    <3>1. phase[r] \in {"running", "returned"}
      BY <2>7 DEF Acquire, Moves, TasksMatchWork, TypeOK, Phase
    <3>2. Pool!Active(r) = Holding(r)
      BY DEF Pool!Active, Holding, OutcomeAt, TypeOK, Place, HoldsPermit
    <3>3. Cardinality(Holding(r)) \in Nat
      BY BulkAssumption, FS_Subset, FS_CardinalityType DEF Holding
    <3>4. permits[r] \in Nat /\ limit[r] \in Nat /\ permits[r] > 0
      BY <2>7 DEF Acquire, TypeOK
    <3>5. Cardinality(Holding(r)) < limit[r]
      BY <3>1, <3>3, <3>4 DEF PermitsConserved
    <3>6. cp[r] = limit[r]
      BY <3>1 DEF StatusOf
    <3>7. oc' = [oc EXCEPT ![r][d] = "active"] /\ oc[r][d] = "waiting"
      BY <2>3, <2>7, Outcomes DEF Acquire, Moves, Place, HoldsPermit
    <3>8. Pool!Cardinality(Pool!Active(r)) < cp[r]
      <4>1. Pool!Cardinality(Holding(r)) = Cardinality(Holding(r))
        BY DEF Pool!Cardinality, Cardinality
      <4> QED BY <3>2, <3>5, <3>6, <4>1
    <3>9. Pool!Activate(r, d)
      BY <2>2, <3>7, <3>8 DEF Pool!Activate
    <3> QED BY <3>9 DEF Pool!Next
  <2>8. CASE LookupReturns(r, d)
    BY <2>4, <2>8 DEF LookupReturns, Moves, Place, OutcomeAt, HoldsPermit
  <2>9. CASE Count(r, d)
    BY <2>4, <2>9 DEF Count, Place, OutcomeAt, HoldsPermit
  <2>10. CASE LookupPanics(r, d)
    <3>1. Pool!Settle(r, d)
      BY <2>2, <2>3, <2>10 DEF LookupPanics, Moves, Place, Pool!Settle, OutcomeAt, HoldsPermit
    <3> QED BY <3>1 DEF Pool!Next
  <2>11. CASE Emit(r, d)
    <3>1. Pool!Settle(r, d)
      BY <2>2, <2>3, <2>11 DEF Emit, Place, Pool!Settle, OutcomeAt, HoldsPermit
    <3> QED BY <3>1 DEF Pool!Next
  <2> QED BY <1>4, <2>5, <2>6, <2>7, <2>8, <2>9, <2>10, <2>11 DEF Task
<1>5. CASE Pause \/ Continue \/ Stop \/ UNCHANGED vars
  <2>1. UNCHANGED <<at, phase, limit>>
    BY <1>5 DEF Pause, Continue, Stop, callVars, vars
  <2> QED BY <2>1 DEF Pool!vars
<1> QED BY <1>1, <1>2, <1>3, <1>4, <1>5 DEF Next

\* The engine is a worker pool: one outcome per domain, never more lookups at
\* once than asked for, results handed over only when every domain is decided.
THEOREM EngineImplementsPool == Spec => ImplementsPool
<1>1. Init => Pool!Init
  <2> SUFFICES ASSUME Init PROVE Pool!Init
    OBVIOUS
  <2>1. /\ \A r \in Run, d \in Domain : OutcomeAt(at[r][d]) = "none"
        /\ \A r \in Run : StatusOf(phase[r]) = "new"
    BY Outcomes DEF Init
  <2> QED BY <2>1 DEF Pool!Init
<1>2. IInv /\ [Next]_vars => [Pool!Next]_(Pool!vars)
  BY PoolStep
<1> QED BY <1>1, <1>2, InvariantHolds, PTL DEF Spec, ImplementsPool, Pool!Spec

----------------------------------------------------------------------------
(* The window.                                                            *)

\* While commands land one at a time, the button of the run on screen tells
\* what the engine does or will do once the one in flight has landed.
ButtonKeepsUp ==
  ~raced =>
    /\ \A a, b \in inflight : a = b
    /\ view = "processing" =>
         \/ inflight = {} /\ (button = "Continue" <=> paused)
         \/ "pause" \in inflight /\ button = "Continue"
         \/ "continue" \in inflight /\ button = "Pause"
         \/ Run \cap inflight # {} /\ button = "Pause"

\* Away from the page of a run the button is the one a new run is shown with.
ButtonReset == view # "processing" => button = "Pause"

\* The inductive invariant of the window.
SessionInv == SessionTypeOK /\ IsFiniteSet(inflight) /\ ButtonReset /\ ButtonKeepsUp

\* Whatever the window does, the engine takes one of its steps or none.
LEMMA SessionStep ==
  ASSUME [SessionNext]_sessionVars
  PROVE  [Next]_vars
<1>1. CASE User
  BY <1>1 DEF User, ConfirmInput, ClickPause, ClickStop, ModalContinue, ModalStop,
              ModalStopSave, ExportCancel, ClickExport
<1>2. ASSUME NEW c \in Command \cup Run, Deliver(c) PROVE Next
  BY <1>2 DEF Deliver, Next
<1>3. ASSUME NEW r \in Run, Engine(r) PROVE Next
  BY <1>3 DEF Engine, Next
<1>4. CASE UNCHANGED sessionVars
  BY <1>4 DEF sessionVars
<1> QED BY <1>1, <1>2, <1>3, <1>4 DEF SessionNext

\* The window drives the engine of BulkLookup and nothing else does: what is
\* proved of the engine holds under the window.
THEOREM SessionRunsEngine == SessionSpec => Spec
<1>1. SessionInit => Init
  BY DEF SessionInit
<1>2. [SessionNext]_sessionVars => [Next]_vars
  BY SessionStep
<1> QED BY <1>1, <1>2, PTL DEF SessionSpec, Spec

\* What a click sends.
LEMMA InvokeEffect ==
  ASSUME NEW C \in SUBSET (Command \cup Run), inflight \subseteq Command \cup Run,
         IsFiniteSet(inflight), IsFiniteSet(C), raced \in BOOLEAN, Invoke(C)
  PROVE  /\ inflight' = inflight \cup C
         /\ inflight' \subseteq Command \cup Run
         /\ IsFiniteSet(inflight')
         /\ raced' \in BOOLEAN
         /\ raced => raced'
         /\ ~raced' => \A a, b \in inflight' : a = b
<1>1. /\ inflight' = inflight \cup C
      /\ raced' = (raced \/ Cardinality(inflight \cup C) > 1)
  BY DEF Invoke
<1>2. IsFiniteSet(inflight \cup C)
  BY FS_Union
<1>3. ASSUME ~raced', NEW a \in inflight', NEW b \in inflight', a # b PROVE FALSE
  <2>1. IsFiniteSet({a}) /\ Cardinality({a}) = 1
    BY FS_Singleton
  <2>2. Cardinality({a} \cup {b}) = 1 + 1
    <3>1. b \notin {a}
      BY <1>3
    <3> QED BY <2>1, <3>1, FS_AddElement
  <2>3. Cardinality({a} \cup {b}) <= Cardinality(inflight \cup C)
    BY <1>1, <1>2, <1>3, FS_Subset
  <2>4. Cardinality(inflight \cup C) \in Nat
    BY <1>2, FS_CardinalityType
  <2>5. ~ (Cardinality(inflight \cup C) > 1)
    BY <1>1, <1>3, Zenon
  <2> QED BY <2>2, <2>3, <2>4, <2>5
<1> QED BY <1>1, <1>2, <1>3

LEMMA UserKeepsInv ==
  ASSUME SessionInv, User
  PROVE  SessionInv'
<1>0. /\ TypeOK /\ view \in {"entry", "processing", "export", "exporting"}
      /\ button \in {"Pause", "Continue"} /\ modal \in BOOLEAN
      /\ results \subseteq Run /\ inflight \subseteq Command \cup Run
      /\ onScreen \subseteq Run /\ raced \in BOOLEAN /\ discarded \subseteq Run
      /\ modal => view = "processing" /\ button = "Continue"
      /\ IsFiniteSet(inflight) /\ ButtonReset /\ ButtonKeepsUp
  BY DEF SessionInv, SessionTypeOK
<1>1. UNCHANGED vars
  BY DEF User, ConfirmInput, ClickPause, ClickStop, ModalContinue, ModalStop,
         ModalStopSave, ExportCancel, ClickExport
<1>2. TypeOK' /\ paused' = paused
  BY <1>0, <1>1, TypeStep DEF vars
<1> USE DEF SessionInv, SessionTypeOK, ButtonReset, ButtonKeepsUp
<1>3. ASSUME NEW r \in Run, ConfirmInput(r) PROVE SessionInv'
  <2>1. {r} \in SUBSET (Command \cup Run) /\ IsFiniteSet({r}) /\ Invoke({r})
    BY <1>3, FS_Singleton DEF ConfirmInput
  <2>2. /\ inflight' = inflight \cup {r} /\ inflight' \subseteq Command \cup Run
        /\ IsFiniteSet(inflight') /\ raced' \in BOOLEAN /\ (raced => raced')
        /\ ~raced' => \A a, b \in inflight' : a = b
    BY <1>0, <2>1, InvokeEffect
  <2> QED BY <1>0, <1>2, <1>3, <2>2 DEF ConfirmInput
<1>4. CASE ClickPause
  <2> DEFINE c == IF button = "Pause" THEN "pause" ELSE "continue"
  <2>1. {c} \in SUBSET (Command \cup Run) /\ IsFiniteSet({c}) /\ Invoke({c})
    BY <1>4, FS_Singleton DEF ClickPause, Command
  <2>2. /\ inflight' = inflight \cup {c} /\ inflight' \subseteq Command \cup Run
        /\ IsFiniteSet(inflight') /\ raced' \in BOOLEAN /\ (raced => raced')
        /\ ~raced' => \A a, b \in inflight' : a = b
    BY <1>0, <2>1, InvokeEffect
  <2> QED BY <1>0, <1>2, <1>4, <2>2 DEF ClickPause
<1>5. CASE ClickStop
  <2> DEFINE C == IF button = "Pause" THEN {"pause"} ELSE {}
  <2>1. C \in SUBSET (Command \cup Run) /\ IsFiniteSet(C) /\ Invoke(C)
    BY <1>5, FS_Singleton, FS_EmptySet DEF ClickStop, Command
  <2>2. /\ inflight' = inflight \cup C /\ inflight' \subseteq Command \cup Run
        /\ IsFiniteSet(inflight') /\ raced' \in BOOLEAN /\ (raced => raced')
        /\ ~raced' => \A a, b \in inflight' : a = b
    BY <1>0, <2>1, InvokeEffect
  <2>3. CASE button = "Pause"
    BY <1>0, <1>2, <1>5, <2>2, <2>3 DEF ClickStop
  <2>4. CASE button = "Continue"
    BY <1>0, <1>2, <1>5, <2>2, <2>4 DEF ClickStop
  <2> QED BY <1>0, <2>3, <2>4
<1>6. CASE ModalContinue
  BY <1>0, <1>2, <1>6 DEF ModalContinue
<1>7. CASE ModalStop
  <2>1. discarded' \subseteq Run
    BY <1>0, <1>7 DEF ModalStop, Current
  <2> QED BY <1>0, <1>2, <1>7, <2>1 DEF ModalStop
<1>8. CASE ModalStopSave
  <2>1. {"stop"} \in SUBSET (Command \cup Run) /\ IsFiniteSet({"stop"}) /\ Invoke({"stop"})
    BY <1>8, FS_Singleton DEF ModalStopSave, Command
  <2>2. /\ inflight' = inflight \cup {"stop"} /\ inflight' \subseteq Command \cup Run
        /\ IsFiniteSet(inflight') /\ raced' \in BOOLEAN /\ (raced => raced')
        /\ ~raced' => \A a, b \in inflight' : a = b
    BY <1>0, <2>1, InvokeEffect
  <2> QED BY <1>0, <1>2, <1>8, <2>2 DEF ModalStopSave
<1>9. CASE ExportCancel
  BY <1>0, <1>2, <1>9 DEF ExportCancel
<1>10. CASE ClickExport
  BY <1>0, <1>2, <1>10 DEF ClickExport
<1> QED BY <1>3, <1>4, <1>5, <1>6, <1>7, <1>8, <1>9, <1>10 DEF User

\* A command lands: what the button announced has come true.
LEMMA DeliverKeepsInv ==
  ASSUME SessionInv, NEW c \in Command \cup Run, Deliver(c)
  PROVE  SessionInv'
<1>0. /\ TypeOK /\ IsFiniteSet(inflight) /\ ButtonReset /\ ButtonKeepsUp
      /\ inflight \subseteq Command \cup Run
  BY DEF SessionInv, SessionTypeOK
<1>1. TypeOK'
  <2>1. [Next]_vars
    BY SessionStep DEF SessionNext
  <2> QED BY <1>0, <2>1, TypeStep
<1>2. /\ c \in inflight /\ inflight' = inflight \ {c}
      /\ UNCHANGED <<view, button, modal, results, onScreen, raced, discarded>>
  BY DEF Deliver, ui
<1>3. IsFiniteSet(inflight') /\ inflight' \subseteq Command \cup Run
  BY <1>0, <1>2, FS_RemoveElement
<1>4. /\ c = "pause" => paused' = TRUE
      /\ c = "continue" => paused' = FALSE
      /\ c \in Run => paused' = FALSE
  BY SessionAssumption DEF Deliver, Pause, Continue, Stop, Start, Command
<1>5. ButtonKeepsUp'
  <2> SUFFICES ASSUME ~raced
               PROVE  /\ \A a, b \in inflight' : a = b
                      /\ view = "processing" => inflight' = {} /\ (button = "Continue" <=> paused')
    BY <1>2 DEF ButtonKeepsUp
  <2>1. inflight = {c} /\ inflight' = {}
    BY <1>0, <1>2 DEF ButtonKeepsUp
  <2>2. ASSUME view = "processing" PROVE button = "Continue" <=> paused'
    <3>1. \/ c = "pause" /\ button = "Continue"
          \/ c = "continue" /\ button = "Pause"
          \/ c \in Run /\ button = "Pause"
      BY <1>0, <2>1, <2>2 DEF ButtonKeepsUp
    <3> QED BY <1>4, <3>1
  <2> QED BY <2>1, <2>2
<1>6. ButtonReset'
  BY <1>0, <1>2 DEF ButtonReset
<1> QED BY <1>1, <1>2, <1>3, <1>5, <1>6 DEF SessionInv, SessionTypeOK

LEMMA SessionInductive ==
  ASSUME SessionInv, [SessionNext]_sessionVars
  PROVE  SessionInv'
<1>1. TypeOK'
  BY SessionStep, TypeStep DEF SessionInv, SessionTypeOK
<1>2. ASSUME NEW r \in Run, Engine(r) PROVE SessionInv'
  <2>1. paused' = paused
    BY <1>2 DEF Engine, Spawn, Return, Task, FirstCheck, PassGate, Acquire, LookupReturns,
                LookupPanics, Count, Emit, Moves, shared
  <2> QED BY <1>1, <1>2, <2>1 DEF Engine, ui, SessionInv, SessionTypeOK, ButtonReset, ButtonKeepsUp
<1>3. CASE UNCHANGED sessionVars
  BY <1>1, <1>3 DEF sessionVars, vars, SessionInv, SessionTypeOK, ButtonReset, ButtonKeepsUp
<1> QED BY <1>2, <1>3, UserKeepsInv, DeliverKeepsInv DEF SessionNext

LEMMA SessionInvHolds == SessionSpec => []SessionInv
<1>1. SessionInit => SessionInv
  BY TypeInit, FS_EmptySet
     DEF SessionInit, SessionInv, SessionTypeOK, ButtonReset, ButtonKeepsUp
<1>2. SessionInv /\ [SessionNext]_sessionVars => SessionInv'
  BY SessionInductive
<1> QED BY <1>1, <1>2, PTL DEF SessionSpec

\* Every variable of the window keeps its type, and the stop modal is only
\* open over a page whose button offers Continue.
THEOREM SessionTypeCorrect == SessionSpec => []SessionTypeOK
<1>1. SessionInv => SessionTypeOK
  BY DEF SessionInv
<1> QED BY <1>1, SessionInvHolds, PTL

\* The pause button of the run on screen offers Continue exactly when the
\* engine is paused, for a user who lets each command land first.
THEOREM ButtonAlwaysTellsTruth == SessionSpec => []ButtonTellsTruth
<1>1. SessionInv => ButtonTellsTruth
  BY DEF SessionInv, ButtonKeepsUp, ButtonTellsTruth
<1> QED BY <1>1, SessionInvHolds, PTL
=============================================================================
