-------------------------- MODULE TieredCacheProofs -------------------------
(***************************************************************************)
(* Proofs about TieredCache for any threads, any finite set of keys and    *)
(* any capacity: after a write nobody disturbed, the two tiers agree and   *)
(* the file has what was written.                                          *)
(***************************************************************************)
EXTENDS TieredCache, FiniteSetTheorems, WellFoundedInduction, TLAPS

\* What a call is about: a get and a set have one key, a set and a
\* promotion an entry, an erase none, and only a get promotes.
CallsFit ==
  \A t \in Thread :
    /\ call[t].op \in {"get", "set"} => \E k \in Key : call[t].keys = {k}
    /\ call[t].op = "set" => call[t].entry # None
    /\ call[t].op = "erase" => call[t].entry = None
    /\ call[t].step = "promote" => call[t].op = "get" /\ call[t].entry # None

\* A write that nobody disturbed is alone with its key.
Undisturbed ==
  \A k \in Key : murky[k] = {} =>
    \A t \in InFlight(k, Write), u \in InFlight(k, Write \cup {"get"}) : u = t

\* Between its two tiers such a write has its entry, or nothing, in the primary.
HalfWritten ==
  \A k \in Key : murky[k] = {} =>
    \A t \in InFlight(k, Write) :
      call[t].step = "secondary" => prim[k] \in {None, call[t].entry}

\* A get about to promote holds what the last write left.
PromotesTruth ==
  \A k \in Key : Settled(k, {}) =>
    \A t \in InFlight(k, {"get"}) : call[t].step = "promote" => call[t].entry = truth[k]

\* What holds of the tiers when no disturbance of k is on record.
Agreement == Undisturbed /\ HalfWritten /\ PromotesTruth /\ TiersAgree /\ SetIsDurable

\* The inductive invariant.
IInv == TypeOK /\ CallsFit /\ Agreement

----------------------------------------------------------------------------
(* Types.                                                                 *)

CallType ==
  [op : {"idle", "get", "evict"} \cup Write, keys : SUBSET Key,
   entry : Entry \cup {None}, step : {"primary", "secondary", "promote"}]

MutexOK ==
  \A t, u \in Thread : call[t].step = "promote" /\ call[u].step = "promote" => t = u

Fits(store) == Capacity > 0 => Cardinality({k \in Key : store[k] # None}) <= Capacity

\* A nonempty set of keys in use has an oldest one.
LEMMA OldestExists ==
  ASSUME NEW store \in Store, NEW used \in SUBSET Key, used # {}
  PROVE  \E j \in used : \A i \in used : store[j] <= store[i]
<1> DEFINE ages == {store[j] : j \in used}
<1>1. ages \subseteq Nat /\ ages # {}
  BY DEF Store, Entry, None
<1>2. PICK a \in ages : \A b \in ages : ~ (<<b, a>> \in OpToRel(<, Nat))
  BY <1>1, WFMin, NatLessThanWellFounded
<1>3. PICK j \in used : store[j] = a
  OBVIOUS
<1>4. \A i \in used : store[i] \in Nat /\ store[i] \in ages
  BY DEF Store, Entry, None
<1>5. \A i \in used : ~ (store[i] < store[j])
  BY <1>2, <1>3, <1>4 DEF OpToRel
<1> QED BY <1>4, <1>5

\* A set in the primary keeps it a store that fits.
LEMMA PutFits ==
  ASSUME TypeOK, NEW k \in Key, NEW e \in Entry
  PROVE  Put(k, e) \in Store /\ Fits(Put(k, e))
<1> DEFINE used == {j \in Key : prim[j] # None}
           oldest == {j \in used : \A i \in used : prim[j] <= prim[i]}
           full == Capacity > 0 /\ Cardinality(used) >= Capacity /\ prim[k] = None
           new == {j \in Key : Put(k, e)[j] # None}
<1>1. prim \in Store
  BY DEF TypeOK
<1>2. Put(k, e) = [j \in Key |-> IF j = k THEN e ELSE IF full /\ j \in oldest THEN None ELSE prim[j]]
  BY DEF Put
<1>3. Put(k, e) \in Store
  BY <1>1, <1>2 DEF Store
<1>4. ASSUME Capacity > 0 PROVE Cardinality(new) <= Capacity
  <2>1. Capacity \in Nat /\ IsFiniteSet(Key)
    BY CacheAssumption
  <2>2. IsFiniteSet(used) /\ IsFiniteSet(new)
    BY <2>1, FS_Subset
  <2>3. Cardinality(used) \in Nat /\ Cardinality(new) \in Nat /\ Cardinality(used) <= Capacity
    BY <2>2, <1>4, FS_CardinalityType DEF TypeOK
  <2>4. new \subseteq used \cup {k}
    BY <1>2
  <2>5. IsFiniteSet(used \cup {k})
    BY <2>2, FS_AddElement
  <2>6. CASE prim[k] # None
    <3>1. new \in SUBSET used
      BY <2>4, <2>6
    <3>2. Cardinality(new) <= Cardinality(used)
      BY <3>1, <2>2, FS_Subset
    <3> QED BY <3>2, <2>1, <2>3
  <2>7. CASE prim[k] = None /\ Cardinality(used) < Capacity
    <3>1. Cardinality(used \cup {k}) = Cardinality(used) + 1
      BY <2>2, <2>7, FS_AddElement
    <3>2. Cardinality(new) <= Cardinality(used \cup {k})
      BY <2>4, <2>5, FS_Subset
    <3> QED BY <3>1, <3>2, <2>1, <2>3, <2>7
  <2>8. CASE full
    <3>1. used # {}
      BY <2>1, <2>8, FS_EmptySet
    <3>2. PICK j \in used : \A i \in used : prim[j] <= prim[i]
      BY <3>1, <1>1, OldestExists
    <3>3. j \in oldest /\ j # k
      BY <3>2, <2>8
    <3>4. j \notin new
      BY <1>2, <3>3, <2>8
    <3>5. new \in SUBSET ((used \ {j}) \cup {k})
      BY <2>4, <3>4
    <3>6. IsFiniteSet(used \ {j}) /\ Cardinality(used \ {j}) = Cardinality(used) - 1
      BY <2>2, FS_RemoveElement
    <3>7. /\ IsFiniteSet((used \ {j}) \cup {k})
          /\ Cardinality((used \ {j}) \cup {k}) = Cardinality(used)
      BY <3>6, <2>3, <2>8, FS_AddElement
    <3>8. Cardinality(new) <= Cardinality((used \ {j}) \cup {k})
      BY <3>5, <3>7, FS_Subset
    <3> QED BY <3>7, <3>8, <2>1, <2>3
  <2> QED BY <2>1, <2>3, <2>6, <2>7, <2>8, <1>4
<1> QED BY <1>3, <1>4 DEF Fits

\* A primary that only loses entries still fits.
LEMMA FewerFit ==
  ASSUME TypeOK, NEW store, \A k \in Key : store[k] # None => prim[k] # None
  PROVE  Fits(store)
<1> DEFINE used == {j \in Key : prim[j] # None}
           kept == {j \in Key : store[j] # None}
<1>1. SUFFICES ASSUME Capacity > 0 PROVE Cardinality(kept) <= Capacity
  BY DEF Fits
<1>2. IsFiniteSet(used) /\ kept \in SUBSET used
  BY CacheAssumption, FS_Subset
<1>3. Cardinality(kept) <= Cardinality(used) /\ IsFiniteSet(kept)
  BY <1>2, FS_Subset
<1>4. Cardinality(kept) \in Nat /\ Cardinality(used) \in Nat
  BY <1>2, <1>3, FS_CardinalityType
<1>5. Cardinality(used) <= Capacity
  BY <1>1 DEF TypeOK
<1> QED BY <1>3, <1>4, <1>5, CacheAssumption

\* TypeOK in parts, before and after a step.
LEMMA TypeParts ==
  TypeOK <=>
    /\ prim \in Store
    /\ sec \in Store
    /\ disk \in Store
    /\ expired \subseteq Entry
    /\ made \in 0..MaxEntries
    /\ call \in [Thread -> CallType]
    /\ truth \in Store
    /\ murky \in [Key -> SUBSET Trouble]
    /\ MutexOK
    /\ Fits(prim)
BY DEF TypeOK, CallType, MutexOK, Fits

LEMMA TypePartsAfter ==
  TypeOK' <=>
    /\ prim' \in Store
    /\ sec' \in Store
    /\ disk' \in Store
    /\ expired' \subseteq Entry
    /\ made' \in 0..MaxEntries
    /\ call' \in [Thread -> CallType]
    /\ truth' \in Store
    /\ murky' \in [Key -> SUBSET Trouble]
    /\ MutexOK'
    /\ Fits(prim')
BY DEF TypeOK, CallType, MutexOK, Fits

\* What a step of one call does to call keeps its type; the mutex is kept
\* unless the step takes it, and then it was free.
LEMMA CallSteps ==
  ASSUME TypeOK, NEW t \in Thread
  PROVE  /\ Done(t) => call' \in [Thread -> CallType] /\ MutexOK'
         /\ GoTo(t, "secondary") => call' \in [Thread -> CallType] /\ MutexOK'
<1> USE DEF CallType, MutexOK, Done, GoTo, Idle
<1>1. call \in [Thread -> CallType] /\ MutexOK
  BY TypeParts
<1>2. ASSUME Done(t) PROVE call' \in [Thread -> CallType] /\ MutexOK'
  <2>1. Idle \in CallType
    BY DEF Write
  <2> QED BY <1>1, <1>2, <2>1
<1>3. ASSUME GoTo(t, "secondary") PROVE call' \in [Thread -> CallType] /\ MutexOK'
  <2>1. [call[t] EXCEPT !.step = "secondary"] \in CallType
    BY <1>1
  <2>2. call' = [call EXCEPT ![t] = [call[t] EXCEPT !.step = "secondary"]]
    BY <1>3
  <2>3. \A u \in Thread : call'[u].step = "promote" => call[u].step = "promote"
    BY <1>1, <2>2
  <2> QED BY <1>1, <2>1, <2>2, <2>3
<1> QED BY <1>2, <1>3

\* Dropping what has expired leaves a store with fewer entries.
LEMMA LiveFewer ==
  ASSUME TypeOK
  PROVE  /\ \A e \in Entry \cup {None} : Live(e) \in Entry \cup {None}
         /\ \A e \in Entry \cup {None} : Live(e) # None => e # None /\ Live(e) = e
BY DEF Live

LEMMA InitTypeOK == Init => TypeOK
<1> SUFFICES ASSUME Init PROVE TypeOK
  OBVIOUS
<1>1. Fits(prim)
  <2>1. {k \in Key : prim[k] # None} = {}
    BY DEF Init
  <2> QED BY <2>1, FS_EmptySet, CacheAssumption DEF Fits
<1>2. Idle \in CallType
  BY DEF Idle, CallType
<1>3. MutexOK
  BY DEF Init, Idle, MutexOK
<1> QED BY <1>1, <1>2, <1>3, TypeParts, CacheAssumption DEF Init, Store

\* A call begins with no mutex held.
LEMMA BeginTypeOK ==
  ASSUME TypeOK, NEW t \in Thread, NEW op \in {"get", "evict"} \cup Write,
         NEW K \in SUBSET Key, NEW e \in Entry \cup {None},
         Begin(t, op, K, e), made' \in 0..MaxEntries
  PROVE  TypeOK'
<1>1. call' \in [Thread -> CallType]
  BY TypeParts DEF Begin, CallType
<1>2. MutexOK'
  BY TypeParts DEF Begin, MutexOK
<1>3. murky' \in [Key -> SUBSET Trouble]
  BY TypeParts DEF Begin, Trouble
<1>4. Fits(prim')
  BY TypeParts DEF Begin, stores, Fits
<1> QED BY <1>1, <1>2, <1>3, <1>4, TypeParts, TypePartsAfter DEF Begin, stores

\* The end of a write keeps the types of what it settles.
LEMMA SettleTypes ==
  ASSUME TypeOK, NEW t \in Thread, NEW e \in Entry \cup {None}, NEW ok \in BOOLEAN,
         Settle(t, e, ok)
  PROVE  truth' \in Store /\ murky' \in [Key -> SUBSET Trouble]
BY TypeParts DEF Settle, Store, Trouble

\* No step breaks the types, the mutex or the capacity.
LEMMA NextTypeOK == TypeOK /\ CallsFit /\ [Next]_vars => TypeOK'
<1> SUFFICES ASSUME TypeOK, CallsFit, [Next]_vars PROVE TypeOK'
  OBVIOUS
<1>0. /\ prim \in Store /\ sec \in Store /\ disk \in Store
      /\ expired \subseteq Entry /\ made \in 0..MaxEntries
      /\ call \in [Thread -> CallType]
      /\ truth \in Store /\ murky \in [Key -> SUBSET Trouble]
      /\ MutexOK /\ Fits(prim)
  BY TypeParts
<1>1. ASSUME NEW t \in Thread, Call(t) PROVE TypeOK'
  <2>1. ASSUME NEW k \in Key, Begin(t, "get", {k}, None), UNCHANGED made PROVE TypeOK'
    BY <2>1, <1>0, BeginTypeOK
  <2>2. ASSUME made < MaxEntries, made' = made + 1, NEW k \in Key,
               Begin(t, "set", {k}, made + 1)
        PROVE TypeOK'
    <3>1. made + 1 \in Entry /\ made' \in 0..MaxEntries
      BY <1>0, <2>2, CacheAssumption DEF Entry
    <3> QED BY <2>2, <3>1, BeginTypeOK DEF Write
  <2>3. ASSUME NEW k \in Key, Begin(t, "erase", {k}, None), UNCHANGED made PROVE TypeOK'
    BY <2>3, <1>0, BeginTypeOK DEF Write
  <2>4. ASSUME Begin(t, "erase", Key, None), UNCHANGED made PROVE TypeOK'
    BY <2>4, <1>0, BeginTypeOK DEF Write
  <2>5. ASSUME Begin(t, "evict", Key, None), UNCHANGED made PROVE TypeOK'
    BY <2>5, <1>0, BeginTypeOK
  <2> QED BY <1>1, <2>1, <2>2, <2>3, <2>4, <2>5 DEF Call
<1>2. ASSUME NEW t \in Thread, GetPrimary(t) PROVE TypeOK'
  <2>1. PICK k \in call[t].keys :
          /\ prim' = [prim EXCEPT ![k] = Live(@)]
          /\ Done(t) \/ GoTo(t, "secondary")
    BY <1>2 DEF GetPrimary
  <2>2. k \in Key
    BY <1>0, <2>1 DEF CallType
  <2>3. prim' \in Store /\ \A j \in Key : prim'[j] # None => prim[j] # None
    BY <1>0, <2>1, <2>2, LiveFewer DEF Store
  <2>4. Fits(prim')
    BY <2>3, FewerFit
  <2>5. Fits(prim')
    BY <2>4 
  <2> QED BY <1>0, <1>2, <2>1, <2>3, <2>5, CallSteps, TypePartsAfter DEF GetPrimary, history
<1>3. ASSUME NEW t \in Thread, GetSecondary(t) PROVE TypeOK'
  <2>1. PICK k \in call[t].keys :
          \/ Done(t) /\ UNCHANGED <<sec, disk>>
          \/ \E ok \in BOOLEAN :
               /\ sec[k] # None
               /\ Flush([sec EXCEPT ![k] = Live(@)], ok)
               /\ \/ Done(t)
                  \/ call' = [call EXCEPT ![t].step = "promote", ![t].entry = sec[k]]
    BY <1>3 DEF GetSecondary
  <2>2. k \in Key
    BY <1>0, <2>1 DEF CallType
  <2>3. sec' \in Store /\ disk' \in Store
    BY <1>0, <2>1, <2>2, LiveFewer DEF Store, Flush
  <2>4. ASSUME call' = [call EXCEPT ![t].step = "promote", ![t].entry = sec[k]]
        PROVE call' \in [Thread -> CallType] /\ MutexOK'
    <3>1. sec[k] \in Entry \cup {None}
      BY <1>0, <2>2 DEF Store
    <3>2. call' = [call EXCEPT ![t] = [call[t] EXCEPT !.step = "promote", !.entry = sec[k]]]
      BY <2>4
    <3>3. [call[t] EXCEPT !.step = "promote", !.entry = sec[k]] \in CallType
      BY <1>0, <3>1 DEF CallType
    <3>4. \A u \in Thread : u # t => call'[u].step # "promote"
      BY <1>0, <1>3, <3>2 DEF GetSecondary, SecondaryFree
    <3> QED BY <1>0, <3>2, <3>3, <3>4 DEF MutexOK
  <2>5. call' \in [Thread -> CallType] /\ MutexOK'
    BY <2>1, <2>4, CallSteps
  <2>6. Fits(prim')
    BY <1>0, <1>3 DEF GetSecondary, Fits
  <2> QED BY <1>0, <1>3, <2>3, <2>5, <2>6, TypePartsAfter DEF GetSecondary, history
<1>4. ASSUME NEW t \in Thread, GetPromote(t) PROVE TypeOK'
  <2>1. PICK k \in call[t].keys : prim' = Put(k, call[t].entry)
    BY <1>4 DEF GetPromote
  <2>2. k \in Key /\ call[t].entry \in Entry
    BY <1>0, <1>4, <2>1 DEF CallType, CallsFit, GetPromote, At
  <2>3. prim' \in Store /\ Fits(prim')
    BY <2>1, <2>2, PutFits 
  <2> QED BY <1>0, <1>4, <2>3, CallSteps, TypePartsAfter DEF GetPromote, history
<1>5. ASSUME NEW t \in Thread, SetPrimary(t) PROVE TypeOK'
  <2>1. PICK k \in call[t].keys : prim' = Put(k, call[t].entry)
    BY <1>5 DEF SetPrimary
  <2>2. k \in Key /\ call[t].entry \in Entry
    BY <1>0, <1>5, <2>1 DEF CallType, CallsFit, SetPrimary, At
  <2>3. prim' \in Store /\ Fits(prim')
    BY <2>1, <2>2, PutFits
  <2> QED BY <1>0, <1>5, <2>3, CallSteps, TypePartsAfter DEF SetPrimary, history
<1>6. ASSUME NEW t \in Thread, SetSecondary(t) PROVE TypeOK'
  <2>1. PICK ok \in BOOLEAN :
       /\ Flush([k \in Key |-> IF k \in call[t].keys THEN call[t].entry ELSE sec[k]], ok)
       /\ Settle(t, call[t].entry, ok)
    BY <1>6 DEF SetSecondary
  <2>2. call[t].entry \in Entry \cup {None}
    BY <1>0 DEF CallType
  <2>3. sec' \in Store /\ disk' \in Store
    BY <1>0, <2>1, <2>2 DEF Store, Flush
  <2>4. Fits(prim')
    BY <1>0, <1>6 DEF SetSecondary, Fits
  <2> QED BY <1>0, <1>6, <2>1, <2>2, <2>3, <2>4, SettleTypes, CallSteps, TypePartsAfter DEF SetSecondary
<1>7. ASSUME NEW t \in Thread, ErasePrimary(t) PROVE TypeOK'
  <2>1. prim' \in Store /\ \A j \in Key : prim'[j] # None => prim[j] # None
    BY <1>0, <1>7 DEF Store, ErasePrimary
  <2>2. Fits(prim')
    BY <2>1, FewerFit 
  <2> QED BY <1>0, <1>7, <2>1, <2>2, CallSteps, TypePartsAfter DEF ErasePrimary, history
<1>8. ASSUME NEW t \in Thread, EraseSecondary(t) PROVE TypeOK'
  <2>1. PICK ok \in BOOLEAN :
       /\ Flush([k \in Key |-> IF k \in call[t].keys THEN None ELSE sec[k]], ok)
       /\ Settle(t, None, ok)
    BY <1>8 DEF EraseSecondary
  <2>2. sec' \in Store /\ disk' \in Store
    BY <1>0, <2>1 DEF Store, Flush
  <2>3. Fits(prim')
    BY <1>0, <1>8 DEF EraseSecondary, Fits
  <2> QED BY <1>0, <1>8, <2>1, <2>2, <2>3, SettleTypes, CallSteps, TypePartsAfter DEF EraseSecondary
<1>9. ASSUME NEW t \in Thread, EvictPrimary(t) PROVE TypeOK'
  <2>1. prim' \in Store /\ \A j \in Key : prim'[j] # None => prim[j] # None
    BY <1>0, <1>9, LiveFewer DEF Store, EvictPrimary
  <2>2. Fits(prim')
    BY <2>1, FewerFit 
  <2> QED BY <1>0, <1>9, <2>1, <2>2, CallSteps, TypePartsAfter DEF EvictPrimary, history
<1>10. ASSUME NEW t \in Thread, EvictSecondary(t) PROVE TypeOK'
  <2>1. sec' \in Store /\ disk' \in Store
    BY <1>0, <1>10, LiveFewer DEF EvictSecondary, Flush, Store
  <2>2. Fits(prim')
    BY <1>0, <1>10 DEF EvictSecondary, Fits
  <2> QED BY <1>0, <1>10, <2>1, <2>2, CallSteps, TypePartsAfter DEF EvictSecondary, history
<1>11. CASE Expire
  <2>1. expired' \subseteq Entry
    BY <1>0, <1>11, CacheAssumption DEF Expire, Entry
  <2>2. Fits(prim') /\ MutexOK'
    BY <1>0, <1>11 DEF Expire, stores, Fits, MutexOK
  <2> QED BY <1>0, <1>11, <2>1, <2>2, TypePartsAfter DEF Expire, stores, history
<1>12. CASE Crash
  <2>1. Idle \in CallType /\ Idle.step # "promote"
    BY DEF Idle, CallType
  <2>2. call' \in [Thread -> CallType] /\ MutexOK'
    BY <1>12, <2>1 DEF Crash, MutexOK
  <2>3. Fits(prim')
    BY <1>12, FewerFit DEF Crash, Fits
  <2>4. murky' \in [Key -> SUBSET Trouble]
    BY <1>0, <1>12 DEF Crash, Trouble
  <2> QED BY <1>0, <1>12, <2>2, <2>3, <2>4, TypePartsAfter DEF Crash, Store
<1>13. CASE UNCHANGED vars
  BY <1>0, <1>13, TypePartsAfter DEF vars, MutexOK, Fits
<1> QED
  BY <1>1, <1>2, <1>3, <1>4, <1>5, <1>6, <1>7, <1>8, <1>9, <1>10, <1>11, <1>12, <1>13
     DEF Next, Step

----------------------------------------------------------------------------
(* Calls.                                                                 *)

LEMMA NextCallsFit == TypeOK /\ CallsFit /\ [Next]_vars => CallsFit'
<1> SUFFICES ASSUME TypeOK, CallsFit, [Next]_vars PROVE CallsFit'
  OBVIOUS
<1>0. call \in [Thread -> CallType] /\ sec \in Store /\ made \in Nat
  BY TypeParts, CacheAssumption
<1>1. Idle.op = "idle" /\ Idle.step = "primary"
  BY DEF Idle
<1>2. ASSUME NEW t \in Thread, Done(t) PROVE CallsFit'
  BY <1>0, <1>1, <1>2 DEF Done, CallsFit
<1>3. ASSUME NEW t \in Thread, GoTo(t, "secondary") PROVE CallsFit'
  <2>1. \A u \in Thread : /\ call'[u].op = call[u].op /\ call'[u].keys = call[u].keys
                          /\ call'[u].entry = call[u].entry
                          /\ call'[u].step = "promote" => call[u].step = "promote"
    BY <1>0, <1>3 DEF GoTo, CallType
  <2> QED BY <2>1 DEF CallsFit
<1>4. ASSUME NEW t \in Thread, GetSecondary(t) PROVE CallsFit'
  <2>1. PICK k \in call[t].keys :
          \/ Done(t)
          \/ sec[k] # None /\ call' = [call EXCEPT ![t].step = "promote", ![t].entry = sec[k]]
    BY <1>4 DEF GetSecondary
  <2>2. CASE sec[k] # None /\ call' = [call EXCEPT ![t].step = "promote", ![t].entry = sec[k]]
    <3>1. call' = [call EXCEPT ![t] = [call[t] EXCEPT !.step = "promote", !.entry = sec[k]]]
      BY <2>2
    <3>2. /\ call'[t].op = "get" /\ call'[t].keys = call[t].keys
          /\ call'[t].entry = sec[k]
      BY <1>0, <1>4, <3>1 DEF GetSecondary, At, CallType
    <3>3. \A u \in Thread : u # t => call'[u] = call[u]
      BY <1>0, <3>1
    <3>4. call[t].op = "get"
      BY <1>4 DEF GetSecondary, At
    <3> QED BY <2>2, <3>2, <3>3, <3>4 DEF CallsFit
  <2> QED BY <2>1, <2>2, <1>2
<1>5. ASSUME NEW t \in Thread, Call(t) PROVE CallsFit'
  <2>1. ASSUME NEW op, NEW K, NEW e, Begin(t, op, K, e),
               op \in {"get", "set"} => \E k \in Key : K = {k},
               op = "set" => e # None, op = "erase" => e = None
        PROVE CallsFit'
    BY <1>0, <2>1 DEF Begin, CallsFit
  <2>2. made + 1 # None
    BY <1>0 DEF None
  <2> QED BY <1>5, <2>1, <2>2 DEF Call
<1>6. CASE Expire
  BY <1>6 DEF Expire, CallsFit
<1>7. CASE Crash
  BY <1>1, <1>7 DEF Crash, CallsFit
<1>8. CASE UNCHANGED vars
  BY <1>8 DEF vars, CallsFit
<1>9. ASSUME NEW t \in Thread, Step(t) PROVE CallsFit'
  <2>1. \/ \E u \in Thread : Done(u) \/ GoTo(u, "secondary")
        \/ GetSecondary(t)
    BY <1>9 DEF Step, GetPrimary, GetPromote, SetPrimary, SetSecondary,
                ErasePrimary, EraseSecondary, EvictPrimary, EvictSecondary
  <2> QED BY <2>1, <1>2, <1>3, <1>4
<1> QED BY <1>5, <1>6, <1>7, <1>8, <1>9 DEF Next

----------------------------------------------------------------------------
(* Agreement, key by key.                                                 *)

\* Agreement is what it says of each key.
AgreesAt(k) ==
  murky[k] = {} =>
    /\ \A t \in InFlight(k, Write), u \in InFlight(k, Write \cup {"get"}) : u = t
    /\ \A t \in InFlight(k, Write) :
         call[t].step = "secondary" => prim[k] \in {None, call[t].entry}
    /\ InFlight(k, Write) = {} =>
         /\ \A t \in InFlight(k, {"get"}) : call[t].step = "promote" => call[t].entry = truth[k]
         /\ prim[k] \in {None, truth[k]}
         /\ Holds(sec, k)
         /\ Holds(disk, k)

LEMMA AgreementByKey ==
  /\ Agreement <=> \A k \in Key : AgreesAt(k)
  /\ Agreement' <=> \A k \in Key : AgreesAt(k)'
BY DEF Agreement, AgreesAt, Undisturbed, HalfWritten, PromotesTruth, TiersAgree,
       SetIsDurable, Settled, Holds

\* A key whose calls and history are as they were, and whose stores lost at
\* most what has expired, agrees as before.
LEMMA LosesOnlyExpired ==
  ASSUME TypeOK, NEW k \in Key, AgreesAt(k),
         murky'[k] = {} => murky[k] = {}, truth'[k] = truth[k],
         expired \subseteq expired',
         InFlight(k, Write)' = InFlight(k, Write),
         InFlight(k, {"get"})' \subseteq InFlight(k, {"get"}),
         \A t \in InFlight(k, Write) :
           /\ call'[t].entry = call[t].entry
           /\ call'[t].step = "secondary" =>
                \/ call[t].step = "secondary" /\ prim'[k] \in {prim[k], None}
                \/ prim'[k] \in {None, call[t].entry},
         \A t \in InFlight(k, {"get"})' : call'[t].step = "promote" =>
            \/ call[t].step = "promote" /\ call'[t].entry = call[t].entry
            \/ call'[t].entry = sec[k] /\ sec[k] # None,
         InFlight(k, Write) = {} => 
           \/ prim'[k] \in {prim[k], None}
           \/ \E t \in InFlight(k, {"get"}) : call[t].step = "promote" /\ prim'[k] = call[t].entry,
         sec'[k] \in {sec[k], Live(sec[k])},
         disk'[k] \in {disk[k], sec'[k]}
  PROVE  AgreesAt(k)'
<1> SUFFICES ASSUME murky'[k] = {} PROVE AgreesAt(k)'
  BY DEF AgreesAt
<1>1. \A S, T : InFlight(k, S \cup T) = InFlight(k, S) \cup InFlight(k, T)
  BY DEF InFlight
<1>2. \A S, T : InFlight(k, S \cup T)' = InFlight(k, S)' \cup InFlight(k, T)'
  BY DEF InFlight
<1>3. \A t \in InFlight(k, Write)', u \in InFlight(k, Write \cup {"get"})' : u = t
  BY <1>1, <1>2 DEF AgreesAt
<1>4. \A t \in InFlight(k, Write)' :
         call'[t].step = "secondary" => prim'[k] \in {None, call'[t].entry}
  BY DEF AgreesAt
<1>5. ASSUME InFlight(k, Write)' = {}
      PROVE  /\ \A t \in InFlight(k, {"get"})' : call'[t].step = "promote" => call'[t].entry = truth'[k]
             /\ prim'[k] \in {None, truth'[k]}
             /\ Holds(sec, k)'
             /\ Holds(disk, k)'
  <2>1. /\ \A t \in InFlight(k, {"get"}) : call[t].step = "promote" => call[t].entry = truth[k]
        /\ prim[k] \in {None, truth[k]}
        /\ Holds(sec, k)
        /\ Holds(disk, k)
    BY <1>5 DEF AgreesAt
  <2>2. Holds(sec, k)' /\ Holds(disk, k)'
    BY <2>1 DEF Holds, Live
  <2>3. sec[k] # None => sec[k] = truth[k]
    BY <2>1 DEF Holds
  <2> QED BY <1>5, <2>1, <2>2, <2>3
<1> QED BY <1>3, <1>4, <1>5 DEF AgreesAt

\* Who is in flight after a call has ended, or has gone to the secondary.
LEMMA InFlightAfter ==
  ASSUME TypeOK, NEW t \in Thread, NEW k \in Key, NEW S \in SUBSET (Write \cup {"get"})
  PROVE  /\ Done(t) => /\ InFlight(k, S)' = InFlight(k, S) \ {t}
                       /\ \A u \in Thread \ {t} : call'[u] = call[u]
         /\ GoTo(t, "secondary") =>
              /\ InFlight(k, S)' = InFlight(k, S)
              /\ \A u \in Thread : /\ call'[u].entry = call[u].entry
                                   /\ call'[u].op = call[u].op
                                   /\ call'[u].keys = call[u].keys
              /\ \A u \in Thread \ {t} : call'[u] = call[u]
              /\ call'[t].step = "secondary"
<1>0. call \in [Thread -> CallType]
  BY TypeParts
<1>1. Idle.op \notin Write \cup {"get"}
  BY DEF Idle, Write
<1>2. ASSUME Done(t)
      PROVE  InFlight(k, S)' = InFlight(k, S) \ {t} /\ \A u \in Thread \ {t} : call'[u] = call[u]
  <2>1. call'[t] = Idle /\ \A u \in Thread \ {t} : call'[u] = call[u]
    BY <1>0, <1>2 DEF Done
  <2> QED BY <1>1, <2>1 DEF InFlight
<1>3. ASSUME GoTo(t, "secondary")
      PROVE  /\ InFlight(k, S)' = InFlight(k, S)
             /\ \A u \in Thread : /\ call'[u].entry = call[u].entry
                                  /\ call'[u].op = call[u].op
                                  /\ call'[u].keys = call[u].keys
             /\ \A u \in Thread \ {t} : call'[u] = call[u]
             /\ call'[t].step = "secondary"
  <2>1. /\ \A u \in Thread : /\ call'[u].entry = call[u].entry
                             /\ call'[u].op = call[u].op
                             /\ call'[u].keys = call[u].keys
        /\ \A u \in Thread \ {t} : call'[u] = call[u]
        /\ call'[t].step = "secondary"
    BY <1>0, <1>3 DEF GoTo, CallType
  <2> QED BY <2>1 DEF InFlight
<1> QED BY <1>2, <1>3

\* A get or an eviction that has started moves on without a write in sight.
LEMMA ReadSteps ==
  ASSUME TypeOK, NEW t \in Thread, NEW k \in Key, call[t].op \in {"get", "evict"},
         Done(t) \/ GoTo(t, "secondary")
  PROVE  /\ InFlight(k, Write)' = InFlight(k, Write)
         /\ InFlight(k, {"get"})' \subseteq InFlight(k, {"get"})
         /\ \A u \in InFlight(k, Write) : call'[u] = call[u]
         /\ \A u \in InFlight(k, {"get"})' :
              call'[u].step = "promote" => call[u].step = "promote" /\ call'[u].entry = call[u].entry
<1>1. t \notin InFlight(k, Write)
  BY DEF InFlight, Write
<1>2. InFlight(k, {"get"}) \subseteq Thread /\ InFlight(k, Write) \subseteq Thread
      /\ InFlight(k, {"get"})' \subseteq Thread
  BY DEF InFlight
<1>3. {"get"} \in SUBSET (Write \cup {"get"}) /\ Write \in SUBSET (Write \cup {"get"})
  OBVIOUS
<1>4. CASE Done(t)
  <2>1. /\ InFlight(k, Write)' = InFlight(k, Write) \ {t}
        /\ InFlight(k, {"get"})' = InFlight(k, {"get"}) \ {t}
        /\ \A u \in Thread \ {t} : call'[u] = call[u]
    BY <1>3, <1>4, InFlightAfter
  <2> QED BY <1>1, <1>2, <2>1
<1>5. CASE GoTo(t, "secondary")
  <2>1. /\ InFlight(k, Write)' = InFlight(k, Write)
        /\ InFlight(k, {"get"})' = InFlight(k, {"get"})
        /\ \A u \in Thread \ {t} : call'[u] = call[u]
        /\ call'[t].step = "secondary"
    BY <1>3, <1>5, InFlightAfter
  <2> QED BY <1>1, <1>2, <2>1
<1> QED BY <1>4, <1>5

\* A set in the primary leaves each other key its entry or nothing.
LEMMA PutElsewhere ==
  ASSUME TypeOK, NEW k \in Key, NEW j \in Key, NEW e
  PROVE  /\ j # k => Put(k, e)[j] \in {prim[j], None}
         /\ Put(k, e)[k] = e
<1> DEFINE used == {i \in Key : prim[i] # None}
           oldest == {i \in used : \A h \in used : prim[i] <= prim[h]}
           full == Capacity > 0 /\ Cardinality(used) >= Capacity /\ prim[k] = None
<1>1. Put(k, e) = [i \in Key |-> IF i = k THEN e ELSE IF full /\ i \in oldest THEN None ELSE prim[i]]
  BY DEF Put
<1> HIDE DEF full, oldest
<1> QED BY <1>1

LEMMA ReadsAgree ==
  ASSUME TypeOK, CallsFit, NEW k \in Key, AgreesAt(k), NEW t \in Thread,
         GetPrimary(t) \/ GetSecondary(t) \/ GetPromote(t) \/ EvictPrimary(t) \/ EvictSecondary(t)
  PROVE  AgreesAt(k)'
<1>0. /\ prim \in Store /\ sec \in Store /\ disk \in Store
      /\ call \in [Thread -> CallType]
  BY TypeParts
<1>1. CASE GetPrimary(t)
  <2>1. PICK j \in call[t].keys :
          prim' = [prim EXCEPT ![j] = Live(@)] /\ (Done(t) \/ GoTo(t, "secondary"))
    BY <1>1 DEF GetPrimary
  <2>2. prim'[k] \in {prim[k], None}
    BY <1>0, <2>1 DEF Live, Store
  <2>3. call[t].op \in {"get", "evict"}
    BY <1>1 DEF GetPrimary, At
  <2> QED BY <1>1, <2>1, <2>2, <2>3, ReadSteps, LosesOnlyExpired DEF GetPrimary, history
<1>2. CASE GetSecondary(t)
  <2>1. PICK j \in call[t].keys :
       \/ Done(t) /\ UNCHANGED <<sec, disk>>
       \/ \E ok \in BOOLEAN :
               /\ sec[j] # None
               /\ Flush([sec EXCEPT ![j] = Live(@)], ok)
               /\ \/ Done(t)
                  \/ /\ ok
                     /\ call' = [call EXCEPT ![t].step = "promote", ![t].entry = sec[j]]
    BY <1>2 DEF GetSecondary
  <2>2. j \in Key /\ call[t].op = "get"
    BY <1>0, <1>2, <2>1 DEF CallType, GetSecondary, At
  <2>3. sec'[k] \in {sec[k], Live(sec[k])} /\ disk'[k] \in {disk[k], sec'[k]}
    BY <1>0, <2>1, <2>2 DEF Flush, Store
  <2>4. CASE Done(t)
    BY <1>2, <2>2, <2>3, <2>4, ReadSteps, LosesOnlyExpired DEF GetSecondary, history
  <2>5. CASE sec[j] # None /\ call' = [call EXCEPT ![t].step = "promote", ![t].entry = sec[j]]
    <3>1. call' = [call EXCEPT ![t] = [call[t] EXCEPT !.step = "promote", !.entry = sec[j]]]
      BY <2>5
    <3>2. /\ call'[t].op = call[t].op /\ call'[t].keys = call[t].keys
          /\ call'[t].entry = sec[j]
          /\ \A u \in Thread : u # t => call'[u] = call[u]
      BY <1>0, <3>1 DEF CallType
    <3>3. /\ InFlight(k, Write)' = InFlight(k, Write)
          /\ InFlight(k, {"get"})' = InFlight(k, {"get"})
      BY <3>2 DEF InFlight
    <3>4. \A u \in InFlight(k, Write) : call'[u] = call[u]
      BY <2>2, <3>2 DEF InFlight, Write
    <3>5. \A u \in InFlight(k, {"get"})' : call'[u].step = "promote" =>
            \/ call[u].step = "promote" /\ call'[u].entry = call[u].entry
            \/ call'[u].entry = sec[k] /\ sec[k] # None
      <4> SUFFICES ASSUME NEW u \in InFlight(k, {"get"})', u = t
                   PROVE  call'[u].entry = sec[k] /\ sec[k] # None
        BY <3>2 DEF InFlight
      <4>1. k \in call[t].keys
        BY <3>2 DEF InFlight
      <4>2. k = j
        BY <2>1, <2>2, <4>1 DEF CallsFit
      <4> QED BY <2>5, <3>2, <4>2
    <3> QED BY <1>2, <2>3, <3>3, <3>4, <3>5, LosesOnlyExpired DEF GetSecondary, history
  <2> QED BY <2>1, <2>4, <2>5
<1>3. CASE GetPromote(t)
  <2>1. PICK j \in call[t].keys : prim' = Put(j, call[t].entry)
    BY <1>3 DEF GetPromote
  <2>2. j \in Key /\ call[t].op = "get" /\ call[t].step = "promote" /\ Done(t)
    BY <1>0, <1>3, <2>1 DEF CallType, GetPromote, At
  <2>3. CASE j # k
    <3>1. prim'[k] \in {prim[k], None}
      BY <2>1, <2>2, <2>3, PutElsewhere
    <3> QED BY <1>3, <2>2, <3>1, ReadSteps, LosesOnlyExpired DEF GetPromote, history
  <2>4. CASE j = k
    <3>1. t \in InFlight(k, {"get"}) /\ prim'[k] = call[t].entry
      BY <2>1, <2>2, <2>4, PutElsewhere DEF InFlight
    <3>2. InFlight(k, Write)' = InFlight(k, Write)
      BY <2>2, ReadSteps
    <3>3. murky'[k] = {} => InFlight(k, Write) = {}
      <4> SUFFICES ASSUME murky'[k] = {}, NEW u \in InFlight(k, Write) PROVE FALSE
        OBVIOUS
      <4>1. t \in InFlight(k, Write \cup {"get"})
        BY <3>1 DEF InFlight
      <4>2. t = u
        BY <1>3, <4>1 DEF AgreesAt, GetPromote, history
      <4> QED BY <2>2, <4>2 DEF InFlight, Write
    <3>4. CASE murky'[k] # {}
      BY <3>4 DEF AgreesAt
    <3>5. CASE murky'[k] = {}
      BY <1>3, <2>2, <3>1, <3>3, <3>5, ReadSteps, LosesOnlyExpired DEF GetPromote, history
    <3> QED BY <3>4, <3>5
  <2> QED BY <2>3, <2>4
<1>4. CASE EvictPrimary(t)
  <2>1. prim'[k] \in {prim[k], None}
    BY <1>4 DEF EvictPrimary, Live
  <2>2. call[t].op \in {"get", "evict"} /\ GoTo(t, "secondary")
    BY <1>4 DEF EvictPrimary, At
  <2> QED BY <1>4, <2>1, <2>2, ReadSteps, LosesOnlyExpired DEF EvictPrimary, history
<1>5. CASE EvictSecondary(t)
  <2>1. sec'[k] \in {sec[k], Live(sec[k])} /\ disk'[k] \in {disk[k], sec'[k]}
    BY <1>0, <1>5 DEF EvictSecondary, Flush
  <2>2. call[t].op \in {"get", "evict"} /\ Done(t)
    BY <1>5 DEF EvictSecondary, At
  <2> QED BY <1>5, <2>1, <2>2, ReadSteps, LosesOnlyExpired DEF EvictSecondary, history
<1> QED BY <1>1, <1>2, <1>3, <1>4, <1>5

\* The first half of a write: the primary has its entry, or nothing, for its
\* keys, and a write elsewhere at most pushes an entry out.
LEMMA FirstHalfAgrees ==
  ASSUME TypeOK, CallsFit, NEW k \in Key, AgreesAt(k), NEW t \in Thread,
         SetPrimary(t) \/ ErasePrimary(t)
  PROVE  AgreesAt(k)'
<1>1. /\ GoTo(t, "secondary") /\ UNCHANGED <<sec, disk, expired, truth, murky>>
      /\ t \in InFlight(k, Write) <=> k \in call[t].keys
      /\ call[t].op \in Write
  BY DEF SetPrimary, ErasePrimary, history, At, InFlight, Write
<1>2. /\ k \in call[t].keys => prim'[k] \in {None, call[t].entry}
      /\ k \notin call[t].keys => prim'[k] \in {prim[k], None}
  <2>1. CASE SetPrimary(t)
    <3>1. PICK j \in call[t].keys : prim' = Put(j, call[t].entry)
      BY <2>1 DEF SetPrimary
    <3>2. call[t].op = "set"
      BY <2>1 DEF SetPrimary, At
    <3>3. call[t].keys = {j} /\ j \in Key
      BY <3>1, <3>2 DEF CallsFit
    <3>4. (k # j => prim'[k] \in {prim[k], None}) /\ (k = j => prim'[k] = call[t].entry)
      BY <3>1, <3>3, PutElsewhere
    <3> QED BY <3>3, <3>4
  <2>2. CASE ErasePrimary(t)
    BY <2>2 DEF ErasePrimary
  <2> QED BY <2>1, <2>2
<1>3. /\ InFlight(k, Write)' = InFlight(k, Write)
      /\ InFlight(k, {"get"})' = InFlight(k, {"get"})
      /\ \A u \in Thread : call'[u].entry = call[u].entry
      /\ \A u \in Thread \ {t} : call'[u] = call[u]
  BY <1>1, InFlightAfter DEF Write
<1>4. InFlight(k, Write) \subseteq Thread
  BY DEF InFlight
<1>5. t \notin InFlight(k, {"get"}) /\ InFlight(k, {"get"}) \subseteq Thread
  BY <1>1 DEF InFlight, Write
<1>6. \A u \in InFlight(k, {"get"})' : call'[u].step = "promote" =>
        call[u].step = "promote" /\ call'[u].entry = call[u].entry
  BY <1>3, <1>5
<1>7. InFlight(k, Write) = {} => prim'[k] \in {prim[k], None}
  BY <1>1, <1>2
<1>8. CASE murky'[k] # {}
  BY <1>8 DEF AgreesAt
<1>9. CASE murky'[k] = {}
  <2>1. \A u \in InFlight(k, Write) : t \in InFlight(k, Write) => u = t
    <3>1. \A u \in InFlight(k, Write) : u \in InFlight(k, Write \cup {"get"})
      BY DEF InFlight
    <3> QED BY <1>1, <1>9, <3>1 DEF AgreesAt
  <2>2. \A u \in InFlight(k, Write) :
           /\ call'[u].entry = call[u].entry
           /\ call'[u].step = "secondary" =>
                \/ call[u].step = "secondary" /\ prim'[k] \in {prim[k], None}
                \/ prim'[k] \in {None, call[u].entry}
    BY <1>1, <1>2, <1>3, <1>4, <2>1
  <2> QED BY <1>1, <1>3, <1>6, <1>7, <2>2, LosesOnlyExpired
<1> QED BY <1>8, <1>9

\* The second half of a write: it leaves its entry in both tiers, and in the
\* file unless its flush failed; other keys keep what they had.
LEMMA SecondHalfAgrees ==
  ASSUME TypeOK, CallsFit, NEW k \in Key, AgreesAt(k), NEW t \in Thread,
         SetSecondary(t) \/ EraseSecondary(t)
  PROVE  AgreesAt(k)'
<1>1. PICK ok \in BOOLEAN :
        /\ Flush([j \in Key |-> IF j \in call[t].keys THEN call[t].entry ELSE sec[j]], ok)
        /\ Settle(t, call[t].entry, ok)
  BY DEF SetSecondary, EraseSecondary, CallsFit, At
<1>2. /\ Done(t) /\ UNCHANGED <<prim, expired>>
      /\ call[t].op \in Write /\ call[t].step = "secondary"
  BY DEF SetSecondary, EraseSecondary, At, Write
<1>3. /\ InFlight(k, Write)' = InFlight(k, Write) \ {t}
      /\ InFlight(k, {"get"})' = InFlight(k, {"get"}) \ {t}
      /\ InFlight(k, Write \cup {"get"})' = InFlight(k, Write \cup {"get"}) \ {t}
      /\ \A u \in Thread \ {t} : call'[u] = call[u]
  BY <1>2, InFlightAfter DEF Write
<1>4. InFlight(k, Write) \subseteq Thread /\ InFlight(k, {"get"}) \subseteq Thread
  BY DEF InFlight
<1>5. CASE k \in call[t].keys
  <2> SUFFICES ASSUME murky'[k] = {} PROVE AgreesAt(k)'
    BY DEF AgreesAt
  <2>1. murky[k] = {} /\ ok /\ truth'[k] = call[t].entry
    BY <1>1, <1>5 DEF Settle
  <2>2. t \in InFlight(k, Write)
    BY <1>2, <1>5 DEF InFlight
  <2>3. \A u \in InFlight(k, Write \cup {"get"}) : u = t
    BY <2>1, <2>2 DEF AgreesAt
  <2>4. InFlight(k, Write)' = {} /\ InFlight(k, {"get"})' = {}
    <3>1. \A u \in InFlight(k, Write) \cup InFlight(k, {"get"}) : u \in InFlight(k, Write \cup {"get"})
      BY DEF InFlight
    <3> QED BY <1>3, <2>3, <3>1
  <2>5. prim'[k] \in {None, truth'[k]}
    BY <1>2, <2>1, <2>2 DEF AgreesAt
  <2>6. sec'[k] = truth'[k] /\ disk'[k] = truth'[k]
    BY <1>1, <1>5, <2>1 DEF Flush
  <2> QED BY <2>4, <2>5, <2>6 DEF AgreesAt, Holds
<1>6. CASE k \notin call[t].keys
  <2>1. truth'[k] = truth[k] /\ murky'[k] = murky[k]
    BY <1>1, <1>6 DEF Settle
  <2>2. t \notin InFlight(k, Write) /\ t \notin InFlight(k, {"get"})
    BY <1>6 DEF InFlight
  <2>3. sec'[k] = sec[k] /\ disk'[k] \in {disk[k], sec'[k]}
    BY <1>1, <1>6 DEF Flush
  <2>4. /\ InFlight(k, Write)' = InFlight(k, Write)
        /\ InFlight(k, {"get"})' \subseteq InFlight(k, {"get"})
        /\ \A u \in InFlight(k, Write) : call'[u] = call[u]
        /\ \A u \in InFlight(k, {"get"})' : call'[u] = call[u]
    BY <1>3, <1>4, <2>2
  <2> QED BY <1>2, <2>1, <2>3, <2>4, LosesOnlyExpired
<1> QED BY <1>5, <1>6

\* A call begins: a write that meets no other of its key settles it, any
\* other write of it is on record.
LEMMA BeginAgrees ==
  ASSUME TypeOK, NEW k \in Key, AgreesAt(k), NEW t \in Thread,
         NEW op \in {"get", "evict"} \cup Write, NEW K \in SUBSET Key, NEW e,
         Begin(t, op, K, e)
  PROVE  AgreesAt(k)'
<1>1. /\ UNCHANGED <<prim, sec, disk, expired, truth>> /\ call[t] = Idle
      /\ call'[t] = [op |-> op, keys |-> K, entry |-> e, step |-> "primary"]
      /\ \A u \in Thread : u # t => call'[u] = call[u]
  BY TypeParts DEF Begin, stores
<1> DEFINE Joins(S) == IF op \in S /\ k \in K THEN {t} ELSE {}
<1>2. \A S \in SUBSET (Write \cup {"get"}) : InFlight(k, S)' = InFlight(k, S) \cup Joins(S)
  BY <1>1 DEF InFlight, Idle, Write
<1>3. /\ InFlight(k, Write)' = InFlight(k, Write) \cup Joins(Write)
      /\ InFlight(k, {"get"})' = InFlight(k, {"get"}) \cup Joins({"get"})
      /\ InFlight(k, Write \cup {"get"})' = InFlight(k, Write) \cup InFlight(k, {"get"})
                                             \cup Joins(Write) \cup Joins({"get"})
      /\ InFlight(k, Write \cup {"get"}) = InFlight(k, Write) \cup InFlight(k, {"get"})
  BY <1>2 DEF InFlight
<1>4. /\ t \notin InFlight(k, Write) /\ t \notin InFlight(k, {"get"})
      /\ InFlight(k, Write) \subseteq Thread /\ InFlight(k, {"get"}) \subseteq Thread
  BY <1>1 DEF InFlight, Idle, Write
<1>5. /\ k \notin K => murky'[k] = murky[k]
      /\ k \in K /\ op \notin Write /\ murky'[k] = {} =>
            murky[k] = {} /\ (op = "get" => InFlight(k, Write) = {})
      /\ k \in K /\ op \in Write /\ murky'[k] = {} =>
            InFlight(k, Write) = {} /\ InFlight(k, {"get"}) = {}
  BY DEF Begin, Write
<1> SUFFICES ASSUME murky'[k] = {} PROVE AgreesAt(k)'
  BY DEF AgreesAt
<1>6. CASE k \in K /\ op \in Write
  <2>1. op # "get"
    BY <1>6 DEF Write
  <2>2. InFlight(k, Write)' = {t} /\ InFlight(k, Write \cup {"get"})' = {t}
    BY <1>3, <1>5, <1>6, <2>1
  <2> QED BY <1>1, <2>2 DEF AgreesAt
<1>7. CASE ~ (k \in K /\ op \in Write)
  <2>1. murky[k] = {} /\ InFlight(k, Write)' = InFlight(k, Write)
    BY <1>3, <1>5, <1>7
  <2>2. InFlight(k, Write) # {} =>
          InFlight(k, Write \cup {"get"})' = InFlight(k, Write \cup {"get"})
    BY <1>3, <1>5, <1>7
  <2>3. \A u \in InFlight(k, {"get"})' : u # t => u \in InFlight(k, {"get"})
    BY <1>3
  <2>4. /\ \A u \in InFlight(k, Write)', v \in InFlight(k, Write \cup {"get"})' : v = u
    BY <2>1, <2>2 DEF AgreesAt
  <2>5. \A u \in InFlight(k, Write)' : call'[u] = call[u]
    BY <1>1, <1>4, <2>1
  <2>6. \A u \in InFlight(k, {"get"})' : call'[u].step = "promote" =>
          u \in InFlight(k, {"get"}) /\ call'[u] = call[u]
    BY <1>1, <1>4, <2>3
  <2> QED BY <1>1, <2>1, <2>4, <2>5, <2>6 DEF AgreesAt, Holds
<1> QED BY <1>6, <1>7

LEMMA CrashAgrees ==
  ASSUME NEW k \in Key, AgreesAt(k), Crash
  PROVE  AgreesAt(k)'
<1> SUFFICES ASSUME murky'[k] = {} PROVE AgreesAt(k)'
  BY DEF AgreesAt
<1>1. InFlight(k, Write) = {} /\ murky[k] = {}
  BY DEF Crash
<1>2. InFlight(k, Write)' = {} /\ InFlight(k, {"get"})' = {}
  BY DEF Crash, InFlight, Idle, Write
<1> QED BY <1>1, <1>2 DEF Crash, AgreesAt, Holds

LEMMA NextAgreement == TypeOK /\ CallsFit /\ Agreement /\ [Next]_vars => Agreement'
<1> SUFFICES ASSUME TypeOK, CallsFit, [Next]_vars, NEW k \in Key, AgreesAt(k)
             PROVE  AgreesAt(k)'
  BY AgreementByKey
<1>1. ASSUME NEW t \in Thread, Call(t) PROVE AgreesAt(k)'
  <2>1. \E op \in {"get", "evict"} \cup Write, K \in SUBSET Key, e \in Nat : Begin(t, op, K, e)
    <3>1. made + 1 \in Nat /\ None \in Nat
      BY TypeParts, CacheAssumption DEF None
    <3> QED BY <1>1, <3>1 DEF Call, Write
  <2> QED BY <2>1, BeginAgrees
<1>2. ASSUME NEW t \in Thread, Step(t) PROVE AgreesAt(k)'
  BY <1>2, ReadsAgree, FirstHalfAgrees, SecondHalfAgrees DEF Step
<1>3. CASE Expire
  <2>1. \A S : InFlight(k, S)' = InFlight(k, S)
    BY <1>3 DEF Expire, InFlight
  <2> QED BY <1>3, <2>1, LosesOnlyExpired DEF Expire, stores, history
<1>4. CASE Crash
  BY <1>4, CrashAgrees
<1>5. CASE UNCHANGED vars
  BY <1>5 DEF vars, AgreesAt, InFlight, Holds
<1> QED BY <1>1, <1>2, <1>3, <1>4, <1>5 DEF Next

----------------------------------------------------------------------------
(* The theorems.                                                          *)

LEMMA InitIInv == Init => IInv
<1> SUFFICES ASSUME Init PROVE IInv
  OBVIOUS
<1>1. CallsFit
  BY DEF Init, CallsFit, Idle
<1>2. \A k \in Key : InFlight(k, Write \cup {"get"}) = {}
  BY DEF Init, InFlight, Idle, Write
<1>3. \A k \in Key : InFlight(k, Write) = {} /\ InFlight(k, {"get"}) = {}
  BY <1>2 DEF InFlight
<1>4. Agreement
  BY <1>3, AgreementByKey DEF AgreesAt, Init, Holds
<1> QED BY <1>1, <1>4, InitTypeOK DEF IInv

LEMMA Inductive == IInv /\ [Next]_vars => IInv'
BY NextTypeOK, NextCallsFit, NextAgreement DEF IInv

LEMMA InvariantHolds == Spec => []IInv
BY InitIInv, Inductive, PTL DEF Spec

\* Every variable keeps its type, the secondary's mutex has one holder, and
\* the primary never outgrows max_entries.
THEOREM CacheTypeCorrect == Spec => []TypeOK
<1>1. IInv => TypeOK
  BY DEF IInv
<1> QED BY <1>1, InvariantHolds, PTL

\* After a write nobody disturbed, whatever is then read, promoted, evicted,
\* expired, flushed for another key or crashed, the two tiers agree.
THEOREM TiersAlwaysAgree == Spec => []TiersAgree
<1>1. IInv => TiersAgree
  BY DEF IInv, Agreement
<1> QED BY <1>1, InvariantHolds, PTL

\* What such a write left is in the file too: a crash loses none of it.
THEOREM SetAlwaysDurable == Spec => []SetIsDurable
<1>1. IInv => SetIsDurable
  BY DEF IInv, Agreement
<1> QED BY <1>1, InvariantHolds, PTL
=============================================================================
