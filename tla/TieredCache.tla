----------------------------- MODULE TieredCache ----------------------------
(***************************************************************************)
(* AdaptiveCacheManager (wd-proxy, cache/adaptive.rs) over an              *)
(* InMemoryCache as primary and a JsonFileCache as secondary, shared by    *)
(* threads, with crashes.                                                  *)
(*                                                                         *)
(* Abstracted: an entry is the order in which CacheEntry::new made it      *)
(* (its created_at), so a value and its age are one number and None is     *)
(* no entry; its ttl is the choice of when, if ever, it becomes expired.   *)
(* Metrics and hit_count are left out, but the flush a hit_count causes    *)
(* is not.  Each backend call is atomic (it holds the backend's mutex);    *)
(* a crash inside a flush finds the old file, for the file is renamed      *)
(* into place, and is a crash before the call.                             *)
(***************************************************************************)
EXTENDS Naturals, FiniteSets

CONSTANTS
  Thread,
  Key,
  Capacity,   \* max_entries of the primary; 0 is unbounded
  MaxEntries  \* bound: entries ever made

ASSUME CacheAssumption ==
  /\ IsFiniteSet(Key)
  /\ Capacity \in Nat
  /\ MaxEntries \in Nat

None == 0
Entry == 1..MaxEntries
Store == [Key -> Entry \cup {None}]

VARIABLES
  prim,     \* InMemoryCache.store
  sec,      \* JsonFileCache.store
  disk,     \* the file of the JsonFileCache
  expired,  \* entries older than their ttl
  made,     \* entries made so far
  call,     \* call[t]: the manager call thread t is in
  truth,    \* history: truth[k] is what the last write of k left there
  murky     \* history: what disturbed the last write of k, or came after it

stores == <<prim, sec, disk>>
history == <<truth, murky>>
vars == <<prim, sec, disk, expired, made, call, truth, murky>>

Idle == [op |-> "idle", keys |-> {}, entry |-> None, step |-> "primary"]
Write == {"set", "erase"}
Trouble == {"write", "read", "failure"}

\* get_mut and retain drop what has expired.
Live(e) == IF e \in expired THEN None ELSE e

InFlight(k, ops) == {t \in Thread : call[t].op \in ops /\ k \in call[t].keys}

\* The mutex around the secondary is kept from its get to the promotion.
SecondaryFree == \A t \in Thread : call[t].step # "promote"

Init ==
  /\ prim = [k \in Key |-> None]
  /\ sec = [k \in Key |-> None]
  /\ disk = [k \in Key |-> None]
  /\ expired = {}
  /\ made = 0
  /\ call = [t \in Thread |-> Idle]
  /\ truth = [k \in Key |-> None]
  /\ murky = [k \in Key |-> {}]

\* A call begins.  For the history: a write of a key nobody else is using
\* settles what went wrong with it before; one that meets another does not.
Begin(t, op, K, e) ==
  /\ call[t] = Idle
  /\ call' = [call EXCEPT ![t] = [op |-> op, keys |-> K, entry |-> e, step |-> "primary"]]
  /\ murky' = [k \in Key |->
       LET meetsWrite == InFlight(k, Write) # {}
           meetsRead == op \in Write /\ InFlight(k, {"get"}) # {}
           clash == (IF meetsWrite /\ op \in Write THEN {"write"} ELSE {})
               \cup (IF meetsRead \/ (meetsWrite /\ op = "get") THEN {"read"} ELSE {})
       IN IF k \notin K THEN murky[k]
          ELSE IF op \in Write /\ clash = {} THEN {} ELSE murky[k] \cup clash]
  /\ UNCHANGED <<stores, expired, truth>>

At(t, op, step) == call[t].op = op /\ call[t].step = step
GoTo(t, step) == call' = [call EXCEPT ![t].step = step]
Done(t) == call' = [call EXCEPT ![t] = Idle]
----------------------------------------------------------------------------
(* The two backends.                                                      *)

\* The store of the primary after set: the oldest entry makes room, unless
\* the key is there already.
Put(k, e) ==
  LET used == {j \in Key : prim[j] # None}
      oldest == {j \in used : \A i \in used : prim[j] <= prim[i]}
      full == Capacity > 0 /\ Cardinality(used) >= Capacity /\ prim[k] = None
  IN [j \in Key |-> IF j = k THEN e ELSE IF full /\ j \in oldest THEN None ELSE prim[j]]

\* The secondary changes its store and then flushes, which may fail: the
\* store stays changed.
FlushNothing(store, ok) ==
  /\ sec' = store
  /\ disk' = disk

Flush(store, ok) ==
  /\ sec' = store
  /\ disk' = IF ok THEN store ELSE disk
----------------------------------------------------------------------------
(* get.                                                                   *)

GetPrimary(t) ==
  /\ At(t, "get", "primary")
  /\ \E k \in call[t].keys :
       /\ prim' = [prim EXCEPT ![k] = Live(@)]
       /\ IF Live(prim[k]) # None THEN Done(t) ELSE GoTo(t, "secondary")
  /\ UNCHANGED <<sec, disk, expired, made, history>>

\* An entry found is flushed (its hit_count) or, once expired, dropped and
\* flushed; an error of the flush is taken for a miss.
GetSecondary(t) ==
  /\ At(t, "get", "secondary")
  /\ SecondaryFree
  /\ \E k \in call[t].keys :
       \/ /\ sec[k] = None
          /\ Done(t)
          /\ UNCHANGED <<sec, disk>>
       \/ /\ sec[k] # None
          /\ \E ok \in BOOLEAN :
               /\ Flush([sec EXCEPT ![k] = Live(@)], ok)
               /\ IF ok /\ Live(sec[k]) # None
                  THEN call' = [call EXCEPT ![t].step = "promote", ![t].entry = sec[k]]
                  ELSE Done(t)
  /\ UNCHANGED <<prim, expired, made, history>>

GetPromote(t) ==
  /\ At(t, "get", "promote")
  /\ \E k \in call[t].keys : prim' = Put(k, call[t].entry)
  /\ Done(t)
  /\ UNCHANGED <<sec, disk, expired, made, history>>
----------------------------------------------------------------------------
(* set, remove and clear: the primary, then the secondary, whose error is  *)
(* dropped.                                                               *)

\* The write of K has ended: it leaves e there.
Settle(t, e, ok) ==
  /\ truth' = [k \in Key |-> IF k \in call[t].keys THEN e ELSE truth[k]]
  /\ murky' = [k \in Key |-> IF k \in call[t].keys /\ ~ok
                             THEN murky[k] \cup {"failure"} ELSE murky[k]]

SetPrimary(t) ==
  /\ At(t, "set", "primary")
  /\ \E k \in call[t].keys : prim' = Put(k, call[t].entry)
  /\ GoTo(t, "secondary")
  /\ UNCHANGED <<sec, disk, expired, made, history>>

SetSecondary(t) ==
  /\ At(t, "set", "secondary")
  /\ SecondaryFree
  /\ \E ok \in BOOLEAN :
       /\ Flush([k \in Key |-> IF k \in call[t].keys THEN call[t].entry ELSE sec[k]], ok)
       /\ Settle(t, call[t].entry, ok)
  /\ Done(t)
  /\ UNCHANGED <<prim, expired, made>>

\* remove(k) erases {k}, clear erases every key.
ErasePrimary(t) ==
  /\ At(t, "erase", "primary")
  /\ prim' = [k \in Key |-> IF k \in call[t].keys THEN None ELSE prim[k]]
  /\ GoTo(t, "secondary")
  /\ UNCHANGED <<sec, disk, expired, made, history>>

\* An erase that never reaches the secondary.
EraseSecondaryForgotten(t) ==
  /\ At(t, "erase", "secondary")
  /\ SecondaryFree
  /\ Settle(t, None, TRUE)
  /\ Done(t)
  /\ UNCHANGED <<stores, expired, made>>

EraseSecondary(t) ==
  /\ At(t, "erase", "secondary")
  /\ SecondaryFree
  /\ \E ok \in BOOLEAN :
       /\ Flush([k \in Key |-> IF k \in call[t].keys THEN None ELSE sec[k]], ok)
       /\ Settle(t, None, ok)
  /\ Done(t)
  /\ UNCHANGED <<prim, expired, made>>
----------------------------------------------------------------------------
(* evict_all_expired.                                                     *)

EvictPrimary(t) ==
  /\ At(t, "evict", "primary")
  /\ prim' = [k \in Key |-> Live(prim[k])]
  /\ GoTo(t, "secondary")
  /\ UNCHANGED <<sec, disk, expired, made, history>>

\* The file is flushed only if something went.
EvictSecondary(t) ==
  /\ At(t, "evict", "secondary")
  /\ SecondaryFree
  /\ LET kept == [k \in Key |-> Live(sec[k])]
     IN IF kept = sec THEN UNCHANGED <<sec, disk>>
        ELSE \E ok \in BOOLEAN : Flush(kept, ok)
  /\ Done(t)
  /\ UNCHANGED <<prim, expired, made, history>>
----------------------------------------------------------------------------
Expire ==
  /\ \E e \in 1..made : expired' = expired \cup {e}
  /\ UNCHANGED <<stores, made, call, history>>

\* The process dies: the primary is empty, the secondary is what the file
\* holds, and the writes under way are left half done.
Crash ==
  /\ prim' = [k \in Key |-> None]
  /\ sec' = disk
  /\ call' = [t \in Thread |-> Idle]
  /\ murky' = [k \in Key |-> IF InFlight(k, Write) # {}
                             THEN murky[k] \cup {"failure"} ELSE murky[k]]
  /\ UNCHANGED <<disk, expired, made, truth>>

Call(t) ==
  \/ \E k \in Key : Begin(t, "get", {k}, None) /\ UNCHANGED made
  \/ /\ made < MaxEntries
     /\ made' = made + 1
     /\ \E k \in Key : Begin(t, "set", {k}, made + 1)
  \/ \E k \in Key : Begin(t, "erase", {k}, None) /\ UNCHANGED made
  \/ Begin(t, "erase", Key, None) /\ UNCHANGED made
  \/ Begin(t, "evict", Key, None) /\ UNCHANGED made

Step(t) ==
  \/ GetPrimary(t)
  \/ GetSecondary(t)
  \/ GetPromote(t)
  \/ SetPrimary(t)
  \/ SetSecondary(t)
  \/ ErasePrimary(t)
  \/ EraseSecondary(t)
  \/ EvictPrimary(t)
  \/ EvictSecondary(t)

Next ==
  \/ \E t \in Thread : Call(t) \/ Step(t)
  \/ Expire
  \/ Crash

Spec == Init /\ [][Next]_vars
----------------------------------------------------------------------------
(* Properties.                                                            *)

\* Every variable keeps its type, the secondary's mutex has one holder at most
\* and the primary never outgrows max_entries.
TypeOK ==
  /\ prim \in Store
  /\ sec \in Store
  /\ disk \in Store
  /\ expired \subseteq Entry
  /\ made \in 0..MaxEntries
  /\ call \in [Thread -> [op : {"idle", "get", "evict"} \cup Write, keys : SUBSET Key,
                          entry : Entry \cup {None},
                          step : {"primary", "secondary", "promote"}]]
  /\ truth \in Store
  /\ murky \in [Key -> SUBSET Trouble]
  /\ \A t, u \in Thread : call[t].step = "promote" /\ call[u].step = "promote" => t = u
  /\ Capacity > 0 => Cardinality({k \in Key : prim[k] # None}) <= Capacity

\* No write of k is under way and none of the given troubles touched the last.
Settled(k, allowed) == InFlight(k, Write) = {} /\ murky[k] \subseteq allowed

\* A store holds what the last write of k left, or has let it expire.
Holds(store, k) == store[k] = truth[k] \/ (store[k] = None /\ truth[k] \in expired)

\* After a write nobody disturbed the two tiers never disagree, whatever is
\* then read, promoted, evicted, expired, flushed for another key or crashed:
\* the secondary has what was written, the primary that or nothing.
TiersAgree ==
  \A k \in Key : Settled(k, {}) =>
    /\ prim[k] \in {None, truth[k]}
    /\ Holds(sec, k)

\* What such a write left is in the file too, so a crash loses none of it, and
\* a failing flush for another key does not take it back.
SetIsDurable == \A k \in Key : Settled(k, {}) => Holds(disk, k)

\* "Store (or overwrite) an entry" and "Remove a specific key" (backend.rs):
\* once a write that met no other write and no error has returned, a reader
\* finds what it left, even if some get of that key was under way.
CompletedWriteWins ==
  \A k \in Key :
    (Settled(k, {"read"}) /\ InFlight(k, {"get"}) = {}) => prim[k] \in {None, truth[k]}
=============================================================================
