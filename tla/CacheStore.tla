----------------------------- MODULE CacheStore -----------------------------
(***************************************************************************)
(* What a cache backend promises (trait CacheBackend of                    *)
(* cache/backend.rs): each call takes effect at one moment, a get          *)
(* answers with an entry that is stored and has not expired, and an        *)
(* entry goes only when somebody asked for its removal, when it is         *)
(* overwritten, or when it has expired.                                    *)
(***************************************************************************)
EXTENDS Naturals

CONSTANTS User, StoreKey, StoreEntry

VARIABLES
  store,   \* stored entries by their key
  hour,
  got,     \* got[u]: what the get of user u answers, {} or one entry
  asked    \* asked[u]: the keys u is having removed

storeVars == <<store, hour, got, asked>>

\* CacheEntry::is_expired; a lifetime of 0 stands for none.
HasExpired(e, time) == e.ttl > 0 /\ time - e.created > e.ttl

StoreInit ==
  /\ store = [k \in {} |-> 0]
  /\ hour = 0
  /\ got = [u \in User |-> {}]
  /\ asked = [u \in User |-> {}]

Ages == hour' = hour + 1 /\ UNCHANGED <<store, got, asked>>

Answers(u, k) ==
  /\ got' = [got EXCEPT ![u] = {store[j] : j \in {i \in {k} \cap DOMAIN store : ~ HasExpired(store[i], hour)}}]
  /\ UNCHANGED <<store, hour, asked>>

TakesAnswer(u) == got' = [got EXCEPT ![u] = {}] /\ UNCHANGED <<store, hour, asked>>

Stores(k, e) ==
  /\ store' = [j \in DOMAIN store \cup {k} |-> IF j = k THEN e ELSE store[j]]
  /\ UNCHANGED <<hour, got, asked>>

Drops(keys) == store' = [k \in DOMAIN store \ keys |-> store[k]]

\* Only entries that have expired.
Forgets(keys) ==
  /\ \A k \in keys \cap DOMAIN store : HasExpired(store[k], hour)
  /\ Drops(keys)
  /\ UNCHANGED <<hour, got, asked>>

AsksToErase(u, keys) ==
  /\ asked' = [asked EXCEPT ![u] = keys]
  /\ UNCHANGED <<store, hour, got>>

\* A remove or a clear, which may fail instead.
Erases(u) ==
  /\ Drops(asked[u]) \/ UNCHANGED store
  /\ asked' = [asked EXCEPT ![u] = {}]
  /\ UNCHANGED <<hour, got>>

StoreNext ==
  \/ Ages
  \/ \E u \in User :
       \/ TakesAnswer(u)
       \/ \E k \in StoreKey : Answers(u, k)
       \/ \E keys \in SUBSET StoreKey : AsksToErase(u, keys)
       \/ Erases(u)
  \/ \E k \in StoreKey, e \in StoreEntry : Stores(k, e)
  \/ \E keys \in SUBSET StoreKey : Forgets(keys)

StoreSpec == StoreInit /\ [][StoreNext]_storeVars
=============================================================================
