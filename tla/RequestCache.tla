---------------------------- MODULE RequestCache ----------------------------
(***************************************************************************)
(* The cache of responses in SQLite (wd-db) under the commands of          *)
(* commands/cache.rs.  Each command runs on a blocking thread with a       *)
(* connection of its own: a statement is atomic, a call is not.            *)
(*                                                                         *)
(* A row is the time it was written at; the response goes with it.  Rows   *)
(* written in the same moment are pruned in any order.  One profile is     *)
(* modelled, whose file exists.                                            *)
(***************************************************************************)
EXTENDS Naturals, FiniteSets

CONSTANTS
  Caller,
  Key,
  MaxEntries,  \* max_entries of the settings
  Ttl,         \* ttl of the settings
  MergeRows,   \* the files cache_merge is given: sets of [key, time]
  LastTime     \* bound: time stands still then

ASSUME RequestCacheAssumption ==
  /\ {MaxEntries, Ttl, LastTime} \subseteq Nat
  /\ \A rows \in MergeRows : rows \subseteq [key : Key, time : Nat]

VARIABLES
  clock,
  rows,     \* the table: key -> timestamp
  step,     \* step[c]: the statement caller c is about to run
  overfull  \* history: rows came without being pruned since the last full prune

requestVars == <<clock, rows, step, overfull>>

Resting == [at |-> "rest", count |-> 0, keys |-> {}, left |-> {}]

RequestInit ==
  /\ clock = 0
  /\ rows = [k \in {} |-> 0]
  /\ step = [c \in Caller |-> Resting]
  /\ overfull = FALSE

Goto(c, at) == step' = [step EXCEPT ![c].at = at]
Rest(c) == step' = [step EXCEPT ![c] = Resting]
Store(key, time) ==
  rows' = [k \in DOMAIN rows \cup {key} |-> IF k = key THEN time ELSE rows[k]]
Delete(keys) == rows' = [k \in DOMAIN rows \ keys |-> rows[k]]

AsTimePasses ==
  /\ clock < LastTime
  /\ clock' = clock + 1
  /\ UNCHANGED <<rows, step, overfull>>

\* db_cache_set: INSERT OR REPLACE, SELECT COUNT, then DELETE of the oldest.
CacheInsert(c, key) ==
  /\ step[c].at = "rest"
  /\ Store(key, clock)
  /\ Goto(c, "count")
  /\ UNCHANGED <<clock, overfull>>

\* One row more than the limit is left.
CacheCountLate(c) ==
  /\ step[c].at = "count"
  /\ IF Cardinality(DOMAIN rows) > MaxEntries + 1
     THEN /\ step' = [step EXCEPT ![c].at = "prune",
                                  ![c].count = Cardinality(DOMAIN rows) - MaxEntries]
          /\ UNCHANGED overfull
     ELSE Rest(c) /\ overfull' = FALSE
  /\ UNCHANGED <<clock, rows>>

CacheCount(c) ==
  /\ step[c].at = "count"
  /\ IF Cardinality(DOMAIN rows) > MaxEntries
     THEN /\ step' = [step EXCEPT ![c].at = "prune",
                                  ![c].count = Cardinality(DOMAIN rows) - MaxEntries]
          /\ UNCHANGED overfull
     ELSE Rest(c) /\ overfull' = FALSE
  /\ UNCHANGED <<clock, rows>>

\* The keys ORDER BY timestamp LIMIT n may pick.
Oldest(keys, n) ==
  /\ keys \subseteq DOMAIN rows
  /\ Cardinality(keys) = IF n < Cardinality(DOMAIN rows) THEN n ELSE Cardinality(DOMAIN rows)
  /\ \A k \in keys : \A kept \in DOMAIN rows \ keys : rows[k] <= rows[kept]

CachePrune(c) ==
  /\ step[c].at = "prune"
  /\ \E keys \in SUBSET DOMAIN rows : Oldest(keys, step[c].count) /\ Delete(keys)
  /\ Rest(c)
  /\ overfull' = (overfull /\ Cardinality(DOMAIN rows') > MaxEntries)
  /\ UNCHANGED clock

\* Any statement may fail, the table busy for too long: the call returns the
\* error and what it did stays.
CacheFails(c) ==
  /\ step[c].at \in {"count", "prune", "merge"}
  /\ Rest(c)
  /\ overfull' = TRUE
  /\ UNCHANGED <<clock, rows>>

\* db_cache_get: SELECT, then DELETE of a row that is too old.
CacheGet(c, key) ==
  /\ step[c].at = "rest"
  /\ key \in DOMAIN rows /\ clock - rows[key] > Ttl
  /\ step' = [step EXCEPT ![c].at = "expire", ![c].keys = {key}]
  /\ UNCHANGED <<clock, rows, overfull>>

CacheExpire(c) ==
  /\ step[c].at = "expire"
  /\ Delete(step[c].keys)
  /\ Rest(c)
  /\ UNCHANGED <<clock, overfull>>

CacheClear ==
  /\ Delete(DOMAIN rows)
  /\ UNCHANGED <<clock, step, overfull>>

\* cache_merge: the rows of a file one by one, and no pruning.
CacheMerge(c, file) ==
  /\ step[c].at = "rest"
  /\ step' = [step EXCEPT ![c].at = "merge", ![c].left = file]
  /\ UNCHANGED <<clock, rows, overfull>>

CacheMergeRow(c) ==
  /\ step[c].at = "merge"
  /\ \/ \E row \in step[c].left :
          /\ Store(row.key, row.time)
          /\ step' = [step EXCEPT ![c].left = @ \ {row}]
          /\ overfull' = TRUE
     \/ /\ step[c].left = {}
        /\ Rest(c)
        /\ UNCHANGED <<rows, overfull>>
  /\ UNCHANGED clock

RequestNext ==
  \/ AsTimePasses
  \/ CacheClear
  \/ \E c \in Caller :
       \/ \E key \in Key : CacheInsert(c, key) \/ CacheGet(c, key)
       \/ CacheCount(c) \/ CachePrune(c) \/ CacheExpire(c) \/ CacheFails(c)
       \/ \E file \in MergeRows : CacheMerge(c, file)
       \/ CacheMergeRow(c)

RequestSpec == RequestInit /\ [][RequestNext]_requestVars

-----------------------------------------------------------------------------
(* Property *)

\* Whatever the order of their statements, concurrent db_cache_set calls leave
\* at most max_entries rows once they are all done, unless one failed or rows
\* were merged since the rows were last found or brought within the limit.
SettledWithinLimit ==
  (\A c \in Caller : step[c].at \notin {"count", "prune"}) /\ ~ overfull =>
    Cardinality(DOMAIN rows) <= MaxEntries
=============================================================================
