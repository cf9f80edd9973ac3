------------------------------ MODULE SqlCache ------------------------------
(***************************************************************************)
(* The SQL cache backends of wd-proxy (cache/sqlite.rs,                    *)
(* cache/postgres.rs). Threads share one connection behind a mutex.  A     *)
(* get is a SELECT, a look at the clock and then a DELETE or an UPDATE;    *)
(* the other operations are one statement.  A statement may fail, which    *)
(* ends its call with an error. Hit counts are left out.                   *)
(***************************************************************************)
EXTENDS Naturals

CONSTANTS
  DbThread, DbKey,
  DbTtl,      \* lifetimes an entry is stored with; 0 stands for none
  LastHour    \* bound of the clock

VARIABLES
  dbRows,       \* the table proxy_cache
  dbClock,
  dbLock,     \* the thread that holds the mutex, or NoThread
  dbCall,     \* dbCall[t]: the call of thread t
  dbAnswer    \* dbAnswer[t]: what its get is about to return, {} or one entry

sqlVars == <<dbRows, dbClock, dbLock, dbCall, dbAnswer>>

NoThread == "nobody"
NoCall == [op |-> "idle", keys |-> {}, row |-> {}, at |-> ""]
ASSUME DbAssumption ==
  /\ DbTtl \subseteq Nat /\ LastHour \in Nat
  /\ NoThread \notin DbThread

DbEntry == [created : 0..LastHour, ttl : DbTtl]
DbOps == {"get", "set", "remove", "clear", "evict"}

RowExpired(e) == e.ttl > 0 /\ dbClock - e.created > e.ttl

SqlInit ==
  /\ dbRows = [k \in {} |-> 0]
  /\ dbClock = 0
  /\ dbLock = NoThread
  /\ dbCall = [t \in DbThread |-> NoCall]
  /\ dbAnswer = [t \in DbThread |-> {}]

HourPasses ==
  /\ dbClock < LastHour
  /\ dbClock' = dbClock + 1
  /\ UNCHANGED <<dbRows, dbLock, dbCall, dbAnswer>>

\* A thread calls the backend and waits for the mutex; a set brings its entry.
Calls(t, op, keys) ==
  /\ dbCall[t] = NoCall
  /\ \/ op \in {"get", "remove"} /\ (\E k \in DbKey : keys = {k})
     \/ op = "clear" /\ keys = DbKey
     \/ op = "evict" /\ keys = {}
  /\ dbCall' = [dbCall EXCEPT ![t] = [op |-> op, keys |-> keys, row |-> {}, at |-> "lock"]]
  /\ UNCHANGED <<dbRows, dbClock, dbLock, dbAnswer>>

CallsSet(t, k, ttl) ==
  /\ dbCall[t] = NoCall
  /\ dbCall' = [dbCall EXCEPT ![t] = [op |-> "set", keys |-> {k}, at |-> "lock",
                                      row |-> {[created |-> dbClock, ttl |-> ttl]}]]
  /\ UNCHANGED <<dbRows, dbClock, dbLock, dbAnswer>>

Ends(t) == dbCall' = [dbCall EXCEPT ![t] = NoCall] /\ dbLock' = NoThread

WithoutRows(keys) == [k \in DOMAIN dbRows \ keys |-> dbRows[k]]

GetsMutex(t) == dbCall[t].at = "lock" /\ dbLock = NoThread

\* The mutex is let go after the SELECT.
SelectUnlocking(t) ==
  /\ GetsMutex(t) /\ dbCall[t].op = "get"
  /\ \/ dbCall[t].keys \cap DOMAIN dbRows = {} /\ Ends(t)
     \/ /\ dbCall[t].keys \subseteq DOMAIN dbRows
        /\ dbCall' = [dbCall EXCEPT ![t].row = {dbRows[k] : k \in dbCall[t].keys},
                                    ![t].at = "check"]
        /\ UNCHANGED dbLock
  /\ UNCHANGED <<dbRows, dbClock, dbAnswer>>

\* get: lock, then SELECT.
Select(t) ==
  /\ GetsMutex(t) /\ dbCall[t].op = "get"
  /\ \/ dbCall[t].keys \cap DOMAIN dbRows = {} /\ Ends(t)
     \/ /\ dbCall[t].keys \subseteq DOMAIN dbRows
        /\ dbCall' = [dbCall EXCEPT ![t] =
             [dbCall[t] EXCEPT !.row = {dbRows[k] : k \in dbCall[t].keys}, !.at = "check"]]
        /\ dbLock' = t
  /\ UNCHANGED <<dbRows, dbClock, dbAnswer>>

\* The row read is held against the clock.
CheckExpiry(t) ==
  /\ dbCall[t].at = "check"
  /\ LET e == CHOOSE r \in dbCall[t].row : TRUE
     IN IF RowExpired(e)
        THEN /\ dbCall' = [dbCall EXCEPT ![t].at = "delete"]
             /\ UNCHANGED dbAnswer
        ELSE /\ dbCall' = [dbCall EXCEPT ![t].at = "count"]
             /\ dbAnswer' = [dbAnswer EXCEPT ![t] = {e}]
  /\ UNCHANGED <<dbRows, dbClock, dbLock>>

\* An expired row is deleted by its key.
DeleteExpired(t) ==
  /\ dbCall[t].at = "delete"
  /\ dbRows' = WithoutRows(dbCall[t].keys)
  /\ Ends(t)
  /\ UNCHANGED <<dbClock, dbAnswer>>

\* UPDATE of the hit count, then the answer is returned.
CountHit(t) ==
  /\ dbCall[t].at = "count"
  /\ Ends(t)
  /\ dbAnswer' = [dbAnswer EXCEPT ![t] = {}]
  /\ UNCHANGED <<dbRows, dbClock>>

\* set, remove, clear, evict_expired: lock and one statement.  The eviction
\* reads the clock just before its DELETE; a row expired then still is.
Write(t) ==
  /\ GetsMutex(t) /\ dbCall[t].op # "get"
  /\ dbRows' = CASE dbCall[t].op = "set" ->
                   [k \in DOMAIN dbRows \cup dbCall[t].keys |->
                      IF k \in dbCall[t].keys THEN CHOOSE e \in dbCall[t].row : TRUE ELSE dbRows[k]]
                [] dbCall[t].op = "evict" -> WithoutRows({k \in DOMAIN dbRows : RowExpired(dbRows[k])})
                [] OTHER -> WithoutRows(dbCall[t].keys)
  /\ Ends(t)
  /\ UNCHANGED <<dbClock, dbAnswer>>

\* Any statement may fail: nothing is written, the call ends with an error.
StatementFails(t) ==
  /\ dbCall[t].at \in {"delete", "count"} \/ GetsMutex(t)
  /\ Ends(t)
  /\ dbAnswer' = [dbAnswer EXCEPT ![t] = {}]
  /\ UNCHANGED <<dbRows, dbClock>>

SqlNext ==
  \/ HourPasses
  \/ \E t \in DbThread :
       \/ \E op \in DbOps, keys \in SUBSET DbKey : Calls(t, op, keys)
       \/ \E k \in DbKey, ttl \in DbTtl : CallsSet(t, k, ttl)
       \/ Select(t) \/ CheckExpiry(t) \/ DeleteExpired(t) \/ CountHit(t)
       \/ Write(t) \/ StatementFails(t)

SqlSpec == SqlInit /\ [][SqlNext]_sqlVars

Backend == INSTANCE CacheStore WITH
  User <- DbThread, StoreKey <- DbKey, StoreEntry <- DbEntry,
  store <- dbRows, hour <- dbClock, got <- dbAnswer,
  asked <- [t \in DbThread |-> IF dbCall[t].op \in {"remove", "clear"} THEN dbCall[t].keys ELSE {}]

(***************************************************************************)
(* The backends implement the trait: whatever the threads do between its   *)
(* statements, a get answers with a row of that moment and no row that     *)
(* is still good disappears unless its removal was asked for.              *)
(***************************************************************************)
ImplementsStore == Backend!StoreSpec
=============================================================================
