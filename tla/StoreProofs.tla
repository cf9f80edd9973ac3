---------------------------- MODULE StoreProofs -----------------------------
(***************************************************************************)
(* The parts that keep rows in databases and files.                        *)
(*                                                                         *)
(* The SQL backends of wd-proxy implement the cache's trait for any        *)
(* threads, keys and lifetimes: what a get reads under the mutex is still  *)
(* the row when it deletes or answers, because every write takes the mutex *)
(* first.  The request cache of wd-db has no mutex across the statements   *)
(* of a call, and settles within its limit all the same: while more rows   *)
(* than the limit are left, a call that will count them, or one that has   *)
(* counted at least as many, is under way.  The history of a profile shows *)
(* its own lookups only: a history holds lookups of the profile in its     *)
(* name, or merged ones, wherever the file lies.  The history page is      *)
(* never past its last row, unless the profile or the day has changed      *)
(* since its first page, because rows only grow otherwise.  The diffs of   *)
(* the snapshots of a domain lose nothing: replayed one after the other    *)
(* they lead from each snapshot to the next.                               *)
(***************************************************************************)
EXTENDS SqlCache, RequestCache, Profiles, HistoryView, Snapshots, SiftProofs,
        FiniteSetTheorems, TLAPS

(* The SQL backends.                                                      *)

CallRecord ==
  [op : DbOps \cup {"idle"}, keys : SUBSET DbKey, row : SUBSET DbEntry,
   at : {"", "lock", "check", "delete", "count"}]

\* The call has read and holds the mutex.
Working(c) == c.at \in {"check", "delete", "count"}

Expired(e, time) == e.ttl > 0 /\ time - e.created > e.ttl

\* What holds of a call c and of the answer a of its thread.
CallOK(c, a, held, time) ==
  /\ c \in CallRecord /\ a \in SUBSET DbEntry
  /\ c.op = "idle" => c.at = ""
  /\ c.op = "get" => \E k \in DbKey : c.keys = {k}
  /\ c.op = "set" => \E k \in DbKey, e \in DbEntry : c.keys = {k} /\ c.row = {e}
  /\ Working(c) =>
       /\ c.op = "get"
       /\ \E k \in DbKey : /\ k \in DOMAIN held /\ c.keys = {k} /\ c.row = {held[k]}
                           /\ c.at = "delete" => Expired(held[k], time)
  /\ c.at # "count" => a = {}

Rows(held) ==
  /\ held = [k \in DOMAIN held |-> held[k]]
  /\ \A k \in DOMAIN held : k \in DbKey /\ held[k] \in DbEntry

SqlInv ==
  /\ dbClock \in 0..LastHour /\ Rows(dbRows)
  /\ DOMAIN dbCall = DbThread /\ dbCall = [t \in DbThread |-> dbCall[t]]
  /\ DOMAIN dbAnswer = DbThread /\ dbAnswer = [t \in DbThread |-> dbAnswer[t]]
  /\ \A t \in DbThread : /\ CallOK(dbCall[t], dbAnswer[t], dbRows, dbClock)
                         /\ Working(dbCall[t]) => dbLock = t

\* The removals asked for, as the abstract store sees them.
Removal(c) == IF c.op \in {"remove", "clear"} THEN c.keys ELSE {}
Removals == [t \in DbThread |-> IF dbCall[t].op \in {"remove", "clear"} THEN dbCall[t].keys ELSE {}]

-----------------------------------------------------------------------------
(* The invariant *)

LEMMA IdleOK ==
  ASSUME NEW held, NEW time
  PROVE  CallOK(NoCall, {}, held, time) /\ ~ Working(NoCall)
BY DEF CallOK, NoCall, CallRecord, Working

LEMMA NoCallFacts == NoCall.at # "count" /\ Removal(NoCall) = {}
BY DEF NoCall, Removal

\* A call that is not at work does not mind the table.
LEMMA Waits ==
  ASSUME NEW c, NEW a, NEW held, NEW time, NEW new, NEW later,
         CallOK(c, a, held, time), ~ Working(c)
  PROVE  CallOK(c, a, new, later)
BY DEF CallOK

\* A step of one thread keeps the invariant when its call is in order after it,
\* and table or lock change only with no other thread at work.
LEMMA OneThread ==
  ASSUME SqlInv, NEW t \in DbThread, NEW c, NEW a,
         dbCall' = [dbCall EXCEPT ![t] = c], dbAnswer' = [dbAnswer EXCEPT ![t] = a],
         dbClock' = dbClock, Rows(dbRows)',
         CallOK(c, a, dbRows', dbClock), Working(c) => dbLock' = t,
         \/ UNCHANGED <<dbRows, dbLock>>
         \/ \A u \in DbThread \ {t} : ~ Working(dbCall[u])
  PROVE  SqlInv'
<1>1. /\ DOMAIN dbCall = DbThread /\ DOMAIN dbAnswer = DbThread
      /\ \A u \in DbThread : /\ CallOK(dbCall[u], dbAnswer[u], dbRows, dbClock)
                             /\ Working(dbCall[u]) => dbLock = u
  BY DEF SqlInv
<1>2. dbClock' \in 0..LastHour
  BY DEF SqlInv
<1>3. /\ DOMAIN dbCall' = DbThread /\ dbCall' = [u \in DbThread |-> dbCall'[u]]
      /\ DOMAIN dbAnswer' = DbThread /\ dbAnswer' = [u \in DbThread |-> dbAnswer'[u]]
  BY <1>1
<1>4. ASSUME NEW u \in DbThread
      PROVE  /\ CallOK(dbCall'[u], dbAnswer'[u], dbRows', dbClock')
             /\ Working(dbCall'[u]) => dbLock' = u
  <2>1. CASE u = t
    BY <1>1, <2>1
  <2>2. CASE u # t
    <3>1. dbCall'[u] = dbCall[u] /\ dbAnswer'[u] = dbAnswer[u]
      BY <1>1, <2>2
    <3>2. CASE Working(dbCall[u])
      BY <1>1, <2>2, <3>1, <3>2
    <3>3. CASE ~ Working(dbCall[u])
      BY <1>1, <3>1, <3>3, Waits
    <3> QED
      BY <3>2, <3>3
  <2> QED
    BY <2>1, <2>2
<1> QED
  BY <1>2, <1>3, <1>4 DEF SqlInv

\* The abstract removals follow the call that changes.
LEMMA RemovalsFollow ==
  ASSUME SqlInv, NEW t \in DbThread, NEW c, dbCall' = [dbCall EXCEPT ![t] = c]
  PROVE  /\ Removals' = [Removals EXCEPT ![t] = Removal(c)]
         /\ Removal(c) = Removal(dbCall[t]) => Removals' = Removals
<1>1. DOMAIN dbCall = DbThread
  BY DEF SqlInv
<1>2. dbCall'[t] = c /\ \A u \in DbThread \ {t} : dbCall'[u] = dbCall[u]
  BY <1>1
<1>3. Removals' = [u \in DbThread |-> Removal(dbCall'[u])]
  BY DEF Removals, Removal
<1>4. Removals = [u \in DbThread |-> Removal(dbCall[u])]
  BY DEF Removals, Removal
<1> HIDE DEF Removal
<1> QED
  BY <1>2, <1>3, <1>4

\* Nobody else is at work while a thread is, or while the mutex is free.
LEMMA AloneAtWork ==
  ASSUME SqlInv, NEW t \in DbThread, Working(dbCall[t]) \/ GetsMutex(t)
  PROVE  \A u \in DbThread \ {t} : ~ Working(dbCall[u])
BY DbAssumption DEF SqlInv, GetsMutex

LEMMA WithoutRowsOK ==
  ASSUME NEW keys, Rows(dbRows)
  PROVE  Rows(WithoutRows(keys))
BY DEF Rows, WithoutRows

-----------------------------------------------------------------------------
(* Steps of a call *)

LEMMA StoreStutters ==
  ASSUME UNCHANGED <<dbRows, dbClock, dbAnswer>>, Removals' = Removals
  PROVE  [Backend!StoreNext]_(Backend!storeVars)
BY DEF Removals, Backend!storeVars

\* What the invariant says of a thread and its call.
LEMMA ThreadFacts ==
  ASSUME SqlInv, NEW t \in DbThread
  PROVE  /\ CallOK(dbCall[t], dbAnswer[t], dbRows, dbClock)
         /\ Working(dbCall[t]) => dbLock = t
         /\ dbCall[t].at # "count" => dbAnswer[t] = {}
         /\ dbAnswer = [dbAnswer EXCEPT ![t] = dbAnswer[t]]
         /\ dbAnswer[t] \in SUBSET DbEntry /\ Rows(dbRows)
BY DEF SqlInv, CallOK

LEMMA CallsStep ==
  ASSUME SqlInv, NEW t \in DbThread, NEW op \in DbOps, NEW keys \in SUBSET DbKey,
         Calls(t, op, keys)
  PROVE  SqlInv' /\ [Backend!StoreNext]_(Backend!storeVars)
<1>1. PICK c : c = [op |-> op, keys |-> keys, row |-> {}, at |-> "lock"]
  OBVIOUS
<1>2. PICK a : a = dbAnswer[t]
  OBVIOUS
<1>3. /\ dbCall[t] = NoCall /\ dbCall' = [dbCall EXCEPT ![t] = c]
      /\ UNCHANGED <<dbRows, dbClock, dbLock, dbAnswer>>
  BY <1>1 DEF Calls
<1>4. a = {}
  BY <1>2, <1>3, ThreadFacts, NoCallFacts
<1>5. op # "set" /\ (op = "get" => \E k \in DbKey : keys = {k})
  BY DEF Calls
<1>6. CallOK(c, a, dbRows, dbClock) /\ ~ Working(c)
  BY <1>1, <1>4, <1>5 DEF CallOK, CallRecord, Working, DbOps
<1>7. SqlInv'
  BY <1>2, <1>3, <1>6, ThreadFacts, OneThread
<1>8. Removals' = [Removals EXCEPT ![t] = Removal(c)]
  BY <1>3, RemovalsFollow
<1>9. Removal(c) \in SUBSET DbKey
  BY <1>1 DEF Removal
<1>10. Backend!AsksToErase(t, Removal(c))
  BY <1>3, <1>8 DEF Backend!AsksToErase, Removals
<1> QED
  BY <1>7, <1>9, <1>10 DEF Backend!StoreNext

LEMMA CallsSetStep ==
  ASSUME SqlInv, NEW t \in DbThread, NEW k \in DbKey, NEW ttl \in DbTtl, CallsSet(t, k, ttl)
  PROVE  SqlInv' /\ [Backend!StoreNext]_(Backend!storeVars)
<1>1. PICK e : e = [created |-> dbClock, ttl |-> ttl]
  OBVIOUS
<1>2. PICK c : c = [op |-> "set", keys |-> {k}, at |-> "lock", row |-> {e}]
  OBVIOUS
<1>3. PICK a : a = dbAnswer[t]
  OBVIOUS
<1>4. /\ dbCall[t] = NoCall /\ dbCall' = [dbCall EXCEPT ![t] = c]
      /\ UNCHANGED <<dbRows, dbClock, dbLock, dbAnswer>>
  BY <1>1, <1>2 DEF CallsSet
<1>5. a = {}
  BY <1>3, <1>4, ThreadFacts, NoCallFacts
<1>6. e \in DbEntry
  BY <1>1 DEF SqlInv, DbEntry
<1>7. CallOK(c, a, dbRows, dbClock) /\ ~ Working(c)
  BY <1>2, <1>5, <1>6 DEF CallOK, CallRecord, Working, DbOps
<1>8. SqlInv'
  BY <1>3, <1>4, <1>7, ThreadFacts, OneThread
<1>9. Removals' = Removals
  <2>1. Removal(c) = {}
    BY <1>2 DEF Removal
  <2> QED
    BY <1>4, <2>1, RemovalsFollow, NoCallFacts
<1> QED
  BY <1>4, <1>8, <1>9, StoreStutters

\* A call ends without an answer and changes nothing.
LEMMA EndsQuietly ==
  ASSUME SqlInv, NEW t \in DbThread, Ends(t), UNCHANGED <<dbRows, dbClock, dbAnswer>>,
         dbCall[t].at # "count", Removal(dbCall[t]) = {}, Working(dbCall[t]) \/ GetsMutex(t)
  PROVE  SqlInv' /\ [Backend!StoreNext]_(Backend!storeVars)
<1>1. dbCall' = [dbCall EXCEPT ![t] = NoCall] /\ dbAnswer' = [dbAnswer EXCEPT ![t] = {}]
  BY ThreadFacts DEF Ends, CallOK
<1>2. CallOK(NoCall, {}, dbRows', dbClock) /\ ~ Working(NoCall)
  BY IdleOK
<1>3. SqlInv'
  BY <1>1, <1>2, AloneAtWork, ThreadFacts, OneThread
<1>4. Removals' = Removals
  BY <1>1, RemovalsFollow, NoCallFacts
<1> QED
  BY <1>3, <1>4, StoreStutters

LEMMA SelectStep ==
  ASSUME SqlInv, NEW t \in DbThread, Select(t)
  PROVE  SqlInv' /\ [Backend!StoreNext]_(Backend!storeVars)
<1>1. PICK old, a : old = dbCall[t] /\ a = dbAnswer[t]
  OBVIOUS
<1>2. /\ GetsMutex(t) /\ old.op = "get" /\ old.at = "lock"
      /\ UNCHANGED <<dbRows, dbClock, dbAnswer>>
  BY <1>1 DEF Select, GetsMutex
<1>3. CASE Ends(t)
  BY <1>1, <1>2, <1>3, EndsQuietly DEF Removal
<1>4. CASE /\ old.keys \subseteq DOMAIN dbRows
           /\ dbCall' = [dbCall EXCEPT ![t] =
                [dbCall[t] EXCEPT !.row = {dbRows[k] : k \in dbCall[t].keys}, !.at = "check"]]
           /\ dbLock' = t
  <2>1. CallOK(old, a, dbRows, dbClock) /\ old \in CallRecord /\ a = {}
    BY <1>1, <1>2, ThreadFacts DEF CallOK
  <2>2. PICK k \in DbKey : old.keys = {k}
    BY <1>2, <2>1 DEF CallOK
  <2>3. k \in DOMAIN dbRows /\ dbRows[k] \in DbEntry /\ {dbRows[j] : j \in old.keys} = {dbRows[k]}
    BY <1>4, <2>2, ThreadFacts DEF Rows
  <2>4. PICK c : c = [old EXCEPT !.row = {dbRows[k]}, !.at = "check"]
    OBVIOUS
  <2>5. c \in CallRecord /\ c.op = "get" /\ c.keys = {k} /\ c.row = {dbRows[k]} /\ c.at = "check"
    BY <1>2, <2>1, <2>2, <2>3, <2>4 DEF CallRecord
  <2>6. CallOK(c, a, dbRows, dbClock)
    BY <2>1, <2>3, <2>5 DEF CallOK
  <2>7. dbCall' = [dbCall EXCEPT ![t] = c]
    BY <1>1, <1>4, <2>3, <2>4
  <2>8. SqlInv'
    BY <1>1, <1>2, <1>4, <2>6, <2>7, AloneAtWork, ThreadFacts, OneThread
  <2>9. Removals' = Removals
    BY <1>1, <1>2, <2>5, <2>7, RemovalsFollow DEF Removal
  <2> QED
    BY <1>2, <2>8, <2>9, StoreStutters
<1> QED
  BY <1>1, <1>3, <1>4 DEF Select

LEMMA CheckExpiryStep ==
  ASSUME SqlInv, NEW t \in DbThread, CheckExpiry(t)
  PROVE  SqlInv' /\ [Backend!StoreNext]_(Backend!storeVars)
<1>1. PICK old, a : old = dbCall[t] /\ a = dbAnswer[t]
  OBVIOUS
<1>2. /\ old.at = "check" /\ UNCHANGED <<dbRows, dbClock, dbLock>> /\ CallOK(old, a, dbRows, dbClock)
      /\ Working(old) /\ old.op = "get" /\ old \in CallRecord /\ a = {} /\ dbLock = t
  BY <1>1, ThreadFacts DEF CheckExpiry, CallOK, Working
<1>3. PICK k \in DbKey : k \in DOMAIN dbRows /\ old.keys = {k} /\ old.row = {dbRows[k]}
  BY <1>2 DEF CallOK
<1>4. PICK e : e = dbRows[k]
  OBVIOUS
<1>5. (CHOOSE r \in old.row : TRUE) = e /\ e \in DbEntry
  BY <1>3, <1>4, ThreadFacts DEF Rows
<1>6. CASE RowExpired(e)
  <2>1. PICK c : c = [old EXCEPT !.at = "delete"]
    OBVIOUS
  <2>2. dbCall' = [dbCall EXCEPT ![t] = c] /\ dbAnswer' = dbAnswer
    BY <1>1, <1>5, <1>6, <2>1 DEF CheckExpiry
  <2>3. c \in CallRecord /\ c.op = "get" /\ c.keys = {k} /\ c.row = {e} /\ c.at = "delete"
    BY <1>2, <1>3, <1>4, <2>1 DEF CallRecord
  <2>4. CallOK(c, a, dbRows, dbClock)
    BY <1>2, <1>3, <1>4, <1>6, <2>3 DEF CallOK, RowExpired, Expired
  <2>5. SqlInv'
    BY <1>1, <1>2, <2>2, <2>4, ThreadFacts, OneThread
  <2>6. Removals' = Removals
    BY <1>1, <1>2, <2>2, <2>3, RemovalsFollow DEF Removal
  <2> QED
    BY <1>2, <2>2, <2>5, <2>6, StoreStutters
<1>7. CASE ~ RowExpired(e)
  <2>1. PICK c : c = [old EXCEPT !.at = "count"]
    OBVIOUS
  <2>2. dbCall' = [dbCall EXCEPT ![t] = c] /\ dbAnswer' = [dbAnswer EXCEPT ![t] = {e}]
    BY <1>1, <1>5, <1>7, <2>1 DEF CheckExpiry
  <2>3. c \in CallRecord /\ c.op = "get" /\ c.keys = {k} /\ c.row = {e} /\ c.at = "count"
    BY <1>2, <1>3, <1>4, <2>1 DEF CallRecord
  <2>4. CallOK(c, {e}, dbRows, dbClock)
    BY <1>2, <1>3, <1>4, <1>5, <2>3 DEF CallOK
  <2>5. SqlInv'
    BY <1>2, <2>2, <2>4, ThreadFacts, OneThread
  <2>6. Removals' = Removals
    BY <1>1, <1>2, <2>2, <2>3, RemovalsFollow DEF Removal
  <2>7. {dbRows[j] : j \in {i \in {k} \cap DOMAIN dbRows : ~ Backend!HasExpired(dbRows[i], dbClock)}} = {e}
    BY <1>3, <1>4, <1>7 DEF RowExpired, Backend!HasExpired
  <2>8. Backend!Answers(t, k)
    BY <1>2, <2>2, <2>6, <2>7 DEF Backend!Answers, Removals
  <2> QED
    BY <1>3, <2>5, <2>8 DEF Backend!StoreNext
<1> QED
  BY <1>6, <1>7

LEMMA DeleteExpiredStep ==
  ASSUME SqlInv, NEW t \in DbThread, DeleteExpired(t)
  PROVE  SqlInv' /\ [Backend!StoreNext]_(Backend!storeVars)
<1>1. PICK old, a : old = dbCall[t] /\ a = dbAnswer[t]
  OBVIOUS
<1>2. /\ old.at = "delete" /\ UNCHANGED <<dbClock, dbAnswer>> /\ Working(old) /\ a = {}
      /\ dbCall' = [dbCall EXCEPT ![t] = NoCall] /\ old.op = "get"
      /\ dbRows' = WithoutRows(old.keys)
  BY <1>1, ThreadFacts DEF DeleteExpired, Ends, CallOK, Working
<1>3. PICK k \in DbKey : /\ k \in DOMAIN dbRows /\ old.keys = {k}
                         /\ Expired(dbRows[k], dbClock)
  BY <1>1, <1>2, ThreadFacts DEF CallOK
<1>4. Rows(dbRows)'
  BY <1>2, ThreadFacts, WithoutRowsOK DEF Rows
<1>5. SqlInv'
  BY <1>1, <1>2, <1>4, IdleOK, AloneAtWork, ThreadFacts, OneThread
<1>6. Removals' = Removals
  <2>1. Removal(old) = {}
    BY <1>2 DEF Removal
  <2> QED
    BY <1>1, <1>2, <2>1, RemovalsFollow, NoCallFacts
<1>7. Backend!Forgets({k})
  BY <1>2, <1>3, <1>6 DEF Backend!Forgets, Backend!Drops, Backend!HasExpired, Expired,
                          WithoutRows, Removals
<1> QED
  BY <1>5, <1>7 DEF Backend!StoreNext

LEMMA CountHitStep ==
  ASSUME SqlInv, NEW t \in DbThread, CountHit(t)
  PROVE  SqlInv' /\ [Backend!StoreNext]_(Backend!storeVars)
<1>1. PICK old : old = dbCall[t]
  OBVIOUS
<1>2. /\ old.at = "count" /\ UNCHANGED <<dbRows, dbClock>> /\ Working(old)
      /\ dbCall' = [dbCall EXCEPT ![t] = NoCall] /\ dbAnswer' = [dbAnswer EXCEPT ![t] = {}]
      /\ old.op = "get"
  BY <1>1, ThreadFacts DEF CountHit, Ends, CallOK, Working
<1>3. Rows(dbRows)'
  BY <1>2, ThreadFacts DEF Rows
<1>4. SqlInv'
  BY <1>1, <1>2, <1>3, IdleOK, AloneAtWork, OneThread
<1>5. Removals' = Removals
  <2>1. Removal(old) = {}
    BY <1>2 DEF Removal
  <2> QED
    BY <1>1, <1>2, <2>1, RemovalsFollow, NoCallFacts
<1>6. Backend!TakesAnswer(t)
  BY <1>2, <1>5 DEF Backend!TakesAnswer, Removals
<1> QED
  BY <1>4, <1>6 DEF Backend!StoreNext

LEMMA WriteStep ==
  ASSUME SqlInv, NEW t \in DbThread, Write(t)
  PROVE  SqlInv' /\ [Backend!StoreNext]_(Backend!storeVars)
<1>1. PICK old, a : old = dbCall[t] /\ a = dbAnswer[t]
  OBVIOUS
<1>2. /\ GetsMutex(t) /\ old.at = "lock" /\ old.op # "get"
      /\ UNCHANGED <<dbClock, dbAnswer>>
      /\ dbCall' = [dbCall EXCEPT ![t] = NoCall]
      /\ CallOK(old, a, dbRows, dbClock) /\ a = {} /\ old \in CallRecord
  BY <1>1, ThreadFacts DEF Write, GetsMutex, Ends, CallOK
<1>3. dbAnswer' = [dbAnswer EXCEPT ![t] = {}]
  BY <1>1, <1>2, ThreadFacts
<1>4. ASSUME Rows(dbRows)' PROVE SqlInv'
  BY <1>2, <1>3, <1>4, IdleOK, AloneAtWork, OneThread
<1>5. Removals' = [Removals EXCEPT ![t] = {}]
  BY <1>2, RemovalsFollow, NoCallFacts
<1>6. CASE old.op = "set"
  <2>1. PICK k \in DbKey, e \in DbEntry : old.keys = {k} /\ old.row = {e}
    BY <1>2, <1>6 DEF CallOK
  <2>2. (CHOOSE r \in old.row : TRUE) = e
    BY <2>1
  <2>3. dbRows' = [j \in DOMAIN dbRows \cup {k} |-> IF j = k THEN e ELSE dbRows[j]]
    BY <1>1, <1>6, <2>1, <2>2 DEF Write
  <2>4. Rows(dbRows)'
    BY <2>3, ThreadFacts DEF Rows
  <2>5. Removals' = Removals
    <3>1. Removal(old) = {}
      BY <1>6 DEF Removal
    <3> QED
      BY <1>1, <1>2, <3>1, RemovalsFollow, NoCallFacts
  <2>6. Backend!Stores(k, e)
    BY <1>2, <2>3, <2>5 DEF Backend!Stores, Removals
  <2> QED
    BY <1>4, <2>1, <2>4, <2>6 DEF Backend!StoreNext
<1>7. CASE old.op = "evict"
  <2>1. PICK keys : keys = {k \in DOMAIN dbRows : RowExpired(dbRows[k])}
    OBVIOUS
  <2>2. dbRows' = WithoutRows(keys)
    BY <1>1, <1>7, <2>1 DEF Write
  <2>3. Rows(dbRows)'
    BY <2>2, ThreadFacts, WithoutRowsOK DEF Rows
  <2>4. Removals' = Removals
    <3>1. Removal(old) = {}
      BY <1>7 DEF Removal
    <3> QED
      BY <1>1, <1>2, <3>1, RemovalsFollow, NoCallFacts
  <2>5. keys \in SUBSET DbKey
    BY <2>1, ThreadFacts DEF Rows
  <2>6. Backend!Forgets(keys)
    BY <1>2, <2>1, <2>2, <2>4 DEF Backend!Forgets, Backend!Drops, Backend!HasExpired,
                                  RowExpired, WithoutRows, Removals
  <2> QED
    BY <1>4, <2>3, <2>5, <2>6 DEF Backend!StoreNext
<1>8. CASE old.op \notin {"set", "evict"}
  <2>1. dbRows' = WithoutRows(old.keys)
    BY <1>1, <1>8 DEF Write
  <2>2. Rows(dbRows)'
    BY <2>1, ThreadFacts, WithoutRowsOK DEF Rows
  <2>3. old.op \in {"remove", "clear"}
    <3>1. old.op # "idle"
      BY <1>2 DEF CallOK
    <3> QED
      BY <1>2, <1>8, <3>1 DEF CallRecord, DbOps
  <2>4. Removals[t] = old.keys
    BY <1>1, <2>3 DEF Removals
  <2>5. Backend!Erases(t)
    BY <1>2, <1>5, <2>1, <2>4 DEF Backend!Erases, Backend!Drops, WithoutRows, Removals
  <2> QED
    BY <1>4, <2>2, <2>5 DEF Backend!StoreNext
<1> QED
  BY <1>6, <1>7, <1>8

LEMMA StatementFailsStep ==
  ASSUME SqlInv, NEW t \in DbThread, StatementFails(t)
  PROVE  SqlInv' /\ [Backend!StoreNext]_(Backend!storeVars)
<1>1. PICK old, a : old = dbCall[t] /\ a = dbAnswer[t]
  OBVIOUS
<1>2. /\ UNCHANGED <<dbRows, dbClock>> /\ dbAnswer' = [dbAnswer EXCEPT ![t] = {}]
      /\ dbCall' = [dbCall EXCEPT ![t] = NoCall]
      /\ Working(dbCall[t]) \/ GetsMutex(t)
  BY DEF StatementFails, Ends, Working
<1>3. Rows(dbRows)'
  BY <1>2, ThreadFacts DEF Rows
<1>4. SqlInv'
  BY <1>2, <1>3, IdleOK, AloneAtWork, OneThread
<1>5. Removals' = [Removals EXCEPT ![t] = {}]
  BY <1>2, RemovalsFollow, NoCallFacts
<1>6. CASE old.at = "count"
  <2>1. Removal(old) = {}
    BY <1>1, <1>6, ThreadFacts DEF Removal, CallOK, Working
  <2>2. Removals' = Removals
    BY <1>1, <1>2, <2>1, RemovalsFollow, NoCallFacts
  <2>3. Backend!TakesAnswer(t)
    BY <1>2, <2>2 DEF Backend!TakesAnswer, Removals
  <2> QED
    BY <1>4, <2>3 DEF Backend!StoreNext
<1>7. CASE old.at # "count"
  <2>1. dbAnswer' = dbAnswer
    BY <1>1, <1>2, <1>7, ThreadFacts
  <2>2. Backend!Erases(t)
    BY <1>2, <1>5, <2>1 DEF Backend!Erases, Removals
  <2> QED
    BY <1>4, <2>2 DEF Backend!StoreNext
<1> QED
  BY <1>6, <1>7

LEMMA HourStep ==
  ASSUME SqlInv, HourPasses
  PROVE  SqlInv' /\ [Backend!StoreNext]_(Backend!storeVars)
<1>1. /\ dbClock' = dbClock + 1 /\ dbClock < LastHour /\ dbClock \in 0..LastHour
      /\ UNCHANGED <<dbRows, dbLock, dbCall, dbAnswer>>
  BY DEF HourPasses, SqlInv
<1>2. dbClock' \in 0..LastHour
  BY <1>1, DbAssumption
<1>3. ASSUME NEW e \in DbEntry, Expired(e, dbClock) PROVE Expired(e, dbClock')
  <2>1. e.ttl \in Nat /\ e.created \in Nat /\ dbClock \in Nat
    <3>1. LastHour \in Nat /\ e.ttl \in DbTtl /\ e.created \in 0..LastHour
      BY DbAssumption DEF DbEntry
    <3>2. e.ttl \in Nat
      BY <3>1, DbAssumption
    <3> QED
      BY <1>1, <3>1, <3>2
  <2> QED
    BY <1>1, <1>3, <2>1 DEF Expired
<1>4. ASSUME NEW t \in DbThread PROVE CallOK(dbCall[t], dbAnswer[t], dbRows, dbClock')
  <2>1. CallOK(dbCall[t], dbAnswer[t], dbRows, dbClock) /\ Rows(dbRows)
    BY ThreadFacts
  <2> QED
    BY <1>3, <2>1 DEF CallOK, Rows
<1>5. SqlInv'
  BY <1>1, <1>2, <1>4 DEF SqlInv
<1>6. Backend!Ages
  BY <1>1 DEF Backend!Ages
<1> QED
  BY <1>5, <1>6 DEF Backend!StoreNext

-----------------------------------------------------------------------------
(* Theorem *)

LEMMA SqlStarts == SqlInit => SqlInv /\ Backend!StoreInit
<1> SUFFICES ASSUME SqlInit PROVE SqlInv /\ Backend!StoreInit
  OBVIOUS
<1>1. dbClock \in 0..LastHour /\ Rows(dbRows)
  BY DbAssumption DEF SqlInit, Rows
<1>2. SqlInv
  BY <1>1, IdleOK DEF SqlInit, SqlInv
<1>3. Removals = [t \in DbThread |-> {}]
  BY DEF SqlInit, Removals, NoCall
<1> QED
  BY <1>2, <1>3 DEF SqlInit, Backend!StoreInit, Removals

LEMMA SqlStep == SqlInv /\ [SqlNext]_sqlVars => SqlInv' /\ [Backend!StoreNext]_(Backend!storeVars)
<1> SUFFICES ASSUME SqlInv, [SqlNext]_sqlVars
    PROVE SqlInv' /\ [Backend!StoreNext]_(Backend!storeVars)
  OBVIOUS
<1>1. CASE UNCHANGED sqlVars
  <2>1. SqlInv'
    BY <1>1 DEF sqlVars, SqlInv
  <2>2. Removals' = Removals
    BY <1>1 DEF sqlVars, Removals
  <2> QED
    BY <1>1, <2>1, <2>2, StoreStutters DEF sqlVars
<1> QED
  BY <1>1, HourStep, CallsStep, CallsSetStep, SelectStep, CheckExpiryStep, DeleteExpiredStep,
     CountHitStep, WriteStep, StatementFailsStep DEF SqlNext

\* SqliteBackend and PostgresBackend implement the trait CacheBackend: every get
\* answers with a stored row that has not expired at one moment of the call, and a
\* row that is still good goes only by a removal, a clear or a set.
THEOREM SqlImplementsStore == SqlSpec => ImplementsStore
BY SqlStarts, SqlStep, PTL DEF SqlSpec, ImplementsStore, Backend!StoreSpec

----------------------------------------------------------------------------
(* The request cache.                                                     *)

CacheStep ==
  [at : {"rest", "count", "prune", "merge", "expire"}, count : Nat, keys : SUBSET Key,
   left : SUBSET [key : Key, time : Nat]]

\* Rows over the limit are known to a caller that will delete as many.
Known(held, steps) ==
  (\A c \in Caller : steps[c].at # "count") /\ Cardinality(DOMAIN held) > MaxEntries =>
    \E c \in Caller : /\ steps[c].at = "prune"
                      /\ Cardinality(DOMAIN held) <= steps[c].count + MaxEntries

RequestInv ==
  /\ IsFiniteSet(DOMAIN rows)
  /\ step \in [Caller -> CacheStep]
  /\ clock \in Nat
  /\ ~ overfull => Known(rows, step)

LEMMA Limits == MaxEntries \in Nat /\ Cardinality({}) = 0 /\ IsFiniteSet({})
BY RequestCacheAssumption, FS_EmptySet

\* A step of one caller.
LEMMA StepOf ==
  ASSUME step \in [Caller -> CacheStep], NEW c \in Caller, NEW s \in CacheStep,
         step' = [step EXCEPT ![c] = s]
  PROVE  /\ step' \in [Caller -> CacheStep] /\ step'[c] = s
         /\ \A d \in Caller \ {c} : step'[d] = step[d]
OBVIOUS

LEMMA RestOf ==
  ASSUME step \in [Caller -> CacheStep], NEW c \in Caller, Rest(c)
  PROVE  /\ step' \in [Caller -> CacheStep] /\ step'[c] = Resting
         /\ \A d \in Caller \ {c} : step'[d] = step[d]
<1>1. Resting \in CacheStep
  BY DEF Resting, CacheStep
<1> QED BY <1>1, StepOf DEF Rest

\* Fewer rows stay known, when nobody who pruned or counted is gone.
LEMMA FewerKnown ==
  ASSUME NEW held, NEW new, IsFiniteSet(DOMAIN held), DOMAIN new \subseteq DOMAIN held,
         NEW steps, NEW after, Known(held, steps),
         steps \in [Caller -> CacheStep], after \in [Caller -> CacheStep],
         \A c \in Caller : steps[c].at \in {"count", "prune"} => after[c] = steps[c]
  PROVE  Known(new, after) /\ IsFiniteSet(DOMAIN new)
<1>1. /\ Cardinality(DOMAIN new) <= Cardinality(DOMAIN held) /\ IsFiniteSet(DOMAIN new)
      /\ Cardinality(DOMAIN new) \in Nat /\ Cardinality(DOMAIN held) \in Nat
  BY FS_Subset, FS_CardinalityType
<1> SUFFICES ASSUME \A c \in Caller : after[c].at # "count", Cardinality(DOMAIN new) > MaxEntries
             PROVE  \E c \in Caller : /\ after[c].at = "prune"
                                      /\ Cardinality(DOMAIN new) <= after[c].count + MaxEntries
  BY <1>1 DEF Known
<1>2. Cardinality(DOMAIN held) > MaxEntries
  BY <1>1, Limits
<1>3. \A c \in Caller : steps[c].at # "count"
  OBVIOUS
<1>4. PICK c \in Caller : /\ steps[c].at = "prune"
                          /\ Cardinality(DOMAIN held) <= steps[c].count + MaxEntries
  BY <1>2, <1>3 DEF Known
<1>5. after[c] = steps[c] /\ steps[c].count \in Nat
  BY <1>4 DEF CacheStep
<1> QED BY <1>1, <1>4, <1>5, Limits

\* A caller that is going to count knows all rows.
LEMMA CountingKnows ==
  ASSUME NEW held, NEW steps, NEW c \in Caller, steps[c].at = "count"
  PROVE  Known(held, steps)
BY DEF Known

LEMMA InsertStep ==
  ASSUME RequestInv, NEW c \in Caller, NEW key \in Key, CacheInsert(c, key)
  PROVE  RequestInv'
<1>1. step' = [step EXCEPT ![c] = [step[c] EXCEPT !.at = "count"]]
  BY DEF CacheInsert, Goto, RequestInv
<1>2. [step[c] EXCEPT !.at = "count"] \in CacheStep /\ [step[c] EXCEPT !.at = "count"].at = "count"
  BY DEF RequestInv, CacheStep
<1>3. step' \in [Caller -> CacheStep] /\ step'[c].at = "count"
  BY <1>1, <1>2, StepOf DEF RequestInv
<1>4. IsFiniteSet(DOMAIN rows')
  <2>1. DOMAIN rows' = DOMAIN rows \cup {key}
    BY DEF CacheInsert, Store
  <2> QED BY <2>1, FS_AddElement DEF RequestInv
<1>5. Known(rows', step')
  BY <1>3, CountingKnows
<1> QED BY <1>3, <1>4, <1>5 DEF RequestInv, CacheInsert

\* The last to count takes on all rows over the limit.
LEMMA CountStep ==
  ASSUME RequestInv, NEW c \in Caller, CacheCount(c)
  PROVE  RequestInv'
<1> DEFINE n == Cardinality(DOMAIN rows)
<1>1. n \in Nat /\ MaxEntries \in Nat
  BY FS_CardinalityType, Limits DEF RequestInv
<1>2. CASE n > MaxEntries
  <2> DEFINE s == [step[c] EXCEPT !.at = "prune", !.count = n - MaxEntries]
  <2>1. n - MaxEntries \in Nat
    BY <1>1, <1>2
  <2>2. s \in CacheStep /\ s.at = "prune" /\ s.count = n - MaxEntries
    BY <2>1 DEF RequestInv, CacheStep
  <2>3. step' = [step EXCEPT ![c] = s] /\ UNCHANGED <<clock, rows, overfull>>
    BY <1>2 DEF CacheCount, RequestInv
  <2>4. step' \in [Caller -> CacheStep] /\ step'[c] = s
    BY <2>2, <2>3, StepOf DEF RequestInv
  <2>5. Known(rows, step')
    <3>1. n <= step'[c].count + MaxEntries
      BY <1>1, <2>2, <2>4
    <3> QED BY <2>2, <2>4, <3>1 DEF Known
  <2> QED BY <2>3, <2>4, <2>5 DEF RequestInv
<1>3. CASE ~ (n > MaxEntries)
  <2>1. Rest(c) /\ UNCHANGED <<clock, rows>>
    BY <1>3 DEF CacheCount
  <2> QED BY <1>3, <2>1, RestOf DEF RequestInv, Known
<1> QED BY <1>2, <1>3

\* A prune deletes what its caller counted, or all there is.
LEMMA PruneStep ==
  ASSUME RequestInv, NEW c \in Caller, CachePrune(c)
  PROVE  RequestInv'
<1> DEFINE n == Cardinality(DOMAIN rows)
           k == step[c].count
           m == Cardinality(DOMAIN rows')
<1>1. n \in Nat /\ MaxEntries \in Nat /\ k \in Nat
  BY FS_CardinalityType, Limits DEF RequestInv, CacheStep
<1>2. PICK keys \in SUBSET DOMAIN rows :
        Cardinality(keys) = (IF k < n THEN k ELSE n) /\ DOMAIN rows' = DOMAIN rows \ keys
  BY DEF CachePrune, Oldest, Delete
<1>3. IsFiniteSet(DOMAIN rows') /\ m = n - Cardinality(keys) /\ m \in Nat
  <2>1. DOMAIN rows \cap keys = keys
    OBVIOUS
  <2>2. /\ IsFiniteSet(DOMAIN rows \ keys)
        /\ Cardinality(DOMAIN rows \ keys) = n - Cardinality(keys)
    BY <2>1, FS_Difference DEF RequestInv
  <2>3. Cardinality(DOMAIN rows \ keys) \in Nat
    BY <2>2, FS_CardinalityType
  <2> QED BY <1>2, <2>2, <2>3
<1>4. /\ step' \in [Caller -> CacheStep] /\ step'[c] = Resting
      /\ \A d \in Caller \ {c} : step'[d] = step[d]
  BY RestOf DEF CachePrune, RequestInv
<1>5. ASSUME ~ overfull' PROVE Known(rows', step')
  <2>1. CASE m <= MaxEntries
    <3>1. ~ (m > MaxEntries)
      BY <1>1, <1>3, <2>1
    <3> QED BY <3>1 DEF Known
  <2>2. CASE m > MaxEntries
    <3>1. ~ overfull /\ Known(rows, step)
      BY <1>5, <2>2 DEF CachePrune, RequestInv
    <3> SUFFICES ASSUME \A d \in Caller : step'[d].at # "count"
                 PROVE  \E d \in Caller : step'[d].at = "prune" /\ m <= step'[d].count + MaxEntries
      BY DEF Known
    <3>2. \A d \in Caller : step[d].at # "count"
      BY <1>4 DEF CachePrune
    <3>3. n > MaxEntries
      <4>1. m <= n
        BY <1>1, <1>2, <1>3
      <4> HIDE DEF m, n
      <4> QED BY <1>1, <1>3, <2>2, <4>1
    <3>4. PICK d \in Caller : step[d].at = "prune" /\ n <= step[d].count + MaxEntries
      BY <3>1, <3>2, <3>3 DEF Known
    <3>5. step[d].count \in Nat
      BY DEF RequestInv, CacheStep
    <3>6. d # c
      <4>1. n <= k + MaxEntries => m <= MaxEntries
        <5> HIDE DEF m, n, k
        <5> QED BY <1>1, <1>2, <1>3
      <4> HIDE DEF m, n
      <4>2. ~ (m <= MaxEntries)
        BY <1>1, <1>3, <2>2
      <4> QED BY <3>4, <4>1, <4>2
    <3>7. m <= step[d].count + MaxEntries
      <4> HIDE DEF m, n, k
      <4> QED BY <1>1, <1>2, <1>3, <3>4, <3>5
    <3> QED BY <1>4, <3>4, <3>6, <3>7
  <2> QED BY <1>1, <1>3, <2>1, <2>2
<1> QED BY <1>3, <1>4, <1>5 DEF CachePrune, RequestInv

LEMMA RequestStep == RequestInv /\ [RequestNext]_requestVars => RequestInv'
<1> SUFFICES ASSUME RequestInv, [RequestNext]_requestVars
             PROVE  RequestInv'
  OBVIOUS
<1>1. CASE AsTimePasses
  BY <1>1 DEF AsTimePasses, RequestInv
<1>2. CASE CacheClear
  <2>1. DOMAIN rows' \subseteq DOMAIN rows /\ step' = step
    BY <1>2 DEF CacheClear, Delete
  <2>2. IsFiniteSet(DOMAIN rows')
    BY <2>1, FS_Subset DEF RequestInv
  <2>3. ~ overfull' => Known(rows', step')
    BY <1>2, <2>1, FewerKnown DEF CacheClear, RequestInv
  <2> QED BY <1>2, <2>1, <2>2, <2>3 DEF CacheClear, RequestInv
<1>3. ASSUME NEW c \in Caller, CacheFails(c) PROVE RequestInv'
  BY <1>3, RestOf DEF CacheFails, RequestInv
<1>4. ASSUME NEW c \in Caller, NEW key \in Key, CacheGet(c, key) PROVE RequestInv'
  <2> DEFINE s == [step[c] EXCEPT !.at = "expire", !.keys = {key}]
  <2>1. s \in CacheStep
    BY DEF RequestInv, CacheStep
  <2>2. step' = [step EXCEPT ![c] = s]
    BY <1>4 DEF CacheGet, RequestInv
  <2>3. step' \in [Caller -> CacheStep] /\ \A d \in Caller \ {c} : step'[d] = step[d]
    BY <2>1, <2>2, StepOf DEF RequestInv
  <2>4. ~ overfull' => Known(rows', step')
    <3>1. /\ \A d \in Caller : step[d].at \in {"count", "prune"} => step'[d] = step[d]
          /\ UNCHANGED <<rows, overfull>>
      BY <1>4, <2>3 DEF CacheGet
    <3> QED BY <2>3, <3>1, FewerKnown DEF RequestInv
  <2> QED BY <1>4, <2>3, <2>4 DEF CacheGet, RequestInv
<1>5. ASSUME NEW c \in Caller, CacheExpire(c) PROVE RequestInv'
  <2>1. /\ step' \in [Caller -> CacheStep] /\ step[c].at = "expire"
        /\ \A d \in Caller \ {c} : step'[d] = step[d]
    BY <1>5, RestOf DEF CacheExpire, RequestInv
  <2>2. DOMAIN rows' \subseteq DOMAIN rows
    BY <1>5 DEF CacheExpire, Delete
  <2>3. IsFiniteSet(DOMAIN rows')
    BY <2>2, FS_Subset DEF RequestInv
  <2>4. ~ overfull' => Known(rows', step')
    BY <1>5, <2>1, <2>2, FewerKnown DEF CacheExpire, RequestInv
  <2> QED BY <1>5, <2>1, <2>3, <2>4 DEF CacheExpire, RequestInv
<1>6. ASSUME NEW c \in Caller, NEW file \in MergeRows, CacheMerge(c, file) PROVE RequestInv'
  <2> DEFINE s == [step[c] EXCEPT !.at = "merge", !.left = file]
  <2>1. s \in CacheStep
    BY RequestCacheAssumption DEF RequestInv, CacheStep
  <2>2. step' = [step EXCEPT ![c] = s]
    BY <1>6 DEF CacheMerge, RequestInv
  <2>3. step' \in [Caller -> CacheStep] /\ \A d \in Caller \ {c} : step'[d] = step[d]
    BY <2>1, <2>2, StepOf DEF RequestInv
  <2>4. ~ overfull' => Known(rows', step')
    <3>1. /\ \A d \in Caller : step[d].at \in {"count", "prune"} => step'[d] = step[d]
          /\ UNCHANGED <<rows, overfull>>
      BY <1>6, <2>3 DEF CacheMerge
    <3> QED BY <2>3, <3>1, FewerKnown DEF RequestInv
  <2> QED BY <1>6, <2>3, <2>4 DEF CacheMerge, RequestInv
<1>7. ASSUME NEW c \in Caller, CacheMergeRow(c) PROVE RequestInv'
  <2>1. ASSUME NEW row \in step[c].left, Store(row.key, row.time), overfull' = TRUE,
               step' = [step EXCEPT ![c].left = @ \ {row}]
        PROVE  RequestInv'
    <3> DEFINE s == [step[c] EXCEPT !.left = @ \ {row}]
    <3>1. s \in CacheStep /\ step' = [step EXCEPT ![c] = s]
      BY <2>1 DEF RequestInv, CacheStep
    <3>2. step' \in [Caller -> CacheStep]
      BY <3>1, StepOf DEF RequestInv
    <3>3. DOMAIN rows' = DOMAIN rows \cup {row.key}
      BY <2>1 DEF Store
    <3>4. IsFiniteSet(DOMAIN rows')
      BY <3>3, FS_AddElement DEF RequestInv
    <3> QED BY <1>7, <2>1, <3>2, <3>4 DEF CacheMergeRow, RequestInv
  <2>2. ASSUME Rest(c), UNCHANGED <<rows, overfull>> PROVE RequestInv'
    <3>1. /\ step' \in [Caller -> CacheStep] /\ step[c].at = "merge"
          /\ \A d \in Caller \ {c} : step'[d] = step[d]
      BY <1>7, <2>2, RestOf DEF CacheMergeRow, RequestInv
    <3>2. ~ overfull' => Known(rows', step')
      BY <2>2, <3>1, FewerKnown DEF RequestInv
    <3> QED BY <1>7, <2>2, <3>1, <3>2 DEF CacheMergeRow, RequestInv
  <2> QED BY <1>7, <2>1, <2>2 DEF CacheMergeRow
<1>8. CASE UNCHANGED requestVars
  BY <1>8 DEF requestVars, RequestInv
<1> QED BY <1>1, <1>2, <1>3, <1>4, <1>5, <1>6, <1>7, <1>8, InsertStep, CountStep, PruneStep
        DEF RequestNext

\* Whatever the order of the statements of any number of callers
\* (wd-db, db_cache_set), the request cache is within max_entries when no call
\* that inserts is left half-way, unless one failed or rows were merged.
THEOREM SettlesWithinLimit == RequestSpec => []SettledWithinLimit
<1>1. RequestInit => RequestInv
  <2>1. Resting \in CacheStep
    BY DEF Resting, CacheStep
  <2> SUFFICES ASSUME RequestInit PROVE RequestInv
    OBVIOUS
  <2>2. DOMAIN rows = {}
    BY DEF RequestInit
  <2>3. ~ (Cardinality(DOMAIN rows) > MaxEntries)
    BY <2>2, Limits
  <2> QED BY <2>1, <2>2, <2>3, Limits DEF RequestInit, RequestInv, Known
<1>2. RequestInv => SettledWithinLimit
  <2> SUFFICES ASSUME RequestInv, ~ overfull, \A c \in Caller : step[c].at \notin {"count", "prune"}
               PROVE  Cardinality(DOMAIN rows) <= MaxEntries
    BY DEF SettledWithinLimit
  <2>1. ~ (Cardinality(DOMAIN rows) > MaxEntries)
    BY DEF RequestInv, Known
  <2> QED BY <2>1, Limits, FS_CardinalityType DEF RequestInv
<1> QED BY <1>1, <1>2, RequestStep, PTL DEF RequestSpec

----------------------------------------------------------------------------
(* The profiles.                                                          *)

Row == [id : Nat, under : Profile, merged : BOOLEAN]

\* A directory or an archive, whose histories are their own.
Own(h, hist) == \A r \in hist : r \in Row /\ (r.under = h \/ r.merged)
Directory(files) ==
  /\ files = [h \in DOMAIN files |-> files[h]]
  /\ \A h \in DOMAIN files : Own(h, files[h])
Directories(ds) ==
  /\ ds = [p \in DOMAIN ds |-> ds[p]]
  /\ \A p \in DOMAIN ds : Directory(ds[p])

Command(job) ==
  /\ job.work.op \in {"add", "clear", "merge"}
  /\ job.work.op = "add" => Own(job.profile, job.work.rows)

ProfilesInv ==
  /\ current \in Profile \cup {""} /\ logged \in Nat
  /\ Directories(dirs) /\ Directories(archive)
  /\ \A job \in jobs : Command(job)

-----------------------------------------------------------------------------
(* Directories *)

LEMMA NoFilesOwn == Directory(NoFiles)
BY DEF Directory, NoFiles

LEMMA ContentOwn ==
  ASSUME NEW files, NEW h, Directory(files)
  PROVE  Own(h, Content(files, h))
BY DEF Directory, Content, Own

LEMMA WithOwn ==
  ASSUME NEW files, NEW h, NEW hist, Directory(files), Own(h, hist)
  PROVE  Directory(With(files, h, hist))
BY DEF Directory, With

LEMMA OntoOwn ==
  ASSUME NEW files, NEW new, Directory(files), Directory(new)
  PROVE  Directory(OntoFiles(files, new))
BY DEF Directory, OntoFiles

LEMMA SomeOwn ==
  ASSUME NEW files, NEW written \in SUBSET DOMAIN files, Directory(files)
  PROVE  Directory([h \in written |-> files[h]])
BY DEF Directory

LEMMA WithDirectory ==
  ASSUME NEW ds, NEW p, NEW files, Directories(ds), Directory(files)
  PROVE  Directories(With(ds, p, files))
BY DEF Directories, With

LEMMA EnsuredOwn ==
  ASSUME NEW p, Directories(dirs)
  PROVE  Directories(Ensured(p)) /\ p \in DOMAIN Ensured(p)
BY WithDirectory, NoFilesOwn DEF Ensured, With

-----------------------------------------------------------------------------
(* Steps *)

\* A command that leaves the jobs alone.
LEMMA ProfileCommands ==
  ASSUME ProfilesInv, NEW p \in Profile,
         \/ ListProfiles \/ CreateProfile(p) \/ DeleteProfile(p)
         \/ SetCurrentProfile(p) \/ ExportProfile(p) \/ ImportProfile(p)
         \/ \E q \in Profile : RenameProfile(p, q)
  PROVE  ProfilesInv'
<1>1. Directories(dirs) /\ Directories(archive)
  BY DEF ProfilesInv
<1>2. ASSUME Directories(dirs)', Directories(archive)', current' \in Profile \cup {""},
             UNCHANGED <<jobs, logged>>
      PROVE  ProfilesInv'
  BY <1>2 DEF ProfilesInv
<1>3. CASE ListProfiles
  BY <1>1, <1>2, <1>3, EnsuredOwn DEF ListProfiles, ProfilesInv
<1>4. CASE CreateProfile(p)
  <2>1. UNCHANGED <<current, jobs, archive, logged>>
    BY <1>4 DEF CreateProfile
  <2>2. CASE \E kept \in SUBSET DOMAIN dirs[p] :
               /\ p \in DOMAIN dirs
               /\ dirs' = [dirs EXCEPT ![p] = [h \in DOMAIN @ |-> IF h \in kept THEN @[h] ELSE {}]]
    <3>1. PICK kept, ds : ds = dirs
                 /\ kept \in SUBSET DOMAIN ds[p] /\ p \in DOMAIN ds
                 /\ dirs' = [ds EXCEPT ![p] = [h \in DOMAIN ds[p] |-> IF h \in kept THEN ds[p][h] ELSE {}]]
      BY <2>2
    <3>2. Directory([h \in DOMAIN ds[p] |-> IF h \in kept THEN ds[p][h] ELSE {}])
      BY <1>1, <3>1 DEF Directories, Directory, Own
    <3>3. Directories(dirs')
      BY <1>1, <3>1, <3>2 DEF Directories
    <3> QED
      BY <1>1, <1>2, <2>1, <3>3 DEF ProfilesInv
  <2>3. CASE dirs' = With(Ensured(p), p,
                          OntoFiles(Ensured(p)[p],
                                    IF "default" \in DOMAIN dirs THEN dirs["default"] ELSE NoFiles))
    <3>1. PICK ds, copied : ds = Ensured(p)
                 /\ copied = IF "default" \in DOMAIN dirs THEN dirs["default"] ELSE NoFiles
      OBVIOUS
    <3>2. Directories(ds) /\ Directory(ds[p]) /\ Directory(copied)
      BY <1>1, <3>1, EnsuredOwn, NoFilesOwn DEF Directories
    <3>3. Directories(With(ds, p, OntoFiles(ds[p], copied)))
      BY <3>2, OntoOwn, WithDirectory
    <3> QED
      BY <1>1, <1>2, <2>1, <2>3, <3>1, <3>3 DEF ProfilesInv
  <2> QED
    BY <1>4, <2>2, <2>3 DEF CreateProfile
<1>5. CASE DeleteProfile(p)
  BY <1>1, <1>2, <1>5 DEF DeleteProfile, Directories, ProfilesInv
<1>6. CASE SetCurrentProfile(p)
  BY <1>1, <1>2, <1>6 DEF SetCurrentProfile
<1>7. CASE ExportProfile(p)
  <2>1. PICK ds : ds = Ensured(p)
    OBVIOUS
  <2>2. Directories(ds) /\ Directory(ds[p])
    BY <1>1, <2>1, EnsuredOwn DEF Directories
  <2>3. dirs' = ds /\ archive' = With(archive, p, ds[p]) /\ UNCHANGED <<current, jobs, logged>>
    BY <1>7, <2>1 DEF ExportProfile
  <2> QED
    BY <1>1, <1>2, <2>2, <2>3, WithDirectory DEF ProfilesInv
<1>8. CASE ImportProfile(p)
  <2>1. PICK written, name, ds, files :
          /\ written \in SUBSET DOMAIN archive[p] /\ ds = Ensured(name) /\ files = archive[p] /\ p \in DOMAIN archive
          /\ dirs' = With(ds, name, OntoFiles(ds[name], [h \in written |-> files[h]]))
          /\ UNCHANGED <<current, jobs, archive, logged>>
    BY <1>8 DEF ImportProfile
  <2>2. Directories(ds) /\ Directory(ds[name]) /\ Directory(files)
    BY <1>1, <2>1, EnsuredOwn DEF Directories
  <2>3. Directory([h \in written |-> files[h]])
    BY <2>1, <2>2, SomeOwn
  <2>4. Directories(With(ds, name, OntoFiles(ds[name], [h \in written |-> files[h]])))
    BY <2>2, <2>3, OntoOwn, WithDirectory
  <2> QED
    BY <1>1, <1>2, <2>1, <2>4 DEF ProfilesInv
<1>9. ASSUME NEW q \in Profile, RenameProfile(p, q) PROVE ProfilesInv'
  BY <1>1, <1>2, <1>9 DEF RenameProfile, Directories, ProfilesInv
<1> QED
  BY <1>3, <1>4, <1>5, <1>6, <1>7, <1>8, <1>9

LEMMA FindStep ==
  ASSUME ProfilesInv, NEW work, FindHistory(work), logged' \in Nat,
         Command([profile |-> CurrentProfile, work |-> work])
  PROVE  ProfilesInv'
<1>1. Directories(Ensured(CurrentProfile))
  BY EnsuredOwn DEF ProfilesInv
<1> QED
  BY <1>1 DEF FindHistory, ProfilesInv

\* What a command inserts into the history of its profile is its own or merged.
LEMMA InsertedOwn ==
  ASSUME ProfilesInv, NEW job \in jobs, job.work.op # "clear"
  PROVE  Own(job.profile, Inserted(job.work))
<1>1. Command(job) /\ Directories(dirs)
  BY DEF ProfilesInv
<1>2. CASE job.work.op = "add"
  BY <1>1, <1>2 DEF Inserted, Command
<1>3. CASE job.work.op = "merge"
  <2>1. PICK d, f : d = job.work.dir /\ f = job.work.file
    OBVIOUS
  <2>2. CASE d \in DOMAIN dirs
    <3>1. PICK hist : hist = Content(dirs[d], f)
      OBVIOUS
    <3>2. Own(f, hist)
      BY <1>1, <2>2, <3>1, ContentOwn DEF Directories
    <3>3. ASSUME NEW r \in hist
          PROVE  [r EXCEPT !.merged = TRUE] \in Row /\ [r EXCEPT !.merged = TRUE].merged
      BY <3>2 DEF Own, Row
    <3>4. Inserted(job.work) = {[r EXCEPT !.merged = TRUE] : r \in hist}
      BY <1>3, <2>1, <2>2, <3>1 DEF Inserted
    <3> QED
      BY <3>3, <3>4 DEF Own
  <2>3. CASE d \notin DOMAIN dirs
    BY <1>3, <2>1, <2>3 DEF Inserted, Own
  <2> QED
    BY <2>2, <2>3
<1> QED
  BY <1>1, <1>2, <1>3 DEF Command

LEMMA DoStep ==
  ASSUME ProfilesInv, NEW job \in jobs, DoHistory(job)
  PROVE  ProfilesInv'
<1>1. PICK ds, p : ds = dirs /\ p = job.profile
  OBVIOUS
<1>2. Directories(ds)
  BY <1>1 DEF ProfilesInv
<1>3. \/ dirs' = ds
      \/ /\ p \in DOMAIN ds
         /\ \E hist : Own(p, hist) /\ dirs' = [ds EXCEPT ![p] = With(ds[p], p, hist)]
  <2>1. CASE p \in DOMAIN dirs /\ job.work.op = "clear"
    <3>1. Own(p, {}) /\ dirs' = [ds EXCEPT ![p] = With(ds[p], p, {})]
      BY <1>1, <2>1 DEF DoHistory, Own
    <3> QED
      BY <1>1, <2>1, <3>1
  <2>2. CASE p \in DOMAIN dirs /\ job.work.op # "clear"
    <3>1. PICK done \in SUBSET Inserted(job.work) :
            dirs' = [ds EXCEPT ![p] = With(ds[p], p, Content(ds[p], p) \cup done)]
      BY <1>1, <2>2 DEF DoHistory
    <3>2. Own(p, done) /\ Own(p, Content(ds[p], p))
      BY <1>1, <1>2, <2>2, InsertedOwn, ContentOwn DEF Own, Directories
    <3>3. Own(p, Content(ds[p], p) \cup done)
      BY <3>2 DEF Own
    <3> QED
      BY <1>1, <2>2, <3>1, <3>3
  <2> QED
    BY <1>1, <2>1, <2>2 DEF DoHistory
<1>4. Directories(dirs')
  <2>1. CASE dirs' = ds
    BY <1>2, <2>1
  <2>2. ASSUME p \in DOMAIN ds, NEW hist, Own(p, hist), dirs' = [ds EXCEPT ![p] = With(ds[p], p, hist)]
        PROVE  Directories(dirs')
    <3>1. Directory(With(ds[p], p, hist))
      BY <1>2, <2>2, WithOwn DEF Directories
    <3> QED
      BY <1>2, <2>2, <3>1 DEF Directories
  <2> QED
    BY <1>3, <2>1, <2>2
<1> QED
  BY <1>4 DEF DoHistory, ProfilesInv

LEMMA ProfilesStep == ProfilesInv /\ [ProfilesNext]_profileVars => ProfilesInv'
<1> SUFFICES ASSUME ProfilesInv, [ProfilesNext]_profileVars PROVE ProfilesInv'
  OBVIOUS
<1>1. CASE LogLookup
  <2>1. CurrentProfile \in Profile
    BY Zenon, ProfilesAssumption DEF ProfilesInv, CurrentProfile
  <2>2. logged' \in Nat
    <3>1. logged' = logged + 1
      BY <1>1, Zenon DEF LogLookup
    <3>2. logged \in Nat
      BY DEF ProfilesInv
    <3> QED
      BY <3>1, <3>2
  <2>3. PICK work, row : /\ row = [id |-> logged', under |-> CurrentProfile, merged |-> FALSE]
                         /\ work = [op |-> "add", rows |-> {row}]
    OBVIOUS
  <2>4. row \in Row /\ row.under = CurrentProfile
    BY <2>1, <2>2, <2>3 DEF Row
  <2>5. Own(CurrentProfile, work.rows)
    BY <2>3, <2>4 DEF Own
  <2>6. Command([profile |-> CurrentProfile, work |-> work])
    BY <2>3, <2>5 DEF Command
  <2> QED
    BY <1>1, <2>2, <2>3, <2>6, FindStep DEF LogLookup
<1>2. CASE ClearHistory
  <2>1. PICK work : work = [op |-> "clear"]
    OBVIOUS
  <2>2. Command([profile |-> CurrentProfile, work |-> work]) /\ logged' \in Nat
    BY <1>2, <2>1 DEF Command, ClearHistory, ProfilesInv
  <2> QED
    BY <1>2, <2>1, <2>2, FindStep DEF ClearHistory
<1>3. ASSUME NEW p \in Profile, NEW q \in Profile, MergeHistory(p, q) PROVE ProfilesInv'
  <2>1. PICK work : work = [op |-> "merge", dir |-> p, file |-> q]
    OBVIOUS
  <2>2. Command([profile |-> CurrentProfile, work |-> work]) /\ logged' \in Nat
    BY <1>3, <2>1 DEF Command, MergeHistory, ProfilesInv
  <2> QED
    BY <1>3, <2>1, <2>2, FindStep DEF MergeHistory
<1>4. CASE UNCHANGED profileVars
  BY <1>4 DEF profileVars, ProfilesInv
<1> QED
  BY <1>1, <1>2, <1>3, <1>4, ProfileCommands, DoStep, ProfilesAssumption DEF ProfilesNext

-----------------------------------------------------------------------------
(* Theorem *)

LEMMA ProfilesStart == ProfilesInit => ProfilesInv
<1> SUFFICES ASSUME ProfilesInit PROVE ProfilesInv
  OBVIOUS
<1>1. Directories(dirs) /\ Directories(archive)
  BY DEF ProfilesInit, Directories
<1> QED
  BY <1>1 DEF ProfilesInit, ProfilesInv

\* db_gui_history_get shows, for every profile, only lookups made under its name
\* or merged into it.
THEOREM HistoryAlwaysApart == ProfilesSpec => []HistoryKeepsApart
<1>1. ProfilesInv => HistoryKeepsApart
  <2> SUFFICES ASSUME ProfilesInv, NEW p \in DOMAIN dirs, NEW r \in Shown(p)
      PROVE r.under = p \/ r.merged
    BY DEF HistoryKeepsApart
  <2>1. Directory(dirs[p]) /\ Shown(p) = Content(dirs[p], p)
    BY DEF ProfilesInv, Directories, Shown
  <2> QED
    BY <2>1, ContentOwn DEF Own
<1> QED
  BY <1>1, ProfilesStart, ProfilesStep, PTL DEF ProfilesSpec

----------------------------------------------------------------------------
(* The history page.                                                      *)

(***************************************************************************)
(* The property says nothing while a fetch is under way, so the invariant  *)
(* says what that fetch will bring: a page below its total once the rows   *)
(* are counted, and below the count to come before.  The count may only    *)
(* grow meanwhile, unless shrunk says otherwise: rows are added, and       *)
(* whoever clears them comes back to the first page.                       *)
(***************************************************************************)
LoggedRow == [what : HistoryRow, day : Nat]
Request == [page : Nat, search : Search, status : StatusOption, days : Nat]
PageFetch ==
  [asked : Request, counted : BOOLEAN, of : HistoryProfile, since : Nat, total : Nat, nr : Nat]

ViewType ==
  /\ tables \in [HistoryProfile -> Seq(LoggedRow)]
  /\ viewed \in HistoryProfile /\ day \in Nat
  /\ controls \in Request
  /\ fetches \subseteq PageFetch
  /\ clears \in [asked : Nat, done : Nat]
  /\ overtaken \in BOOLEAN /\ shrunk \in BOOLEAN
  /\ last.total \in Nat

\* The rows that a fetch would find now.
Seen(asked) == RowsMatching(viewed, asked, Since(asked))
CountOf(asked) == Len(Seen(asked))

\* The page asked for starts below n.
Below(asked, n) == asked.page > 0 => asked.page * PageSize < n

InLine ==
  /\ \A f \in fetches : f.asked = controls
  /\ \A f, g \in fetches : f = g
  /\ fetches = {} => last.asked = controls

Coming(f) ==
  IF f.counted THEN /\ f.of = viewed /\ f.since = Since(controls)
                    /\ f.total <= CountOf(controls) /\ Below(controls, f.total)
  ELSE Below(controls, CountOf(controls))

Grounded ==
  /\ \A f \in fetches : Coming(f)
  /\ fetches = {} => /\ last.total <= CountOf(controls) /\ Below(controls, last.total)
                     /\ controls.page > 0 => last.rows # <<>>

ViewInv ==
  /\ ViewType
  /\ ~ overtaken => InLine
  /\ ~ overtaken /\ ~ shrunk /\ clears.done = 0 => Grounded

\* What is counted is a number, and only the search and the filters matter.
LEMMA CountIsNat ==
  ASSUME ViewType, NEW asked
  PROVE  Seen(asked) \in Seq(LoggedRow) /\ CountOf(asked) \in Nat
<1>1. tables[viewed] \in Seq(LoggedRow)
  BY DEF ViewType
<1>2. Seen(asked) \in Seq(LoggedRow)
  BY <1>1, SiftType DEF Seen, RowsMatching
<1> QED BY <1>2 DEF CountOf

LEMMA CountForgetsPage ==
  ASSUME NEW one, NEW other, one.search = other.search, one.status = other.status,
         one.days = other.days
  PROVE  CountOf(one) = CountOf(other)
BY DEF CountOf, Seen, RowsMatching, Matches, Since

\* A row that is logged is one more or none.
LEMMA LoggingCounts ==
  ASSUME NEW table \in Seq(LoggedRow), NEW newest \in LoggedRow, NEW asked, NEW since,
         NEW more, more = <<newest>> \o table
  PROVE  Len(Sift(table, {i \in DOMAIN table : Matches(table[i], asked, since)}))
           <= Len(Sift(more, {i \in DOMAIN more : Matches(more[i], asked, since)}))
<1> DEFINE P == {i \in DOMAIN table : Matches(table[i], asked, since)}
           Q == {i \in DOMAIN more : Matches(more[i], asked, since)}
<1>1. DOMAIN table = 1..Len(table)
  OBVIOUS
<1>2. /\ DOMAIN more = 1..(Len(table) + 1)
      /\ \A i \in 1..Len(table) : more[i + 1] = table[i]
  OBVIOUS
<1>3. \A i \in 1..Len(table) : i \in P => i + 1 \in Q
  BY <1>1, <1>2
<1> HIDE DEF P, Q
<1>4. Len(Sift(table, P)) <= Len(Sift(<<newest>> \o table, Q))
  BY <1>1, <1>3, SiftPrepend
<1> QED BY <1>4 DEF P, Q

\* A page that starts below the number of rows has some.
LEMMA PageHasRows ==
  ASSUME NEW table \in Seq(LoggedRow), NEW asked \in Request, asked.page * PageSize < Len(table)
  PROVE  Page(table, asked) # <<>>
<1> DEFINE start == asked.page * PageSize
           stop == IF start + PageSize < Len(table) THEN start + PageSize ELSE Len(table)
           n == IF stop > start THEN stop - start ELSE 0
<1>0. asked.page \in Nat /\ PageSize \in Nat \ {0} /\ Len(table) \in Nat
  <2>1. asked.page \in Nat
    BY DEF Request
  <2>2. PageSize \in Nat \ {0}
    BY HistoryViewAssumption
  <2> QED BY <2>1, <2>2
<1>1. start \in Nat /\ start < Len(table)
  BY <1>0
<1>2. Page(table, asked) = [i \in 1..n |-> table[start + i].what]
  BY DEF Page
<1> HIDE DEF start
<1>3. n \in Nat /\ n > 0
  BY <1>0, <1>1
<1> HIDE DEF n
<1>4. 1 \in DOMAIN Page(table, asked)
  BY <1>2, <1>3
<1>5. DOMAIN <<>> = {}
  OBVIOUS
<1> QED BY <1>4, <1>5

LEMMA BelowMonotone ==
  ASSUME NEW asked \in Request, NEW m \in Nat, NEW n \in Nat, m <= n, Below(asked, m)
  PROVE  Below(asked, n)
<1>1. asked.page \in Nat /\ PageSize \in Nat
  BY HistoryViewAssumption DEF Request
<1>2. asked.page * PageSize \in Nat
  BY <1>1
<1> DEFINE start == asked.page * PageSize
<1>3. Below(asked, m) <=> (asked.page > 0 => start < m)
  BY DEF Below
<1>4. Below(asked, n) <=> (asked.page > 0 => start < n)
  BY DEF Below
<1> HIDE DEF start
<1>5. start < m => start < n
  BY <1>2 DEF start
<1> QED BY <1>3, <1>4, <1>5

\* A page earlier is below what the later page is below.
LEMMA BelowBefore ==
  ASSUME NEW one \in Request, NEW other \in Request, NEW n \in Nat,
         one.page > 0, other.page + 1 = one.page, Below(one, n)
  PROVE  Below(other, n)
<1> DEFINE p == other.page
           s == PageSize
<1>0. p \in Nat /\ s \in Nat /\ one.page = p + 1
  BY HistoryViewAssumption DEF Request
<1>1. one.page * PageSize < n /\ (Below(other, n) <=> (p > 0 => p * s < n))
  BY DEF Below
<1> HIDE DEF p, s
<1>2. (p + 1) * s = p * s + s /\ p * s \in Nat
  BY <1>0
<1>3. (p + 1) * s < n
  BY <1>0, <1>1 DEF s
<1>4. p * s < n
  BY <1>0, <1>2, <1>3
<1> QED BY <1>1, <1>4

(***************************************************************************)
(* A fetch of a page that is the first or is known to have rows.           *)
(***************************************************************************)
LEMMA FetchKeepsInv ==
  ASSUME ViewInv, NEW asked \in Request, Fetch(asked), UNCHANGED last,
         clears' \in [asked : Nat, done : Nat],
         clears'.done = clears.done \/ asked.page = 0,
         ~ overtaken /\ ~ shrunk /\ clears.done = 0 /\ fetches = {} => Below(asked, CountOf(asked))
  PROVE  ViewInv'
<1>1. PICK n \in 1..MaxFetches :
        /\ controls' = asked
        /\ fetches' = fetches \cup {Fresh(asked, n)}
        /\ overtaken' = (fetches # {} \/ (overtaken /\ asked.page > 0))
        /\ shrunk' = (shrunk /\ asked.page > 0)
        /\ UNCHANGED <<tables, viewed, day>>
  BY DEF Fetch, tableVars
<1>2. Fresh(asked, n) \in PageFetch
  <2>1. n \in Nat
    <3>1. MaxFetches \in Nat
      BY HistoryViewAssumption
    <3> QED BY <3>1
  <2>2. SomeProfile \in HistoryProfile
    BY HistoryViewAssumption DEF SomeProfile
  <2> QED BY <2>1, <2>2 DEF Fresh, PageFetch
<1>3. overtaken' \in BOOLEAN /\ shrunk' \in BOOLEAN
  BY <1>1
<1>4. ViewType'
  BY <1>1, <1>2, <1>3 DEF ViewInv, ViewType
<1>5. ~ overtaken' => fetches' = {Fresh(asked, n)} /\ (~ overtaken \/ asked.page = 0)
  <2>1. asked.page > 0 \/ asked.page = 0
    BY DEF Request
  <2> QED BY <1>1, <2>1
<1>6. ~ overtaken' => InLine'
  <2>1. Fresh(asked, n).asked = asked
    BY DEF Fresh
  <2> HIDE <1>2
  <2> QED BY <1>1, <1>5, <2>1 DEF InLine
<1>7. ASSUME ~ overtaken', ~ shrunk', clears'.done = 0
      PROVE  Grounded'
  <2>1. fetches' = {Fresh(asked, n)}
    BY <1>5, <1>7
  <2>2. CountOf(controls)' = CountOf(asked)
    BY <1>1 DEF CountOf, Seen, RowsMatching, Since
  <2>3. Below(asked, CountOf(asked))
    <3>1. CASE asked.page = 0
      BY <3>1 DEF Below
    <3>2. CASE asked.page # 0
      <4>1. clears.done = 0 /\ ~ overtaken
        BY <3>2, <1>5, <1>7
      <4>3. ~ shrunk
        <5>1. asked.page > 0
          BY <3>2 DEF Request
        <5> QED BY <5>1, <1>1, <1>7
      <4>2. fetches = {}
        BY <1>1, <1>7
      <4> QED BY <4>1, <4>2, <4>3
    <3> QED BY <3>1, <3>2
  <2>4. Coming(Fresh(asked, n))'
    BY <2>2, <2>3, <1>1 DEF Coming, Fresh, Below
  <2> QED BY <2>1, <2>4 DEF Grounded
<1> QED BY <1>4, <1>6, <1>7 DEF ViewInv

\* What is known of the last result when no fetch is under way.
LEMMA NothingUnderWay ==
  ASSUME ViewInv, ~ overtaken, ~ shrunk, clears.done = 0, fetches = {}
  PROVE  last.total <= CountOf(controls) /\ Below(controls, last.total)
BY DEF ViewInv, Grounded

LEMMA TurningPages ==
  ASSUME ViewInv, ClickPrev \/ ClickNext
  PROVE  ViewInv'
<1>0. ViewType /\ controls \in Request /\ last.total \in Nat /\ clears \in [asked : Nat, done : Nat]
  BY DEF ViewInv, ViewType
<1>1. CASE ClickPrev
  <2> DEFINE there == [controls EXCEPT !.page = @ - 1]
  <2>1. /\ there \in Request /\ controls.page > 0 /\ there.page + 1 = controls.page
        /\ there.search = controls.search /\ there.status = controls.status
        /\ there.days = controls.days
    BY <1>0, <1>1 DEF ClickPrev, Request
  <2>2. Fetch(there) /\ UNCHANGED <<clears, last>>
    BY <1>1 DEF ClickPrev
  <2> HIDE DEF there
  <2>3. ASSUME ~ overtaken, ~ shrunk, clears.done = 0, fetches = {}
        PROVE  Below(there, CountOf(there))
    <3>1. Below(there, last.total)
      BY <1>0, <2>1, <2>3, NothingUnderWay, BelowBefore
    <3>2. last.total <= CountOf(there)
      BY <2>1, <2>3, NothingUnderWay, CountForgetsPage
    <3> QED BY <1>0, <2>1, <3>1, <3>2, CountIsNat, BelowMonotone
  <2> QED BY <1>0, <2>1, <2>2, <2>3, FetchKeepsInv
<1>2. CASE ClickNext
  <2> DEFINE there == [controls EXCEPT !.page = @ + 1]
  <2>1. /\ there \in Request /\ there.page = controls.page + 1
        /\ there.search = controls.search /\ there.status = controls.status
        /\ there.days = controls.days
    BY <1>0 DEF Request
  <2>2. Fetch(there) /\ UNCHANGED <<clears, last>>
    BY <1>2 DEF ClickNext
  <2>3. there.page * PageSize < last.total
    BY <1>2, <2>1 DEF ClickNext
  <2> HIDE DEF there
  <2>4. ASSUME ~ overtaken, ~ shrunk, clears.done = 0, fetches = {}
        PROVE  Below(there, CountOf(there))
    <3>1. Below(there, last.total)
      BY <2>3 DEF Below
    <3>2. last.total <= CountOf(there)
      BY <2>1, <2>4, NothingUnderWay, CountForgetsPage
    <3> QED BY <1>0, <2>1, <3>1, <3>2, CountIsNat, BelowMonotone
  <2> QED BY <1>0, <2>1, <2>2, <2>4, FetchKeepsInv
<1> QED BY <1>1, <1>2

\* The search, the filters, the events and the clearing go back to the first page.
LEMMA FirstPage ==
  ASSUME ViewInv,
         \/ \E text \in Search : TypeSearch(text)
         \/ \E status \in Chosen : ChooseStatus(status)
         \/ \E days \in DaysBack : TypeDays(days)
         \/ LoadHistory
         \/ Cleared
  PROVE  ViewInv'
<1>0. controls \in Request /\ clears \in [asked : Nat, done : Nat]
  BY DEF ViewInv, ViewType
<1>1. ASSUME NEW asked \in Request, asked.page = 0, Fetch(asked), UNCHANGED last,
             clears' \in [asked : Nat, done : Nat]
      PROVE  ViewInv'
  <2>1. Below(asked, CountOf(asked))
    BY <1>1 DEF Below
  <2> QED BY <1>1, <2>1, FetchKeepsInv
<1>2. ASSUME NEW text \in Search, TypeSearch(text) PROVE ViewInv'
  BY <1>0, <1>1, <1>2 DEF TypeSearch, Request
<1>3. ASSUME NEW status \in Chosen, ChooseStatus(status) PROVE ViewInv'
  BY <1>0, <1>1, <1>3, HistoryViewAssumption DEF ChooseStatus, Request
<1>4. CASE LoadHistory
  BY <1>0, <1>1, <1>4 DEF LoadHistory, Request
<1>5. CASE Cleared
  BY <1>0, <1>1, <1>5 DEF Cleared, Request
<1>6. ASSUME NEW days \in DaysBack, TypeDays(days) PROVE ViewInv'
  BY <1>0, <1>1, <1>6, HistoryViewAssumption DEF TypeDays, Request
<1> QED BY <1>2, <1>3, <1>4, <1>5, <1>6

LEMMA ClearingKeepsInv ==
  ASSUME ViewInv, ClickClear \/ HistoryClear \/ ClearFails
  PROVE  ViewInv'
<1>1. CASE ClickClear \/ ClearFails
  <2>1. /\ UNCHANGED <<tables, viewed, day, controls, fetches, last, overtaken, shrunk>>
        /\ clears'.done = clears.done /\ clears' \in [asked : Nat, done : Nat]
    BY <1>1 DEF ClickClear, ClearFails, ViewInv, ViewType, tableVars
  <2> QED BY <2>1 DEF ViewInv, ViewType, InLine, Grounded, Coming, Below, CountOf, Seen,
                      RowsMatching, Since
<1>2. CASE HistoryClear
  <2>1. /\ UNCHANGED <<viewed, day, controls, fetches, last, overtaken, shrunk>>
        /\ clears'.done # 0 /\ clears' \in [asked : Nat, done : Nat]
        /\ tables' \in [HistoryProfile -> Seq(LoggedRow)]
    BY <1>2 DEF HistoryClear, ViewInv, ViewType
  <2> QED BY <2>1 DEF ViewInv, ViewType, InLine
<1> QED BY <1>1, <1>2

LEMMA LoggingKeepsInv ==
  ASSUME ViewInv, NEW row \in HistoryRow, RowLogged(row)
  PROVE  ViewInv'
<1> DEFINE newest == [what |-> row, day |-> day]
<1>1. /\ tables' = [tables EXCEPT ![viewed] = <<newest>> \o @]
      /\ UNCHANGED <<viewed, day, controls, fetches, clears, last, overtaken, shrunk>>
  BY DEF RowLogged, shownVars
<1>2. ViewType /\ controls \in Request /\ last.total \in Nat /\ fetches \subseteq PageFetch
  BY DEF ViewInv, ViewType
<1>e. newest \in LoggedRow /\ viewed \in HistoryProfile /\ tables[viewed] \in Seq(LoggedRow)
  BY <1>2 DEF ViewType, LoggedRow
<1> HIDE DEF newest
<1>t. tables' \in [HistoryProfile -> Seq(LoggedRow)] /\ tables'[viewed] = <<newest>> \o tables[viewed]
  <2>1. <<newest>> \o tables[viewed] \in Seq(LoggedRow)
    BY <1>e
  <2> QED BY <1>1, <1>2, <1>e, <2>1 DEF ViewType
<1>3. ViewType'
  BY <1>1, <1>2, <1>t DEF ViewType
<1>4. CountOf(controls) <= CountOf(controls)'
  <2>1. Since(controls)' = Since(controls)
    BY <1>1 DEF Since
  <2> DEFINE table == tables[viewed]
             more == tables'[viewed]
             since == Since(controls)
  <2>2. /\ CountOf(controls) = Len(Sift(table, {i \in DOMAIN table : Matches(table[i], controls, since)}))
        /\ CountOf(controls)' = Len(Sift(more, {i \in DOMAIN more : Matches(more[i], controls, since)}))
    BY <1>1, <2>1 DEF CountOf, Seen, RowsMatching
  <2> HIDE DEF since
  <2>3. table \in Seq(LoggedRow) /\ more = <<newest>> \o table
    BY <1>e, <1>t
  <2> HIDE DEF table, more
  <2>4. Len(Sift(table, {i \in DOMAIN table : Matches(table[i], controls, since)}))
          <= Len(Sift(more, {i \in DOMAIN more : Matches(more[i], controls, since)}))
    BY <1>e, <2>3, LoggingCounts
  <2> QED BY <2>2, <2>4
<1>5. CountOf(controls) \in Nat /\ CountOf(controls)' \in Nat
  <2>1. CountOf(controls) \in Nat
    BY <1>2, CountIsNat
  <2>2. (CountOf(controls) \in Nat)'
    <3>1. tables'[viewed'] \in Seq(LoggedRow)
      BY <1>3 DEF ViewType
    <3> QED BY <3>1, SiftType DEF CountOf, Seen, RowsMatching
  <2> QED BY <2>1, <2>2
<1>6. Below(controls, CountOf(controls)) => Below(controls, CountOf(controls)')
  BY <1>2, <1>4, <1>5, BelowMonotone
<1>7. Grounded => Grounded'
  <2>1. ASSUME NEW f \in fetches, Coming(f) PROVE Coming(f)'
    <3>1. f.total \in Nat
      BY <1>2 DEF PageFetch
    <3>2. Since(controls)' = Since(controls)
      BY <1>1 DEF Since
    <3> QED BY <1>1, <1>4, <1>5, <1>6, <2>1, <3>1, <3>2 DEF Coming, Below
  <2>2. last.total <= CountOf(controls) => last.total <= CountOf(controls)'
    BY <1>2, <1>4, <1>5
  <2> QED BY <1>1, <2>1, <2>2 DEF Grounded, Below
<1>8. InLine => InLine'
  BY <1>1 DEF InLine
<1> QED BY <1>1, <1>3, <1>7, <1>8 DEF ViewInv

\* What goes on beside the page takes rows from its sight only where shrunk says so.
LEMMA BesideKeepsInv ==
  ASSUME ViewInv,
         \/ \E switch \in Switch : SetCurrent(switch)
         \/ \E p \in HistoryProfile : RowsGone(p)
         \/ \E d \in HistoryDay : DaysPass(d)
  PROVE  ViewInv'
<1>0. ViewType /\ day \in Nat /\ controls.days \in Nat
  BY DEF ViewInv, ViewType, Request
<1>1. UNCHANGED <<controls, fetches, clears, last, overtaken>>
  BY DEF SetCurrent, RowsGone, DaysPass
<1>2. ViewType'
  <2>1. ASSUME NEW switch \in Switch, SetCurrent(switch) PROVE ViewType'
    BY <1>0, <1>1, <2>1, HistoryViewAssumption DEF SetCurrent, ViewType
  <2>2. ASSUME NEW p \in HistoryProfile, RowsGone(p) PROVE ViewType'
    BY <1>0, <1>1, <2>2 DEF RowsGone, ViewType
  <2>3. ASSUME NEW d \in HistoryDay, DaysPass(d) PROVE ViewType'
    BY <1>0, <1>1, <2>3, HistoryViewAssumption DEF DaysPass, ViewType
  <2> QED BY <2>1, <2>2, <2>3
<1>3. InLine => InLine'
  BY <1>1 DEF InLine
<1>4. ASSUME ~ shrunk'
      PROVE  ~ shrunk /\ viewed' = viewed /\ Since(controls)' = Since(controls)
             /\ Seen(controls)' = Seen(controls)
  <2>1. \A switch \in Switch : ~ SetCurrent(switch)
    BY <1>4 DEF SetCurrent
  <2>2. ASSUME NEW p \in HistoryProfile, RowsGone(p)
        PROVE  ~ shrunk /\ UNCHANGED <<viewed, day>> /\ tables'[viewed] = tables[viewed]
    BY <1>0, <1>4, <2>2 DEF RowsGone, ViewType
  <2>3. ASSUME NEW d \in HistoryDay, DaysPass(d)
        PROVE  ~ shrunk /\ UNCHANGED <<viewed, tables>> /\ controls.days = 0
    <3>1. UNCHANGED <<viewed, tables>> /\ shrunk' = (shrunk \/ controls.days > 0)
      BY <2>3 DEF DaysPass
    <3>2. ~ shrunk /\ ~ (controls.days > 0)
      BY <1>4, <3>1
    <3> QED BY <1>0, <3>1, <3>2
  <2>4. Since(controls)' = Since(controls)
    BY <1>1, <2>1, <2>2, <2>3 DEF Since
  <2>5. ~ shrunk /\ viewed' = viewed /\ tables'[viewed] = tables[viewed]
    BY <2>1, <2>2, <2>3
  <2> QED BY <1>1, <2>4, <2>5 DEF Seen, RowsMatching
<1>5. ~ shrunk' /\ Grounded => Grounded'
  BY <1>1, <1>4 DEF Grounded, Coming, Below, CountOf
<1> QED BY <1>1, <1>2, <1>3, <1>4, <1>5 DEF ViewInv

LEMMA AnswerKeepsInv ==
  ASSUME ViewInv, NEW f \in fetches, CountRows(f) \/ Render(f) \/ FetchFails(f)
  PROVE  ViewInv'
<1>0. ViewType /\ controls \in Request /\ f \in PageFetch /\ fetches \subseteq PageFetch
  BY DEF ViewInv, ViewType
<1>1. CASE CountRows(f)
  <2> PICK g : g = [f EXCEPT !.counted = TRUE, !.of = viewed, !.since = Since(f.asked),
                             !.total = Len(RowsMatching(viewed, f.asked, Since(f.asked)))]
    OBVIOUS
  <2>1. /\ fetches' = (fetches \ {f}) \cup {g} /\ ~ f.counted
        /\ UNCHANGED <<tables, viewed, day, controls, clears, last, overtaken, shrunk>>
    BY <1>1 DEF CountRows, tableVars
  <2>2. CountOf(f.asked) \in Nat /\ Since(f.asked) \in Nat /\ viewed \in HistoryProfile
    BY <1>0, CountIsNat DEF Since, ViewType, PageFetch, Request
  <2>3. /\ g \in PageFetch /\ g.asked = f.asked /\ g.counted /\ g.total = CountOf(f.asked)
        /\ g.of = viewed /\ g.since = Since(f.asked)
    BY <1>0, <2>2 DEF PageFetch, CountOf, Seen
  <2>4. ViewType'
    BY <1>0, <2>1, <2>3 DEF ViewType
  <2>5. InLine => InLine'
    BY <2>1, <2>3 DEF InLine
  <2>6. CountOf(controls)' = CountOf(controls) /\ Since(controls)' = Since(controls)
    BY <2>1 DEF CountOf, Seen, RowsMatching, Since
  <2>7. ASSUME InLine, Grounded PROVE Grounded'
    <3>1. fetches' = {g}
      BY <2>1, <2>7 DEF InLine
    <3>2. f.asked = controls
      BY <2>7 DEF InLine
    <3>3. Below(controls, CountOf(controls))
      BY <2>1, <2>7 DEF Grounded, Coming
    <3>4. g.total <= CountOf(controls) /\ Below(controls, g.total)
      BY <2>2, <2>3, <3>2, <3>3
    <3>5. Coming(g)'
      BY <2>1, <2>3, <2>6, <3>2, <3>4 DEF Coming, Below
    <3> QED BY <3>1, <3>5 DEF Grounded
  <2> QED BY <2>1, <2>4, <2>5, <2>7 DEF ViewInv
<1>2. CASE Render(f)
  <2>1. /\ f.counted /\ fetches' = fetches \ {f}
        /\ UNCHANGED <<tables, viewed, day, controls, clears, overtaken, shrunk>>
        /\ last'.asked = f.asked /\ last'.total = f.total
        /\ last'.rows = Page(RowsMatching(f.of, f.asked, f.since), f.asked)
    BY <1>2 DEF Render, tableVars
  <2>2. ViewType'
    BY <1>0, <2>1 DEF ViewType, PageFetch
  <2>3. InLine => InLine' /\ fetches' = {}
    BY <2>1 DEF InLine
  <2>4. ASSUME InLine, Grounded PROVE Grounded'
    <3>1. f.asked = controls
      BY <2>4 DEF InLine
    <3>2. /\ f.of = viewed /\ f.since = Since(controls)
          /\ f.total <= CountOf(controls) /\ Below(controls, f.total)
      BY <2>1, <2>4 DEF Grounded, Coming
    <3>3. RowsMatching(f.of, f.asked, f.since) = Seen(controls)
      BY <3>1, <3>2 DEF Seen
    <3>4. Seen(controls) \in Seq(LoggedRow) /\ CountOf(controls) \in Nat
      BY <1>0, CountIsNat
    <3>5. Below(controls, CountOf(controls))
      BY <1>0, <3>2, <3>4, BelowMonotone DEF PageFetch
    <3>6. controls.page > 0 => last'.rows # <<>>
      BY <1>0, <2>1, <3>1, <3>3, <3>4, <3>5, PageHasRows DEF Below, CountOf
    <3>7. CountOf(controls)' = CountOf(controls)
      BY <2>1 DEF CountOf, Seen, RowsMatching, Since
    <3> QED BY <2>1, <2>3, <2>4, <3>2, <3>6, <3>7 DEF Grounded, Below
  <2> QED BY <2>1, <2>2, <2>3, <2>4 DEF ViewInv
<1>3. CASE FetchFails(f)
  BY <1>0, <1>3 DEF FetchFails, ViewInv, ViewType, tableVars
<1> QED BY <1>1, <1>2, <1>3

\* The page shows what its controls ask for, and rows if it is not the first, for
\* any rows, profiles, searches, days, page size and number of fetches under way.
THEOREM PageAlwaysShowsWhatItAsks == ViewSpec => []PageShowsWhatItAsks
<1>1. ViewInit => ViewInv
  <2> SUFFICES ASSUME ViewInit PROVE ViewInv
    OBVIOUS
  <2>1. controls \in Request /\ Fresh(NoResult.asked, 1) \in PageFetch
    BY HistoryViewAssumption
    DEF ViewInit, NoResult, Fresh, Request, PageFetch, StatusOption, SomeProfile
  <2>2. ViewType
    <3>1. /\ tables \in [HistoryProfile -> Seq(LoggedRow)] /\ fetches \subseteq PageFetch
          /\ clears \in [asked : Nat, done : Nat]
      BY <2>1 DEF ViewInit
    <3>2. overtaken \in BOOLEAN /\ shrunk \in BOOLEAN
      BY DEF ViewInit
    <3>3. last.total \in Nat
      BY DEF ViewInit, NoResult
    <3>4. viewed \in HistoryProfile /\ day \in Nat
      BY HistoryViewAssumption DEF ViewInit, SomeProfile
    <3> QED BY <2>1, <3>1, <3>2, <3>3, <3>4 DEF ViewType
  <2>3. InLine
    BY DEF ViewInit, InLine, Fresh
  <2>4. Grounded
    <3>0. controls.page = 0
      BY DEF ViewInit, NoResult
    <3>1. Below(controls, CountOf(controls))
      BY <3>0 DEF Below
    <3>2. Coming(Fresh(NoResult.asked, 1))
      BY <3>1 DEF Coming, Fresh
    <3> QED BY <3>2 DEF ViewInit, Grounded
  <2> QED BY <2>2, <2>3, <2>4 DEF ViewInv
<1>2. ViewInv /\ [ViewNext]_viewVars => ViewInv'
  <2> SUFFICES ASSUME ViewInv, [ViewNext]_viewVars PROVE ViewInv'
    OBVIOUS
  <2>1. CASE ViewNext
    BY <2>1, TurningPages, FirstPage, ClearingKeepsInv, LoggingKeepsInv, BesideKeepsInv,
       AnswerKeepsInv DEF ViewNext
  <2>2. CASE UNCHANGED viewVars
    BY <2>2 DEF viewVars, ViewInv, ViewType, InLine, Grounded, Coming, Below, CountOf, Seen,
                RowsMatching, Since
  <2> QED BY <2>1, <2>2
<1>3. ViewInv => PageShowsWhatItAsks
  <2> SUFFICES ASSUME ViewInv, fetches = {}, clears = [asked |-> 0, done |-> 0], ~ overtaken
               PROVE  /\ last.asked = controls
                      /\ controls.page > 0 /\ ~ shrunk => last.rows # <<>>
    BY DEF PageShowsWhatItAsks
  <2>1. clears.done = 0
    OBVIOUS
  <2> QED BY <2>1 DEF ViewInv, InLine, Grounded
<1> QED BY <1>1, <1>2, <1>3, PTL DEF ViewSpec

-----------------------------------------------------------------------------
(* Snapshots and their diffs. *)

SnapRow == [id : Nat, domain : SnapDomain, at : 1..LastCapture, content : SnapContent]

SnapshotsInv ==
  /\ snapshots \in Seq(SnapRow)
  /\ \A i \in DOMAIN snapshots : snapshots[i].id = i

LEMMA CaptureTimes ==
  LastCapture \in Nat /\ \A r \in SnapRow : r.at \in Nat /\ 1 <= r.at /\ r.at <= LastCapture
BY SnapshotsAssumption DEF SnapRow

LEMMA SnapshotsStep == SnapshotsInv /\ [SnapshotsNext]_snapshots => SnapshotsInv'
<1> SUFFICES ASSUME SnapshotsInv, [SnapshotsNext]_snapshots PROVE SnapshotsInv'
  OBVIOUS
<1>1. ASSUME NEW d \in SnapDomain, NEW at \in 1..LastCapture, NEW c \in SnapContent,
             InsertSnapshot(d, at, c)
      PROVE  SnapshotsInv'
  <2> PICK row : row = [id |-> Len(snapshots) + 1, domain |-> d, at |-> at, content |-> c]
    OBVIOUS
  <2>1. row \in SnapRow /\ row.id = Len(snapshots) + 1
    BY DEF SnapRow, SnapshotsInv
  <2>2. snapshots' = Append(snapshots, row)
    BY <1>1 DEF InsertSnapshot
  <2> QED BY <2>1, <2>2 DEF SnapshotsInv
<1>2. ASSUME NEW d \in SnapDomain, DeleteDomain(d) PROVE SnapshotsInv'
  <2>0. PICK rest : rest = Sift(snapshots, {i \in DOMAIN snapshots : snapshots[i].domain # d})
    OBVIOUS
  <2>1. rest \in Seq(SnapRow)
    BY <2>0, SiftType DEF SnapshotsInv
  <2>2. snapshots' = [i \in DOMAIN rest |-> [rest[i] EXCEPT !.id = i]]
    BY <1>2, <2>0 DEF DeleteDomain
  <2>3. ASSUME NEW r \in SnapRow, NEW i \in Nat
        PROVE  [r EXCEPT !.id = i] \in SnapRow /\ [r EXCEPT !.id = i].id = i
    BY DEF SnapRow
  <2>4. /\ DOMAIN rest = 1..Len(rest) /\ Len(rest) \in Nat
        /\ \A i \in 1..Len(rest) : rest[i] \in SnapRow
    BY <2>1
  <2>5. ASSUME NEW i \in 1..Len(rest) PROVE snapshots'[i] \in SnapRow /\ snapshots'[i].id = i
    <3>1. i \in DOMAIN rest /\ i \in Nat /\ rest[i] \in SnapRow
      BY <2>4
    <3>2. snapshots'[i] = [rest[i] EXCEPT !.id = i]
      BY <2>2, <3>1
    <3> QED BY <2>3, <3>1, <3>2
  <2>6. snapshots' \in Seq(SnapRow) /\ Len(snapshots') = Len(rest)
    <3>0. PICK n, f : n = Len(rest) /\ f = snapshots'
      OBVIOUS
    <3>1. n \in Nat /\ f = [i \in 1..n |-> f[i]] /\ \A i \in 1..n : f[i] \in SnapRow
      BY <2>2, <2>4, <2>5, <3>0
    <3> QED BY <3>0, <3>1, BuiltSequence
  <2> QED BY <2>5, <2>6 DEF SnapshotsInv
<1>3. CASE ClearSnapshots
  BY <1>3 DEF ClearSnapshots, SnapshotsInv
<1>4. CASE UNCHANGED snapshots
  BY <1>4 DEF SnapshotsInv
<1> QED BY <1>1, <1>2, <1>3, <1>4 DEF SnapshotsNext

\* The rows are of their type and numbered from 1 up without a gap, whatever is
\* inserted and deleted.
THEOREM RowsWellFormed == SnapshotsSpec => []SnapshotsInv
<1>1. SnapshotsInit => SnapshotsInv
  BY DEF SnapshotsInit, SnapshotsInv
<1> QED BY <1>1, SnapshotsStep, PTL DEF SnapshotsSpec

\* The rows of a domain up to a time, in order.
LEMMA HistoryUntil ==
  ASSUME SnapshotsInv, NEW d \in SnapDomain
  PROVE  OfDomain(d) \in Seq(SnapRow) /\ InOrderOfCapture(d, OfDomain(d))
<1> DEFINE placesAt(t) == {i \in DOMAIN snapshots : snapshots[i].domain = d /\ snapshots[i].at = t}
           At(f, t) == IF t = 0 THEN <<>> ELSE f[t - 1] \o Sift(snapshots, placesAt(t))
           L == LastCapture
<1>1. L \in Nat /\ \A t : Sift(snapshots, placesAt(t)) \in Seq(SnapRow)
  BY SnapshotsAssumption, SiftType DEF SnapshotsInv
<1>2. \E f : f = [t \in 0..L |-> At(f, t)]
  <2>0. PICK next :
          next = [t \in 1..L |-> [q \in Seq(SnapRow) |-> q \o Sift(snapshots, placesAt(t))]]
    OBVIOUS
  <2>1. next \in [1..L -> [Seq(SnapRow) -> Seq(SnapRow)]]
    <3>1. \A t \in 1..L, q \in Seq(SnapRow) : q \o Sift(snapshots, placesAt(t)) \in Seq(SnapRow)
      <4> HIDE DEF placesAt
      <4> QED BY <1>1
    <3> HIDE DEF placesAt
    <3> QED BY <2>0, <3>1
  <2>2. <<>> \in Seq(SnapRow)
    OBVIOUS
  <2>3. PICK f \in [0..L -> Seq(SnapRow)] :
          f[0] = <<>> /\ \A t \in 1..L : f[t] = next[t][f[t - 1]]
    <3>1. PICK D, n, x : D = Seq(SnapRow) /\ n = L /\ x = <<>>
      OBVIOUS
    <3>2. n \in Nat /\ x \in D /\ next \in [1..n -> [D -> D]]
      BY <1>1, <2>1, <2>2, <3>1
    <3>3. \E f : Steps(f, D, x, n, next)
      BY ONLY <3>2, Recursion
    <3> QED BY <3>1, <3>3 DEF Steps
  <2>4. ASSUME NEW t \in 0..L PROVE f[t] = At(f, t)
    <3>1. CASE t = 0
      BY <2>3, <3>1
    <3>2. CASE t # 0
      <4>1. t \in 1..L /\ t - 1 \in 0..L
        BY <1>1, <3>2
      <4>2. f[t - 1] \in Seq(SnapRow)
        BY <2>3, <4>1
      <4>3. next[t][f[t - 1]] = f[t - 1] \o Sift(snapshots, placesAt(t))
        <5> HIDE DEF placesAt
        <5> QED BY <2>0, <4>1, <4>2
      <4> QED BY <2>3, <3>2, <4>1, <4>3
    <3> QED BY <3>1, <3>2
  <2>5. f = [t \in 0..L |-> f[t]]
    BY <2>3
  <2>6. f = [t \in 0..L |-> At(f, t)]
    <3> HIDE DEF At
    <3> QED BY <2>4, <2>5
  <2> HIDE DEF At
  <2> QED BY <2>6
<1> DEFINE until == CHOOSE f : f = [t \in 0..L |-> At(f, t)]
<1>3. until = [t \in 0..L |-> At(until, t)]
  <2> HIDE DEF At
  <2> QED BY <1>2
<1>4. OfDomain(d) = until[L]
  BY DEF OfDomain
<1> HIDE DEF until
<1>5. \A t \in 0..L : until[t] = At(until, t)
  <2>1. \A g : \A t \in 0..L : [u \in 0..L |-> At(g, u)][t] = At(g, t)
    OBVIOUS
  <2> HIDE DEF At
  <2> QED BY <1>3, <2>1
<1> DEFINE Upto(q, t) ==
             /\ q \in Seq(SnapRow)
             /\ \A k \in 1..Len(q) : \E i \in DOMAIN snapshots :
                  snapshots[i].domain = d /\ snapshots[i].at <= t /\ q[k] = snapshots[i]
             /\ \A i \in DOMAIN snapshots : snapshots[i].domain = d /\ snapshots[i].at <= t =>
                  \E k \in 1..Len(q) : q[k] = snapshots[i]
             /\ \A i, j \in 1..Len(q) :
                  i < j => \/ q[i].at < q[j].at
                           \/ q[i].at = q[j].at /\ q[i].id < q[j].id
           T == {t \in Nat : t <= L => Upto(until[t], t)}
<1>6. 0 \in T
  <2>1. until[0] = <<>>
    <3>1. 0 \in 0..L
      BY <1>1
    <3>2. until[0] = At(until, 0)
      <4> HIDE DEF At
      <4> QED BY <1>5, <3>1
    <3> QED BY <3>2
  <2>2. \A i \in DOMAIN snapshots : ~ (snapshots[i].at <= 0)
    BY CaptureTimes DEF SnapshotsInv
  <2>3. Upto(<<>>, 0)
    BY <2>2
  <2> HIDE DEF Upto
  <2> QED BY <2>1, <2>3
<1>7. ASSUME NEW t \in Nat, t \in T PROVE t + 1 \in T
  <2> SUFFICES ASSUME t + 1 <= L PROVE Upto(until[t + 1], t + 1)
    OBVIOUS
  <2>1. PICK q, r : q = until[t] /\ r = Sift(snapshots, placesAt(t + 1))
    OBVIOUS
  <2>2. Upto(q, t)
    <3> HIDE DEF Upto
    <3> QED BY <1>1, <1>7, <2>1
  <2>3. until[t + 1] = q \o r
    <3>1. t + 1 \in 0..L /\ t + 1 # 0 /\ (t + 1) - 1 = t
      BY <1>1
    <3>2. until[t + 1] = At(until, t + 1)
      <4> HIDE DEF At
      <4> QED BY <1>5, <3>1
    <3> QED BY <2>1, <3>1, <3>2
  <2>4. r \in Seq(SnapRow)
    <3> HIDE DEF placesAt
    <3> QED BY <1>1, <2>1
  <2>5. PICK at \in [1..Len(r) -> 1..Len(snapshots)] :
          /\ \A k \in 1..Len(r) : at[k] \in placesAt(t + 1) /\ r[k] = snapshots[at[k]]
          /\ \A k, m \in 1..Len(r) : k < m => at[k] < at[m]
          /\ \A i \in 1..Len(snapshots) : i \in placesAt(t + 1) => \E k \in 1..Len(r) : at[k] = i
    <3> HIDE DEF placesAt
    <3> QED BY <2>1, SiftPlaces DEF SnapshotsInv
  <2>6. PICK m, n, c : m = Len(q) /\ n = Len(r) /\ c = q \o r
    OBVIOUS
  <2>7. /\ m \in Nat /\ n \in Nat /\ Len(c) = m + n /\ c \in Seq(SnapRow)
        /\ \A k \in 1..m : c[k] = q[k]
        /\ \A k \in 1..n : c[m + k] = r[k]
    BY <2>2, <2>4, <2>6, Concatenated
  <2>8. \A k \in 1..Len(c) : k \in 1..m \/ (k - m \in 1..n /\ k = m + (k - m))
    BY <2>7
  <2>9. \A k \in 1..n : /\ at[k] \in DOMAIN snapshots /\ r[k] = snapshots[at[k]]
                        /\ r[k].domain = d /\ r[k].at = t + 1 /\ r[k].id = at[k]
    BY <2>5, <2>6 DEF SnapshotsInv
  <2>10. \A k \in 1..Len(c) : \E i \in DOMAIN snapshots :
           snapshots[i].domain = d /\ snapshots[i].at <= t + 1 /\ c[k] = snapshots[i]
    <3> SUFFICES ASSUME NEW k \in 1..Len(c)
                 PROVE  \E i \in DOMAIN snapshots :
                          snapshots[i].domain = d /\ snapshots[i].at <= t + 1 /\ c[k] = snapshots[i]
      OBVIOUS
    <3>1. CASE k \in 1..m
      <4>1. PICK i \in DOMAIN snapshots :
              snapshots[i].domain = d /\ snapshots[i].at <= t /\ q[k] = snapshots[i]
        BY <2>2, <2>6, <3>1
      <4>2. snapshots[i].at \in Nat
        BY CaptureTimes DEF SnapshotsInv
      <4> QED BY <2>7, <3>1, <4>1, <4>2
    <3>2. CASE k - m \in 1..n /\ k = m + (k - m)
      <4>1. c[k] = r[k - m]
        BY <2>7, <3>2
      <4> QED BY <2>9, <3>2, <4>1
    <3> QED BY <2>8, <3>1, <3>2
  <2>11. ASSUME NEW i \in DOMAIN snapshots, snapshots[i].domain = d, snapshots[i].at <= t + 1
         PROVE  \E k \in 1..Len(c) : c[k] = snapshots[i]
    <3>1. CASE snapshots[i].at = t + 1
      <4>1. i \in placesAt(t + 1) /\ i \in 1..Len(snapshots)
        BY <2>11, <3>1 DEF SnapshotsInv
      <4>2. PICK k \in 1..n : at[k] = i
        <5> HIDE DEF placesAt
        <5> QED BY <2>5, <2>6, <4>1
      <4>3. m + k \in 1..Len(c) /\ c[m + k] = snapshots[i]
        BY <2>7, <2>9, <4>2
      <4> QED BY <4>3
    <3>2. CASE snapshots[i].at # t + 1
      <4>1. snapshots[i].at <= t
        BY <2>11, <3>2, CaptureTimes DEF SnapshotsInv
      <4>2. PICK k \in 1..m : q[k] = snapshots[i]
        BY <2>2, <2>6, <2>11, <4>1
      <4>3. k \in 1..Len(c) /\ c[k] = snapshots[i]
        BY <2>7, <4>2
      <4> QED BY <4>3
    <3> QED BY <3>1, <3>2
  <2>12. ASSUME NEW i \in 1..Len(c), NEW j \in 1..Len(c), i < j
         PROVE  c[i].at < c[j].at \/ (c[i].at = c[j].at /\ c[i].id < c[j].id)
    <3>1. CASE i \in 1..m /\ j \in 1..m
      <4>1. c[i] = q[i] /\ c[j] = q[j] /\ i \in 1..Len(q) /\ j \in 1..Len(q)
        BY <2>6, <2>7, <3>1
      <4>2. i < j
        BY <2>12
      <4>3. q[i].at < q[j].at \/ (q[i].at = q[j].at /\ q[i].id < q[j].id)
        BY <2>2, <4>1, <4>2
      <4> QED BY <4>1, <4>3
    <3>2. CASE i \in 1..m /\ j - m \in 1..n /\ j = m + (j - m)
      <4>1. PICK p \in DOMAIN snapshots : snapshots[p].at <= t /\ q[i] = snapshots[p]
        BY <2>2, <2>6, <3>2
      <4>2. snapshots[p].at \in Nat
        BY CaptureTimes DEF SnapshotsInv
      <4>3. c[j] = r[j - m] /\ r[j - m].at = t + 1 /\ c[i] = q[i]
        BY <2>7, <2>9, <3>2
      <4> QED BY <4>1, <4>2, <4>3
    <3>3. CASE i - m \in 1..n /\ i = m + (i - m) /\ j - m \in 1..n /\ j = m + (j - m)
      <4>1. c[i] = r[i - m] /\ c[j] = r[j - m]
        BY <2>7, <3>3
      <4>2. i - m < j - m
        BY <2>7, <2>12
      <4>3. at[i - m] < at[j - m]
        BY <2>5, <2>6, <3>3, <4>2
      <4> QED BY <2>9, <3>3, <4>1, <4>3
    <3>4. ~ (j \in 1..m /\ i - m \in 1..n)
      BY <2>7, <2>12
    <3> QED BY <2>8, <3>1, <3>2, <3>3, <3>4
  <2>13. Upto(c, t + 1)
    BY <2>7, <2>10, <2>11, <2>12
  <2> HIDE DEF Upto
  <2> QED BY <2>3, <2>6, <2>13
<1>8. L \in T
  <2> HIDE DEF T
  <2> QED BY <1>1, <1>6, <1>7, NatSetInduction
<1>9. PICK q : q = OfDomain(d)
  OBVIOUS
<1>10. Upto(q, L)
  <2> HIDE DEF Upto
  <2> QED BY <1>1, <1>4, <1>8, <1>9
<1>11. DOMAIN q = 1..Len(q)
  BY <1>10
<1>12. \A i \in DOMAIN snapshots : snapshots[i].at <= L
  BY CaptureTimes DEF SnapshotsInv
<1>13. {q[k] : k \in DOMAIN q} =
         {snapshots[i] : i \in {j \in DOMAIN snapshots : snapshots[j].domain = d}}
  <2>1. \A k \in DOMAIN q : \E i \in DOMAIN snapshots :
          snapshots[i].domain = d /\ q[k] = snapshots[i]
    BY <1>10, <1>11
  <2>2. \A i \in DOMAIN snapshots :
          snapshots[i].domain = d => \E k \in DOMAIN q : q[k] = snapshots[i]
    BY <1>10, <1>11, <1>12
  <2> QED BY <2>1, <2>2
<1>14. \A i, j \in DOMAIN q : i < j => \/ q[i].at < q[j].at
                                       \/ q[i].at = q[j].at /\ q[i].id < q[j].id
  BY <1>10, <1>11
<1>15. InOrderOfCapture(d, q)
  BY <1>13, <1>14 DEF InOrderOfCapture
<1>16. q \in Seq(SnapRow)
  BY <1>10
<1> QED BY <1>9, <1>15, <1>16

SnapFields == {Keyed(SnapKeys[k]) : k \in DOMAIN SnapKeys} \cup {Direct(n) : n \in OwnFields}

\* What Told says of each field.
LEMMA ToldFacts ==
  ASSUME NEW c
  PROVE  /\ Told(c) = [f \in SnapFields |-> Told(c)[f]]
         /\ \A n \in OwnFields : Direct(n) \in SnapFields
         /\ Told(c)[Direct("registrar")] = c.registrar
         /\ Told(c)[Direct("nameservers")] = BagOf(c.nameservers)
         /\ Told(c)[Direct("status_codes")] = BagOf(c.status_codes)
         /\ \A k \in 1..Len(SnapKeys) :
              /\ Keyed(SnapKeys[k]) \in SnapFields
              /\ Told(c)[Keyed(SnapKeys[k])] = FieldOf(c, SnapKeys[k])
<1>1. /\ \A n \in OwnFields : Direct(n) \in SnapFields
      /\ \A k \in 1..Len(SnapKeys) : Keyed(SnapKeys[k]) \in SnapFields
  BY SnapshotsAssumption DEF SnapFields
<1>2. \A f \in SnapFields :
        Told(c)[f] = IF f[1] = "key" THEN FieldOf(c, f[2])
                     ELSE IF f[2] = "registrar" THEN c.registrar
                     ELSE BagOf(c[f[2]])
  BY DEF Told, SnapFields
<1>3. ASSUME NEW k \in 1..Len(SnapKeys)
      PROVE  Told(c)[Keyed(SnapKeys[k])] = FieldOf(c, SnapKeys[k])
  <2>1. Keyed(SnapKeys[k])[1] = "key" /\ Keyed(SnapKeys[k])[2] = SnapKeys[k]
    BY DEF Keyed
  <2> QED BY <1>1, <1>2, <2>1
<1>4. ASSUME NEW n \in OwnFields
      PROVE  Told(c)[Direct(n)] = IF n = "registrar" THEN c.registrar ELSE BagOf(c[n])
  <2>1. Direct(n)[1] # "key" /\ Direct(n)[2] = n
    BY DEF Direct
  <2> QED BY <1>1, <1>2, <2>1
<1>5. /\ Told(c)[Direct("registrar")] = c.registrar
      /\ Told(c)[Direct("nameservers")] = BagOf(c["nameservers"])
      /\ Told(c)[Direct("status_codes")] = BagOf(c["status_codes"])
  BY <1>4 DEF OwnFields
<1>6. Told(c) = [f \in SnapFields |-> Told(c)[f]]
  BY DEF Told, SnapFields
<1> QED BY <1>1, <1>3, <1>5, <1>6

\* Of no snapshot nothing is told.
LEMMA NothingTold ==
  /\ Told(Nothing)[Direct("registrar")] = Absence
  /\ Told(Nothing)[Direct("nameservers")] = NoNames
  /\ Told(Nothing)[Direct("status_codes")] = NoNames
  /\ \A k \in 1..Len(SnapKeys) : Told(Nothing)[Keyed(SnapKeys[k])] = Absence
<1>1. PICK c : c = Nothing
  OBVIOUS
<1>2. /\ c.registrar = Absence /\ c.nameservers = <<>> /\ c.status_codes = <<>>
      /\ \A key : FieldOf(c, key) = Absence
  BY <1>1 DEF Nothing, FieldOf, NoNames
<1>3. BagOf(<<>>) = NoNames
  BY DEF BagOf, NoNames
<1>4. Told(c) = Told(Nothing)
  BY <1>1
<1>5. /\ Told(c)[Direct("registrar")] = Absence
      /\ Told(c)[Direct("nameservers")] = NoNames /\ Told(c)[Direct("status_codes")] = NoNames
      /\ \A k \in 1..Len(SnapKeys) : Told(c)[Keyed(SnapKeys[k])] = Absence
  BY <1>2, <1>3, ToldFacts
<1> QED BY <1>4, <1>5

\* An entry of two snapshots says what both tell of its field.
Tells(e, a, b) ==
  /\ e.field \in SnapFields
  /\ e.old = Told(a)[e.field] /\ e.new = Told(b)[e.field]
  /\ e.kind = "added" <=> e.old = Told(Nothing)[e.field]
  /\ e.old # e.new => (e.kind = "removed" <=> e.new = Told(Nothing)[e.field])

LEMMA EntryTells ==
  ASSUME NEW field \in SnapFields, NEW none, NEW a, NEW b, none = Told(Nothing)[field],
         NEW e, e = Entry(field, none, Told(a)[field], Told(b)[field])
  PROVE  e.field = field /\ Tells(e, a, b)
<1>1. /\ e.field = field /\ e.old = Told(a)[field] /\ e.new = Told(b)[field]
      /\ e.kind = IF e.old = none THEN "added" ELSE IF e.new = none THEN "removed" ELSE "changed"
  BY DEF Entry
<1> QED BY <1>1 DEF Tells

\* Every field is compared, and nothing else.
LEMMA ComparedTells ==
  ASSUME NEW a, NEW b
  PROVE  \E S, all : /\ all = Compared(a, b) /\ all \in Seq(S)
                     /\ \A i \in 1..Len(all) : Tells(all[i], a, b)
                     /\ \A f \in SnapFields : \E i \in 1..Len(all) : all[i].field = f
<1> DEFINE key(k) == Entry(Keyed(SnapKeys[k]), Absence,
                           FieldOf(a, SnapKeys[k]), FieldOf(b, SnapKeys[k]))
<1>1. PICK keys, own, all, n :
        /\ keys = [k \in DOMAIN SnapKeys |-> key(k)]
        /\ own = << Entry(Direct("registrar"), Absence, a.registrar, b.registrar),
                    ListDiff(Direct("nameservers"), a.nameservers, b.nameservers),
                    ListDiff(Direct("status_codes"), a.status_codes, b.status_codes) >>
        /\ all = keys \o own /\ n = Len(SnapKeys)
  OBVIOUS
<1>2. all = Compared(a, b)
  BY <1>1 DEF Compared
<1>3. n \in Nat /\ DOMAIN SnapKeys = 1..n
  BY <1>1, SnapshotsAssumption
<1>4. ASSUME NEW k \in 1..n PROVE keys[k].field = Keyed(SnapKeys[k]) /\ Tells(keys[k], a, b)
  <2>1. keys[k] = Entry(Keyed(SnapKeys[k]), Absence,
                        Told(a)[Keyed(SnapKeys[k])], Told(b)[Keyed(SnapKeys[k])])
    <3>1. keys[k] = Entry(Keyed(SnapKeys[k]), Absence,
                          FieldOf(a, SnapKeys[k]), FieldOf(b, SnapKeys[k]))
      BY <1>1, <1>3
    <3> QED BY <1>1, <3>1, ToldFacts
  <2>2. Keyed(SnapKeys[k]) \in SnapFields /\ Absence = Told(Nothing)[Keyed(SnapKeys[k])]
    BY <1>1, ToldFacts, NothingTold
  <2> QED BY <2>1, <2>2, EntryTells
<1>5. /\ own[1] = Entry(Direct("registrar"), Absence,
                       Told(a)[Direct("registrar")], Told(b)[Direct("registrar")])
      /\ own[2] = Entry(Direct("nameservers"), NoNames,
                       Told(a)[Direct("nameservers")], Told(b)[Direct("nameservers")])
      /\ own[3] = Entry(Direct("status_codes"), NoNames,
                       Told(a)[Direct("status_codes")], Told(b)[Direct("status_codes")])
  <2>1. /\ own[1] = Entry(Direct("registrar"), Absence, a.registrar, b.registrar)
        /\ own[2] = ListDiff(Direct("nameservers"), a.nameservers, b.nameservers)
        /\ own[3] = ListDiff(Direct("status_codes"), a.status_codes, b.status_codes)
    BY <1>1
  <2> QED BY <2>1, ToldFacts DEF ListDiff
<1>6. /\ Direct("registrar") \in SnapFields
      /\ Direct("nameservers") \in SnapFields /\ Direct("status_codes") \in SnapFields
  BY ToldFacts DEF OwnFields
<1>7. /\ own[1].field = Direct("registrar") /\ Tells(own[1], a, b)
      /\ own[2].field = Direct("nameservers") /\ Tells(own[2], a, b)
      /\ own[3].field = Direct("status_codes") /\ Tells(own[3], a, b)
  <2>1. own[1].field = Direct("registrar") /\ Tells(own[1], a, b)
    BY <1>5, <1>6, NothingTold, EntryTells
  <2>2. own[2].field = Direct("nameservers") /\ Tells(own[2], a, b)
    BY <1>5, <1>6, NothingTold, EntryTells
  <2>3. own[3].field = Direct("status_codes") /\ Tells(own[3], a, b)
    BY <1>5, <1>6, NothingTold, EntryTells
  <2> QED BY <2>1, <2>2, <2>3
<1>8. PICK S : S = {keys[k] : k \in 1..n} \cup {own[1], own[2], own[3]}
  OBVIOUS
<1>9. keys \in Seq(S) /\ Len(keys) = n
  <2>1. keys = [k \in 1..n |-> keys[k]] /\ \A k \in 1..n : keys[k] \in S
    BY <1>1, <1>3, <1>8
  <2> QED BY ONLY <1>3, <2>1, BuiltSequence
<1>10. own \in Seq(S) /\ Len(own) = 3
  BY <1>1, <1>8
<1>11. /\ all \in Seq(S) /\ Len(all) = n + 3
       /\ \A k \in 1..n : all[k] = keys[k]
       /\ all[n + 1] = own[1] /\ all[n + 2] = own[2] /\ all[n + 3] = own[3]
  <2>1. /\ all \in Seq(S) /\ Len(all) = n + 3
        /\ \A k \in 1..n : all[k] = keys[k]
        /\ \A k \in 1..3 : all[n + k] = own[k]
    BY <1>1, <1>9, <1>10, Concatenated
  <2>2. 1 \in 1..3 /\ 2 \in 1..3 /\ 3 \in 1..3
    OBVIOUS
  <2> QED BY ONLY <2>1, <2>2
<1>12. \A i \in 1..Len(all) : i \in 1..n \/ i = n + 1 \/ i = n + 2 \/ i = n + 3
  BY <1>3, <1>11
<1>13. \A i \in 1..Len(all) : Tells(all[i], a, b)
  BY <1>4, <1>7, <1>11, <1>12
<1>14. ASSUME NEW f \in SnapFields PROVE \E i \in 1..Len(all) : all[i].field = f
  <2>1. CASE \E x \in OwnFields : f = Direct(x)
    <3>1. n + 1 \in 1..Len(all) /\ n + 2 \in 1..Len(all) /\ n + 3 \in 1..Len(all)
      BY <1>3, <1>11
    <3> QED BY <1>7, <1>11, <2>1, <3>1 DEF OwnFields
  <2>2. CASE ~ \E x \in OwnFields : f = Direct(x)
    <3>1. PICK k \in 1..n : f = Keyed(SnapKeys[k])
      BY <1>3, <2>2 DEF SnapFields
    <3>2. k \in 1..Len(all)
      BY <1>3, <1>11
    <3> QED BY <1>4, <1>11, <3>1, <3>2
  <2> QED BY <2>1, <2>2
<1> QED BY <1>2, <1>11, <1>13, <1>14

\* A diff has an entry of each field that two snapshots do not tell the same of,
\* and of no other.
LEMMA DiffTells ==
  ASSUME NEW a, NEW b
  PROVE  /\ \E S : Diff(a, b) \in Seq(S)
         /\ \A n \in 1..Len(Diff(a, b)) :
              Tells(Diff(a, b)[n], a, b) /\ Diff(a, b)[n].old # Diff(a, b)[n].new
         /\ \A f \in SnapFields :
              Told(a)[f] # Told(b)[f] => \E n \in 1..Len(Diff(a, b)) : Diff(a, b)[n].field = f
<1>1. PICK S, all : /\ all = Compared(a, b) /\ all \in Seq(S)
                    /\ \A i \in 1..Len(all) : Tells(all[i], a, b)
                    /\ \A f \in SnapFields : \E i \in 1..Len(all) : all[i].field = f
  BY ComparedTells
<1>2. PICK P : P = {i \in DOMAIN all : all[i].old # all[i].new}
  OBVIOUS
<1>3. Diff(a, b) = Sift(all, P)
  BY <1>1, <1>2 DEF Diff
<1>4. PICK q : q = Sift(all, P)
  OBVIOUS
<1>5. q \in Seq(S)
  BY <1>1, <1>4, SiftType
<1>6. PICK at \in [1..Len(q) -> 1..Len(all)] :
        /\ \A k \in 1..Len(q) : at[k] \in P /\ q[k] = all[at[k]]
        /\ \A i \in 1..Len(all) : i \in P => \E k \in 1..Len(q) : at[k] = i
  BY <1>1, <1>4, SiftPlaces
<1>7. \A n \in 1..Len(q) : Tells(q[n], a, b) /\ q[n].old # q[n].new
  BY <1>1, <1>2, <1>6
<1>8. ASSUME NEW f \in SnapFields, Told(a)[f] # Told(b)[f]
      PROVE  \E n \in 1..Len(q) : q[n].field = f
  <2>1. PICK i \in 1..Len(all) : all[i].field = f
    BY <1>1
  <2>2. all[i].old # all[i].new
    BY <1>1, <1>8, <2>1 DEF Tells
  <2>3. i \in P
    BY <1>1, <1>2, <2>1, <2>2
  <2> QED BY <1>6, <2>1, <2>3
<1> QED BY <1>3, <1>4, <1>5, <1>7, <1>8

\* What a snapshot means, field by field.
LEMMA MeaningFacts ==
  ASSUME NEW c
  PROVE  /\ Meaning(c) = [f \in SnapFields |-> Meaning(c)[f]]
         /\ \A f \in SnapFields : Meaning(c)[f] = Meant(f, Told(c)[f])
<1>1. DOMAIN Told(c) = SnapFields
  BY ToldFacts
<1> QED BY <1>1 DEF Meaning

\* Names are in a list exactly when it is not the empty one.
LEMMA MeantNothing ==
  ASSUME NEW c, NEW f \in SnapFields
  PROVE  Meant(f, Told(c)[f]) = Meaning(Nothing)[f] <=> Told(c)[f] = Told(Nothing)[f]
<1>1. Meaning(Nothing)[f] = Meant(f, Told(Nothing)[f])
  BY MeaningFacts
<1>2. CASE ~ IsList(f)
  BY <1>1, <1>2 DEF Meant
<1>3. CASE IsList(f)
  <2>1. Told(Nothing)[f] = NoNames
    BY <1>3, NothingTold DEF IsList
  <2>2. PICK list : Told(c)[f] = BagOf(list)
    BY <1>3, ToldFacts DEF IsList
  <2>3. BagOf(list) = [n \in DOMAIN BagOf(list) |-> BagOf(list)[n]]
    BY DEF BagOf
  <2>4. NoNames = [n \in {} |-> 0]
    BY DEF NoNames
  <2>5. DOMAIN NoNames = {}
    BY <2>4
  <2>6. ASSUME DOMAIN BagOf(list) = {} PROVE BagOf(list) = NoNames
    <3>1. \A n \in {} : BagOf(list)[n] = 0
      OBVIOUS
    <3>2. BagOf(list) = [n \in {} |-> BagOf(list)[n]]
      BY <2>3, <2>6
    <3> QED BY <2>4, <3>1, <3>2
  <2> QED BY <1>1, <1>3, <2>1, <2>2, <2>5, <2>6 DEF Meant
<1> QED BY <1>2, <1>3

\* Replaying rewrites one field after the other.
Replays(after, F, V, told, changes) ==
  /\ after \in [0..Len(changes) -> [F -> V]]
  /\ after[0] = told /\ Replay(told, changes) = after[Len(changes)]
  /\ \A n \in 1..Len(changes) :
       after[n] = [after[n - 1] EXCEPT ![changes[n].field] = After(changes[n])]

LEMMA ReplayStep ==
  ASSUME NEW F, NEW V, NEW told \in [F -> V], NEW changes, Len(changes) \in Nat,
         \A n \in 1..Len(changes) : changes[n].field \in F /\ After(changes[n]) \in V
  PROVE  \E after : Replays(after, F, V, told, changes)
<1> DEFINE N == Len(changes)
           At(f, n) == IF n = 0 THEN told
                       ELSE [f[n - 1] EXCEPT ![changes[n].field] = After(changes[n])]
<1>1. PICK next : next = [n \in 1..N |-> [x \in [F -> V] |->
                            [x EXCEPT ![changes[n].field] = After(changes[n])]]]
  OBVIOUS
<1>2. next \in [1..N -> [[F -> V] -> [F -> V]]]
  <2>1. \A n \in 1..N, x \in [F -> V] :
          [x EXCEPT ![changes[n].field] = After(changes[n])] \in [F -> V]
    OBVIOUS
  <2> QED BY <1>1, <2>1
<1>3. PICK f : Steps(f, [F -> V], told, N, next)
  <2>1. PICK D, n : D = [F -> V] /\ n = N
    OBVIOUS
  <2>2. n \in Nat /\ told \in D /\ next \in [1..n -> [D -> D]]
    BY <1>2, <2>1
  <2>3. \E f : Steps(f, D, told, n, next)
    BY ONLY <2>2, Recursion
  <2> QED BY <2>1, <2>3
<1>4. ASSUME NEW n \in 0..N PROVE f[n] = At(f, n)
  <2>1. CASE n = 0
    BY <1>3, <2>1 DEF Steps
  <2>2. CASE n # 0
    <3>1. n \in 1..N /\ n - 1 \in 0..N
      BY <2>2
    <3>2. f[n - 1] \in [F -> V]
      BY <1>3, <3>1 DEF Steps
    <3>3. next[n][f[n - 1]] = [f[n - 1] EXCEPT ![changes[n].field] = After(changes[n])]
      BY <1>1, <3>1, <3>2
    <3> QED BY <1>3, <2>2, <3>1, <3>3 DEF Steps
  <2> QED BY <2>1, <2>2
<1>5. f = [n \in 0..N |-> f[n]]
  BY <1>3 DEF Steps
<1>6. \E g : g = [n \in 0..N |-> At(g, n)]
  <2>1. f = [n \in 0..N |-> At(f, n)]
    <3> HIDE DEF At
    <3> QED BY <1>4, <1>5
  <2> HIDE DEF At
  <2> QED BY <2>1
<1> DEFINE after == CHOOSE g : g = [n \in 0..N |-> At(g, n)]
<1>7. after = [n \in 0..N |-> At(after, n)]
  <2> HIDE DEF At
  <2> QED BY <1>6
<1>8. Replay(told, changes) = after[N]
  BY DEF Replay
<1> HIDE DEF after
<1>9. \A n \in 0..N : after[n] = At(after, n)
  <2>1. \A g : \A n \in 0..N : [m \in 0..N |-> At(g, m)][n] = At(g, n)
    OBVIOUS
  <2> HIDE DEF At
  <2> QED BY <1>7, <2>1
<1>10. after[0] = told
  <2>1. 0 \in 0..N /\ At(after, 0) = told
    OBVIOUS
  <2> HIDE DEF At
  <2> QED BY <1>9, <2>1
<1>11. ASSUME NEW n \in 1..N
       PROVE  /\ n - 1 \in 0..N
              /\ after[n] = [after[n - 1] EXCEPT ![changes[n].field] = After(changes[n])]
  <2>1. n \in 0..N /\ n # 0 /\ n - 1 \in 0..N
    OBVIOUS
  <2>2. after[n] = At(after, n)
    <3> HIDE DEF At
    <3> QED BY <1>9, <2>1
  <2> QED BY <2>1, <2>2
<1> DEFINE T == {n \in Nat : n <= N => after[n] \in [F -> V]}
<1>12. 0 \in T
  BY <1>10
<1>13. ASSUME NEW n \in Nat, n \in T PROVE n + 1 \in T
  <2> SUFFICES ASSUME n + 1 <= N PROVE after[n + 1] \in [F -> V]
    OBVIOUS
  <2>1. n + 1 \in 1..N /\ (n + 1) - 1 = n
    OBVIOUS
  <2>2. after[n] \in [F -> V]
    BY <1>13
  <2>3. after[n + 1] = [after[n] EXCEPT ![changes[n + 1].field] = After(changes[n + 1])]
    BY <1>11, <2>1
  <2> QED BY <2>1, <2>2, <2>3
<1>14. \A n \in 0..N : after[n] \in [F -> V]
  <2>1. Nat \subseteq T
    <3> HIDE DEF T
    <3> QED BY <1>12, <1>13, NatSetInduction
  <2> QED BY <2>1
<1>15. after \in [0..N -> [F -> V]]
  <2>1. after = [n \in 0..N |-> after[n]]
    <3>1. \A g : [n \in 0..N |-> At(g, n)] = [n \in 0..N |-> [m \in 0..N |-> At(g, m)][n]]
      OBVIOUS
    <3> HIDE DEF At
    <3> QED BY <1>7, <3>1
  <2> QED BY <1>14, <2>1
<1> QED BY <1>8, <1>10, <1>11, <1>15 DEF Replays

\* A diff replayed on what a snapshot tells gives what the other one tells: once
\* the entry of a field is replayed the field is as in the other, and fields without
\* an entry were so before.
LEMMA DiffReplayed ==
  ASSUME NEW a, NEW b
  PROVE  Replay(Meaning(a), Diff(a, b)) = Meaning(b)
<1>1. PICK changes, N, V : /\ changes = Diff(a, b) /\ N = Len(changes)
                           /\ V = {Meaning(a)[f] : f \in SnapFields}
                                    \cup {Meaning(b)[f] : f \in SnapFields}
  OBVIOUS
<1>2. N \in Nat
  BY <1>1, DiffTells
<1>3. /\ \A n \in 1..N : Tells(changes[n], a, b)
      /\ \A f \in SnapFields : Meaning(a)[f] # Meaning(b)[f] => \E n \in 1..N : changes[n].field = f
  BY <1>1, DiffTells, MeaningFacts
<1>4. Meaning(a) \in [SnapFields -> V] /\ Meaning(b) \in [SnapFields -> V]
  BY <1>1, MeaningFacts
<1>5. \A n \in 1..N : /\ changes[n].field \in SnapFields /\ After(changes[n]) \in V
                      /\ After(changes[n]) = Meaning(b)[changes[n].field]
  BY <1>1, <1>3, MeaningFacts DEF Tells, After
<1>6. PICK after : /\ after \in [0..N -> [SnapFields -> V]]
                   /\ after[0] = Meaning(a) /\ Replay(Meaning(a), changes) = after[N]
                   /\ \A n \in 1..N :
                        after[n] = [after[n - 1] EXCEPT ![changes[n].field] = After(changes[n])]
  <2>1. PICK told, F : told = Meaning(a) /\ F = SnapFields
    OBVIOUS
  <2>2. told \in [F -> V] /\ Len(changes) \in Nat
        /\ \A n \in 1..Len(changes) : changes[n].field \in F /\ After(changes[n]) \in V
    BY <1>1, <1>2, <1>4, <1>5, <2>1
  <2>3. \E after : Replays(after, F, V, told, changes)
    BY ONLY <2>2, ReplayStep
  <2> QED BY <1>1, <2>1, <2>3 DEF Replays
<1> DEFINE Done(n) == \A f \in SnapFields :
                        after[n][f] = IF \E m \in 1..n : changes[m].field = f
                                      THEN Meaning(b)[f] ELSE Meaning(a)[f]
           T == {n \in Nat : n <= N => Done(n)}
<1>7. 0 \in T
  BY <1>6
<1>8. ASSUME NEW n \in Nat, n \in T PROVE n + 1 \in T
  <2> SUFFICES ASSUME n + 1 <= N, NEW f \in SnapFields
               PROVE  after[n + 1][f] = IF \E m \in 1..(n + 1) : changes[m].field = f
                                        THEN Meaning(b)[f] ELSE Meaning(a)[f]
    OBVIOUS
  <2>1. n + 1 \in 1..N /\ (n + 1) - 1 = n /\ n \in 0..N
    BY <1>2
  <2>2. after[n] \in [SnapFields -> V]
    BY <1>6, <2>1
  <2>3. after[n + 1] = [after[n] EXCEPT ![changes[n + 1].field] = After(changes[n + 1])]
    BY <1>6, <2>1
  <2>4. after[n][f] = IF \E m \in 1..n : changes[m].field = f THEN Meaning(b)[f] ELSE Meaning(a)[f]
    BY <1>8, <2>1
  <2>5. CASE changes[n + 1].field = f
    <3>1. after[n + 1][f] = Meaning(b)[f]
      BY <1>5, <2>1, <2>2, <2>3, <2>5
    <3>2. n + 1 \in 1..(n + 1)
      OBVIOUS
    <3> QED BY <2>5, <3>1, <3>2
  <2>6. CASE changes[n + 1].field # f
    <3>1. after[n + 1][f] = after[n][f]
      BY <1>5, <2>1, <2>2, <2>3, <2>6
    <3>2. (\E m \in 1..(n + 1) : changes[m].field = f) <=> \E m \in 1..n : changes[m].field = f
      <4>1. \A m \in 1..(n + 1) : m = n + 1 \/ m \in 1..n
        OBVIOUS
      <4>2. \A m \in 1..n : m \in 1..(n + 1)
        OBVIOUS
      <4> QED BY <2>6, <4>1, <4>2
    <3> QED BY <2>4, <3>1, <3>2
  <2> QED BY <2>5, <2>6
<1>9. Done(N)
  <2>1. N \in T
    <3> HIDE DEF T
    <3> QED BY <1>2, <1>7, <1>8, NatSetInduction
  <2> QED BY <1>2, <2>1
<1>10. \A f \in SnapFields : after[N][f] = Meaning(b)[f]
  BY <1>3, <1>9
<1>11. after[N] \in [SnapFields -> V]
  BY <1>2, <1>6
<1>12. after[N] = Meaning(b)
  BY <1>4, <1>10, <1>11
<1> QED BY <1>1, <1>6, <1>12

\* The kind of a change is not that of a snapshot in which nothing changed.
LEMMA KindsOfChange == \A name : KindOf(name) # "snapshot"
BY DEF KindOf

LEMMA HistoryReplays ==
  ASSUME SnapshotsInv
  PROVE  DiffsReplay
<1> SUFFICES ASSUME NEW d \in SnapDomain, NEW list, list = OfDomain(d)
             PROVE  /\ InOrderOfCapture(d, list)
                    /\ \A i \in 1..(Len(list) - 1) :
                         /\ Replay(Meaning(list[i].content), Diffs(list)[i]) =
                              Meaning(list[i + 1].content)
                         /\ \A n \in DOMAIN Diffs(list)[i] :
                              LET e == Diffs(list)[i][n] IN
                              /\ Before(e) = Meaning(list[i].content)[e.field]
                              /\ After(e) = Meaning(list[i + 1].content)[e.field]
                              /\ e.kind = "added" <=> Before(e) = Meaning(Nothing)[e.field]
                              /\ e.kind = "removed" <=> After(e) = Meaning(Nothing)[e.field]
                    /\ \A i \in 2..Len(list) :
                         LET quiet == Events(list, i) = << Event(list[i], "snapshot") >> IN
                         /\ quiet => Meaning(list[i].content) = Meaning(list[i - 1].content)
                         /\ Told(list[i].content) = Told(list[i - 1].content) => quiet
  BY DEF DiffsReplay
<1>1. list \in Seq(SnapRow) /\ InOrderOfCapture(d, list)
  BY HistoryUntil
<1>2. ASSUME NEW i \in 1..(Len(list) - 1)
      PROVE  /\ Replay(Meaning(list[i].content), Diffs(list)[i]) = Meaning(list[i + 1].content)
             /\ \A n \in DOMAIN Diffs(list)[i] :
                  LET e == Diffs(list)[i][n] IN
                  /\ Before(e) = Meaning(list[i].content)[e.field]
                  /\ After(e) = Meaning(list[i + 1].content)[e.field]
                  /\ e.kind = "added" <=> Before(e) = Meaning(Nothing)[e.field]
                  /\ e.kind = "removed" <=> After(e) = Meaning(Nothing)[e.field]
  <2>1. PICK a, b, changes : /\ a = list[i].content /\ b = list[i + 1].content
                             /\ changes = Diff(a, b)
    OBVIOUS
  <2>2. Diffs(list)[i] = changes
    BY <2>1 DEF Diffs
  <2>3. Replay(Meaning(a), changes) = Meaning(b)
    BY <2>1, DiffReplayed
  <2>4. \A n \in DOMAIN changes : Tells(changes[n], a, b) /\ changes[n].old # changes[n].new
    <3>1. DOMAIN changes = 1..Len(changes)
      BY <2>1, DiffTells
    <3> QED BY <2>1, <3>1, DiffTells
  <2>5. \A n \in DOMAIN changes :
          /\ Before(changes[n]) = Meaning(a)[changes[n].field]
          /\ After(changes[n]) = Meaning(b)[changes[n].field]
          /\ changes[n].kind = "added" <=> Before(changes[n]) = Meaning(Nothing)[changes[n].field]
          /\ changes[n].kind = "removed" <=> After(changes[n]) = Meaning(Nothing)[changes[n].field]
    <3> SUFFICES ASSUME NEW n \in DOMAIN changes, NEW e, e = changes[n]
                 PROVE  /\ Before(e) = Meaning(a)[e.field] /\ After(e) = Meaning(b)[e.field]
                        /\ e.kind = "added" <=> Before(e) = Meaning(Nothing)[e.field]
                        /\ e.kind = "removed" <=> After(e) = Meaning(Nothing)[e.field]
      OBVIOUS
    <3>1. Tells(e, a, b) /\ e.old # e.new
      BY <2>4
    <3>2. e.field \in SnapFields /\ e.old = Told(a)[e.field] /\ e.new = Told(b)[e.field]
      BY <3>1 DEF Tells
    <3>3. /\ Before(e) = Meant(e.field, Told(a)[e.field])
          /\ After(e) = Meant(e.field, Told(b)[e.field])
      BY <3>2 DEF Before, After
    <3>4. /\ Before(e) = Meaning(Nothing)[e.field] <=> e.old = Told(Nothing)[e.field]
          /\ After(e) = Meaning(Nothing)[e.field] <=> e.new = Told(Nothing)[e.field]
      BY <3>2, <3>3, MeantNothing
    <3>5. Before(e) = Meaning(a)[e.field] /\ After(e) = Meaning(b)[e.field]
      BY <3>2, <3>3, MeaningFacts
    <3> QED BY <3>1, <3>4, <3>5 DEF Tells
  <2> QED BY <2>1, <2>2, <2>3, <2>5
<1>3. ASSUME NEW i \in 2..Len(list)
      PROVE  LET quiet == Events(list, i) = << Event(list[i], "snapshot") >> IN
             /\ quiet => Meaning(list[i].content) = Meaning(list[i - 1].content)
             /\ Told(list[i].content) = Told(list[i - 1].content) => quiet
  <2>1. PICK a, b, changes : /\ a = list[i - 1].content /\ b = list[i].content
                             /\ changes = Diff(a, b)
    OBVIOUS
  <2>2. Events(list, i) = IF changes = <<>> THEN << Event(list[i], "snapshot") >>
                          ELSE [j \in DOMAIN changes |->
                                  Event(list[i], KindOf(changes[j].field[2]))]
    BY <2>1 DEF Events
  <2>3. PICK S : changes \in Seq(S)
    BY <2>1, DiffTells
  <2>4. CASE changes = <<>>
    <3>1. \A f \in SnapFields : Told(a)[f] = Told(b)[f]
      <4>1. \A f \in SnapFields : Told(a)[f] # Told(b)[f] =>
              \E n \in 1..Len(changes) : changes[n].field = f
        BY <2>1, DiffTells
      <4>2. 1..Len(changes) = {}
        BY <2>4
      <4> QED BY <4>1, <4>2
    <3>2. Meaning(a) = Meaning(b)
      BY <3>1, MeaningFacts
    <3> QED BY <2>1, <2>2, <2>4, <3>2
  <2>5. CASE changes # <<>>
    <3>1. 1 \in DOMAIN changes /\ 1 \in 1..Len(changes)
      BY <2>3, <2>5
    <3>2. Tells(changes[1], a, b) /\ changes[1].old # changes[1].new
      BY <2>1, <3>1, DiffTells
    <3>3. Told(a) # Told(b)
      BY <3>2 DEF Tells
    <3>4. Events(list, i)[1].kind # "snapshot"
      <4>1. Events(list, i)[1] = Event(list[i], KindOf(changes[1].field[2]))
        BY <2>2, <2>5, <3>1
      <4> QED BY <4>1, KindsOfChange DEF Event
    <3>5. << Event(list[i], "snapshot") >>[1].kind = "snapshot"
      BY DEF Event
    <3> QED BY <2>1, <3>3, <3>4, <3>5
  <2> QED BY <2>4, <2>5
<1> QED BY <1>1, <1>2, <1>3

\* The diffs of wd-history lose nothing, for any keys of fields, any contents and
\* any number of rows captured and inserted at any times: each replayed gives the
\* next snapshot in the order of capture.
THEOREM DiffsAlwaysReplay == SnapshotsSpec => []DiffsReplay
<1>1. SnapshotsInv => DiffsReplay
  BY HistoryReplays
<1> QED BY <1>1, RowsWellFormed, PTL
=============================================================================
