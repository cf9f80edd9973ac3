------------------------------ MODULE StatsPage ------------------------------
(***************************************************************************)
(* The statistics watchers (commands/stats.rs) and the settings page       *)
(* that starts them and listens to their event (settings/index.ts,         *)
(* bridge/core.ts).                                                        *)
(*                                                                         *)
(* startStatsWorker is not awaited, and the page starts it when it opens   *)
(* and again when settings arrive: its calls overlap.  A command the       *)
(* page sends is a message, carried out in any order.  What the            *)
(* statistics say and the two computations of them are left out.           *)
(***************************************************************************)
EXTENDS Naturals, FiniteSets

CONSTANT MaxStarts  \* bound: calls of startStatsWorker

VARIABLES
  watchers,   \* stats_watchers: the ids
  nextId,     \* next_watcher_id
  worker,     \* worker[c]: where call c of startStatsWorker stands
  watcherId,  \* statsWatcherId of the page
  tracked,    \* _unlisteners["stats:update"]: the call that registered it
  listeners,  \* listeners registered for stats:update
  stops,      \* stats_stop commands under way
  refreshes   \* stats_refresh commands that hold a copy of their watcher

pageVars == <<watcherId, tracked, listeners, stops>>
statsVars == <<watchers, nextId, worker, refreshes, pageVars>>

Nothing == 0

StatsInit ==
  /\ watchers = {}
  /\ nextId = 1
  /\ worker = [c \in 1..MaxStarts |-> [at |-> "unborn", id |-> Nothing]]
  /\ watcherId = Nothing
  /\ tracked = Nothing
  /\ listeners = {}
  /\ stops = {}
  /\ refreshes = {}

\* startStatsWorker up to its await of stats_start.
StartWorker(c) ==
  /\ worker[c].at = "unborn" /\ \A b \in 1..(c - 1) : worker[b].at # "unborn"
  /\ worker' = [worker EXCEPT ![c].at = "starting"]
  /\ \/ /\ watcherId = Nothing
        /\ UNCHANGED pageVars
     \/ /\ watcherId # Nothing
        /\ listeners' = listeners \ {tracked}
        /\ tracked' = Nothing
        /\ stops' = stops \cup {watcherId}
        /\ watcherId' = Nothing
  /\ UNCHANGED <<watchers, nextId, refreshes>>

\* stats_start: a fresh id, under both locks.
StatsStart(c) ==
  /\ worker[c].at = "starting"
  /\ watchers' = watchers \cup {nextId}
  /\ nextId' = nextId + 1
  /\ worker' = [worker EXCEPT ![c] = [at |-> "started", id |-> nextId]]
  /\ UNCHANGED <<refreshes, pageVars>>

\* It has sent its first statistics and returns the id; listen removes the
\* listener it tracks and registers another.
Started(c) ==
  /\ worker[c].at = "started"
  /\ watcherId' = worker[c].id
  /\ listeners' = listeners \ {tracked}
  /\ worker' = [worker EXCEPT ![c].at = "listening"]
  /\ UNCHANGED <<watchers, nextId, refreshes, tracked, stops>>

Registered(c) ==
  /\ worker[c].at = "listening"
  /\ listeners' = listeners \cup {c}
  /\ worker' = [worker EXCEPT ![c].at = "registered"]
  /\ UNCHANGED <<watchers, nextId, refreshes, watcherId, tracked, stops>>

Listening(c) ==
  /\ worker[c].at = "registered"
  /\ tracked' = c
  /\ worker' = [worker EXCEPT ![c].at = "done"]
  /\ UNCHANGED <<watchers, nextId, refreshes, watcherId, listeners, stops>>

StatsStop(id) ==
  /\ id \in stops
  /\ watchers' = watchers \ {id}
  /\ stops' = stops \ {id}
  /\ UNCHANGED <<nextId, worker, refreshes, watcherId, tracked, listeners>>

\* refreshStats, to the copy of the watcher; one that is gone is left alone.
StatsRefresh ==
  /\ watcherId \in watchers
  /\ refreshes' = refreshes \cup {watcherId}
  /\ UNCHANGED <<watchers, nextId, worker, pageVars>>

\* The statistics are there and are sent.
StatsUpdate(id) ==
  /\ id \in refreshes
  /\ refreshes' = refreshes \ {id}
  /\ UNCHANGED <<watchers, nextId, worker, pageVars>>

StatsNext ==
  \/ \E c \in 1..MaxStarts :
       StartWorker(c) \/ StatsStart(c) \/ Started(c) \/ Registered(c) \/ Listening(c)
  \/ \E id \in stops : StatsStop(id)
  \/ StatsRefresh
  \/ \E id \in refreshes : StatsUpdate(id)

StatsSpec == StatsInit /\ [][StatsNext]_statsVars

-----------------------------------------------------------------------------
(* Property *)

\* bridge/core.ts: only one listener is tracked, a later registration replaces
\* the one before.  Two that overlap both stay.
OneListener == Cardinality(listeners) <= 1
=============================================================================
