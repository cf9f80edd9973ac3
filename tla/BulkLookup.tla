----------------------------- MODULE BulkLookup -----------------------------
(***************************************************************************)
(* The bulk lookup engine (commands/bulk.rs): each bulk_whois_lookup       *)
(* call is a run that spawns one tokio task per domain; all runs share     *)
(* the one bulk_state (paused, stopped) of the application.                *)
(*                                                                         *)
(* Abstracted: a domain is a member of Domain, the answer of a lookup      *)
(* and whether it is Ok or Err (both become a row of the results), the     *)
(* 200 ms sleep of a paused task (it polls the gate again, a stutter),     *)
(* and the FIFO order of the semaphore's queue.  A lookup is a blocking    *)
(* call that contains no await, so the tokio timeout around it never       *)
(* wins and is not an outcome of its own.  A task that panics is dropped   *)
(* from the results (filter_map ok) and is an outcome.                     *)
(***************************************************************************)
EXTENDS Naturals, FiniteSets

CONSTANTS
  Run,          \* bulk_whois_lookup calls (each happens once)
  Domain,       \* the expanded domains a run can be asked for
  Concurrency   \* values of the concurrency argument, any usize, 0 included

ASSUME BulkAssumption == Concurrency \subseteq Nat /\ IsFiniteSet(Domain)

VARIABLES
  paused,   \* bulk_state.paused
  stopped,  \* bulk_state.stopped
  phase,    \* where the bulk_whois_lookup call of each run stands
  work,     \* expanded_domains of the run
  limit,    \* concurrency
  permits,  \* permits left in the run's semaphore
  at,       \* at[r][d]: where the task of domain d stands
  sent,     \* sent_counter
  shown,    \* the last bulk:status event of the run
  barred    \* history: tasks a Stop caught before they queued for a permit

shared == <<paused, stopped>>
callVars == <<phase, work, limit>>
vars == <<paused, stopped, phase, work, limit, permits, at, sent, shown, barred>>

Phase == {"idle", "starting", "running", "returned"}
Place == {"none", "spawned", "gate", "queued", "lookup", "count", "emit",
          "done", "refused", "panicked"}
HoldsPermit == {"lookup", "count", "emit"}
Finished == {"done", "refused", "panicked"}
NotQueuedYet == {"none", "spawned", "gate"}

Holding(r) == {d \in Domain : at[r][d] \in HoldsPermit}
Counted(r) == {d \in Domain : at[r][d] \in {"emit", "done"}}

Init ==
  /\ paused = FALSE
  /\ stopped = FALSE
  /\ phase = [r \in Run |-> "idle"]
  /\ work = [r \in Run |-> {}]
  /\ limit = [r \in Run |-> 0]
  /\ permits = [r \in Run |-> 0]
  /\ at = [r \in Run |-> [d \in Domain |-> "none"]]
  /\ sent = [r \in Run |-> 0]
  /\ shown = [r \in Run |-> 0]
  /\ barred = [r \in Run |-> {}]
----------------------------------------------------------------------------
(* The bulk_whois_lookup call.                                            *)

\* The call clears both flags, for every run there is, before anything else.
Start(r, W, n) ==
  /\ phase[r] = "idle"
  /\ paused' = FALSE
  /\ stopped' = FALSE
  /\ phase' = [phase EXCEPT ![r] = "starting"]
  /\ work' = [work EXCEPT ![r] = W]
  /\ limit' = [limit EXCEPT ![r] = n]
  /\ barred' = [q \in Run |-> {}]
  /\ UNCHANGED <<permits, at, sent, shown>>

\* Once it has the lookup settings it spawns every task; nothing waits for
\* a permit before it is spawned.
Spawn(r) ==
  /\ phase[r] = "starting"
  /\ phase' = [phase EXCEPT ![r] = "running"]
  /\ permits' = [permits EXCEPT ![r] = limit[r]]
  /\ at' = [at EXCEPT ![r] =
              [d \in Domain |-> IF d \in work[r] THEN "spawned" ELSE "none"]]
  /\ UNCHANGED <<shared, work, limit, sent, shown, barred>>

\* join_all: the call returns when every task has ended.
Return(r) ==
  /\ phase[r] = "running"
  /\ \A d \in work[r] : at[r][d] \in Finished
  /\ phase' = [phase EXCEPT ![r] = "returned"]
  /\ UNCHANGED <<shared, work, limit, permits, at, sent, shown, barred>>
----------------------------------------------------------------------------
(* One task.                                                              *)

\* A task of run r moves from one place to another and touches no counter.
Moves(r, d, from, to) ==
  /\ at[r][d] = from
  /\ at' = [at EXCEPT ![r][d] = to]
  /\ UNCHANGED <<shared, callVars, sent, shown, barred>>

\* The check made once, when the task first runs.
FirstCheck(r, d) ==
  /\ Moves(r, d, "spawned", IF stopped THEN "refused" ELSE "gate")
  /\ UNCHANGED permits

\* A gate that looks at paused alone: a Stop clears paused and lets it pass.
PassGateUnlessPaused(r, d) ==
  /\ ~paused
  /\ Moves(r, d, "gate", "queued")
  /\ UNCHANGED permits

\* A gate that sleeps on paused before it looks at stopped.
PassGatePausedFirst(r, d) ==
  /\ ~paused
  /\ Moves(r, d, "gate", IF stopped THEN "refused" ELSE "queued")
  /\ UNCHANGED permits

\* One turn of the loop: stopped is looked at before paused.
PassGate(r, d) ==
  /\ stopped \/ ~paused
  /\ Moves(r, d, "gate", IF stopped THEN "refused" ELSE "queued")
  /\ UNCHANGED permits

\* A semaphore that never makes a task wait.
AcquireUnguarded(r, d) ==
  /\ Moves(r, d, "queued", "lookup")
  /\ permits' = [permits EXCEPT ![r] = @ - 1]

Acquire(r, d) ==
  /\ permits[r] > 0
  /\ Moves(r, d, "queued", "lookup")
  /\ permits' = [permits EXCEPT ![r] = @ - 1]

LookupReturns(r, d) ==
  /\ Moves(r, d, "lookup", "count")
  /\ UNCHANGED permits

\* A panic that leaks the permit instead of dropping it with the task.
LookupPanicsLeaking(r, d) ==
  /\ Moves(r, d, "lookup", "panicked")
  /\ UNCHANGED permits

\* A panicking task unwinds: its permit is dropped, it is never counted.
LookupPanics(r, d) ==
  /\ Moves(r, d, "lookup", "panicked")
  /\ permits' = [permits EXCEPT ![r] = @ + 1]

\* The counter without the mutex that is held until the event is out.
CountUnlocked(r, d) ==
  /\ at[r][d] = "count"
  /\ at' = [at EXCEPT ![r][d] = "emit"]
  /\ sent' = [sent EXCEPT ![r] = @ + 1]
  /\ UNCHANGED <<shared, callVars, permits, shown, barred>>

\* The task takes the mutex around sent_counter and keeps it while it emits,
\* so a task at "emit" is the one that holds it.
Count(r, d) ==
  /\ at[r][d] = "count"
  /\ \A e \in Domain : at[r][e] # "emit"
  /\ at' = [at EXCEPT ![r][d] = "emit"]
  /\ sent' = [sent EXCEPT ![r] = @ + 1]
  /\ UNCHANGED <<shared, callVars, permits, shown, barred>>

\* It emits bulk:status and ends, giving back the mutex and its permit.
Emit(r, d) ==
  /\ at[r][d] = "emit"
  /\ at' = [at EXCEPT ![r][d] = "done"]
  /\ shown' = [shown EXCEPT ![r] = sent[r]]
  /\ permits' = [permits EXCEPT ![r] = @ + 1]
  /\ UNCHANGED <<shared, callVars, sent, barred>>

Task(r, d) ==
  \/ FirstCheck(r, d)
  \/ PassGate(r, d)
  \/ Acquire(r, d)
  \/ LookupReturns(r, d)
  \/ LookupPanics(r, d)
  \/ Count(r, d)
  \/ Emit(r, d)
----------------------------------------------------------------------------
(* bulk_whois_pause, bulk_whois_continue, bulk_whois_stop.                *)

Pause ==
  /\ paused' = TRUE
  /\ UNCHANGED <<stopped, callVars, permits, at, sent, shown, barred>>

Continue ==
  /\ paused' = FALSE
  /\ UNCHANGED <<stopped, callVars, permits, at, sent, shown, barred>>

\* Tasks of a started run that have not queued for a permit.
StillOutside(r) ==
  IF phase[r] \in {"starting", "running"}
  THEN {d \in work[r] : at[r][d] \in NotQueuedYet}
  ELSE {}

Stop ==
  /\ stopped' = TRUE
  /\ paused' = FALSE
  /\ barred' = [r \in Run |-> StillOutside(r)]
  /\ UNCHANGED <<callVars, permits, at, sent, shown>>

Next ==
  \/ \E r \in Run :
       \/ \E W \in SUBSET Domain, n \in Concurrency : Start(r, W, n)
       \/ Spawn(r)
       \/ Return(r)
       \/ \E d \in Domain : Task(r, d)
  \/ Pause
  \/ Continue
  \/ Stop

Spec == Init /\ [][Next]_vars

\* tokio schedules every runnable task and every future of the call; a
\* blocking WHOIS query ends by its own socket timeout.  The user owes nothing.
Fairness ==
  \A r \in Run :
    /\ WF_vars(Spawn(r))
    /\ WF_vars(Return(r))
    /\ \A d \in Domain : WF_vars(Task(r, d))

FairSpec == Spec /\ Fairness
----------------------------------------------------------------------------
(* Properties.                                                            *)

\* Every variable keeps its type.
TypeOK ==
  /\ paused \in BOOLEAN
  /\ stopped \in BOOLEAN
  /\ phase \in [Run -> Phase]
  /\ work \in [Run -> SUBSET Domain]
  /\ limit \in [Run -> Nat]
  /\ permits \in [Run -> Nat]
  /\ at \in [Run -> [Domain -> Place]]
  /\ sent \in [Run -> Nat]
  /\ shown \in [Run -> Nat]
  /\ barred \in [Run -> SUBSET Domain]

\* No permit is lost or made up, whether a task ends by reporting or by a
\* panic: the permits left and the tasks that hold one add up to the
\* concurrency, so never more lookups are under way than the caller allowed.
PermitsConserved ==
  \A r \in Run : phase[r] \in {"running", "returned"} =>
    permits[r] + Cardinality(Holding(r)) = limit[r]

\* The progress the window shows never runs ahead of the lookups: it counts
\* the tasks that have finished one, short of at most the one event under way.
ProgressMatchesLookups ==
  \A r \in Run :
    /\ sent[r] = Cardinality(Counted(r))
    /\ shown[r] + Cardinality({d \in Domain : at[r][d] = "emit"}) = sent[r]

\* The bulk:status events of a run arrive as 1, 2, 3, ...: none is skipped,
\* repeated or overtaken although many tasks emit them.
ProgressInOrder ==
  [][\A r \in Run : shown'[r] \in {shown[r], shown[r] + 1}]_vars

\* A Stop is final for the tasks it catches before the semaphore: unless
\* another run is started they never query a server, whatever is paused or
\* continued afterwards.
StopHolds ==
  \A r \in Run : \A d \in barred[r] : at[r][d] \in NotQueuedYet \cup {"refused"}

\* How the caller sees a place of a task and a phase of a call.
OutcomeAt(p) ==
  CASE p = "none" -> "none"
    [] p \in {"spawned", "gate", "queued"} -> "waiting"
    [] p \in HoldsPermit -> "active"
    [] p = "done" -> "answered"
    [] p = "refused" -> "refused"
    [] p = "panicked" -> "lost"

StatusOf(p) ==
  CASE p \in {"idle", "starting"} -> "new"
    [] p = "running" -> "open"
    [] p = "returned" -> "closed"

Pool == INSTANCE BulkPool WITH
  outcome <- [r \in Run |-> [d \in Domain |-> OutcomeAt(at[r][d])]],
  cap <- [r \in Run |-> IF StatusOf(phase[r]) = "new" THEN 0 ELSE limit[r]],
  status <- [r \in Run |-> StatusOf(phase[r])]

\* Each domain gets exactly one outcome, within the concurrency of its run,
\* and the call returns only when all have one.
ImplementsPool == Pool!Spec

\* A run that was given at least one permit returns its results unless the
\* user keeps pausing: nothing else (a panic, a stop, another run) hangs it.
RunsReturn ==
  \A r \in Run :
    <>[]~paused => (phase[r] = "running" /\ limit[r] > 0 ~> phase[r] = "returned")

\* A Stop ends a run even when a Pause arrives after it, as long as no new
\* run takes the flag back.
StopDrains ==
  \A r \in Run :
    (stopped /\ phase[r] = "running" /\ limit[r] > 0) ~> (phase[r] = "returned" \/ ~stopped)
=============================================================================
