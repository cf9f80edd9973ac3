------------------------------- MODULE Monitor -------------------------------
(***************************************************************************)
(* The monitor of the application (commands/monitor.rs): a task that       *)
(* beats every sixty seconds until it is told to stop over a oneshot       *)
(* channel.                                                                *)
(***************************************************************************)
EXTENDS Naturals, FiniteSets

CONSTANTS
  MaxLoops,  \* bound: heartbeat loops ever started
  MaxBeats   \* bound: heartbeats of a loop

ASSUME MonitorAssumption == {MaxLoops, MaxBeats} \subseteq Nat

VARIABLES
  monitor,  \* MonitorState: active, and the loop its cancel_token reaches
  loops     \* the loops started: cancelled, due to beat, gone, beats so far

monitorVars == <<monitor, loops>>

NoLoop == 0
NewLoop == [cancelled |-> FALSE, due |-> FALSE, gone |-> FALSE, beats |-> 0]

MonitorInit ==
  /\ monitor = [active |-> FALSE, token |-> NoLoop]
  /\ loops = [l \in {} |-> NewLoop]

\* Starting an active monitor does nothing.
MonitorStart ==
  LET l == Cardinality(DOMAIN loops) + 1 IN
  /\ ~ monitor.active
  /\ l <= MaxLoops
  /\ loops' = [k \in DOMAIN loops \cup {l} |-> IF k = l THEN NewLoop ELSE loops[k]]
  /\ monitor' = [active |-> TRUE, token |-> l]

\* The loop is not told.
MonitorStopUntold ==
  /\ monitor' = [active |-> FALSE, token |-> NoLoop]
  /\ UNCHANGED loops

\* The token is used up.
MonitorStop ==
  /\ monitor' = [active |-> FALSE, token |-> NoLoop]
  /\ loops' = [l \in DOMAIN loops |->
                 [loops[l] EXCEPT !.cancelled = @ \/ l = monitor.token]]

\* Sixty seconds are over.
SleepEnds(l) ==
  /\ ~ loops[l].gone /\ ~ loops[l].due
  /\ loops' = [loops EXCEPT ![l].due = TRUE]
  /\ UNCHANGED monitor

LoopBreaks(l) ==
  /\ ~ loops[l].gone /\ loops[l].cancelled
  /\ loops' = [loops EXCEPT ![l].gone = TRUE, ![l].due = FALSE]
  /\ UNCHANGED monitor

\* select! takes either branch when both are ready: a loop that was cancelled
\* may beat once more, and breaks when it comes round with the sleep begun anew.
Heartbeat(l) ==
  /\ ~ loops[l].gone /\ loops[l].due /\ loops[l].beats < MaxBeats
  /\ loops' = [loops EXCEPT ![l] = [loops[l] EXCEPT !.due = FALSE,
                                                  !.beats = loops[l].beats + 1,
                                                  !.gone = loops[l].cancelled]]
  /\ UNCHANGED monitor

MonitorNext ==
  \/ MonitorStart
  \/ MonitorStop
  \/ \E l \in DOMAIN loops : SleepEnds(l) \/ LoopBreaks(l) \/ Heartbeat(l)

MonitorSpec == MonitorInit /\ [][MonitorNext]_monitorVars

-----------------------------------------------------------------------------
(* Property *)

\* The monitor is active exactly while one loop is not cancelled: a start after
\* a stop, before the old loop has noticed, neither revives that loop nor loses
\* the handle of the new one.
OneLoopWhileActive ==
  LET live == {l \in DOMAIN loops : ~ loops[l].cancelled} IN
  live = IF monitor.active THEN {monitor.token} ELSE {}
=============================================================================
