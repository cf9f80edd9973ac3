----------------------------- MODULE BulkSession ----------------------------
(***************************************************************************)
(* The bulk window (renderer/bulkwhois/*.ts) driving the engine of         *)
(* BulkLookup.  Every click fires an invoke whose promise is dropped       *)
(* (void bulkWhoisPause(), ...), and the commands are async Tauri          *)
(* commands that run on the tokio pool: until one has taken bulk_state     *)
(* it is only in flight, and commands in flight take it in any order.  A   *)
(* lookup also splits its text before it takes bulk_state.  The pages      *)
(* before a lookup is started are the module BulkForms'.                   *)
(*                                                                         *)
(* Bound: at most one pause, one continue and one stop in flight.          *)
(***************************************************************************)
EXTENDS BulkLookup

VARIABLES
  view,       \* the container shown: entry, processing, export, exporting
  button,     \* text of the pause button: what a click on it will do
  modal,      \* the stop modal is open
  results,    \* export.ts results: the run whose results it was given, if any
  inflight,   \* commands invoked that have not taken bulk_state yet
  onScreen,   \* history: the run confirmed last, whose page is shown
  raced,      \* history: two commands have been in flight at once
  discarded   \* history: runs the user left by "Stop without saving"

ui == <<view, button, modal, results>>
sessionVars == <<vars, view, button, modal, results, inflight, onScreen, raced, discarded>>

Command == {"pause", "continue", "stop"}

\* A lookup in flight is not taken for one of the three commands.
ASSUME SessionAssumption == Run \cap Command = {}

SessionInit ==
  /\ Init
  /\ view = "entry"
  /\ button = "Pause"
  /\ modal = FALSE
  /\ results = {}
  /\ inflight = {}
  /\ onScreen = {}
  /\ raced = FALSE
  /\ discarded = {}

\* void invoke(c) for each c of C, from one click.
Invoke(C) ==
  /\ C \cap inflight = {}
  /\ inflight' = inflight \cup C
  /\ raced' = (raced \/ Cardinality(inflight \cup C) > 1)

\* Start of the word list: its lines are counted, the lookup invoked.
ConfirmInput(r) ==
  /\ view = "entry"
  /\ phase[r] = "idle"
  /\ Invoke({r})
  /\ view' = "processing"
  /\ onScreen' = {r}
  /\ UNCHANGED <<vars, results, button, modal, discarded>>

\* #bwProcessingButtonPause: the text says which command to send and flips.
ClickPause ==
  /\ view = "processing"
  /\ ~modal
  /\ Invoke({IF button = "Pause" THEN "pause" ELSE "continue"})
  /\ button' = IF button = "Pause" THEN "Continue" ELSE "Pause"
  /\ UNCHANGED <<vars, results, view, modal, onScreen, discarded>>

\* #bwProcessingButtonStop: pauses first unless already paused, opens the modal.
ClickStop ==
  /\ view = "processing"
  /\ ~modal
  /\ Invoke(IF button = "Pause" THEN {"pause"} ELSE {})
  /\ button' = "Continue"
  /\ modal' = TRUE
  /\ UNCHANGED <<vars, results, view, onScreen, discarded>>

\* "Continue" only closes the modal: the run stays paused.
ModalContinue ==
  /\ modal
  /\ modal' = FALSE
  /\ UNCHANGED <<vars, results, view, button, inflight, onScreen, raced, discarded>>

\* Runs the user sees as going on when the modal is answered.
Current == {r \in Run : r \in inflight \/ phase[r] \in {"starting", "running"}}

\* "Stop without saving" that forgets setPauseButton().
ModalStopKeepingButton ==
  /\ modal
  /\ modal' = FALSE
  /\ view' = "entry"
  /\ discarded' = discarded \cup Current
  /\ UNCHANGED <<vars, results, button, inflight, onScreen, raced>>

\* "Stop without saving" hides the run and sends nothing to the engine.
ModalStop ==
  /\ modal
  /\ modal' = FALSE
  /\ view' = "entry"
  /\ button' = "Pause"
  /\ discarded' = discarded \cup Current
  /\ UNCHANGED <<vars, results, inflight, onScreen, raced>>

\* "Stop and save" sends bulk_whois_stop and goes to the export page.
ModalStopSave ==
  /\ modal
  /\ Invoke({"stop"})
  /\ modal' = FALSE
  /\ view' = "export"
  /\ button' = "Pause"
  /\ UNCHANGED <<vars, results, onScreen, discarded>>

\* #bwExportButtonCancel.
ExportCancel ==
  /\ view = "export"
  /\ view' = "entry"
  /\ UNCHANGED <<vars, results, button, modal, inflight, onScreen, raced, discarded>>

\* #bwExportButtonExport: results go to bulk_whois_export.  They are what a
\* bulk:result event left; no step of the engine emits one, the promise of the
\* lookup that carries them is dropped, and nothing leaves the loading page.
ClickExport ==
  /\ view = "export"
  /\ view' = "exporting"
  /\ UNCHANGED <<vars, results, button, modal, inflight, onScreen, raced, discarded>>

\* A command in flight takes bulk_state.
Deliver(c) ==
  /\ c \in inflight
  /\ inflight' = inflight \ {c}
  /\ \/ c = "pause" /\ Pause
     \/ c = "continue" /\ Continue
     \/ c = "stop" /\ Stop
     \/ c \in Run /\ \E W \in SUBSET Domain, n \in Concurrency : Start(c, W, n)
  /\ UNCHANGED <<ui, onScreen, raced, discarded>>

User ==
  \/ \E r \in Run : ConfirmInput(r)
  \/ ClickPause
  \/ ClickStop
  \/ ModalContinue
  \/ ModalStop
  \/ ModalStopSave
  \/ ExportCancel
  \/ ClickExport

Engine(r) ==
  /\ Spawn(r) \/ Return(r) \/ \E d \in Domain : Task(r, d)
  /\ UNCHANGED <<ui, inflight, onScreen, raced, discarded>>

SessionNext ==
  \/ User
  \/ \E c \in Command \cup Run : Deliver(c)
  \/ \E r \in Run : Engine(r)

\* As in BulkLookup; a command in flight is eventually delivered.
SessionFairness ==
  /\ \A c \in Command \cup Run : WF_sessionVars(Deliver(c))
  /\ \A r \in Run : WF_sessionVars(Engine(r))

SessionSpec == SessionInit /\ [][SessionNext]_sessionVars /\ SessionFairness
----------------------------------------------------------------------------
(* Properties.                                                            *)

\* Every variable of the window keeps its type, and the stop modal is only ever
\* open over a page whose button already offers Continue.
SessionTypeOK ==
  /\ TypeOK
  /\ view \in {"entry", "processing", "export", "exporting"}
  /\ button \in {"Pause", "Continue"}
  /\ modal \in BOOLEAN
  /\ results \subseteq Run
  /\ inflight \subseteq Command \cup Run
  /\ onScreen \subseteq Run
  /\ raced \in BOOLEAN
  /\ discarded \subseteq Run
  /\ modal => view = "processing" /\ button = "Continue"

\* A user who lets each command land before the next click is never lied to:
\* the pause button of the run on screen offers Continue exactly when the
\* engine is paused, across modals, abandoned runs and new ones.
ButtonTellsTruth ==
  (/\ view = "processing"
   /\ inflight = {}
   /\ ~raced
   /\ \A r \in onScreen : phase[r] # "idle") => (button = "Continue" <=> paused)

\* "Stop and save" ends the running lookup even when the automatic pause sent
\* with the click on Stop overtakes it or lands after it, provided no other
\* lookup is still to start and clear the flag.
StopSaveEndsRun ==
  \A r \in Run :
    ("stop" \in inflight /\ phase[r] = "running" /\ limit[r] > 0
       /\ \A q \in Run \ {r} : phase[q] \notin {"idle", "starting"})
    ~> phase[r] = "returned"

\* What the modal promises: "Stop without saving" stops the lookup.  Once every
\* command has landed, with none overtaken, no task of a discarded run passes
\* the gate to a server.
DiscardedRunStops ==
  [][\A r \in discarded, d \in Domain :
       (inflight = {} /\ ~raced) => ~(at[r][d] = "gate" /\ at'[r][d] = "queued")]_sessionVars

\* What "Stop and save" is for: once the run on screen has returned, an export
\* is given its results.
SavedRunIsExported ==
  [][(view = "export" /\ view' = "exporting" /\ \A r \in onScreen : phase[r] = "returned")
       => results = onScreen]_sessionVars
=============================================================================
