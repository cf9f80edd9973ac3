----------------------------- MODULE HistoryView -----------------------------
(***************************************************************************)
(* The history page (features/history/index.ts) over                       *)
(* db_gui_history_get_filtered (commands/history.rs, wd-db).               *)
(*                                                                         *)
(* fetchAndRender is never awaited: a click, a keystroke or an event       *)
(* sends a fetch while others are under way, and they come back in any     *)
(* order. The query counts the rows and then reads a page of them, in      *)
(* two statements.                                                         *)
(*                                                                         *)
(* The table it reads is that of the profile that is current then, which   *)
(* other pages change, and the filter by days moves with the clock: the    *)
(* page is told of neither.                                                *)
(*                                                                         *)
(* Abstracted: rows are in the order ORDER BY timestamp DESC gives, the    *)
(* search matches a domain or everything, a profile without a history has  *)
(* a table without rows, and a command asks for the current profile in one *)
(* step with its first statement.                                          *)
(***************************************************************************)
EXTENDS Naturals, Sequences, FiniteSets, Sift

CONSTANTS
  HistoryRow,      \* [domain, status] a lookup may log
  HistoryProfile,  \* profiles that may be current
  Switch,          \* [from, to] the changes of profile that are tried
  Search,          \* what may stand in the search field
  PageSize,
  Chosen,          \* options of the status filter that are tried
  DaysBack,        \* what may stand in the days field; 0: nothing
  HistoryDay,      \* the days that are told apart
  MaxRows,         \* bound: rows in all tables
  MaxFetches,      \* bound: fetches under way
  MaxClears        \* bound: clears under way

\* The options of #historyStatusFilter.
StatusOption == {"", "Available", "Unavailable", "Error"}

ASSUME HistoryViewAssumption ==
  /\ "" \in Search
  /\ HistoryProfile # {} /\ Switch \subseteq [from : HistoryProfile, to : HistoryProfile]
  /\ Chosen \subseteq StatusOption
  /\ DaysBack \subseteq Nat /\ HistoryDay \subseteq Nat /\ 0 \in HistoryDay
  /\ PageSize \in Nat \ {0} /\ {MaxRows, MaxFetches, MaxClears} \subseteq Nat

VARIABLES
  tables,    \* tables[p]: the rows of p and the day each was logged, the newest first
  viewed,    \* the current profile
  day,       \* the clock
  controls,  \* what the page shows and asks for: page, search, status, days
  fetches,   \* fetches under way
  clears,    \* clear commands under way, and those that have cleared
  last,      \* lastResult, with the controls it was fetched for
  overtaken, \* history: since a first page was fetched, no other fetch being under
             \* way, fetches were under way together or one failed
  shrunk     \* history: since a first page was fetched, rows have gone from its sight
             \* other than by #clearHistory

tableVars == <<tables, viewed, day>>
shownVars == <<controls, fetches, clears, last, overtaken, shrunk>>
viewVars == <<tables, viewed, day, controls, fetches, clears, last, overtaken, shrunk>>

SomeProfile == CHOOSE p \in HistoryProfile : TRUE
NoResult ==
  [asked |-> [page |-> 0, search |-> "", status |-> "", days |-> 0], total |-> 0, rows |-> <<>>]
Fresh(asked, n) ==
  [asked |-> asked, counted |-> FALSE, of |-> SomeProfile, since |-> 0, total |-> 0, nr |-> n]

ViewInit ==
  /\ tables = [p \in HistoryProfile |-> <<>>]
  /\ viewed = SomeProfile
  /\ day = 0
  /\ controls = NoResult.asked
  /\ fetches = {Fresh(NoResult.asked, 1)}
  /\ clears = [asked |-> 0, done |-> 0]
  /\ last = NoResult
  /\ overtaken = FALSE /\ shrunk = FALSE

\* fetchAndRender up to its await.  nr only tells two equal fetches apart.
Fetch(asked) ==
  \E n \in 1..MaxFetches :
    /\ \A f \in fetches : f.nr # n
    /\ \A m \in 1..(n - 1) : \E f \in fetches : f.nr = m
    /\ controls' = asked
    /\ fetches' = fetches \cup {Fresh(asked, n)}
    /\ overtaken' = (fetches # {} \/ (overtaken /\ asked.page > 0))
    /\ shrunk' = (shrunk /\ asked.page > 0)
    /\ UNCHANGED tableVars

ClickPrev ==
  /\ controls.page > 0
  /\ Fetch([controls EXCEPT !.page = @ - 1])
  /\ UNCHANGED <<clears, last>>

ClickNext ==
  /\ (controls.page + 1) * PageSize < last.total
  /\ Fetch([controls EXCEPT !.page = @ + 1])
  /\ UNCHANGED <<clears, last>>

TypeSearch(text) ==
  /\ text # controls.search
  /\ Fetch([controls EXCEPT !.page = 0, !.search = text])
  /\ UNCHANGED <<clears, last>>

TypeDays(days) ==
  /\ days # controls.days
  /\ Fetch([controls EXCEPT !.page = 0, !.days = days])
  /\ UNCHANGED <<clears, last>>

\* The filter changes and the page number stays.
ChooseStatusOnPage(status) ==
  /\ status # controls.status
  /\ Fetch([controls EXCEPT !.status = status])
  /\ UNCHANGED <<clears, last>>

ChooseStatus(status) ==
  /\ status # controls.status
  /\ Fetch([controls EXCEPT !.page = 0, !.status = status])
  /\ UNCHANGED <<clears, last>>

\* loadHistory, on any of the events the page listens to.
LoadHistory ==
  /\ Fetch([controls EXCEPT !.page = 0])
  /\ UNCHANGED <<clears, last>>

\* #clearHistory: the command, and the page again once it has returned.  If the
\* command fails the promise is rejected, and the page stays as it is.
ClickClear ==
  /\ clears.asked + clears.done < MaxClears
  /\ clears' = [clears EXCEPT !.asked = @ + 1]
  /\ UNCHANGED <<tableVars, controls, fetches, last, overtaken, shrunk>>

HistoryClear ==
  /\ clears.asked > 0
  /\ tables' = [tables EXCEPT ![viewed] = <<>>]
  /\ clears' = [asked |-> clears.asked - 1, done |-> clears.done + 1]
  /\ UNCHANGED <<viewed, day, controls, fetches, last, overtaken, shrunk>>

ClearFails ==
  /\ clears.asked > 0
  /\ clears' = [clears EXCEPT !.asked = @ - 1]
  /\ UNCHANGED <<tableVars, controls, fetches, last, overtaken, shrunk>>

Cleared ==
  /\ clears.done > 0
  /\ Fetch([controls EXCEPT !.page = 0])
  /\ clears' = [clears EXCEPT !.done = @ - 1]
  /\ UNCHANGED last

(***************************************************************************)
(* What goes on beside the page.                                           *)
(***************************************************************************)
\* db_history_add of some lookup.
RowLogged(row) ==
  /\ Cardinality({at \in HistoryProfile \X (1..MaxRows) : at[2] \in DOMAIN tables[at[1]]}) < MaxRows
  /\ tables' = [tables EXCEPT ![viewed] = <<[what |-> row, day |-> day]>> \o @]
  /\ UNCHANGED <<viewed, day, shownVars>>

\* profiles_set_current, from the settings page: no page is loaded again.
SetCurrent(switch) ==
  /\ switch.from = viewed
  /\ viewed' = switch.to
  /\ shrunk' = TRUE
  /\ UNCHANGED <<tables, day, controls, fetches, clears, last, overtaken>>

\* profiles_delete and profiles_rename take the history of a profile away.
RowsGone(p) ==
  /\ tables[p] # <<>>
  /\ tables' = [tables EXCEPT ![p] = <<>>]
  /\ shrunk' = (shrunk \/ p = viewed)
  /\ UNCHANGED <<viewed, day, controls, fetches, clears, last, overtaken>>

DaysPass(d) ==
  /\ day < d
  /\ day' = d
  /\ shrunk' = (shrunk \/ controls.days > 0)
  /\ UNCHANGED <<tables, viewed, controls, fetches, clears, last, overtaken>>

(***************************************************************************)
(* db_history_get_filtered.                                                *)
(***************************************************************************)
Matches(row, asked, since) ==
  /\ asked.search = "" \/ asked.search = row.what.domain
  /\ asked.status = "" \/ asked.status = row.what.status
  /\ since <= row.day
RowsMatching(p, asked, since) ==
  Sift(tables[p], {i \in DOMAIN tables[p] : Matches(tables[p][i], asked, since)})

\* since_ms: without days every row is recent enough.
Since(asked) == IF asked.days = 0 \/ day < asked.days THEN 0 ELSE day - asked.days

CountRows(f) ==
  /\ ~ f.counted
  /\ LET total == Len(RowsMatching(viewed, f.asked, Since(f.asked)))
     IN fetches' = (fetches \ {f})
                     \cup {[f EXCEPT !.counted = TRUE, !.of = viewed, !.since = Since(f.asked),
                                     !.total = total]}
  /\ UNCHANGED <<tableVars, controls, clears, last, overtaken, shrunk>>

Page(rows, asked) ==
  LET start == asked.page * PageSize
      stop == IF start + PageSize < Len(rows) THEN start + PageSize ELSE Len(rows)
  IN [i \in 1..(IF stop > start THEN stop - start ELSE 0) |-> rows[start + i].what]

\* The page of rows is read and what fetchAndRender does with it.
Render(f) ==
  /\ f.counted
  /\ last' = [asked |-> f.asked, total |-> f.total,
              rows |-> Page(RowsMatching(f.of, f.asked, f.since), f.asked)]
  /\ fetches' = fetches \ {f}
  /\ UNCHANGED <<tableVars, controls, clears, overtaken, shrunk>>

\* The command fails: the promise is rejected and the page stays as it is.
FetchFails(f) ==
  /\ fetches' = fetches \ {f}
  /\ overtaken' = TRUE
  /\ UNCHANGED <<tableVars, controls, clears, last, shrunk>>

ViewNext ==
  \/ ClickPrev
  \/ ClickNext
  \/ \E text \in Search : TypeSearch(text)
  \/ \E status \in Chosen : ChooseStatus(status)
  \/ \E days \in DaysBack : TypeDays(days)
  \/ LoadHistory
  \/ ClickClear
  \/ HistoryClear
  \/ ClearFails
  \/ Cleared
  \/ \E row \in HistoryRow : RowLogged(row)
  \/ \E switch \in Switch : SetCurrent(switch)
  \/ \E p \in HistoryProfile : RowsGone(p)
  \/ \E d \in HistoryDay : DaysPass(d)
  \/ \E f \in fetches : CountRows(f) \/ Render(f) \/ FetchFails(f)

ViewSpec == ViewInit /\ [][ViewNext]_viewVars

-----------------------------------------------------------------------------
(* Property *)

\* Once its fetches are back, and unless two of them were under way at once, the
\* page shows what its controls say; and it shows rows, unless it is the first page
\* or rows went since then by a change of profile or of day, of which it is not
\* told: filters and clearing go back to the first page, Next stays below the total.
PageShowsWhatItAsks ==
  fetches = {} /\ clears = [asked |-> 0, done |-> 0] /\ ~ overtaken =>
    /\ last.asked = controls
    /\ controls.page > 0 /\ ~ shrunk => last.rows # <<>>
=============================================================================
