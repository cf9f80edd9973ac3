# A formal model of whoisdigger

whoisdigger is a desktop application that looks up WHOIS, RDAP and DNS data of
domains one at a time or in bulk. Its back end is Rust: the Tauri commands of
`src/src-tauri/src/tauri_app` and the crates of `src/src-tauri/crates`; its
front end is TypeScript in `src/app`. This directory holds TLA+ modules that
model the parts of it that carry state, the TLC configurations that check them
on small instances, and proofs that TLAPS checks for every instance.

`tlc -config X.cfg M` checks a run, `tlapm M.tla` the proofs of a module.
`PROJECT.json` maps each definition to the lines it stands for.

## Inventory

| Component (source) | State | Operations | Interacts with | Hard behaviour | Correct when | Here |
|---|---|---|---|---|---|---|
| Bulk lookup engine (`commands/bulk.rs`, `state.rs`) | `bulk_state` {paused, stopped} shared by all runs; per run: semaphore, `sent_counter`, tasks | `bulk_whois_lookup` (and `_from_file`, `_from_content`), `_pause`, `_continue`, `_stop` | called by the bulk window, emits `bulk:status`, calls `wd-lookup` | tasks interleave with commands and with other runs; panics; zero permits | one outcome per domain, concurrency respected, progress in order, a stop holds and drains, runs return | `BulkLookup`, `BulkPool`, proofs |
| Bulk lookup window (`renderer/bulkwhois/*.ts`) | visible containers, text and global of the word list, pause button text, stop modal, export options | edit, confirm, start, pause, stop, the three modal buttons, presets, export cancel | fires commands without awaiting them | commands overtake each other; handlers await between reading a global and using it | the button agrees with the engine, a stop stops, what is launched was confirmed | `BulkSession`, `BulkForms`, proofs (the table and the export file left out) |
| Tiered cache (`wd-proxy/src/cache`) | primary map, secondary map, its file, TTLs | get, set, remove, clear, evict_all_expired | used by threads at once; the file survives a crash | two locks taken one after the other, promotion, dropped errors, crash | tiers agree, writes are durable, a reader never gets an overwritten entry | `TieredCache`, proofs |
| SQLite and PostgreSQL backends (`cache/sqlite.rs`, `postgres.rs`) | a table, the mutex of the connection | the trait `CacheBackend` | the same manager | a get is three statements; statements fail | no good row goes unasked, a get answers with what is stored | `SqlCache`, `CacheStore`, proofs |
| Proxy rotation (`rotation.rs`, `commands/settings.rs`) | index, failures, settings | get_proxy, report_failure, report_success, reset, set settings | settings are cloned by callers, reset afterwards | stale clones, wrap-around, cooldown | even use, healthy proxy found, index in range | `ProxyRotation`, proofs |
| Proxy RBAC (`rbac.rs`) | roles, bindings, a lock each | check, add/remove role, bind/unbind, export, import | guards the proxy operations | two locks, imports in two stages | an answer was true at one moment | `Rbac`, proofs |
| Monitor, statistics watchers (`commands/monitor.rs`, `stats.rs`, `settings/index.ts`, `bridge/core.ts`) | running flag, cancel channel; watcher map, tracked listener | start, stop; start, refresh, stop; listen, unlisten | events to the renderer | stop/start races a loop in `select!`; overlapping calls of `startStatsWorker` | one loop, one listener | `Monitor`, proofs; `StatsPage` |
| Profiles and history (`commands/profiles.rs`, `history.rs`, `lookup.rs`, `features/history`) | directories, `current-profile`, a history file per profile | create, rename, delete, switch, export, import; log, clear, merge; the history page's filters | each command opens its own connection after it chose the path | a command works on a profile that is gone or current no more; overlapping fetches; rows go without the page's being told | a history shows its profile's lookups; the page shows what it asks for | `Profiles`, `HistoryView`, proofs |
| Request cache (`commands/cache.rs`, `wd-db`) | a table of responses | get, set, clear, merge, prune | each command has a connection | insert, count and prune are three statements | the table settles within its limit | `RequestCache`, proofs |
| Settings and files (`commands/settings.rs`, `settings-store.ts`, `fs.rs`, `fileWatcher.ts`) | settings object, its file, watcher handle | load, save, import, delete, edit | every part reads them | in-place write, saves not awaited and failing, groups assigned as a whole, crash | the file says what the page shows | `SettingsPage`, proofs (other file commands left out) |
| Availability (`wd-availability`) | cached default rules | verdict on a reply | lookups | order of the rules | settings decide their case only | `Availability` |
| Single lookup, parsing (`features/singlewhois`, `wd-lookup`, `wd-parser`) | input field, messages, table; lookup settings | search, dismiss; lookup, parse | the network | four commands awaited in a row, any may fail | a search shows its own answer | `SingleLookup`, proofs (sockets left out) |
| Rate limiting (`wd-ratelimit`) | bucket per server, backoff, server profiles, patterns | check, report_rate_limit, report_success, reset; get, register; detect; delays | its callers wait | backoff against success, refills, jitter | never faster than the rate, delays grow | `Throttle`, `RetryPolicy`, proofs |
| Scheduler (`wd-scheduler`) | jobs, stored jobs | is_due, record_*, pause, resume, cancel; save, delete; next_occurrence | SQLite store; no driver in the repository | late run ends, one-shots, calendar edges | a job is due when its schedule says and only while active | `ScheduledJob`, proofs (the store left out) |
| Agent (`wd-agent`) | messages, costs, iterations, sandbox; plans | run, tools, allow/deny, plan steps | LLM client | limits in two places, blocked and unhandled calls; tools named as strings | every call answered, limits kept, the run ends | `AgentRun`, `Plans`, proofs |
| LLM client (`wd-llm`) | response being accumulated | parse of SSE lines, apply_delta | agent, chat | interleaved deltas, order of stream events | pieces end up in their place | `LlmStream`, proofs (requests left out) |
| Chat sessions (`wd-chat`) | messages, context | add, edit, clear, trim | LLM client | pinned messages against the budget | context fits the window | `ChatContext` (the history's table left out) |
| Expiry, drop catching (`wd-expiry`) | watchlist, store | phases, watch, drop estimates | scheduler | truncation of days and of hours | phase and drop agree | `ExpiryWatch`, proofs |
| Key bindings (`wd-keybind`) | registry of bindings | register, force, remove, resolve | front end | conflicts, contexts | the most specific binding is found | `KeyRegistry`, proofs |
| Fusion (`wd-fusion`) | none | merge, confidence | lookups | order of answers, sources of one weight | arrival order irrelevant | `Fusion`, proofs |
| History snapshots (`wd-history`) | table of snapshots | capture, diff, timeline | lookups | late rows, equal times, doubled names | diffs replay | `Snapshots`, proofs |
| Threats (`wd-threat`) | blocklists | load, check, assess | lookups | subdomains, several lists | a listed name is found and weighs | `Threats` |
| Word lists, names, import (`wd-wordlist`, `wd-domgen`, `wd-import`, `commands/text.rs`) | a list of names, counts | edit, process, generate, filter, import, validate | bulk lookup | order of steps, truncation, counts | the numbers add up | `WordList`, `NameGen`, `NameList` |
| Command line (`src/bin/whoisdigger-cli.rs`) | tasks, semaphore; files | bulk, config, cache, history, export | the same crates | panicking task, concurrency 0 | the pool's promise | `CommandLine`, proofs |
| Export; AI; registrar, transfer and cart; Next.js | records, a model, files | formatting, I/O | the commands | none | outputs | not modelled |

How they interact: the renderer invokes commands over Tauri's IPC and listens to
events. Commands are futures on the tokio pool and share `AppData`
(`bulk_state`, proxy settings and rotation, monitor, watchers) behind mutexes
that no command holds over more than a few statements, except a task of the
bulk engine, which keeps the mutex of its progress counter while it emits.
The scheduler, agent, LLM, chat, rate-limiting, expiry, fusion, snapshot and
threat crates are libraries without a caller in the repository beyond the
re-exports of the `wd-domain-*` crates.

The hazards, with the line each bites at and the properties that would catch it,
are listed in `PROJECT.json`.

## Plan

Done, in this order of importance:

1. `BulkLookup` with the abstract specification `BulkPool` it implements, and
   `BulkLookupProofs`: the core of the program. `BulkSession` composes it with
   the window.
2. `TieredCache`: threads, crashes and failing flushes, with `TieredCacheProofs`.
   `SqlCache` with the abstract specification `CacheStore`.
3. `ProxyRotation`, `Rbac`.
4. `ScheduledJob` and `ScheduledJobProofs`.
5. `Throttle`, `RetryPolicy`, `AgentRun`, `Plans`, `LlmStream`, `ChatContext`.
   `MCRemote` runs them and `ProxyRotation` side by side; `RemoteProofs` has their proofs.
6. `Monitor`, `Profiles`, `StatsPage`, `HistoryView`, `SettingsPage`,
   `RequestCache`; the libraries `KeyRegistry`, `ExpiryWatch`, `Snapshots`,
   `Fusion`, `Availability`, `Threats`, `WordList`, `NameGen`, `NameList`;
   `CommandLine`, which implements `BulkPool` too; the pages `SingleLookup` and
   `BulkForms`. `MCDesktop` runs most of them side by side, `MCUserData` the history
   page and the settings beside `ScheduledJob`. Proofs: `StoreProofs` (what
   keeps rows), `ServiceProofs` (rotation, RBAC, monitor, expiry, command line, fusion),
   `DesktopProofs` (the pages, the key bindings, the verdicts, the blocklists, the
   names), over `SiftProofs`.

Left: an instance of `Rbac` with four threads.

## Modules

### BulkLookup, BulkPool

A run is one `bulk_whois_lookup` call. `phase[r]` is where the call stands,
`at[r][d]` where the task of a domain stands, and the steps of a task are cut at
its awaits and lock acquisitions:

| Code (`bulk.rs`) | Action |
|---|---|
| clearing `bulk_state` at the start, for all runs (27-31) | `Start` |
| semaphore made, tasks spawned (52-70) | `Spawn` |
| check of `stopped` (71-82) | `FirstCheck` |
| loop over `stopped`, then `paused` (84-100) | `PassGate` |
| `semaphore.acquire_owned` (102-113) | `Acquire` |
| the lookup (115-134) | `LookupReturns`, `LookupPanics` |
| counter under its mutex, kept over the emit (136-159) | `Count`, `Emit` |
| `join_all`, `filter_map(ok)` (162-164) | `Return` |
| pause, continue, stop (166-184) | `Pause`, `Continue`, `Stop` |

Abstracted: the text of answers; whether a lookup is Ok or Err (both make a row);
the 200 ms poll of a paused task (a stutter); FIFO order in the semaphore. The
`tokio::time::timeout` around a lookup is not an outcome: the future it wraps
blocks and has no await, so it is ready at its first poll. `barred` is a history
variable: the tasks a Stop caught before they queued.

`BulkPool` is what a caller can count on: a domain is waiting, then active, then
settled, with at most `cap` active, and the run closes when none is undecided.
`BulkLookup` implements it under the mapping `OutcomeAt`, `StatusOf`.

### BulkSession

Extends `BulkLookup` with the window: visible container, text of the pause
button, modal, and `inflight`, the commands that were invoked and have not yet
taken `bulk_state`. Handlers drop the promises of their invokes, and Tauri runs
each async command as a task, so `Deliver` takes any of them. `raced` remembers that two
commands were in flight at once, `discarded` the runs left with "Stop without
saving". `results` is what `export.ts` would export; since no step of the program
emits the event that sets it, no action changes it. The Next button of the
processing page is left out: it stays hidden, for the status that reveals it is
never sent either.

### TieredCache

`AdaptiveCacheManager` over `InMemoryCache` and `JsonFileCache`. A call of the
manager takes one step per backend call (each holds that backend's mutex), and
`get` keeps the secondary's mutex until its promotion is done (`SecondaryFree`).
An entry is the order in which it was made, which stands for value, `created_at`
and identity; `expired` says which entries are past their TTL. A flush writes a
temporary file and renames it, so it happens or it does not (`ok`), and a failed
one leaves the map changed. `Crash` restarts from the file. `truth` and `murky`
are history: what the last write of a key left, and whether it met another call
or an error.

### ProxyRotation

The rotation and `proxy_set_settings`. `SetSettings`, `ResetIndex` and
`ResetFailures` are three steps under three locks; a caller is `TakeSettings`
(the clone), `CleanupFailures` and `Select`, which holds both locks to its end.
`list[entry_idx]` out of range panics and poisons the locks (`panicked`,
`PanicToo`). `served` (how often each position was returned, less what all have
had) and `mixed` (the index was moved for settings it was not reset for) are
history.

### ScheduledJob

`ScheduledJob` has `next_occurrence` as operators over half-hours since the start of
2023: one operator for each kind with a calendar (`NextDaily`, `NextWeekly`,
`NextMonthly`), with the loops and fallbacks of the code, and one
`Job`: `RecordSuccess`, `RecordFailure`, `Halt` (pause and cancel) and `Resume`.
Nothing in the repository drives jobs; since `record_success` and
`record_failure` do not look at the status, they may come at any time, for a run
may end after the owner paused the job. Time jumps from call to call, by a delay
after the last call or after the next run (`Moments`). `held` and `resumed` are
history. The store (an upsert, a query, a delete) and the diffs between runs are
left out.

### The parts that speak to other machines

`MCRemote` extends the next modules and `ProxyRotation`. They share no state, so `part`, chosen
in the initial state, says which of them moves: TLC explores them side by side
and not their product.

**AgentRun** is `Agent::run` with its sandbox, tool executor and memory.
`RunStep` is the loop cut at the completion it awaits and at each tool call;
`Host` is what the owner does between runs. A message is its role and the tools it calls or answers, a
response what `run` looks at, a cost a number of units. The model may call any
batch of tools, blocked and unhandled ones too.

**Plans** has the toolbox by category, the pipelines and the planner's templates as the
tools they name, and a plan whose steps are added with any names, started, completed
and failed in any order, since nothing in the repository drives one. No property
is stated of it: what could go wrong there is data. The agent of `MCRemote` is asked for two tools it names, one of which,
`expiry_alert`, the toolbox does not have.

**LlmStream** is a streamed completion: a server that sends text, deltas of
several tool calls, a reason, usage and an end mark, in the OpenAI or the
Anthropic form, and the accumulation of what the lines say. A piece of text is
the number of the line that brought it. Lines are handled one at a time, as they arrive.

**ChatContext** trims a session's messages by the five strategies of
`ContextManager`, with the arithmetic of the `TokenEstimator` on lengths.

**Throttle** is `ThrottleEngine`: `Check` (refill, backoff, delay, consume),
`ReportRateLimit`, `ReportSuccess`, `ResetEngine`, each under the engine's one
mutex and so one step, and `Elapse`. Time is in seconds and tokens in sixtieths,
so that refills are exact. `grants` and `promised` are history.

**RetryPolicy** has the registry of server profiles, the detector of rate limits
and the delays of the four backoff strategies with their jitter, around one
request of a client at a time; the client is external.

### The parts that keep their state on this machine

`MCDesktop` extends the next modules, `StatsPage`, `HistoryView` and `SettingsPage`
excepted, and runs them side by side in the same way; `MCUserData` does so with
`HistoryView`, `SettingsPage` and `ScheduledJob`.

**Rbac** takes the locks of `rbac.rs` one by one: `Call`, `Queue` (a thread
waits), `Acquire`, `Work`. A `RwLock` of std lets a reader wait behind a waiting
writer. `import_json` releases the roles before it takes the bindings, and stops
at a malformed role with the earlier ones added. `answers` of a check is
history: what was true since it began.

**Monitor** numbers the heartbeat loops. A loop whose sleep ended and whose
channel was used may take either branch of `select!`.

**StatsPage** has the calls of `startStatsWorker` at their awaits, the messages
they send and the watchers in the back end.

**RequestCache** has the statements of concurrent commands on the table of
responses: insert, count, prune; read, expire; clear; merge row by row. `overfull`
is history: rows came without a prune since the table was last found or brought within its limit.

**Profiles** is directories, `current-profile` and history files. A history command
chooses its path in one half and opens the file in the other (`DoHistory`),
whatever happened between. Archives are exported and imported, whole or in part.

**HistoryView** is the history page over its query: fetches and clears under
way come back in any order or fail, and a fetch counts the rows and reads the page in
two statements. The rows are the current profile's; `SetCurrent`, `RowsGone` (a
profile is deleted or renamed) and `DaysPass`, with which the filter by days moves,
take rows away without the page's being told, which `shrunk` remembers.

**SettingsPage** has the settings object in its groups, the saves, loads and imports
under way and the file, which is opened (and emptied) in one step and written in
another; `Restart` may come between them, and each of them may fail. A load assigns
the groups of the file as wholes (`Over`, the code's `Object.assign`), so that an
import of part of a group takes its other keys off the page until `Populate` repairs
those that have options; a start waits for the translations in between
(`AssignLoaded`). `crossed` remembers that something met something else or failed.

**CacheStore** is what a cache backend promises: each call takes effect at one
moment, an entry goes only when somebody asked for it, when it is overwritten or
when it has expired. **SqlCache** is the SQL backends statement by statement under the
mutex of their connection, with failing statements; it implements `CacheStore`
with the table as `store`.

**CommandLine** is `whoisdigger-cli`: a bulk lookup with its semaphore and tasks
that may be lost to a panic, and the commands on files, one step each. It
implements `BulkPool` with one run, whose domains are the places in the list.

**KeyRegistry** is the ordered list of bindings, with the default key map;
**ExpiryWatch** the watch list, its table and the phases and drops of a domain, in
minutes, of which the code counts whole days (`DaysIn`) and whole hours (`HoursIn`);
**Snapshots** the rows of a domain's history, their diffs and timeline,
where an entry of a diff says also whether it is of a parsed field or of the snapshot
itself (a `DiffEntry` does not, and a reply may have a field of its own called
"registrar");
**Fusion** the merge strategies and confidence of one field, over answers in
order, of the built-in sources and of custom ones, which all weigh the same;
**Availability** the rules in order, the settings that change them and the cached
default rules; **Threats** the signs of danger, the blocklists in the order they were
loaded, and the risk, a sum over the signs (`Total` of `Sift`). A value taken out of a
`HashMap`, whose order is random, is one of a set of values.

**WordList** (edits of a list, `to_process`), **NameGen** (combinations,
mutations, filters) and **NameList** (imports, and the composition of the three)
work on names whose text is never taken apart: what an operation makes of one
line is data of the instance. A text to import is its lines of fields, each with the
separator that follows it: a format parts the text at its own separators and leaves
together what lies between (`Pieces`), so that two lines without a comma are one name
of the comma format. A sort is told by its result: at each place stands a line
that has the smaller ones before it and the greater ones after it.

**Sift** is what a `retain`, a `filter` or a WHERE keeps of a sequence: the
elements at given places; `Total` the sum of a list and `Joined` what nested loops push,
as recursive functions the proofs can follow; `FirstPlaces` the places of what was not
there before.

**SingleLookup** is the single lookup page. A search is at the command it waits
for: `SendQuery` (the settings are copied, the name is converted), `Replied`,
`Parsed`, `Checked`, `ShowResults`, or `SearchFails` at any of them. A reply is a
sequence of lines of five kinds (a key and a value, one set off by a tab, a key
alone, a value alone, and a colon without a blank), from which `ParseRawData` and
`GetDomainParameters` make keys and fields as the code does.

**BulkForms** is the bulk tab around a lookup. `pages` is the set of containers
that are shown, for each is shown and hidden by itself; `awaits` the handlers that
wait for the back end. `LinesCounted` launches the global as it is after the count.
`FileChosen` ends on the loading page: the handler first sets the text of an
element (`fileinput.ts:90`) that no template has, so nothing after it runs.
`ApplyPreset`, `LockFields` and `UnlockFields` are the export form. The module extends
`SingleLookup` and states what the pages promise together. Once a page
was left while a Start counts (`abandoned`), the user waits: this bounds the
model, and it is where the property stops to hold.

## Runs

| Run | Checks | Instance |
|---|---|---|
| `bulk_lookup` | `StopHolds`, `ProgressInOrder`, `ImplementsPool`, `RunsReturn`, `StopDrains` | two runs, two domains, 0, 1 or 2 permits |
| `bulk_session` | `ButtonTellsTruth`, `StopSaveEndsRun` | two runs, one domain, one permit |
| `bulk_discard` | `DiscardedRunStops`, violated | as above |
| `bulk_save` | `SavedRunIsExported`, violated | as above |
| `tiered_cache` | `TiersAgree`, `SetIsDurable` | two threads, two keys, capacity 1, two entries |
| `tiered_race` | `CompletedWriteWins`, violated | two threads, one key |
| `user_data` | `HeldIsNeverDue`, `FailuresStopIt`, `NextRunIsFirst` (ScheduledJob); `PageShowsWhatItAsks` (HistoryView); `FileSaysWhatPageShows` (SettingsPage) | eleven schedules of all kinds, 26 December 2023 to 3 March 2024; the pages see below |
| `schedule_month_end` | `ScheduleKept`, violated | the schedules and days of `user_data` |
| `remote` | `ToolCallsAnswered`, `SpendsWithinLimits`, `RunEnds` (AgentRun); `PiecesInPlace` (LlmStream); `TrimKeepsBudget` (ChatContext); `RateBounded`, `BackoffHolds` (Throttle); `DelaysGrow` (RetryPolicy); `PanicNeedsMix`, `EvenlyUsed`, `HealthyIsFound` (ProxyRotation) | `Remote.cfg`, see below |
| `desktop` | `AnswersAtOneMoment` (Rbac); `OneLoopWhileActive` (Monitor); `SettledWithinLimit` (RequestCache); `HistoryKeepsApart` (Profiles); `ImplementsStore` (SqlCache); `CliImplementsPool` (CommandLine); `ResolvesMostSpecific` (KeyRegistry); `PhaseAgreesWithDrop` (ExpiryWatch); `DiffsReplay` (Snapshots); `ArrivalOrderIrrelevant` (Fusion); `SettingsDecideTheirCase` (Availability); `ListsReachSubdomains` (Threats); `NamesAddUp` (NameList, WordList, NameGen); `PagesAnswerWhatIsAsked` (SingleLookup, BulkForms) | `Desktop.cfg`, see below |
| `ignored_settings` | `RateLimitSettingCounts`, violated | replies of up to two marks, all settings |
| `stats_listener` | `OneListener`, violated | two calls of `startStatsWorker` |

Each module also has a type invariant (`TypeOK`, `SessionTypeOK`,
`ThrottleTypeOK`, ...), which proofs use and a run can be given.

Why these bounds are enough to be interesting:

- Two runs are what it takes for one to clear the other's stop and pause; two
  domains, for one task to hold the permit or the progress mutex another wants;
  0, 1 and 2 permits are none, fewer than the tasks, and enough. For safety the
  proofs remove these bounds.
- The session uses one domain and one permit: its subject is the order of
  commands. At most one command of each kind is in flight.
- A cache of capacity 1 over two keys evicts on every other set. Two threads make
  every pairwise race of calls. `MaxEntries` (two entries) bounds sets, not calls,
  so removals, clears, gets, evictions and crashes go on without end.
- The settings of the rotation have an empty list, lists of two and three, a junk
  entry, a proxy listed twice, all three modes, with and without a retry limit.
  `MaxCount` (one failure) reaches the limit of one.
- The winter of 2024 has the end of a year, months of 31 and 29 days and a leap
  day; the delays (on time, three and a half days and half an hour) put calls before
  and after every hour that is named, on each day of the week. `Horizon` ends it and
  `FailureBound` (two failures in a row) reaches both limits, one and two.
- The agent asks twice (`MaxIterations` 2), of batches of two calls of a handled
  and an unhandled tool, with a limit of one call, and its budget of 3 is passed by
  the second response of 2. The proofs remove these bounds.
- A stream has two calls whose deltas interleave over at most four lines before the
  reason. Conversations have up to four messages of two lengths, budgets that hold
  all, some and none of them.
- The clock of the throttle moves by 5 s and by a minute up to `Horizon` 61, so
  that buckets of one and two tokens empty, refill in part and in full; three
  reports (`ReportBound`) start a backoff. The proofs remove these bounds.
- Retries have the four strategies, a longest delay below, within and above the
  delays, and two sizes of jitter.
- Two threads on a subject, a role and a permission make every pairwise race of
  the RBAC's calls; three loops of the monitor, one stopped while the next starts.
- A request cache of one entry over three keys prunes at every insert; two callers
  make every pairwise race of their statements.
- Two profiles, `default` and another, may be renamed or imported to each other's
  place while one history command is between its halves (`MaxJobs`).
- The history page has two rows in pages of one, two fetches and one clear under
  way; a profile that is switched to, a filter that matches nothing and a second day
  each make the table smaller. The settings page has two keys in a group, two saves
  and one load, and imports that leave one key out or have no option for the other.
- The database has two threads on a key, entries that expire and that do not.
- The command line has three tasks under 0, 1 or 2 permits.
- The single lookup page has two searches under way, were two let in, under two
  names; the bulk tab two handlers that await, over an empty text and two others.
- The lists of the other modules (`MCDesktop`) hold for each rule an input on both
  sides of it: the minutes around the ends of a phase and around the hours of a drop,
  a name and its subdomain, spellings in two cases, lists with blank, doubled and
  invalid names, fields on one line and on several, two custom sources beside two
  built-in ones.

What they show. A run of the engine accounts for its permits and its progress
even when lookups panic; a stop is final for the tasks it catches until another
run starts; it drains the run even if a pause arrives after it. `RunsReturn` and
`StopDrains` exclude a concurrency of 0, with which the code waits for ever. An
undisturbed write leaves the two tiers and the file in agreement whatever
follows. The rotation is even and misses no usable proxy as long as nobody
rotates with settings the index was not reset for. A job that is paused,
cancelled or failing too often is not due until it is resumed, and its next run
is the first its schedule names.

The agent answers every call before it asks again and overshoots its budget by
less than one response. Pieces of a stream end up in their places. A trimmed
conversation exceeds its budget only by what its strategy
always keeps; the sliding window ignores the budget, and only `truncate` leaves
room for the three tokens `fits_context` adds. The throttle keeps its rate over
every window, and no success reported during a backoff ends it. Delays of
retries never shrink.

A permission check never pairs bindings of one moment with roles of another.
A start after a stop neither revives the old loop nor loses the new one's
handle. Concurrent inserts leave the request cache within its limit once they
are done. A history holds lookups of its own profile, whatever is copied,
renamed or imported to its place, because the name is part of the file's name. The history
page shows what its controls say as long as no two of its fetches overlap and none
fails, and rows as long as none go without its being told. The settings page and the
groups its file names agree as long as no two saves or loads overlap and none fails, and
agree again after the next that is alone and succeeds; a value whose save failed
stays on the page and is not in the file until then. The SQL backends implement the
trait, the command line the worker pool of the engine. A single search shows its own answer or none,
since its button is blocked until the last of its commands is back; a bulk lookup
is given the text that was counted and confirmed for it, unless its page is left
while the lines are counted. The locks of the export form follow its preset and
file type, in whatever order they are chosen.

A domain is deleted by its phase, in days, from the very minute of its drop, in hours.
The diffs of a history lose no change. The order of answers shows only where
sources weigh the same, answer at one time or are none that a priority names. An import holds the names its text
spells, each once, whatever it reports to have removed.

Six runs find what the code does not do:

- `bulk_discard`: "Stop without saving" asks to stop the lookup, but its handler
  (`event-bindings.ts:43-49`) sends no command. The run stays paused in the engine
  and resumes when the next lookup clears the flags (`bulk.rs:27-31`).
- `bulk_save`: "Stop and save" leads to an export page that exports what a
  `bulk:result` event left (`export.ts:30-40`). Nothing emits that event; the
  results come back by the promise of the lookup, which the window drops
  (`wordlistinput.ts:163`). The export is called with null (`export.ts:63`).
- `tiered_race`: `get` found an old entry in the secondary and is about to promote
  it; `set` writes the primary and waits for the secondary's mutex; the promotion
  puts the old entry over the new one (`adaptive.rs:163-167`, `193-196`). Both
  calls return, and readers get the overwritten entry until it expires.
- `schedule_month_end`: a monthly job whose next run is computed on the 29th,
  30th or 31st before a shorter month gets a time 30 days later and not on its
  day, because `with_month` fails (`schedule.rs:133`, `141`).
- `stats_listener`: `listen` says that one listener per event is tracked and a
  later one replaces it (`core.ts:19-20`), but it awaits between taking the old one off and
  tracking the new one (`core.ts:27-30`). Two overlapping calls of
  `startStatsWorker`, which nobody awaits (`settings/index.ts:335-352`), leave two.
- `ignored_settings`: the settings `ratelimit` and `dns_failure_unavailable` are documented
  (`wd-availability/src/lib.rs:91`, `100`), and no rule reads them.

Also met while modelling, the first four against a comment of the code:

- Nameservers and status codes are compared as "set comparison" (`diff.rs:86`, `94`), but
  with their duplicates (`diff.rs:153-155`): a name given twice is a change.
  `DiffsReplay` leaves open what such lists should give.
- "Duplicates removed." (`stats.rs:12`) also counts the names that came to nothing
  (`parser.rs:38`, `48`); no property relies on that number.
- The hot zone is "within 24h of earliest drop" (`dropcatch.rs:40`), but the code takes up
  to 24 whole hours, which is less than 25, before it and 48 after it
  (`dropcatch.rs:63-64`); the property only asks that it waits for deletion then.
- The third step of `portfolio_analysis` names `expiry_alert` (`planner.rs:180`), which no
  category of the toolbox with "all whoisdigger tool definitions" (`toolbox.rs:29`) registers.
- The panic of `PanicNeedsMix` is reachable with a caller that holds a longer list
  than the index was last wrapped for.
- A one-shot job has no next run from the start (`schedule.rs:64`), so it is never
  due. Random rotation may miss the only healthy proxy (`rotation.rs:120`).
- Two checks (`rbac.rs:218`) against an export and two writers can wait on each
  other, since the two take their locks in opposite orders.
- Two processes that share a PostgreSQL table can lose a fresh row: the row found
  expired (`postgres.rs:108`) is deleted by its key.
- A response merged into the request cache replaces a newer one (`cache.rs:94`).
- Choosing a file for a bulk lookup leads nowhere: `fileinput.ts:90` sets the text of
  `#bwLoadingInfo`, which no template has, and the tab stays on its loading page.
  The words the AI suggests have no button either (`wordlistinput.ts:20`).
- Cancelling the confirmation while Start counts starts the lookup all the same,
  with the text that is confirmed by then; two clicks on Start start two.
- Overlapping fetches of the history page leave the page of whichever comes back
  last. The status filter's values match no stored status (`history/index.ts:59`).
- A statistics update may come after the stop of its watcher (`stats.rs:103`).
- A load that overlaps a save may leave settings on the page that are not in the file.
- `--concurrency 0` of the command line waits for ever, as the engine does.

Deadlock is checked everywhere but in the session, which may really stop once
both runs are over on the entry page, in `remote`, `desktop`,
`user_data` and `ignored_settings`, where a part stops at its bounds (a request answered,
a list full, the last day reached), and in `stats_listener`, where both calls are over.

## Fairness

`BulkLookup` assumes weak fairness of `Spawn`, `Return` and every `Task(r, d)`:
tokio polls every runnable task, and a WHOIS query ends by its socket timeout.
Weak fairness is enough for the semaphore because permits are never taken from a
task at the head of the queue by an unbounded number of others: each task takes
one once. Nothing is assumed of the user: `RunsReturn` is conditional on pauses
ending, `StopDrains` on the stop flag staying up. `BulkSession` adds that a
command in flight is delivered, since Tauri spawns each on the same pool.
`AgentRun` (and `MCRemote`, for its part) assumes weak fairness of `RunStep`: the completion
function and the handlers of tools return, which is theirs to see to. Nothing is
assumed of the model's answers. Everything else is checked for safety only.

## Proofs

What a run shows on a small instance its theorem states for every value of the
constants, under the named assumptions of the module (`ASSUME`), which TLC
evaluates on the instance.

`BulkLookupProofs` proves, for any `Run`, any finite `Domain` and any
`Concurrency \subseteq Nat` (the assumption `BulkAssumption`):

| Theorem | States |
|---|---|
| `TypeCorrect` | `Spec => []TypeOK` |
| `InvariantHolds` | `Spec => []IInv` |
| `PermitsAlwaysConserved` | `Spec => []PermitsConserved` |
| `ProgressAlwaysMatches` | `Spec => []ProgressMatchesLookups` |
| `StopAlwaysHolds` | `Spec => []StopHolds` |
| `ProgressAlwaysInOrder` | `Spec => ProgressInOrder` |
| `EngineImplementsPool` | `Spec => ImplementsPool` |
| `SessionRunsEngine` | `SessionSpec => Spec` |
| `ButtonAlwaysTellsTruth` | `SessionSpec => []ButtonTellsTruth` |

None of the safety properties is inductive alone. `PermitsConserved` speaks of
running calls only, so `Spawn` needs to know that a starting call has no task yet
(`TasksMatchWork`); `ProgressMatchesLookups` needs that at most one task holds the
mutex (`OneEmits`), or the last event could lag by two; `StopHolds` needs that a
bar stands only while the flag does (`BarredByFlag`), or `PassGate` could let a
barred task queue. `IInv` is the conjunction. Each task action moves one task from
one place to another, so all of them go through two lemmas: `OneMove` (a move
changes the number of tasks at a set of places by one when it crosses its
border) and `MoveKeepsAccounts`. Progress in order follows from the invariant
step by step, and the refinement from a lemma per action (`PoolStep`), where
`Acquire` uses `PermitsConserved` for the guard of `Activate`.

The window takes steps of the engine or none (`SessionRunsEngine`), so what is
proved of the engine holds under it. `ButtonTellsTruth` says nothing while a command
is in flight; `ButtonKeepsUp` says what the button and the command in flight,
of which there is one, will come to. `SessionAssumption`: a run is no command.

`TieredCacheProofs` proves `TiersAlwaysAgree` and `SetAlwaysDurable` for any threads
and entries, any finite set of keys and any capacity (`CacheAssumption`). The two
are inductive only together with what calls under way are about to do: a write that
nobody disturbed is alone with its key (`Undisturbed`) and has its entry or
nothing in the primary between its tiers (`HalfWritten`), and a get about to
promote holds what the last write left (`PromotesTruth`). The last is what the
mutex of the secondary buys, and what a crossing `set` breaks in `tiered_race`.

`ScheduledJobProofs` proves, for any schedules, limits, delays and times,
`HeldNeverDue` (`Spec => []HeldIsNeverDue`) and `FailuresAlwaysStopIt`
(`Spec => []FailuresStopIt`). Due means active with a next run, but the code does
not keep `next_run` empty for a stopped job (a late run sets it), so what is
inductive is the status alone (`JobInv`). `NextRunAlwaysFirst` proves `NextRunIsFirst`
under two hypotheses: schedules name hours 0 to 23, weekdays 0 to 6 and days
1 to 28 (`NamesDays`; the code cuts other days to these, and gives other hours a plain
period), and nothing happens in the last month of the calendar (`InCalendar`), which
the model tabulates for three years. The invariant is that `next_run` was computed at
`now` (`RunIsOccurrence`); then each kind with a calendar is arithmetic on days.

`RemoteProofs`, the parts that speak to other machines:

- `AlwaysWithinLimits` and `ToolCallsAlwaysAnswered` (AgentRun), for any tools, lists,
  limits, batches and costs (`AgentAssumption`: a cost is at most `CostCap`). That
  at most `MaxIterations` responses are paid for is inductive only with what
  holds while one is awaited: the ones before it were paid, and the budget was
  not reached (`Paid`). That calls are answered in their places needs `Pending`:
  which message is being answered, how many of its calls are, and that the
  queue holds the rest in order. Lemmas on appending a result carry it.
- `RateAlwaysBounded` and `BackoffAlwaysHolds` (Throttle), for any servers, profiles,
  reports and clock (`ThrottleAssumption`: rates are positive). A window between two
  grants says nothing of the tokens that are left, so what is inductive is
  `Accounted`: what was granted since grant i, with the tokens left, is at most what
  the bucket held and what was refilled since. A refill and a grant each keep it
  (`RefillSound`, `GrantSound`). A backoff is kept because the bucket's end of
  backoff is the one promised until that is over (`Kept`).
- `DelaysAlwaysGrow` (RetryPolicy), for any configurations with at most 21 retries
  (`RetryAssumption`): each wait is the delay of its attempt, and a delay is at most
  the next one (`DelayGrows`), as jitter adds less than doubling does. From the 22nd
  retry on the code doubles no more (`attempt.min(20)`), and a jittered delay far
  from its maximum may shrink.
- `PiecesAlwaysInPlace` (LlmStream), for any calls and any number of lines. The
  property is inductive with two facts of the past: a server that repeats ids
  sends a piece under its call's id, and nothing is sent before the format is known.
- `TrimAlwaysKeepsBudget` (ChatContext), for any messages, prompt, tools and
  configurations (`ChatAssumption`). What each strategy adds last is nothing or fits in
  the room that is left (`NewestFit`, `OldestFit`), and the tokens of the parts add
  up to those of the whole (`TokensConcat`, by `TotalConcat`); one lemma per strategy.

`StoreProofs`, the parts that keep rows:

- `SqlImplementsStore` (SqlCache), for any threads, keys, lifetimes (`DbAssumption`).
  While a thread is between its SELECT and its second statement it holds the mutex and
  the row it read is the one stored, expired if it is about to be deleted
  (`SqlInv`); each statement then maps to a step of `CacheStore` or to a stutter, one
  lemma per action.
- `SettlesWithinLimit` (RequestCache), for any callers, keys, limits and merges. No
  mutex spans the statements of a call, so what is inductive is `Known`: while
  there are more rows than the limit and nobody is about to count them, some caller
  about to prune has counted at least as many.
- `HistoryAlwaysApart` (Profiles), for any profiles, archives, lookups and
  commands under way (`ProfilesAssumption`). The property looks at histories the
  commands show; the invariant at every file in every directory and archive, and
  at the rows a command is about to add.
- `PageAlwaysShowsWhatItAsks` (HistoryView), for any size of pages, profiles, days and
  rows (`HistoryViewAssumption`). The property says nothing while a fetch is under way;
  the invariant says what that fetch will bring (`Coming`): a page below the total it
  has counted or will count, unless rows went. What is logged meanwhile adds a row to
  those that match or none (`LoggingCounts`), so a page that had rows still has them.
- `DiffsAlwaysReplay` (Snapshots), for any domains, parsed fields, contents and order of
  the calls (`SnapshotsAssumption`). The invariant is that ids are the places in the
  table (`RowsWellFormed`); the rest is about the operators: the order of capture has
  every row of a domain once, and a replay is followed entry by entry, each the only
  one that writes its field or one of those that write the same.

`ServiceProofs`, the services beside the bulk lookup:

- `PanicAlwaysNeedsMix`, `AlwaysEvenlyUsed`, `HealthyAlwaysFound` (ProxyRotation), for
  any proxies, callers, setters and settings, of which one list is the longest
  (`RotationAssumption`; it bounds the domain of `served`). Where a walk over the list
  ends is told without the turns before it (`NthTurn`). Evenness is inductive with
  the round that is under way: every usable position has been served in it or
  not yet, some has not, and those that have not come first (`RoundUnderWay`).
- `AlwaysAnswersAtOneMoment` (Rbac), for any threads, roles, bindings, imports. The
  invariant is mutual exclusion of the locks (`Exclusion`) and, for each check,
  that the names it has read are still the subject's and that what they grant now is
  among the answers that were true (`Reads`). A step of another thread keeps it
  since a call that changes the bindings holds their lock alone (`WriterHolds`).
- `OneLoopAlways` (Monitor), for any number of loops (`MonitorAssumption`); with loops
  numbered in the order of their start it is inductive with the types.
- `PhaseAlwaysAgrees` (ExpiryWatch), for any entries and times (`ExpiryAssumption`): the
  invariant is the type, the rest arithmetic on minutes and the whole days and hours of
  them, truncated towards zero (`PhaseAndDrop`).
- `CliAlwaysImplementsPool` (CommandLine), for any lists and any `--concurrency`. The
  guard of the pool's `Activate` needs that the permits taken are as many as the tasks
  looking up (`CliInv`).
- `ArrivalOrderNeverShows` (Fusion), for any number of answers, of sources, custom ones
  included, and of values, and any times. A built-in source outweighs every custom one,
  so that one built-in source among the answers makes the greatest weight unique; for the rest: what is sifted (`SiftBackwards`), counted (`FrequentBackwards`), summed
  (`TotalBackwards`), the one greatest (`LastGreatestBackwards`) and the first of a source
  that answers once (`FirstInOrderBackwards`) are the same in a list read backwards.

`DesktopProofs`, the pages, the keys, the verdicts, the blocklists and the names:

- `ResolveAlwaysMostSpecific` (KeyRegistry), for any number of registrations. The last
  part of the property, one binding for a context, needs that no two bindings are
  of one combination in one context (`Apart`); the pass over the list is followed
  place by place.
- `FileAlwaysSaysWhatPageShows` (SettingsPage), for any groups, keys, options and imports
  of parts of them (`SettingsAssumption`). `OneAtATime` says what the one save or load
  under way will leave, group for group; the saves a load sends for keys without an
  option are followed one by one. That every key has an option needs no exception:
  whatever is assigned is repaired before its load is done.
- `PagesAlwaysAnswer` (SingleLookup, BulkForms), for any names, texts and replies. A
  search under way is the only one and of the name asked last (`SingleInv`); the
  handler that awaits says which pages can be shown and which text it holds
  (`InputInv`); the export form's locks follow from its preset and format.
- `SettingsAlwaysDecide` (Availability), for replies of any number of marks. Two of
  the rules ask the settings what to say and none which replies they are for
  (`RulesAlike`), so a reply hits the same rules whatever the settings (`VerdictOf`); the
  case that a reply is, which the property tells from its marks, says whether the
  first rule it hits is one of the two (`FirstHits`, `VerdictByCase`).
- `SubdomainsAlwaysReached` (Threats), for any lists, names and labels. The lists that
  match are the ones that name the domain (`MatchedAreNaming`), each adds 4275 hundredths
  (`ListsWeigh`) and the other signs are naturals (`DomainSignsType`, `WhoisSignsType`).
- `NamesAlwaysAddUp` (NameList), for any texts imported, lists, orders of strings, effects
  of the operations and configurations (`NameListAssumption`, `WordListAssumption`,
  `NameGenAssumption`). An import is inductive with what it holds, nothing twice and
  nothing that the text does not spell (`ImportInv`). The two
  processors drop blank and equal lines in one pass or in two, which is the same
  because equal lines are blank together (`FirstOfSifted`), and a sort read backwards
  is the sort the other way round (`SortsAgree`). What the loops of the combinator push
  is told by `JoinedItems`, label by label (`AroundsAlike`, `PairsAlike`).

`TypeCorrect`, `SessionTypeCorrect`, `CacheTypeCorrect`, `RotationTypeCorrect` and
`JobTypeCorrect` prove the type invariants; the other modules' are part of their
invariants. `SiftProofs` has the lemmas on sums, on `Sift` (what it keeps, in which
order, and how it grows with its sequence), on lists that follow each other, on the
first of equal elements and, for any recursion along a sequence of steps, that the
function it defines exists (`Recursion`). The folds of the libraries take an operator, which
the provers cannot instantiate, so the models that are proved about use `Sift` and
recursive functions; an induction over their places is carried out as a least
counterexample in a set of numbers, since the induction theorems take an operator too.

Every invariant and action property the passing runs check is a theorem. Only
model-checked: liveness (`RunsReturn`, `StopDrains`, `StopSaveEndsRun`, `RunEnds`) and
ENABLED, which the prover cannot reach.

## Not modelled

- Of the single lookup: the sockets, RDAP and DNS queries of `wd-lookup`. A lookup is
  an outcome in `BulkLookup`, a reply a set of marks in `Availability`, a sequence of
  lines in `SingleLookup`.
- Export: formatting of results (its form is in `BulkForms`). The analyser page
  (`renderer/bwa`): it reads the field `data` of the array `csv_parse_file` returns and
  fails before it shows anything. AI suggestions: a download and a model file.
- Registrar, transfer, cart: records whose status their owner assigns; the
  providers are I/O and no caller drives a transfer.
- The Next.js pages: a second, thin front end of the same commands.
- Of modelled components: the bulk window's table and export file, dropped files (the
  shell of the application takes the drop), and the confirmation of a file, which
  is not reached; the file
  commands other than the settings' (one call of the file system each); the
  scheduler's store (an upsert, a query, a delete) and its records of runs;
  requests to LLM providers; the chat history's table; events and the parameters
  of tools.
