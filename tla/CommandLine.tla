---------------------------- MODULE CommandLine ----------------------------
(***************************************************************************)
(* whoisdigger-cli: the bulk lookup of a word list, whose domains are      *)
(* looked up by tasks that share a semaphore, and the commands on files    *)
(* (config, cache, history, export), each a process that runs in one       *)
(* step.                                                                   *)
(*                                                                         *)
(* A panic of a lookup's own code ends its task: whether it comes is a     *)
(* choice, as it is for the application's bulk lookup.  A bulk lookup      *)
(* shares nothing with the commands on files: they are run apart.          *)
(***************************************************************************)
EXTENDS Naturals, Sequences, FiniteSets, Sift

CONSTANTS
  WordFile,     \* the word lists: sequences of lines, "" a blank one
  TldList,      \* the lists --tlds may name
  Permits,      \* values of --concurrency
  ConfigKey,    \* keys given to config: plain and dotted ones
  MaxTasks,     \* bound: tasks of a bulk lookup
  MaxCommands   \* bound: commands on files

Command == {"whois", "dns", "rdap"}

ASSUME CommandLineAssumption ==
  /\ WordFile \subseteq Seq(STRING) /\ TldList \subseteq Seq(STRING)
  /\ Permits \subseteq Nat
  /\ MaxTasks \in Nat /\ MaxCommands \in Nat

VARIABLES
  bulk,     \* the bulk lookup: phase, its type, permits taken and in all
  task,     \* the spawned tasks: domain, state, result
  printed,  \* the lines of its summary
  files,    \* settings.json and the cache and history databases
  exit,     \* how the last command on files ended
  commands  \* how many commands on files have been run

cliVars == <<bulk, task, printed, files, exit, commands>>

-----------------------------------------------------------------------------
(* process_bulk *)

\* Every word that is not blank under every TLD, in order.
DomainsOf(words, tlds) ==
  LET lines == Sift(words, {i \in DOMAIN words : words[i] # ""})
      n == Len(tlds)
  IN [i \in 1..(Len(lines) * n) |->
        <<lines[((i - 1) \div n) + 1], tlds[((i - 1) % n) + 1]>>]

StartBulk(words, tlds, permits, type) ==
  /\ bulk.phase = "new" /\ commands = 0
  /\ Len(DomainsOf(words, tlds)) <= MaxTasks
  /\ bulk' = [phase |-> "open", type |-> type, permits |-> permits, taken |-> 0]
  /\ task' = [i \in DOMAIN DomainsOf(words, tlds) |->
                [domain |-> DomainsOf(words, tlds)[i], state |-> "waiting", result |-> ""]]
  /\ UNCHANGED <<printed, files, exit, commands>>

\* The semaphore lets everyone through.
AcquireFreely(i) ==
  /\ bulk.phase = "open"
  /\ task[i].state = "waiting"
  /\ bulk' = [bulk EXCEPT !.taken = @ + 1]
  /\ task' = [task EXCEPT ![i].state = "active"]
  /\ UNCHANGED <<printed, files, exit, commands>>

AcquirePermit(i) ==
  /\ bulk.phase = "open"
  /\ task[i].state = "waiting" /\ bulk.taken < bulk.permits
  /\ bulk' = [bulk EXCEPT !.taken = @ + 1]
  /\ task' = [task EXCEPT ![i].state = "active"]
  /\ UNCHANGED <<printed, files, exit, commands>>

\* What a lookup of each type may return: dns_lookup takes an error for no NS.
Results(type) ==
  CASE type = "whois" -> {"Whois success", "Error"}
    [] type = "dns" -> {"NS found", "No NS"}
    [] type = "rdap" -> {"Rdap success", "Error"}

\* The permit goes back when the task ends, also when it panics.
FinishTask(i, state, result) ==
  /\ task[i].state = "active"
  /\ bulk' = [bulk EXCEPT !.taken = @ - 1]
  /\ task' = [task EXCEPT ![i].state = state, ![i].result = result]
  /\ UNCHANGED <<printed, files, exit, commands>>

\* The summary, once all tasks are joined: it stops at the first that panicked.
PrintSummary ==
  /\ bulk.phase = "open"
  /\ \A i \in DOMAIN task : task[i].state \in {"answered", "lost"}
  /\ \E shown \in 0..Len(task) :
       /\ \A i \in 1..shown : task[i].state = "answered"
       /\ shown < Len(task) => task[shown + 1].state = "lost"
       /\ printed' = [i \in 1..shown |-> <<task[i].domain, task[i].result>>]
       /\ bulk' = [bulk EXCEPT !.phase = IF shown = Len(task) THEN "done" ELSE "failed"]
  /\ UNCHANGED <<task, files, exit, commands>>

-----------------------------------------------------------------------------
(* The commands on files *)

\* A command ends well, with an error or with a panic.
ExitsWith(how, written) ==
  /\ bulk.phase = "new" /\ commands < MaxCommands
  /\ commands' = commands + 1
  /\ exit' = how
  /\ files' = written
  /\ UNCHANGED <<bulk, task, printed>>

\* A word list that cannot be read ends the command; a lookup of one domain
\* prints what it got, an error too, and ends well.
UnreadableList == ExitsWith("error", files)
LookUpOne == ExitsWith("ok", files)

\* config: a settings file that cannot be read counts as empty.
CliSettings == IF files.settings.kind = "absent" THEN [kind |-> "object", keys |-> {}]
            ELSE files.settings

ShowConfig ==
  ExitsWith(IF CliSettings.kind = "garbage" THEN "error" ELSE "ok", files)

\* The value is stored under the key as it is spelt, a dotted one included, which
\* --get looks up as a path; indexing anything but an object panics.
SetConfig(key) ==
  CASE CliSettings.kind = "garbage" -> ExitsWith("error", files)
    [] CliSettings.kind = "array" -> ExitsWith("panic", files)
    [] OTHER -> ExitsWith("ok", [files EXCEPT !.settings =
                              [kind |-> "object", keys |-> CliSettings.keys \cup {key}]])

\* cache --clear: opening the database makes it, and only db_cache_set the table.
ClearCache ==
  IF files.cache \in {"cleared", "filled"}
  THEN ExitsWith("ok", [files EXCEPT !.cache = "cleared"])
  ELSE ExitsWith("error", [files EXCEPT !.cache = "no table"])

\* history: db_history_get makes the database and its table.
ShowHistory == ExitsWith("ok", [files EXCEPT !.history = TRUE])

\* export: of a file of results, or of one that is not.
ExportResults(readable) ==
  IF readable THEN ExitsWith("ok", [files EXCEPT !.export = TRUE]) ELSE ExitsWith("error", files)

-----------------------------------------------------------------------------

CliInit ==
  /\ bulk = [phase |-> "new", type |-> "whois", permits |-> 0, taken |-> 0]
  /\ task = <<>>
  /\ printed = <<>>
  /\ \E kind \in {"absent", "garbage", "array"}, cache \in {"absent", "filled"} :
       files = [settings |-> [kind |-> kind, keys |-> {}], cache |-> cache,
                history |-> FALSE, export |-> FALSE]
  /\ exit = "none"
  /\ commands = 0

CliNext ==
  \/ \E words \in WordFile, tlds \in TldList, permits \in Permits, type \in Command :
       StartBulk(words, tlds, permits, type)
  \/ \E i \in DOMAIN task :
       \/ AcquirePermit(i)
       \/ \E result \in Results(bulk.type) : FinishTask(i, "answered", result)
       \/ FinishTask(i, "lost", "")
  \/ PrintSummary
  \/ UnreadableList \/ LookUpOne
  \/ ShowConfig \/ ClearCache \/ ShowHistory
  \/ \E key \in ConfigKey : SetConfig(key)
  \/ \E readable \in BOOLEAN : ExportResults(readable)

CliSpec == CliInit /\ [][CliNext]_cliVars

-----------------------------------------------------------------------------
(* Property *)

TaskIndex == 1..MaxTasks

\* One run of the pool: a domain is one place in the list of domains.
Outcomes == [i \in TaskIndex |-> IF i \in DOMAIN task THEN task[i].state ELSE "none"]
Status == IF bulk.phase \in {"new", "open"} THEN bulk.phase ELSE "closed"
Pool == INSTANCE BulkPool WITH
  Run <- {"cli"}, Domain <- TaskIndex, Concurrency <- Permits,
  outcome <- [run \in {"cli"} |-> Outcomes],
  cap <- [run \in {"cli"} |-> bulk.permits],
  status <- [run \in {"cli"} |-> Status]

\* The bulk lookup of the command line keeps the promise the application's does:
\* no more lookups at a time than --concurrency, every domain looked up once,
\* and no end before the last of them, also when lookups panic.
CliImplementsPool == Pool!Spec
=============================================================================
