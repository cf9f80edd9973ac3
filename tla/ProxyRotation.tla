---------------------------- MODULE ProxyRotation ---------------------------
(***************************************************************************)
(* ProxyRotation (wd-proxy, rotation.rs) and proxy_set_settings            *)
(* (commands/settings.rs), which writes the settings and then resets the   *)
(* rotation, one lock at a time.  A caller clones the settings and calls   *)
(* get_proxy with the clone; what it does with the proxy is to report a    *)
(* failure or a success of any proxy at any time.                          *)
(*                                                                         *)
(* Abstracted: an entry of the list is the key of its proxy, or Junk if    *)
(* it does not parse; Single mode is a list of one and no single proxy     *)
(* the empty list; enable = false returns before any state is touched      *)
(* and is left out; the five minutes of the cooldown are the choice of     *)
(* when a failure is old.                                                  *)
(***************************************************************************)
EXTENDS Naturals, Sequences, FiniteSets

CONSTANTS
  Proxy,     \* keys of proxies
  Junk,      \* an entry parse_proxy_entry refuses
  Settings,  \* the ProxySettings in play: [mode, list, retries]
  Caller,    \* threads that ask for a proxy
  Setter,    \* proxy_set_settings commands that may overlap
  MaxCount   \* bound: failures reported of one proxy

Mode == {"ascending", "descending", "random"}

\* ProxySettings::default(): single mode without a proxy.
Default == [mode |-> "ascending", list |-> <<>>, retries |-> 0]

ASSUME RotationAssumption ==
  /\ Junk \notin Proxy
  /\ Default \in Settings
  /\ Settings \subseteq [mode : Mode, list : Seq(Proxy \cup {Junk}), retries : Nat]
  /\ \E s \in Settings : \A t \in Settings : Len(t.list) <= Len(s.list)
  /\ MaxCount \in Nat

VARIABLES
  settings,  \* AppData.proxy_settings
  setting,   \* setting[w]: how far setter w is
  index,     \* ProxyRotation.index
  failures,  \* ProxyRotation.failures, 0 for no entry
  old,       \* proxies whose last failure is older than failure_expiry
  asking,    \* asking[c]: how far the get_proxy of caller c is
  clone,     \* clone[c]: the settings caller c read
  answer,    \* answer[c]: whether caller c last got a proxy
  panicked,  \* list[entry_idx] was out of range: the locks are poisoned
  served,    \* history: times each position was returned, less the least
  mixed      \* history: index was used with other settings than it was reset for

rotation == <<index, failures, old, panicked>>
callers == <<asking, clone, answer>>
vars == <<settings, setting, index, failures, old, asking, clone, answer, panicked,
          served, mixed>>

Size(s) == Len(s.list)
Position(s) == 0..(Size(s) - 1)
Longest == CHOOSE n \in {Size(s) : s \in Settings} : \A s \in Settings : Size(s) <= n
NoneServed == [p \in 0..Longest |-> 0]

\* The entry parses and has not failed max_retries times (0: no limit).
Usable(s, p) ==
  LET entry == s.list[p + 1]
  IN entry \in Proxy /\ (s.retries = 0 \/ failures[entry] < s.retries)

Init ==
  /\ settings = Default
  /\ setting = [w \in Setter |-> "idle"]
  /\ index = 0
  /\ failures = [p \in Proxy |-> 0]
  /\ old = {}
  /\ asking = [c \in Caller |-> "idle"]
  /\ clone = [c \in Caller |-> settings]
  /\ answer = [c \in Caller |-> "none"]
  /\ panicked = FALSE
  /\ served = NoneServed
  /\ mixed = FALSE
----------------------------------------------------------------------------
(* proxy_set_settings and ProxyRotation::reset.                            *)

SetSettings(w, s) ==
  /\ setting[w] = "idle"
  /\ settings' = s
  /\ setting' = [setting EXCEPT ![w] = "index"]
  /\ served' = NoneServed
  /\ UNCHANGED <<rotation, callers, mixed>>

\* A reset that forgets the index.
ResetIndexForgotten(w) ==
  /\ setting[w] = "index"
  /\ ~panicked
  /\ setting' = [setting EXCEPT ![w] = "failures"]
  /\ UNCHANGED <<settings, rotation, callers, served, mixed>>

\* Once every setter has reset it, index belongs to the settings again.
ResetIndex(w) ==
  /\ setting[w] = "index"
  /\ ~panicked
  /\ index' = 0
  /\ setting' = [setting EXCEPT ![w] = "failures"]
  /\ mixed' = (mixed /\ \E v \in Setter \ {w} : setting[v] = "index")
  /\ served' = NoneServed
  /\ UNCHANGED <<settings, failures, old, panicked, callers>>

ResetFailures(w) ==
  /\ setting[w] = "failures"
  /\ ~panicked
  /\ failures' = [p \in Proxy |-> 0]
  /\ old' = {}
  /\ setting' = [setting EXCEPT ![w] = "idle"]
  /\ served' = NoneServed
  /\ UNCHANGED <<settings, index, panicked, callers, mixed>>
----------------------------------------------------------------------------
(* get_proxy.                                                             *)

TakeSettings(c) ==
  /\ asking[c] = "idle"
  /\ clone' = [clone EXCEPT ![c] = settings]
  /\ asking' = [asking EXCEPT ![c] = "cleanup"]
  /\ UNCHANGED <<settings, setting, rotation, answer, served, mixed>>

\* Failures past their expiry are forgotten; the lock is then given up.
CleanupFailures(c) ==
  /\ asking[c] = "cleanup"
  /\ ~panicked
  /\ failures' = [p \in Proxy |-> IF p \in old THEN 0 ELSE failures[p]]
  /\ old' = {}
  /\ asking' = [asking EXCEPT ![c] = "select"]
  /\ served' = IF failures' = failures THEN served ELSE NoneServed
  /\ UNCHANGED <<settings, setting, index, clone, answer, panicked, mixed>>

\* An index that stops at the end of the list.
TurnSaturating(mode, n, i) ==
  IF mode = "ascending"
  THEN [at |-> i, next |-> IF i + 1 < n THEN i + 1 ELSE i]
  ELSE LET j == IF i = 0 THEN 0 ELSE i - 1 IN [at |-> j, next |-> j]

\* One turn of the loop from i: the position looked at, and the next index.
Turn(mode, n, i) ==
  IF mode = "ascending"
  THEN [at |-> i, next |-> (i + 1) % n]
  ELSE LET j == IF i = 0 THEN n - 1 ELSE i - 1 IN [at |-> j, next |-> j]

\* A loop over all positions but one.
TurnsShort(s) ==
  LET turn[k \in 1..Size(s)] ==
        Turn(s.mode, Size(s), IF k = 1 THEN index ELSE turn[k - 1].next)
  IN [k \in 1..(IF Size(s) > 1 THEN Size(s) - 1 ELSE 1) |-> turn[k]]

\* The turns the loop may take, in order.
Turns(s) ==
  LET turn[k \in 1..Size(s)] ==
        Turn(s.mode, Size(s), IF k = 1 THEN index ELSE turn[k - 1].next)
  IN turn

\* served after position p was returned, with what all usable ones have had
\* taken off: what is left is who is ahead.
Serve(s, p) ==
  LET more == [served EXCEPT ![p] = @ + 1]
      usable == {q \in Position(s) : Usable(s, q)}
  IN IF \A q \in usable : more[q] > 0
     THEN [q \in 0..Longest |-> IF q \in usable THEN more[q] - 1 ELSE 0]
     ELSE more

\* The index is not the one that was reset for the settings the caller read.
Mixing(c) == clone[c] # settings \/ \E w \in Setter : setting[w] = "index"

\* Ascending or descending, from wherever the index stands: the loop ends at
\* the first turn that panics or finds a usable entry, or with the last.
SelectInTurn(c) ==
  LET s == clone[c]
      turns == Turns(s)
      ends == {k \in 1..Len(turns) : turns[k].at \notin Position(s) \/ Usable(s, turns[k].at)}
      last == IF ends = {} THEN Len(turns) ELSE CHOOSE k \in ends : \A l \in ends : k <= l
      at == turns[last].at
  IN /\ s.mode # "random"
     /\ index' = turns[last].next
     /\ panicked' = (at \notin Position(s))
     /\ answer' = [answer EXCEPT ![c] = IF ends = {} \/ panicked' THEN "none" ELSE "some"]
     /\ mixed' = (mixed \/ Mixing(c))
     /\ served' = IF mixed' THEN NoneServed
                  ELSE IF answer'[c] = "none" THEN served ELSE Serve(s, at)

\* As many draws as there are entries: they may miss a usable one.
SelectRandom(c) ==
  LET s == clone[c]
  IN /\ s.mode = "random"
     /\ \/ \E p \in Position(s) : Usable(s, p) /\ answer' = [answer EXCEPT ![c] = "some"]
        \/ \E p \in Position(s) : ~Usable(s, p) /\ answer' = [answer EXCEPT ![c] = "none"]
     /\ UNCHANGED <<index, panicked, mixed, served>>

\* Both locks are held from here to the end; an empty list takes neither.
Select(c) ==
  /\ asking[c] = "select"
  /\ asking' = [asking EXCEPT ![c] = "idle"]
  /\ \/ /\ Size(clone[c]) = 0
        /\ answer' = [answer EXCEPT ![c] = "none"]
        /\ UNCHANGED <<index, panicked, mixed, served>>
     \/ /\ Size(clone[c]) > 0
        /\ ~panicked
        /\ SelectInTurn(c) \/ SelectRandom(c)
  /\ UNCHANGED <<settings, setting, failures, old, clone>>
----------------------------------------------------------------------------
ReportProxyFailure(p) ==
  /\ ~panicked
  /\ failures[p] < MaxCount
  /\ failures' = [failures EXCEPT ![p] = @ + 1]
  /\ old' = old \ {p}
  /\ served' = NoneServed
  /\ UNCHANGED <<settings, setting, index, panicked, callers, mixed>>

ReportProxySuccess(p) ==
  /\ ~panicked
  /\ failures' = [failures EXCEPT ![p] = 0]
  /\ old' = old \ {p}
  /\ served' = NoneServed
  /\ UNCHANGED <<settings, setting, index, panicked, callers, mixed>>

\* failure_expiry goes by without another failure of p.
Cooldown(p) ==
  /\ failures[p] > 0
  /\ old' = old \cup {p}
  /\ UNCHANGED <<settings, setting, index, failures, panicked, callers, served, mixed>>

\* With the locks poisoned every lock().unwrap() panics too: the command or
\* the caller ends there.
PanicToo ==
  /\ panicked
  /\ \/ \E w \in Setter : setting[w] # "idle" /\ setting' = [setting EXCEPT ![w] = "idle"]
                          /\ UNCHANGED asking
     \/ \E c \in Caller : asking[c] # "idle" /\ asking' = [asking EXCEPT ![c] = "idle"]
                          /\ UNCHANGED setting
  /\ UNCHANGED <<settings, rotation, clone, answer, served, mixed>>

Next ==
  \/ \E w \in Setter :
       \/ \E s \in Settings : SetSettings(w, s)
       \/ ResetIndex(w)
       \/ ResetFailures(w)
  \/ \E c \in Caller :
       \/ TakeSettings(c)
       \/ CleanupFailures(c)
       \/ Select(c)
  \/ \E p \in Proxy :
       \/ ReportProxyFailure(p)
       \/ ReportProxySuccess(p)
       \/ Cooldown(p)
  \/ PanicToo

Spec == Init /\ [][Next]_vars
----------------------------------------------------------------------------
(* Properties.                                                            *)

\* Every variable keeps its type; the index, unless it was just reset, fits some
\* list in play.
TypeOK ==
  /\ settings \in Settings
  /\ setting \in [Setter -> {"idle", "index", "failures"}]
  /\ index \in Nat /\ (index = 0 \/ index < Longest)
  /\ failures \in [Proxy -> 0..MaxCount]
  /\ old \subseteq Proxy
  /\ asking \in [Caller -> {"idle", "cleanup", "select"}]
  /\ clone \in [Caller -> Settings]
  /\ answer \in [Caller -> {"none", "some"}]
  /\ panicked \in BOOLEAN
  /\ served \in [0..Longest -> Nat]
  /\ mixed \in BOOLEAN

\* Indexing the list out of range, which poisons the rotation for good, takes
\* a caller whose settings are not the ones the index was last reset for.
PanicNeedsMix == panicked => mixed

\* Ascending and descending rotation is even: whoever asks, and wherever junk
\* and exhausted entries are skipped, no usable entry is returned twice more
\* than another while the settings and the failures stay as they are.
EvenlyUsed ==
  settings.mode # "random" =>
    \A p, q \in Position(settings) :
      Usable(settings, p) /\ Usable(settings, q) => served[p] <= served[q] + 1

\* get_proxy in turn says None only when no entry is usable: proxies over the
\* retry limit are skipped, and the scan misses none of the others.
HealthyIsFound ==
  [][\A c \in Caller :
       (/\ asking[c] = "select" /\ asking'[c] = "idle"
        /\ clone[c].mode # "random"
        /\ ~panicked' /\ ~mixed'
        /\ answer'[c] = "none")
       => \A p \in Position(clone[c]) : ~Usable(clone[c], p)]_vars
=============================================================================
