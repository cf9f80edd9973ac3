----------------------------- MODULE RetryPolicy -----------------------------
(***************************************************************************)
(* What wd-ratelimit offers a client beside its throttle: the registry     *)
(* of servers (profile.rs), the detector of rate limits (detector.rs)      *)
(* and the delays between retries (backoff.rs).  The client that puts      *)
(* them together, one request at a time, is external.                      *)
(*                                                                         *)
(* A pattern is a word, and a response the set of the words it holds.      *)
(* Delays are in one unit of time.                                         *)
(***************************************************************************)
EXTENDS Naturals, Sequences, FiniteSets

LOCAL INSTANCE SequencesExt

CONSTANTS
  ServerName,   \* spellings of a server's name
  Lowering,     \* Lowering[s]: the name in lower case
  Tld,          \* top-level domains, in lower case and without the dot
  ServerDelay,  \* min_delay_ms of profiles
  Backoff,      \* the BackoffConfigs: strategy, base, max, retries, jitter in tenths
  Word,         \* words of a response
  MaxProfiles   \* bound: servers added to the registry

Strategies == {"fixed", "linear", "exponential", "jitter"}

ASSUME RetryAssumption ==
  /\ Lowering \in [ServerName -> ServerName]
  /\ ServerDelay \subseteq Nat
  /\ Backoff \subseteq [strategy : Strategies, base : Nat, max : Nat, retries : 0..21, jitter : 0..10]
  /\ MaxProfiles \in Nat

VARIABLES
  registry,  \* ServerRegistry: profiles by lower-cased name
  patterns,  \* patterns of the RateLimitDetector
  request,   \* the client's request: phase, the TLD asked about, config, attempt
  waits      \* history: the delays between the attempts of the request

retryVars == <<registry, patterns, request, waits>>

-----------------------------------------------------------------------------
(* profile.rs *)

AddProfile(name, tld, delay) ==
  /\ Cardinality(DOMAIN registry) < MaxProfiles
  /\ registry' = [s \in DOMAIN registry \cup {Lowering[name]} |->
                    IF s = Lowering[name] THEN [tld |-> tld, delay |-> delay] ELSE registry[s]]
  /\ UNCHANGED <<patterns, request, waits>>

\* get_by_tld: any of the servers of a TLD, in the order of a HashMap.
ByTld(tld) == {s \in DOMAIN registry : registry[s].tld = tld}

UnlistedDelay == 1000
\* recommended_delay
RecommendedDelay(name) ==
  IF Lowering[name] \in DOMAIN registry THEN registry[Lowering[name]].delay ELSE UnlistedDelay

-----------------------------------------------------------------------------
(* detector.rs *)

BuiltinPatterns == {"rate limit", "access denied"}
CaptchaWords == {"captcha", "challenge", "verify you are human"}

\* detect: the signals of a response that is slow or not, with an HTTP status.
Signals(response, slow, status) ==
  {s \in {"explicit", "empty", "latency", "http429", "captcha"} :
     \/ s = "explicit" /\ response \cap patterns # {}
     \/ s = "empty" /\ response = {}
     \/ s = "latency" /\ slow
     \/ s = "http429" /\ status = 429
     \/ s = "captcha" /\ response \cap CaptchaWords # {}}

AddPattern(word) ==
  /\ patterns' = patterns \cup {word}
  /\ UNCHANGED <<registry, request, waits>>

-----------------------------------------------------------------------------
(* backoff.rs *)

Smaller(a, b) == IF a < b THEN a ELSE b

\* pseudo_random: thousandths for the attempts 0, 1, ... of a request.
PseudoRandom(attempt) ==
  <<0, 761, 226, 987, 452, 917, 678, 143, 904, 369, 834,
    595, 60, 525, 286, 751, 512, 977, 442, 203, 668, 429>>[attempt + 1]

\* A jittered delay is capped before the jitter.
DelayJitteredLast(c, attempt) ==
  LET doubled == Smaller(c.max, c.base * 2 ^ attempt) IN
  IF attempt >= c.retries THEN c.max
  ELSE CASE c.strategy = "fixed" -> Smaller(c.max, c.base)
         [] c.strategy = "linear" -> Smaller(c.max, c.base * (attempt + 1))
         [] c.strategy = "exponential" -> doubled
         [] c.strategy = "jitter" ->
              doubled + ((doubled * c.jitter * PseudoRandom(attempt)) \div 10000)

\* delay_for_attempt.  The code doubles at most 20 times: the attempts of at
\* most 21 retries ask for no more.
Delay(c, attempt) ==
  LET doubled == c.base * 2 ^ attempt IN
  IF attempt >= c.retries THEN c.max
  ELSE Smaller(c.max,
    CASE c.strategy = "fixed" -> c.base
      [] c.strategy = "linear" -> c.base * (attempt + 1)
      [] c.strategy = "exponential" -> doubled
      [] c.strategy = "jitter" -> doubled + ((doubled * c.jitter * PseudoRandom(attempt)) \div 10000))

ShouldRetry(c, attempt) == attempt < c.retries

-----------------------------------------------------------------------------
(* The client *)

NoRequest == [phase |-> "none"]

\* It asks a server of the domain's TLD, or one it knows by name.
AskServer(server, c) ==
  /\ request = NoRequest
  /\ request' = [phase |-> "asked", pause |-> RecommendedDelay(server), config |-> c, attempt |-> 0]
  /\ UNCHANGED <<registry, patterns, waits>>

\* An answer with no sign of a rate limit is the end of the request, and so is
\* the last retry.
Answered(response, slow, status) ==
  /\ request.phase = "asked"
  /\ IF Signals(response, slow, status) # {} /\ ShouldRetry(request.config, request.attempt)
     THEN /\ waits' = Append(waits, Delay(request.config, request.attempt))
          /\ request' = [request EXCEPT !.attempt = @ + 1]
     ELSE /\ request' = NoRequest
          /\ waits' = <<>>
  /\ UNCHANGED <<registry, patterns>>

RetryInit ==
  /\ registry = [s \in {} |-> [tld |-> "none", delay |-> 0]]
  /\ patterns = BuiltinPatterns
  /\ request = NoRequest
  /\ waits = <<>>

RetryNext ==
  \/ \E name \in ServerName, tld \in Tld, delay \in ServerDelay : AddProfile(name, tld, delay)
  \/ \E word \in Word : AddPattern(word)
  \/ \E c \in Backoff : \/ \E tld \in Tld : \E s \in ByTld(tld) : AskServer(s, c)
                        \/ \E name \in ServerName : AskServer(name, c)
  \/ \E response \in SUBSET Word, slow \in BOOLEAN, status \in {200, 429} :
       Answered(response, slow, status)

RetrySpec == RetryInit /\ [][RetryNext]_retryVars

-----------------------------------------------------------------------------
(* Property *)

\* A request is retried no more often than its configuration allows, never
\* waits longer than the longest delay, and, whatever the jitter, never less
\* than it waited before.
DelaysGrow ==
  request.phase = "asked" =>
    LET c == request.config IN
    /\ Len(waits) = request.attempt /\ request.attempt <= c.retries
    /\ \A i, j \in DOMAIN waits : i < j => waits[i] <= waits[j]
    /\ c.base <= c.max => \A i \in DOMAIN waits : waits[i] \in c.base..c.max
=============================================================================
