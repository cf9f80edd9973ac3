------------------------------ MODULE Throttle ------------------------------
(***************************************************************************)
(* ThrottleEngine of wd-ratelimit: a token bucket for each server, with    *)
(* a backoff after repeated rate limits.  Each method holds the engine's   *)
(* one mutex, so a method is a step.                                       *)
(*                                                                         *)
(* Time is in seconds and tokens in sixtieths, so that a refill of         *)
(* rpm/60 tokens a second adds rpm sixtieths.  A server is its lower-      *)
(* cased name.                                                             *)
(***************************************************************************)
EXTENDS Integers, Sequences

CONSTANTS
  Server,
  Profile,     \* [rpm, delay]: what a caller may pass to check, the default too
  TimeStep,    \* how far the clock moves between calls
  Horizon,     \* bound: time of the last call
  ReportBound  \* bound: rate limits reported in a row

ASSUME ThrottleAssumption ==
  /\ Profile \subseteq [rpm : Nat \ {0}, delay : Nat]
  /\ TimeStep \subseteq Nat \ {0}
  /\ Horizon \in Nat /\ ReportBound \in Nat

Token == 60
NoBucket == [max |-> 0, tokens |-> 0, refilled |-> 0, limits |-> 0, until |-> 0]

VARIABLES
  now,
  bucket,   \* bucket[s]: BucketState; until = 0 is no backoff
  decision, \* decision[s]: what the last check of s returned
  grants,   \* history: when tokens of s were consumed, since the bucket was made
  promised  \* history: the end of the last backoff started for s

throttleVars == <<now, bucket, decision, grants, promised>>

Tracked(s) == bucket[s] # NoBucket

NewBucket(p) ==
  [max |-> Token * p.rpm, tokens |-> Token * p.rpm, refilled |-> now, limits |-> 0, until |-> 0]

Least(a, b) == IF a < b THEN a ELSE b

\* The bucket overflows.
RefillUncapped(b) ==
  [b EXCEPT !.tokens = @ + (now - b.refilled) * (b.max \div Token), !.refilled = now]

\* max is Token * rpm, and the refill rate rpm a second.
Refill(b) ==
  [b EXCEPT !.tokens = Least(@ + (now - b.refilled) * (b.max \div Token), b.max),
            !.refilled = now]

\* A backoff that is over is forgotten with the limits that led to it.
EndBackoff(b) == [b EXCEPT !.until = 0, !.limits = IF b.until = 0 THEN @ ELSE 0]

Charge(b) == [b EXCEPT !.tokens = @ - Token]

BackoffSeconds(limits) == Least(2 ^ Least(limits, 8), 300)

ThrottleInit ==
  /\ now = 1
  /\ bucket = [s \in Server |-> NoBucket]
  /\ decision = [s \in Server |-> "none"]
  /\ grants = [s \in Server |-> <<>>]
  /\ promised = [s \in Server |-> 0]

Elapse(d) ==
  /\ now + d <= Horizon
  /\ now' = now + d
  /\ UNCHANGED <<bucket, decision, grants, promised>>

(***************************************************************************)
(* check: a bucket is made from the profile of the first call, and later   *)
(* profiles only say how long to wait.                                     *)
(***************************************************************************)
Held(s, p) == Refill(IF Tracked(s) THEN bucket[s] ELSE NewBucket(p))

Deny(s, p) ==
  /\ Held(s, p).until > now
  /\ bucket' = [bucket EXCEPT ![s] = Held(s, p)]
  /\ decision' = [decision EXCEPT ![s] = "deny"]
  /\ UNCHANGED <<now, grants, promised>>

Consume(s, p) ==
  /\ Held(s, p).until <= now
  /\ Held(s, p).tokens >= Token
  /\ bucket' = [bucket EXCEPT ![s] = Charge(EndBackoff(Held(s, p)))]
  /\ decision' = [decision EXCEPT ![s] = IF p.delay > 0 THEN "wait" ELSE "allow"]
  /\ grants' = [grants EXCEPT ![s] = Append(@, now)]
  /\ UNCHANGED <<now, promised>>

Refuse(s, p) ==
  /\ Held(s, p).until <= now
  /\ Held(s, p).tokens < Token
  /\ bucket' = [bucket EXCEPT ![s] = EndBackoff(Held(s, p))]
  /\ decision' = [decision EXCEPT ![s] = "wait"]
  /\ UNCHANGED <<now, grants, promised>>

Check(s, p) == Deny(s, p) \/ Consume(s, p) \/ Refuse(s, p)

\* report_rate_limit; the engine passes 3 whatever the profile's threshold is.
BackoffThreshold == 3

Limited(b, n) == [b EXCEPT !.limits = n]

BackOff(b, n) ==
  [b EXCEPT !.limits = n, !.tokens = 0, !.until = now + BackoffSeconds(n)]

ReportRateLimit(s) ==
  /\ Tracked(s)
  /\ bucket[s].limits < ReportBound
  /\ LET n == bucket[s].limits + 1
     IN IF n >= BackoffThreshold
        THEN /\ bucket' = [bucket EXCEPT ![s] = BackOff(@, n)]
             /\ promised' = [promised EXCEPT ![s] = now + BackoffSeconds(n)]
        ELSE /\ bucket' = [bucket EXCEPT ![s] = Limited(@, n)]
             /\ UNCHANGED promised
  /\ UNCHANGED <<now, decision, grants>>

\* A success ends the backoff, too.
ReportSuccessForgiving(s) ==
  /\ Tracked(s)
  /\ bucket' = [bucket EXCEPT ![s].limits = 0, ![s].until = 0]
  /\ UNCHANGED <<now, decision, grants, promised>>

\* A success ends the count, not the backoff.
ReportSuccess(s) ==
  /\ Tracked(s)
  /\ bucket' = [bucket EXCEPT ![s] = Limited(@, 0)]
  /\ UNCHANGED <<now, decision, grants, promised>>

ResetEngine ==
  /\ bucket' = [s \in Server |-> NoBucket]
  /\ grants' = [s \in Server |-> <<>>]
  /\ promised' = [s \in Server |-> 0]
  /\ UNCHANGED <<now, decision>>

ThrottleNext ==
  \/ \E d \in TimeStep : Elapse(d)
  \/ \E s \in Server, p \in Profile : Check(s, p)
  \/ \E s \in Server : ReportRateLimit(s) \/ ReportSuccess(s)
  \/ ResetEngine

ThrottleSpec == ThrottleInit /\ [][ThrottleNext]_throttleVars

(***************************************************************************)
(* Properties.                                                             *)
(***************************************************************************)
ThrottleTypeOK ==
  /\ now \in Nat
  /\ bucket \in [Server -> [max : Nat, tokens : Nat, refilled : Nat, limits : Nat, until : Nat]]
  /\ decision \in [Server -> {"none", "allow", "wait", "deny"}]
  /\ grants \in [Server -> Seq(Nat)]
  /\ promised \in [Server -> Nat]

\* Over every window between two grants a server is asked for no more than the
\* bucket holds and the window refills (throttle.rs 42-75), whatever backoffs,
\* reports and profiles come between: grants are counted in tokens.
RateBounded ==
  \A s \in Server : \A i, j \in DOMAIN grants[s] :
    i <= j => Token * (j - i + 1)
                <= bucket[s].max + (grants[s][j] - grants[s][i]) * (bucket[s].max \div Token)

\* While the last backoff started for a server lasts, nothing is granted, also
\* when a success is reported in between (53-63, 88-90).
BackoffHolds ==
  [][\A s \in Server : Len(grants'[s]) > Len(grants[s]) => now >= promised[s]]_throttleVars
=============================================================================
