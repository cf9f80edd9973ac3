---------------------------- MODULE Availability ----------------------------
(***************************************************************************)
(* What a WHOIS reply says of a domain (wd-availability): rules are        *)
(* tried in order, special ones, then those for available, unavailable     *)
(* and error, and the first that matches decides.  The rules for the       *)
(* default settings are built once and kept.                               *)
(*                                                                         *)
(* Abstracted: the phrases a rule looks for are marks on a reply, one      *)
(* for all phrases that are looked for in the same place and mean the      *)
(* same. Dates are past, future, or cannot be read.                        *)
(***************************************************************************)
EXTENDS Naturals, Sequences, FiniteSets, FiniteSetsExt

CONSTANT MaxMarks  \* bound: marks and dates on a reply

ASSUME AvailabilityAssumption == MaxMarks \in Nat

\* Marks of the text, then of the fields parsed from it.
TextMark ==
  {"uniregistry limit", "not found", "no entries", "no match", "status free",
   "free phrase", "is free", "short", "registered phrase", "empty", "unauthorized",
   "rate limit", "unretrivable", "forbidden", "reserved", "unregistrable",
   "error 101", "reply error", "error line"}
FieldMark == {"domainName", "many fields", "error field"}
Mark == TextMark \cup FieldMark

DateField == {"expires", "expiryDate"}
Reply ==
  {r \in [marks : UNION {kSubset(n, Mark) : n \in 0..MaxMarks},
          dates : [DateField -> {"none", "past", "future", "unreadable"}]] :
     /\ Cardinality(r.marks) + Cardinality({f \in DateField : r.dates[f] # "none"}) <= MaxMarks
     /\ "empty" \in r.marks => r.marks = {"empty"} /\ r.dates = [f \in DateField |-> "none"]}

Settings ==
  [uniregistry : BOOLEAN, ratelimit : BOOLEAN, unparsable : BOOLEAN,
   expired : {"unset", "yes", "no"}, dnsFailure : BOOLEAN]
DefaultSettings ==
  [uniregistry |-> FALSE, ratelimit |-> FALSE, unparsable |-> FALSE, expired |-> "unset",
   dnsFailure |-> FALSE]

VARIABLES
  reply,
  using,   \* the settings
  verdict  \* what is_domain_available_full returned; "" before the check

availabilityVars == <<reply, using, verdict>>

Rule(needs, unless, result) == [needs |-> needs, unless |-> unless, result |-> result]
Any(marks, result) ==
  LET order == CHOOSE s \in [1..Cardinality(marks) -> marks] :
                 \A i, j \in DOMAIN s : i # j => s[i] # s[j]
  IN [i \in DOMAIN order |-> Rule({order[i]}, {}, result)]

\* build_patterns.
SpecialRules(settings) ==
  <<Rule({"uniregistry limit"}, {},
         IF settings.uniregistry THEN "unavailable" ELSE "error:ratelimiting")>>

AvailableRules(settings) ==
  <<Rule({"not found"}, {}, "available"),
    Rule({"no entries"}, {"error 101"}, "available"),
    Rule({"no match"}, {}, "available"),
    Rule({"status free"}, {}, "available"),
    Rule({"expiry past"}, {}, IF settings.expired = "yes" THEN "expired" ELSE "available"),
    Rule({"free phrase"}, {}, "available"),
    Rule({"is free", "short"}, {}, "available")>>

UnavailableRules == Any({"domainName", "registered phrase", "many fields"}, "unavailable")

ErrorRules ==
  <<Rule({"empty"}, {}, "error:nocontent"),
    Rule({"unauthorized"}, {}, "error:unauthorized"),
    Rule({"rate limit"}, {}, "error:ratelimiting"),
    Rule({"unretrivable"}, {}, "error:unretrivable"),
    Rule({"forbidden"}, {}, "error:forbidden"),
    Rule({"reserved"}, {}, "error:reservedbyregulator"),
    Rule({"unregistrable"}, {}, "error:unregistrable")>>
    \o Any({"error 101", "reply error", "error line", "error field"}, "error:replyerror")

BuildPatterns(settings) ==
  SpecialRules(settings) \o AvailableRules(settings) \o UnavailableRules \o ErrorRules

DefaultPatterns == BuildPatterns(DefaultSettings)

\* get_domain_parameters_from_json: the first field that is there is the expiry
\* date, also when it cannot be read.
ExpiryDate(r) == IF r.dates["expires"] # "none" THEN r.dates["expires"] ELSE r.dates["expiryDate"]

MarksOf(r) == r.marks \cup (IF ExpiryDate(r) = "past" THEN {"expiry past"} ELSE {})

Hits(rule, r) == rule.needs \subseteq MarksOf(r) /\ rule.unless \cap MarksOf(r) = {}

\* One setting is forgotten.
IsDefaultButExpiry(settings) ==
  ~ settings.uniregistry /\ ~ settings.ratelimit /\ ~ settings.unparsable /\ ~ settings.dnsFailure

\* is_domain_available_full.
IsDefault(settings) ==
  /\ ~ settings.uniregistry /\ ~ settings.ratelimit /\ ~ settings.unparsable
  /\ settings.expired = "unset" /\ ~ settings.dnsFailure
Patterns(settings) == IF IsDefault(settings) THEN DefaultPatterns ELSE BuildPatterns(settings)

Verdict(r, settings) ==
  LET rules == Patterns(settings)
      hits == {i \in DOMAIN rules : Hits(rules[i], r)}
  IN IF hits # {} THEN rules[Min(hits)].result
     ELSE IF settings.unparsable THEN "available" ELSE "error:unparsable"

AvailabilityInit ==
  /\ reply \in Reply
  /\ using = DefaultSettings
  /\ verdict = ""

\* availability_check_with_settings; without settings it has the default ones.
CheckReply(settings) ==
  /\ verdict = ""
  /\ using' = settings
  /\ verdict' = Verdict(reply, settings)
  /\ UNCHANGED reply

AvailabilityNext == \E settings \in Settings : CheckReply(settings)

AvailabilitySpec == AvailabilityInit /\ [][AvailabilityNext]_availabilityVars

-----------------------------------------------------------------------------
(* Property *)

\* What a reply says that one of the settings uniregistry, unparsable and expired
\* is documented to decide (lib.rs 86-103); the other two are no part of it.
Says(r) ==
  IF "uniregistry limit" \in r.marks THEN "limit"
  ELSE IF Verdict(r, DefaultSettings) = "error:unparsable" THEN "nothing"
  ELSE IF /\ ExpiryDate(r) = "past"
          /\ r.marks \cap {"not found", "no match", "status free"} = {}
          /\ ~ ("no entries" \in r.marks /\ "error 101" \notin r.marks)
       THEN "expired" ELSE "plain"

Otherwise(settings) == [settings EXCEPT !.uniregistry = FALSE, !.unparsable = FALSE,
                                        !.expired = "unset"]

\* Each of those three settings changes the verdict only on its own kind of reply,
\* whatever the other settings are, though the rules for the defaults are kept and
\* those for any other settings are built anew.
SettingsDecideTheirCase ==
  verdict # "" =>
    LET without == Verdict(reply, Otherwise(using)) IN
    verdict = CASE Says(reply) = "limit" /\ using.uniregistry -> "unavailable"
                [] Says(reply) = "nothing" /\ using.unparsable -> "available"
                [] Says(reply) = "expired" /\ using.expired = "yes" -> "expired"
                [] OTHER -> without

\* "Treat unknown / rate-limited results as the given status" (lib.rs 91): with
\* the setting, a reply that is limited is not reported as limited.  No rule looks
\* at it, nor at dns_failure_unavailable, "Treat DNS-failure as unavailable" (100).
RateLimitSettingCounts ==
  using.ratelimit /\ "rate limit" \in reply.marks => verdict # "error:ratelimiting"
=============================================================================
