------------------------------ MODULE Threats ------------------------------
(***************************************************************************)
(* wd-threat: the signs of danger a domain name and its WHOIS data show    *)
(* (pattern.rs), the blocklists that name it (blocklist.rs) and the risk   *)
(* they add up to (risk.rs, indicator.rs).                                 *)
(*                                                                         *)
(* A name is a sequence of labels; what the detector counts in a label     *)
(* is given by Facts.  Confidences are hundredths, so that a weight is     *)
(* an integer of hundredths of a point where the code has a float.         *)
(***************************************************************************)
EXTENDS Naturals, Sequences, Sift

CONSTANTS
  Label,          \* spellings of a label
  LowerCase,      \* LowerCase[l]: l.to_lowercase()
  Facts,          \* Facts[l]: what a label in lower case is made of
  SuspiciousTld,  \* default_suspicious_tlds
  Name,           \* the domain names looked at, sequences of labels
  ListName        \* names of the blocklists, each loaded once

LabelFacts == [length : Nat, vowels : Nat, consonants : Nat, digits : Nat, hyphens : Nat,
               entropic : BOOLEAN,   \* more than 3.5 bits a byte
               lookalike : BOOLEAN,  \* holds a 0, 1, 3 or 5
               punycode : BOOLEAN,   \* begins with xn--
               contains : Seq(STRING),    \* the brands it holds and is not
               near : Seq(STRING)]        \* the brands as long, one or two edits away

ASSUME ThreatsAssumption ==
  /\ LowerCase \in [Label -> Label]
  /\ DOMAIN Facts = Label /\ \A l \in Label : Facts[l] \in LabelFacts
  /\ SuspiciousTld \subseteq Label
  /\ Name \subseteq Seq(Label) \ {<<>>}
  /\ ListName \subseteq STRING

VARIABLE blocklists  \* the Blocklists there are, in the order they were loaded

Lowered(name) == [i \in DOMAIN name |-> LowerCase[name[i]]]

-----------------------------------------------------------------------------
(* pattern.rs *)

Sign(category, of, level, confidence) ==
  [category |-> category, of |-> of, level |-> level, confidence |-> confidence]

\* The confidence of ThreatIndicator::new.
DefaultConfidence == 80

When(condition, sign) == IF condition THEN <<sign>> ELSE <<>>

Each(category, brands, level) ==
  [i \in DOMAIN brands |-> Sign(category, brands[i], level, DefaultConfidence)]

\* is_dga_like
DgaLike(f) ==
  LET letters == f.vowels + f.consonants
      lesser == IF f.digits < letters THEN f.digits ELSE letters
      greater == f.digits + letters - lesser
  IN /\ f.length >= 8
     /\ f.consonants > 0
     /\ \/ 10 * f.vowels < f.consonants
        \/ f.length > 12 /\ f.entropic
        \/ f.length > 10 /\ lesser > 0 /\ 10 * lesser > 3 * greater

\* contains_homoglyphs
HasHomoglyphs(f) == f.punycode \/ (f.lookalike /\ f.vowels + f.consonants > 0)

\* The signs of the label before the last one.  Their order, which only the
\* summary shows, is not kept.
LabelSigns(f) ==
  When(DgaLike(f), Sign("dga_domain", "label", "high", 70))
    \o Each("brand_impersonation", f.contains, "high")
    \o Each("typosquat", f.near, "medium")
    \o When(f.hyphens >= 3, Sign("phishing", "hyphens", "medium", 60))
    \o When(f.length > 30, Sign("phishing", "length", "low", DefaultConfidence))
    \o When(HasHomoglyphs(f), Sign("homoglyph", "label", "high", DefaultConfidence))

\* PatternDetector::analyse_domain
DomainSigns(name) ==
  LET labels == Lowered(name)
      n == Len(labels)
  IN (IF n < 2 THEN <<>> ELSE LabelSigns(Facts[labels[n - 1]]))
       \o When(labels[n] \in SuspiciousTld, Sign("phishing", "tld", "low", DefaultConfidence))
       \o When(n > 4, Sign("fast_flux", "labels", "low", 40))

\* PatternDetector::analyse_whois: of a registrar that hides its customers, and
\* of the days since the registration, Unknown when there is no date.
Unknown == 1000000
WhoisSigns(private, days) ==
  When(private, Sign("privacy_proxy", "registrar", "low", DefaultConfidence))
    \o When(days < 30, Sign("recently_registered", "age", "medium", 60))
    \o When(days \in 30..89, Sign("recently_registered", "age", "low", 40))

-----------------------------------------------------------------------------
(* blocklist.rs *)

\* The loop ends before the parent of two labels.
ParentsFromShort(name) == {SubSeq(name, i, Len(name)) : i \in 1..(Len(name) - 2)}

\* The names contains_parent looks up: the name and its parents of two labels
\* or more.
ParentsFrom(name) == {SubSeq(name, i, Len(name)) : i \in 1..(Len(name) - 1)}

NamesParent(entries, name) == ParentsFrom(Lowered(name)) \cap entries # {}
NamesIt(entries, name) == Lowered(name) \in entries

\* check_blocklists: one sign for each list that names the domain.
Matched(lists, name) ==
  {i \in 1..Len(lists) : NamesIt(lists[i].entries, name) \/ NamesParent(lists[i].entries, name)}
ListSigns(lists, name) ==
  LET hits == Sift(lists, Matched(lists, name))
  IN [i \in 1..Len(hits) |-> Sign("blocklist_match", hits[i].name, "high", 95)]

-----------------------------------------------------------------------------
(* risk.rs *)

LevelWeight(level) ==
  CASE level = "none" -> 0 [] level = "low" -> 10 [] level = "medium" -> 25
    [] level = "high" -> 45 [] level = "critical" -> 70

Weights(signs) == [i \in 1..Len(signs) |-> LevelWeight(signs[i].level) * signs[i].confidence]

ComputeScore(signs) ==
  LET total == Total(Weights(signs)) \div 100
  IN IF total < 100 THEN total ELSE 100

ScoreToLevel(score) ==
  CASE score \in 0..10 -> "none" [] score \in 11..30 -> "low" [] score \in 31..55 -> "medium"
    [] score \in 56..80 -> "high" [] OTHER -> "critical"

\* assess_domain, of the hits of check_blocklists.
RiskLevel(lists, name, private, days) ==
  ScoreToLevel(ComputeScore(DomainSigns(name) \o WhoisSigns(private, days)
                              \o ListSigns(lists, name)))

-----------------------------------------------------------------------------

ThreatsInit == blocklists = <<>>

\* Blocklist::from_text: comments and empty lines are skipped.
LoadList(list, lines) ==
  /\ \A i \in 1..Len(blocklists) : blocklists[i].name # list
  /\ blocklists' = Append(blocklists,
       [name |-> list,
        entries |-> {Lowered(l.name) : l \in {k \in lines : k.kind = "name"}}])

\* Blocklist::add
AddEntry(i, name) ==
  blocklists' = [blocklists EXCEPT ![i].entries = @ \cup {Lowered(name)}]

Line == [kind : {"name"}, name : Name] \cup [kind : {"comment", "empty"}, name : {<<>>}]

ThreatsNext ==
  \/ \E list \in ListName, lines \in {{}} \cup {{l} : l \in Line} : LoadList(list, lines)
  \/ \E i \in 1..Len(blocklists), name \in Name : AddEntry(i, name)

ThreatsSpec == ThreatsInit /\ [][ThreatsNext]_blocklists

-----------------------------------------------------------------------------
(* Property *)

\* The labels of e are the last ones of the name.
Within(name, e) ==
  /\ Len(e) <= Len(name)
  /\ \A k \in 1..Len(e) : e[k] = name[Len(name) - Len(e) + k]

\* A list that names a domain is found for each of its subdomains, however they
\* are spelt, and weighs on the risk whatever else is known: one such list makes
\* it medium or worse, two make it critical.  A list that names only a top-level
\* domain reaches that name alone.
ListsReachSubdomains ==
  \A name \in Name :
    LET naming == {i \in 1..Len(blocklists) :
                     \E e \in blocklists[i].entries :
                       \/ e = Lowered(name)
                       \/ Len(e) >= 2 /\ Within(Lowered(name), e)}
    IN /\ Matched(blocklists, name) = naming
       /\ \A private \in BOOLEAN, days \in {0, 30, Unknown} :
            LET level == RiskLevel(blocklists, name, private, days)
            IN /\ naming # {} => level \in {"medium", "high", "critical"}
               /\ (\E i, j \in naming : i # j) => level = "critical"
=============================================================================
