------------------------------- MODULE Fusion -------------------------------
(***************************************************************************)
(* wd-fusion: the answers of several sources about a domain, in the        *)
(* order they came in, merged into one record (merge.rs, confidence.rs).   *)
(*                                                                         *)
(* The merge of a record is that of each of its fields: one field stands   *)
(* for all.  A value picked out of a HashMap, whose order is random, is    *)
(* one of a set of values.  A score is tenths of weight over a number of   *)
(* sources; the mean over the fields, overall, is left out.                *)
(***************************************************************************)
EXTENDS Naturals, Sequences, FiniteSets, FiniteSetsExt, Sift

Sequence == INSTANCE SequencesExt

CONSTANTS
  Answering,   \* the sources that are asked, built in or Custom of some name
  FieldValue,  \* the spellings of the field's value
  Lower,       \* Lower[v]: v in lower case
  AnswerTime,  \* timestamps of the answers
  MaxAnswers   \* bound: answers

\* LookupSource: every other source is a Custom one, of its name.
Named == {"rdap", "whois", "dns", "reverse_whois"}
Source == Named \cup Answering

ASSUME FusionAssumption ==
  /\ Lower \in [FieldValue -> FieldValue]
  /\ AnswerTime \subseteq Nat
  /\ MaxAnswers \in Nat

VARIABLE answers  \* the SourceRecords

\* Two sources weigh the same.
WeightTied(source) ==
  CASE source \in {"rdap", "whois"} -> 10 [] source = "dns" -> 7
    [] source = "reverse_whois" -> 5 [] OTHER -> 4

\* source_weight and source_weight_f, in tenths.
Weight(source) ==
  CASE source = "rdap" -> 10 [] source = "whois" -> 8 [] source = "dns" -> 7
    [] source = "reverse_whois" -> 5 [] OTHER -> 4

\* The fixed orders of sources and the other strategies of MergeStrategy.
Strategy ==
  [by : {"highest_weight", "majority", "most_recent"}, order : {<<>>}]
    \cup [by : {"priority"}, order : {<<"whois", "rdap">>, <<"dns">>}]

\* What successful sources say of the field, in order.
Entries(records) ==
  Sift(records, {i \in 1..Len(records) : records[i].success /\ records[i].value # {}})

ValueIn(r) == CHOOSE v \in r.value : TRUE
Spelt(entries) == [i \in 1..Len(entries) |-> ValueIn(entries[i])]
InLower(entries) == [i \in 1..Len(entries) |-> Lower[ValueIn(entries[i])]]

\* max_by and max_by_key return the last of the greatest.
LastGreatest(ranks) ==
  Max({i \in 1..Len(ranks) : \A j \in 1..Len(ranks) : ranks[j] <= ranks[i]})

MostFrequent(names) ==
  LET count(name) == Cardinality({i \in 1..Len(names) : names[i] = name})
      all == {names[i] : i \in 1..Len(names)}
  IN {n \in all : \A m \in all : count(m) <= count(n)}

FromSource(entries, source) == {i \in 1..Len(entries) : entries[i].source = source}

\* The first source of the order that has the field, or the first that answered.
FirstInOrder(entries, order) ==
  LET named == {k \in 1..Len(order) : FromSource(entries, order[k]) # {}}
  IN IF named = {} THEN 1 ELSE Min(FromSource(entries, order[Min(named)]))

\* pick_value: the values that may be picked of entries that are not empty.
Picked(entries, strategy) ==
  LET names == Spelt(entries)
      weights == [i \in 1..Len(entries) |-> Weight(entries[i].source)]
      times == [i \in 1..Len(entries) |-> entries[i].at]
  IN CASE strategy.by = "highest_weight" -> {names[LastGreatest(weights)]}
       [] strategy.by = "majority" -> MostFrequent(names)
       [] strategy.by = "most_recent" -> {names[LastGreatest(times)]}
       [] OTHER -> {names[FirstInOrder(entries, strategy.order)]}

\* compute_confidence of the field: the scores it may get.
Unanimous(entries) == Cardinality({InLower(entries)[i] : i \in 1..Len(entries)}) <= 1
WeightOf(entries, name) ==
  Total([i \in 1..Len(entries) |->
           IF InLower(entries)[i] = name THEN Weight(entries[i].source) ELSE 0])
Scores(entries) ==
  {[tenths |-> WeightOf(entries, name), sources |-> Len(entries)] :
     name \in MostFrequent(InLower(entries))}

\* merge_records of the field.
Fused(records, strategy) ==
  LET entries == Entries(records) IN
  [values |-> IF entries = <<>> THEN {} ELSE Picked(entries, strategy),
   provided_by |-> [i \in 1..Len(entries) |-> entries[i].source],
   scores |-> Scores(entries),
   consensus |-> Unanimous(entries)]

FusionInit == answers = <<>>

\* A source succeeds, with the field or without, or fails.
Answer(source, value, at, success) ==
  /\ Len(answers) < MaxAnswers
  /\ answers' = Append(answers, [source |-> source, value |-> value, at |-> at,
                                 success |-> success])

FusionNext ==
  \E source \in Answering, at \in AnswerTime :
    \/ \E value \in {{}} \cup {{v} : v \in FieldValue} : Answer(source, value, at, TRUE)
    \/ Answer(source, {}, at, FALSE)

FusionSpec == FusionInit /\ [][FusionNext]_answers

-----------------------------------------------------------------------------
(* Property *)

\* The order in which the sources answered does not show: as long as no source
\* answers twice, the answers merge to the same value and scores when they come in
\* the opposite order.  For the highest weight, one of several that have the field
\* is built in: Custom sources all weigh the same, and of those alone the last wins.
\* For the most recent no two answer at one time, for a priority one of its sources
\* has the field.
ArrivalOrderIrrelevant ==
  \A strategy \in Strategy :
    LET entries == Entries(answers)
        Places == 1..Len(entries)
        apart == \A i, j \in Places : i # j =>
                   /\ entries[i].source # entries[j].source
                   /\ strategy.by = "most_recent" => entries[i].at # entries[j].at
        ranked ==
          /\ strategy.by = "highest_weight" /\ Len(entries) > 1 =>
               \E i \in Places : entries[i].source \in Named
          /\ strategy.by = "priority" =>
               \E i \in Places, k \in 1..Len(strategy.order) :
                 entries[i].source = strategy.order[k]
        one == Fused(answers, strategy)
        other == Fused(Sequence!Reverse(answers), strategy)
    IN apart /\ ranked => one.values = other.values /\ one.scores = other.scores
=============================================================================
