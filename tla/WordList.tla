------------------------------ MODULE WordList ------------------------------
(***************************************************************************)
(* The word list editor: the operations of wd-wordlist on a list of        *)
(* lines, and to_process, the command of the application that applies a    *)
(* selection of them (commands/text.rs).                                   *)
(*                                                                         *)
(* What an operation makes of one line is given by Rewrite.  A line is a   *)
(* string that is never taken apart.                                       *)
(***************************************************************************)
EXTENDS Naturals, Sequences, FiniteSets, Sift

CONSTANTS
  Text,      \* the lines
  Rank,      \* Rank[l]: the place of l in the order of strings
  Blank,     \* lines of blanks alone
  Rewrite,   \* Rewrite[op][l]: what op makes of the line l
  Matching,  \* lines that hold the substring, or match the pattern, asked for
  Opening,   \* the lists an editor opens
  Options    \* the ProcessOptions: the steps that are on, and how to sort

\* The operations that rewrite every line by itself.
AffixOps == {"add_prefix", "add_suffix"}
CleanOps == {"trim_spaces", "delete_spaces", "trim_non_alnum", "delete_non_alnum"}
ReplaceOps == {"delete_string", "replace_string", "trim_regex", "replace_regex"}
CaseOps == {"to_lower_case", "to_upper_case", "rot13", "to_leet_speak"}
RewriteOps == AffixOps \cup CleanOps \cup ReplaceOps \cup CaseOps

ASSUME WordListAssumption ==
  /\ Rank \in [Text -> Nat] /\ \A l, m \in Text : Rank[l] = Rank[m] => l = m
  /\ Rewrite \in [RewriteOps -> [Text -> Text]]
  /\ Blank \subseteq Text /\ Matching \subseteq Text
  /\ Opening \subseteq Seq(Text)
  /\ Options \subseteq [steps : SUBSET {"prefix", "suffix", "affix", "trim", "blank", "dedupe"},
                        sort : {"asc", "desc", "random", "none"}]

VARIABLE lines

-----------------------------------------------------------------------------
(* wd-wordlist *)

RewriteLines(op, s) == [i \in DOMAIN s |-> Rewrite[op][s[i]]]

DeleteBlankLines(s) == Sift(s, {i \in DOMAIN s : s[i] \notin Blank})
DeleteMatching(s) == Sift(s, {i \in DOMAIN s : s[i] \notin Matching})

\* Of equal lines the first stays.
DedupeLines(s) == Sift(s, FirstPlaces(s))

\* How many lines come before l in the order of strings, and how many after it.
Smaller(s, l) == Cardinality({i \in DOMAIN s : Rank[s[i]] < Rank[l]})
Greater(s, l) == Cardinality({i \in DOMAIN s : Rank[s[i]] > Rank[l]})

\* A sort puts a line where it has the smaller ones before it and the greater
\* ones after it; equal lines are next to each other.
SortLines(s) ==
  LET at(k) == {l \in Items(s) : Smaller(s, l) < k /\ k <= Len(s) - Greater(s, l)}
  IN [k \in DOMAIN s |-> CHOOSE l \in at(k) : TRUE]
SortLinesReverse(s) == [k \in DOMAIN s |-> SortLines(s)[Len(s) + 1 - k]]
Shuffles(s) == {[i \in DOMAIN s |-> s[p[i]]] :
                  p \in {q \in [DOMAIN s -> DOMAIN s] : Items(q) = DOMAIN s}}

\* process_lines: the lists it may return.
ProcessLines(s, o) ==
  LET chosen(step, op, t) == IF step \in o.steps THEN RewriteLines(op, t) ELSE t
      suffixed == chosen("suffix", "add_suffix", chosen("prefix", "add_prefix", s))
      affixed == chosen("affix", "add_suffix", chosen("affix", "add_prefix", suffixed))
      trimmed == chosen("trim", "trim_spaces", affixed)
      full == IF "blank" \in o.steps THEN DeleteBlankLines(trimmed) ELSE trimmed
      kept == IF "dedupe" \in o.steps THEN DedupeLines(full) ELSE full
  IN CASE o.sort = "asc" -> {SortLines(kept)}
       [] o.sort = "desc" -> {SortLinesReverse(kept)}
       [] o.sort = "random" -> Shuffles(kept)
       [] OTHER -> {kept}

-----------------------------------------------------------------------------
(* commands/text.rs *)

\* sort_by(b.cmp(a)).
SortDescending(s) ==
  LET at(k) == {l \in Items(s) : Greater(s, l) < k /\ k <= Len(s) - Smaller(s, l)}
  IN [k \in DOMAIN s |-> CHOOSE l \in at(k) : TRUE]

\* to_process: the lines it goes through are edited where they stand, and affix
\* is not among its options.
ToProcess(s, o) ==
  LET fixed == [i \in DOMAIN s |->
                  LET p == IF "prefix" \in o.steps THEN Rewrite["add_prefix"][s[i]] ELSE s[i]
                      q == IF "suffix" \in o.steps THEN Rewrite["add_suffix"][p] ELSE p
                  IN IF "trim" \in o.steps THEN Rewrite["trim_spaces"][q] ELSE q]
      stays(i) == /\ "blank" \in o.steps => fixed[i] \notin Blank
                  /\ "dedupe" \in o.steps => \A j \in 1..(i - 1) : fixed[j] # fixed[i]
      kept == Sift(fixed, {i \in DOMAIN s : stays(i)})
  IN CASE o.sort = "asc" -> {SortLines(kept)}
       [] o.sort = "desc" -> {SortDescending(kept)}
       [] o.sort = "random" -> Shuffles(kept)
       [] OTHER -> {kept}

-----------------------------------------------------------------------------

WordListInit == lines \in Opening

\* A pattern that does not compile is an error, and no step.
EditLines(op) == lines' = RewriteLines(op, lines)

DropLines ==
  \/ lines' = DeleteBlankLines(lines)
  \/ lines' = DeleteMatching(lines)
  \/ lines' = DedupeLines(lines)

OrderLines ==
  lines' \in {SortLines(lines), SortLinesReverse(lines)} \cup Shuffles(lines)

Process(o) == lines' \in ToProcess(lines, o)

WordListNext ==
  \/ \E op \in RewriteOps : EditLines(op)
  \/ DropLines
  \/ OrderLines
  \/ \E o \in Options : Process(o)

WordListSpec == WordListInit /\ [][WordListNext]_lines

-----------------------------------------------------------------------------
(* Property *)

\* The application's own processing of a list and that of wd-wordlist, which
\* repeats it function by function, return the same for the same options.
ProcessorsAgree ==
  \A o \in Options : "affix" \notin o.steps => ToProcess(lines, o) = ProcessLines(lines, o)
=============================================================================
