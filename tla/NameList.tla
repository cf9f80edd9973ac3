------------------------------ MODULE NameList ------------------------------
(***************************************************************************)
(* Where the names to look up come from: lists that are imported (wd-      *)
(* import) and checked there, edited (WordList) or generated (NameGen).    *)
(*                                                                         *)
(* A field of an imported text is a record: the name it spells, whether    *)
(* in capitals, what trails it and what parts it from the next field; a    *)
(* line is a sequence of fields.  Fields that a format does not split, be  *)
(* they on one line or on several, stay together as one raw name.  No      *)
(* field that a comma follows has a blank before the comma.                *)
(***************************************************************************)
EXTENDS WordList, NameGen

CONSTANTS
  Contents,    \* the texts imported
  BasicNames,  \* spellings that pass basic_check, alone or where no blank parts them
  StrictNames  \* spellings that pass strict_check

Format == {"newline", "csv", "json_array", "json_objects", "zone", "ct_log", "space", "comma", "auto"}
Level == {"none", "basic", "strict"}

ASSUME NameListAssumption ==
  /\ StrictNames \subseteq BasicNames
  /\ \A content \in Contents :
       content.lines \in Seq(Seq([name : STRING, upper : BOOLEAN, trail : Seq({" ", "."}),
                                  sep : STRING]))

VARIABLES
  imported,  \* the domains of an ImportResult
  stats,     \* its ImportStats, and how often they were merged
  found      \* history: the raw names of the text

listVars == <<imported, stats, found, lines, made, generated>>

Comment == "#"
Directive == "$"
LineEnd == "eol"
Empty(field) == field.name = "" /\ field.trail = <<>>

-----------------------------------------------------------------------------
(* format.rs *)

Contains(line, sep) == \E i \in DOMAIN line : line[i].sep = sep

\* ImportFormat::detect
Detect(content) ==
  LET first == content.lines[1]
      many == Len(content.lines) > 1
  IN CASE content.json = "strings" -> "json_array"
       [] content.json = "objects" -> "json_objects"
       [] OTHER ->
            CASE content.zone -> "zone"
              [] ~ content.zone /\ Contains(first, ",") -> IF many THEN "csv" ELSE "comma"
              [] ~ content.zone /\ ~ Contains(first, ",") /\ Contains(first, " ") /\ ~ many -> "space"
              [] OTHER -> "newline"

-----------------------------------------------------------------------------
(* parser.rs *)

Stripped(trail, c) ==
  Sift(trail, {i \in DOMAIN trail : \E j \in i..Len(trail) : trail[j] # c})

Trim(field) == [field EXCEPT !.trail = Stripped(@, " ")]
TrimDots(field) == [field EXCEPT !.trail = Stripped(@, ".")]
Ended(field) == [Trim(field) EXCEPT !.sep = ""]
OfLast(raw, Change(_)) == [raw EXCEPT ![Len(raw)] = Change(@)]
Alone(fields) == [i \in DOMAIN fields |-> <<[fields[i] EXCEPT !.sep = ""]>>]
Full(raws) ==
  Sift(raws, {i \in DOMAIN raws : raws[i] # <<>> /\ ~ (Len(raws[i]) = 1 /\ Empty(raws[i][1]))})

\* A whole text, and the raw names that separators part it into.
WholeText(content) ==
  Joined([i \in DOMAIN content.lines |->
            OfLast(content.lines[i], LAMBDA f : [f EXCEPT !.sep = LineEnd])])
Pieces(fields, seps) ==
  LET at == Sift([i \in DOMAIN fields |-> i],
                 {i \in DOMAIN fields : fields[i].sep \in seps \/ i = Len(fields)})
  IN [k \in DOMAIN at |->
        OfLast(SubSeq(fields, IF k = 1 THEN 1 ELSE at[k - 1] + 1, at[k]), Ended)]

\* parse_newline
WholeLines(content) ==
  LET full == Full([i \in DOMAIN content.lines |-> OfLast(content.lines[i], Trim)])
  IN Sift(full, {i \in DOMAIN full : full[i][1].name # Comment})

\* parse_csv: the first column below the header.
FirstColumn(content) ==
  Full([i \in 1..(Len(content.lines) - 1) |-> Pieces(content.lines[i + 1], {","})[1]])

\* parse_zone_file: a record up to its first blank.
RecordOwners(content) ==
  LET full == Full(content.lines)
      records == Sift(full, {i \in DOMAIN full :
                               full[i][1].name \notin {Comment, Directive, "@"}})
  IN [i \in DOMAIN records |-> OfLast(Pieces(records[i], {" "})[1], TrimDots)]

\* parse_json_array, parse_json_objects and parse_ct_log take every field; a text
\* that is not JSON has none.
EveryField(content) == Alone(Joined(content.lines))

\* parse_space_separated parts at blanks and line ends, parse_comma_separated at
\* commas alone.
Separated(content, seps) == Full(Pieces(WholeText(content), seps))

RawNames(content, format) ==
  CASE format = "newline" -> WholeLines(content)
    [] format = "csv" -> FirstColumn(content)
    [] format = "json_array" -> IF content.json = "strings" THEN EveryField(content) ELSE <<>>
    [] format = "json_objects" -> IF content.json = "objects" THEN EveryField(content) ELSE <<>>
    [] format = "zone" -> RecordOwners(content)
    [] format = "ct_log" -> IF content.json \in {"no", "broken"} THEN WholeLines(content)
                            ELSE IF content.json = "objects" THEN EveryField(content) ELSE <<>>
    [] format = "space" -> Separated(content, {" ", LineEnd})
    [] format = "comma" -> Separated(content, {","})

\* A raw name in lower case, without the dots at its end: blanks before those
\* dots stay.
Normalised(raw) ==
  OfLast([i \in DOMAIN raw |-> [raw[i] EXCEPT !.upper = FALSE]], LAMBDA f : TrimDots(Trim(f)))

Spelled(raws) == Full([i \in DOMAIN raws |-> Normalised(raws[i])])

ParsedAs(content, asked) ==
  RawNames(content, IF asked = "auto" THEN Detect(content) ELSE asked)

\* Names are compared before they are normalised.
ImportDedupingFirst(content, asked) ==
  LET raws == ParsedAs(content, asked)
      kept == Spelled(FirstOnes(raws))
  IN /\ stats.merges = 0 /\ stats.total_parsed = 0
     /\ imported' = kept /\ found' = raws
     /\ stats' = [total_lines |-> Len(content.lines), total_parsed |-> Len(raws),
                  valid |-> Len(kept), duplicates_removed |-> Len(raws) - Len(kept),
                  invalid_removed |-> 0, merges |-> 0]
     /\ UNCHANGED <<lines, genVars>>

\* parse_import.  "Duplicates removed." (stats.rs 12) counts all that is not kept, the
\* names that came to nothing included.
Import(content, asked) ==
  LET raws == ParsedAs(content, asked)
      kept == FirstOnes(Spelled(raws))
  IN /\ stats.merges = 0 /\ stats.total_parsed = 0
     /\ imported' = kept /\ found' = raws
     /\ stats' = [total_lines |-> Len(content.lines), total_parsed |-> Len(raws),
                  valid |-> Len(kept), duplicates_removed |-> Len(raws) - Len(kept),
                  invalid_removed |-> 0, merges |-> 0]
     /\ UNCHANGED <<lines, genVars>>

-----------------------------------------------------------------------------
(* validate.rs, stats.rs *)

\* basic_check lets names pass that a comma or a line end parts.
IsValid(raw, level) ==
  CASE level = "none" -> TRUE
    [] level = "basic" ->
         /\ \A i \in DOMAIN raw : raw[i].name \in BasicNames /\ raw[i].sep # " "
         /\ \A i \in 1..(Len(raw) - 1) : " " \notin Items(raw[i].trail)
    [] level = "strict" -> Len(raw) = 1 /\ raw[1].name \in StrictNames /\ raw[1].trail = <<>>

\* filter, and merge of what it removed: of the last filter alone.
Validate(level) ==
  LET valid == Sift(imported, {i \in DOMAIN imported : IsValid(imported[i], level)})
      removed == Len(imported) - Len(valid)
  IN /\ stats.merges < 2
     /\ imported' = valid
     /\ stats' = [stats EXCEPT !.valid = @ - removed, !.invalid_removed = removed,
                               !.merges = @ + 1]
     /\ UNCHANGED <<found, lines, genVars>>

-----------------------------------------------------------------------------

NoStats == [total_lines |-> 0, total_parsed |-> 0, valid |-> 0, duplicates_removed |-> 0,
            invalid_removed |-> 0, merges |-> 0]

ListInit ==
  /\ imported = <<>> /\ stats = NoStats /\ found = <<>>
  /\ WordListInit
  /\ GenInit

\* A list is imported, edited or generated: the three are apart.
ListNext ==
  \/ /\ generated = <<>> /\ \E content \in Contents, asked \in Format : Import(content, asked)
  \/ \E level \in Level : Validate(level)
  \/ /\ stats = NoStats /\ made.by = "nothing"
     /\ WordListNext /\ UNCHANGED <<imported, stats, found, genVars>>
  \/ /\ stats = NoStats /\ lines = CHOOSE l \in Opening : TRUE
     /\ GenNext /\ UNCHANGED <<imported, stats, found, lines>>

ListSpec == ListInit /\ [][ListNext]_listVars

-----------------------------------------------------------------------------
(* Properties *)

\* "Valid unique domains after all processing": an import holds exactly the names
\* its text spells, however often and in whatever case or with whatever dots, each
\* of them once; a validation takes away only what it counts as invalid, and the
\* number of valid names is that of the names at hand however often it is merged.
ImportAddsUp ==
  /\ stats.valid = Len(imported)
  /\ Cardinality(Items(imported)) = Len(imported)
  /\ Items(imported) \subseteq Items(Spelled(found))
  /\ stats.merges = 0 => Items(imported) = Items(Spelled(found))
  /\ stats.merges = 1 =>
       stats.invalid_removed = Cardinality(Items(Spelled(found))) - Len(imported)

\* The three parts keep their word: an import adds up, the two processors of a
\* list agree, and the combinations of a generator are all there.
NamesAddUp == ImportAddsUp /\ ProcessorsAgree /\ CombinationsAreAll
=============================================================================
