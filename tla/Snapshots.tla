----------------------------- MODULE Snapshots -----------------------------
(***************************************************************************)
(* wd-history: the store of snapshots of a domain (store.rs), what         *)
(* changed from one to the next (diff.rs) and the timeline built from      *)
(* that (timeline.rs).                                                     *)
(*                                                                         *)
(* A snapshot is captured before it is inserted, so rows may come in       *)
(* late. Its protocol, raw response, dates and tags, which diff does not   *)
(* look at, are left out; a list of names joined in order is a bag of      *)
(* them.                                                                   *)
(***************************************************************************)
EXTENDS Naturals, Sequences, FiniteSets, Sift

CONSTANTS
  SnapDomain,
  SnapKeys,     \* the keys of parsed fields, in the order of strings
  SnapContent,  \* what snapshots say: [fields, registrar, nameservers, status_codes]
  LastCapture,  \* bound: times of capture
  MaxSnapshots  \* bound: rows

OwnFields == {"registrar", "nameservers", "status_codes"}

ASSUME SnapshotsAssumption ==
  /\ SnapKeys \in Seq(STRING)
  /\ \A c \in SnapContent :
       /\ DOMAIN c = {"fields"} \cup OwnFields
       /\ DOMAIN c.fields \subseteq {SnapKeys[k] : k \in DOMAIN SnapKeys}
  /\ LastCapture \in Nat /\ MaxSnapshots \in Nat

VARIABLE snapshots  \* the rows, in the order of their ids

Absence == "absent"
NoNames == [n \in {} |-> 0]
BagOf(list) ==
  [n \in {list[i] : i \in DOMAIN list} |-> Cardinality({i \in DOMAIN list : list[i] = n})]

\* get_domain_snapshots: by time of capture, rows of the same time by id.
OfDomain(d) ==
  LET rows(t) == {i \in DOMAIN snapshots : snapshots[i].domain = d /\ snapshots[i].at = t}
      until[t \in 0..LastCapture] ==
        IF t = 0 THEN <<>> ELSE until[t - 1] \o Sift(snapshots, rows(t))
  IN until[LastCapture]

\* An entry has the name of what changed and not the part it is of, though a parsed
\* field may be called "registrar" too; here the field is the part and the name.
Keyed(key) == <<"key", key>>
Direct(name) == <<"own", name>>

\* diff_option_field, and a key of the field map; none is the value of nothing.
Entry(field, none, old, new) ==
  [field |-> field, old |-> old, new |-> new,
   kind |-> IF old = none THEN "added" ELSE IF new = none THEN "removed" ELSE "changed"]

\* diff_vec_field: sorted lists are compared, so names that come up more or less often
\* differ, where the calls say "set comparison" (diff.rs 86 and 94).
ListDiff(field, old, new) == Entry(field, NoNames, BagOf(old), BagOf(new))

FieldOf(c, key) == IF key \in DOMAIN c.fields THEN c.fields[key] ELSE Absence

\* Only the keys that the old snapshot has are compared.
ComparedOfOld(a, b) ==
  LET known == Sift(SnapKeys, {k \in DOMAIN SnapKeys : SnapKeys[k] \in DOMAIN a.fields})
  IN [k \in DOMAIN known |->
        Entry(Keyed(known[k]), Absence, FieldOf(a, known[k]), FieldOf(b, known[k]))]
     \o << Entry(Direct("registrar"), Absence, a.registrar, b.registrar),
           ListDiff(Direct("nameservers"), a.nameservers, b.nameservers),
           ListDiff(Direct("status_codes"), a.status_codes, b.status_codes) >>

\* What diff_snapshots compares, in its order.
Compared(a, b) ==
  [k \in DOMAIN SnapKeys |->
     Entry(Keyed(SnapKeys[k]), Absence, FieldOf(a, SnapKeys[k]), FieldOf(b, SnapKeys[k]))]
  \o << Entry(Direct("registrar"), Absence, a.registrar, b.registrar),
        ListDiff(Direct("nameservers"), a.nameservers, b.nameservers),
        ListDiff(Direct("status_codes"), a.status_codes, b.status_codes) >>

\* diff_snapshots: the entries of what is not the same.
Diff(a, b) ==
  LET all == Compared(a, b)
  IN Sift(all, {i \in DOMAIN all : all[i].old # all[i].new})

\* diff_timeline.
Diffs(list) == [i \in 1..(Len(list) - 1) |-> Diff(list[i].content, list[i + 1].content)]

Event(s, kind) == [at |-> s.at, kind |-> kind]

\* build_timeline: kinds by the name of the field; a name with "status" in it is
\* "status_codes" or one of the fields in StatusNamed.
StatusNamed == {"status", "domain_status"}
KindOf(name) ==
  CASE name = "registrar"   -> "registrar_changed"
    [] name = "nameservers" -> "nameserver_changed"
    [] name \in StatusNamed \cup {"status_codes"} -> "status_changed"
    [] OTHER                -> "updated"
Events(list, i) ==
  LET changes == IF i = 1 THEN <<>> ELSE Diff(list[i - 1].content, list[i].content)
  IN IF changes = <<>> THEN << Event(list[i], "snapshot") >>
     ELSE [j \in DOMAIN changes |-> Event(list[i], KindOf(changes[j].field[2]))]

SnapshotsInit == snapshots = <<>>

\* AUTOINCREMENT: an id is never used again; here ids are places in the order.
InsertSnapshot(d, at, c) ==
  /\ Len(snapshots) < MaxSnapshots
  /\ snapshots' = Append(snapshots, [id |-> Len(snapshots) + 1, domain |-> d, at |-> at,
                                     content |-> c])

DeleteDomain(d) ==
  snapshots' = LET rest == Sift(snapshots, {i \in DOMAIN snapshots : snapshots[i].domain # d})
               IN [i \in DOMAIN rest |-> [rest[i] EXCEPT !.id = i]]

ClearSnapshots == snapshots' = <<>>

SnapshotsNext ==
  \/ \E d \in SnapDomain, at \in 1..LastCapture, c \in SnapContent : InsertSnapshot(d, at, c)
  \/ \E d \in SnapDomain : DeleteDomain(d)
  \/ ClearSnapshots

SnapshotsSpec == SnapshotsInit /\ [][SnapshotsNext]_snapshots

-----------------------------------------------------------------------------
(* Properties *)

\* What a diff can tell of a snapshot, the lists as diff_vec_field joins them.
Told(c) ==
  [f \in {Keyed(SnapKeys[k]) : k \in DOMAIN SnapKeys} \cup {Direct(n) : n \in OwnFields} |->
     IF f[1] = "key" THEN FieldOf(c, f[2])
     ELSE IF f[2] = "registrar" THEN c.registrar
     ELSE BagOf(c[f[2]])]

\* What it says of the domain: of a list the names in it, however often.
IsList(f) == f \in {Direct("nameservers"), Direct("status_codes")}
Meant(f, value) == IF IsList(f) THEN DOMAIN value ELSE value
Meaning(c) == [f \in DOMAIN Told(c) |-> Meant(f, Told(c)[f])]

Nothing == [fields |-> NoNames, registrar |-> Absence, nameservers |-> <<>>, status_codes |-> <<>>]

Before(e) == Meant(e.field, e.old)
After(e) == Meant(e.field, e.new)
Replay(says, changes) ==
  LET after[n \in 0..Len(changes)] ==
        IF n = 0 THEN says
        ELSE [after[n - 1] EXCEPT ![changes[n].field] = After(changes[n])]
  IN after[Len(changes)]

\* The rows of a domain, each once, in the order of their capture.
InOrderOfCapture(d, list) ==
  /\ {list[i] : i \in DOMAIN list} =
       {snapshots[i] : i \in {j \in DOMAIN snapshots : snapshots[j].domain = d}}
  /\ \A i, j \in DOMAIN list :
       i < j => \/ list[i].at < list[j].at
                \/ list[i].at = list[j].at /\ list[i].id < list[j].id

\* The diffs of a domain's history lose nothing, however late and in whatever order
\* the rows came in: each, replayed on what a snapshot says, gives what the next in
\* the order of capture says, and each old value is what was there.  The timeline
\* says that nothing changed of a snapshot only when it says what the one before it
\* did, and always when the two are written alike.  For a list that names the same
\* as before, one name more or less often, it asks neither an entry nor none.
DiffsReplay ==
  \A d \in SnapDomain :
    LET list == OfDomain(d)
        says(i) == Meaning(list[i].content)
        told(i) == Told(list[i].content)
    IN /\ InOrderOfCapture(d, list)
       /\ \A i \in 1..(Len(list) - 1) :
            /\ Replay(says(i), Diffs(list)[i]) = says(i + 1)
            /\ \A n \in DOMAIN Diffs(list)[i] :
                 LET e == Diffs(list)[i][n] IN
                 /\ Before(e) = says(i)[e.field] /\ After(e) = says(i + 1)[e.field]
                 /\ e.kind = "added" <=> Before(e) = Meaning(Nothing)[e.field]
                 /\ e.kind = "removed" <=> After(e) = Meaning(Nothing)[e.field]
       /\ \A i \in 2..Len(list) :
            LET quiet == Events(list, i) = << Event(list[i], "snapshot") >> IN
            /\ quiet => says(i) = says(i - 1)
            /\ told(i) = told(i - 1) => quiet
=============================================================================
