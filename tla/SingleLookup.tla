---------------------------- MODULE SingleLookup ----------------------------
(***************************************************************************)
(* The single lookup page (features/singlewhois/index.ts), the commands it *)
(* calls one after the other (commands/lookup.rs) and what they compute:   *)
(* the query (wd-lookup), the parse of the reply (wd-parser) and the       *)
(* fields of the table (wd-availability).                                  *)
(*                                                                         *)
(* Abstracted: a line of a reply is its kind, its key in camel case and    *)
(* its value; values a key has several of are a sequence, not joined by    *)
(* blanks.  The verdict on a text is the module Availability's; here a     *)
(* reply carries it.  The dialogs of the page only open and close.         *)
(***************************************************************************)
EXTENDS Naturals, Sequences, FiniteSets

CONSTANTS
  LookupName,     \* names a user types
  LookupSetting,  \* lookup settings the application may be given
  Converted,      \* algorithm -> name -> name, of the conversion libraries
  Registrable,    \* name -> name, of the public suffix library
  WhoisReply,     \* replies of a server: [lines, status]
  MaxSearches     \* bound: searches under way

ASSUME SingleLookupAssumption ==
  /\ LookupName # {} /\ MaxSearches \in Nat
  /\ \A reply \in WhoisReply : \A i \in DOMAIN reply.lines :
       reply.lines[i].kind \in {"pair", "tabbed", "open", "bare", "tight"}

VARIABLES
  lookupSettings,  \* state.lookup_settings
  box,             \* what stands in the input field
  loading,         \* the button is-loading, the field is readonly
  searches,        \* searches under way, each at the command it waits for
  shown,           \* the messages that are shown
  sheet,           \* the table and the reply: whether visible, and of what
  asked            \* history: the name asked for by the last click

singleVars == <<lookupSettings, box, loading, searches, shown, sheet, asked>>

-----------------------------------------------------------------------------
(* The query *)

Drawn(range, otherwise) ==
  IF ~ range.randomize THEN {otherwise}
  ELSE IF range.max > range.min THEN range.min..range.max
  ELSE {range.min}

GetFollow(s) == Drawn(s.randomizeFollow, s.follow)
GetTimeout(s) == Drawn(s.randomizeTimeout, s.timeout)

PrepareDomain(name, s) ==
  LET ascii == IF s.conversion = "off" THEN name ELSE Converted[s.conversion][name]
  IN IF s.psl THEN Registrable[ascii] ELSE ascii

-----------------------------------------------------------------------------
(* The reply *)

\* handleResults makes a colon and tabs a colon and a blank.
TabsStripped(lines) ==
  [i \in DOMAIN lines |-> [lines[i] EXCEPT !.kind = IF @ = "tabbed" THEN "pair" ELSE @]]

\* filter_colon_char: a line that ends in a colon goes on in the next one,
\* unless that has a colon of its own.
GoesOn(lines, i) ==
  /\ lines[i].kind = "open"
  /\ i < Len(lines)
  /\ lines[i + 1].kind = "bare" /\ lines[i + 1].value # ""

\* The values of a key, in the order of the lines that give one.
ValuesOf(lines, key) ==
  LET giving == SelectSeq([i \in DOMAIN lines |-> i],
                  LAMBDA i : lines[i].key = key /\ (lines[i].kind = "pair" \/ GoesOn(lines, i)))
  IN [n \in DOMAIN giving |->
        LET i == giving[n] IN IF lines[i].kind = "pair" THEN lines[i].value ELSE lines[i + 1].value]

ParseRawData(lines) ==
  [key \in {k \in {lines[i].key : i \in DOMAIN lines} : ValuesOf(lines, k) # <<>>} |->
     ValuesOf(lines, key)]

\* The first of the keys that the reply has.
FirstOf(parsed, keys) ==
  LET present == SelectSeq(keys, LAMBDA k : k \in DOMAIN parsed)
  IN IF present = <<>> THEN <<>> ELSE parsed[present[1]]

FieldKeys ==
  [registrar |-> <<"registrar">>,
   company |-> <<"registrantOrganization", "registrant", "adminName", "ownerName", "contact",
                 "name">>,
   creationDate |-> <<"creationDate", "createdDate", "created", "registered", "registeredOn">>,
   updateDate |-> <<"updatedDate", "lastUpdated", "UpdatedDate", "changed", "lastModified",
                    "lastUpdate">>,
   expiryDate |-> <<"expires", "registryExpiryDate", "expiryDate",
                    "registrarRegistrationExpirationDate", "expire", "expirationDate",
                    "expiresOn", "paidTill">>]

GetDomainParameters(domain, lines) ==
  [domain |-> domain,
   fields |-> [f \in DOMAIN FieldKeys |-> FirstOf(ParseRawData(lines), FieldKeys[f])]]

DomainNameIn(parsed) == FirstOf(parsed, <<"domainName", "domain">>)

-----------------------------------------------------------------------------
(* The page *)

EmptySheet == [visible |-> FALSE, name |-> "", reply |-> <<>>, row |-> <<>>]
NoQuery == [name |-> "", follow |-> 0, timeout |-> 0]
NewSearch(nr) ==
  [nr |-> nr, at |-> "whoisLookup", name |-> box, query |-> NoQuery, lines |-> <<>>,
   domain |-> <<>>, status |-> ""]

SingleInit ==
  /\ lookupSettings \in LookupSetting
  /\ box \in LookupName
  /\ loading = FALSE
  /\ searches = {}
  /\ shown = {}
  /\ sheet = EmptySheet
  /\ asked = ""

\* lookup_set_settings.
SetLookupSettings(s) ==
  /\ s # lookupSettings
  /\ lookupSettings' = s
  /\ UNCHANGED <<box, loading, searches, shown, sheet, asked>>

TypeName(name) ==
  /\ ~ loading
  /\ name # box
  /\ box' = name
  /\ UNCHANGED <<lookupSettings, loading, searches, shown, sheet, asked>>

\* The search button, and Enter in the field; nr tells equal searches apart.
BeginSearch ==
  /\ \E nr \in 1..MaxSearches :
       /\ \A s \in searches : s.nr # nr
       /\ \A n \in 1..(nr - 1) : \E s \in searches : s.nr = n
       /\ searches' = searches \cup {NewSearch(nr)}
  /\ loading' = TRUE
  /\ shown' = {}
  /\ sheet' = [sheet EXCEPT !.visible = FALSE]
  /\ asked' = box
  /\ UNCHANGED <<lookupSettings, box>>

\* The search button without a look at is-loading.
ClickSearchAgain == BeginSearch

ClickSearch ==
  /\ ~ loading
  /\ BeginSearch

Advance(s, t) ==
  /\ searches' = (searches \ {s}) \cup {t}
  /\ UNCHANGED <<lookupSettings, box, loading, shown, sheet, asked>>

\* whois_lookup: the settings are copied, the query goes out.
SendQuery(s) ==
  /\ s.at = "whoisLookup" /\ s.query = NoQuery
  /\ \E follow \in GetFollow(lookupSettings), timeout \in GetTimeout(lookupSettings) :
       Advance(s, [s EXCEPT !.query = [name |-> PrepareDomain(s.name, lookupSettings),
                                       follow |-> follow, timeout |-> timeout]])

\* The reply is there, logged to the history of the profile.
Replied(s, reply) ==
  /\ s.at = "whoisLookup" /\ s.query # NoQuery
  /\ Advance(s, [s EXCEPT !.at = "whoisParse", !.lines = TabsStripped(reply.lines),
                          !.status = reply.status])

Parsed(s) ==
  /\ s.at = "whoisParse"
  /\ Advance(s, [s EXCEPT !.at = "availabilityCheck",
                          !.domain = DomainNameIn(ParseRawData(s.lines))])

Checked(s) ==
  /\ s.at = "availabilityCheck"
  /\ Advance(s, [s EXCEPT !.at = "domainParameters"])

MessageOf(status) == IF status \in {"unavailable", "available"} THEN status ELSE "error"

\* The rest of handleResults; only a name that is taken fills the table.
ShowResults(s) ==
  /\ s.at = "domainParameters"
  /\ shown' = shown \cup {MessageOf(s.status)}
  /\ sheet' =
       IF s.status = "unavailable"
       THEN [visible |-> TRUE, name |-> s.name, reply |-> s.lines,
             row |-> GetDomainParameters(s.domain, s.lines)]
       ELSE [sheet EXCEPT !.name = s.name, !.reply = s.lines]
  /\ searches' = searches \ {s}
  /\ loading' = FALSE
  /\ UNCHANGED <<lookupSettings, box, asked>>

\* Any of the commands fails: the button is free again and nothing is said.
SearchFails(s) ==
  /\ searches' = searches \ {s}
  /\ loading' = FALSE
  /\ UNCHANGED <<lookupSettings, box, shown, sheet, asked>>

\* The cross of a message.
Dismiss(message) ==
  /\ message \in shown
  /\ shown' = shown \ {message}
  /\ UNCHANGED <<lookupSettings, box, loading, searches, sheet, asked>>

\* Escape: the table goes first, then the messages.
PressEscape ==
  /\ sheet.visible \/ shown # {}
  /\ sheet' = [sheet EXCEPT !.visible = FALSE]
  /\ shown' = IF sheet.visible THEN shown ELSE {}
  /\ UNCHANGED <<lookupSettings, box, loading, searches, asked>>

SingleNext ==
  \/ \E s \in LookupSetting : SetLookupSettings(s)
  \/ \E name \in LookupName : TypeName(name)
  \/ ClickSearch
  \/ \E s \in searches :
       \/ SendQuery(s)
       \/ \E reply \in WhoisReply : Replied(s, reply)
       \/ Parsed(s)
       \/ Checked(s)
       \/ ShowResults(s)
       \/ SearchFails(s)
  \/ \E message \in shown : Dismiss(message)
  \/ PressEscape

SingleSpec == SingleInit /\ [][SingleNext]_singleVars

-----------------------------------------------------------------------------
(* Property *)

\* The page never answers for another name than the one asked last, nor twice:
\* at most one message stands, the reply behind it and the table are of the
\* name of the last click, and none of them is seen while a search is under
\* way.  Four commands are awaited in between, and any of them may fail.
SearchShowsItsAnswer ==
  /\ Cardinality(shown) <= 1
  /\ shown # {} \/ sheet.visible =>
       ~ loading /\ searches = {} /\ sheet.name = asked
  /\ sheet.visible =>
       /\ shown \subseteq {"unavailable"}
       /\ sheet.row = GetDomainParameters(DomainNameIn(ParseRawData(sheet.reply)), sheet.reply)
=============================================================================
