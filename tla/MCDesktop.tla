----------------------------- MODULE MCDesktop -----------------------------
(***************************************************************************)
(* The instance of the parts that keep their state on this machine: the    *)
(* pages, the files and databases of the application, the command line and *)
(* the libraries that compute on names and answers.  The parts share no    *)
(* state, so each behaviour is one of a single part, the others standing   *)
(* still: TLC explores the parts side by side and not their product.       *)
(***************************************************************************)
EXTENDS Rbac, Monitor, RequestCache, KeyRegistry, ExpiryWatch, Snapshots, Fusion, Profiles,
        Availability, SqlCache, Threats, CommandLine, NameList, BulkForms

VARIABLE part

-----------------------------------------------------------------------------
(* Small values of the constants *)

ImportDocs ==
  {[roles |-> [r \in {"viewer"} |-> {"all"}], wellFormed |-> w,
    bindings |-> [s \in {"alice"} |-> {}]] : w \in BOOLEAN}

\* Entries that expire after 1000 hours, or never, and the minutes around the ends
\* of their phases, of the hours before and after their drops and of the hot zones.
Expires == 1000 * Hour
WatchEntries ==
  {[domain |-> d, priority |-> "medium", expiry |-> Expires, registrar |-> r, active |-> TRUE] :
     <<d, r>> \in {<<"a", "godaddy">>, <<"b", "none">>}}
    \cup {[domain |-> "b", priority |-> "high", expiry |-> Never, registrar |-> "none",
           active |-> TRUE]}
Moments ==
  {Expires + Day * d - m : d \in {-30, 0, 25, 30, 55, 60, 65}, m \in {0, 1}}
    \cup {Expires + Day * 60 + h * Hour + m :
            h \in {-25, -24, -1, 1, 25, 48, 49}, m \in {-1, 0, 1}}

SnapKeysInOrder == <<"domain_status", "expires", "registrar">>

SnapContents ==
  {[fields |-> [k \in {} |-> ""], registrar |-> "one", nameservers |-> <<"ns1", "ns2">>,
    status_codes |-> <<>>],
   [fields |-> [expires |-> "may", registrar |-> "one"],
    registrar |-> "one", nameservers |-> <<"ns2", "ns1">>, status_codes |-> <<>>],
   [fields |-> [expires |-> "june", domain_status |-> "ok", registrar |-> "two"],
    registrar |-> "two", nameservers |-> <<"ns1", "ns1">>, status_codes |-> <<"ok">>],
   [fields |-> [domain_status |-> "ok"], registrar |-> Absence, nameservers |-> <<"ns1">>,
    status_codes |-> <<"ok">>]}

MergeFiles == {{[key |-> "a", time |-> 0], [key |-> "b", time |-> 1]}}

FieldLower == [v \in {"Acme", "acme", "other"} |-> IF v = "Acme" THEN "acme" ELSE v]

ArchiveNames == [p \in {"default"} |-> "work"]

Labels == {"shop", "Shop", "paypai", "tk", "com"}
LabelLower == [l \in Labels |-> IF l = "Shop" THEN "shop" ELSE l]
PlainLabel ==
  [length |-> 5, vowels |-> 2, consonants |-> 3, digits |-> 0, hyphens |-> 0,
   entropic |-> FALSE, lookalike |-> FALSE, punycode |-> FALSE, contains |-> <<>>, near |-> <<>>]
LabelsFacts ==
  [l \in Labels |->
     IF l = "paypai" THEN [PlainLabel EXCEPT !.length = 6, !.near = <<"paypal">>] ELSE PlainLabel]
DomainNames ==
  {<<"tk">>, <<"paypai", "tk">>, <<"Shop", "paypai", "tk">>, <<"shop", "shop", "paypai", "tk">>,
   <<"shop", "com">>}

WordFiles == {<<"one">>, <<"one", "", "two", "one">>}
TldLists == {<<"com">>, <<"com", "net">>}

\* Lines, in the order of strings, and what the operations make of them.
Lines == {" ", "A", "a", "a ", "pa"}
LineRank ==
  [l \in Lines |-> CHOOSE n \in 1..5 : <<" ", "A", "a", "a ", "pa">>[n] = l]
Same == [l \in Lines |-> l]
Rewritten ==
  [op \in RewriteOps |->
     CASE op = "add_prefix" -> [Same EXCEPT !["a"] = "pa"]
       [] op \in {"trim_spaces", "delete_spaces"} -> [Same EXCEPT !["a "] = "a"]
       [] op = "to_lower_case" -> [Same EXCEPT !["A"] = "a"]
       [] op = "to_upper_case" -> [Same EXCEPT !["a"] = "A"]
       [] OTHER -> Same]
Openings == {<<"a", "a ", " ">>, <<"A", "pa", "a">>}
ListOptions ==
  [steps : {{"prefix", "trim", "blank", "dedupe"}}, sort : {"asc", "desc", "random", "none"}]
    \cup [steps : {{"suffix", "blank"}, {"affix"}}, sort : {"none"}]

\* Tokens of generated names; of two words with mutations only "shop" is one.
Tokens ==
  {"get", "my", "hub", "shop", "pay", "-", ".com", "net", "sh0p", "sp", "s-hop", "ps"}
TokenLengths ==
  [t \in Tokens |-> CASE t = "-" -> 1 [] t \in {"my", "sp", "ps"} -> 2
                      [] t \in {"get", "pay", "hub", "net"} -> 3
                      [] t \in {"shop", "sh0p", ".com"} -> 4 [] t = "s-hop" -> 5]
TokensInOrder ==
  <<"-", ".com", "get", "hub", "my", "net", "pay", "ps", "s-hop", "sh0p", "shop", "sp">>
TokenRanks == [t \in Tokens |-> CHOOSE n \in DOMAIN TokensInOrder : TokensInOrder[n] = t]
TokenVariants ==
  [kind \in MutationKinds |-> [t \in Tokens |->
     CASE t # "shop" -> <<>>
       [] t = "shop" /\ kind \in {"leet_speak", "vowel_substitution"} -> <<"sh0p">>
       [] t = "shop" /\ kind = "hyphenation" -> <<"s-hop">>
       [] t = "shop" /\ kind = "vowel_removal" -> <<"sp">>
       [] OTHER -> <<>>]]
WordInitials == [words \in {<<"shop", "pay">>} |-> "sp"]
Combinators ==
  [words : {<<"shop", "pay">>, <<"shop", "shop">>, <<"shop", "pay", "my">>},
   prefixes : {<<"get", "my">>}, suffixes : {<<"hub">>}, tlds : {<<".com">>, <<".com", "net">>},
   bare : BOOLEAN, sep : {<<>>, <<"-">>}, max : {6, 63}]
GeneratorConfigs ==
  [keywords : {<<>>, <<"shop">>, <<"shop", "pay">>}, tlds : {<<".com">>}, max : {3, 100}]
FilterConfigs ==
  [min : {1}, max : {6, 63}, ascii : {TRUE}, dedup : BOOLEAN, blocked : {{}, {<<"shop">>}},
   blockedTokens : {{}, {"my"}}]

\* Texts to import: one name in several spellings, blank ones, comments, in the
\* formats that are told apart.
Field(name, upper, trail) == [name |-> name, upper |-> upper, trail |-> trail, sep |-> ""]
Loud == Field("a.com", TRUE, <<>>)
Dotted == Field("a.com", FALSE, <<".">>)
Blanked == Field("b", FALSE, <<" ">>)
OnlyDot == Field("", FALSE, <<".">>)
Hyphened == Field("a-.com", FALSE, <<".", " ">>)
Marker(name) == Field(name, FALSE, <<>>)
Pair(one, sep, two) == <<[one EXCEPT !.sep = sep], two>>
ImportContents ==
  [json : {"no", "strings", "objects", "broken"}, zone : {FALSE},
   lines : {<<<<Loud>>, <<Dotted>>, <<Hyphened>>>>,
            <<<<Marker("#")>>, <<Loud>>, <<OnlyDot>>, <<Blanked>>>>}]
    \cup [json : {"no"}, zone : {TRUE},
          lines : {<<<<Marker("$")>>, <<Loud>>, <<Dotted>>, <<Marker("@")>>>>}]
    \cup [json : {"no"}, zone : {FALSE},
          lines : {<<Pair(Loud, sep, Dotted)>> : sep \in {",", " "}}
                    \cup {<<Pair(Marker("b"), sep, OnlyDot), Pair(Loud, sep, Hyphened),
                            Pair(Dotted, sep, Dotted)>> : sep \in {",", " "}}]

\* A name typed in two scripts, and replies that are parsed in their own ways.
Ascii == [name \in {"shop", "shop-idn"} |-> IF name = "shop-idn" THEN "xn--shp" ELSE name]
Conversions == [algorithm \in {"punycode"} |-> Ascii]
Suffixed == [name \in {"shop", "shop-idn", "xn--shp"} |-> name]
FixedRange == [randomize |-> FALSE, min |-> 0, max |-> 0]
LookupOptions ==
  {[conversion |-> "off", psl |-> FALSE, follow |-> 1, timeout |-> 2,
    randomizeFollow |-> FixedRange, randomizeTimeout |-> FixedRange],
   [conversion |-> "punycode", psl |-> TRUE, follow |-> 1, timeout |-> 2,
    randomizeFollow |-> [randomize |-> TRUE, min |-> 0, max |-> 1],
    randomizeTimeout |-> [randomize |-> TRUE, min |-> 3, max |-> 3]]}
ReplyLine(kind, key, value) == [kind |-> kind, key |-> key, value |-> value]
WhoisReplies ==
  {[status |-> "unavailable",
    lines |-> <<ReplyLine("tabbed", "domainName", "shop"), ReplyLine("open", "registrar", ""),
                ReplyLine("bare", "", "one"), ReplyLine("pair", "registrar", "two"),
                ReplyLine("open", "expires", "")>>],
   [status |-> "unavailable",
    lines |-> <<ReplyLine("tight", "domainName", "shop"), ReplyLine("pair", "created", "may")>>],
   [status |-> "available", lines |-> <<>>],
   [status |-> "error:ratelimiting", lines |-> <<ReplyLine("bare", "", "slow down")>>]}

-----------------------------------------------------------------------------

pageVars == <<singleVars, inputVars, exportVars>>

desktopVars ==
  <<part, rbacVars, monitorVars, requestVars, keyVars, expiryVars, snapshots, answers,
    profileVars, availabilityVars, sqlVars, blocklists, cliVars,
    listVars, pageVars>>

Parts ==
  {"rbac", "monitor", "requests", "keys", "expiry", "snapshots", "fusion",
   "profiles", "availability", "sql", "threats", "cli",
   "names", "single", "input", "export"}

\* Only the part itself starts from each of its initial states.
DesktopInit ==
  /\ part \in Parts
  /\ part = "availability" \/ reply = CHOOSE r \in Reply : TRUE
  /\ CliInit
  /\ part = "cli" \/ (files.settings.kind = "absent" /\ files.cache = "absent")
  /\ part = "names" \/ lines = CHOOSE l \in Opening : TRUE
  /\ RbacInit
  /\ MonitorInit
  /\ RequestInit
  /\ KeyInit
  /\ ExpiryInit
  /\ SnapshotsInit
  /\ FusionInit
  /\ ProfilesInit
  /\ AvailabilityInit
  /\ SqlInit
  /\ ThreatsInit
  /\ ListInit
  /\ SingleInit
  /\ part = "single" \/ (lookupSettings = CHOOSE l \in LookupSetting : TRUE)
  /\ part = "single" \/ (box = CHOOSE b \in LookupName : TRUE)
  /\ InputInit
  /\ ExportInit

Of(name, others) == part = name /\ UNCHANGED <<part, others>>

Access ==
  /\ Of("rbac",
        <<monitorVars, requestVars, keyVars, expiryVars, snapshots, answers, profileVars,
          availabilityVars, sqlVars, blocklists, cliVars, listVars,
          pageVars>>)
  /\ RbacNext

Monitoring ==
  /\ Of("monitor",
        <<rbacVars, requestVars, keyVars, expiryVars, snapshots, answers, profileVars,
          availabilityVars, sqlVars, blocklists, cliVars, listVars,
          pageVars>>)
  /\ MonitorNext

Requests ==
  /\ Of("requests",
        <<rbacVars, monitorVars, keyVars, expiryVars, snapshots, answers, profileVars,
          availabilityVars, sqlVars, blocklists, cliVars, listVars,
          pageVars>>)
  /\ RequestNext

KeyBindings ==
  /\ Of("keys",
        <<rbacVars, monitorVars, requestVars, expiryVars, snapshots, answers, profileVars,
          availabilityVars, sqlVars, blocklists, cliVars, listVars,
          pageVars>>)
  /\ KeyNext

ExpiryList ==
  /\ Of("expiry",
        <<rbacVars, monitorVars, requestVars, keyVars, snapshots, answers, profileVars,
          availabilityVars, sqlVars, blocklists, cliVars, listVars,
          pageVars>>)
  /\ ExpiryNext

SnapshotRows ==
  /\ Of("snapshots",
        <<rbacVars, monitorVars, requestVars, keyVars, expiryVars, answers, profileVars,
          availabilityVars, sqlVars, blocklists, cliVars, listVars,
          pageVars>>)
  /\ SnapshotsNext

Fusing ==
  /\ Of("fusion",
        <<rbacVars, monitorVars, requestVars, keyVars, expiryVars, snapshots, profileVars,
          availabilityVars, sqlVars, blocklists, cliVars, listVars,
          pageVars>>)
  /\ FusionNext

ProfileFiles ==
  /\ Of("profiles",
        <<rbacVars, monitorVars, requestVars, keyVars, expiryVars, snapshots, answers,
          availabilityVars, sqlVars, blocklists, cliVars, listVars,
          pageVars>>)
  /\ ProfilesNext

Verdicts ==
  /\ Of("availability",
        <<rbacVars, monitorVars, requestVars, keyVars, expiryVars, snapshots, answers,
          profileVars, sqlVars, blocklists, cliVars, listVars,
          pageVars>>)
  /\ AvailabilityNext

SqlBackend ==
  /\ Of("sql",
        <<rbacVars, monitorVars, requestVars, keyVars, expiryVars, snapshots, answers,
          profileVars, availabilityVars, blocklists, cliVars,
          listVars,
          pageVars>>)
  /\ SqlNext

Blocklists ==
  /\ Of("threats",
        <<rbacVars, monitorVars, requestVars, keyVars, expiryVars, snapshots, answers,
          profileVars, availabilityVars, sqlVars, cliVars, listVars,
          pageVars>>)
  /\ ThreatsNext

Cli ==
  /\ Of("cli",
        <<rbacVars, monitorVars, requestVars, keyVars, expiryVars, snapshots, answers,
          profileVars, availabilityVars, sqlVars, blocklists,
          listVars,
          pageVars>>)
  /\ CliNext

Names ==
  /\ Of("names",
        <<rbacVars, monitorVars, requestVars, keyVars, expiryVars, snapshots, answers,
          profileVars, availabilityVars, sqlVars, blocklists,
          cliVars,
          pageVars>>)
  /\ ListNext

SinglePage ==
  /\ Of("single",
        <<rbacVars, monitorVars, requestVars, keyVars, expiryVars, snapshots, answers, profileVars,
          availabilityVars, sqlVars, blocklists, cliVars, listVars,
          inputVars, exportVars>>)
  /\ SingleNext

InputForms ==
  /\ Of("input",
        <<rbacVars, monitorVars, requestVars, keyVars, expiryVars, snapshots, answers, profileVars,
          availabilityVars, sqlVars, blocklists, cliVars, listVars,
          singleVars, exportVars>>)
  /\ InputNext

ExportForm ==
  /\ Of("export",
        <<rbacVars, monitorVars, requestVars, keyVars, expiryVars, snapshots, answers, profileVars,
          availabilityVars, sqlVars, blocklists, cliVars, listVars,
          singleVars, inputVars>>)
  /\ ExportNext

DesktopNext ==
  \/ Access
  \/ Monitoring
  \/ Requests
  \/ KeyBindings
  \/ ExpiryList
  \/ SnapshotRows
  \/ Fusing
  \/ ProfileFiles
  \/ Verdicts
  \/ SqlBackend
  \/ Blocklists
  \/ Cli
  \/ Names
  \/ SinglePage
  \/ InputForms
  \/ ExportForm

DesktopSpec == DesktopInit /\ [][DesktopNext]_desktopVars
=============================================================================
