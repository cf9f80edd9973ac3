SPECIFICATION DesktopSpec
CONSTANTS
  Thread = {t1, t2}
  Subject = {"alice"}
  RoleName = {"viewer"}
  Perm = {"all"}
  Operation = {"check", "export", "get_role", "get_bindings", "add_role", "remove_role",
               "bind", "unbind", "unbind_role", "import"}
  ImportDoc <- ImportDocs
  MaxLoops = 3
  MaxBeats = 2
  Caller = {c1, c2}
  Key = {"a", "b", "c"}
  MaxEntries = 1
  Ttl = 0
  LastTime = 2
  MergeRows <- MergeFiles
  Word = {"ctrl", "enter"}
  BindAction = {"save"}
  BindContext = {"none", "global", "single_whois", "bulk_whois"}
  MaxAdded = 2
  WatchEntry <- WatchEntries
  Moment <- Moments
  MaxWatched = 2
  MaxWatchRows = 2
  SnapDomain = {"a", "b"}
  SnapKeys <- SnapKeysInOrder
  SnapContent <- SnapContents
  LastCapture = 2
  MaxSnapshots = 3
  Answering = {"rdap", "whois", "feed", "lab"}
  FieldValue = {"Acme", "acme", "other"}
  Lower <- FieldLower
  AnswerTime = {1, 2}
  MaxAnswers = 3
  Profile = {"default", "work"}
  ArchiveName <- ArchiveNames
  MaxLogged = 1
  MaxJobs = 1
  MaxMarks = 2
  DbThread = {"t1", "t2"}
  DbKey = {"a"}
  DbTtl = {0, 1}
  LastHour = 2
  Label <- Labels
  LowerCase <- LabelLower
  Facts <- LabelsFacts
  SuspiciousTld = {"tk"}
  Name <- DomainNames
  ListName = {"urlhaus", "phishtank"}
  WordFile <- WordFiles
  TldList <- TldLists
  Permits = {0, 1, 2}
  ConfigKey = {"a", "a.b"}
  MaxTasks = 3
  MaxCommands = 3
  Text <- Lines
  Rank <- LineRank
  Blank = {" "}
  Rewrite <- Rewritten
  Matching = {"pa"}
  Opening <- Openings
  Options <- ListOptions
  Token <- Tokens
  TokenLength <- TokenLengths
  TokenRank <- TokenRanks
  Variants <- TokenVariants
  Initials <- WordInitials
  CombinatorConfigs <- Combinators
  Generators <- GeneratorConfigs
  Filters <- FilterConfigs
  NotAscii = {}
  Contents <- ImportContents
  BasicNames = {"a.com", "a-.com"}
  StrictNames = {"a.com"}
  LookupName = {"shop", "shop-idn"}
  LookupSetting <- LookupOptions
  Converted <- Conversions
  Registrable <- Suffixed
  WhoisReply <- WhoisReplies
  MaxSearches = 2
  InputText = {"", "one", "two"}
  MaxAwaits = 2
INVARIANTS
  AnswersAtOneMoment
  OneLoopWhileActive
  SettledWithinLimit
  ResolvesMostSpecific
  PhaseAgreesWithDrop
  DiffsReplay
  ArrivalOrderIrrelevant
  HistoryKeepsApart
  SettingsDecideTheirCase
  ListsReachSubdomains
  NamesAddUp
  PagesAnswerWhatIsAsked
PROPERTIES
  ImplementsStore
  CliImplementsPool
CHECK_DEADLOCK FALSE
