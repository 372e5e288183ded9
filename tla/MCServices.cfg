SPECIFICATION ServicesSpec
CONSTANTS
  ann = ann
  ben = ben
  i1 = i1
  i2 = i2
  o1 = o1
  gbp = gbp
  k1 = k1
  r1 = r1
  r2 = r2
  d1 = d1
  w1 = w1
  w2 = w2
  UGX = UGX
  j1 = j1
  j2 = j2
  web = web
  s1 = s1
  t1 = t1
  t2 = t2
  c1 = c1
  c2 = c2
  Currency = {gbp}
  Instance = {i1, i2}
  Operator = {o1}
  LastDay = 3
  MaxDaysPerTick = 2
  ManualDays = {2}
  Scopes <- MCScopes
  ConfigRequest = {r1, r2}
  LastDate = 3
  MaxConfigs = 3
  Reference = {r1}
  Document = {d1}
  Administrator = {ann, ben}
  Opening = 1
  MaxPosting = 1
  RefKey = {k1}
  Clerk = {ann, ben}
  SuperClerk = {ann}
  Limit = {1, 2}
  MaxChanges = 2
  IntegrationEditor = {ann, ben}
  Secret = {c1, c2}
  MaxVersion = 2
  RawPricing <- MCRaw
  Quoted = {1, 2, 3}
  Route <- MCRoute
  Editor = {ann, ben}
  SuperEditor = {}
  MaxFlows = 2
  Accountant = {ann, ben}
  MaxEdits = 2
  Tariff = {t1, t2}
  TariffTables <- MCTables
  TariffAmount = {1, 2, 3}
  AdminUser = {ann, ben}
  AdminSession = {s1}
  MaxFailedLogins = 1
  MaxAdminCalls = 2
  MfaAdmin = {ann, ben}
  MfaChallenge = {c1, c2}
  AttemptLimit = 2
  LastSlot = 2
  MaxSecrets = 2
  LastCase = 2
  WalletId = {w1, w2}
  OwnNumber = w1
  WalletCurrency = {UGX}
  ListOfficer = {ann, ben}
  ListName = {"OFAC", "UNSCR", "MANUAL"}
  OfficialList = {"OFAC", "UNSCR"}
  Sanctioned = {c1, c2}
  MaxListRuns = 3
  JourneyDef = {j1, j2}
  ChannelDef = {web}
  ConfigAdmin = {ann, ben}
  LastCountry = 1
  MaxVersions = 3
  GraphNode = {"s", "x", "y", "e"}
  EdgeOutcome = {"SUCCESS", "FAILURE"}
  CandidateGraph <- MCGraph
  NodeType <- MCNodeType
  JourneyEdge <- MCEdge
  EntryNode = "start"
  MaxInstances = 2
  MaxHandoffs = 1
  MaxSends = 1
  OtpAttempts = 2
  RuleCode = {c1, c2}
  RuleAdmin = {ann, ben}
  PolicyScope <- MCPolicyScope
  CreditBudget <- MCBudget
  LastBinding = 2
  TermsAdmin = {ann, ben}
  FirstMaker = ann
  Terms = {t1, t2}
  Incomplete = {t2}
  Lender = {w1}
  SharedTerms = {c1, c2}
  MaxRevisions = 4
  CreditPolicy <- MCPolicy
  CreditRequest <- MCRequest
  SourceValue = {2}
  CreditOfficer = {ann, ben}
  MaxConsoleSessions = 2
  LastSecret = 3
  ConsoleScopes <- MCConsole
  ConsoleRecord = {c1, c2}
  MaxConsoleCalls = 2
  StudioKeyword = {"PMNT", "CASH"}
  StudioRule <- MCTyped
  StudioAmount = {0, 3}
  StudioText <- MCText
  RangeSpan = 2
  WidestRange = 5
  MaxRanges = 3
  MaxStudioFlows = 3
  StudioScopes <- MCStudio
INVARIANTS ServicesTypeOK AccountingSound TreasurySound SecretsKept QuotesSound ActiveFlowReviewed
           AdminsSound ConsoleSound SecondFactorOnce CustomersSound JourneysGoverned CreditSound
           ApprovedHeaderReviewed
PROPERTIES LiveOnlyByApproval DueDaysClose StaleChargesEnd
CHECK_DEADLOCK FALSE
