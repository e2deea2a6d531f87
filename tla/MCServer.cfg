SPECIFICATION Spec
CONSTANTS
  Parts = {"health", "auth", "experts", "feedback", "system", "board", "log", "catalog", "intake", "requests", "notes", "listing"}
  Door <- MCDoor
  ApiRequest <- MCApiRequest
  AuthClient = {"a1", "a2"}
  MaxTokenPuts = 2
  MaxAuthBoots = 2
  FileExperts <- MCFileExperts
  Slug <- MCSlug
  RoleWords <- MCRoleWords
  ExpertPatch <- MCExpertPatch
  StoredRow <- MCStoredRow
  MaxWeight = 10
  Editor = {"e1", "e2"}
  MaxEdits = 3
  MaxEditBoots = 1
  FeedbackBody <- MCFeedbackBody
  MaxFeedback = 2
  MaxFeedbackFaults = 1
  FirstAccounts <- MCFirstAccounts
  NewAccount <- MCNewAccount
  AccountPatch <- MCAccountPatch
  Reader = {"page", "loop"}
  ProbeLoop = "loop"
  AccountEditor = {"ed1"}
  StoredCalls <- MCStoredCalls
  HealthTtl = 1
  MaxTick = 1
  MaxAccountEdits = 1
  MaxReports = 2
  Window = 8
  Retention = 9
  Buckets = 3
  FirstPlatforms <- MCFirstPlatforms
  PlatformLists <- MCPlatformLists
  PlatformTest <- MCPlatformTest
  BadTarget = {"bad"}
  StorageTarget = {"sqlite", "memory"}
  StorageTtl = 2
  MaxPlatformSteps = 3
  MaxStorageTick = 3
  ReviewRows <- MCReviewRows
  Today = 12
  WeekDay = 3
  DayLength = 10
  TrendDays = 4
  RecentLimit = 3
  ReviewKind = {"small", "large", "repo"}
  ExpertTask = {"t1", "t2", "t3"}
  LogLine <- MCLogLine
  MaxLog = 3
  MaxPieces = 2
  LogCap = 3
  BufferCap = 2
  Subscribers = {"s1", "s2"}
  CatalogReader = {"c1", "c2"}
  CatalogTtl = 2
  MaxCatalogClock = 5
  MaxCatalogReads = 4
  FirstDisk <- MCFirstDisk
  IntakeLists <- MCIntakeLists
  Runtime <- MCRuntime
  Started <- MCStarted
  GithubSecret = "hub"
  Delivery <- MCDelivery
  Tolerance = 5
  MaxBody = 8
  MaxIntakeSaves = 1
  ReqLists <- MCReqLists
  Accounts <- MCAccounts
  ReviewRequest <- MCReviewRequest
  RequestHeader = {"", "caller"}
  RequestClient = {"r1"}
  LocalHost = {"localhost"}
  RuntimeToken = "server"
  KeyHome <- MCKeyHome
  OldRows <- MCOldRows
  MaxRequests = 2
  MaxReqSaves = 1
  NoteKind = {"text", "command", "report", "system"}
  Author = {"bot", "ann"}
  MaxNotes = 2
  MaxVersions = 2
  MaxContext = 2
  MaxLookupFails = 1
  MaxRotations = 1
  Courses <- MCCourses
  DiffCap = 2
  DefaultPage = 2
  Unreadable = 9
  History <- MCHistory
  ListQuery <- MCListQuery
  NewReview <- MCNewReview
  MaxNewReviews = 2
  PageBits = 4
  PerPageCap = 3
  Recent = 2
INVARIANTS AccessIsSound SettingsAreDurable ReportsAreHonest
PROPERTY NothingRunsBack
CHECK_DEADLOCK FALSE
