\* Safety only: requests are interchangeable, and no liveness is checked under
\* this symmetry. Every part stops when its bounds are used up.
SPECIFICATION Spec
CONSTANTS
    None = None  Nil = None  Nobody = None
    h1 = h1 h2 = h2
    p1 = p1 p2 = p2
    Node <- Chain  AtOrAbove <- ChainAtOrAbove
    Channel = {"general", "office"}  Bound <- Office
    User <- Citizen  Owner = "sovereign"  Seat <- Seats
    Process <- Processes  Home <- Homes  Here = p1  Message = {"m"}
    MaxMoves = 1  MaxLoads = 1  MaxFaults = 1
    Req <- Requests  Wallet <- Money  AssetOf <- Currency  InitBal <- Opening
    Amounts = {1, 3}  Rates <- Prices  MaxSwaps = 3  MaxEdits = 2  MaxBreaks = 1
    Handler <- Requests  Symbol <- Ticker  Default = "KRN"  Person = {"ann"}  Root = {"crown"}
    Drafts <- SomeDrafts  Patches <- SomePatches  Openings <- Registries  MaxOps = 4  Absent = None
    Reader = {"ann", "bea"}  Job <- Requests  MaxDays = 2  MaxFailures = 1
    Request <- Requests  Handle = {"ada", "bob"}  Slug = {"agora", "polis"}  MaxTokens = 4
    Asker = {"ann", "bea"}  Account = {"phone", "tablet"}  Link = {"l1", "l2"}
    Update <- Requests  NoRow = None  MaxDeaths = 1
    Admin <- Requests  Scalar = {"uiLocale"}  Rule = {"allowedConfigKeys", "nodeWeights"}
    InForm = {"uiLocale", "allowedConfigKeys"}  Value <- Contents  Unset = "none"
    AsShown <- Shows  MaxCalls = 4
    NodeId <- Tree  Lobby = "lobby"  NoParent = None  Existing = {"lobby", "n1"}  Grants <- TreeGrants
    Editor <- Requests  Permission <- Keys  Domain <- DomainOf  All = "*"  Wildcard <- WildcardOf
    Place <- Places  Hall = "lobby"  Nowhere = None  Member = {"ann"}  Standing = {"office"}
    Task <- Tasks  Cli = {"cli"}  Keep = 1  MaxBackups = 2  MaxChanges = 2  MaxOutages = 1  MaxEvents = 2
    Viewer = "me"  NoOne = "noone"  Lineage <- Rooms  SeatedAt <- Members  Histories <- Logs
    Slots = {6, 7}  Events <- Heard  NewsAt = 6  Limit = 1  Expiries = {3}  MaxDrops = 1
SYMMETRY Interchangeable
INVARIANTS
    CyclesNeedOverlap WalksMeetClosure
    ShownOnce OnlyReadersSee 
    SwapsExplainBalances OverdraftBounded
    UniqueButForRaces OneAccountPerLink
    NewestBackupsRestore OneMailPerPeriod RowMeansMail
    OneLiveToken EditsSurvive FeedFollowsScope
PROPERTIES BlockadeHolds
CHECK_DEADLOCK FALSE
