SPECIFICATION ServicesSpec
CONSTANTS
    Paths = {1, 2, 3}
    RootOf <- MCRootOf
    Roots = {"vault", "agent"}
    Archived = {1}
    Names = {"pdf tools", "pdf-tools", "notes"}
    Same <- MCSame
    Targets = {e, p}
    GroupIds = {1}
    Moves = 1
    Saves = 1
    Scans = 1
    Fetches = 1
    Pages = {u, v}
    MaxUses = 2
    MaxParallel = 2
    Members = 2
    ToolRounds = 1
    ExtraRounds = 1
    LogBound = 1
    MaxTalk = 6
    Threshold = 4
    KeepRecent = 2
    Shown = 2
    KeepTools = 1
    MaxCalls = 2
    SummaryMax = 1
    Buckets = {"code"}
    Providers = {1, 2}
    Ids = {"glm", "glm-air"}
    Catalogues <- MCCatalogues
    Asks <- MCAsks
    Folds <- MCFolds
    Within <- MCWithin
    Blind <- MCBlind
    MapTo <- MCMapTo
    Configs <- MCConfigs
    Declares <- MCDeclares
    Published <- MCPublished
    Rules <- MCRules
    Shares <- MCShares
    Lookups = {l1, l2}
    TTL = 1
    Timeout = 1
    Changes = 1
    None = None
    Sessions = {s1, s2}
    Talks = {"a", "b"}
    Active = 1
    Hour = 2
    SeatMax = 1
    Pairs = {k1, k2}
    NoticeTTL = 2
    NoticeMax = 1
    Passwords = {"old", "new"}
    AdminTTL = 1
    AdminMax = 1
    MaxHashes = 2
    LogMax = 3
    LineMax = 2
    FileMax = 6
    Instances = {1, 2, 3}
    Lists <- MCLists
    FreshFor = 1
    UsableFor = 2
    ProbeTotal = 1
    Loads = {0}
    Shifts = 1
SYMMETRY Symmetry
INVARIANTS SearchSettles DraftsExact FirstAnswerStands NoOrphanResults ListingFresh LogBounded PlacedBySight
PROPERTIES  MoveKept LazyLoadHolds TablesCurrent
CHECK_DEADLOCK FALSE
