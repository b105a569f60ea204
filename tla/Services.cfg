SPECIFICATION ServicesSpec
CONSTANTS
    Drafts = {1, 2, 3}
    Refs = {r}
    NoRef = NoRef
    MaxList = 4
    MaxTime = 2
    MaxLen = 12
    MaxLines = 4
    Shapes = {"blank", "word", "heading", "fence", "prose", "emoji"}
    A = A
    B = B
    Bases = {A, B}
    MaxEntries = 1
    MaxRuns = 2
    MaxEdits = 1
    Questions = {question}
    MaxGaps = 2
    MaxDrafts = 2
    MaxAsked = 3
    Rows = {1, 2, 3}
    Originals = {x}
    NoFile = NoFile
    MaxTries = 1
    FailedDays = 1
    DraftedDays = 1
    RowDays = 2
    MaxAge = 2
    anna = anna
    piotr = piotr
    sid1 = sid1
    sid2 = sid2
    People = {anna, piotr}
    Service = Service
    Anonymized = Anonymized
    Sids = {sid1, sid2}
    NoSession = NoSession
    MaxActiveKeys = 1
    MaxAccounts = 2
    MaxTokens = 3
    MaxRequests = 2
    Ttl = 6
    NegTtl = 1
    Buckets = {b1, b2, b3}
    Limit = 2
    Window = 3
    MaxBuckets = 2
    MaxCost = 3
    RetentionDays = 1
    MonthlyKeepDays = 3
    DaysOfMonth = 3
    LastDay = 5
    RunsOfDay = 1
SYMMETRY Interchangeable
INVARIANTS
    ServicesTypeOK
    LoopsComputeTheRule
    ChunksKeepTheDocument
    ServedAnswersAreCurrent
    OneOpenGapPerQuestion
    NothingAskedIsLost
    PromotedMeansResolved
    NamedFilesExist
    EveryFileIsNamed
    DisabledMeansOut
    OneRefreshAtATime
    CachesForgetInTime
    AllowanceHolds
    EveryMonthKeepsOne
PROPERTIES
    AnAdminStays
CHECK_DEADLOCK FALSE
