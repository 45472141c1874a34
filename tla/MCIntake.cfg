SPECIFICATION SuiteSpec
CONSTANTS
    Jobs = {j1, j2}
    Uploads = {u1, u2}
    NoId = NoId
    Slots = {test, sweep}
    Test = test
    Flows = {f1, f2}
    NoFlow = none
    Folders = {"root", "sub", "deep"}
    Root = "root"
    Listing <- Pages
    Files = {"f1", "f2", "f3", "f4"}
    Matching = {"f1", "f3"}
    Depth = 2
    MaxMatches = 2
    MaxAttempts = 3
    FetchCap = 2
    Queries = {"q"}
    Connectors = {"jira", "snow", "gitlab", "archer", "archerBare", "confluence", "splunk", "tenable", "emass", "folder"}
    Content <- Shelves
    Fresh = "i0"
    PageSize = 2
    ItemCap = 3
    Retries = 2
    Shelf <- Yielded
    Unsupported = {"tool"}
    Pictures = {"chart"}
    FirstText <- Said
    NewText <- Says2
    BatchSize = 2
    RowCap = 2
    MaxId = 6
    MaxMishaps = 2
CHECK_DEADLOCK FALSE
INVARIANTS
    TypeOK
    WritersExclude
    NoStaleActive
    SignInSafe
    GraphReadsSafe
    PullSafe
    WalkSafe
PROPERTIES
    ImplementsSerial
    IntakeSettles
