SPECIFICATION SuiteSpec
CONSTANTS
    Workbooks = {w1, w2}
    Files = {plan, scan, memo}
    Objectives = {o1}
    plan = plan
    scan = scan
    memo = memo
    num = num
    DocNumber <- OneNumber
    TitleTokens <- Titles
    Pinned = {}
    Cap = 1
    MaxIngests = 3
    NoNumber = NoNumber
    NoDoc = NoDoc
    Clouds = {"AWS", "Azure"}
    Rows <- MCRows
    Overlays <- MCOverlays
    Sources <- MCSources
    Proposals <- MCProposals
    MaxOverlays = 2
    MaxEdits = 1
    MaxCalls = 2
    MaxRetries = 1
CHECK_DEADLOCK FALSE
SYMMETRY Symmetry
INVARIANTS
    TypeOK
    ChainsAreShort
    RevisionIsLive
    TrustedTagsUnchanged
    VerdictSafe
PROPERTY RetentionIsNeutral
