SPECIFICATION SuiteSpec
CONSTANTS
    Workbooks = {w}
    Objectives = {o1}
    Artifacts = {e1}
    Home <- OneHome
    Batches = {b1}
    Singles = {s1}
    Book <- OneBook
    MaxEpoch = 2
    NoRow = NoRow
    Blank = Blank
    NoVerdict = NoVerdict
    Applies = {1, 2, 3}
    Paths = {1, 2}
    NoPath = NoPath
    Watched <- Views
    Clicks = {1, 2}
    Repeatable = {"useUpdatePoam", "useTestEmass"}
    Handled = {"useClearEvidence", "useDeleteEvidence"}
    MaxAsks = 2
    Levels = {1, 2}
    MaxTouches = 2
    Nobody = Nobody
CHECK_DEADLOCK FALSE
INVARIANTS
    TypeOK
    StaleTrustExplained
    ExportsOnlyTrusted
    OverrideIsNotReplayed
    CopySafe
    UiSafe
    AdvisorSafe
