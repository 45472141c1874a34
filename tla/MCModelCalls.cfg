SPECIFICATION SuiteSpec
CONSTANTS
    Workers = {t1, t2, t3}
    Caps = {0, 1, 2}
    MaxAttempts = 2
    MaxSleep = 2
    N = 3
    PoolSize = 2
    CostCap = 1
    TimeCap = TRUE
    Keyword <- Keywords
    Sweeps = {w1, w2}
    Decisions = {d1, d2, d3, dx}
    Unparseable = {dx}
    Included = {d1, d3}
    Updaters = {u1, u2}
    MinFit = 2
    CapSweep = 1
    Judged = 2
    Controls = {"ac", "au"}
    Ccis = {"ac.1", "ac.2", "au.1"}
    CciOf <- OfControl
    Artifacts <- Files
    CatalogSize = 2
    TopK = 1
CHECK_DEADLOCK FALSE
INVARIANTS
    TypeOK
    SlotsAddUp
    HerdIsHeld
    JudgeSafe
    RunsSafe
PROPERTIES
    CallsEnd
    TaggerSafe
