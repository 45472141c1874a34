SPECIFICATION SuiteSpec
CONSTANTS
    MaxRequests = 2
    Chain <- Revisions
    MaxBoots = 3
    b1 = b1
    b2 = b2
    Batches = {b1, b2}
    ScopeOf <- Asked
    MaxFaults = 1
    NoBatch = NoBatch
    NoSlot = NoSlot
    Callers = {c1, c2}
    Replies <- ModelTexts
    Usages <- Envelopes
    Bill = 6
    MaxAttempts = 2
    MaxClicks = 1
CHECK_DEADLOCK FALSE
SYMMETRY Alike
INVARIANTS
    MigrationsSafe
    BatchSafe
    ClientSafe
    SettingsSafe
PROPERTIES
    CascadeSafe
