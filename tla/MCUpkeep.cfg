SPECIFICATION SuiteSpec
CONSTANTS
    Schedules = {all, single}
    OnDisk = {all}
    Pulls = {p1, p2}
    Manual = {m1}
    Uploads = {}
    NoId = NoId
    all = all
    single = single
    Sources <- Fan
    MaxEdits = 1
    NoRow = NoRow
    o1 = o1
    o2 = o2
    Ccis = {o1, o2}
    Keys = {1, 2}
    KeysOf <- Scopes
    EmassIds = {e1}
    NoEmassId = NoEmassId
    Picked = {5}
    Seeds = {4}
    OwnText = OwnText
    NoPoam = NoPoam
    MaxId = 2
    MaxPoamEdits = 2
    Clouds = {"aws", "azure"}
    CrmFiles = {"one", "two"}
    Contents <- Said
    Files <- Lines
    MaxCrm = 2
    MaxSteps = 5
    Nothing = Nothing
    MaxApps = 2
CHECK_DEADLOCK FALSE
INVARIANTS
    TypeOK
    SchedulerSafe
    PoamsSafe
    ShellSafe
PROPERTIES
    UpkeepGoesOn
    OverlaySafe
