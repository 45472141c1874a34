SPECIFICATION Spec
CONSTANTS
    Workbooks = {w1, w2}
    Files = {plan}
    Objectives = {o1}
    plan = plan
    scan = scan
    memo = memo
    num = num
    DocNumber <- OneNumber
    TitleTokens <- Titles
    Pinned = {}
    Cap = 1
    MaxIngests = 3
    NoNumber = NoNumber
    NoDoc = NoDoc
INVARIANTS
    ChainsStayHome
