SPECIFICATION Spec
CONSTANTS
    Workbooks = {w}
    Objectives = {o1}
    Artifacts = {a1}
    Home <- OneHome
    Batches = {b1}
    Singles = {}
    Book <- OneBook
    MaxEpoch = 0
    NoRow = NoRow
    Blank = Blank
    NoVerdict = NoVerdict
CHECK_DEADLOCK FALSE
PROPERTY WrittenOnCurrentEvidence
