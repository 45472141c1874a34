SPECIFICATION WalkSpec
CONSTANTS
    Shelf <- Yielded
    Unsupported = {"tool"}
    Pictures = {"chart"}
    FirstText <- Said
    NewText <- Says2
    BatchSize = 2
    RowCap = 2
    MaxId = 6
    MaxMishaps = 2
CHECK_DEADLOCK FALSE
INVARIANT RetryReadsTheRest
