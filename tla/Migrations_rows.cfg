INIT MigrateInit
NEXT MigrateNext
CONSTANTS
    Chain <- Revisions
    MaxBoots = 1
CHECK_DEADLOCK FALSE
INVARIANTS
    RowsAreKept
