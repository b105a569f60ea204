SPECIFICATION RetentionSpec
CONSTANTS
    Rows = {1, 2, 3}
    Originals = {x}
    NoFile = NoFile
    MaxTries = 1
    FailedDays = 1
    DraftedDays = 1
    RowDays = 2
    MaxAge = 2
INVARIANTS
    OriginalsGoInTime
CHECK_DEADLOCK FALSE
