SPECIFICATION Spec
CONSTANTS
    small = small
    large = large
    NoBlob = NoBlob
    Intakes = {1}
    Contents = {small}
    SizeOf <- Sizes
    Concurrency = 2
    MaxAttempts = 3
    Faults = {"slow"}
    MaxRestarts = 0
INVARIANTS
    NoSecondDraft
CHECK_DEADLOCK FALSE
