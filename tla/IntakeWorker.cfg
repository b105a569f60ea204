SPECIFICATION FairSpec
CONSTANTS
    small = small
    large = large
    NoBlob = NoBlob
    Intakes = {1, 2}
    Contents = {small, large}
    SizeOf <- Sizes
    Concurrency = 2
    MaxAttempts = 1
    Faults = {"throws", "slow", "after_draft"}
    MaxRestarts = 1
INVARIANTS
    OneOwner
    OneDraftPerIntake
    OwnerInv
PROPERTIES
    DraftedIsFinal
    IntakeSettles
CHECK_DEADLOCK FALSE
