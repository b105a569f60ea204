SPECIFICATION Spec
CONSTANTS
    NoRef = NoRef
    Absent = Absent
    Tombstone = Tombstone
    r = r
    a = a
    b = b
    c = c
    Drafts = {1, 2}
    Docs = {a, b}
    Topics = {"t"}
    RefOf <- VersionsRefOf
    DocOf <- PairDocOf
    SupersedesOf <- NoSupersedes
    TopicsOf <- VersionsTopicsOf
    ForceChoices = {TRUE, FALSE}
    Faults = {"gives_up", "purges", "loses_tombstones"}
    PageSize = 2
    MaxRuns = 3
INVARIANTS
    CleanUnlessReloaded
    ForcedBuildLoads
    ConfirmedWasDelivered
PROPERTIES
    WithdrawnByBuildWasReplaced
CHECK_DEADLOCK FALSE
