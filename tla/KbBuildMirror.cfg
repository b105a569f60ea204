SPECIFICATION Spec
CONSTANTS
    NoRef = NoRef
    Absent = Absent
    Tombstone = Tombstone
    r = r
    a = a
    b = b
    c = c
    Drafts = {1, 2, 3}
    Docs = {a, b, c}
    Topics = {}
    RefOf <- TrioRefOf
    DocOf <- TrioDocOf
    SupersedesOf <- TrioSupersedesOf
    TopicsOf <- SameTags
    ForceChoices = {FALSE}
    Faults = {"dies"}
    PageSize = 2
    MaxRuns = 2
INVARIANTS
    MirrorInv
    CleanMeansMirrorMatches
    NothingUntracked
CHECK_DEADLOCK FALSE
