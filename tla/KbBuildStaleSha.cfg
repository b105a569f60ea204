SPECIFICATION Spec
CONSTANTS
    NoRef = NoRef
    Absent = Absent
    Tombstone = Tombstone
    r = r
    a = a
    b = b
    c = c
    Drafts = {1, 2}
    Docs = {a, b}
    Topics = {"t"}
    RefOf <- PairRefOf
    DocOf <- PairDocOf
    SupersedesOf <- NoSupersedes
    TopicsOf <- SameTags
    ForceChoices = {FALSE}
    Faults = {}
    PageSize = 2
    MaxRuns = 3
INVARIANTS
    CleanMeansGraphMatches
CHECK_DEADLOCK FALSE
