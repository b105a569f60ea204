SPECIFICATION Spec
CONSTANTS
    NoRef = NoRef
    Absent = Absent
    Tombstone = Tombstone
    r = r
    a = a
    b = b
    c = c
    Drafts = {1, 2, 3}
    Docs = {a, b, c}
    Topics = {}
    RefOf <- TrioRefOf
    DocOf <- TrioDocOf
    SupersedesOf <- NoSupersedes
    TopicsOf <- SameTags
    ForceChoices = {FALSE}
    Faults = {}
    PageSize = 1
    MaxRuns = 1
PROPERTIES
    WithdrawnByBuildWasReplaced
CHECK_DEADLOCK FALSE
