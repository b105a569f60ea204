SPECIFICATION FairSpec
CONSTANTS
    NoRef = NoRef
    Absent = Absent
    Tombstone = Tombstone
    r = r
    a = a
    b = b
    c = c
    Drafts = {1, 2, 3}
    Docs = {a, b, c}
    Topics = {"t"}
    RefOf <- ApartRefOf
    DocOf <- TrioDocOf
    SupersedesOf <- TrioSupersedesOf
    TopicsOf <- SameTags
    ForceChoices = {FALSE}
    Faults = {"reorders", "loses_tombstones", "fails", "gives_up"}
    PageSize = 1
    MaxRuns = 1
PROPERTIES
    BuildEnds
CHECK_DEADLOCK FALSE
