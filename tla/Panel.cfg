SPECIFICATION PanelSpec
CONSTANTS
    NoKey = NoKey
    Nobody = Nobody
    ActionIds = {1, 2, 3}
    Keys = {build_kb, create_kb}
    Spawned = {build_kb}
    ActionFaults = {"spawn", "dies", "survives", "reuse"}
    MaxRestarts = 2
    Callers = {c1, c2, c3}
    Threshold = 2
    Base = 2
    Longest = 8
    Cap = 4
    Models = {m, n}
    NoModel = NoModel
    MaxProjects = 2
    MaxReleases = 2
INVARIANTS
    PanelInv
    OneWorkerPerKey
    NothingHangs
    OneProbeAtATime
    OneProjectPerBase
    RecordedIsSo
PROPERTIES
    ImplementsTable
    ActionEnds
    BackoffDoubles
    NeverStuck
    JobsRespectTheRegistry
    ProvisioningEnds
CHECK_DEADLOCK FALSE
