SPECIFICATION ProvisioningSpec
CONSTANTS
    Models = {m, n}
    NoModel = NoModel
    MaxProjects = 2
    MaxReleases = 2
PROPERTIES
    LostProjectComesBack
CHECK_DEADLOCK FALSE
