SPECIFICATION MCSpec
CONSTANTS
    IDs <- MCIDs
    Addresses = {"h1", "h2"}
    Objects = {"oA", "oB", "oX"}
    Profiles = {"pA", "pB"}
    AllowedFailures = 1
    Workers = {w1}
    StaticIDs = {1}
    AddressOf <- MCAddressOf
    ConfigProfile <- MCConfigProfile
    ProfileOf <- MCProfileOf
    Broken = {"pB"}
    Serves <- MCServes
    Secret <- MCSecret
    CredentialLists <- OneList
    Rediscover = TRUE
    Lossy = TRUE
    MayReject = TRUE
    MaxStarts = 2
    MaxCrashes = 1
    MaxFlips = 0
CHECK_DEADLOCK FALSE
INVARIANTS
    OneIdentityPerHost
    StaticsAreConfigured
    ScanSurvivesCrash
    ShutdownSavesFinalSet
PROPERTIES
    StalePollDoesNotDrop
    PollNeverRegisters
