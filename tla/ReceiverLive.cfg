SPECIFICATION FairSpec
CONSTANTS
    IDs = {3}
    Addresses = {"h2"}
    Objects = {"oA", "oB"}
    Profiles = {"pA", "pB"}
    AllowedFailures = 1
    Workers = {w1}
    StaticIDs = {}
    AddressOf <- MCAddressOf
    ConfigProfile <- MCConfigProfile
    ProfileOf <- MCProfileOf
    Broken = {"pB"}
    Serves <- MCServes
    Secret <- MCSecret
    CredentialLists <- ManyLists
    Rediscover = TRUE
    Lossy = FALSE
    MayReject = FALSE
    MaxStarts = 2
    MaxCrashes = 0
    MaxFlips = 1
CHECK_DEADLOCK FALSE
PROPERTIES
    ShutdownReturns
    DeadDevicesAgeOut
    LiveDevicesMonitored
