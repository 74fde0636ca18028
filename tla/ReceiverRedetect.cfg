SPECIFICATION FairSpec
CONSTANTS
    IDs = {1}
    Addresses = {"h1"}
    Objects = {"oA", "oB", "oX"}
    Profiles = {"pA", "pB"}
    AllowedFailures = 1
    Workers = {w1}
    StaticIDs = {1}
    AddressOf <- MCAddressOf
    ConfigProfile <- MCConfigProfile
    ProfileOf <- MCProfileOf
    Broken = {}
    Serves <- MCServes
    Secret <- MCSecret
    CredentialLists <- OneList
    Rediscover = TRUE
    Lossy = FALSE
    MayReject = FALSE
    MaxStarts = 1
    MaxCrashes = 0
    MaxFlips = 1
CHECK_DEADLOCK FALSE
PROPERTIES
    ReplacedHardwareRedetected
