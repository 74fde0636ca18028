SPECIFICATION Spec
CONSTANTS
    IDs <- MCIDs
    Addresses = {"h1", "h2"}
    Objects = {"oA"}
    Profiles = {"pA"}
    AllowedFailures = 0
    Workers = {w1}
    StaticIDs = {1}
    AddressOf <- MCAddressOf
    ConfigProfile <- MCConfigProfile
    ProfileOf <- MCProfileOf
    Broken = {}
    Serves <- MCServes
    Secret <- MCSecret
    CredentialLists <- OneList
    Rediscover = TRUE
    Lossy = FALSE
    MayReject = TRUE
    MaxStarts = 1
    MaxCrashes = 0
    MaxFlips = 0
CHECK_DEADLOCK FALSE
INVARIANTS
    ShutdownKeepsDevices
