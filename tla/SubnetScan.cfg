SPECIFICATION FairSpec
CONSTANTS
    Addresses <- MCAddresses
    Ignored = {9}
    Credentials = 2
    Workers = {w1, w2}
    MayCancel = TRUE
    NoAddress = NoAddress
    Width4 = 3
    Width6 = 5
    Word = 4
    Limits = {1, 2, 5, 8}
CHECK_DEADLOCK FALSE
INVARIANTS
    TypeOK
    ScanIsComplete
    ScanIsSound
    NoSendOnClosed
    RangeIsExact
PROPERTIES
    ScanReturns
