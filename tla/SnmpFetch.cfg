SPECIFICATION FairSpec
CONSTANTS
    Scalars <- MCScalars
    ColumnOrder <- MCColumns
    LastOID <- MCLast
    Instances <- MCInstances
    Undecodable = {21}
    Polled <- MCPolled
    BatchSize = 3
    Repetitions = 2
    MaxRows = 2
    GrowAfter = 2
    MaxLosses = 1
    RogueOIDs = {1, 11, 12, 13, 21}
    GarbledLength = 2
CHECK_DEADLOCK FALSE
INVARIANTS
    TypeOK
    WalkComplete
    ScalarsAccounted
    TruncationIsFinal
    RecoversFromRejection
PROPERTIES
    FetchReturns
