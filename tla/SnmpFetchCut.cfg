SPECIFICATION Spec
CONSTANTS
    Scalars <- MCScalars
    ColumnOrder <- MCColumns
    LastOID <- MCLast
    Instances <- MCInstances
    Undecodable = {21}
    Polled <- MCCuttingPolled
    BatchSize = 3
    Repetitions = 2
    MaxRows = 2
    GrowAfter = 2
    MaxLosses = 0
    RogueOIDs = {}
    GarbledLength = 0
CHECK_DEADLOCK FALSE
INVARIANTS
    UnmentionedHaveEnded
