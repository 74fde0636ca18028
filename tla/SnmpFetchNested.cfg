SPECIFICATION Spec
CONSTANTS
    Scalars <- MCScalars
    ColumnOrder <- MCNestedColumns
    LastOID <- MCNestedLast
    Instances <- MCNestedInstances
    Undecodable = {}
    Polled <- MCNestedPolled
    BatchSize = 3
    Repetitions = 2
    MaxRows = 2
    GrowAfter = 2
    MaxLosses = 0
    RogueOIDs = {}
    GarbledLength = 0
CHECK_DEADLOCK FALSE
INVARIANTS
    SubtreeAndBeneath
