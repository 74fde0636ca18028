SPECIFICATION Spec
CONSTANTS
    Metrics <- MCMetrics
    SystemMetrics <- MCSystem
    UseSystem = TRUE
    PlainSymbols = {"interfaces"}
    Devices <- MCDevices
    Fixed <- MCFixed
    Capacity = 2
    Traffic = {0, 2}
    SpeedLimit = 1
    Wrap = 8
    MaxLag = 1
    MaxBoots = 1
INVARIANTS
    BestSymbolWins
    RowsKeptApart
    ReadingsAreTrue
    SpikeIsBounded
    UtilisationIsExact
PROPERTIES
    StartsAreStable
