SPECIFICATION FairSpec
CONSTANTS
    Devices = {1, 2}
    Workers = {w1, w2}
    NoDevice = NoDevice
    Interval = 3
    Tick = 1
    Hash <- MCHash
    Word = 16
    MaxTime = 5
CHECK_DEADLOCK FALSE
INVARIANTS
    TypeOK
    OnePollerPerDevice
    InFlightExact
PROPERTIES
    PhaseKept
    OnePollPerSlot
    Terminates
    ImplementsPollExclusion
