SPECIFICATION ForeverSpec
CONSTANTS
    Devices = {1, 2}
    Workers = {w1}
    NoDevice = NoDevice
    Interval = 2
    Tick = 1
    Hash <- MCHash
    Word = 16
    MaxTime = 4
CHECK_DEADLOCK FALSE
PROPERTIES
    OfferedForEver
