SPECIFICATION Spec
CONSTANTS
    Histories <- MCSameSecond
    Workers = {w1, w2}
    MaxFaults = 1
    MaxPasses = 1
    NoRow = NoRow
PROPERTIES
    CanceledIsTerminal
CHECK_DEADLOCK FALSE
