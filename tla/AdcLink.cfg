SPECIFICATION Spec
CONSTANTS
    Sets <- MCSets
    Channels = 1
    Attempts = {1, 3}
    ReadRegs <- MCReadRegs
    F_CPU = 92
    FLOAT_INTS = 32
    Powers <- MCPowers
    MaxInside = 1
    MaxFailed = 1
INVARIANTS TypeOK Programmed OthersKept TickFollowsRate ReadsAligned
PROPERTIES SwitchAdvances SwitchEnds
