SPECIFICATION LiveSpec
CONSTANTS
    Addr = {a, b}
    TxAddr = a
    RxAddr0 = b
    Freq = {f, g}
    DefaultFreq = f
    FifoDepth = 2
    MaxSends = 3
    MaxCmds = 1
    MaxFaults = 2
INVARIANTS QuietWhileLoading 
PROPERTIES   SendEnds
CHECK_DEADLOCK FALSE
