CONSTANTS
    Key = {k1, k2}
    Value = {"x", "y"}
    NoValue = NoValue
    KvLen <- UniformLen
    TailFF <- NoTail
    SectorNum = 3
    SecSize = 9
    HdrLen = 2
    Threshold = 2
    DefaultKey = k1
    DefaultValue = "x"
    MaxOps = 4
    MaxCrash = 1
SPECIFICATION LiveSpec
INVARIANTS EmptyReserved  
  
CHECK_DEADLOCK FALSE
