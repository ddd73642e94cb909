SPECIFICATION LiveSpec
CONSTANTS
    Size = 4
    Word = 64
    MaxLen = 5
    MaxBytes = 9
CHECK_DEADLOCK FALSE
INVARIANT EqualMeansEmpty
PROPERTIES ImplementsQueue BytesArrive WriteEnds
