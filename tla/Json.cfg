SPECIFICATION Spec
CONSTANTS
    r1 = r1
    r2 = r2
    Readers <- MCReaders
    Keys <- MCKeys
    Scalars <- MCScalars
    Vectors <- MCVectors
    Plans <- MCPlans
    MaxOps = 2
    maxInt = 31
    maxLargestInt = 127
    maxLargestUInt = 255
    rightMargin_ = 30
    stackLimit_g = 5
INVARIANTS SentIsReceived LimitIsPerDocument CutIsRefused
PROPERTIES FieldsAreIndependent
CHECK_DEADLOCK FALSE
