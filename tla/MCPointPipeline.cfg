SPECIFICATION Spec
CONSTANTS
    WordBits = 16
    Limits <- MCLimits
    WideKVs = 3
    EnableMixedArrayField = FALSE
    EnableDictField = TRUE
    Units <- MCUnits
    Inputs <- MCInputs
    DecodeOptions <- MCDecodeOptions
    Encoders <- MCEncoders
    MaxPoints = 2
    Pooled = FALSE
    Now = 50
INVARIANTS
    PointsMade
    EncodedInOrder
    ValuesKept
    PayloadsRead
CHECK_DEADLOCK FALSE
