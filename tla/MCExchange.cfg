SPECIFICATION Spec
CONSTANTS
    WordBits = 16
    Messages <- MCMessages
    Unknowns <- MCUnknowns
    MaxSent = 2
INVARIANTS
    SizeIsLength
    ReadsAll
    CutInventsNothing
    EqualTellsApart
CHECK_DEADLOCK FALSE
