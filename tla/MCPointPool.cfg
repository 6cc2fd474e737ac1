SPECIFICATION Spec
CONSTANTS
    p1 = p1
    p2 = p2
    Goroutines = {p1, p2}
    Keys = {"", "a", "b"}
    Values = {"x", "y", "1", "2", "nil"}
    Inputs <- MCInputs
    Kinds = {"S", "U", "I", "A"}
    Capacity = 1
    MaxMalloc = 4
    MaxPoints = 2
SYMMETRY Symmetry
INVARIANTS
    NoAlias
    FieldsIntact
CHECK_DEADLOCK FALSE
