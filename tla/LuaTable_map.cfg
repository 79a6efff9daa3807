CONSTANTS
    one = one
    name = name
    p = p
    Integer = {0, 1, 2, 3, 4}
    Floats <- MCFloats
    Strings <- MCStrings
    Pointers <- MCPointers
    Values = {v}
    Referred = {v, w}
    Nil = nil
    MaxInteger = 4
SPECIFICATION Spec
INVARIANT Inv
PROPERTY ImplementsMap
CHECK_DEADLOCK FALSE
