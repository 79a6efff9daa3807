CONSTANTS
    Tables = {t1, t2}
    Keys <- MCKeys
    Scalars <- MCScalars
    Numerals <- MCNumerals
    MaxDepth = 2
    ArgBits = 1
    MaxOps = 4
SPECIFICATION Spec
SYMMETRY Symmetric
INVARIANTS PackFailsOnlyForTypeOrDepth IInv
CHECK_DEADLOCK FALSE
