CONSTANTS
    MaxRegs = 30
    MaxIndexRK = 2
    FieldsPerFlush = 2
    MaxVars = 20
    StackSize = 60
    Themes <- MCThemes
    Instructions = 100
    Steps = 20
    Characters <- MCCharacters
    Reserved <- MCReserved
    Order <- MCOrder
    Classes <- MCClasses
    MaxCCalls = 20
    MaxCaptures = 2
    BOM <- MCBOM
    Signature <- MCSignature
    MaxByte = 3
    NB = 2
    SizeOf <- MCSizeOf
    MaxIntSize = 8
    MaxAlign = 4
    MaxSize = 14
    RegistryIndex <- MCRegistryIndex
    BufferSize = 2
    StackLimit = 20
    ErrorStackSize = 28
    ExtraStack = 2
    MinStack = 3
    MaxInteger = 127
    MaxIndex = 7
    IntMax = 6
    MaxStack = 5
    RanLimit = 4
    Imbalance = 1
    Subjects <- MCSubjects
    CharCodes <- MCCodes
SPECIFICATION Spec
PROPERTIES ProgramsKeepTheirMeaning AcceptsTheLegal CodeIsSound
PROPERTIES PatternsMatch TextsAreRead ReadsBack FilesAreLoaded
PROPERTIES ListsAreKept Utf8IsTheInverse
CHECK_DEADLOCK FALSE
