CONSTANTS
    Coroutines = {"c", "d"}
    Functions <- MCFunctions
    Bodies <- MCBodies
    TailCalled <- MCTailCalled
    Operands = {"notlt", "concat2"}
    Truths = {"true", "false"}
    MaxCCalls = 6
    ExtraCCalls = 2
    MaxFrames = 2
SPECIFICATION Spec
INVARIANTS CountersMatch ErrorsAreCaught SuspendedCanContinue
PROPERTIES ImplementsCoroutines
