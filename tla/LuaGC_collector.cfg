CONSTANTS
    t1 = t1
    t2 = t2
    fn = fn
    co = co
    s1 = s1
    s2 = s2
    Tables = {t1, t2}
    Closures = {fn}
    Coroutines = {co}
    Strings <- MCStrings
    Populations <- MCPopulations
    Finalizable = {t1}
    Weakly = {t1}
    Modes = {"k", "v", "kv"}
    MaxOps = 1
    UpVals = {u}
    Height = 1
    MainThread = main
    Registry = registry
    Proto = proto
    Nil = nil
    Dead = dead
    Scalar = scalar
SPECIFICATION Spec
INVARIANTS NothingDangles ColorsAreKept
PROPERTY FinalizedWhenUnreachable
CHECK_DEADLOCK FALSE
