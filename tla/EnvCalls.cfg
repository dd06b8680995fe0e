CONSTANTS
    t1 = t1
    t2 = t2
    Threads <- MCThreads
    Objs <- MCObjs
    Kinds = {"NotFound", "IOError"}
    Messages = {"m"}
    Arrays = {a1, a2, a3, a4}
    nullptr = nullptr
    Args <- MCArgs
    Calls <- MCCalls
    Wrappers = {w1, w2}
    base = base
SYMMETRY Symmetric
SPECIFICATION CallsSpec
INVARIANTS
    TypeOK
    OneOwner
    CopiesAreValues
    VariableTellsAnswer
PROPERTY
    ForwardsAllCalls
