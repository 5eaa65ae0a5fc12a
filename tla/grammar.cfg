SPECIFICATION Spec
CONSTANTS
    t1 = t1
    t2 = t2
    u1 = u1
    p1 = p1
    Threads <- MCThreads
    Tools <- MCTools
    Procs = {p1}
    ProcOf <- MCProcOf
    Baked = r1
    New = r2
    None = None
CHECK_DEADLOCK FALSE
INVARIANTS PackagesTypeOK WholeOrAbsent
PROPERTIES ReportsAreTrue OperationsEnd
