SPECIFICATION Spec
CONSTANTS
    short = short
    fine = fine
    good = good
    Files = {f1}
    Texts <- SomeTexts
    Size <- SizeOf
    Scopes <- NoneOrAll
    Procs = {p1, p2}
    MaxTime = 1
    None = None
    Torn = Torn
CHECK_DEADLOCK FALSE
SYMMETRY Symmetry
INVARIANTS
    ScanTypeOK
    UncachedIsCurrent
PROPERTY KeepsFreshScan
