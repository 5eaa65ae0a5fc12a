SPECIFICATION Spec
CONSTANTS
    short = short
    fine = fine
    good = good
    Files = {f1, f2}
    Texts <- AllTexts
    Size <- SizesOf
    Scopes <- Parts
    Procs = {p1}
    MaxTime = 1
    None = None
    Torn = Torn
CHECK_DEADLOCK FALSE
SYMMETRY Symmetry
PROPERTY CachedIsCurrent
