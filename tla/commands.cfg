SPECIFICATION Spec
CONSTANTS
    Letters <- MCLetters
    Space = " "
    Main <- MCMain
    Names <- MCNames
    NewName <- MCNewName
    Projects <- MCProjects
    Depth = 3
    None = None
CHECK_DEADLOCK FALSE
INVARIANTS CommandsTypeOK RenamedOrNot RefsLoseNothing ChainsAreTheWays
