SPECIFICATION MCSpec
CONSTANTS
    c1 = c1
    c2 = c2
    Commands = {c1, c2}
    Starters = {d1, d2}
    Sessions = {s1}
    Inputs <- Lines
    MaxPolls = 1
    None = None
CHECK_DEADLOCK FALSE
INVARIANTS McpTypeOK RepliesInOrder OneDaemonInTurn
PROPERTIES BestTierAnswers SessionsLeaveNoDaemon CallsAreAnswered
