SPECIFICATION FairSpec
CONSTANTS
    Docs = {f1, f2}
    MaxId = 3
    MaxText = 2
    PipeLimit = 2
    ServerIds = {2}
    None = None
CHECK_DEADLOCK FALSE
INVARIANTS
    SessionTypeOK
    ResponseIsToTheCall
    OpenedBeforeAsked
    EndedSessionLeavesNoProcess
    OrderlyHandshake
PROPERTY RequestsEnd
