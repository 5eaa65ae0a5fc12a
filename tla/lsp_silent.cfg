SPECIFICATION FairSpec
CONSTANTS
    Docs = {f1}
    MaxId = 2
    MaxText = 1
    PipeLimit = 2
    ServerIds = {0}
    None = None
CHECK_DEADLOCK FALSE
PROPERTY TimesOut
