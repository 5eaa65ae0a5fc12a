SPECIFICATION Spec
CONSTANTS
    Tokens = {k1, k2}
    IndexWait = 7
    Grace = 2
    Drain = 2
    MaxSays = 5
    PipeLimit = 2
CHECK_DEADLOCK FALSE
INVARIANTS OneShotTypeOK AskedWhenIndexed NoServerLeftWaiting NoServerLeftRunning
PROPERTIES QueryEnds
