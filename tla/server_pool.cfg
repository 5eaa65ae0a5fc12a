SPECIFICATION FairSpec
CONSTANTS
    go = go
    rust = rust
    cobol = cobol
    Langs <- Three
    Configured <- Two
    Servers = {s1, s2, s3}
    IdleTimeout = 1
    MaxTime = 3
    None = None
CHECK_DEADLOCK FALSE
INVARIANTS
    PoolTypeOK
    EveryServerIsInThePool
    NothingOutlivesTheDaemon
PROPERTY IdleServersGo
