SPECIFICATION FairSpec
CONSTANTS
    Projects = {p1}
    Daemons = {d1}
    Clients = {c1, c2}
    Ports = {t1}
    BacklogLimit = 2
    None = None
PROPERTIES
    CommandsReturn
    SignalledDaemonsEnd
