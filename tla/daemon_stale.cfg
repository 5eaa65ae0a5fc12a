SPECIFICATION Spec
CONSTANTS
    Projects = {p1, p2}
    Daemons = {d1, d2}
    Clients = {c1}
    Ports = {t1, t2}
    BacklogLimit = 2
    None = None
PROPERTY OnlyStaleInfoRemoved
