SPECIFICATION Spec
CONSTANTS
    r1 = r1  r2 = r2  d1 = d1  d2 = d2
    Queries = {"select", "alter", "beginWrite", "writeBlock"}
    Requests = {r1, r2}
    Conns = {d1, d2}
    NoConn = NoConn
    MaxIdle = 2
    ReadOnly = TRUE
    ConnsFail = FALSE
SYMMETRY Symmetry
INVARIANTS DefaultHolds
