SPECIFICATION Spec
CONSTANTS
    r1 = r1  r2 = r2  d1 = d1  d2 = d2
    Queries = {"select", "update"}
    Requests = {r1, r2}
    Conns = {d1, d2}
    NoConn = NoConn
    MaxIdle = 2
    ReadOnly = FALSE
    ConnsFail = FALSE
SYMMETRY Symmetry
INVARIANTS HistorySucceeded
