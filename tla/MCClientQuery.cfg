SPECIFICATION Spec
CONSTANTS
    r1 = r1  r2 = r2  d1 = d1  d2 = d2
    Queries = {"selectAlter", "writeBlock", "end"}
    Requests = {r1, r2}
    Conns = {d1, d2}
    NoConn = NoConn
    MaxIdle = 2
    ReadOnly = TRUE
    ConnsFail = TRUE
SYMMETRY Symmetry
INVARIANTS HistoryAnswered HistoryUnique DefaultForced
PROPERTIES AbortedStays
