SPECIFICATION Spec
CONSTANTS
    t1 = t1  f1 = f1
    Tables = {t1}
    Functions = {f1}
    NoObject = NoObject
    MaxPages = 2
    MaxRows = 9
    MaxPending = 2
INVARIANTS TypeOK PagesCoverTable ListedOnce PaginationOnlyOnRows SettledShowsObject SettledPager OneConnect WaitsForCall
