SPECIFICATION FairSpec
CONSTANTS
    o1 = o1  o2 = o2  o3 = o3
    Openers = {o1, o2, o3}
    portStart = 1
    portLimit = 1
    Nobody = Nobody
    Stranger = Stranger
INVARIANTS DialsOwnTunnel FailedLeavesNothing
PROPERTIES LoopEnds
