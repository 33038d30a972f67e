CONSTANTS
    p1 = p1
    p2 = p2
    s1 = s1
    s2 = s2
    l1 = l1
    Peer = {p1, p2}
    Id = {g1}
    Lset = {l1}
    Caller <- Callers
    Retention = 2
    MaxSilences = 2
    MaxTime = 4
    MaxVersion = 3
    Delay = 1
    Scenes <- GossipScenes
SYMMETRY IdSymmetry
SPECIFICATION MCSpec
INVARIANTS NeverOlder
PROPERTIES MutesIsRight 
CHECK_DEADLOCK FALSE
