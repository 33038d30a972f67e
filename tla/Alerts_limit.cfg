CONSTANTS
    f1 = f1
    f2 = f2
    f3 = f3
    f4 = f4
    c1 = c1
    c2 = c2
    l1 = l1
    l2 = l2
    s1 = s1
    s2 = s2
    t = t
    Fp = {f1, f2, f3, f4}
    Caller = {c1, c2}
    Listener = {l1, l2}
    Slurper = {l1}
    ResolveTimeout = 3
    ChanLen = 1
    MemScenes <- LimitScenes
    Lset = {s1, s2, t}
    Rules <- TwoRules
    Steady = {s1}
    EndTime = 2
    MaxChanges = 1
    InhibitScenes <- BothThere
SPECIFICATION LimitSpec
INVARIANT WithinLimit
CHECK_DEADLOCK FALSE
