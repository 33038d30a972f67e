CONSTANTS
    i1 = i1
    i2 = i2
    NoEntry = NoEntry
    Alert = {a1, a2}
    Integration = {i1, i2}
    SendResolved = {i1}
    Scenes <- SafetyScenes
    N = 2
    PeerTimeout = 4
    GroupInterval = 8
    Repeat = 8
    MaxSkew = 1
    MaxNotify = 1
    MaxGossip = 1
    Reliable = {2}
SPECIFICATION MCSpec
SYMMETRY AlertSymmetry
INVARIANTS LogIsTruthful ResolvedBeforeForgotten NotifiedInTime
PROPERTIES NoDuplicate
