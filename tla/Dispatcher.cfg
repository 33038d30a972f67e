SPECIFICATION Spec
CONSTANTS
    a1 = a1
    a2 = a2
    f1 = f1
    Worker = {w1, w2}
    Alert = {a1, a2}
    Fp = {f1}
    FpOf <- OneGroup
    None = None
    Limit = 0
    MaxRetries = 1
    MaxUpdates = 3
SYMMETRY WorkerSymmetry
INVARIANTS FiringIsHeld OneNotifier PublishedIsComplete
CHECK_DEADLOCK FALSE
