SPECIFICATION Spec
CONSTANTS
    t1 = t1
    t2 = t2
    t3 = t3
    t4 = t4
    k1 = k1
    None = None
    Keys <- One
    Tasks <- Four
    Calls = {"lookup", "fill", "purge"}
    PurgeTypes = {"Soft"}
    Ttls = {1}
    MaxTime = 0
    Faulty = FALSE
SYMMETRY FourAlike
CHECK_DEADLOCK FALSE
INVARIANT PurgeStopsVersionedFills
