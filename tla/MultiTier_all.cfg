SPECIFICATION Spec
CONSTANTS
    t1 = t1
    t2 = t2
    t3 = t3
    None = None
    Tasks <- Three
    Present = {0, 1}
    Promotes <- PromoteAll
    MaxLen <- Limits
    Size <- Sizes
    Declared = FALSE
    Calls = {"get", "fill", "purge", "update", "touch"}
    Ttls = {0}
    Dated = {"nothing"}
    Expiries = {0}
    MaxTime = 1
    Faulty = TRUE
SYMMETRY LargeAlike
CHECK_DEADLOCK FALSE
INVARIANTS TypeOK  CutAboveIsCutBelow
PROPERTY GateHolds
