SPECIFICATION Spec
CONSTANTS
    t1 = t1
    t2 = t2
    t3 = t3
    None = None
    Tasks <- Three
    Present = {1}
    Promotes <- PromoteAll
    MaxLen <- Limits
    Size <- Sizes
    Declared = TRUE
    Calls = {"get", "fill"}
    Ttls = {1}
    Dated = {"expiry", "creation", "nothing"}
    Expiries = {0}
    MaxTime = 1
    Faulty = FALSE
SYMMETRY LargeAlike
CHECK_DEADLOCK FALSE
INVARIANT ExpiredIsNotFresh
