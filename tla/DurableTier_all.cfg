SPECIFICATION Spec
CONSTANTS
    t1 = t1
    t2 = t2
    t3 = t3
    t4 = t4
    k1 = k1
    None = None
    Keys <- One
    Tasks <- Four
    Calls = {"lookup", "fill", "purge", "update", "touch"}
    PurgeTypes = {"Soft", "Hard"}
    Ttls = {0, 1}
    MaxTime = 1
    Faulty = TRUE
SYMMETRY FourAlike
CHECK_DEADLOCK FALSE
INVARIANTS TypeOK OneWinnerPerVersion EveryLifeHasACreator PurgeEndsWhatItSaw
    NoDanglingManifest LookupFindsBody OlderCallsReviveNothing
    BodyIsTheManifests
PROPERTY LifecycleSpec
