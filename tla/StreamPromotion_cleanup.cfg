SPECIFICATION Spec
CONSTANTS
    None = None
    Length = 2
    Capacity = 2
    SetupFails = FALSE
    Faulty = FALSE
    Cancels = FALSE
CHECK_DEADLOCK FALSE
INVARIANT CleanupStoresNothing
