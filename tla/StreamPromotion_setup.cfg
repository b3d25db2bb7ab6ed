SPECIFICATION Spec
CONSTANTS
    None = None
    Length = 1
    Capacity = 1
    SetupFails = TRUE
    Faulty = FALSE
    Cancels = FALSE
CHECK_DEADLOCK FALSE
INVARIANT PromotionIsBestEffort
