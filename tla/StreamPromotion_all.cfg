SPECIFICATION FairSpec
CONSTANTS
    None = None
    Length = 3
    Capacity = 2
    SetupFails = TRUE
    Faulty = TRUE
    Cancels = TRUE
CHECK_DEADLOCK FALSE
INVARIANTS TypeOK OnlyRefusedChunksAreMissing FirstChunksAreNotRefused
    OnlySetupFailsTheRead NoWorkerOutlivesFinish
PROPERTIES FinishReturns AbandonedWorkersEnd ContractSpec
