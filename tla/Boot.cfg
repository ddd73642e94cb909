SPECIFICATION Spec
CONSTANT EarlyCommands = FALSE
INVARIANTS
    HighestRuns
    MainSetsUpFirst
    Ds5WaitersListed
    LwipResumesWaiter
    OwnerInherits
    MutualExclusion
    NothingUsedUninitialised
