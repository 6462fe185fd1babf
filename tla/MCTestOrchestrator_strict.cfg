CONSTANTS
    NumTests = 1
    Jobs = 1
    MaxRuns = 3
    MaxVersion = 2
    Durations = {1, 2}
    CostHint <- MCCostHint
    ReplOn = TRUE
    NativeOn = TRUE
    CompilerSigMode = "binary"
    StdEdits = FALSE
    LaggingBuild = TRUE
    PartialArtifacts = FALSE
    WorkerRaises = TRUE
    CrashDuringSave = TRUE
SPECIFICATION Spec
INVARIANT CachedOutcomeCurrent
VIEW Observed
CHECK_DEADLOCK FALSE
