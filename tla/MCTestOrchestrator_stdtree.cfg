CONSTANTS
    NumTests = 2
    Jobs = 2
    MaxRuns = 2
    MaxVersion = 2
    Durations = {1, 2}
    CostHint <- MCCostHint
    ReplOn = TRUE
    NativeOn = TRUE
    CompilerSigMode = "source"
    StdEdits = TRUE
    LaggingBuild = FALSE
    PartialArtifacts = FALSE
    WorkerRaises = FALSE
    CrashDuringSave = FALSE
SPECIFICATION Spec
INVARIANT CachedOutcomeCurrent
VIEW Observed
CHECK_DEADLOCK FALSE
