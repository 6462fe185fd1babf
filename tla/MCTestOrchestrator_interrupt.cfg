CONSTANTS
    NumTests = 2
    Jobs = 2
    MaxRuns = 2
    MaxVersion = 1
    Durations = {1, 2}
    CostHint <- MCCostHint
    ReplOn = TRUE
    NativeOn = TRUE
    CompilerSigMode = "source"
    StdEdits = FALSE
    LaggingBuild = FALSE
    PartialArtifacts = FALSE
    WorkerRaises = FALSE
    CrashDuringSave = FALSE
SPECIFICATION Spec
INVARIANT InterruptKeepsProgress
VIEW Observed
CHECK_DEADLOCK FALSE
