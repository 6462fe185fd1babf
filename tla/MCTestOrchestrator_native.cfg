CONSTANTS
    NumTests = 1
    Jobs = 1
    MaxRuns = 3
    MaxVersion = 2
    Durations = {1}
    CostHint <- MCCostHint
    ReplOn = TRUE
    NativeOn = TRUE
    CompilerSigMode = "binary"
    StdEdits = TRUE
    LaggingBuild = TRUE
    PartialArtifacts = TRUE
    WorkerRaises = FALSE
    CrashDuringSave = FALSE
SPECIFICATION Spec
INVARIANT ArtifactReuseCurrent
VIEW Observed
CHECK_DEADLOCK FALSE
