CONSTANTS
    NumTests = 3
    Jobs = 2
    MaxRuns = 2
    MaxVersion = 1
    Durations = {1, 2}
    CostHint <- MCCostHint
    ReplOn = TRUE
    NativeOn = TRUE
    CompilerSigMode = "source"
    StdEdits = FALSE
    LaggingBuild = FALSE
    PartialArtifacts = FALSE
    WorkerRaises = FALSE
    CrashDuringSave = FALSE
SPECIFICATION Spec
INVARIANT TypeOK
INVARIANT Saturation
INVARIANT LongestFirst
INVARIANT CompletedRunCovers
PROPERTY Termination
PROPERTY PoolRefinement
VIEW Observed
CHECK_DEADLOCK FALSE
