CONSTANTS
    Procs = {p1}
    NoProc = NoProc
    MaxVersion = 2
    Headers <- MCHeaders
    Required <- MCRequired
    Core = "llvm-c/Core.h"
    Config = "llvm/Config/llvm-config.h"
    NumUrls = 2
    Retries = 1
    NetFails = TRUE
    NoNetChoices = {FALSE, TRUE}
    SystemRoots = {{}}
    MaxRuns = 2
    MaxCrashes = 1
SPECIFICATION Spec
INVARIANT ReturnedRootComplete
CHECK_DEADLOCK FALSE
