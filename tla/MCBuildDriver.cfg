CONSTANTS
    Paths <- MCPaths
    Parent <- MCParent
    FixedCandidates <- MCFixedCandidates
    CmdLines <- MCCmdLines
    Home = "~"
    RepoRoot = "~/src/nytrix"
    TmpDir = "/tmp"
    BuildDir = "~/src/nytrix/build"
    DefaultCache = "~/.cache/nytrix/test-cache"
    CacheDirEnv = {"", "~"}
    Prefixes = {"/usr", "~/.local"}
    Compilers = {"clang"}
    MaxStd = 2
    MaxRuns = 3
    StdLocked = FALSE
    SanModes = {"", "asan"}
    BaselineDir = "~/src/nytrix/build/cache"
SPECIFICATION Spec
INVARIANT TestUsesCurrentStd
INVARIANT ConfigurationCurrent
CHECK_DEADLOCK FALSE
