CONSTANTS
    Paths <- MCPaths
    Parent <- MCParent
    FixedCandidates <- MCFixedCandidates
    CmdLines <- MCCmdLines
    Home = "~"
    RepoRoot = "~/src/nytrix"
    TmpDir = "/tmp"
    BuildDir = "~/src/nytrix/build"
    DefaultCache = "~/.cache/nytrix/test-cache"
    CacheDirEnv = {"", "~/src"}
    Prefixes = {"/usr", "~/.local"}
    Compilers = {"clang"}
    MaxStd = 2
    MaxRuns = 3
    StdLocked = FALSE
    SanModes = {""}
    BaselineDir = "~/src/nytrix/build/cache"
SPECIFICATION Spec
INVARIANT ProtectedPathsSurvive
CHECK_DEADLOCK FALSE
