CONSTANTS
    MaxLogical = 70
    OSes = {"linux", "macos", "windows", "unknown"}
    ProfileNames = {"auto", "balanced", "off", "max", "conservative", "smt", "junk"}
    UserJobs = {0, 3}
    ArmCapRaw = {"", "junk", "0", "1"}
    MemGiB = {0, 2, 4, 16}
    Requested = {0, 2, 99}
    EnvTexts = {"", "1", "2"}
    MaxChecks = 256
    MaxTree = 2
SPECIFICATION Spec
INVARIANT SoftCeilingGrows
INVARIANT TestPoolBounded
INVARIANT ArmPoolWithinCap
INVARIANT BuildJobsFitMemory
INVARIANT ResolverExact
CHECK_DEADLOCK FALSE
