SPECIFICATION AccessSpec
CONSTANTS
    Jobs = {1, 2}
    Bytes <- SourceBytes
    Huge = 9
    TypeRules <- TypeTable
    MaxWorkers = 1
    RetryAfter = 1
    BootTimeout = 2
    UnknownGrace = 2
    MaxRuntime = 3
    MaxInstances = 2
    MaxFaults = 2
    Tabs = {1, 2}
    AccessLife = 2
    RefreshLife = 5
    Grace = 2
    Slow = 1
    MaxTime = 6
    MaxPairs = 3
    MaxEvents = 2
    Runs = {"central", "worker"}
    Remote = {"worker"}
    Conns = {1, 2}
    RcloneApp = "rclone"
    OwnApps = {"own"}
    NoApp = "none"
    MaxGrants = 2
    MaxRefreshes = 2
INVARIANTS
    WorkIsNotCut
    InstancesWithinLimit
    EndedIsOver
    TabsStayLoggedIn
    TokenIsCurrent
    RefreshedByItsApp
PROPERTY Ec2Settles
CHECK_DEADLOCK FALSE
