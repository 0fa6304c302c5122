SPECIFICATION MCFairSpec
CONSTANTS
    a = a
    r1 = r1
    r2 = r2
    Web = web
    Schedules = {a}
    Runners = {r1, r2}
    SecondsPerMinute = 2
    MinutesPerHour = 2
    HoursPerDay = 2
    DaysPerWeek = 3
    MonthLengths <- Months
    LastDay = 4
    Requests <- AllRequests
    Configs <- AllConfigs
    Horizon = 84
    MaxJobs = 2
    MaxCrashes = 1
    Envs <- AllEnvs
    Overrides <- AllOverrides
INVARIANTS
    EachDueTimeOnce
    NoStackedRuns
    WaitsForFirstDue
    ChargesAreConfirmed
    PresetsAreAccepted
    RunFitsBudget
PROPERTIES
    OverwriteIsEarned
    DueIsTaken
CHECK_DEADLOCK FALSE
