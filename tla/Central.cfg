SPECIFICATION MCFairSpec
CONSTANTS
    copy = copy
    check = check
    Names = {1, 2}
    Jobs = {copy, check}
    Passes <- CopyAndCheck
    LocalDst = {copy}
    PoolSize = 1
    VisibilityTicks = 3
    LongestRun = 1
    MaxRestarts = 1
    OddNames = {"odd/"}
    SpacedNames = {"s p"}
    OddValues = {"bad;"}
    Homes <- MCHomes
    Forms <- MCForms
    MaxSaves = 2
    MaxMoves = 1
INVARIANTS
    NoFalseCentralSuccess
    RunsOnce
    VerdictIsTrue
    WhatIsShownRuns
PROPERTY
    StopIsFinal
    QueuedTaskEnds
CHECK_DEADLOCK FALSE
