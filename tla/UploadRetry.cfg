SPECIFICATION LateSpec
CONSTANTS
    f1 = f1
    f2 = f2
    Files = {f1, f2}
    Size <- SizeOf
    ChunkUnits = 1
    Threads = {1, 2}
    MaxPipes = 1
    MaxStarts = 2
    MaxAttempts = 1
    MaxConflicts = 1
    MaxLost = 1
    MaxRestarts = 1
    Limits <- AllLimits
    MaxFill = 95
    ChunkBytes = 3
    MaxChunks = 2
    Pieces <- Log
    MaxActs = 3
    MaxErrors = 1
    MaxQueue = 2
INVARIANT
    ReplacedIsNeverDamaged
CHECK_DEADLOCK FALSE
