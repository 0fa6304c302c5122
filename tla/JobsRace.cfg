SPECIFICATION RaceSpec
CONSTANTS
    j1 = j1
    j2 = j2
    w1 = w1
    w2 = w2
    Jobs = {j1, j2}
    Workers = {w1, w2}
    NoWorker = NoWorker
    NoJob = NoJob
    Serves <- ServesPool
    BoundTo <- BoundW2
    LeaseTicks = 1
    TicketTicks = 1
INVARIANTS
    OneRclone
    NoFalseSuccess
    AgentHoldsTicket
PROPERTY KeepsPromise
