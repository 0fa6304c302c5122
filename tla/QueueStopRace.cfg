SPECIFICATION QueueSpec
CONSTANTS
    j1 = j1
    j2 = j2
    w1 = w1
    w2 = w2
    Jobs = {j1}
    Workers = {w1, w2}
    NoWorker = NoWorker
    NoJob = NoJob
    Serves <- ServesPool
    BoundTo <- BoundW2
    LeaseTicks = 2
    TicketTicks = 3
PROPERTY StopKeepsOutcome
