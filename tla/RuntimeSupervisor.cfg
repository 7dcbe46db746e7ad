SPECIFICATION FairSpec
CONSTANTS
    Clients = {a, b}
    LoopTask = LoopTask
    Futures = {1, 2, 3}
INVARIANTS
    TypeOK
    NoOverlap
    RunningIsAlive
PROPERTY
    CyclesGoOn
