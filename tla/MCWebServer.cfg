SPECIFICATION FairSpec
CONSTANTS
    Conns = {c1, c2}
    Workers = {w1, w2}
    Null = Null
INVARIANTS
    TypeOK
    OneOwner
    Attended
    PoolOwnsLive
    WorkerSocketOpen
    AnnouncedKept
    DrainedOnReturn
PROPERTIES
    OneRequestAtATime
    QueuedIsAnswered
    SignalStops
