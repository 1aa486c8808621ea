SPECIFICATION FairSpec
CONSTANTS
    Threads = {io, w1, w2}
    Messages = {m1, m2}
    None = None
    QueueBound = 3
INVARIANTS
    TypeOK
    NoLostWakeup
PROPERTY
    ImplementsFifo
\* Every thread may end up asleep in PopOrWait on an empty queue.
CHECK_DEADLOCK FALSE
