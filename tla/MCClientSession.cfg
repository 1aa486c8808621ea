SPECIFICATION FairSpec
CONSTANTS
    WaitBound = 3
    Framings = {"length", "chunked", "unstated"}
INVARIANTS
    SessionTypeOK
    PooledUsable
    TimeoutIsOwn
    WrittenOnce
    CompleteUnlessTimedOut
PROPERTY
    FirstReadBounded
