SPECIFICATION FairSpec
CONSTANTS
    WaitBound = 3
    Framings = {"length"}
PROPERTY
    RequestReturns
