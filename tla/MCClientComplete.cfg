SPECIFICATION Spec
CONSTANTS
    WaitBound = 3
    Framings = {"length"}
INVARIANT
    SuccessIsComplete
