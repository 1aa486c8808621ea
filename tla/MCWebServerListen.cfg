SPECIFICATION Spec
CONSTANTS
    Conns = {c1}
    Workers = {w1}
    Null = Null
INVARIANT
    RunsOnlyIfListening
