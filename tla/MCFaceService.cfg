SPECIFICATION Spec
CONSTANTS
    Workers = {w1, w2}
    Ids = {"id1", "id2"}
    Pictures = {"p1"}
CHECK_DEADLOCK FALSE
INVARIANTS
    AnswerIsOwn
    StatusDecided
PROPERTY
    HandledOrDown
