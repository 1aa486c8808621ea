SPECIFICATION Spec
CONSTANTS
    Ids = {i1, i2}
    Given = {{}, {"info"}, {"original", "face"}}
INVARIANTS
    InfoIsWhole
    NoFaceFileLeft
PROPERTY
    PurgedEventually
CHECK_DEADLOCK FALSE
