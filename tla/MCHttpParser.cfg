SPECIFICATION Spec
CONSTANTS
    SizeMax = 127
    Conversations <- Every
INVARIANTS
    TypeOK
    ParsedAsSent
    FirstParsedAsSent
PROPERTIES
    RequestEnds
\* A client that has sent everything may fall silent.
CHECK_DEADLOCK FALSE
