SPECIFICATION Spec
CONSTANTS
    SizeMax = 127
    Conversations <- SecondForm
PROPERTIES
    ParseReturns
CHECK_DEADLOCK FALSE
