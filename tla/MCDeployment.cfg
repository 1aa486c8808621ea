SPECIFICATION Spec
CONSTANT MaxFailures = 4
INVARIANT
    ServesMigrated
PROPERTY
    UpUnlessTorn
CHECK_DEADLOCK FALSE
