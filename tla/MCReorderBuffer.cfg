SPECIFICATION Spec

CONSTANTS
    RobSize = 4
    TagName = {t1, t2}
    Result = {v1, v2}

INVARIANTS
    Bookkeeping
    OccupiedExactly

PROPERTIES
    QueueSpec
