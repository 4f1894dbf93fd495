CONSTANTS
    ZONES = 1
    PLANNINGS = 2
    SLOTS = 2
    PlanIds = {6, 7}
    Orders = {2}
    COZY = 3
    WEEK = 3
    PERIOD = 3
    BRIEF = 0
    LONG = 1
    Starts = {0, 1, 2}
    Instants = {1}
    Garbage = {9}
    NULL = NULL
    FREED = FREED

SPECIFICATION FairSpec

INVARIANT TypeOK
INVARIANT UndisturbedZonesExact
PROPERTY Converges
