CONSTANTS
    ZONES = 2
    PLANNINGS = 1
    SLOTS = 1
    PlanIds = {}
    Orders = {4, 5}
    COZY = 3
    WEEK = 3
    PERIOD = 3
    BRIEF = 1
    LONG = 2
    Starts = {0}
    Instants = {0, 1, 2}
    Garbage = {9}
    NULL = NULL
    FREED = FREED

SPECIFICATION FairSpec

INVARIANT UndisturbedZonesExact
 
 
