CONSTANTS
    ZONES = 1
    PLANNINGS = 1
    SLOTS = 1
    PlanIds = {7}
    Orders = {2, 3}
    COZY = 3
    WEEK = 1
    PERIOD = 1
    BRIEF = 0
    LONG = 0
    Starts = {0}
    Instants = {0}
    Garbage = {2}
    NULL = NULL
    FREED = FREED

SPECIFICATION Spec
INVARIANT ListedOrdersKnown
