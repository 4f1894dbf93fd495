CONSTANTS
    MAX_PLANNING = 1
    MAX_SLOT = 2
    MAX_PLANNING_ID = 0
    MAX_SLOT_ID = 3
    Dows = {0, 1, 2}
    Hours = {0}
    LateHours = {}
    Minutes = {0}
    Orders = {3}
    COZY = 3
    Names = {n1}
    Zones = {}
    NULL = NULL
    n1 = n1

SPECIFICATION Spec

INVARIANT NoDuplicateTimes
