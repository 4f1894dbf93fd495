CONSTANTS
    MAX_PLANNING = 2
    MAX_SLOT = 2
    MAX_PLANNING_ID = 2
    MAX_SLOT_ID = 2
    Dows = {0, 1}
    Hours = {0}
    LateHours = {}
    Minutes = {0}
    Orders = {2, 3}
    COZY = 3
    Names = {n1, n2}
    Zones = {z1}
    NULL = NULL
    n1 = n1
    n2 = n2
    z1 = z1

SPECIFICATION Spec

PROPERTY OrderPatchApplies
