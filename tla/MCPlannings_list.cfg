CONSTANTS
    MAX_PLANNING = 2
    MAX_SLOT = 1
    MAX_PLANNING_ID = 3
    MAX_SLOT_ID = 0
    Dows = {0}
    Hours = {0}
    LateHours = {}
    Minutes = {0}
    Orders = {3}
    COZY = 3
    Names = {n1, n2, n3}
    Zones = {z1}
    NULL = NULL
    n1 = n1
    n2 = n2
    n3 = n3
    z1 = z1

SPECIFICATION Spec
SYMMETRY Symmetry

INVARIANT UniqueIds
INVARIANT FreshIds
INVARIANT ZonesFollowListed
