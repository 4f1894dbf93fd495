CONSTANTS
    MAX_PLANNING = 1
    MAX_SLOT = 3
    MAX_PLANNING_ID = 0
    MAX_SLOT_ID = 3
    Dows = {0, 1}
    Hours = {0, 1}
    LateHours = {24}
    Minutes = {0}
    Orders = {3}
    COZY = 3
    Names = {n1}
    Zones = {}
    NULL = NULL
    n1 = n1

SPECIFICATION RoomySpec

INVARIANT NoDuplicateTimes
INVARIANT StoreIsLoaded
