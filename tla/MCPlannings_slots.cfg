CONSTANTS
    MAX_PLANNING = 1
    MAX_SLOT = 2
    MAX_PLANNING_ID = 0
    MAX_SLOT_ID = 3
    Dows = {0, 1, 2}
    Hours = {0}
    LateHours = {24}
    Minutes = {0}
    Orders = {3}
    COZY = 3
    Names = {n1, n2}
    Zones = {z1}
    z1 = z1
    NULL = NULL
    n1 = n1
    n2 = n2

SPECIFICATION Spec
SYMMETRY Symmetry

INVARIANT TypeOK
INVARIANT MemoryIsStored
INVARIANT NoLeftoverSlots
INVARIANT UniqueIds
PROPERTY WeekStartKept
