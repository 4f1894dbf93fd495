CONSTANTS
    TRIGGER = 2
    Offsets = {0, 3, 100}
    MaxTime = 4
    MaxLeaps = 1

SPECIFICATION Spec

INVARIANT TypeOK
INVARIANT UptimeBounded
INVARIANT ConnectionBounded
