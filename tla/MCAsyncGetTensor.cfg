SPECIFICATION AsyncSpec
CONSTANTS
    r1 = r1
    r2 = r2
    Request = {r1, r2}
    Mode <- SafeModes
INVARIANT FutureGuardsTensor
PROPERTIES GetsReturn DroppedIsReleased
