SPECIFICATION AsyncSpec
CONSTANTS
    r1 = r1
    r2 = r2
    Request = {r1, r2}
    Mode <- DistributedOnFile
INVARIANTS FutureGuardsTensor
