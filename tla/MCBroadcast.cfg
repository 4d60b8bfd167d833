SPECIFICATION BroadcastSpec
CONSTANTS
    r1 = r1
    r2 = r2
    Runner = {r1, r2}
    LocalRunner = {r1}
    MaxOps = 3
    Garbage = Garbage
INVARIANTS LaunchesInOrder NothingSentBeforeReady
PROPERTIES CreationReturns SyncAlwaysReturns SyncedDestroyReturns
