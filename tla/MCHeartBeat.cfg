SPECIFICATION BeatSpec
CONSTANTS
    w1 = w1
    w2 = w2
    Worker = {w1, w2}
    Remote = {w2}
    MaxCrash = 2
INVARIANTS NoFalseAlarm
PROPERTIES CrashDetected OrphansExit RunnerDestructionReturns
