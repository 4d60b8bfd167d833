SPECIFICATION EagerSpec
CONSTANTS
    cpu = cpu
    gpu = gpu
    a1 = a1
    a2 = a2
    Device = {cpu, gpu}
    Gpu = {gpu}
    Addr = {a1, a2}
    NoAddr = NoAddr
    OpKind = {"create", "compute", "convert", "get", "sync"}
    MaxOp = 3
    BatchSize = 2
    DestroyOps = 2
INVARIANTS InputsIntendedAndFilled BlobsAccountedFor ReadyMeansComputed NoAbort
PROPERTIES DestroyEnds FuturesSettle EveryOperatorRuns DroppedTensorsAreFreed
CHECK_DEADLOCK FALSE
