SPECIFICATION DistributedTensorsSpec
CONSTANTS
    Placement <- MCPlacement
    Layout <- MCLayout
    DefaultDeviceMesh <- MCDefaultMesh
    GpuCount = 8
    Program <- MCProgram
INVARIANTS HoldsWhatIsAnnounced OrderlyNeverAborts
