SPECIFICATION DistributedTensorsSpec
CONSTANTS
    Placement <- MCSquarePlacement
    Layout <- MCSquarePlacement
    DefaultDeviceMesh <- MCDefaultMesh
    GpuCount = 4
    Program <- MCSquareProgram
INVARIANTS ReadsBackWhole
