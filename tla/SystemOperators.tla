--------------------------- MODULE SystemOperators ---------------------------
(***************************************************************************)
(* The operators that ask something of the devices: memory statistics,     *)
(* ranges of a profile, and the value of a tensor.  They know their        *)
(* devices from their parameters, and all but the statistics have no       *)
(* output.  The devices of the model are GPUs.                             *)
(***************************************************************************)
EXTENDS MathOperators

\* ClusterInfo::GetGpuDevices
GetGpuDevices == [i \in 1..GpuCount |-> i - 1]

kMemoryStatSize == 1        \* of the 256 bytes of a row, the model has one element

\* The statistics of a global device, serialized: no two devices have the same.
MemoryStat(device) == 3 + device

\* MemoryOp::ToTorchTensor, a row for each device.
ToTorchTensor(devices) ==
    LET s == <<Len(devices), kMemoryStatSize>>
    IN  Tensor(s, [c \in Coordinates(s) |-> MemoryStat(devices[c[1] + 1])])

\* MemoryOp::ToMemoryStats.  MemoryStats::Merge asserts that a device comes once.
ToMemoryStats(t) == [i \in 1..t.shape[1] |-> t.at[<<i - 1, 0>>]]
Merges(rows) == IsInjective(rows)

MemoryInfer(op) == <<<<Len(op.devices), kMemoryStatSize>>>>

\* MemoryKernel::Compute: a device has its own row only.
MemoryCompute(devices) == <<ToTorchTensor(devices)>>

\* InferOutputSize, for the operators without outputs.
InferNoOutput(op) == op.kind \in {"nvtx", "get_tensor"} \/ (op.kind = "memory" /\ op.operation = "empty_cache")

\* A range or a mark has a name.
NvtxAccepts(op) == op.nvtxType = "pop" \/ op.message # ""

\* GetTensorOp::CheckInput
GetTensorAccepts(in) == ~IsDistributed(in[1].mesh)

SystemAccepts(op, in) ==
    CASE op.kind = "nvtx" -> NvtxAccepts(op)
      [] op.kind = "get_tensor" -> GetTensorAccepts(in)
      [] op.kind = "memory" -> TRUE

\* What the caller makes of the value it has got.
ReceivedSurvives(op, in) ==
    op.kind = "get_tensor" =>
        LET value == in[1].local[in[1].mesh.ids[1]]
        IN  ~Failed(value) /\ (op.asMemoryStats => Merges(ToMemoryStats(value)))
=============================================================================
