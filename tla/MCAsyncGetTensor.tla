-------------------------- MODULE MCAsyncGetTensor --------------------------
EXTENDS AsyncGetTensor

CONSTANTS r1, r2

Workload(perDevicePerProcess, device, distributed) ==
    [perDevicePerProcess |-> perDevicePerProcess, device |-> device, distributed |-> distributed]

\* Every mode the code gets right: replicated tensors through IPC handles, and
\* tensors of both kinds through memory.
SafeModes == {Workload(TRUE, "gpu", {}), Workload(FALSE, "gpu", {r1}), Workload(TRUE, "cpu", {r1})}

\* A tensor that is redistributed first, through an IPC handle.
DistributedOnFile == {Workload(TRUE, "gpu", {r1})}
=============================================================================
