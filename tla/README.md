# A TLA+ verification of DTorch

DTorch executes tensor programs eagerly on the devices of one or several nodes.
A Python or C++ call returns at once; the operator it issued travels through a
message queue, an executor thread, per-device kernel streams and, in
distributed settings, through processes and an exchange of tensors between
them.  A tensor may be distributed over a mesh of devices; every operator
announces the shape and the distribution of its results before anything is
computed, and its kernels, one per device, only see the pieces there.

libtorch does the arithmetic.  What DTorch itself has to get right is the
concurrency between the call and the device, and the agreement between what is
announced and what the devices hold.  These modules are about both.

## 1. Inventory

Paths are relative to `src/dtorch/`.

| Part | State | Operations | Interacts with |
|---|---|---|---|
| Tensor store in memory, `core/communication/tensor_store/memory_tensor_store.cc` | per store: `tensorMap`, `targetGetCountMap`, `actualGetCountMap`, `barrierCounts`, `barrierRound` under one mutex and one condition variable; per process: a map from names to stores by weak pointers | constructor (a barrier), `SrcSet`, `DestGet`, `DestFinishGet`, `SrcWaitUntilGetFinished`, `Reset`, `Barrier` | conversion kernels and the collectives, one thread per rank |
| Tensor store in shared memory, `file_tensor_store.cc` | the same in an interprocess segment, plus a count of users that decides who removes the file | the same, with serialised tensors and CUDA IPC handles; `Reset` moves to another segment | processes of one node |
| Collectives on one device or node, `core/communication/thread_group/thread_group_same_device_backend.cc`, `thread_group.cc` | one store per group | broadcast, allreduce, reduce, all-gather, reduce-scatter, all-to-all, barrier, send/recv, each an SPMD protocol over the store that ends in `Reset` | tensor store; redistribution kernels |
| Thread-group manager, `thread_group_manager.cc` | map from (device kind, devices, rank) to a group, under a mutex | lazy creation and lookup | kernels of all streams |
| Promises and futures, `core/communication/promise_future/` | one-shot value with a ready flag; in memory (std::promise) or in a shared-memory file | `SetValue`, `Get`, `Wait`, `WaitFor`, `IsReady`, `Valid` | API thread on one end, stream or pool thread on the other |
| Graph construction, `core/graph/graph_constructor.cc`, `api/cpp/tensor.cc` | `mOperandCaches`: API reference count per operand | `AddOperator`, `ApiTensorRefCountIncrease/Decrease`, naming | pushes messages to the executor |
| Eager executor, `core/graph/eager_graph_executor.cc`, `eager_graph_executor_message.cc`, `logical_graph.cc` | single-producer single-consumer message queue, batch under construction, logical graph | `AsyncMain`, `ProcessMessages`, `ExecuteOperatorsAndNoHoldOperands`, destruction | runners, publisher |
| Naive runner, `core/runner/naive_runner.cc` | `mOperandToBlobs` | `Execute`, `CreateKernelForOperator`, `DeleteOperand` | kernel streams |
| Kernel streams, `core/kernel_stream/` | a queue and a thread per (device, stream type); `sync` and `destroy` flags | `LaunchKernel`, `Sync`, `AsyncMain`, `Destroy` | kernels |
| Kernels, `core/kernel/` | captured input and output blobs | `Run`, `Compute`: one for every operator, on the pieces of one device | tensor store, promises, thread pool, libtorch |
| Remote runners, `core/runner/remote/`, `external/zmq/` | per device process: `NaiveRunner`, `mOperandMap`, subscriber; publisher's message id | `Execute` broadcast, `ExecuteSerialization`, readiness, destroy | PUB/SUB and PUSH/PULL sockets |
| Sub-processes, `common/process/` | flags in shared memory: started, exit | launch, `WaitProcessStarted`, `NotifyExit`, `WaitForExit` | remote runners |
| Process heart beat, `core/distributed/process_heart_beat.cc` | main: map of worker clients under a mutex, poll thread; worker: poll thread | register, unregister, beat, stop | every process of a node, over RPC |
| Main node, worker node, `core/distributed/main_node.cc`, `worker_node.cc`, `cluster_info.cc`, `external/rpc/`, `api/cpp/cluster.cc` | registered workers, cluster configuration, the set of graphs, the runners of each graph on each node | start, registration, `CreateGraph`, `DestroyGraph`, shutdown | launcher, executor, heart beat |
| Distribution, `api/cpp/distributed_spec.cc`, `convert_op_impl.cc`, `distributed_scather_and_gather.cc` | per operand: device mesh, placements, global shape, cached local shapes | validity, local shapes, conversion order, scatter, gather, `redistribute` | graph construction, conversion kernels, thread groups |
| Placement signatures, `core/operators/placement_signature.cc` | none (pure functions) | building, matching and completing placements | operators |
| Operators, `core/operators/` | none | `Infer`: checks, shapes, placements of about 40 kinds of operators | graph construction, kernels |
| Functional API, `api/cpp/functional/` | none | the functions of the C++ API: each issues an operator, or several with redistributions in front | graph construction |
| Externals, `external/` | sockets, RPC, CUDA streams and events, NCCL | | modelled from their use only |

What is hard here.  Everything between the API call and the device is
asynchronous.  Operands are named by address across threads and processes; the
store's counters and round numbers are reused at once, and so are the names of
its files; streams of different devices wait for each other inside kernels;
destruction drops work other threads wait for; processes die at any moment, and
nodes join at any moment.  A placement rule is written once per operator and
must hold for every shape, mesh and composition; when it does not, the result is a wrong
tensor without an error, or a kernel that ends the process.

The properties that make each part correct are listed with its module in
section 3; the places where they could go wrong, with source lines, are the
`hazards` of `PROJECT.json`.

## 2. Plan

In order of what breaks most if it is wrong.  Everything up to 10 exists.

1. `TensorStore`, `TensorStoreSession`, `Rendezvous`: the exchange of
   tensors every multi-device operator rests on; the abstract specification is
   a rendezvous.
2. `SameDeviceCollectives`: the collectives written over the store.
3. `EagerGraph`: one graph in thread mode from the API call to the
   device and back.
4. `KernelStream`: `Sync` with several callers, and destruction.
5. `AsyncGetTensor`: who keeps device memory alive while a value is on
   its way out, in memory and over CUDA IPC.
6. `ProcessHeartBeat`: launch, registration, polls, crashes.
7. `RemoteBroadcast`: one graph over several processes, with the void promises
   of a synchronisation.
8. `Distribution` and the operators: redistributions, placement signatures, the
   shape and placement rules and kernels of the operators, the functional API.
9. `Cluster`: nodes that join, graphs created on all of them, the end.
10. `StoreLifetime`: how ranks come to share a store, and the life of its file.

Left, in this order: the thread-group manager's map of several groups; sizes of
shared-memory segments; a second API thread per graph (which
the code excludes by assertion) as an assumption made explicit; `WaitClusterReady`.

Abstract specifications worth stating: the rendezvous (done); whole tensors as
the specification of distributed ones (done, as the history variable `whole`);
a FIFO of operators per device that `EagerGraph` and `RemoteBroadcast` should
both implement; a one-shot cell that every promise implements.

Theorems worth proving next: the refinement of the FIFO by `RemoteBroadcast`, whose
`BroadcastLaunchesInOrder` is its main step, and by `EagerGraph`, whose `LineInv` and
`RanInv` are.

## 3. The modules and the code

### The exchange of tensors

**`TensorStore`** (`memory_tensor_store.cc`).  A critical section of `Impl::mutex`
is one step.  `cv.wait` is explicit: a waiting thread is in `asleep` until a
`notify_all`, which the code calls after it has unlocked and which is a step of
its own.  Every operation may be called by any thread at any time; the
assertions (`DAlwaysAssert`) lead to `aborted`.  `StoreSpec` promises nothing about
tensors (a client may do anything), but its barrier must be a rendezvous
whatever else goes on: `BarrierCountsExact`, `RefinesRendezvous` with the
mapping `Arrived`, `Left`.

**`TensorStoreSession`** adds the clients the code has: every key has one producer,
every reader calls `DestGet` and `DestFinishGet` once, and `Reset` separates the
epochs.  Under them no reader sees another epoch's tensor (`FreshTensor`), a
producer is released only after its readers have finished
(`ReleasedMeansFinished`), a `Reset` clears while no other thread is in a handshake
(`ResetIsolation`) and every epoch ends (`AllEpochsComplete`, which a failed
assertion would prevent).  The barrier properties of `TensorStore` are checked
here too, and proved for any client (section 6).

**`StoreLifetime`** (`thread_group_same_device_backend.cc`, `file_tensor_store.cc`, the manager of
`memory_tensor_store.cc`, `thread_group.cc`): before there is one store to
exchange tensors through, ranks that know nothing but names have to find it.  `pid`
is the process of a rank, `life` where it is between `InitTensorStore` and
`~ThreadGroup`.  `file` is what a name in `/dev/shm` leads to; a removed name leaves the
segment to those who have it open, and the next one to open it gets another.
`refCount` decides who removes the file, without the mutex (`DropUser`,
`FinishImpl`).  `mImplMap` holds weak pointers; an entry may expire between the two
looks of `GetImpl`, which then fails its assertion.  Loops that poll are guards
that block.  The contents of the shared store are kept once, in `TensorStore`'s
variables: that is right exactly as long as `OneStore` holds, which the run checks
before anything else can go wrong and section 6 proves.

**`SameDeviceCollectives`** (`thread_group_same_device_backend.cc`, `thread_group.cc`)
extends it: each rank builds its group, runs a job of collectives and destroys the
group.  A collective is a straight-line program of store operations, clones
and in-place additions, over storage cells that registers may share; a `DestGet`
from another process clones (`ResultsCorrect`, `OperandsNotAccumulated`).
`CollectivesComplete` includes the end of the group with no file left behind.

### One graph

**`EagerGraph`** joins `GraphConstructor` (API thread), the message queue,
`EagerGraphExecutor` (its thread), `NaiveRunner`, one kernel stream per device, the
device's own progress and the thread pool that sets promises.  Operands are
addresses out of a small set that the allocator hands out again as soon as no
reference is left, as `std::make_shared` may.  A conversion runs on two streams,
which wait for each other inside the kernel.

**`KernelStream`** (`kernel_stream.cc`, `cuda_kernel_stream.cc`): launchers, several
callers of `Sync`, the stream's thread, the device and the destructor.

**`AsyncGetTensor`** (`tensor_functional.cc`, `get_tensor_op.cc`, `promise_future/`): a
request is a message, a kernel, a posted function and a future; references are
counted and storage is reused when the last one is gone.  `mode` says whether the
graph has a process per device and where the tensors are: those of a GPU are then in
another process and get a promise in a file, those of the CPU stay with the runner
of this process (`InOtherProcess`) and get one in memory, which does not survive the
way to another process (`CreateTensorPromiseFromSerialized`).

### Processes and nodes

**`ProcessHeartBeat`** (`process_heart_beat.cc`, `sub_process_sync.cc`,
`remote_runner_in_process.cc`): the main process and its workers, with crashes of
either at any step, the mutex that `RegisterWorkerProcess` waits for during a poll
round, and RPCs to a dead server that fail after their deadline.

**`RemoteBroadcast`** (`graph.cc`, `main_node.cc`, `eager_graph_executor.cc`,
`remote_runner*.cc`, `void_future_collect.cc`, `external/zmq/`): creation of a graph
over two kinds of runners (`LocalRunner`, started by the executor's constructor,
and the others, started by `MainNode::CreateGraph`), broadcast of batches, `Sync`
with one shared-memory promise per device, destruction.
A message is an interval of the sequence of operators; `SendMultipart` drops it
for runners whose subscription has not arrived.  The transport is as bad as it
can be: ZeroMQ may report CONNECTED before the subscription has reached the
publisher (`Connect`), and the message id, a view of a temporary string, may be
gone when it is sent (`IdFrame`, with the model value `Garbage`).  Safety holds
nevertheless; the liveness properties say what happens as long as no message has
been missed or has lost its number (`Undisturbed`).

**`Cluster`** (`main_node.cc`, `worker_node.cc`, `main_node_interface.cc`,
`worker_node_interface.cc`, `worker_node_multi_graph_node_runner.cc`, `cluster_info.cc`,
`graph.cc`): `MainNode::mMutex` is held across the RPCs of `CreateGraph` and
`DestroyGraph` (`holder`, `calls`: one RPC per client, started together and awaited
together), while workers register, repeat a registration or die, and several
threads create, destroy and drop graphs.  `Graph::EnsureInitialized` and the
arguments of `CreateGraph` read the number of nodes without the mutex
(`ChooseAddresses`, `BuildExecutor`, `ComputeDevices`), so a worker that joins in
between makes an assertion fail, or its processes wait for an address that does
not exist (`"stuck"`).  `DevicesOf` is the slice of global and local device numbers a
node gets.  Assertions and failed RPCs end the process (`Abort`, `"dead"`).
`untimely` is a history variable: a worker came before the heart beat was there,
between two reads of the number of nodes, or once graphs or the end of the cluster were
under way.  The code makes no promise for these; `AbortsNeedAFault` says nothing
else (but deaths and repeated registrations) ends the main node.  `GraphsWhole` says
what the graphs are spread over, `CallsReturn` and `WorkersReleased` that nobody waits
for ever.  Restrictions, all about how a program uses a cluster: it starts the main
node before threads use graphs, stops it when none of them is in a call, and starts
it once; a process that is alive answers RPCs within their deadline, unless its handler
waits for a mutex or a process.

### Distributed tensors

A tensor is a shape with an element per coordinate; elements are numbers of a prime
field (`Prime`, 10007), so that sums and products are exact and a misplaced element
shows.  A mesh is a grid of devices, a placement says what a dimension of the mesh
does: replicate, hold summands, or shard an axis, possibly in two parts (sub-split).

**`Distribution`** (`distributed_spec.cc`, `convert_op_impl.cc`, `convert_kernel.cc`,
`distributed_scather_and_gather.cc`, `thread_group.cc`): what is valid, local shapes,
scatter and gather, the order and the effect of conversions.  A reduce-scatter also has
an effect on its operand: rank 0 adds to it (`SumOfRank0`, `AfterPlacements`), twice if it
is the operand of two groups at once.

**`TorchFunctions`** stands for libtorch, modelled from how the kernels call it.  A
function whose values do not matter depends on the same elements as the real one
and is not linear, so that computing it from shards or summands where one must not
gives another result.  `NoTensor` is an exception.

**`PlacementSignature`** (`placement_signature.cc`): the rules operators state, their
completion and their match, with `ToHashKey`'s blindness to sub-splits.

**`MathOperators`, `NeuralOperators`, `ShapeOperators`** (`core/operators/standard/`,
`core/operators/fused_compile/`, `core/kernel/`): per operator, `...Infer` (parameter checks
and output shapes), `...Signature` or the placements it announces, and `...Compute` (what is
handed to torch on one device).  **`SystemOperators`** (`core/operators/system/`) has those
that ask something of the devices: memory statistics, which are gathered like any sharded
tensor, the value of a tensor, which is gathered before, and the ranges of a profile, of
which only the checks matter.  **`Operators`** is `operator.cc`: `InferOutput` does the common checks and calls
these; `Run` makes the outputs of every device.  It also says which tensors may be one
in memory where logical devices are one device of torch (`OutputStorage`): the operand
whose tensors an output may be or be a view of, and the dimensions of the mesh along
which the devices have one tensor between them (what a scatter gives to replicas, and the
result of an all-reduce or of an all-gather of equal pieces).

**`FunctionalApi`** (`api/cpp/functional/`): what each function checks and which operator it
issues, as values: an operator with its inputs, an argument given back, or a refusal.

**`DistributedTensors`** composes them.  The state is the graph's operands with what
every device holds of them, what the caller still holds (handles, which may alias),
the program it has left and the `queue` of operators of the call in progress.  A call
that redistributes first becomes several steps; an operator that throws ends the call
and leaves those before it behind.  An operator is one step for all devices: what its
ranks do to each other in between is `SameDeviceCollectives`' matter.  `whole`, a
history variable of every operand, is what torch makes of the same call on undistributed
tensors: the same kernel on one more device that holds everything (`Undistributed`).
A failed assertion, an exception in a kernel and an unimplemented pair of placements all
set `aborted`.

- `HoldsWhatIsAnnounced`: what the devices hold of every operand that is still read are the
  shards, or summands, of `whole`, in the shapes the framework has announced.  Read are the
  operands the caller holds and the inputs of the steps left; the tensor a
  `redistribute` is about to replace is not, unless the call is going to throw.
- `OrderlyNeverAborts`: a call that has been accepted does not end the process.
- `ReadsBackWhole`, without exception, is violated (section 7).

**`OrderlyCalls`** is the judgement these two rest on, not code: it lists, by their
arguments alone, the calls the code does *not* get right, and both properties hold
as long as no call has been one of them.  `Orderly` is about redistributions: a call is
outside it when

- a mesh dimension starts or stops sharding an axis in front of another that
  shards it (`Nested`);
- the axis does not divide by all the mesh dimensions that shard it before or
  after, and more than one does (`Divisible`);
- sub-splits are uneven, mixed on one axis, or their front part is as long as
  a whole piece (`EvenSubSplits`);
- the pair of placements is not implemented, is `Shard` to `Shard` with a
  sub-split, or reduces to an uneven `Shard(0)` (`Implemented`);
- the two meshes differ in their dimensions;
- on the way from Partial to `Shard(0)` the sum is written to a tensor that somebody
  still reads, be it the operand itself (the source of `copy`) or one that may share its
  storage (a transposed view of it), or that several groups add to (`WritesToNobodyElse`).
  The same predicate judges `set_item` and `copy`, which write to their first input.

`Sound` is about operators; its exceptions are the list of section 7.

`MC*` modules only declare model values, name instances and, for
`DistributedTensors`, the programs.

## 4. Runs

| Run | Bounds | What it shows |
|---|---|---|
| `session` | 3 threads, 3 keys, 2 epochs with the same keys | the protocol's clients are safe and finish; the barrier is a rendezvous |
| `collectives` | 3 ranks, in one process or with one of them in another; three jobs of two or three collectives in a row, every collective in one of them | ranks share one store after every opening and `Reset`; results, operands, completion, no file left |
| `reduce_scatter_operand` | 2 ranks | violation, see section 7 |
| `eager` | CPU and GPU, 2 addresses, 3 operators of any kind; destruction at any moment while there are at most 2 operators | operands, blobs, readiness in every interleaving; destruction ends and futures settle, or else every operator runs and memory comes back |
| `stream` | 3 callers of `Sync`, 2 kernels, 2 calls each | one flag and one condition variable serve them all |
| `async_get` | 2 requests, of a GPU over IPC or in memory, one redistributed in memory, or of the CPU beside processes for the GPUs | the future guards the tensor's memory, `Get` returns, memory is released |
| `async_get_distributed` | 2 requests over IPC, one redistributed | violation |
| `heart_beat` | a worker of this node and one of another, 2 crashes | no false alarm, no missed crash, no orphan |
| `broadcast` | a local and a remote runner, 3 operators, bad transport | order of launches, nothing is sent too early; creation, `Sync` and destruction end |
| `cluster` | workers with 2 GPUs and 1, a main node with 1, 2 graphs, one with a process per device, 1 fault (a death or a repeated registration), both values of `DTensorInSameDevice` | graphs are whole on all nodes, only faults and untimely calls end the main node, calls return, workers are released |
| `distributed_tensors` | redistributions: 2 local devices, two 2x2 meshes, a line of 3, for one shape a 2x2x2 mesh, on a cluster of 8 GPUs; R, P, S(0), S(1), S(0) split after element 3; shapes 8x2, 4x4, 5x3; 3 in a row; of tensors distributed from the start, whose summands are arbitrary, 2 in a row on a line of 2 and a square, 1 on a line of 3. Operators: every one, on tensors of up to 24 elements in every valid placement, on one device, lines of 2 and 3 and a square; 11 programs of several calls | what is announced is what the devices hold, and no kernel fails, but for the calls `OrderlyCalls` lists |
| `redistribution_read_back` | a local device and a 2x2 mesh, R and S(0), shape 4x2 | violation |

Why the bounds are enough.  The hazards are about two threads and a third that
overtakes them (barrier rounds, `Sync`, a rank that opens a file while another
removes it), about an address, key or name that is used a second time (two epochs, two
addresses for three operators, a job of two collectives), about a crash in
the middle of a handshake and another one after it, and about a message
between two others (three operators).  In the cluster two workers of different
sizes are enough for a slice that starts in the wrong place, two graphs for a call
that waits for the mutex of another, and one fault for every assertion it can trip.
Three redistributions are a scatter, a conversion and a gather, or a scatter and two
conversions; the meshes have as many dimensions as it takes for one of them to lie
between two others, and the shapes divide by all, some or none of their sizes.  A rule
of an operator speaks of one dimension of the mesh at a time, so that a line and a
square, where two such decisions meet, show what it does; lines of two and three make
axes that divide and axes that do not.  Every disjunct of every next-state
relation is taken in some passing run.

The type invariants of `TensorStore`, `TensorStoreSession`, `EagerGraph`, `AsyncGetTensor`,
`KernelStream`, `ProcessHeartBeat`, `RemoteBroadcast` and `Cluster` are theorems
(section 6) and not checked again by a run; `CollTypeOK` documents the ranges of variables.

Deadlock is checked except where the system may stop: a session and a collective
job end when all threads have finished (`AllEpochsComplete` and
`CollectivesComplete` say that they end nowhere else), a cluster rests when nobody
uses it or its main node has ended, and `Graph::Destroy` may
really hang in `eager`: it joins a stream that runs one half of a conversion
whose other half was dropped.  `DestroyEnds` says it ends in every other case.
The other modules whose system may rest (a user who makes no more calls, a process
group that has aborted) have an explicit resting step, so that every other deadlock is
an error.

## 5. Fairness

Weak fairness of each thread's own step: the operating system runs every thread
that can run, and no loop of the code backs off for ever.  Calls of the API carry
no fairness.  Woken threads retake the mutex under weak fairness of their next
step, because no other thread holds it for ever.  `ProcessHeartBeat` uses strong
fairness for `MutexStep`: `RegisterWorkerProcess` and `UnregisterWorkerProcess` compete with the
poll thread, which releases the mutex between two workers and sleeps between
rounds, so a waiting thread finds it free again and again.  The device makes
progress under weak fairness of `GpuCompletes`.  In `RemoteBroadcast` the
subscription arrives at last (`Subscribe`), and fairness is conditioned on no process
having aborted.  In `Cluster` threads and processes run, and a call that can only fail
does so at its deadline (`JoinFails`, `CallFails`); nothing says that a worker is ever
started, a graph used or the cluster stopped.  `DistributedTensors` has no liveness: its
operators are single steps.

## 6. Proofs

`TensorStoreProofs` proves, for every finite non-empty set of threads and all
keys and tensors (`StoreAssumption`):

- `StoreTypeOK`;
- `StoreBarrierCountsExact`: `barrierCounts` is the number of threads waiting in the
  current round.  The invariant `BarrierInv` adds to it which round the waiting and
  the woken threads entered.  It is needed because the counter alone does not say
  that a woken thread which has not left yet belongs to an earlier round.  It says
  nothing of tensors, so it also serves the collectives, whose entries are storage cells;
- `StoreRefinesRendezvous`: every step is an arrival, a departure or a stutter of
  `Rendezvous`.  `StepKinds` sorts the actions into three kinds first, so that the
  refinement is proved per kind and not per action.

`TensorStoreSessionProofs` proves, for every assignment of producers and readers to keys
and any number of epochs (`SessionAssumption`):

- `SessionIsClient`: a session is a client of the store, so the theorems above hold of
  it;
- `SessionResetIsolation`: no thread is in the handshake while another clears.  It rests
  on the parity of `barrierRound`, which the constructor's barrier makes 1 and each
  `Reset` moves by two: `RoundInv` says which rounds a thread has entered in which
  epoch, so that nobody can be two barriers ahead of another;
- `SessionNeverAborts` and `SessionFreshTensor`: with `CoreInv`, by which the maps are
  empty between the two barriers and otherwise hold what the producers of this epoch
  have published, no key is published twice and `DestGet` returns the reader's epoch;
- `SessionReleasedMeansFinished`: `EntryInv` says that a counter is the number of readers
  that have finished with its key in this epoch or are past it, a cardinality that
  changes by one with each notification.

`SameDeviceCollectivesProofs` proves, for any number of ranks, any assignment of ranks to
processes, any job of collectives and any number of `Reset`s (`StoreAssumption`,
`LifetimeAssumption`, `CollectiveAssumption`, and two that only say what constants stand
for: `None` is not a segment, `NoneAssumption`, and the keys the collectives use are keys
of the store, `KeyAssumption`):

- `CollectivesRefineRendezvous`: the barriers of all collectives are a rendezvous of all
  ranks, although the store is constructed, shared, moved and dropped by its clients;
- `CollectivesOneStore` (`OneStore`): ranks that use the store of the same `Reset` have the
  same store;
- `CollectivesOperandsNotAccumulated` (`OperandsNotAccumulated`): nothing adds into an
  operand but reduce-scatter and reduce.

All three rest on the layout of the programs (`Programs`): every collective is a barrier,
an exchange, `Reset` between two barriers, and then what needs no store.  The
lists of instructions a loop emits are joined by `FlattenSeq`, a fold; what it
preserves (`Flattened`) is shown by taking a least counterexample (`Least`).  From
the layout, `StageInv` reads the number of barriers a rank has entered off its place in
its programs, and as nobody is more than one barrier ahead (`Close`), the place of
one rank says what the others may still do.  `LifeInv` adds which segment a name, a
manager's entry and a rank's reference lead to; it is inductive because of
`RemovesLast`: when the last user removes the file of a store, no rank has yet to open it.
`DataInv` says which storage cells registers share: the cells that an adding collective
adds into are no operand that must stay as it is (`Spare`), and any other tensor is in
the store only while all ranks are in the exchange of one collective (`PresentInv`,
`Exchanging`), since `Reset` clears it before the next can begin.

`RuntimeProofs` holds the proofs of two small components that share nothing.  About
`KernelStream` it proves, for any number of callers, kernels and calls, on a GPU and
on the CPU (`StreamAssumption`):

- `StreamTypes`;
- `FlagHolds` (`NoAbort`): the assertion on the flag holds.  `FlagInv` says that the flag
  stands for exactly one null kernel, which is in the queue or has just been taken
  from it;
- `SyncWaits` (`SyncWaitsForAll`): what was launched before `Sync` was called has
  finished when it returns.  `WorkInv` says where a launched kernel can be, and that
  nothing a waiting caller waits for is behind the null kernel, although that need not
  be its own: another caller's, put there later, covers it too.

`EagerGraphProofs` proves, for any number of devices, addresses and operators and any
batch size, from `EagerAssumption` alone:

- `EagerTypes`, `EagerNeverAborts` (`NoAbort`), `EagerBlobs` (`BlobsAccountedFor`);
- `EagerInputs` (`InputsIntendedAndFilled`): a kernel reads the tensor its API call named,
  after the kernel that fills it, however often the address of the operand was reused;
- `EagerReady` (`ReadyMeansComputed`).

`EagerInv` follows an operator from the API through the queue to the runner: messages
keep the order of their operators (`OrderInv`), an address has one owner (`OwnerInv`),
who names an operand names one that exists (`UserInv`), and for each operand the API has
dropped there is one message that drops it, behind everything that uses it
(`NoHoldInv`).  This is what makes reuse of addresses harmless, and it only holds while
the executor is there to keep the books.  `StreamInv` goes on with the kernels: those of
a device are in line in the order of their operators (`LineInv`), they run in this order
and none is skipped (`RanInv`), the two halves of a conversion return together
(`StoreInv`), and a GPU completes in the order of what ran (`DeviceInv`).

`AsyncGetTensorProofs` proves, for any number of requests:

- `AsyncTypes`;
- `AsyncFutureGuards` (`FutureGuardsTensor`), from the assumption `NoHandleOfLocal`: no
  redistributed tensor goes through an IPC handle.  Without it the property is false,
  as the run `async_get_distributed` shows; the run `async_get` is within it.  `PathInv`
  says who holds the memory of a redistributed tensor on each part of its way, from the
  message through the kernels and the posted function to the future's value; `RefInv`
  and `FreshInv` that the future is a reference and nothing comes before its request.

About `ProcessHeartBeat` `RuntimeProofs` proves, for every set of workers and any number
of crashes:

- `BeatTypes`;
- `NoAlarmWithoutDeath` (`NoFalseAlarm`).  `MapInv` ties the map of clients to the
  processes: a worker is in it as long as it runs, and the scan only asks members of the
  map, which the mutex keeps from changing under it.

`RemoteBroadcastProofs` proves, for every set of runners and every bound, from
`BroadcastAssumption` alone (what a subscriber may read in place of an id is not a
number it expects):

- `BroadcastTypes`;
- `BroadcastLaunchesInOrder`.  Alone the property is not inductive: the invariant
  `OrderInv` says that message k holds what follows message k-1 and bears the
  number k-1 or garbage (`SentInv`), that what is on its way was sent (`InboxInv`) and
  that a runner has launched exactly what the messages it has accepted hold
  (`LaunchInv`).  Then an accepted message is the next one, since its id is the
  runner's own count;
- `BroadcastReadyFirst`, from `ReadyInv`: where the API thread is tells which runners
  have reported, and operators exist only after that.

`ClusterProofs` proves, for every set of workers and graphs and any number of GPUs and
faults (`ClusterAssumption`):

- `ClusterTypes`, with as many RPCs as clients while a call holds the mutex;
- `ClusterHosts`: `GraphsHosted`, the first half of `GraphsWhole`.  Between two calls every
  live worker hosts exactly the graphs of `mGraphIdSet`, with the devices of its place.
  `HostInv` says the same in the middle of a call, where each client is before or after
  the change by itself (`Expected`); it needs `CallInv` (one call at a time, and it is the
  one that holds the mutex) and `JoinInv` (a registered worker has its server up, or has
  died, or has been told to end).  Nobody may be registered twice (`Twice`): the code does
  not notice and the next `CreateGraph` fails;
- `ClusterWhole` (`GraphsWhole`): the slices of the device numbers that nodes compute from
  the GPU counts share them out.  The prefix sums (`Counter`) are a recursive function,
  and what is shown of them by induction (they grow, and every number is in one slice)
  is shown by taking a least counterexample (`Least`);
- `ClusterAborts` (`AbortsNeedAFault`): every step that ends the main node is excused.
  `IdInv` excludes the assertions about identifiers, `AddressInv` ties the number of
  nodes a thread has read to the one at its next read, `StuckInv` says that a call waits
  for its processes only after a worker joined in between, `SignalInv` covers the end
  of the cluster, and `FaultInv` that the only RPCs to fail are those to processes that
  died or host the graph already.

Only model-checked: all liveness properties (they rest on fairness); `ResultsCorrect`, the
values the collectives compute, which are folds over all ranks (induction over data);
the operators and distributions, which are computations over bounded shapes and meshes by
recursive operators (`HoldsWhatIsAnnounced` compares such computations,
`OrderlyNeverAborts` depends on them).

## 7. Disagreements found

Each of these is a run that TLC finds violated, with the quoted line in
`PROJECT.json`:

- Reduce-scatter changes the operand of the first rank (`reduce_scatter_operand`).
- The future of a redistributed GPU tensor does not hold the tensor whose IPC
  handle it carries (`async_get_distributed`).
- When a mesh dimension in front of one that shards an axis starts to shard it
  too, the pieces end up on the wrong devices, and the tensor read back has its
  rows permuted without an error (`redistribution_read_back`).

The following were found while modelling and have no run of their own.  Those of the
first two groups are what `OrderlyCalls` excludes: without its clause the run
`distributed_tensors` fails.

Redistribution:

- `DistributeGather::GatherShardWithSubSplit` guesses where the front parts end and
  joins them wrongly in some even cases (16 elements split after the fourth
  on a 2x2 mesh); from Partial to Shard(0) the sub-split is ignored
  (`convert_kernel.cc:173`).
- Reduce-scatter within one process overwrites what it reduces (`convert_kernel.cc:175`,
  `thread_group_same_device_backend.cc:250-254`).  `copy` into a tensor that is S(0) of a
  source that is Partial leaves the caller a source whose first summand is the sum; so does
  `redistribute` of a tensor for the views of it that the caller has kept.
- AllReduce within one process hands all ranks one tensor (`:135`, `:139`), and a scatter
  gives one to all replicas.  [P, P] to [R, S(0)] therefore reduces [R, P] in two groups
  whose ranks 0 have one operand, and the rest is added to it twice.
- Behind the first summand a scatter to Partial gives all devices the same zeros
  (`distributed_scather_and_gather.cc:83`); an in-place `copy` into such a tensor on three
  devices or more writes two summands to one place.  No program of the runs does this.
- Uneven axes split along one mesh dimension after another get other sizes than
  `ComputeLocalShape` announces.  The repository's tests with uneven sizes on a 2-D
  mesh are commented out (`src/python/dtorch/test/test_distributed_tensor.py:211-235`).
- A destination may be valid and the way to it not: [S(0), R] to [R, S(0)] passes
  through [S(0), S(0)], which a short axis does not allow.
- `ToReplicateWhenDimSizeEqualOne` and `ShardDimToPositiveNumber` change the data the
  caller's `PlacementSeq` shares, and the latter drops the sub-split.
- `ConvertOpImpl`'s constructor compares the placements before it has set the
  destination's (`convert_op_impl.h:38`), so `mConvertPlacement` is always true at first.
- `distributed_tensor.md` section 2 describes padding during `redistribute`; the code
  has none.

Operators, accepted and then wrong or fatal:

- Signatures match by hash keys that leave out the sub-split (`ToHashKey`,
  `distributed_spec.cc:181`): operands cut in different places are combined.
- A scalar added to, or a clamp of, a Partial tensor applies to every summand.
  `clamp` and the masked operators do not compare the placements of bounds and mask;
  `masked_scatter` reads its source from the beginning on every device.  A clamp with only
  an upper tensor is not checked, one with no bound is accepted and throws in the kernel.
- `matmul` accepts half of a contraction (K sharded on one side only) and announces
  a sum; the kernel throws.  Batch dimensions of operands of different ranks are looked up
  at the wrong place (`broadcast_binary_op.cc:103`, `:108`).
- `mean` over uneven pieces is the mean of means (`reduce_kernel.cc:113`); `any` and `all`
  without an axis but with `keepdim` return another shape; a reduction over two
  dimensions of the mesh is not implemented.
- `softmax` along the dimension behind the last is accepted; a bias of the wrong length
  passes `&&` in `linear_op.cc:35`; `interpolate` calls a vector's constructor with its
  arguments exchanged.
- Attention takes axis 2 for the tokens whatever the rank, masks shards causally as if
  each were the first, and expects a whole mask.
- The fused operators check nothing: shapes, weights and the placements of their other
  inputs are taken as they come, and a sharded or partial axis that the function needs
  whole goes unnoticed.
- Convolution ignores `same` padding in the kernel (`conv_op.cc:116` announces it,
  `torch_kernel.cc:222-228` does not pass it); convolution and pooling use one side of
  asymmetric pads; a sharded image is not seen to be cut at multiples of the stride;
  `PoolingParam`'s `ceilMode = false` assigns its own parameter (`pooling_op.cc:52-54`);
  an average knows no dilation, though one is announced; windows behind the image are
  announced and dropped by torch.
- `concat` of uneven or split pieces; `squeeze` of a sharded axis of which a device holds
  one element; `expand` of a sharded tensor uses the whole size; `flatten` is off by one
  in trailing axes (`flatten_op.cc:84`); `flatten`, `reshape` and `view` of axes that do
  not divide; `view` does not count elements.
- `view` of other placements compares them with the shape only, not with those of the
  input: the tensors stay and what they mean changes.
- `get_item` expects a tensor index in front, announces one element for an empty
  slice with a step, and takes any slice for half of a split axis; `set_item` uses global
  indices on shards.
- `full` with a Partial placement adds up to a multiple; the placements of created
  tensors are not validated; a torch tensor of another device is taken for local.
- `concat` of one tensor returns the same tensor, which a later in-place operator changes;
  `to` throws an exception without a text (`tensor_functional.cc:373`).

Collectives and stores:

- The backend's `broadcast` announces `srcRank - 1` readers
  (`thread_group_same_device_backend.cc:99`), where `tensor_store.h:120` asks for the
  number of `DestGet` calls.  Nothing calls it today.
- AllReduce within one process returns the same storage to all ranks
  (`thread_group_same_device_backend.cc:135`, `:139`).
- The segment of a file store has one size, while AllToAll puts a key per pair of ranks.
  The shared-memory file of a void promise is never removed
  (`file_void_promise_future.cc:123-129`, on purpose, by its comment).

Processes and nodes:

- The id frame of a broadcast message is a view of a temporary string that is
  gone when it is sent (`remote_runner_publisher.cc:55`, `:63`); `RemoteBroadcast` lets
  it be anything.
- ZMQ_EVENT_CONNECTED does not ensure "that the subscriber won't miss the first
  published messages" (`remote_runner_subscriber.cc:29-41`): the subscription
  follows it.  The ready notification travels on another socket.  A missed message
  is noticed only when a later one arrives; `SyncAlwaysReturns` therefore excludes it.
- After a missed beat the main process starts detached threads that tell the
  workers to stop and calls `std::abort` in the next statement
  (`process_heart_beat.cc:83`, `:102-104`); `process_heart_beat.md:110-112` has an
  orderly exit.  The workers exit by their own polls (`OrphansExit`).
- The members of the main heart beat are destroyed in the order that lets the map of workers
  go before the server that changes it (`process_heart_beat.h:70`).
- A worker that joins between `main_node.cc:67` and `:70` makes `SyncClusterConfig` read
  through a heart beat that is not there.
- A worker that joins between `graph.cc:104` and `:118` makes the executor assert, or
  starts processes that wait for an address and end the main node after a minute; one that
  joins once graphs exist ends the main node by an assertion.
- A repeated registration adds the worker twice, and the next `CreateGraph` aborts; a
  registration that waits for a graph's call times out after three seconds.
- A worker has no way to notice that its main node has died (`worker_node.cc:71-80`), and a
  dead worker makes `~MainNode` abort.  The worker's map of runners has no mutex.

## 8. What is not modelled

- Operators: `FuseOp` (nothing builds one), costs, serialisation, in-place activations, element types, images wider than one pixel, the values of
  random numbers, empty tensors.  A row of memory statistics is one number; rows are not
  added up (`MergeAsDTensorInSameDevice`).  Ranges of a profile have no state in DTorch.  Asynchronous
  overlap of calls is `EagerGraph`'s, interleaving of ranks `SameDeviceCollectives`'; the
  three are not one model.
- Shared storage is known by the operand it comes from, not by its parts, and a write to it
  changes the operand that is written, not the others that share it: `OrderlyCalls` excludes
  the call if one of them is still read.  Devices are those of one process, where most is
  shared; with NCCL, between processes or between GPUs what is received is copied and
  reduce-scatter leaves its operand alone.
- Redistribution: the conversion of data kinds, named dimensions of a mesh.
- `EagerGraph` has one thread of the API, as the queue (one producer) requires.
- `RemoteBroadcast` leaves out the CPU runner of the main node, what a batch does
  to blobs (`EagerGraph` has it), deadlines of RPCs (a missed one is fatal; `Cluster` has
  them), and the death of a runner (`ProcessHeartBeat` has it).  A destruction without a
  `Sync` before it may hang with a collective in flight; the model shows it (it may rest
  there) and no property denies it.
- `Cluster`: a second life of the cluster, `WaitClusterReady` (it reads only), choice of
  addresses, the contents of options and environment.
- The store: sizes of segments, CUDA events exchanged between processes, the death of a rank
  with a segment open.  `send`, `recv` and `broadcast` of the backend have no caller.
- The thread-group manager's map of several groups, read without the mutex its writers hold.
- gRPC, ZeroMQ, CUDA and libtorch are external: modelled from their use.
- Components with status `not_modelled` in `PROJECT.json` carry their reason.
