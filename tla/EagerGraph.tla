----------------------------- MODULE EagerGraph -----------------------------
(***************************************************************************)
(* One graph in thread mode, end to end: the API thread (GraphConstructor) *)
(* pushes messages to the executor thread (EagerGraphExecutor), which      *)
(* turns operators into kernels (NaiveRunner) and launches them into one   *)
(* KernelStream thread per device; values come back through promises that  *)
(* a CPU kernel sets itself and a GPU kernel hands, with an event, to a    *)
(* thread pool.                                                            *)
(*                                                                         *)
(* Operands are named everywhere by their address.  The allocator may give *)
(* an address to a new operand as soon as no shared_ptr to the old one is  *)
(* left, while an ApiTensorNoHold message carries a bare pointer: the      *)
(* model keeps addresses in a small set Addr and picks a new operand's     *)
(* address among all those that are free.                                  *)
(***************************************************************************)
EXTENDS Naturals, Sequences, FiniteSets

CONSTANTS Device,      \* the devices of the cluster, one compute stream each
          Gpu,         \* those whose kernels only enqueue work on the device
          Addr,        \* operand addresses
          NoAddr,      \* stands for an absent operand
          OpKind,      \* kinds of operators the API issues
          MaxOp,       \* bound: operators issued
          BatchSize,   \* getMsgMaxSize: messages taken per round (100)
          DestroyOps   \* bound: operators of a graph that is destroyed

ASSUME EagerAssumption ==
    /\ IsFiniteSet(Device)
    /\ Gpu \subseteq Device
    /\ NoAddr \notin Addr
    /\ OpKind \subseteq {"create", "compute", "convert", "get", "sync"}
    /\ MaxOp \in Nat
    /\ BatchSize \in Nat \ {0}
    /\ DestroyOps \in 0..MaxOp

VARIABLES
    ops,              \* operators issued so far; an operator's id is its index
    mOperandCaches,   \* GraphConstructor: apiTensorRefCount, 0 for no entry
    tensor,           \* which operator's output the API tensor at an address is
    queue,            \* EGEMessageQueue::mMessageQueue
    execPc,           \* control state of EagerGraphExecutor::AsyncMain
    msgCount,         \* ProcessMessages' getMsgCount
    newOps,           \* mNewAddOperatorSequence, then what is left of it
    newNoHold,        \* mNewAddNoHoldOperand
    batchOps,         \* the shared_ptr's of ExecuteOperatorsAndNoHoldOperands
    mOperandMap,      \* LogicalGraph::mOperandMap
    mOperandToBlobs,  \* NaiveRunner: operator whose blobs an address names, or 0
    unlaunched,       \* NaiveRunner::Execute's kernels not launched yet
    kernelQueue,      \* KernelStream::mKernelQueue per device
    running,          \* kernel the stream thread is running
    streamPc,         \* control state of KernelStream::AsyncMain
    arrived,          \* devices inside an operator's TensorStore constructor
    ran,              \* <<id, device>>: the kernel's Run() returned
    onDevice,         \* operators whose work is enqueued on a GPU
    posted,           \* promises handed to BoostAsioThreadPool with their event
    ready,            \* <<id, device>>: the promise has its value
    destroyPc,        \* progress of ~EagerGraphExecutor
    streamDestroy,    \* KernelStream::SharedInfo::destroy
    aborted           \* a DAlwaysAssert failed

apiVars    == <<ops, mOperandCaches, tensor>>
execVars   == <<execPc, msgCount, newOps, newNoHold, batchOps, mOperandMap, mOperandToBlobs, unlaunched>>
streamVars == <<running, streamPc, arrived, ran, onDevice>>
futureVars == <<posted, ready>>
endVars    == <<destroyPc, streamDestroy>>
eagerVars  == <<apiVars, queue, execVars, kernelQueue, streamVars, futureVars, endVars, aborted>>

Id       == 1..MaxOp
NoKernel == [op |-> 0, device |-> NoAddr, input |-> 0]   \* also the nullptr kernel
Kernel   == [op : Id, device : Device, input : 0..MaxOp] \cup {NoKernel}
Message  == [type : {"addOperator"}, op : Id] \cup [type : {"noHold"}, operand : Addr]
                \cup [type : {"null"}]
Operator == [kind : OpKind, input : Addr \cup {NoAddr}, want : 0..MaxOp,
             output : Addr \cup {NoAddr}, mesh : SUBSET Device, kernels : SUBSET Device]

EagerTypeOK ==
    /\ ops \in Seq(Operator) /\ Len(ops) <= MaxOp
    /\ mOperandCaches \in [Addr -> Nat]
    /\ tensor \in [Addr -> 0..MaxOp]
    /\ queue \in Seq(Message)
    /\ execPc \in {"poll", "execute", "create", "exited"}
    /\ msgCount \in 0..BatchSize
    /\ newOps \in Seq(Id) /\ newNoHold \in Seq(Addr) /\ batchOps \subseteq Id
    /\ mOperandMap \subseteq Addr
    /\ mOperandToBlobs \in [Addr -> 0..MaxOp]
    /\ unlaunched \in [Device -> Seq(Kernel)]
    /\ kernelQueue \in [Device -> Seq(Kernel)]
    /\ running \in [Device -> Kernel]
    /\ streamPc \in [Device -> {"loop", "run", "inStore", "exited"}]
    /\ arrived \in [Id -> SUBSET Device]
    /\ ran \subseteq Id \X Device
    /\ onDevice \in [Gpu -> Seq(Id)]
    /\ posted \subseteq [op : Id, device : Gpu, event : SUBSET Id]
    /\ ready \subseteq Id \X Device
    /\ destroyPc \in {"no", "signal", "join", "streams", "gone"}
    /\ streamDestroy \in [Device -> BOOLEAN]
    /\ aborted \in BOOLEAN

EagerInit ==
    /\ ops = <<>>
    /\ mOperandCaches = [a \in Addr |-> 0]
    /\ tensor = [a \in Addr |-> 0]
    /\ queue = <<>>
    /\ execPc = "poll" /\ msgCount = 0
    /\ newOps = <<>> /\ newNoHold = <<>> /\ batchOps = {}
    /\ mOperandMap = {}
    /\ mOperandToBlobs = [a \in Addr |-> 0]
    /\ unlaunched = [d \in Device |-> <<>>]
    /\ kernelQueue = [d \in Device |-> <<>>]
    /\ running = [d \in Device |-> NoKernel]
    /\ streamPc = [d \in Device |-> "loop"]
    /\ arrived = [i \in Id |-> {}]
    /\ ran = {}
    /\ onDevice = [d \in Gpu |-> <<>>]
    /\ posted = {} /\ ready = {}
    /\ destroyPc = "no"
    /\ streamDestroy = [d \in Device |-> FALSE]
    /\ aborted = FALSE

-----------------------------------------------------------------------------
(* Who still holds an operand *)

Elements(s) == {s[i] : i \in 1..Len(s)}

\* Operators some shared_ptr or unique_ptr still points to.
LiveOps ==
    {m.op : m \in {x \in Elements(queue) : x.type = "addOperator"}}
        \cup Elements(newOps) \cup batchOps
        \cup {running[d].op : d \in Device}
        \cup UNION {{k.op : k \in Elements(kernelQueue[d])} : d \in Device}

\* An address the allocator may return: nothing owns an operand there.
Free(a) ==
    /\ mOperandCaches[a] = 0
    /\ a \notin mOperandMap
    /\ \A i \in LiveOps \ {0} : a \notin {ops[i].input, ops[i].output}

-----------------------------------------------------------------------------
(* The API thread *)

\* GraphConstructor::AddOperator: the operand cache entry, the message, and
\* the API tensor that takes the first reference.
AddOperator(op) ==
    /\ ~aborted /\ destroyPc = "no"
    /\ Len(ops) < MaxOp
    /\ op.kind \in OpKind
    /\ ops' = Append(ops, op)
    /\ queue' = Append(queue, [type |-> "addOperator", op |-> Len(ops) + 1])
    /\ \/ /\ op.output = NoAddr
          /\ UNCHANGED <<mOperandCaches, tensor>>
       \/ /\ op.output # NoAddr
          /\ mOperandCaches' = [mOperandCaches EXCEPT ![op.output] = 1]
          /\ tensor' = [tensor EXCEPT ![op.output] = Len(ops) + 1]
    /\ UNCHANGED <<execVars, kernelQueue, streamVars, futureVars, endVars, aborted>>

Held == {a \in Addr : mOperandCaches[a] > 0}

\* A device mesh has one device kind.
Mesh == {m \in SUBSET Device : m # {} /\ (m \subseteq Gpu \/ m \cap Gpu = {})}

MeshOf(a) == ops[tensor[a]].mesh

Create ==
    \E mesh \in Mesh, a \in Addr :
        /\ Free(a)
        /\ AddOperator([kind |-> "create", input |-> NoAddr, want |-> 0,
                        output |-> a, mesh |-> mesh, kernels |-> mesh])

Compute ==
    \E x \in Held, a \in Addr :
        /\ Free(a)
        /\ AddOperator([kind |-> "compute", input |-> x, want |-> tensor[x],
                        output |-> a, mesh |-> MeshOf(x), kernels |-> MeshOf(x)])

\* Redistribution to another device mesh: a kernel on every device of either.
Convert ==
    \E x \in Held, a \in Addr, mesh \in Mesh :
        /\ Free(a)
        /\ mesh # MeshOf(x)
        /\ AddOperator([kind |-> "convert", input |-> x, want |-> tensor[x],
                        output |-> a, mesh |-> mesh, kernels |-> mesh \cup MeshOf(x)])

\* Only a tensor on one device is read; the API converts others first.
GetTensorAsync ==
    \E x \in Held :
        /\ Cardinality(MeshOf(x)) = 1
        /\ AddOperator([kind |-> "get", input |-> x, want |-> tensor[x],
                        output |-> NoAddr, mesh |-> {}, kernels |-> MeshOf(x)])

SyncFuture ==
    AddOperator([kind |-> "sync", input |-> NoAddr, want |-> 0,
                 output |-> NoAddr, mesh |-> {}, kernels |-> Device])

\* Mutant of ApiTensorRefCountDecrease: the cache entry goes, no message is sent.
DecreaseSilently(a) ==
    /\ ~aborted /\ destroyPc = "no"
    /\ mOperandCaches[a] > 0
    /\ mOperandCaches' = [mOperandCaches EXCEPT ![a] = @ - 1]
    /\ tensor' = [tensor EXCEPT ![a] = 0]
    /\ UNCHANGED <<ops, queue, execVars, kernelQueue, streamVars, futureVars, endVars, aborted>>

\* The last API reference to an operand is dropped.
ApiTensorRefCountDecrease(a) ==
    /\ ~aborted /\ destroyPc = "no"
    /\ mOperandCaches[a] = 1
    /\ mOperandCaches' = [mOperandCaches EXCEPT ![a] = 0]
    /\ tensor' = [tensor EXCEPT ![a] = 0]
    /\ queue' = Append(queue, [type |-> "noHold", operand |-> a])
    /\ UNCHANGED <<ops, execVars, kernelQueue, streamVars, futureVars, endVars, aborted>>

-----------------------------------------------------------------------------
(* The executor thread *)

Abort ==
    /\ aborted' = TRUE
    /\ UNCHANGED <<apiVars, queue, execVars, kernelQueue, streamVars, futureVars, endVars>>

\* EGEMessageQueue::Destroy has been called: its flag is set.
QueueDestroyed == destroyPc \notin {"no", "signal"}

\* One message of ProcessMessages.  The queue's flag is looked at after the
\* message has been taken: that message is lost.
ProcessMessage ==
    /\ ~aborted
    /\ execPc = "poll" /\ queue # <<>>
    /\ queue' = Tail(queue)
    /\ \/ /\ QueueDestroyed
          /\ execPc' = "exited"
          /\ UNCHANGED <<msgCount, newOps, newNoHold, mOperandMap>>
       \/ /\ ~QueueDestroyed
          /\ msgCount' = msgCount + 1
          /\ execPc' = IF msgCount + 1 = BatchSize THEN "execute" ELSE "poll"
          /\ \/ /\ Head(queue).type = "addOperator"
                /\ newOps' = Append(newOps, Head(queue).op)
                /\ mOperandMap' = mOperandMap \cup ({ops[Head(queue).op].output} \ {NoAddr})
                /\ UNCHANGED newNoHold
             \/ /\ Head(queue).type = "noHold"
                /\ newNoHold' = Append(newNoHold, Head(queue).operand)
                /\ UNCHANGED <<newOps, mOperandMap>>
    /\ UNCHANGED <<apiVars, batchOps, mOperandToBlobs, unlaunched, kernelQueue, streamVars, futureVars, endVars, aborted>>

\* TryDequeue finds nothing after at least one message.
NoMoreMessages ==
    /\ ~aborted
    /\ execPc = "poll" /\ queue = <<>> /\ msgCount > 0
    /\ execPc' = "execute"
    /\ UNCHANGED <<apiVars, queue, msgCount, newOps, newNoHold, batchOps, mOperandMap,
                   mOperandToBlobs, unlaunched, kernelQueue, streamVars, futureVars, endVars, aborted>>

\* Mutant of BeginExecute: the operands nobody holds are dropped first.
BeginExecuteDeletesFirst ==
    /\ ~aborted
    /\ execPc = "execute" /\ destroyPc = "no"
    /\ execPc' = "create" /\ batchOps' = Elements(newOps)
    /\ mOperandToBlobs' = [a \in Addr |-> IF a \in Elements(newNoHold) THEN 0 ELSE mOperandToBlobs[a]]
    /\ UNCHANGED <<apiVars, queue, msgCount, newOps, newNoHold, mOperandMap,
                   unlaunched, kernelQueue, streamVars, futureVars, endVars, aborted>>

\* Mutant of BeginExecute: a batch without operands to drop is not executed.
BeginExecuteNeedsBoth ==
    /\ ~aborted
    /\ execPc = "execute"
    /\ \/ newNoHold = <<>> /\ newOps' = <<>> /\ msgCount' = 0 /\ execPc' = "poll" /\ UNCHANGED batchOps
       \/ newNoHold # <<>> /\ execPc' = "create" /\ batchOps' = Elements(newOps) /\ UNCHANGED <<newOps, msgCount>>
    /\ UNCHANGED <<apiVars, queue, newNoHold, mOperandMap, mOperandToBlobs,
                   unlaunched, kernelQueue, streamVars, futureVars, endVars, aborted>>

\* AsyncMain looks at its own flag before it executes what it has collected.
BeginExecute ==
    /\ ~aborted
    /\ execPc = "execute"
    /\ \/ destroyPc # "no" /\ execPc' = "exited" /\ UNCHANGED batchOps
       \/ destroyPc = "no" /\ execPc' = "create" /\ batchOps' = Elements(newOps)
    /\ UNCHANGED <<apiVars, queue, msgCount, newOps, newNoHold, mOperandMap,
                   mOperandToBlobs, unlaunched, kernelQueue, streamVars, futureVars, endVars, aborted>>

Resident         == {a \in Addr : mOperandToBlobs[a] # 0}
BlobsPresent(op) == op.input \in Resident \cup {NoAddr}
OutputAbsent(op) == op.output \notin Resident
InputBlobs(op)   == IF op.input = NoAddr THEN 0 ELSE mOperandToBlobs[op.input]

CreateKernels(i, input) ==
    unlaunched' = [d \in Device |-> IF d \in ops[i].kernels
                                    THEN Append(unlaunched[d], [op |-> i, device |-> d, input |-> input])
                                    ELSE unlaunched[d]]

\* The next operator of the batch: its inputs' blobs are looked up, its output
\* gets new ones, and every device of it a kernel that captures both.
CreateKernelForOperator ==
    /\ ~aborted
    /\ execPc = "create" /\ newOps # <<>>
    /\ LET i == Head(newOps)
           op == ops[i]
       IN  \/ /\ ~BlobsPresent(op) \/ ~OutputAbsent(op)
              /\ Abort
           \/ /\ BlobsPresent(op) /\ OutputAbsent(op)
              /\ mOperandToBlobs' = [a \in Addr |-> IF a = op.output THEN i ELSE mOperandToBlobs[a]]
              /\ CreateKernels(i, InputBlobs(op))
              /\ newOps' = Tail(newOps)
              /\ UNCHANGED <<apiVars, queue, execPc, msgCount, newNoHold, batchOps, mOperandMap,
                             kernelQueue, streamVars, futureVars, endVars, aborted>>

\* NaiveRunner::DeleteOperand for every operand of the batch.
DeleteAsserts == Elements(newNoHold) \subseteq Resident /\ Cardinality(Elements(newNoHold)) = Len(newNoHold)
KeepBlobs     == UNCHANGED mOperandToBlobs   \* mutant of DeleteBlobs
DeleteBlobs   == mOperandToBlobs' = [a \in Addr |-> IF a \in Elements(newNoHold) THEN 0 ELSE mOperandToBlobs[a]]

\* Mutant of LaunchKernels: the batch goes in front of each stream's queue.
LaunchKernelsFirst == kernelQueue' = [d \in Device |-> unlaunched[d] \o kernelQueue[d]]

\* KernelStream::LaunchKernel for every kernel of the batch.
LaunchKernels == kernelQueue' = [d \in Device |-> kernelQueue[d] \o unlaunched[d]]

NextBatch == execPc' = "poll" /\ batchOps' = {} /\ newNoHold' = <<>> /\ msgCount' = 0

\* The rest of the batch: the runner drops its operands, then launches, and
\* the logical graph drops its operands.  One step: a stream that is slow to
\* take a kernel cannot tell it from one that was launched late.
FinishBatch ==
    /\ ~aborted
    /\ execPc = "create" /\ newOps = <<>>
    /\ \/ /\ ~DeleteAsserts
          /\ Abort
       \/ /\ DeleteAsserts
          /\ DeleteBlobs
          /\ LaunchKernels
          /\ unlaunched' = [d \in Device |-> <<>>]
          /\ mOperandMap' = mOperandMap \ Elements(newNoHold)
          /\ NextBatch
          /\ UNCHANGED <<apiVars, queue, newOps, streamVars, futureVars, endVars, aborted>>

ExecutorStep ==
    \/ ProcessMessage \/ NoMoreMessages \/ BeginExecute
    \/ CreateKernelForOperator \/ FinishBatch

-----------------------------------------------------------------------------
(* The stream threads *)

\* Only a conversion between meshes opens the operator's TensorStore.
Rendezvous(i) == ops[i].kind = "convert" /\ Cardinality(ops[i].kernels) > 1

\* GPUs a conversion reads from.
SourceGpus(i) == IF ops[i].kind = "convert" THEN ops[ops[i].want].mesh \cap Gpu ELSE {}

\* The work enqueued on the sources before the conversion is done.
SourcesDone(i) == \A g \in SourceGpus(i) : \A j \in Elements(onDevice[g]) : j >= i

\* The flag is looked at after the kernel has been taken: it is lost.
TakeKernel(d) ==
    /\ ~aborted
    /\ streamPc[d] = "loop" /\ kernelQueue[d] # <<>>
    /\ kernelQueue' = [kernelQueue EXCEPT ![d] = Tail(@)]
    /\ \/ /\ streamDestroy[d]
          /\ streamPc' = [streamPc EXCEPT ![d] = "exited"]
          /\ UNCHANGED running
       \/ /\ ~streamDestroy[d]
          /\ running' = [running EXCEPT ![d] = Head(kernelQueue[d])]
          /\ streamPc' = [streamPc EXCEPT ![d] = "run"]
    /\ UNCHANGED <<apiVars, queue, execVars, arrived, ran, onDevice, futureVars, endVars, aborted>>

\* The kernel constructs its TensorStore and waits there for the others.
EnterTensorStore(d) ==
    /\ ~aborted
    /\ streamPc[d] = "run" /\ Rendezvous(running[d].op)
    /\ streamPc' = [streamPc EXCEPT ![d] = "inStore"]
    /\ arrived' = [arrived EXCEPT ![running[d].op] = @ \cup {d}]
    /\ UNCHANGED <<apiVars, queue, execVars, kernelQueue, running, ran, onDevice, futureVars, endVars, aborted>>

\* Compute() may return: at once, or when the exchange has taken place.  A
\* value that goes from a GPU to a CPU is copied by a blocking to(cpu).
ComputeReturns(d) ==
    LET i == running[d].op IN
    \/ streamPc[d] = "run" /\ ~Rendezvous(i)
    \/ /\ streamPc[d] = "inStore"
       /\ arrived[i] = ops[i].kernels
       /\ ops[i].mesh \subseteq Gpu \/ SourcesDone(i)

HandsOver(i) == ops[i].kind \in {"get", "sync"}

\* Mutant of SetPromise: a GPU kernel sets the promise without an event.
SetPromiseAtOnce(d, i) ==
    /\ ready' = ready \cup {<<i, d>>}
    /\ UNCHANGED posted

\* GetTensorOp::Compute and SyncKernel::Compute.
SetPromise(d, i) ==
    \/ /\ d \in Gpu
       /\ posted' = posted \cup {[op |-> i, device |-> d, event |-> Elements(onDevice[d])]}
       /\ UNCHANGED ready
    \/ /\ d \notin Gpu
       /\ ready' = ready \cup {<<i, d>>}
       /\ UNCHANGED posted

Run(d) ==
    /\ ~aborted
    /\ streamPc[d] \in {"run", "inStore"} /\ ComputeReturns(d)
    /\ LET i == running[d].op IN
       /\ ran' = ran \cup {<<i, d>>}
       /\ \/ HandsOver(i) /\ SetPromise(d, i) /\ UNCHANGED onDevice
          \/ ~HandsOver(i) /\ d \in Gpu /\ onDevice' = [onDevice EXCEPT ![d] = Append(@, i)] /\ UNCHANGED futureVars
          \/ ~HandsOver(i) /\ d \notin Gpu /\ UNCHANGED <<onDevice, futureVars>>
    /\ running' = [running EXCEPT ![d] = NoKernel]
    /\ streamPc' = [streamPc EXCEPT ![d] = "loop"]
    /\ UNCHANGED <<apiVars, queue, execVars, kernelQueue, arrived, endVars, aborted>>

\* The device finishes the oldest work of its stream; a conversion waits for
\* the event its source recorded in SrcSet.
GpuCompletes(d) ==
    /\ ~aborted
    /\ onDevice[d] # <<>> /\ SourcesDone(Head(onDevice[d]))
    /\ onDevice' = [onDevice EXCEPT ![d] = Tail(@)]
    /\ UNCHANGED <<apiVars, queue, execVars, kernelQueue, running, streamPc, arrived, ran, futureVars, endVars, aborted>>

\* A thread of BoostAsioThreadPool: event->Synchronize(), promise->SetValue().
PoolSetsValue(p) ==
    /\ ~aborted
    /\ p \in posted
    /\ p.event \cap Elements(onDevice[p.device]) = {}
    /\ posted' = posted \ {p}
    /\ ready' = ready \cup {<<p.op, p.device>>}
    /\ UNCHANGED <<apiVars, queue, execVars, kernelQueue, streamVars, endVars, aborted>>

StreamStep(d) == TakeKernel(d) \/ EnterTensorStore(d) \/ Run(d)

-----------------------------------------------------------------------------
(* Destruction: ~EagerGraphExecutor, then ~KernelStream for each stream *)

SignalDestroy ==
    /\ Len(ops) <= DestroyOps /\ ~aborted
    /\ destroyPc = "no"
    /\ destroyPc' = "signal"
    /\ UNCHANGED <<apiVars, queue, execVars, kernelQueue, streamVars, futureVars, streamDestroy, aborted>>

DestroyQueue ==
    /\ ~aborted
    /\ destroyPc = "signal"
    /\ queue' = Append(queue, [type |-> "null"])
    /\ destroyPc' = "join"
    /\ UNCHANGED <<apiVars, execVars, kernelQueue, streamVars, futureVars, streamDestroy, aborted>>

JoinExecutor ==
    /\ ~aborted
    /\ destroyPc = "join" /\ execPc = "exited"
    /\ destroyPc' = "streams"
    /\ UNCHANGED <<apiVars, queue, execVars, kernelQueue, streamVars, futureVars, streamDestroy, aborted>>

\* Mutant of DestroyStream: nothing wakes the thread up.
DestroyStreamSilently(d) ==
    /\ ~aborted
    /\ destroyPc = "streams"
    /\ ~streamDestroy[d]
    /\ \A e \in Device : streamDestroy[e] => streamPc[e] = "exited"
    /\ streamDestroy' = [streamDestroy EXCEPT ![d] = TRUE]
    /\ UNCHANGED <<apiVars, queue, execVars, kernelQueue, streamVars, futureVars, destroyPc, aborted>>

\* One stream at a time: the previous one has been joined.
DestroyStream(d) ==
    /\ ~aborted
    /\ destroyPc = "streams"
    /\ ~streamDestroy[d]
    /\ \A e \in Device : streamDestroy[e] => streamPc[e] = "exited"
    /\ streamDestroy' = [streamDestroy EXCEPT ![d] = TRUE]
    /\ kernelQueue' = [kernelQueue EXCEPT ![d] = Append(@, NoKernel)]
    /\ UNCHANGED <<apiVars, queue, execVars, streamVars, futureVars, destroyPc, aborted>>

\* Mutant of DestroyReturns: the streams' queues outlive the graph.
DestroyReturnsLeaking ==
    /\ ~aborted
    /\ destroyPc = "streams" /\ \A d \in Device : streamPc[d] = "exited"
    /\ destroyPc' = "gone"
    /\ queue' = <<>> /\ newOps' = <<>> /\ newNoHold' = <<>>
    /\ mOperandMap' = {}
    /\ mOperandToBlobs' = [a \in Addr |-> 0]
    /\ UNCHANGED <<apiVars, execPc, msgCount, batchOps, unlaunched, kernelQueue, streamVars,
                   futureVars, streamDestroy, aborted>>

\* The members go: queued kernels, the logical graph, unread messages.
DestroyReturns ==
    /\ ~aborted
    /\ destroyPc = "streams" /\ \A d \in Device : streamPc[d] = "exited"
    /\ destroyPc' = "gone"
    /\ queue' = <<>> /\ newOps' = <<>> /\ newNoHold' = <<>>
    /\ kernelQueue' = [d \in Device |-> <<>>]
    /\ mOperandMap' = {}
    /\ mOperandToBlobs' = [a \in Addr |-> 0]
    /\ UNCHANGED <<apiVars, execPc, msgCount, batchOps, unlaunched, streamVars, futureVars, streamDestroy, aborted>>

-----------------------------------------------------------------------------
Api ==
    \/ Create \/ Compute \/ Convert \/ GetTensorAsync \/ SyncFuture
    \/ \E a \in Addr : ApiTensorRefCountDecrease(a)

DestroyStep ==
    \/ DestroyQueue \/ JoinExecutor \/ DestroyReturns
    \/ \E d \in Device : DestroyStream(d)

\* Nothing to do: an idle graph, or none any more, or a dead process.
AtRest ==
    /\ execPc \in {"poll", "exited"} /\ msgCount = 0 /\ queue = <<>>
    /\ destroyPc \in {"no", "gone"}
    /\ \A d \in Device : streamPc[d] \in {"loop", "exited"} /\ kernelQueue[d] = <<>>
    /\ \A d \in Gpu : onDevice[d] = <<>>
    /\ posted = {}

Idle == (AtRest \/ aborted) /\ UNCHANGED eagerVars

EagerNext ==
    \/ Api \/ ExecutorStep
    \/ \E d \in Device : StreamStep(d)
    \/ \E d \in Gpu : GpuCompletes(d)
    \/ \E p \in posted : PoolSetsValue(p)
    \/ SignalDestroy \/ DestroyStep \/ Idle

\* Every thread that can move moves; the API thread owes nothing but to go on
\* with a destruction it has begun.
EagerFairness ==
    /\ WF_eagerVars(ExecutorStep)
    /\ \A d \in Device : WF_eagerVars(StreamStep(d))
    /\ \A d \in Gpu : WF_eagerVars(GpuCompletes(d))
    /\ WF_eagerVars(\E p \in posted : PoolSetsValue(p))
    /\ WF_eagerVars(DestroyStep)

EagerSpec == EagerInit /\ [][EagerNext]_eagerVars /\ EagerFairness

-----------------------------------------------------------------------------
(* Properties *)

\* NaiveRunner never meets an operand it does not know, one it already has, or
\* one it has already deleted: the DAlwaysAsserts of CreateKernelForOperator
\* and DeleteOperand hold although the NoHold messages carry bare addresses
\* that the allocator reuses (naive_runner.cc:83, 91, 122).
NoAbort == ~aborted

\* A kernel has captured the blobs of the operator the API call named, not of
\* a later operator at the same address, and when it runs its stream has
\* already filled the one it reads (naive_runner.cc:80-85, kernel.cc:96-99).
InputsIntendedAndFilled ==
    \A d \in Device : streamPc[d] \in {"run", "inStore"} =>
        LET i == running[d].op
            w == ops[i].want
        IN  /\ running[d].input = w
            /\ w # 0 /\ d \in ops[w].mesh => <<w, d>> \in ran

PendingNoHold(a) ==
    {n \in DOMAIN queue : queue[n].type = "noHold" /\ queue[n].operand = a}

\* No leak and no double release: outside a batch, an operand has blobs exactly
\* when the API still holds it or one, and only one, NoHold message for it is
\* on its way, or its operator has not been turned into kernels yet; the
\* logical graph lists the same operands as the runner.
BlobsAccountedFor ==
    execPc = "poll" /\ msgCount = 0 /\ destroyPc # "gone" =>
        /\ mOperandMap = Resident
        /\ \A a \in mOperandMap :
            /\ Cardinality(PendingNoHold(a)) = (IF tensor[a] = mOperandToBlobs[a] THEN 0 ELSE 1)

\* Operators whose output an operator is computed from, and itself: those in
\* every set that has it and, with an operator, the one that its input is from.
Ancestors(i) ==
    {j \in 1..Len(ops) : \A S \in SUBSET (1..Len(ops)) :
        i \in S /\ (\A k \in S : ops[k].want # 0 => ops[k].want \in S) => j \in S}

Computed(i, d) == <<i, d>> \in ran /\ (d \in Gpu => i \notin Elements(onDevice[d]))

ComputedEverywhere(i) == i <= Len(ops) /\ \A d \in ops[i].kernels : Computed(i, d)

\* A future that is ready stands for finished work: everything issued earlier
\* to the same stream and everything its value was computed from on any device
\* has completed, not merely been launched (sync_kernel.cc:38-54,
\* get_tensor_op.cc:30-51).
ReadyMeansComputed ==
    \A f \in ready :
        /\ \A j \in 1..f[1] - 1 : f[2] \in ops[j].kernels => Computed(j, f[2])
        /\ \A j \in Ancestors(f[1]) \ {f[1]} : \A d \in ops[j].mesh : Computed(j, d)

\* Unless the graph is destroyed, every operator the API accepted runs on all
\* its devices, conversions that make the streams wait for each other
\* included: all streams see the operators in one order.  (The API issues at
\* most MaxOp operators, so "each in the end" is "in the end all of them".)
EveryOperatorRuns ==
    <>[](destroyPc # "no" \/ \A i \in 1..Len(ops) : ComputedEverywhere(i))

\* Memory comes back: once the API has dropped a tensor its blobs leave the
\* runner, unless the graph is destroyed first.
DroppedTensorsAreFreed ==
    <>[](destroyPc # "no" \/ \A a \in Addr : mOperandToBlobs[a] \in {0, tensor[a]})

\* A promise whose operator no queue, kernel or pool thread owns any more is
\* broken: std::future::get throws.
Settled(i, d) ==
    \/ <<i, d>> \in ready
    \/ /\ i \notin LiveOps
       /\ \A p \in posted : p.op # i \/ p.device # d

\* Conversions some of whose kernels have not run.
OpenConversions == {i \in 1..Len(ops) : Rendezvous(i) /\ \E d \in ops[i].kernels : <<i, d>> \notin ran}

\* Destruction ends, whatever was queued, if no conversion was under way when
\* it began (one may otherwise have lost half of its kernels: see README).
DestroyEnds == destroyPc = "signal" /\ OpenConversions = {} ~> destroyPc = "gone"

Promises(i, d) == i <= Len(ops) /\ HandsOver(i) /\ d \in ops[i].kernels

\* After a destruction nobody waits for a value forever: each future of the
\* graph has its value or is broken (memory promises).
FuturesSettle ==
    destroyPc = "gone" ~> \A i \in Id, d \in Device : Promises(i, d) => Settled(i, d)

=============================================================================
