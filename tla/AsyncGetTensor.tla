--------------------------- MODULE AsyncGetTensor ---------------------------
(***************************************************************************)
(* Tensor::GetTorchTensorAsync: the GetTensor operator travels to the      *)
(* process of the device, a pool thread of that process (for a tensor of   *)
(* the CPU, the kernel itself) fulfils a TensorPromise, and the API thread *)
(* takes the value out of the TensorFuture.  Who keeps the memory alive on *)
(* the way?                                                                *)
(*                                                                         *)
(* With kMemory the value in the future is the tensor itself; with kFile   *)
(* it is a CUDA IPC handle, which holds nothing.  A block that nobody      *)
(* holds goes back to the caching allocator and to the next tensor.        *)
(* The graph, the executor and the runner are one FIFO of messages here    *)
(* (EagerGraph models them), and the work of a kernel ends with Run.       *)
(***************************************************************************)
EXTENDS Naturals, Sequences, FiniteSets

CONSTANTS Request,      \* calls of _GetTensorAsync
          Mode          \* the kinds of clusters and workloads to consider

ASSUME AsyncAssumption ==
    \A m \in Mode : /\ m.perDevicePerProcess \in BOOLEAN
                   /\ m.device \in {"cpu", "gpu"}
                   /\ m.distributed \subseteq Request

VARIABLES
    mode,       \* fixed at the start: perDevicePerProcess, the graph's option;
                \* device, the kind of device the tensors are on; distributed,
                \* the requests whose input is redistributed first
    apiRefs,    \* API objects that reference each request's input tensor
    messages,   \* on their way to the runner
    kernels,    \* mKernelQueue of the device's stream
    pool,       \* posted to BoostAsioThreadPool
    held,       \* what keeps a tensor's device memory alive
    storage,    \* what is in that memory
    hasValue,   \* the promises that are fulfilled
    call,       \* what the API thread does with each future
    asleep      \* in cv.wait

asyncVars == <<mode, apiRefs, messages, kernels, pool, held, storage, hasValue, call, asleep>>

Distributed == mode.distributed

\* The tensors of the CPU stay with PerDeviceProcessNodeRunner::mCpuRunner.
InOtherProcess == mode.perDevicePerProcess /\ mode.device = "gpu"

GetTensorPromiseTypeFromOperand ==
    IF mode.device = "gpu" /\ mode.perDevicePerProcess THEN "file" ELSE "memory"

\* A promise in memory does not travel.
CreateTensorPromiseFromSerialized(type) == IF type = "file" THEN "file" ELSE "null"

\* The promise the operator has where it runs.
Promise == IF InOtherProcess THEN CreateTensorPromiseFromSerialized(GetTensorPromiseTypeFromOperand)
                             ELSE GetTensorPromiseTypeFromOperand

Input(r) == <<"input", r>>
\* localTensor: the input itself, or the result of _Redistribute.
Local(r) == IF r \in Distributed THEN <<"local", r>> ELSE Input(r)
Tensor   == {Input(r) : r \in Request} \cup {Local(r) : r \in Request}

Message == {<<kind, Local(r)>> : kind \in {"redistribute", "getTensor"}, r \in Request}
           \cup {<<"noHold", t>> : t \in Tensor}

\* A message about a tensor belongs to its request.
RequestOf(message) == message[2][2]

AsyncTypeOK ==
    /\ mode \in Mode
    /\ apiRefs \in [Request -> SUBSET {"user", "future"}]
    /\ messages \in Seq(Message)
    /\ kernels \in Seq(Message)
    /\ pool \subseteq Request
    /\ held \in [Tensor -> SUBSET {"blob", "kernel", "pool", "value", "result"}]
    /\ storage \in [Tensor -> {"none", "filled", "reused"}]
    /\ hasValue \subseteq Request
    /\ call \in [Request -> {"none", "idle", "Get", "Wait", "WaitFor", "opening", "got", "gone"}]
    /\ asleep \subseteq Request

AsyncInit ==
    /\ mode \in Mode
    /\ apiRefs = [r \in Request |-> {"user"}]
    /\ messages = <<>> /\ kernels = <<>> /\ pool = {}
    /\ held = [t \in Tensor |-> IF t[1] = "input" THEN {"blob"} ELSE {}]
    /\ storage = [t \in Tensor |-> IF t[1] = "input" THEN "filled" ELSE "none"]
    /\ hasValue = {}
    /\ call = [r \in Request |-> "none"]
    /\ asleep = {}

-----------------------------------------------------------------------------
(* The API thread *)

\* Mutant of GetTensorAsync: the future does not keep the tensor.
GetTensorAsyncUnguarded(r) ==
    /\ call[r] = "none" /\ "user" \in apiRefs[r]
    /\ call' = [call EXCEPT ![r] = "idle"]
    /\ messages' = messages \o
          IF r \in Distributed
          THEN << <<"redistribute", Local(r)>>, <<"getTensor", Local(r)>>, <<"noHold", Local(r)>> >>
          ELSE << <<"getTensor", Local(r)>> >>
    /\ UNCHANGED <<mode, apiRefs, kernels, pool, held, storage, hasValue, asleep>>

\* The future takes a reference to the input; localTensor goes out of scope.
GetTensorAsync(r) ==
    /\ call[r] = "none" /\ "user" \in apiRefs[r]
    /\ call' = [call EXCEPT ![r] = "idle"]
    /\ apiRefs' = [apiRefs EXCEPT ![r] = @ \cup {"future"}]
    /\ messages' = messages \o
          IF r \in Distributed
          THEN << <<"redistribute", Local(r)>>, <<"getTensor", Local(r)>>, <<"noHold", Local(r)>> >>
          ELSE << <<"getTensor", Local(r)>> >>
    /\ UNCHANGED <<mode, kernels, pool, held, storage, hasValue, asleep>>

\* Mutant of Release: the last reference goes silently.
ReleaseSilently(r, holder) ==
    /\ holder \in apiRefs[r]
    /\ apiRefs' = [apiRefs EXCEPT ![r] = @ \ {holder}]
    /\ UNCHANGED messages

\* ApiTensorRefCountDecrease: the last reference sends ApiTensorNoHold.
Release(r, holder) ==
    /\ holder \in apiRefs[r]
    /\ apiRefs' = [apiRefs EXCEPT ![r] = @ \ {holder}]
    /\ \/ apiRefs[r] = {holder} /\ messages' = Append(messages, <<"noHold", Input(r)>>)
       \/ apiRefs[r] # {holder} /\ UNCHANGED messages

DropTensor(r) ==
    /\ Release(r, "user")
    /\ UNCHANGED <<mode, kernels, pool, held, storage, hasValue, call, asleep>>

\* A std::future takes its value with it; so does a result that is dropped.
DropFuture(r) ==
    /\ call[r] \in {"idle", "got"}
    /\ "future" \in apiRefs[r] => Release(r, "future")
    /\ "future" \notin apiRefs[r] => UNCHANGED <<apiRefs, messages>>
    /\ call' = [call EXCEPT ![r] = "gone"]
    /\ held' = [held EXCEPT ![Local(r)] = @ \ {"value", "result"}]
    /\ UNCHANGED <<mode, kernels, pool, storage, hasValue, asleep>>

-----------------------------------------------------------------------------
(* TensorFuture *)

\* What a call does when it finds the promise fulfilled.
Answered(r, op) ==
    call' = [call EXCEPT ![r] = IF op = "Get" THEN "opening" ELSE "idle"]

Block(r, op) ==
    /\ call' = [call EXCEPT ![r] = op]
    /\ asleep' = asleep \cup {r}

CallFuture(r, op) ==
    /\ call[r] = "idle"
    /\ \/ r \in hasValue /\ Answered(r, op) /\ UNCHANGED asleep
       \/ r \notin hasValue /\ Block(r, op)
    /\ UNCHANGED <<mode, apiRefs, messages, kernels, pool, held, storage, hasValue>>

Resume(r) ==
    /\ call[r] \in {"Get", "Wait", "WaitFor"} /\ r \notin asleep
    /\ \/ r \in hasValue /\ Answered(r, call[r]) /\ UNCHANGED asleep
       \/ r \notin hasValue /\ Block(r, call[r])
    /\ UNCHANGED <<mode, apiRefs, messages, kernels, pool, held, storage, hasValue>>

SpuriousWake(r) ==
    /\ r \in asleep
    /\ asleep' = asleep \ {r}
    /\ UNCHANGED <<mode, apiRefs, messages, kernels, pool, held, storage, hasValue, call>>

\* WaitFor gives up, with the answer false unless the promise is fulfilled.
TimeOut(r) ==
    /\ call[r] = "WaitFor" /\ r \in asleep
    /\ asleep' = asleep \ {r}
    /\ call' = [call EXCEPT ![r] = "idle"]
    /\ UNCHANGED <<mode, apiRefs, messages, kernels, pool, held, storage, hasValue>>

\* After the lock is released: open the IPC handle, or own the tensor.
Open(r) ==
    /\ call[r] = "opening"
    /\ call' = [call EXCEPT ![r] = "got"]
    /\ held' = [held EXCEPT ![Local(r)] =
                   IF "value" \in @ THEN (@ \ {"value"}) \cup {"result"} ELSE @]
    /\ UNCHANGED <<mode, apiRefs, messages, kernels, pool, storage, hasValue, asleep>>

-----------------------------------------------------------------------------
(* The process of the device *)

Hold(t, holder) == held' = [held EXCEPT ![t] = @ \cup holder]

\* NaiveRunner::Execute: kernels hold their blobs until they have run.
ProcessMessage ==
    /\ messages # <<>>
    /\ messages' = Tail(messages)
    /\ LET message == Head(messages)
           t == message[2]
       IN  \/ /\ message[1] = "redistribute"
              /\ Hold(t, {"blob", "kernel"})
              /\ kernels' = Append(kernels, message)
           \/ /\ message[1] = "getTensor"
              /\ Hold(t, {"kernel"})
              /\ kernels' = Append(kernels, message)
           \/ /\ message[1] = "noHold"
              /\ held' = [held EXCEPT ![t] = @ \ {"blob"}]
              /\ UNCHANGED kernels
    /\ UNCHANGED <<mode, apiRefs, pool, storage, hasValue, call, asleep>>

\* Is the kernel at the head of the stream the last one that uses t?
StillUsed(t) == \E i \in 2..Len(kernels) : kernels[i][2] = t

AfterKernel(t) == IF StillUsed(t) THEN held[t] ELSE held[t] \ {"kernel"}

\* The value of a promise in memory is the tensor, that of a file a handle.
ValueHolds(r) == IF Promise = "memory" /\ call[r] # "gone" THEN {"value"} ELSE {}

\* GetTensorOp::Compute: a GPU tensor is posted with the event to wait for, a
\* CPU tensor is there.
Compute(r) ==
    \/ mode.device = "gpu" /\ pool' = pool \cup {r} /\ UNCHANGED <<hasValue, asleep>>
    \/ mode.device = "cpu" /\ hasValue' = hasValue \cup {r} /\ asleep' = asleep \ {r} /\ UNCHANGED pool
ComputeHolds(r) == IF mode.device = "gpu" THEN {"pool"} ELSE ValueHolds(r)

Run ==
    /\ kernels # <<>>
    /\ kernels' = Tail(kernels)
    /\ LET message == Head(kernels)
           t == message[2]
       IN  \/ /\ message[1] = "redistribute"
              /\ storage' = [storage EXCEPT ![t] = "filled"]
              /\ held' = [held EXCEPT ![t] = AfterKernel(t)]
              /\ UNCHANGED <<pool, hasValue, asleep>>
           \/ /\ message[1] = "getTensor" /\ Promise # "null"
              /\ Compute(RequestOf(message))
              /\ held' = [held EXCEPT ![t] = AfterKernel(t) \cup ComputeHolds(RequestOf(message))]
              /\ UNCHANGED storage
    /\ UNCHANGED <<mode, apiRefs, messages, call>>

\* SetValue in the pool.
PoolSetsValue(r) ==
    /\ r \in pool \ hasValue
    /\ hasValue' = hasValue \cup {r}
    /\ Hold(Local(r), ValueHolds(r))
    /\ UNCHANGED <<mode, apiRefs, messages, kernels, pool, storage, call, asleep>>

\* Mutant of PoolReturns: the notification is lost.
PoolReturnsSilently(r) ==
    /\ r \in pool \cap hasValue
    /\ pool' = pool \ {r}
    /\ held' = [held EXCEPT ![Local(r)] = @ \ {"pool"}]
    /\ UNCHANGED <<mode, apiRefs, messages, kernels, storage, hasValue, call, asleep>>

\* notify_all after the unlock, then the posted function drops its tensor.
PoolReturns(r) ==
    /\ r \in pool \cap hasValue
    /\ pool' = pool \ {r}
    /\ asleep' = asleep \ {r}
    /\ held' = [held EXCEPT ![Local(r)] = @ \ {"pool"}]
    /\ UNCHANGED <<mode, apiRefs, messages, kernels, storage, hasValue, call>>

\* The caching allocator gives the block to another tensor.
Reuse(t) ==
    /\ storage[t] = "filled" /\ held[t] = {}
    /\ storage' = [storage EXCEPT ![t] = "reused"]
    /\ UNCHANGED <<mode, apiRefs, messages, kernels, pool, held, hasValue, call, asleep>>

-----------------------------------------------------------------------------
Client(r) ==
    \/ GetTensorAsync(r) \/ DropTensor(r) \/ DropFuture(r)
    \/ \E op \in {"Get", "Wait", "WaitFor"} : CallFuture(r, op)

Device == ProcessMessage \/ Run \/ (\E r \in Request : PoolSetsValue(r) \/ PoolReturns(r))

\* Everything has been dropped and released.
AtRest ==
    /\ messages = <<>> /\ kernels = <<>> /\ pool = {}
    /\ \A r \in Request : call[r] \in {"none", "gone"} /\ apiRefs[r] = {}
    /\ UNCHANGED asyncVars

AsyncNext ==
    \/ \E r \in Request : Client(r) \/ Resume(r) \/ Open(r) \/ SpuriousWake(r) \/ TimeOut(r)
    \/ Device
    \/ \E t \in Tensor : Reuse(t)
    \/ AtRest

\* The device's process and an API thread inside a call run; nobody has to
\* call anything, to drop anything or to allocate.
AsyncSpec ==
    /\ AsyncInit /\ [][AsyncNext]_asyncVars
    /\ WF_asyncVars(ProcessMessage) /\ WF_asyncVars(Run)
    /\ \A r \in Request :
          /\ WF_asyncVars(PoolSetsValue(r)) /\ WF_asyncVars(PoolReturns(r))
          /\ WF_asyncVars(Resume(r)) /\ WF_asyncVars(Open(r))

-----------------------------------------------------------------------------
(* Properties *)

\* As long as somebody has the TensorFuture, what it hands out is the tensor
\* that was asked for, before and after Get(): the API object holds a tensor
\* "to prevent the tensor from being destructed before the future, a
\* use-after-free" (tensor_communicate.md:684, tensor_future.cc:20).
FutureGuardsTensor ==
    \A r \in hasValue : call[r] # "gone" => storage[Local(r)] = "filled"

\* A Get() or Wait() whose promise gets fulfilled returns, whenever the
\* notification comes (file_tensor_promise_future.cc:147-160).
GetsReturn ==
    \A r \in Request : call[r] \in {"Get", "Wait", "opening"} ~> call[r] \in {"idle", "got"}

\* What nobody references any more is given back, with a request still under
\* way when the references go (graph_constructor.cc:115-132).
DroppedIsReleased ==
    \A r \in Request :
        apiRefs[r] = {} /\ call[r] \in {"none", "gone"}
            ~> held[Input(r)] = {} /\ held[Local(r)] = {}

=============================================================================
