-------------------------- MODULE TensorStoreSession --------------------------
(***************************************************************************)
(* The store under the clients the code has: kernels and collectives that  *)
(* follow the protocol of tensor_store.h.  A session is a series of        *)
(* epochs separated by Reset().  In each epoch every key has one producer  *)
(* that calls SrcSet with getCount = the number of its getters, and a      *)
(* thread first publishes its own keys, then gets and finishes the keys it *)
(* consumes, and only then waits for its own keys to be consumed (the      *)
(* order ConvertKernel::ConvertDeviceMesh and the all-to-all use; a thread *)
(* that waited before getting could block its own producer).               *)
(***************************************************************************)
EXTENDS TensorStore

CONSTANTS Producer,    \* Producer[k]: the thread that sets key k
          Getters,     \* Getters[k]: the threads that get key k
          MaxEpoch     \* bound: number of epochs

\* A tensor is named after the key and the epoch it was set for.
EpochTensor == Key \X (1..MaxEpoch)

ASSUME SessionAssumption ==
    /\ Producer \in [Key -> Rank]
    /\ Getters \in [Key -> SUBSET Rank]
    /\ MaxEpoch \in Nat \ {0}
    /\ Tensor = EpochTensor
    /\ MaxCount >= WorldSize

VARIABLES
    epoch,      \* the epoch a thread is in, 0 before its first operation
    published,  \* keys the thread has called SrcSet for in this epoch
    taken,      \* keys the thread has called DestGet for
    finished,   \* keys the thread has called DestFinishGet for
    released    \* keys the thread has called SrcWaitUntilGetFinished for

clientVars  == <<epoch, published, taken, finished, released>>
sessionVars == <<storeVars, clientVars>>

OwnKeys(t)  == {k \in Key : Producer[k] = t}
GetKeys(t)  == {k \in Key : t \in Getters[k]}
Holding(t)  == taken[t] \ finished[t]

SessionInit ==
    /\ StoreInit
    /\ epoch = [t \in Rank |-> 1]
    /\ published = [t \in Rank |-> {}]
    /\ taken = [t \in Rank |-> {}]
    /\ finished = [t \in Rank |-> {}]
    /\ released = [t \in Rank |-> {}]

-----------------------------------------------------------------------------
Publish(t, k) ==
    /\ k \in OwnKeys(t) \ published[t]
    /\ SrcSet(t, k, <<k, epoch[t]>>, Cardinality(Getters[k]))
    /\ published' = [published EXCEPT ![t] = @ \cup {k}]
    /\ UNCHANGED <<epoch, taken, finished, released>>

\* Several tensors may be held at once.
Take(t, k) ==
    /\ published[t] = OwnKeys(t)
    /\ k \in GetKeys(t) \ taken[t]
    /\ DestGet(t, k)
    /\ taken' = [taken EXCEPT ![t] = @ \cup {k}]
    /\ UNCHANGED <<epoch, published, finished, released>>

Finish(t, k) ==
    /\ k \in Holding(t)
    /\ DestFinishGet(t, k)
    /\ finished' = [finished EXCEPT ![t] = @ \cup {k}]
    /\ UNCHANGED <<epoch, published, taken, released>>

Release(t, k) ==
    /\ published[t] = OwnKeys(t)
    /\ finished[t] = GetKeys(t)
    /\ k \in published[t] \ released[t]
    /\ SrcWaitUntilGetFinished(t, k)
    /\ released' = [released EXCEPT ![t] = @ \cup {k}]
    /\ UNCHANGED <<epoch, published, taken, finished>>

EpochDone(t) ==
    /\ pc[t] = "idle"
    /\ finished[t] = GetKeys(t)
    /\ released[t] = OwnKeys(t)

\* All done with this epoch: Reset() and start over with the same keys.
NextEpoch(t) ==
    /\ EpochDone(t)
    /\ epoch[t] < MaxEpoch
    /\ Reset(t)
    /\ epoch' = [epoch EXCEPT ![t] = @ + 1]
    /\ published' = [published EXCEPT ![t] = {}]
    /\ taken' = [taken EXCEPT ![t] = {}]
    /\ finished' = [finished EXCEPT ![t] = {}]
    /\ released' = [released EXCEPT ![t] = {}]

ClientCall(t) ==
    \/ \E k \in Key : Publish(t, k) \/ Take(t, k) \/ Finish(t, k) \/ Release(t, k)
    \/ NextEpoch(t)

\* The client runs on its own; only a spurious wake-up comes from outside.
ThreadStep(t) ==
    \/ ClientCall(t)
    \/ (Construct(t) \/ InnerStep(t)) /\ UNCHANGED clientVars

SessionNext == \E t \in Rank : ThreadStep(t) \/ (SpuriousWake(t) /\ UNCHANGED clientVars)

\* Every thread keeps running: kernels run on threads of their own
\* (KernelStream) that the scheduler does not stop.
SessionSpec ==
    /\ SessionInit
    /\ [][SessionNext]_sessionVars
    /\ \A t \in Rank : WF_sessionVars(ThreadStep(t))

-----------------------------------------------------------------------------
Blocked(t, k) == arg[t] = k /\ pc[t] \in {"srcWait", "destGet"}

\* Once SrcWaitUntilGetFinished(k) has returned, every consumer has called
\* DestFinishGet(k): the producer may reuse the tensor (tensor_store.h:90).
ReleasedMeansFinished ==
    \A t \in Rank : \A k \in released[t] :
        ~Blocked(t, k) => \A u \in Getters[k] : epoch[u] > epoch[t] \/ k \in finished[u]

\* What DestGet returns is the tensor set for this key in the reader's own
\* epoch, never one left over from before a Reset nor another key's
\* (MemoryTensorStore::DestGet after Reset and SrcSet with the same key).
FreshTensor ==
    \A t \in Rank :
        pc[t] = "idle" /\ arg[t] \in Holding(t) => got[t] = <<arg[t], epoch[t]>>

\* No thread is inside or about to start a handshake while another may clear.
ResetIsolation ==
    \A t \in Rank : pc[t] = "clear" =>
        \A u \in Rank : pc[u] \in {"clear", "second", "waitFirst", "wakeFirst", "wait"}

\* Every thread completes every epoch: with notify_all only at completion of a
\* key, at SrcSet and at the last arrival, no waiter is left asleep, and no
\* assertion of the store ends the process first.
AllEpochsComplete == <>(\A t \in Rank : epoch[t] = MaxEpoch /\ EpochDone(t))

=============================================================================
