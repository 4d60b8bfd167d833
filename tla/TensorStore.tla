----------------------------- MODULE TensorStore -----------------------------
(***************************************************************************)
(* MemoryTensorStore: the in-process tensor exchange that kernels of one   *)
(* operator and the same-device collectives are built on.  One shared Impl *)
(* (a mutex, a condition variable, maps from keys, barrier counters) and   *)
(* WorldSize threads that call it.                                         *)
(*                                                                         *)
(* A critical section of the Impl mutex is one step.  cv.wait is modelled  *)
(* explicitly: a thread that waits is put into `asleep' and stays there    *)
(* until some thread calls notify_all, which the code does after releasing *)
(* the mutex and which is therefore a step of its own; a woken thread      *)
(* retakes the mutex, evaluates its predicate and returns or sleeps again. *)
(*                                                                         *)
(* This module is the store under its most general client: every thread    *)
(* may call every operation at any time with any key.  TensorStoreSession  *)
(* and SameDeviceCollectives extend it with the clients of the code.       *)
(***************************************************************************)
EXTENDS Naturals, FiniteSets

CONSTANTS Rank,        \* the participating threads; worldSize is their number
          Key,         \* keys of the store
          Tensor,      \* tensor handles
          NoTensor,    \* stands for an absent map entry, not a tensor
          MaxCount,    \* largest getCount passed to SrcSet
          MaxRound     \* bound: number of barriers that may complete

ASSUME StoreAssumption ==
    /\ IsFiniteSet(Rank)
    /\ Rank # {}
    /\ Key # {}
    /\ NoTensor \notin Tensor
    /\ MaxCount \in Nat
    /\ MaxRound \in Nat

WorldSize == Cardinality(Rank)

VARIABLES
    tensorMap,          \* Impl::tensorMap, NoTensor where there is no entry
    targetGetCountMap,  \* Impl::targetGetCountMap, entries as in tensorMap
    actualGetCountMap,  \* Impl::actualGetCountMap, entries as in tensorMap
    worldSize,          \* Impl::worldSize, 0 until the first constructor
    barrierCounts,      \* Impl::barrierCounts
    barrierRound,       \* Impl::barrierRound
    asleep,             \* threads inside cv.wait that no notify_all has woken
    pc,                 \* where each thread is inside the store
    arg,                \* key of the thread's last SrcWaitUntilGetFinished/DestGet
    currentRound,       \* Barrier()'s local currentRound
    got,                \* what the thread's last DestGet returned
    aborted             \* a DAlwaysAssert or map::at of the store failed

dataVars    == <<tensorMap, targetGetCountMap, actualGetCountMap>>
barrierVars == <<worldSize, barrierCounts, barrierRound, currentRound>>
storeVars   == <<dataVars, barrierVars, asleep, pc, arg, got, aborted>>

\* "new": not constructed yet; "ctor": constructor about to call Barrier;
\* "idle": not inside an operation; "notify": unlocked, about to notify_all;
\* "clear"/"second": inside Reset, between its two barriers.  The suffix of a
\* barrier state says what the thread does when that Barrier() returns.
WaitStates   == {"wait", "waitFirst"}
WakeStates   == {"wake", "wakeFirst"}
BarrierState == WaitStates \cup WakeStates
PcState      == {"new", "ctor", "idle", "notify", "srcWait", "destGet",
                 "clear", "second"} \cup BarrierState

TypeOK ==
    /\ tensorMap \in [Key -> Tensor \cup {NoTensor}]
    /\ targetGetCountMap \in [Key -> Nat]
    /\ actualGetCountMap \in [Key -> Nat]
    /\ worldSize \in {0, WorldSize}
    /\ barrierCounts \in Nat
    /\ barrierRound \in Nat
    /\ asleep \subseteq Rank
    /\ pc \in [Rank -> PcState]
    /\ arg \in [Rank -> Key]
    /\ currentRound \in [Rank -> Nat]
    /\ got \in [Rank -> Tensor \cup {NoTensor}]
    /\ aborted \in BOOLEAN

StoreInit ==
    /\ tensorMap = [k \in Key |-> NoTensor]
    /\ targetGetCountMap = [k \in Key |-> 0]
    /\ actualGetCountMap = [k \in Key |-> 0]
    /\ worldSize = 0
    /\ barrierCounts = 0
    /\ barrierRound = 0
    /\ asleep = {}
    /\ pc = [t \in Rank |-> "new"]
    /\ arg = [t \in Rank |-> CHOOSE k \in Key : TRUE]
    /\ currentRound = [t \in Rank |-> 0]
    /\ got = [t \in Rank |-> NoTensor]
    /\ aborted = FALSE

-----------------------------------------------------------------------------
(* Helpers *)

Present(k) == tensorMap[k] # NoTensor

At(t, state) == ~aborted /\ pc[t] = state

Goto(t, state) == pc' = [pc EXCEPT ![t] = state]

\* DAlwaysAssert and an unhandled out_of_range end the process.
Abort ==
    /\ aborted' = TRUE
    /\ UNCHANGED <<dataVars, barrierVars, asleep, pc, arg, got>>

\* cv.wait: release the mutex and sleep at `state'.
Sleep(t, state) ==
    /\ Goto(t, state)
    /\ asleep' = asleep \cup {t}

-----------------------------------------------------------------------------
(* Barrier *)

\* Mutant of EnterBarrier: the last arrival forgets to reset barrierCounts.
EnterBarrierNoReset(t, waiting, waking) ==
    /\ barrierCounts < worldSize
    /\ barrierRound < MaxRound
    /\ currentRound' = [currentRound EXCEPT ![t] = barrierRound]
    /\ barrierCounts' = barrierCounts + 1
    /\ IF barrierCounts + 1 = worldSize
       THEN barrierRound' = barrierRound + 1 /\ Goto(t, waking) /\ UNCHANGED asleep
       ELSE Sleep(t, waiting) /\ UNCHANGED barrierRound
    /\ UNCHANGED <<dataVars, worldSize, arg, got, aborted>>

\* The entry part of Barrier(): `waiting' and `waking' are the control states
\* of the caller while it waits and while it is about to notify.
EnterBarrier(t, waiting, waking) ==
    \/ /\ barrierCounts >= worldSize
       /\ Abort
    \/ /\ barrierCounts < worldSize
       /\ barrierRound < MaxRound
       /\ currentRound' = [currentRound EXCEPT ![t] = barrierRound]
       /\ \/ /\ barrierCounts + 1 = worldSize
             /\ barrierCounts' = 0
             /\ barrierRound' = barrierRound + 1
             /\ Goto(t, waking)
             /\ UNCHANGED asleep
          \/ /\ barrierCounts + 1 # worldSize
             /\ barrierCounts' = barrierCounts + 1
             /\ Sleep(t, waiting)
             /\ UNCHANGED barrierRound
       /\ UNCHANGED <<dataVars, worldSize, arg, got, aborted>>

AfterBarrier(state) == IF state \in {"waitFirst", "wakeFirst"} THEN "clear" ELSE "idle"

\* Mutant of ResumeBarrier: cv.wait without its predicate.
ResumeBarrierUnchecked(t) ==
    /\ ~aborted
    /\ pc[t] \in WaitStates
    /\ t \notin asleep
    /\ Goto(t, AfterBarrier(pc[t]))
    /\ UNCHANGED <<dataVars, barrierVars, asleep, arg, got, aborted>>

\* A thread woken in Barrier() re-evaluates currentRound != barrierRound.
ResumeBarrier(t) ==
    /\ ~aborted
    /\ pc[t] \in WaitStates
    /\ t \notin asleep
    /\ \/ /\ currentRound[t] # barrierRound
          /\ Goto(t, AfterBarrier(pc[t]))
          /\ UNCHANGED asleep
       \/ /\ currentRound[t] = barrierRound
          /\ Sleep(t, pc[t])
    /\ UNCHANGED <<dataVars, barrierVars, arg, got, aborted>>

\* The last arrival, already unlocked, calls notify_all and returns.
NotifyBarrier(t) ==
    /\ ~aborted
    /\ pc[t] \in WakeStates
    /\ asleep' = {}
    /\ Goto(t, AfterBarrier(pc[t]))
    /\ UNCHANGED <<dataVars, barrierVars, arg, got, aborted>>

Barrier(t) == At(t, "idle") /\ EnterBarrier(t, "wait", "wake")

-----------------------------------------------------------------------------
(* Construction and Reset *)

\* The constructor fixes worldSize under the mutex; every participant passes
\* the same one (TensorStoreCreateInfo::worldSize).
Construct(t) ==
    /\ At(t, "new")
    /\ worldSize' = WorldSize
    /\ Goto(t, "ctor")
    /\ UNCHANGED <<dataVars, barrierCounts, barrierRound, currentRound, asleep, arg, got, aborted>>

ConstructBarrier(t) == At(t, "ctor") /\ EnterBarrier(t, "wait", "wake")

Reset(t) == At(t, "idle") /\ EnterBarrier(t, "waitFirst", "wakeFirst")

\* Mutant of ResetClear: the tensors stay in tensorMap.
ResetClearCountsOnly(t) ==
    /\ At(t, "clear")
    /\ targetGetCountMap' = [k \in Key |-> 0]
    /\ actualGetCountMap' = [k \in Key |-> 0]
    /\ Goto(t, "second")
    /\ UNCHANGED <<tensorMap, barrierVars, asleep, arg, got, aborted>>

ResetClear(t) ==
    /\ At(t, "clear")
    /\ tensorMap' = [k \in Key |-> NoTensor]
    /\ targetGetCountMap' = [k \in Key |-> 0]
    /\ actualGetCountMap' = [k \in Key |-> 0]
    /\ Goto(t, "second")
    /\ UNCHANGED <<barrierVars, asleep, arg, got, aborted>>

\* Mutant of ResetSecondBarrier: Reset returns as soon as it has cleared.
ResetReturns(t) ==
    /\ At(t, "second")
    /\ Goto(t, "idle")
    /\ UNCHANGED <<dataVars, barrierVars, asleep, arg, got, aborted>>

ResetSecondBarrier(t) == At(t, "second") /\ EnterBarrier(t, "wait", "wake")

-----------------------------------------------------------------------------
(* The four-step handshake *)

SrcSet(t, k, value, getCount) ==
    /\ At(t, "idle")
    /\ \/ /\ Present(k)
          /\ Abort
       \/ /\ ~Present(k)
          /\ tensorMap' = [tensorMap EXCEPT ![k] = value]
          /\ targetGetCountMap' = [targetGetCountMap EXCEPT ![k] = getCount]
          /\ actualGetCountMap' = [actualGetCountMap EXCEPT ![k] = 0]
          /\ Goto(t, "notify")
          /\ UNCHANGED <<barrierVars, asleep, arg, got, aborted>>

\* Mutant of NotifyAll: nobody is notified.
NotifyNobody(t) ==
    /\ At(t, "notify")
    /\ Goto(t, "idle")
    /\ UNCHANGED <<dataVars, barrierVars, asleep, arg, got, aborted>>

\* notify_all of SrcSet and of the DestFinishGet that completes a key.
NotifyAll(t) ==
    /\ At(t, "notify")
    /\ asleep' = {}
    /\ Goto(t, "idle")
    /\ UNCHANGED <<dataVars, barrierVars, arg, got, aborted>>

\* Both maps are read with at(); the wait is entered only when actual < target
\* and its predicate is equality, which is asserted again afterwards.
SrcWaitUntilGetFinished(t, k) ==
    /\ At(t, "idle")
    /\ \/ /\ ~Present(k) \/ actualGetCountMap[k] > targetGetCountMap[k]
          /\ Abort
       \/ /\ Present(k)
          /\ actualGetCountMap[k] < targetGetCountMap[k]
          /\ Sleep(t, "srcWait")
          /\ arg' = [arg EXCEPT ![t] = k]
          /\ UNCHANGED <<dataVars, barrierVars, got, aborted>>
       \/ /\ Present(k)
          /\ actualGetCountMap[k] = targetGetCountMap[k]
          /\ arg' = [arg EXCEPT ![t] = k]
          /\ UNCHANGED <<dataVars, barrierVars, asleep, pc, got, aborted>>

\* Mutant of ResumeSrcWait: any wake-up ends the wait.
ResumeSrcWaitUnchecked(t) ==
    /\ At(t, "srcWait")
    /\ t \notin asleep
    /\ Goto(t, "idle")
    /\ UNCHANGED <<dataVars, barrierVars, asleep, arg, got, aborted>>

ResumeSrcWait(t) ==
    /\ At(t, "srcWait")
    /\ t \notin asleep
    /\ \/ /\ ~Present(arg[t])
          /\ Abort
       \/ /\ Present(arg[t])
          /\ actualGetCountMap[arg[t]] = targetGetCountMap[arg[t]]
          /\ Goto(t, "idle")
          /\ UNCHANGED <<dataVars, barrierVars, asleep, arg, got, aborted>>
       \/ /\ Present(arg[t])
          /\ actualGetCountMap[arg[t]] # targetGetCountMap[arg[t]]
          /\ Sleep(t, "srcWait")
          /\ UNCHANGED <<dataVars, barrierVars, arg, got, aborted>>

DestGet(t, k) ==
    /\ At(t, "idle")
    /\ arg' = [arg EXCEPT ![t] = k]
    /\ \/ /\ Present(k)
          /\ got' = [got EXCEPT ![t] = tensorMap[k]]
          /\ UNCHANGED <<asleep, pc>>
       \/ /\ ~Present(k)
          /\ Sleep(t, "destGet")
          /\ UNCHANGED got
    /\ UNCHANGED <<dataVars, barrierVars, aborted>>

ResumeDestGet(t) ==
    /\ At(t, "destGet")
    /\ t \notin asleep
    /\ \/ /\ Present(arg[t])
          /\ got' = [got EXCEPT ![t] = tensorMap[arg[t]]]
          /\ Goto(t, "idle")
          /\ UNCHANGED <<dataVars, barrierVars, asleep, arg, aborted>>
       \/ /\ ~Present(arg[t])
          /\ Sleep(t, "destGet")
          /\ UNCHANGED <<dataVars, barrierVars, arg, got, aborted>>

DestFinishGet(t, k) ==
    /\ At(t, "idle")
    /\ \/ /\ ~Present(k) \/ actualGetCountMap[k] >= targetGetCountMap[k]
          /\ Abort
       \/ /\ Present(k)
          /\ actualGetCountMap[k] < targetGetCountMap[k]
          /\ actualGetCountMap' = [actualGetCountMap EXCEPT ![k] = @ + 1]
          /\ \/ /\ actualGetCountMap[k] + 1 = targetGetCountMap[k]
                /\ Goto(t, "notify")
             \/ /\ actualGetCountMap[k] + 1 # targetGetCountMap[k]
                /\ UNCHANGED pc
          /\ UNCHANGED <<tensorMap, targetGetCountMap, barrierVars, asleep, arg, got, aborted>>

\* std::condition_variable may wake a waiter without a notification.
SpuriousWake(t) ==
    /\ t \in asleep
    /\ asleep' = asleep \ {t}
    /\ UNCHANGED <<dataVars, barrierVars, pc, arg, got, aborted>>

-----------------------------------------------------------------------------
\* Steps a thread takes on its own once it is inside an operation.
InnerStep(t) ==
    \/ ConstructBarrier(t) \/ ResumeBarrier(t) \/ NotifyBarrier(t)
    \/ ResetClear(t) \/ ResetSecondBarrier(t)
    \/ NotifyAll(t) \/ ResumeSrcWait(t) \/ ResumeDestGet(t)

\* Calls a client makes.
Call(t) ==
    \/ Barrier(t)
    \/ Reset(t)
    \/ \E k \in Key :
        \/ \E value \in Tensor, getCount \in 0..MaxCount : SrcSet(t, k, value, getCount)
        \/ SrcWaitUntilGetFinished(t, k)
        \/ DestGet(t, k)
        \/ DestFinishGet(t, k)

StoreNext == \E t \in Rank : Construct(t) \/ InnerStep(t) \/ Call(t) \/ SpuriousWake(t)

StoreSpec == StoreInit /\ [][StoreNext]_storeVars

-----------------------------------------------------------------------------
(* Properties of the store under any client *)

InBarrier(t) == pc[t] \in BarrierState

\* Threads counted by barrierCounts.
CurrentWaiters == {t \in Rank : pc[t] \in WaitStates /\ currentRound[t] = barrierRound}

\* barrierCounts is exactly the number of threads blocked in the current round,
\* is never equal to the world size between critical sections, and no thread
\* inside Barrier() is more than one round behind: a slow waker of round n can
\* not be overtaken by a complete round n + 1 even though the counters and the
\* condition variable are reused at once (memory_tensor_store.cc, Barrier).
BarrierCountsExact ==
    /\ barrierCounts = Cardinality(CurrentWaiters)
    /\ barrierCounts < WorldSize
    /\ \A t \in Rank : InBarrier(t) => /\ currentRound[t] <= barrierRound
                                       /\ barrierRound <= currentRound[t] + 1

\* The store refines a rendezvous: how many Barrier() calls each thread has
\* made and how many have returned, read off pc and currentRound.
Arrived == [t \in Rank |-> IF InBarrier(t) THEN currentRound[t] + 1 ELSE barrierRound]
Left    == [t \in Rank |-> IF InBarrier(t) THEN currentRound[t] ELSE barrierRound]

R == INSTANCE Rendezvous WITH arrived <- Arrived, left <- Left

\* No Barrier() call returns before every participant has made the call with
\* the same number: the behaviour tensor_store.h promises for Barrier(), for
\* whatever else the threads do with the store in between.
RefinesRendezvous == R!RSpec

=============================================================================
