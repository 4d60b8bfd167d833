-------------------------- MODULE TensorStoreProofs --------------------------
(***************************************************************************)
(* Proofs about the tensor store under its most general client, for every  *)
(* number of threads, every set of keys and tensors: type correctness, the *)
(* exactness of the barrier's counters, and that the barrier implements a  *)
(* rendezvous (module Rendezvous).                                         *)
(*                                                                         *)
(* A step of the store does one of three things to the barrier: a thread   *)
(* enters it, a thread leaves it, or nothing changes for it.  StepKinds    *)
(* sorts the actions into these, and the invariant and the refinement are  *)
(* proved per kind.                                                        *)
(***************************************************************************)
EXTENDS TensorStore, FiniteSetTheorems, TLAPS

-----------------------------------------------------------------------------
(* Type correctness *)

\* Barrier's entry keeps the types, whatever it will do when it returns.
LEMMA EnterBarrierType ==
    ASSUME TypeOK, NEW t \in Rank, NEW waiting \in PcState, NEW waking \in PcState,
           EnterBarrier(t, waiting, waking)
    PROVE  TypeOK'
<1>1. CASE Abort
    BY <1>1 DEF Abort, TypeOK, dataVars, barrierVars
<1>2. CASE /\ barrierCounts' = 0
           /\ barrierRound' = barrierRound + 1
           /\ Goto(t, waking)
           /\ currentRound' = [currentRound EXCEPT ![t] = barrierRound]
           /\ UNCHANGED <<dataVars, worldSize, asleep, arg, got, aborted>>
    BY <1>2 DEF Goto, TypeOK, dataVars
<1>3. CASE /\ barrierCounts' = barrierCounts + 1
           /\ Sleep(t, waiting)
           /\ currentRound' = [currentRound EXCEPT ![t] = barrierRound]
           /\ UNCHANGED <<dataVars, worldSize, barrierRound, arg, got, aborted>>
    BY <1>3 DEF Sleep, Goto, TypeOK, dataVars
<1> QED BY <1>1, <1>2, <1>3 DEF EnterBarrier, dataVars

\* A failed assertion changes nothing else.
LEMMA AbortType == TypeOK /\ Abort => TypeOK'
BY DEF Abort, TypeOK, dataVars, barrierVars

LEMMA TypeInit == StoreInit => TypeOK
<1>1. (CHOOSE k \in Key : TRUE) \in Key
    <2>1. \E k \in Key : TRUE BY StoreAssumption
    <2> QED BY <2>1, Zenon
<1>2. StoreInit => arg \in [Rank -> Key]
    BY <1>1, Zenon DEF StoreInit
<1>3. StoreInit => /\ tensorMap \in [Key -> Tensor \cup {NoTensor}]
                   /\ got \in [Rank -> Tensor \cup {NoTensor}]
                   /\ pc \in [Rank -> PcState]
                   /\ worldSize \in {0, WorldSize}
                   /\ asleep \subseteq Rank
                   /\ aborted \in BOOLEAN
    BY Zenon DEF StoreInit, PcState
<1>4. 0 \in Nat
    OBVIOUS
<1>5. StoreInit => /\ targetGetCountMap \in [Key -> Nat]
                   /\ actualGetCountMap \in [Key -> Nat]
                   /\ barrierCounts \in Nat
                   /\ barrierRound \in Nat
                   /\ currentRound \in [Rank -> Nat]
    BY <1>4, Zenon DEF StoreInit
<1> QED BY <1>2, <1>3, <1>5, Zenon DEF TypeOK

\* Every operation of the store keeps the types.
LEMMA TypeStep == TypeOK /\ [StoreNext]_storeVars => TypeOK'
<1> SUFFICES ASSUME TypeOK, [StoreNext]_storeVars PROVE TypeOK'
    OBVIOUS
<1>0. CASE UNCHANGED storeVars
    BY <1>0 DEF TypeOK, storeVars, dataVars, barrierVars
<1> USE DEF PcState, BarrierState, WaitStates, WakeStates
<1> SUFFICES ASSUME NEW t \in Rank,
                    Construct(t) \/ InnerStep(t) \/ Call(t) \/ SpuriousWake(t)
             PROVE  TypeOK'
    BY <1>0 DEF StoreNext
<1>1. CASE Construct(t)
    BY <1>1 DEF Construct, Goto, TypeOK, dataVars
<1>2. CASE InnerStep(t)
    <2>1. CASE ConstructBarrier(t) BY <2>1, EnterBarrierType DEF ConstructBarrier
    <2>2. CASE ResumeBarrier(t)
        BY <2>2 DEF ResumeBarrier, AfterBarrier, Sleep, Goto, TypeOK, dataVars, barrierVars
    <2>3. CASE NotifyBarrier(t)
        BY <2>3 DEF NotifyBarrier, AfterBarrier, Goto, TypeOK, dataVars, barrierVars
    <2>4. CASE ResetClear(t)
        BY <2>4 DEF ResetClear, Goto, TypeOK, barrierVars
    <2>5. CASE ResetSecondBarrier(t) BY <2>5, EnterBarrierType DEF ResetSecondBarrier
    <2>6. CASE NotifyAll(t)
        BY <2>6 DEF NotifyAll, Goto, TypeOK, dataVars, barrierVars
    <2>7. CASE ResumeSrcWait(t)
        BY <2>7 DEF ResumeSrcWait, Abort, Sleep, Goto, TypeOK, dataVars, barrierVars
    <2>8. CASE ResumeDestGet(t)
        BY <2>8 DEF ResumeDestGet, Sleep, Goto, Present, TypeOK, dataVars, barrierVars
    <2> QED BY <1>2, <2>1, <2>2, <2>3, <2>4, <2>5, <2>6, <2>7, <2>8 DEF InnerStep
<1>3. CASE Call(t)
    <2>1. CASE Barrier(t) BY <2>1, EnterBarrierType DEF Barrier
    <2>2. CASE Reset(t) BY <2>2, EnterBarrierType DEF Reset
    <2>3. ASSUME NEW k \in Key, NEW value \in Tensor, NEW getCount \in 0..MaxCount,
                 SrcSet(t, k, value, getCount)
          PROVE  TypeOK'
        <3>1. CASE Abort BY <3>1, AbortType
        <3>2. CASE /\ tensorMap' = [tensorMap EXCEPT ![k] = value]
                   /\ targetGetCountMap' = [targetGetCountMap EXCEPT ![k] = getCount]
                   /\ actualGetCountMap' = [actualGetCountMap EXCEPT ![k] = 0]
                   /\ Goto(t, "notify")
                   /\ UNCHANGED <<barrierVars, asleep, arg, got, aborted>>
            BY <3>2, StoreAssumption DEF Goto, TypeOK, barrierVars
        <3> QED BY <2>3, <3>1, <3>2 DEF SrcSet
    <2>4. ASSUME NEW k \in Key, SrcWaitUntilGetFinished(t, k) PROVE TypeOK'
        <3>1. CASE Abort BY <3>1, AbortType
        <3>2. CASE Sleep(t, "srcWait") /\ UNCHANGED <<dataVars, barrierVars, got, aborted>>
            BY <2>4, <3>2 DEF SrcWaitUntilGetFinished, Abort, Sleep, Goto, TypeOK, dataVars, barrierVars
        <3>3. CASE UNCHANGED <<dataVars, barrierVars, asleep, pc, got, aborted>>
            BY <2>4, <3>3, AbortType DEF SrcWaitUntilGetFinished, TypeOK, dataVars, barrierVars
        <3> QED BY <2>4, <3>1, <3>2, <3>3 DEF SrcWaitUntilGetFinished
    <2>5. ASSUME NEW k \in Key, DestGet(t, k) PROVE TypeOK'
        BY <2>5 DEF DestGet, Sleep, Goto, TypeOK, dataVars, barrierVars
    <2>6. ASSUME NEW k \in Key, DestFinishGet(t, k) PROVE TypeOK'
        <3>1. CASE Abort BY <3>1, AbortType
        <3>2. CASE /\ actualGetCountMap' = [actualGetCountMap EXCEPT ![k] = @ + 1]
                   /\ Goto(t, "notify") \/ UNCHANGED pc
                   /\ UNCHANGED <<tensorMap, targetGetCountMap, barrierVars, asleep, arg, got, aborted>>
            BY <3>2 DEF Goto, TypeOK, barrierVars
        <3> QED BY <2>6, <3>1, <3>2 DEF DestFinishGet
    <2> QED BY <1>3, <2>1, <2>2, <2>3, <2>4, <2>5, <2>6 DEF Call
<1>4. CASE SpuriousWake(t)
    BY <1>4 DEF SpuriousWake, TypeOK, dataVars, barrierVars
<1> QED BY <1>1, <1>2, <1>3, <1>4

\* The maps, counters and thread states keep their types under any client of
\* memory_tensor_store.cc; in particular worldSize never leaves {0, WorldSize}.
THEOREM StoreTypeOK == StoreSpec => []TypeOK
BY TypeInit, TypeStep, PTL DEF StoreSpec

-----------------------------------------------------------------------------
(* The barrier's counters *)

\* BarrierCountsExact is not inductive: when the last thread arrives it must
\* be known that every other thread waits in the current round, and a thread
\* about to notify must not be taken for a waiter.  Of the types it needs those
\* of the barrier only, so that it serves the store's other clients as well.
BarrierTypeOK ==
    /\ worldSize \in {0, WorldSize}
    /\ barrierCounts \in Nat
    /\ barrierRound \in Nat
    /\ currentRound \in [Rank -> Nat]
    /\ pc \in [Rank -> PcState]

BarrierInv ==
    /\ BarrierTypeOK
    /\ BarrierCountsExact
    /\ \A t \in Rank : pc[t] # "new" => worldSize = WorldSize
    /\ \A t \in Rank : pc[t] \in WakeStates => currentRound[t] # barrierRound

\* The three things a step can do to the barrier.
EntersBarrier(t) ==
    /\ ~InBarrier(t)
    /\ barrierCounts < worldSize
    /\ currentRound' = [currentRound EXCEPT ![t] = barrierRound]
    /\ UNCHANGED worldSize
    /\ \/ /\ barrierCounts + 1 = worldSize
          /\ barrierCounts' = 0
          /\ barrierRound' = barrierRound + 1
          /\ \E waking \in WakeStates : Goto(t, waking)
       \/ /\ barrierCounts + 1 # worldSize
          /\ barrierCounts' = barrierCounts + 1
          /\ UNCHANGED barrierRound
          /\ \E waiting \in WaitStates : Goto(t, waiting)

LeavesBarrier(t) ==
    /\ InBarrier(t)
    /\ currentRound[t] # barrierRound
    /\ \E state \in PcState \ (BarrierState \cup {"new"}) : Goto(t, state)
    /\ UNCHANGED barrierVars

AvoidsBarrier(t) ==
    /\ UNCHANGED <<barrierCounts, barrierRound, currentRound>>
    /\ \/ worldSize' = WorldSize
       \/ worldSize' = worldSize /\ pc[t] # "new"
    /\ ~InBarrier(t)
    /\ \E state \in PcState \ (BarrierState \cup {"new"}) : Goto(t, state)

LEMMA EnterBarrierKind ==
    ASSUME BarrierInv, NEW t \in Rank, ~InBarrier(t),
           NEW waiting \in WaitStates, NEW waking \in WakeStates,
           EnterBarrier(t, waiting, waking)
    PROVE  EntersBarrier(t) \/ UNCHANGED <<barrierVars, pc>>
BY DEF EnterBarrier, Abort, Sleep, EntersBarrier, barrierVars

LEMMA StepKinds ==
    ASSUME BarrierInv, StoreNext
    PROVE  \/ UNCHANGED <<barrierVars, pc>>
           \/ \E t \in Rank : EntersBarrier(t) \/ LeavesBarrier(t) \/ AvoidsBarrier(t)
<1> DEFINE Kind(t) == \/ UNCHANGED <<barrierVars, pc>>
                      \/ EntersBarrier(t) \/ LeavesBarrier(t) \/ AvoidsBarrier(t)
<1> SUFFICES ASSUME NEW t \in Rank,
                    Construct(t) \/ InnerStep(t) \/ Call(t) \/ SpuriousWake(t)
             PROVE  Kind(t)
    BY DEF StoreNext
<1> USE DEF InBarrier, BarrierState, WaitStates, WakeStates, At
<1>0. pc \in [Rank -> PcState]
    BY DEF BarrierInv, BarrierTypeOK
<1>a. ASSUME At(t, "ctor") \/ At(t, "idle") \/ At(t, "second"),
             EnterBarrier(t, "wait", "wake") \/ EnterBarrier(t, "waitFirst", "wakeFirst")
      PROVE  Kind(t)
    BY <1>a, EnterBarrierKind
<1>b. ASSUME NEW from \in PcState \ (BarrierState \cup {"new"}),
             NEW to \in PcState \ (BarrierState \cup {"new"}),
             At(t, from), Goto(t, to), UNCHANGED barrierVars
      PROVE  Kind(t)
    BY <1>b DEF AvoidsBarrier, barrierVars
<1>c. ASSUME Abort PROVE Kind(t)
    BY <1>c DEF Abort
<1>1. CASE Construct(t)
    BY <1>1 DEF Construct, AvoidsBarrier, PcState
<1>2. CASE InnerStep(t)
    <2>1. CASE ConstructBarrier(t) BY <2>1, <1>a DEF ConstructBarrier
    <2>2. CASE ResumeBarrier(t)
        <3>1. CASE currentRound[t] # barrierRound
            BY <2>2, <3>1 DEF ResumeBarrier, AfterBarrier, LeavesBarrier, PcState
        <3>2. CASE currentRound[t] = barrierRound
            <4>1. pc' = [pc EXCEPT ![t] = pc[t]]
                BY <2>2, <3>2 DEF ResumeBarrier, Sleep, Goto
            <4> QED BY <2>2, <4>1, <1>0 DEF ResumeBarrier
        <3> QED BY <3>1, <3>2
    <2>3. CASE NotifyBarrier(t)
        BY <2>3 DEF NotifyBarrier, AfterBarrier, LeavesBarrier, PcState, BarrierInv
    <2>4. CASE ResetClear(t) BY <2>4, <1>b DEF ResetClear, PcState
    <2>5. CASE ResetSecondBarrier(t) BY <2>5, <1>a DEF ResetSecondBarrier
    <2>6. CASE NotifyAll(t) BY <2>6, <1>b DEF NotifyAll, PcState
    <2>7. CASE ResumeSrcWait(t) BY <2>7, <1>b, <1>c DEF ResumeSrcWait, Sleep, PcState
    <2>8. CASE ResumeDestGet(t) BY <2>8, <1>b DEF ResumeDestGet, Sleep, PcState
    <2> QED BY <1>2, <2>1, <2>2, <2>3, <2>4, <2>5, <2>6, <2>7, <2>8 DEF InnerStep
<1>3. CASE Call(t)
    <2>1. CASE Barrier(t) BY <2>1, <1>a DEF Barrier
    <2>2. CASE Reset(t) BY <2>2, <1>a DEF Reset
    <2>3. ASSUME NEW k \in Key, NEW value \in Tensor, NEW getCount \in 0..MaxCount,
                 SrcSet(t, k, value, getCount)
          PROVE  Kind(t)
        BY <2>3, <1>b, <1>c DEF SrcSet, PcState
    <2>4. ASSUME NEW k \in Key, SrcWaitUntilGetFinished(t, k) PROVE Kind(t)
        BY <2>4, <1>b, <1>c DEF SrcWaitUntilGetFinished, Sleep, PcState
    <2>5. ASSUME NEW k \in Key, DestGet(t, k) PROVE Kind(t)
        BY <2>5, <1>b DEF DestGet, Sleep, PcState
    <2>6. ASSUME NEW k \in Key, DestFinishGet(t, k) PROVE Kind(t)
        BY <2>6, <1>b, <1>c DEF DestFinishGet, PcState
    <2> QED BY <1>3, <2>1, <2>2, <2>3, <2>4, <2>5, <2>6 DEF Call
<1>4. CASE SpuriousWake(t)
    BY <1>4 DEF SpuriousWake
<1> QED BY <1>1, <1>2, <1>3, <1>4

LEMMA WaitersFinite ==
    ASSUME BarrierTypeOK
    PROVE  /\ IsFiniteSet(CurrentWaiters)
           /\ Cardinality(CurrentWaiters) \in Nat
           /\ WorldSize \in Nat \ {0}
<1>1. IsFiniteSet(CurrentWaiters)
    BY StoreAssumption, FS_Subset DEF CurrentWaiters
<1>2. WorldSize \in Nat \ {0}
    BY StoreAssumption, FS_CardinalityType, FS_EmptySet DEF WorldSize
<1> QED BY <1>1, <1>2, FS_CardinalityType

\* When all the other threads are counted, they all wait in the current round.
LEMMA LastArrival ==
    ASSUME BarrierInv, NEW t \in Rank, ~InBarrier(t), barrierCounts + 1 = WorldSize
    PROVE  CurrentWaiters = Rank \ {t}
<1>1. t \notin CurrentWaiters
    BY DEF CurrentWaiters, InBarrier, BarrierState
<1>2. CurrentWaiters \in SUBSET (Rank \ {t})
    BY <1>1 DEF CurrentWaiters
<1>3. /\ IsFiniteSet(Rank \ {t})
      /\ Cardinality(Rank \ {t}) = WorldSize - 1
    BY StoreAssumption, FS_RemoveElement DEF WorldSize
<1>4. Cardinality(CurrentWaiters) = Cardinality(Rank \ {t})
    BY <1>3, WaitersFinite DEF BarrierInv, BarrierCountsExact
<1> QED BY <1>2, <1>3, <1>4, FS_Subset

LEMMA BarrierInvInit == StoreInit => BarrierInv
<1> SUFFICES ASSUME StoreInit PROVE BarrierInv
    OBVIOUS
<1>1. BarrierTypeOK
    BY TypeInit DEF TypeOK, BarrierTypeOK
<1>2. CurrentWaiters = {}
    BY DEF StoreInit, CurrentWaiters, WaitStates
<1>3. Cardinality(CurrentWaiters) = 0
    BY <1>2, FS_EmptySet
<1>4. \A t \in Rank : pc[t] = "new"
    BY DEF StoreInit
<1>5. barrierCounts = 0
    BY DEF StoreInit
<1> QED BY <1>1, <1>3, <1>4, <1>5, WaitersFinite
        DEF BarrierInv, BarrierCountsExact, InBarrier, BarrierState, WaitStates, WakeStates

\* A thread that enters the barrier is counted, or is the last and opens it.
LEMMA EntersKeepsInv ==
    ASSUME BarrierInv, NEW t \in Rank, EntersBarrier(t)
    PROVE  BarrierInv'
<1> USE DEF InBarrier, BarrierState
<1>1. /\ worldSize = WorldSize /\ worldSize' = worldSize
      /\ pc \in [Rank -> PcState] /\ currentRound \in [Rank -> Nat]
      /\ barrierRound \in Nat /\ barrierCounts \in Nat
    BY WaitersFinite DEF BarrierInv, BarrierTypeOK, EntersBarrier
<1>2. currentRound' = [currentRound EXCEPT ![t] = barrierRound]
    BY DEF EntersBarrier
<1>0. BarrierTypeOK'
    <2>1. PICK state \in BarrierState : pc' = [pc EXCEPT ![t] = state]
        BY DEF EntersBarrier, Goto
    <2>2. pc' \in [Rank -> PcState] /\ currentRound' \in [Rank -> Nat]
        BY <1>1, <1>2, <2>1 DEF PcState
    <2> QED BY <1>1, <2>2 DEF EntersBarrier, BarrierInv, BarrierTypeOK
<1>3. CASE barrierCounts + 1 = worldSize
    <2>1. PICK waking \in WakeStates : pc' = [pc EXCEPT ![t] = waking]
        BY <1>3 DEF EntersBarrier, Goto
    <2>2. barrierCounts' = 0 /\ barrierRound' = barrierRound + 1
        BY <1>3 DEF EntersBarrier
    <2>3. \A u \in Rank \ {t} : pc[u] \in WaitStates /\ currentRound[u] = barrierRound
        BY <1>1, <1>3, LastArrival DEF CurrentWaiters, EntersBarrier
    <2>4. \A u \in Rank : currentRound'[u] = barrierRound
        BY <1>1, <1>2, <2>3
    <2>5. CurrentWaiters' = {}
        BY <1>1, <2>2, <2>4 DEF CurrentWaiters
    <2>6. Cardinality(CurrentWaiters') = 0
        BY <2>5, FS_EmptySet
    <2> QED BY <1>0, <1>1, <2>2, <2>4, <2>6, WaitersFinite
            DEF BarrierInv, BarrierCountsExact
<1>4. CASE barrierCounts + 1 # worldSize
    <2>1. PICK waiting \in WaitStates : pc' = [pc EXCEPT ![t] = waiting]
        BY <1>4 DEF EntersBarrier, Goto
    <2>2. barrierCounts' = barrierCounts + 1 /\ barrierRound' = barrierRound
        BY <1>4 DEF EntersBarrier
    <2>3. CurrentWaiters' = CurrentWaiters \cup {t}
        BY <1>1, <1>2, <2>1, <2>2 DEF CurrentWaiters
    <2>4. t \notin CurrentWaiters
        BY DEF EntersBarrier, CurrentWaiters
    <2>5. Cardinality(CurrentWaiters') = Cardinality(CurrentWaiters) + 1
        BY <2>3, <2>4, WaitersFinite, FS_AddElement DEF BarrierInv
    <2>6. barrierCounts' = Cardinality(CurrentWaiters')
        BY <2>2, <2>5 DEF BarrierInv, BarrierCountsExact
    <2>7. barrierCounts' < WorldSize
        BY <1>1, <1>4, <2>2, WaitersFinite DEF EntersBarrier, BarrierInv
    <2>8. \A u \in Rank : InBarrier(u)' => /\ currentRound'[u] <= barrierRound'
                                            /\ barrierRound' <= currentRound'[u] + 1
        BY <1>1, <1>2, <2>1, <2>2 DEF BarrierInv, BarrierCountsExact
    <2>9. \A u \in Rank : pc'[u] \in WakeStates => currentRound'[u] # barrierRound'
        BY <1>1, <1>2, <2>1, <2>2 DEF BarrierInv, WaitStates, WakeStates
    <2> QED BY <1>0, <1>1, <2>6, <2>7, <2>8, <2>9 DEF BarrierInv, BarrierCountsExact
<1> QED BY <1>3, <1>4

\* A step that only moves a thread between states outside the barrier, or out
\* of a round that is over, leaves the waiters of the current round alone.
LEMMA OtherKindsKeepInv ==
    ASSUME BarrierInv, NEW t \in Rank, LeavesBarrier(t) \/ AvoidsBarrier(t)
    PROVE  BarrierInv'
<1> USE DEF InBarrier, BarrierState
<1>1. PICK state \in PcState \ (BarrierState \cup {"new"}) : pc' = [pc EXCEPT ![t] = state]
    BY DEF LeavesBarrier, AvoidsBarrier, Goto
<1>2. UNCHANGED <<barrierCounts, barrierRound, currentRound>>
    BY DEF LeavesBarrier, AvoidsBarrier, barrierVars
<1>3. pc \in [Rank -> PcState]
    BY DEF BarrierInv, BarrierTypeOK
<1>0. BarrierTypeOK'
    <2>1. pc' \in [Rank -> PcState]
        BY <1>1, <1>3
    <2> QED BY <1>2, <2>1 DEF BarrierInv, BarrierTypeOK, LeavesBarrier, AvoidsBarrier, barrierVars
<1>4. t \notin CurrentWaiters
    BY DEF CurrentWaiters, LeavesBarrier, AvoidsBarrier
<1>5. CurrentWaiters' = CurrentWaiters
    BY <1>1, <1>2, <1>3, <1>4 DEF CurrentWaiters
<1>6. \A u \in Rank : pc'[u] # "new" => worldSize' = WorldSize
    BY <1>1, <1>3 DEF BarrierInv, LeavesBarrier, AvoidsBarrier, barrierVars, WaitStates, WakeStates
<1> QED BY <1>0, <1>1, <1>2, <1>3, <1>5, <1>6 DEF BarrierInv, BarrierCountsExact

LEMMA BarrierInvStep == BarrierInv /\ [StoreNext]_storeVars => BarrierInv'
<1> SUFFICES ASSUME BarrierInv, [StoreNext]_storeVars PROVE BarrierInv'
    OBVIOUS
<1>2. ASSUME UNCHANGED <<barrierVars, pc>> PROVE BarrierInv'
    BY <1>2 DEF BarrierInv, BarrierTypeOK, BarrierCountsExact, CurrentWaiters, InBarrier, barrierVars
<1>3. CASE UNCHANGED storeVars
    BY <1>2, <1>3 DEF storeVars
<1>4. CASE StoreNext
    BY <1>2, <1>4, StepKinds, EntersKeepsInv, OtherKindsKeepInv
<1> QED BY <1>3, <1>4

LEMMA StoreBarrierInv == StoreSpec => []BarrierInv
BY BarrierInvInit, BarrierInvStep, PTL DEF StoreSpec

\* Under any client and for any number of threads, barrierCounts counts exactly
\* the threads blocked in the current round and no thread lags more than one
\* round behind (memory_tensor_store.cc:204-219).
THEOREM StoreBarrierCountsExact == StoreSpec => []BarrierCountsExact
<1>1. BarrierInv => BarrierCountsExact
    BY DEF BarrierInv
<1> QED BY <1>1, StoreBarrierInv, PTL

-----------------------------------------------------------------------------
(* The barrier implements a rendezvous *)

LEMMA RendezvousInit == StoreInit => R!RInit
BY DEF StoreInit, R!RInit, Arrived, Left, InBarrier, BarrierState, WaitStates, WakeStates

LEMMA EntersIsArrive ==
    ASSUME BarrierInv, NEW t \in Rank, EntersBarrier(t)
    PROVE  R!Arrive(t)
<1> USE DEF InBarrier, BarrierState
<1>1. /\ worldSize = WorldSize
      /\ pc \in [Rank -> PcState] /\ currentRound \in [Rank -> Nat] /\ barrierRound \in Nat
      /\ barrierCounts \in Nat
    BY WaitersFinite DEF BarrierInv, BarrierTypeOK, EntersBarrier
<1>2. /\ currentRound' = [currentRound EXCEPT ![t] = barrierRound]
      /\ ~InBarrier(t)
    BY DEF EntersBarrier
<1>3. PICK state \in BarrierState : pc' = [pc EXCEPT ![t] = state]
    BY DEF EntersBarrier, Goto
<1>4. \A u \in Rank \ {t} : Arrived'[u] = Arrived[u] /\ Left'[u] = Left[u]
    <2>1. CASE barrierRound' = barrierRound
        BY <1>1, <1>2, <1>3, <2>1 DEF Arrived, Left
    <2>2. CASE barrierCounts + 1 = worldSize
        <3>1. \A u \in Rank \ {t} : InBarrier(u)
            BY <1>1, <1>2, <2>2, LastArrival DEF CurrentWaiters
        <3> QED BY <1>1, <1>2, <1>3, <3>1 DEF Arrived, Left
    <2> QED BY <2>1, <2>2 DEF EntersBarrier
<1>5. Arrived'[t] = barrierRound + 1 /\ Left'[t] = barrierRound
    BY <1>1, <1>2, <1>3 DEF Arrived, Left
<1>6. Arrived[t] = barrierRound /\ Left[t] = barrierRound
    BY <1>2 DEF Arrived, Left
<1>7. Arrived' = [Arrived EXCEPT ![t] = Left[t] + 1]
    BY <1>4, <1>5, <1>6 DEF Arrived
<1>8. Left' = Left
    BY <1>4, <1>5, <1>6 DEF Left
<1> QED BY <1>6, <1>7, <1>8 DEF R!Arrive

LEMMA LeavesIsLeave ==
    ASSUME BarrierInv, NEW t \in Rank, LeavesBarrier(t)
    PROVE  R!Leave(t)
<1> USE DEF InBarrier, BarrierState
<1>1. pc \in [Rank -> PcState] /\ currentRound \in [Rank -> Nat] /\ barrierRound \in Nat
    BY DEF BarrierInv, BarrierTypeOK
<1>2. PICK state \in PcState \ BarrierState : pc' = [pc EXCEPT ![t] = state]
    BY DEF LeavesBarrier, Goto
<1>3. UNCHANGED <<barrierRound, currentRound>> /\ InBarrier(t)
    BY DEF LeavesBarrier, barrierVars
<1>4. barrierRound = currentRound[t] + 1
    BY <1>1, <1>3 DEF LeavesBarrier, BarrierInv, BarrierCountsExact
<1>5. Left[t] = currentRound[t] /\ Arrived[t] = barrierRound
    BY <1>3, <1>4 DEF Left, Arrived
<1>6. \A u \in Rank : currentRound[t] < Arrived[u]
    BY <1>1, <1>4 DEF Arrived, BarrierInv, BarrierCountsExact
<1>7. Left' = [Left EXCEPT ![t] = Left[t] + 1]
    BY <1>1, <1>2, <1>3, <1>4, <1>5 DEF Left
<1>8. Arrived' = Arrived
    BY <1>1, <1>2, <1>3, <1>4 DEF Arrived
<1> QED BY <1>1, <1>5, <1>6, <1>7, <1>8 DEF R!Leave

LEMMA AvoidsIsStutter ==
    ASSUME BarrierInv, NEW t \in Rank, AvoidsBarrier(t)
    PROVE  UNCHANGED <<Arrived, Left>>
BY DEF BarrierInv, BarrierTypeOK, AvoidsBarrier, Goto, Arrived, Left, InBarrier

LEMMA RendezvousStep == BarrierInv /\ [StoreNext]_storeVars => [R!RNext]_<<Arrived, Left>>
<1> SUFFICES ASSUME BarrierInv, [StoreNext]_storeVars
             PROVE  R!RNext \/ UNCHANGED <<Arrived, Left>>
    OBVIOUS
<1>1. ASSUME UNCHANGED <<barrierVars, pc>> PROVE UNCHANGED <<Arrived, Left>>
    BY <1>1 DEF Arrived, Left, InBarrier, barrierVars
<1>2. CASE UNCHANGED storeVars
    BY <1>1, <1>2 DEF storeVars
<1>3. CASE StoreNext
    BY <1>1, <1>3, StepKinds, EntersIsArrive, LeavesIsLeave, AvoidsIsStutter DEF R!RNext
<1> QED BY <1>2, <1>3

\* No Barrier() of the store returns before every participant has made its call
\* with the same number, whatever else the threads do with the store
\* (tensor_store.h:155-158), for every number of threads.
THEOREM StoreRefinesRendezvous == StoreSpec => RefinesRendezvous
<1>1. [R!RNext]_<<Arrived, Left>> => [R!RNext]_(R!rvars)
    BY DEF R!rvars
<1> QED BY <1>1, RendezvousInit, RendezvousStep, StoreBarrierInv, PTL
        DEF StoreSpec, RefinesRendezvous, R!RSpec

=============================================================================
