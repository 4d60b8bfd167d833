----------------------- MODULE TensorStoreSessionProofs -----------------------
(***************************************************************************)
(* Proofs about the store under the clients the code has, for every number *)
(* of threads, keys, readers and epochs.  A session is a client of the     *)
(* store, so whatever TensorStoreProofs shows of any client holds of it;   *)
(* beyond that, no thread is in the handshake while another clears, what   *)
(* DestGet returns belongs to the reader's epoch, a producer is released   *)
(* only when all its readers have finished, and no assertion of the store  *)
(* fails.                                                                  *)
(*                                                                         *)
(* All of it rests on the parity of barrierRound: the constructor's        *)
(* barrier makes it 1 and each Reset adds two, so that it is odd exactly   *)
(* while the threads may exchange tensors.                                 *)
(***************************************************************************)
EXTENDS TensorStoreSession, TensorStoreProofs

ClientTypeOK ==
    /\ epoch \in [Rank -> 1..MaxEpoch]
    /\ published \in [Rank -> SUBSET Key]
    /\ taken \in [Rank -> SUBSET Key]
    /\ finished \in [Rank -> SUBSET Key]
    /\ released \in [Rank -> SUBSET Key]

\* States in which a thread may use the store.
Active == {"idle", "notify", "srcWait", "destGet"}

\* What the thread's epoch says of the barriers it has been through.
RoundInv == \A t \in Rank :
    /\ pc[t] \in Active => barrierRound = 2 * epoch[t] - 1
    /\ pc[t] \in {"new", "ctor"} => barrierRound = 0 /\ epoch[t] = 1
    /\ pc[t] \in {"clear", "second"} => barrierRound = 2 * epoch[t] - 2 /\ epoch[t] > 1
    /\ pc[t] \in {"waitFirst", "wakeFirst"} => currentRound[t] = 2 * epoch[t] - 3 /\ epoch[t] > 1
    /\ pc[t] \in {"wait", "wake"} => currentRound[t] = 2 * epoch[t] - 2

\* The order in which a thread does things in an epoch.
ClientInv == \A t \in Rank :
    /\ finished[t] \subseteq taken[t] /\ taken[t] \subseteq GetKeys(t)
    /\ released[t] \subseteq published[t] /\ published[t] \subseteq OwnKeys(t)
    /\ pc[t] \notin Active =>
         published[t] = {} /\ taken[t] = {} /\ finished[t] = {} /\ released[t] = {}
    /\ taken[t] # {} => published[t] = OwnKeys(t)
    /\ released[t] # {} => finished[t] = GetKeys(t)
    /\ pc[t] = "srcWait" => arg[t] \in released[t]
    /\ pc[t] = "destGet" => arg[t] \in Holding(t)

\* The thread waits for the end of the round the store is in.
InRound(t) == pc[t] = "wait" /\ currentRound[t] = barrierRound

\* Whoever has cleared, or has nothing to clear yet, sees empty maps.
EmptyInv == \A t \in Rank :
    pc[t] \in {"new", "ctor", "second"} \/ InRound(t) => \A k \in Key : ~Present(k)

\* The readers that have finished with k in epoch e, or are past it.
Finishers(k, e) == {t \in Getters[k] : k \in finished[t] \/ epoch[t] > e}

\* While tensors are exchanged, the maps hold what the producers of this epoch
\* have published, and the counters count the readers that have finished.
Entry(k, e) ==
    /\ Present(k) <=> k \in published[Producer[k]] \/ epoch[Producer[k]] > e
    /\ Present(k) => /\ tensorMap[k] = <<k, e>>
                     /\ targetGetCountMap[k] = Cardinality(Getters[k])
                     /\ actualGetCountMap[k] = Cardinality(Finishers(k, e))
    /\ Finishers(k, e) # {} => Present(k)

EntryInv ==
    \A e \in 1..MaxEpoch : barrierRound = 2 * e - 1 => \A k \in Key : Entry(k, e)

\* A thread that got a tensor has it: it is in the map, and in `got' while it
\* is the last one that the thread asked for.
HeldInv == \A t \in Rank :
    \A k \in taken[t] : (pc[t] = "destGet" /\ arg[t] = k) \/ Present(k)

GotInv == \A t \in Rank :
    arg[t] \in Holding(t) /\ pc[t] # "destGet" => got[t] = <<arg[t], epoch[t]>>

\* The invariant without what only the two last theorems need.
CoreInv ==
    /\ TypeOK /\ BarrierInv /\ ClientTypeOK
    /\ RoundInv /\ ClientInv /\ EmptyInv /\ EntryInv /\ HeldInv

USE StoreAssumption, SessionAssumption
-----------------------------------------------------------------------------
(* A session is a client of the store *)

LEMMA Counts ==
    ASSUME NEW k \in Key, NEW S \in SUBSET Getters[k]
    PROVE  /\ IsFiniteSet(Getters[k]) /\ IsFiniteSet(S)
           /\ Cardinality(Getters[k]) \in 0..MaxCount /\ Cardinality(S) \in Nat
           /\ Cardinality(S) <= Cardinality(Getters[k])
           /\ Cardinality(S) = Cardinality(Getters[k]) => S = Getters[k]
<1>1. Getters[k] \in SUBSET Rank
  OBVIOUS
<1>2. /\ IsFiniteSet(Getters[k]) /\ Cardinality(Getters[k]) <= WorldSize
      /\ Cardinality(Getters[k]) \in Nat /\ WorldSize \in Nat
  BY <1>1, FS_Subset, FS_CardinalityType DEF WorldSize
<1>3. IsFiniteSet(S) /\ Cardinality(S) \in Nat /\ Cardinality(S) <= Cardinality(Getters[k])
  BY <1>2, FS_Subset, FS_CardinalityType
<1>4. Cardinality(S) = Cardinality(Getters[k]) => S = Getters[k]
  BY <1>2, FS_Subset
<1>5. MaxCount \in Nat /\ MaxCount >= WorldSize
  OBVIOUS
<1> QED BY <1>2, <1>3, <1>4, <1>5

LEMMA ClientTypeInit == SessionInit => ClientTypeOK
  BY DEF SessionInit, ClientTypeOK

LEMMA SessionStepIsStoreStep ==
    ASSUME ClientTypeOK, [SessionNext]_sessionVars
    PROVE  [StoreNext]_storeVars
<1>1. CASE UNCHANGED sessionVars
  BY <1>1 DEF sessionVars
<1>2. ASSUME NEW t \in Rank, Construct(t) \/ InnerStep(t) \/ Call(t) \/ SpuriousWake(t)
      PROVE  StoreNext
  BY <1>2 DEF StoreNext
<1>3. ASSUME NEW t \in Rank, NEW k \in Key, Publish(t, k) PROVE Call(t)
  <2>1. <<k, epoch[t]>> \in Tensor
    BY DEF ClientTypeOK, EpochTensor
  <2>2. Cardinality(Getters[k]) \in 0..MaxCount
    BY Counts
  <2>3. SrcSet(t, k, <<k, epoch[t]>>, Cardinality(Getters[k]))
    BY <1>3 DEF Publish
  <2> QED BY <2>1, <2>2, <2>3 DEF Call
<1>4. ASSUME NEW t \in Rank, NEW k \in Key, Take(t, k) \/ Finish(t, k) \/ Release(t, k) PROVE Call(t)
  <2>1. DestGet(t, k) \/ DestFinishGet(t, k) \/ SrcWaitUntilGetFinished(t, k)
    BY <1>4 DEF Take, Finish, Release
  <2> QED BY <2>1 DEF Call
<1>5. ASSUME NEW t \in Rank, NextEpoch(t) PROVE Call(t)
  BY <1>5 DEF NextEpoch, Call
<1> QED BY <1>1, <1>2, <1>3, <1>4, <1>5 DEF SessionNext, ThreadStep, ClientCall

LEMMA ClientTypeStep == ClientTypeOK /\ [SessionNext]_sessionVars => ClientTypeOK'
<1> SUFFICES ASSUME ClientTypeOK, [SessionNext]_sessionVars PROVE ClientTypeOK'
  OBVIOUS
<1>1. CASE UNCHANGED clientVars
  BY <1>1 DEF clientVars, ClientTypeOK
<1>2. ASSUME NEW t \in Rank, NEW k \in Key, Publish(t, k) \/ Take(t, k) \/ Finish(t, k) \/ Release(t, k)
      PROVE  ClientTypeOK'
  BY <1>2 DEF Publish, Take, Finish, Release, ClientTypeOK
<1>3. ASSUME NEW t \in Rank, NextEpoch(t) PROVE ClientTypeOK'
  BY <1>3 DEF NextEpoch, ClientTypeOK
<1> QED BY <1>1, <1>2, <1>3 DEF SessionNext, ThreadStep, ClientCall, sessionVars

\* A session uses the store only in ways that the store's most general client
\* has: what holds of every client of memory_tensor_store.cc holds of it.
THEOREM SessionIsClient == SessionSpec => StoreSpec /\ []ClientTypeOK
<1>1. SessionInit => StoreInit /\ ClientTypeOK
  BY ClientTypeInit DEF SessionInit
<1>2. ClientTypeOK /\ [SessionNext]_sessionVars => ClientTypeOK' /\ [StoreNext]_storeVars
  BY ClientTypeStep, SessionStepIsStoreStep
<1> QED BY <1>1, <1>2, PTL DEF SessionSpec, StoreSpec
-----------------------------------------------------------------------------
(* No assertion of the store fails *)

\* What the current epoch of an active thread says of a key.
LEMMA EntryOf ==
    ASSUME CoreInv, NEW t \in Rank, pc[t] \in Active, NEW k \in Key
    PROVE  Entry(k, epoch[t]) /\ barrierRound = 2 * epoch[t] - 1
  BY DEF CoreInv, RoundInv, EntryInv, ClientTypeOK

\* Those who have not finished with a key are missing from its count.
LEMMA NotYetFinished ==
    ASSUME CoreInv, NEW t \in Rank, pc[t] = "idle", NEW k \in Holding(t)
    PROVE  /\ k \in Key /\ t \in Getters[k] /\ Present(k) /\ t \notin Finishers(k, epoch[t])
           /\ actualGetCountMap[k] < targetGetCountMap[k]
<1>1. k \in Key /\ t \in Getters[k] /\ Present(k)
  BY DEF CoreInv, ClientInv, HeldInv, Holding, GetKeys, ClientTypeOK
<1>2. Entry(k, epoch[t]) /\ epoch[t] \in Nat
  BY <1>1, EntryOf DEF Active, CoreInv, ClientTypeOK
<1>3. t \notin Finishers(k, epoch[t])
  BY <1>2 DEF Finishers, Holding
<1>4. Finishers(k, epoch[t]) \in SUBSET Getters[k] /\ Finishers(k, epoch[t]) # Getters[k]
  BY <1>1, <1>3 DEF Finishers
<1>5. Cardinality(Finishers(k, epoch[t])) < Cardinality(Getters[k])
  <2> DEFINE F == Finishers(k, epoch[t])
  <2>1. F \in SUBSET Getters[k] /\ F # Getters[k]
    BY <1>4
  <2> HIDE DEF F
  <2>2. /\ Cardinality(F) \in Nat /\ Cardinality(Getters[k]) \in Nat /\ Cardinality(F) <= Cardinality(Getters[k])
        /\ Cardinality(F) # Cardinality(Getters[k])
    BY <1>1, <2>1, Counts
  <2> QED BY <2>2 DEF F
<1> QED BY <1>1, <1>2, <1>3, <1>5 DEF Entry

\* A key a thread has published is in the map until the epoch ends.
LEMMA PublishedPresent ==
    ASSUME CoreInv, NEW t \in Rank, pc[t] \in Active, NEW k \in Key
    PROVE  /\ k \in published[t] => Present(k)
           /\ k \in OwnKeys(t) /\ Present(k) => k \in published[t]
           /\ Present(k) => /\ targetGetCountMap[k] = Cardinality(Getters[k])
                            /\ actualGetCountMap[k] = Cardinality(Finishers(k, epoch[t]))
                            /\ actualGetCountMap[k] <= targetGetCountMap[k]
<1>1. Entry(k, epoch[t]) /\ epoch[t] \in Nat
  BY EntryOf DEF CoreInv, ClientTypeOK
<1>2. k \in published[t] => Producer[k] = t
  BY DEF CoreInv, ClientInv, OwnKeys
<1>3. Finishers(k, epoch[t]) \in SUBSET Getters[k]
  BY DEF Finishers
<1>4. Cardinality(Finishers(k, epoch[t])) <= Cardinality(Getters[k])
  BY <1>3, Counts
<1> QED BY <1>1, <1>2, <1>4 DEF Entry, OwnKeys

\* The operations of a thread, without those that cannot happen.
Entering(t, waiting, waking) ==
    /\ currentRound' = [currentRound EXCEPT ![t] = barrierRound]
    /\ UNCHANGED <<dataVars, worldSize, arg, got, aborted>>
    /\ \/ /\ \A u \in Rank \ {t} : pc[u] \in WaitStates /\ currentRound[u] = barrierRound
          /\ barrierRound' = barrierRound + 1
          /\ Goto(t, waking)
       \/ /\ UNCHANGED barrierRound
          /\ Goto(t, waiting)

Starts(t) ==
    /\ pc[t] \in {"ctor", "second"}
    /\ Entering(t, "wait", "wake")
    /\ UNCHANGED clientVars

Restarts(t) ==
    /\ EpochDone(t)
    /\ epoch[t] < MaxEpoch
    /\ Entering(t, "waitFirst", "wakeFirst")
    /\ epoch' = [epoch EXCEPT ![t] = @ + 1]
    /\ published' = [published EXCEPT ![t] = {}]
    /\ taken' = [taken EXCEPT ![t] = {}]
    /\ finished' = [finished EXCEPT ![t] = {}]
    /\ released' = [released EXCEPT ![t] = {}]

Leaves(t) ==
    /\ InBarrier(t)
    /\ currentRound[t] # barrierRound
    /\ Goto(t, AfterBarrier(pc[t]))
    /\ UNCHANGED <<dataVars, barrierVars, arg, got, aborted, clientVars>>

Clears(t) == ResetClear(t) /\ UNCHANGED clientVars

Constructs(t) == Construct(t) /\ UNCHANGED clientVars

\* Something is published, taken, finished or released, ...
Publishes(t, k) ==
    /\ pc[t] = "idle" /\ k \in OwnKeys(t) \ published[t] /\ ~Present(k)
    /\ tensorMap' = [tensorMap EXCEPT ![k] = <<k, epoch[t]>>]
    /\ targetGetCountMap' = [targetGetCountMap EXCEPT ![k] = Cardinality(Getters[k])]
    /\ actualGetCountMap' = [actualGetCountMap EXCEPT ![k] = 0]
    /\ Goto(t, "notify")
    /\ published' = [published EXCEPT ![t] = @ \cup {k}]
    /\ UNCHANGED <<barrierVars, arg, got, aborted, epoch, taken, finished, released>>

Takes(t, k) ==
    /\ pc[t] = "idle" /\ published[t] = OwnKeys(t) /\ k \in GetKeys(t) \ taken[t]
    /\ arg' = [arg EXCEPT ![t] = k]
    /\ \/ Present(k) /\ got' = [got EXCEPT ![t] = tensorMap[k]] /\ UNCHANGED pc
       \/ ~Present(k) /\ Goto(t, "destGet") /\ UNCHANGED got
    /\ taken' = [taken EXCEPT ![t] = @ \cup {k}]
    /\ UNCHANGED <<dataVars, barrierVars, aborted, epoch, published, finished, released>>

Finishes(t, k) ==
    /\ pc[t] = "idle" /\ k \in Holding(t)
    /\ actualGetCountMap' = [actualGetCountMap EXCEPT ![k] = @ + 1]
    /\ Goto(t, "notify") \/ UNCHANGED pc
    /\ finished' = [finished EXCEPT ![t] = @ \cup {k}]
    /\ UNCHANGED <<tensorMap, targetGetCountMap, barrierVars, arg, got, aborted, epoch, published, taken, released>>

Releases(t, k) ==
    /\ pc[t] = "idle" /\ published[t] = OwnKeys(t) /\ finished[t] = GetKeys(t)
    /\ k \in published[t] \ released[t]
    /\ arg' = [arg EXCEPT ![t] = k]
    /\ \/ Goto(t, "srcWait")
       \/ actualGetCountMap[k] = targetGetCountMap[k] /\ UNCHANGED pc
    /\ released' = [released EXCEPT ![t] = @ \cup {k}]
    /\ UNCHANGED <<dataVars, barrierVars, got, aborted, epoch, published, taken, finished>>

\* ... or a thread goes on after a notification or a wait.
GoesOn(t) ==
    /\ Goto(t, "idle")
    /\ \/ pc[t] = "notify" /\ UNCHANGED got
       \/ /\ pc[t] = "srcWait" /\ UNCHANGED got
          /\ actualGetCountMap[arg[t]] = targetGetCountMap[arg[t]]
       \/ /\ pc[t] = "destGet" /\ Present(arg[t])
          /\ got' = [got EXCEPT ![t] = tensorMap[arg[t]]]
    /\ UNCHANGED <<dataVars, barrierVars, arg, aborted, clientVars>>

SleepsOrWakes == UNCHANGED <<dataVars, barrierVars, pc, arg, got, aborted, clientVars>>

Kind(t) ==
    \/ Constructs(t) \/ Starts(t) \/ Restarts(t) \/ Leaves(t) \/ Clears(t) \/ GoesOn(t)
    \/ \E k \in Key : Publishes(t, k) \/ Takes(t, k) \/ Finishes(t, k) \/ Releases(t, k)

LEMMA EnteringBarrier ==
    ASSUME CoreInv, NEW t \in Rank, ~InBarrier(t), pc[t] # "new",
           NEW waiting, NEW waking, EnterBarrier(t, waiting, waking)
    PROVE  Entering(t, waiting, waking)
<1>1. worldSize = WorldSize /\ barrierCounts < WorldSize /\ barrierCounts \in Nat /\ WorldSize \in Nat
  BY WaitersFinite DEF CoreInv, BarrierInv, BarrierCountsExact
<1>2. ~(barrierCounts >= worldSize)
  BY <1>1
<1>3. barrierCounts + 1 = WorldSize =>
        \A u \in Rank \ {t} : pc[u] \in WaitStates /\ currentRound[u] = barrierRound
  BY LastArrival DEF CoreInv, CurrentWaiters
<1> QED BY <1>1, <1>2, <1>3 DEF EnterBarrier, Entering, Sleep, dataVars

LEMMA SessionKinds ==
    ASSUME CoreInv, [SessionNext]_sessionVars
    PROVE  SleepsOrWakes \/ \E t \in Rank : Kind(t)
<1>0. pc \in [Rank -> PcState] /\ arg \in [Rank -> Key]
  BY DEF CoreInv, TypeOK
<1>1. CASE UNCHANGED sessionVars
  BY <1>1 DEF sessionVars, storeVars, SleepsOrWakes
<1>2. ASSUME NEW t \in Rank, SpuriousWake(t) /\ UNCHANGED clientVars PROVE SleepsOrWakes
  BY <1>2 DEF SpuriousWake, SleepsOrWakes
<1>3. ASSUME NEW t \in Rank, Construct(t) \/ InnerStep(t), UNCHANGED clientVars
      PROVE  SleepsOrWakes \/ Kind(t)
  <2>1. CASE Construct(t)
    BY <1>3, <2>1 DEF Kind, Constructs
  <2>2. CASE ConstructBarrier(t) \/ ResetSecondBarrier(t)
    <3>1. pc[t] \in {"ctor", "second"} /\ EnterBarrier(t, "wait", "wake")
      BY <2>2 DEF ConstructBarrier, ResetSecondBarrier, At
    <3>2. ~InBarrier(t) /\ pc[t] # "new"
      BY <3>1 DEF InBarrier, BarrierState, WaitStates, WakeStates
    <3> QED BY <1>3, <3>1, <3>2, EnteringBarrier DEF Kind, Starts
  <2>3. CASE ResumeBarrier(t)
    <3>1. CASE currentRound[t] # barrierRound
      BY <1>3, <2>3, <3>1 DEF ResumeBarrier, Kind, Leaves, InBarrier, BarrierState
    <3>2. CASE currentRound[t] = barrierRound
      <4>1. pc' = pc
        BY <1>0, <2>3, <3>2 DEF ResumeBarrier, Sleep, Goto
      <4> QED BY <1>3, <2>3, <3>2, <4>1 DEF ResumeBarrier, SleepsOrWakes
    <3> QED BY <3>1, <3>2
  <2>4. CASE NotifyBarrier(t)
    BY <1>3, <2>4 DEF NotifyBarrier, Kind, Leaves, InBarrier, BarrierState, CoreInv, BarrierInv
  <2>5. CASE ResetClear(t)
    BY <1>3, <2>5 DEF Kind, Clears
  <2>6. CASE NotifyAll(t)
    BY <1>3, <2>6 DEF NotifyAll, At, Kind, GoesOn
  <2>7. CASE ResumeSrcWait(t)
    <3>1. pc[t] = "srcWait" /\ Present(arg[t])
      <4>1. pc[t] = "srcWait" /\ arg[t] \in Key /\ arg[t] \in published[t]
        BY <1>0, <2>7 DEF ResumeSrcWait, At, CoreInv, ClientInv
      <4> QED BY <4>1, PublishedPresent DEF Active
    <3>2. CASE actualGetCountMap[arg[t]] = targetGetCountMap[arg[t]]
      BY <1>3, <2>7, <3>1, <3>2 DEF ResumeSrcWait, Kind, GoesOn
    <3>3. CASE actualGetCountMap[arg[t]] # targetGetCountMap[arg[t]]
      <4>1. pc' = pc
        BY <1>0, <2>7, <3>1, <3>3 DEF ResumeSrcWait, Sleep, Goto
      <4> QED BY <1>3, <2>7, <3>1, <3>3, <4>1 DEF ResumeSrcWait, SleepsOrWakes
    <3> QED BY <3>2, <3>3
  <2>8. CASE ResumeDestGet(t)
    <3>1. CASE Present(arg[t])
      BY <1>3, <2>8, <3>1 DEF ResumeDestGet, At, Kind, GoesOn
    <3>2. CASE ~Present(arg[t])
      <4>1. pc' = pc
        BY <1>0, <2>8, <3>2 DEF ResumeDestGet, At, Sleep, Goto
      <4> QED BY <1>3, <2>8, <3>2, <4>1 DEF ResumeDestGet, SleepsOrWakes
    <3> QED BY <3>1, <3>2
  <2> QED BY <1>3, <2>1, <2>2, <2>3, <2>4, <2>5, <2>6, <2>7, <2>8 DEF InnerStep
<1>4. ASSUME NEW t \in Rank, NEW k \in Key, Publish(t, k) PROVE Kind(t)
  <2>1. pc[t] = "idle" /\ k \in OwnKeys(t) \ published[t]
    BY <1>4 DEF Publish, SrcSet, At
  <2>2. ~Present(k)
    BY <2>1, PublishedPresent DEF Active
  <2>3. Publishes(t, k)
    BY <1>4, <2>1, <2>2 DEF Publish, SrcSet, Publishes
  <2> QED BY <2>3 DEF Kind
<1>5. ASSUME NEW t \in Rank, NEW k \in Key, Take(t, k) PROVE Kind(t)
  <2>1. Takes(t, k)
    BY <1>5 DEF Take, DestGet, At, Takes, Sleep
  <2> QED BY <2>1 DEF Kind
<1>6. ASSUME NEW t \in Rank, NEW k \in Key, Finish(t, k) PROVE Kind(t)
  <2>1. pc[t] = "idle" /\ k \in Holding(t)
    BY <1>6 DEF Finish, DestFinishGet, At
  <2>2. /\ Present(k) /\ actualGetCountMap[k] < targetGetCountMap[k]
        /\ actualGetCountMap[k] \in Nat /\ targetGetCountMap[k] \in Nat
    BY <2>1, NotYetFinished DEF CoreInv, TypeOK
  <2>3. ~(actualGetCountMap[k] >= targetGetCountMap[k])
    BY <2>2
  <2>4. Finishes(t, k)
    BY <1>6, <2>1, <2>2, <2>3 DEF Finish, DestFinishGet, Finishes
  <2> QED BY <2>4 DEF Kind
<1>7. ASSUME NEW t \in Rank, NEW k \in Key, Release(t, k) PROVE Kind(t)
  <2>1. pc[t] = "idle" /\ k \in published[t]
    BY <1>7 DEF Release, SrcWaitUntilGetFinished, At
  <2>2. /\ Present(k) /\ actualGetCountMap[k] <= targetGetCountMap[k]
        /\ actualGetCountMap[k] \in Nat /\ targetGetCountMap[k] \in Nat
    BY <2>1, PublishedPresent DEF Active, CoreInv, TypeOK
  <2>3. ~(actualGetCountMap[k] > targetGetCountMap[k])
    BY <2>2
  <2>4. Releases(t, k)
    BY <1>7, <2>1, <2>2, <2>3 DEF Release, SrcWaitUntilGetFinished, Sleep, Releases
  <2> QED BY <2>4 DEF Kind
<1>8. ASSUME NEW t \in Rank, NextEpoch(t) PROVE Kind(t)
  <2>1. pc[t] = "idle" /\ EnterBarrier(t, "waitFirst", "wakeFirst")
    BY <1>8 DEF NextEpoch, Reset, At
  <2>2. ~InBarrier(t) /\ pc[t] # "new"
    BY <2>1 DEF InBarrier, BarrierState, WaitStates, WakeStates
  <2>3. Restarts(t)
    BY <1>8, <2>1, <2>2, EnteringBarrier DEF NextEpoch, Restarts
  <2> QED BY <2>3 DEF Kind
<1> QED BY <1>1, <1>2, <1>3, <1>4, <1>5, <1>6, <1>7, <1>8 DEF SessionNext, ThreadStep, ClientCall
-----------------------------------------------------------------------------
(* Every operation keeps the invariant *)

LEMMA RoundStep == ASSUME CoreInv, NEW t \in Rank, Kind(t) PROVE RoundInv'
<1>0. /\ pc \in [Rank -> PcState] /\ epoch \in [Rank -> Nat] /\ currentRound \in [Rank -> Nat]
      /\ barrierRound \in Nat /\ RoundInv
  BY DEF CoreInv, TypeOK, ClientTypeOK
<1> USE DEF Active, Goto
<1>1. CASE Constructs(t)
  BY <1>0, <1>1 DEF Constructs, Construct, At, RoundInv, clientVars
<1>2. CASE Starts(t)
  BY <1>0, <1>2 DEF Starts, Entering, RoundInv, clientVars, WaitStates
<1>3. CASE Restarts(t)
  <2>1. pc[t] = "idle"
    BY <1>3 DEF Restarts, EpochDone
  <2> QED BY <1>0, <1>3, <2>1 DEF Restarts, Entering, RoundInv, WaitStates
<1>4. CASE Leaves(t)
  <2>1. barrierRound = currentRound[t] + 1
    BY <1>0, <1>4 DEF Leaves, CoreInv, BarrierInv, BarrierCountsExact
  <2> QED BY <1>0, <1>4, <2>1
          DEF Leaves, AfterBarrier, RoundInv, clientVars, barrierVars, InBarrier, BarrierState, WaitStates, WakeStates
<1>5. CASE Clears(t)
  BY <1>0, <1>5 DEF Clears, ResetClear, At, RoundInv, clientVars, barrierVars
<1>6. CASE GoesOn(t)
  BY <1>0, <1>6 DEF GoesOn, RoundInv, clientVars, barrierVars
<1>7. ASSUME NEW k \in Key, Publishes(t, k) \/ Takes(t, k) \/ Finishes(t, k) \/ Releases(t, k)
      PROVE  RoundInv'
  <2>1. /\ pc[t] = "idle" /\ UNCHANGED <<barrierVars, epoch>>
        /\ pc' = pc \/ \E state \in Active : pc' = [pc EXCEPT ![t] = state]
    BY <1>7 DEF Publishes, Takes, Finishes, Releases
  <2> QED BY <1>0, <2>1 DEF RoundInv, barrierVars
<1> QED BY <1>1, <1>2, <1>3, <1>4, <1>5, <1>6, <1>7 DEF Kind

LEMMA ClientStep == ASSUME CoreInv, NEW t \in Rank, Kind(t) PROVE ClientInv'
<1>0. /\ pc \in [Rank -> PcState] /\ arg \in [Rank -> Key] /\ ClientTypeOK /\ ClientInv
  BY DEF CoreInv, TypeOK
<1>k. \A u \in Rank : GetKeys(u) \subseteq Key /\ OwnKeys(u) \subseteq Key
  BY DEF GetKeys, OwnKeys
<1> USE DEF Active, Goto
<1>1. CASE Constructs(t)
  BY <1>0, <1>1 DEF Constructs, Construct, At, ClientInv, clientVars, Holding
<1>2. CASE Starts(t) \/ Clears(t)
  <2>1. /\ pc[t] \notin Active /\ UNCHANGED <<clientVars, arg>>
        /\ \E state \in {"wait", "wake", "second"} : pc' = [pc EXCEPT ![t] = state]
    BY <1>2 DEF Starts, Entering, Clears, ResetClear, At
  <2> QED BY <1>0, <2>1 DEF ClientInv, clientVars, Holding
<1>3. CASE Restarts(t)
  <2>1. /\ arg' = arg /\ \E state \in {"waitFirst", "wakeFirst"} : pc' = [pc EXCEPT ![t] = state]
    BY <1>3 DEF Restarts, Entering
  <2> QED BY <1>0, <1>k, <1>3, <2>1 DEF Restarts, ClientInv, ClientTypeOK, Holding
<1>4. CASE Leaves(t)
  BY <1>0, <1>4 DEF Leaves, AfterBarrier, ClientInv, clientVars, InBarrier, BarrierState, WaitStates, WakeStates, Holding
<1>5. CASE GoesOn(t)
  BY <1>0, <1>5 DEF GoesOn, ClientInv, clientVars, Holding
<1>6. ASSUME NEW k \in Key, Publishes(t, k) PROVE ClientInv'
  BY <1>0, <1>6 DEF Publishes, ClientInv, ClientTypeOK, Holding
<1>7. ASSUME NEW k \in Key, Takes(t, k) PROVE ClientInv'
  BY <1>0, <1>7 DEF Takes, ClientInv, ClientTypeOK, Holding
<1>8. ASSUME NEW k \in Key, Finishes(t, k) PROVE ClientInv'
  <2>1. k \in taken[t] /\ k \notin finished[t] /\ pc[t] = "idle"
    BY <1>8 DEF Finishes, Holding
  <2>2. released[t] = {}
    BY <1>0, <2>1 DEF ClientInv
  <2> QED BY <1>0, <1>8, <2>1, <2>2 DEF Finishes, ClientInv, ClientTypeOK, Holding
<1>9. ASSUME NEW k \in Key, Releases(t, k) PROVE ClientInv'
  BY <1>0, <1>9 DEF Releases, ClientInv, ClientTypeOK, Holding
<1> QED BY <1>1, <1>2, <1>3, <1>4, <1>5, <1>6, <1>7, <1>8, <1>9 DEF Kind

\* While somebody may use the store, nobody clears it, has cleared it or is about
\* to open the next epoch.
LEMMA ActiveAlone ==
    ASSUME CoreInv, NEW t \in Rank, pc[t] \in Active, NEW u \in Rank
    PROVE  pc[u] \notin {"new", "ctor", "clear", "second"} /\ ~InRound(u)
<1>0. epoch \in [Rank -> Nat] /\ currentRound \in [Rank -> Nat] /\ barrierRound \in Nat /\ RoundInv
  BY DEF CoreInv, TypeOK, ClientTypeOK
<1>1. barrierRound = 2 * epoch[t] - 1 /\ epoch[t] \in Nat /\ epoch[u] \in Nat
  BY <1>0 DEF RoundInv
<1>2. barrierRound # 2 * epoch[u] - 2 /\ barrierRound # 0
  BY <1>1
<1> QED BY <1>0, <1>2 DEF RoundInv, InRound

LEMMA EmptyStep == ASSUME CoreInv, NEW t \in Rank, Kind(t) PROVE EmptyInv'
<1>0. /\ pc \in [Rank -> PcState] /\ currentRound \in [Rank -> Nat] /\ barrierRound \in Nat /\ EmptyInv
  BY DEF CoreInv, TypeOK
<1> USE DEF Goto
<1>a. ASSUME UNCHANGED <<tensorMap, currentRound, barrierRound>>,
             NEW state, pc' = [pc EXCEPT ![t] = state], state \notin {"new", "ctor", "second", "wait"}
      PROVE  EmptyInv'
  BY <1>0, <1>a DEF EmptyInv, InRound, Present
<1>1. CASE Constructs(t)
  BY <1>0, <1>1 DEF Constructs, Construct, At, EmptyInv, InRound, Present, dataVars
<1>2. CASE Starts(t)
  <2>1. \A k \in Key : ~Present(k)
    BY <1>0, <1>2 DEF Starts, EmptyInv
  <2> QED BY <1>2, <2>1 DEF Starts, Entering, EmptyInv, Present, dataVars
<1>3. CASE Restarts(t)
  <2>1. /\ tensorMap' = tensorMap /\ currentRound' = [currentRound EXCEPT ![t] = barrierRound]
        /\ \E state \in {"waitFirst", "wakeFirst"} : pc' = [pc EXCEPT ![t] = state]
    BY <1>3 DEF Restarts, Entering, dataVars
  <2>2. CASE barrierRound' = barrierRound
    BY <1>0, <2>1, <2>2 DEF EmptyInv, InRound, Present
  <2>3. CASE barrierRound' = barrierRound + 1 /\ \A u \in Rank \ {t} : pc[u] \in WaitStates /\ currentRound[u] = barrierRound
    <3>1. \A u \in Rank : ~InRound(u)' /\ pc'[u] \notin {"new", "ctor", "second"}
      BY <1>0, <2>1, <2>3 DEF InRound, WaitStates
    <3> QED BY <3>1 DEF EmptyInv
  <2> QED BY <1>3, <2>2, <2>3 DEF Restarts, Entering
<1>4. CASE Leaves(t)
  <2>1. AfterBarrier(pc[t]) \in {"clear", "idle"}
    BY DEF AfterBarrier
  <2> QED BY <1>a, <1>4, <2>1 DEF Leaves, dataVars, barrierVars
<1>5. CASE Clears(t)
  BY <1>5 DEF Clears, ResetClear, EmptyInv, Present
<1>6. CASE GoesOn(t)
  BY <1>a, <1>6 DEF GoesOn, dataVars, barrierVars
<1>7. ASSUME NEW k \in Key, Publishes(t, k) PROVE EmptyInv'
  <2>1. \A u \in Rank : pc[u] \notin {"new", "ctor", "second"} /\ ~InRound(u)
    BY <1>7, ActiveAlone DEF Publishes, Active
  <2>2. UNCHANGED <<currentRound, barrierRound>> /\ pc' = [pc EXCEPT ![t] = "notify"]
    BY <1>7 DEF Publishes, barrierVars
  <2> QED BY <1>0, <2>1, <2>2 DEF EmptyInv, InRound
<1>8. ASSUME NEW k \in Key, Takes(t, k) \/ Finishes(t, k) \/ Releases(t, k) PROVE EmptyInv'
  <2>1. /\ UNCHANGED <<tensorMap, barrierVars>>
        /\ pc' = pc \/ \E state \in {"destGet", "notify", "srcWait"} : pc' = [pc EXCEPT ![t] = state]
    BY <1>8 DEF Takes, Finishes, Releases, dataVars
  <2>2. CASE pc' = pc
    BY <1>0, <2>1, <2>2 DEF EmptyInv, InRound, Present, barrierVars
  <2> QED BY <1>a, <2>1, <2>2 DEF barrierVars
<1> QED BY <1>1, <1>2, <1>3, <1>4, <1>5, <1>6, <1>7, <1>8 DEF Kind

\* A key that some reader has finished with is in the map.
LEMMA FinishedPresent ==
    ASSUME CoreInv, NEW t \in Rank, NEW k \in finished[t]
    PROVE  Present(k)
  BY DEF CoreInv, ClientInv, HeldInv, Holding

\* All threads are in the second barrier of Reset, or in the constructor's.
LEMMA EpochOpens ==
    ASSUME CoreInv, NEW t \in Rank, Starts(t), barrierRound' # barrierRound,
           NEW e \in 1..MaxEpoch, barrierRound' = 2 * e - 1, NEW k \in Key
    PROVE  Entry(k, e)'
<1>0. /\ pc \in [Rank -> PcState] /\ epoch \in [Rank -> Nat] /\ currentRound \in [Rank -> Nat]
      /\ barrierRound \in Nat /\ RoundInv
  BY DEF CoreInv, TypeOK, ClientTypeOK
<1>1. /\ barrierRound' = barrierRound + 1 /\ pc[t] \in {"ctor", "second"}
      /\ \A u \in Rank \ {t} : pc[u] \in WaitStates /\ currentRound[u] = barrierRound
  BY DEF Starts, Entering
<1>2. barrierRound = 2 * epoch[t] - 2 /\ epoch[t] = e
  <2>1. barrierRound = 2 * epoch[t] - 2
    BY <1>0, <1>1 DEF RoundInv
  <2> QED BY <1>0, <1>1, <2>1
<1>3. ASSUME NEW u \in Rank PROVE epoch[u] = epoch[t] /\ published[u] = {} /\ finished[u] = {}
  <2>1. pc[u] \notin Active
    BY <1>1 DEF Active, WaitStates
  <2>2. epoch[u] = epoch[t]
    <3>1. CASE pc[u] = "waitFirst" /\ u # t
      <4>1. 2 * epoch[u] - 3 = 2 * epoch[t] - 2 /\ epoch[u] \in Nat /\ epoch[t] \in Nat
        BY <1>0, <1>1, <1>2, <3>1 DEF RoundInv
      <4> QED BY <4>1
    <3>2. CASE pc[u] = "wait" /\ u # t
      <4>1. 2 * epoch[u] - 2 = 2 * epoch[t] - 2 /\ epoch[u] \in Nat /\ epoch[t] \in Nat
        BY <1>0, <1>1, <1>2, <3>2 DEF RoundInv
      <4> QED BY <4>1
    <3> QED BY <1>1, <3>1, <3>2 DEF WaitStates
  <2> QED BY <2>1, <2>2 DEF CoreInv, ClientInv
<1>4. \A j \in Key : ~Present(j)
  BY <1>1 DEF CoreInv, EmptyInv
<1>5. UNCHANGED <<clientVars, dataVars>>
  BY DEF Starts, Entering
<1>6. Finishers(k, e)' = {}
  BY <1>0, <1>2, <1>3, <1>5 DEF Finishers, clientVars
<1>7. ~Present(k)' /\ ~(k \in published'[Producer[k]] \/ epoch'[Producer[k]] > e)
  BY <1>0, <1>2, <1>3, <1>4, <1>5 DEF Present, clientVars, dataVars
<1> QED BY <1>6, <1>7 DEF Entry

\* What does not touch a key, its producer and its readers.
LEMMA EntryFrame ==
    ASSUME NEW k \in Key, NEW e \in Nat, Entry(k, e), UNCHANGED dataVars,
           \A u \in Rank : (k \in finished'[u] \/ epoch'[u] > e) <=> (k \in finished[u] \/ epoch[u] > e),
           \A u \in Rank : (k \in published'[u] \/ epoch'[u] > e) <=> (k \in published[u] \/ epoch[u] > e)
    PROVE  Entry(k, e)'
<1>1. Producer[k] \in Rank /\ \A u \in Getters[k] : u \in Rank
  OBVIOUS
<1>2. Finishers(k, e)' = Finishers(k, e)
  <2>1. \A u \in Getters[k] : (k \in finished'[u] \/ epoch'[u] > e) <=> (k \in finished[u] \/ epoch[u] > e)
    BY <1>1
  <2> QED BY <2>1, Zenon DEF Finishers
<1>3. UNCHANGED <<tensorMap, targetGetCountMap, actualGetCountMap>>
  BY DEF dataVars
<1> QED BY <1>1, <1>2, <1>3 DEF Entry, Present

LEMMA EntryStep == ASSUME CoreInv, NEW t \in Rank, Kind(t) PROVE EntryInv'
<1> SUFFICES ASSUME NEW e \in 1..MaxEpoch, barrierRound' = 2 * e - 1, NEW k \in Key
             PROVE  Entry(k, e)'
  BY DEF EntryInv
<1>0. /\ pc \in [Rank -> PcState] /\ epoch \in [Rank -> Nat] /\ currentRound \in [Rank -> Nat]
      /\ barrierRound \in Nat /\ RoundInv /\ ClientTypeOK
      /\ targetGetCountMap \in [Key -> Nat] /\ actualGetCountMap \in [Key -> Nat]
      /\ tensorMap \in [Key -> Tensor \cup {NoTensor}]
  BY DEF CoreInv, TypeOK, ClientTypeOK
<1>e. barrierRound = 2 * e - 1 => Entry(k, e)
  BY DEF CoreInv, EntryInv
<1>1. CASE UNCHANGED <<dataVars, clientVars, barrierRound>>
  BY <1>1, <1>e, EntryFrame DEF clientVars
<1>2. CASE Starts(t)
  <2>1. CASE barrierRound' = barrierRound
    BY <1>1, <1>2, <2>1 DEF Starts, Entering
  <2> QED BY <1>2, <2>1, EpochOpens
<1>3. CASE Restarts(t)
  <2>1. barrierRound = 2 * epoch[t] - 1 /\ epoch[t] \in Nat
    BY <1>0, <1>3 DEF Restarts, EpochDone, RoundInv, Active
  <2>2. barrierRound' = barrierRound /\ e = epoch[t]
    <3>1. barrierRound' \in {barrierRound, barrierRound + 1}
      BY <1>3 DEF Restarts, Entering
    <3>2. 2 * e - 1 # 2 * epoch[t]
      BY <2>1
    <3> QED BY <1>0, <2>1, <3>1, <3>2
  <2>3. finished[t] = GetKeys(t) /\ published[t] = OwnKeys(t)
    BY <1>3 DEF Restarts, EpochDone, CoreInv, ClientInv
  <2>4. \A u \in Rank \ {t} : finished'[u] = finished[u] /\ published'[u] = published[u] /\ epoch'[u] = epoch[u]
    BY <1>0, <1>3 DEF Restarts, ClientTypeOK
  <2>5. epoch'[t] = e + 1 /\ e \in Nat
    BY <1>0, <1>3, <2>2 DEF Restarts
  <2>6. Finishers(k, e)' = Finishers(k, e)
    <3>1. Getters[k] \subseteq Rank /\ (t \in Getters[k] => k \in finished[t])
      BY <2>3 DEF GetKeys
    <3> QED BY <2>4, <2>5, <3>1 DEF Finishers
  <2>7. k \in published'[Producer[k]] \/ epoch'[Producer[k]] > e <=> k \in published[Producer[k]] \/ epoch[Producer[k]] > e
    <3>1. Producer[k] \in Rank /\ (Producer[k] = t => k \in published[t])
      BY <2>3 DEF OwnKeys
    <3> QED BY <2>4, <2>5, <3>1
  <2>8. UNCHANGED dataVars
    BY <1>3 DEF Restarts, Entering
  <2> QED BY <1>e, <2>2, <2>6, <2>7, <2>8 DEF Entry, Present, dataVars
<1>4. CASE Constructs(t) \/ Leaves(t) \/ GoesOn(t)
  <2>1. UNCHANGED <<dataVars, clientVars, barrierRound>>
    BY <1>4 DEF Constructs, Construct, Leaves, GoesOn, barrierVars
  <2> QED BY <1>1, <2>1
<1>5. CASE Clears(t)
  <2>1. barrierRound' = barrierRound /\ barrierRound = 2 * epoch[t] - 2 /\ epoch[t] \in Nat
    BY <1>0, <1>5 DEF Clears, ResetClear, At, RoundInv, barrierVars
  <2> QED BY <2>1
<1>6. ASSUME NEW j \in Key, Publishes(t, j) PROVE Entry(k, e)'
  <2>1. barrierRound' = barrierRound /\ barrierRound = 2 * epoch[t] - 1 /\ epoch[t] = e
    BY <1>0, <1>6 DEF Publishes, RoundInv, Active, barrierVars
  <2>2. \A u \in Rank : finished'[u] = finished[u] /\ epoch'[u] = epoch[u]
    BY <1>6 DEF Publishes
  <2>3. Finishers(k, e)' = Finishers(k, e)
    BY <2>2 DEF Finishers
  <2>4. CASE j = k
    <3>1. Producer[k] = t /\ k \in published'[t]
      BY <1>0, <1>6, <2>4 DEF Publishes, OwnKeys, ClientTypeOK
    <3>2. tensorMap'[k] = <<k, e>> /\ targetGetCountMap'[k] = Cardinality(Getters[k]) /\ actualGetCountMap'[k] = 0
      BY <1>0, <1>6, <2>1, <2>4 DEF Publishes
    <3>3. Finishers(k, e) = {}
      BY <1>6, <1>e, <2>1, <2>4 DEF Publishes, Entry
    <3>4. <<k, e>> # NoTensor
      BY DEF EpochTensor
    <3>5. Cardinality(Finishers(k, e)') = 0
      BY <2>3, <3>3, FS_EmptySet
    <3>6. Present(k)'
      BY <3>2, <3>4 DEF Present
    <3> QED BY <3>1, <3>2, <3>5, <3>6 DEF Entry
  <2>5. CASE j # k
    <3>1. /\ tensorMap'[k] = tensorMap[k] /\ targetGetCountMap'[k] = targetGetCountMap[k]
          /\ actualGetCountMap'[k] = actualGetCountMap[k]
      BY <1>0, <1>6, <2>5 DEF Publishes
    <3>2. k \in published'[Producer[k]] <=> k \in published[Producer[k]]
      BY <1>0, <1>6, <2>5 DEF Publishes, ClientTypeOK
    <3> QED BY <1>e, <2>1, <2>2, <2>3, <3>1, <3>2 DEF Entry, Present
  <2> QED BY <2>4, <2>5
<1>7. ASSUME NEW j \in Key, Takes(t, j) \/ Releases(t, j) PROVE Entry(k, e)'
  <2>1. UNCHANGED <<dataVars, barrierRound, epoch, published, finished>>
    BY <1>7 DEF Takes, Releases, barrierVars
  <2> QED BY <1>e, <2>1, EntryFrame
<1>8. ASSUME NEW j \in Key, Finishes(t, j) PROVE Entry(k, e)'
  <2>1. barrierRound' = barrierRound /\ barrierRound = 2 * epoch[t] - 1 /\ epoch[t] = e
    BY <1>0, <1>8 DEF Finishes, RoundInv, Active, barrierVars
  <2>2. UNCHANGED <<tensorMap, targetGetCountMap, epoch, published>>
    BY <1>8 DEF Finishes
  <2>3. CASE j = k
    <3>1. t \in Getters[k] /\ Present(k) /\ t \notin Finishers(k, e)
      BY <1>8, <2>1, <2>3, NotYetFinished DEF Finishes
    <3>2. Finishers(k, e)' = Finishers(k, e) \cup {t}
      BY <1>0, <1>8, <2>1, <2>2, <2>3, <3>1 DEF Finishes, Finishers, ClientTypeOK
    <3>3. actualGetCountMap'[k] = actualGetCountMap[k] + 1
      BY <1>0, <1>8, <2>3 DEF Finishes
    <3>4. Finishers(k, e) \in SUBSET Getters[k]
      BY DEF Finishers
    <3>5. Cardinality(Finishers(k, e) \cup {t}) = Cardinality(Finishers(k, e)) + 1
      BY <3>1, <3>4, Counts, FS_AddElement
    <3> QED BY <1>e, <2>1, <2>2, <3>1, <3>2, <3>3, <3>5 DEF Entry, Present
  <2>4. CASE j # k
    <3>1. actualGetCountMap'[k] = actualGetCountMap[k]
      BY <1>0, <1>8, <2>4 DEF Finishes
    <3>2. \A u \in Rank : k \in finished'[u] <=> k \in finished[u]
      BY <1>0, <1>8, <2>4 DEF Finishes, ClientTypeOK
    <3>3. Finishers(k, e)' = Finishers(k, e)
      BY <2>2, <3>2 DEF Finishers
    <3> QED BY <1>e, <2>1, <2>2, <3>1, <3>3 DEF Entry, Present
  <2> QED BY <2>3, <2>4
<1> QED BY <1>2, <1>3, <1>4, <1>5, <1>6, <1>7, <1>8 DEF Kind

LEMMA HeldStep == ASSUME CoreInv, NEW t \in Rank, Kind(t) PROVE HeldInv'
<1>0. /\ pc \in [Rank -> PcState] /\ arg \in [Rank -> Key] /\ ClientTypeOK /\ HeldInv
      /\ tensorMap \in [Key -> Tensor \cup {NoTensor}]
  BY DEF CoreInv, TypeOK
<1> USE DEF Goto
<1>a. ASSUME UNCHANGED <<tensorMap, taken>>,
             \A u \in Rank : pc[u] = "destGet" => pc'[u] = "destGet" /\ arg'[u] = arg[u]
      PROVE  HeldInv'
  BY <1>0, <1>a DEF HeldInv, Present
<1>1. CASE Constructs(t) \/ Starts(t) \/ Leaves(t)
  <2>1. /\ UNCHANGED <<tensorMap, taken, arg>> /\ pc[t] # "destGet"
        /\ \E state : pc' = [pc EXCEPT ![t] = state]
    BY <1>1 DEF Constructs, Construct, At, Starts, Entering, Leaves, InBarrier, BarrierState, WaitStates, WakeStates,
                dataVars, clientVars
  <2> QED BY <1>0, <1>a, <2>1
<1>2. CASE Restarts(t)
  <2>1. /\ tensorMap' = tensorMap /\ arg' = arg
        /\ \A u \in Rank \ {t} : pc'[u] = pc[u]
        /\ taken' = [taken EXCEPT ![t] = {}]
    BY <1>0, <1>2 DEF Restarts, Entering, dataVars
  <2> QED BY <1>0, <2>1 DEF HeldInv, Present, ClientTypeOK
<1>3. CASE Clears(t)
  <2>1. pc[t] = "clear" /\ taken' = taken
    BY <1>3 DEF Clears, ResetClear, At, clientVars
  <2>2. \A u \in Rank : taken[u] = {}
    BY <2>1, ActiveAlone DEF CoreInv, ClientInv
  <2> QED BY <2>1, <2>2 DEF HeldInv
<1>4. CASE GoesOn(t)
  <2>1. UNCHANGED <<tensorMap, taken, arg>> /\ pc' = [pc EXCEPT ![t] = "idle"]
    BY <1>4 DEF GoesOn, dataVars, clientVars
  <2>2. pc[t] = "destGet" => Present(arg[t])
    BY <1>4 DEF GoesOn
  <2> QED BY <1>0, <2>1, <2>2 DEF HeldInv, Present
<1>5. ASSUME NEW k \in Key, Publishes(t, k) PROVE HeldInv'
  <2>1. /\ tensorMap' = [tensorMap EXCEPT ![k] = <<k, epoch[t]>>] /\ <<k, epoch[t]>> # NoTensor
        /\ UNCHANGED <<taken, arg>> /\ pc[t] = "idle" /\ pc' = [pc EXCEPT ![t] = "notify"]
    BY <1>0, <1>5 DEF Publishes, EpochTensor, ClientTypeOK
  <2>2. \A j \in Key : Present(j) => Present(j)'
    BY <1>0, <2>1 DEF Present
  <2> QED BY <1>0, <2>1, <2>2 DEF HeldInv, ClientTypeOK
<1>6. ASSUME NEW k \in Key, Takes(t, k) PROVE HeldInv'
  <2>1. \A j \in taken[t] : Present(j)
    BY <1>0, <1>6 DEF Takes, HeldInv
  <2>2. UNCHANGED tensorMap /\ taken' = [taken EXCEPT ![t] = @ \cup {k}]
    BY <1>6 DEF Takes, dataVars
  <2>3. Present(k) \/ (pc'[t] = "destGet" /\ arg'[t] = k)
    BY <1>0, <1>6 DEF Takes
  <2>4. \A u \in Rank \ {t} : pc'[u] = pc[u] /\ arg'[u] = arg[u]
    BY <1>0, <1>6 DEF Takes
  <2> QED BY <1>0, <2>1, <2>2, <2>3, <2>4 DEF HeldInv, Present, ClientTypeOK
<1>7. ASSUME NEW k \in Key, Finishes(t, k) PROVE HeldInv'
  BY <1>0, <1>a, <1>7 DEF Finishes
<1>8. ASSUME NEW k \in Key, Releases(t, k) PROVE HeldInv'
  BY <1>0, <1>a, <1>8 DEF Releases, dataVars
<1> QED BY <1>1, <1>2, <1>3, <1>4, <1>5, <1>6, <1>7, <1>8 DEF Kind
-----------------------------------------------------------------------------
(* What the session promises *)

LEMMA CoreInit == SessionInit => CoreInv
<1> SUFFICES ASSUME SessionInit PROVE CoreInv
  OBVIOUS
<1>1. TypeOK /\ BarrierInv /\ ClientTypeOK
  BY TypeInit, BarrierInvInit, ClientTypeInit DEF SessionInit
<1>2. /\ \A t \in Rank : /\ pc[t] = "new" /\ epoch[t] = 1 /\ published[t] = {} /\ taken[t] = {}
                         /\ finished[t] = {} /\ released[t] = {}
      /\ barrierRound = 0 /\ \A k \in Key : ~Present(k)
  BY DEF SessionInit, StoreInit, Present
<1>3. RoundInv /\ ClientInv /\ EmptyInv /\ HeldInv
  BY <1>2, Zenon DEF RoundInv, ClientInv, EmptyInv, HeldInv, Active
<1>4. EntryInv
  <2>1. \A e \in 1..MaxEpoch : 0 # 2 * e - 1
    OBVIOUS
  <2> QED BY <1>2, <2>1 DEF EntryInv
<1> QED BY <1>1, <1>3, <1>4 DEF CoreInv

LEMMA CoreStep ==
    ASSUME CoreInv, [SessionNext]_sessionVars
    PROVE  CoreInv'
<1>1. TypeOK' /\ BarrierInv' /\ ClientTypeOK'
  BY SessionStepIsStoreStep, TypeStep, BarrierInvStep, ClientTypeStep DEF CoreInv
<1>2. ASSUME SleepsOrWakes PROVE RoundInv' /\ ClientInv' /\ EmptyInv' /\ HeldInv'
  <2>1. UNCHANGED <<pc, arg, tensorMap, barrierRound, currentRound, epoch, published, taken, finished, released>>
    BY <1>2 DEF SleepsOrWakes, dataVars, barrierVars, clientVars
  <2>2. RoundInv'
    BY <2>1 DEF CoreInv, RoundInv
  <2>3. ClientInv'
    BY <2>1 DEF CoreInv, ClientInv, Holding
  <2>4. EmptyInv' /\ HeldInv'
    BY <2>1 DEF CoreInv, EmptyInv, HeldInv, InRound, Present
  <2> QED BY <2>2, <2>3, <2>4
<1>3. ASSUME SleepsOrWakes PROVE EntryInv'
  <2>1. UNCHANGED <<dataVars, barrierRound, epoch, published, finished>>
    BY <1>3 DEF SleepsOrWakes, barrierVars, clientVars
  <2> QED BY <2>1, EntryFrame DEF CoreInv, EntryInv
<1> QED BY <1>1, <1>2, <1>3, SessionKinds, RoundStep, ClientStep, EmptyStep, EntryStep, HeldStep DEF CoreInv

LEMMA SessionCoreInv == SessionSpec => []CoreInv
  BY CoreInit, CoreStep, PTL DEF SessionSpec

\* No thread is in the handshake, or about to start it, while another clears the
\* maps in Reset (memory_tensor_store.cc, Reset): that is what the two barriers
\* around the clearing are for.
THEOREM SessionResetIsolation == SessionSpec => []ResetIsolation
<1>1. CoreInv => ResetIsolation
  <2> SUFFICES ASSUME CoreInv, NEW t \in Rank, pc[t] = "clear", NEW u \in Rank
               PROVE  pc[u] \in {"clear", "second", "waitFirst", "wakeFirst", "wait"}
    BY DEF ResetIsolation
  <2>0. /\ pc \in [Rank -> PcState] /\ epoch \in [Rank -> Nat] /\ currentRound \in [Rank -> Nat]
        /\ barrierRound \in Nat /\ RoundInv
    BY DEF CoreInv, TypeOK, ClientTypeOK
  <2>1. pc[u] \notin Active
    BY ActiveAlone
  <2>2. barrierRound = 2 * epoch[t] - 2 /\ epoch[t] > 1 /\ epoch[t] \in Nat
    BY <2>0 DEF RoundInv
  <2>3. pc[u] \notin {"new", "ctor"}
    BY <2>0, <2>2 DEF RoundInv
  <2>4. pc[u] # "wake"
    <3> SUFFICES ASSUME pc[u] = "wake" PROVE FALSE
      OBVIOUS
    <3>1. currentRound[u] = 2 * epoch[u] - 2 /\ epoch[u] \in Nat
      BY <2>0 DEF RoundInv
    <3>2. barrierRound = currentRound[u] + 1
      BY <2>0 DEF CoreInv, BarrierInv, BarrierCountsExact, InBarrier, BarrierState, WakeStates
    <3> QED BY <2>2, <3>1, <3>2
  <2> QED BY <2>0, <2>1, <2>3, <2>4 DEF PcState, BarrierState, WaitStates, WakeStates, Active
<1> QED BY <1>1, SessionCoreInv, PTL

\* No DAlwaysAssert and no map::at of the store fails under the clients of the
\* code: nobody sets a key twice in an epoch, finishes more often than the key
\* was to be got, or waits for a key that is not there
\* (memory_tensor_store.cc, SrcSet, SrcWaitUntilGetFinished, DestFinishGet).
THEOREM SessionNeverAborts == SessionSpec => []~aborted
<1>1. SessionInit => ~aborted
  BY DEF SessionInit, StoreInit
<1>2. CoreInv /\ ~aborted /\ [SessionNext]_sessionVars => ~aborted'
  <2>1. ASSUME NEW t \in Rank, Kind(t) PROVE aborted' = aborted
    BY <2>1 DEF Kind, Constructs, Construct, Starts, Restarts, Entering, Leaves, Clears, ResetClear, GoesOn,
                Publishes, Takes, Finishes, Releases
  <2> QED BY <2>1, SessionKinds DEF SleepsOrWakes
<1> QED BY <1>1, <1>2, SessionCoreInv, PTL DEF SessionSpec

LEMMA GotStep ==
    ASSUME CoreInv, GotInv, NEW t \in Rank, Kind(t)
    PROVE  GotInv'
<1>0. /\ pc \in [Rank -> PcState] /\ arg \in [Rank -> Key] /\ ClientTypeOK /\ ClientInv
      /\ got \in [Rank -> Tensor \cup {NoTensor}]
  BY DEF CoreInv, TypeOK
<1>k. ASSUME NEW k \in Key, pc[t] \in Active, Present(k) PROVE tensorMap[k] = <<k, epoch[t]>>
  BY <1>k, EntryOf DEF Entry
<1> USE DEF Goto
<1>a. ASSUME UNCHANGED <<arg, got, epoch, taken, finished>>,
             \A u \in Rank : pc[u] = "destGet" => pc'[u] = "destGet"
      PROVE  GotInv'
  BY <1>a DEF GotInv, Holding
<1>1. CASE Constructs(t) \/ Starts(t) \/ Leaves(t) \/ Clears(t)
  <2>1. /\ UNCHANGED <<arg, got, epoch, taken, finished>> /\ pc[t] # "destGet"
        /\ \E state : pc' = [pc EXCEPT ![t] = state]
    BY <1>1 DEF Constructs, Construct, At, Starts, Entering, Leaves, Clears, ResetClear,
                InBarrier, BarrierState, WaitStates, WakeStates, clientVars
  <2> QED BY <1>0, <1>a, <2>1
<1>2. CASE Restarts(t)
  <2>1. UNCHANGED <<arg, got>> /\ taken'[t] = {}
    BY <1>0, <1>2 DEF Restarts, Entering, ClientTypeOK
  <2>2. \A u \in Rank \ {t} : /\ pc'[u] = pc[u] /\ taken'[u] = taken[u] /\ finished'[u] = finished[u]
                              /\ epoch'[u] = epoch[u]
    BY <1>0, <1>2 DEF Restarts, Entering, ClientTypeOK
  <2> QED BY <2>1, <2>2 DEF GotInv, Holding
<1>3. CASE GoesOn(t)
  <2>1. UNCHANGED <<arg, epoch, taken, finished>> /\ pc' = [pc EXCEPT ![t] = "idle"]
    BY <1>3 DEF GoesOn, clientVars
  <2>2. CASE pc[t] = "destGet"
    <3>1. Present(arg[t]) /\ got' = [got EXCEPT ![t] = tensorMap[arg[t]]]
      BY <1>3, <2>2 DEF GoesOn
    <3>2. got'[t] = <<arg[t], epoch[t]>>
      BY <1>0, <1>k, <2>2, <3>1 DEF Active
    <3> QED BY <1>0, <2>1, <3>1, <3>2 DEF GotInv, Holding
  <2>3. CASE pc[t] # "destGet"
    BY <1>0, <1>3, <1>a, <2>1, <2>3 DEF GoesOn
  <2> QED BY <2>2, <2>3
<1>4. ASSUME NEW k \in Key, Publishes(t, k) PROVE GotInv'
  BY <1>0, <1>a, <1>4 DEF Publishes
<1>5. ASSUME NEW k \in Key, Takes(t, k) PROVE GotInv'
  <2>1. /\ \A u \in Rank \ {t} : arg'[u] = arg[u] /\ got'[u] = got[u] /\ pc'[u] = pc[u] /\ taken'[u] = taken[u]
        /\ UNCHANGED <<epoch, finished>> /\ arg'[t] = k
    BY <1>0, <1>5 DEF Takes, ClientTypeOK
  <2>2. pc'[t] = "destGet" \/ got'[t] = <<k, epoch[t]>>
    BY <1>0, <1>5, <1>k DEF Takes, Active
  <2> QED BY <2>1, <2>2 DEF GotInv, Holding
<1>6. ASSUME NEW k \in Key, Finishes(t, k) PROVE GotInv'
  <2>1. UNCHANGED <<arg, got, epoch, taken>> /\ \A u \in Rank : finished[u] \subseteq finished'[u]
    BY <1>0, <1>6 DEF Finishes, ClientTypeOK
  <2>2. \A u \in Rank : pc[u] = "destGet" => pc'[u] = "destGet"
    BY <1>0, <1>6 DEF Finishes
  <2> QED BY <2>1, <2>2 DEF GotInv, Holding
<1>7. ASSUME NEW k \in Key, Releases(t, k) PROVE GotInv'
  <2>1. UNCHANGED <<got, epoch, taken, finished>>
    BY <1>7 DEF Releases
  <2>2. Holding(t) = {}
    BY <1>0, <1>7 DEF Releases, ClientInv, Holding
  <2>3. \A u \in Rank \ {t} : arg'[u] = arg[u] /\ pc'[u] = pc[u]
    BY <1>0, <1>7 DEF Releases
  <2> QED BY <2>1, <2>2, <2>3 DEF GotInv, Holding
<1> QED BY <1>1, <1>2, <1>3, <1>4, <1>5, <1>6, <1>7 DEF Kind

\* What DestGet returns is the tensor its producer set for the key in the epoch
\* of the reader: not one from before a Reset, nor another key's.
THEOREM SessionFreshTensor == SessionSpec => []FreshTensor
<1>1. SessionInit => GotInv
  BY DEF SessionInit, GotInv, Holding
<1>2. CoreInv /\ GotInv /\ [SessionNext]_sessionVars => GotInv'
  <2>1. ASSUME SleepsOrWakes, GotInv PROVE GotInv'
    BY <2>1 DEF SleepsOrWakes, clientVars, GotInv, Holding
  <2> QED BY <2>1, SessionKinds, GotStep
<1>3. GotInv => FreshTensor
  BY DEF GotInv, FreshTensor
<1> QED BY <1>1, <1>2, <1>3, SessionCoreInv, PTL DEF SessionSpec

LEMMA AllFinished ==
    ASSUME CoreInv, NEW t \in Rank, pc[t] \in Active, NEW k \in published[t],
           actualGetCountMap[k] = targetGetCountMap[k], NEW u \in Getters[k]
    PROVE  epoch[u] > epoch[t] \/ k \in finished[u]
<1>1. k \in Key
  BY DEF CoreInv, ClientTypeOK
<1>2. Cardinality(Finishers(k, epoch[t])) = Cardinality(Getters[k])
  BY <1>1, PublishedPresent
<1>3. Finishers(k, epoch[t]) \in SUBSET Getters[k]
  BY DEF Finishers
<1>4. Finishers(k, epoch[t]) = Getters[k]
  BY <1>1, <1>2, <1>3, Counts
<1> QED BY <1>4 DEF Finishers

LEMMA ReleasedStep ==
    ASSUME CoreInv, ReleasedMeansFinished, NEW t \in Rank, Kind(t)
    PROVE  ReleasedMeansFinished'
<1>0. /\ pc \in [Rank -> PcState] /\ arg \in [Rank -> Key] /\ epoch \in [Rank -> Nat]
      /\ ClientTypeOK /\ ClientInv /\ RoundInv /\ barrierRound \in Nat
  BY DEF CoreInv, TypeOK, ClientTypeOK
<1>g. \A k \in Key : \A u \in Getters[k] : u \in Rank
  OBVIOUS
<1> USE DEF Goto
<1>a. ASSUME UNCHANGED <<epoch, released>>, \A u \in Rank : finished[u] \subseteq finished'[u],
             \A u \in Rank : \A k \in released[u] : Blocked(u, k) => Blocked(u, k)'
      PROVE  ReleasedMeansFinished'
  BY <1>0, <1>a, <1>g DEF ReleasedMeansFinished, ClientTypeOK
<1>1. CASE Constructs(t) \/ Starts(t) \/ Leaves(t) \/ Clears(t)
  <2>1. /\ UNCHANGED <<arg, epoch, released, finished>> /\ pc[t] \notin {"srcWait", "destGet"}
        /\ \E state : pc' = [pc EXCEPT ![t] = state]
    BY <1>1 DEF Constructs, Construct, At, Starts, Entering, Leaves, Clears, ResetClear,
                InBarrier, BarrierState, WaitStates, WakeStates, clientVars
  <2> QED BY <1>0, <1>a, <2>1 DEF Blocked
<1>2. CASE Restarts(t)
  <2>1. /\ arg' = arg /\ released'[t] = {} /\ epoch'[t] = epoch[t] + 1 /\ pc[t] = "idle"
        /\ \A u \in Rank \ {t} : /\ pc'[u] = pc[u] /\ released'[u] = released[u] /\ finished'[u] = finished[u]
                                 /\ epoch'[u] = epoch[u]
    BY <1>0, <1>2 DEF Restarts, EpochDone, Entering, ClientTypeOK
  <2>2. ASSUME NEW v \in Rank \ {t}, NEW k \in released[v] PROVE epoch[v] = epoch[t]
    <3>1. pc[v] \in Active
      BY <1>0, <2>2 DEF ClientInv
    <3>2. 2 * epoch[v] - 1 = 2 * epoch[t] - 1 /\ epoch[v] \in Nat /\ epoch[t] \in Nat
      BY <1>0, <2>1, <3>1 DEF RoundInv, Active
    <3> QED BY <3>2
  <2>3. ASSUME NEW v \in Rank, NEW k \in released'[v], ~Blocked(v, k)', NEW u \in Getters[k]
        PROVE  epoch'[u] > epoch'[v] \/ k \in finished'[u]
    <3>1. v # t /\ k \in released[v] /\ k \in Key /\ u \in Rank
      BY <1>0, <2>1, <2>3 DEF ClientTypeOK
    <3>2. epoch[u] > epoch[v] \/ k \in finished[u]
      BY <2>1, <2>3, <3>1 DEF ReleasedMeansFinished, Blocked
    <3> QED BY <1>0, <2>1, <2>2, <3>1, <3>2
  <2> QED BY <2>3 DEF ReleasedMeansFinished
<1>3. CASE GoesOn(t)
  <2>1. UNCHANGED <<arg, epoch, released, finished, published>> /\ pc' = [pc EXCEPT ![t] = "idle"]
    BY <1>3 DEF GoesOn, clientVars
  <2>2. CASE pc[t] = "srcWait"
    <3>1. actualGetCountMap[arg[t]] = targetGetCountMap[arg[t]] /\ arg[t] \in published[t]
      BY <1>0, <1>3, <2>2 DEF GoesOn, ClientInv
    <3>2. \A u \in Getters[arg[t]] : epoch[u] > epoch[t] \/ arg[t] \in finished[u]
      BY <2>2, <3>1, AllFinished DEF Active
    <3> QED BY <1>0, <2>1, <3>2 DEF ReleasedMeansFinished, Blocked
  <2>3. CASE pc[t] = "destGet"
    <3>1. released[t] = {}
      BY <1>0, <2>3 DEF ClientInv, Holding
    <3> QED BY <1>0, <1>a, <2>1, <3>1 DEF Blocked
  <2>4. CASE pc[t] = "notify"
    BY <1>0, <1>a, <2>1, <2>4 DEF Blocked
  <2> QED BY <1>3, <2>2, <2>3, <2>4 DEF GoesOn
<1>4. ASSUME NEW k \in Key, Publishes(t, k) \/ Takes(t, k) PROVE ReleasedMeansFinished'
  <2>1. /\ UNCHANGED <<epoch, released, finished>> /\ pc[t] = "idle"
        /\ \A u \in Rank \ {t} : pc'[u] = pc[u] /\ arg'[u] = arg[u]
    BY <1>0, <1>4 DEF Publishes, Takes
  <2> QED BY <1>0, <1>a, <2>1 DEF Blocked
<1>5. ASSUME NEW k \in Key, Finishes(t, k) PROVE ReleasedMeansFinished'
  <2>1. /\ UNCHANGED <<epoch, released, arg>> /\ pc[t] = "idle" /\ \A u \in Rank : finished[u] \subseteq finished'[u]
        /\ \A u \in Rank \ {t} : pc'[u] = pc[u]
    BY <1>0, <1>5 DEF Finishes, ClientTypeOK
  <2> QED BY <1>0, <1>a, <2>1 DEF Blocked
<1>6. ASSUME NEW k \in Key, Releases(t, k) PROVE ReleasedMeansFinished'
  <2>1. /\ UNCHANGED <<epoch, finished>> /\ pc[t] = "idle" /\ arg'[t] = k /\ k \in published[t]
        /\ released'[t] = released[t] \cup {k}
        /\ \A u \in Rank \ {t} : pc'[u] = pc[u] /\ arg'[u] = arg[u] /\ released'[u] = released[u]
    BY <1>0, <1>6 DEF Releases, ClientTypeOK
  <2>2. ASSUME NEW u \in Getters[k], ~Blocked(t, k)' PROVE epoch[u] > epoch[t] \/ k \in finished[u]
    <3>1. actualGetCountMap[k] = targetGetCountMap[k]
      BY <1>0, <1>6, <2>1, <2>2 DEF Releases, Blocked
    <3> QED BY <2>1, <3>1, AllFinished DEF Active
  <2>3. ASSUME NEW j \in released[t] PROVE ~Blocked(t, j)
    BY <2>1 DEF Blocked
  <2> QED BY <2>1, <2>2, <2>3 DEF ReleasedMeansFinished, Blocked
<1> QED BY <1>1, <1>2, <1>3, <1>4, <1>5, <1>6 DEF Kind

\* When SrcWaitUntilGetFinished has returned for a key, each of its readers has
\* called DestFinishGet: the producer may reuse the tensor (tensor_store.h:90).
THEOREM SessionReleasedMeansFinished == SessionSpec => []ReleasedMeansFinished
<1>1. SessionInit => ReleasedMeansFinished
  BY DEF SessionInit, ReleasedMeansFinished
<1>2. CoreInv /\ ReleasedMeansFinished /\ [SessionNext]_sessionVars => ReleasedMeansFinished'
  <2>1. ASSUME SleepsOrWakes, ReleasedMeansFinished PROVE ReleasedMeansFinished'
    BY <2>1 DEF SleepsOrWakes, clientVars, ReleasedMeansFinished, Blocked
  <2> QED BY <2>1, SessionKinds, ReleasedStep
<1> QED BY <1>1, <1>2, SessionCoreInv, PTL DEF SessionSpec
=============================================================================
