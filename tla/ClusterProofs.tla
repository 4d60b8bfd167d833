--------------------------- MODULE ClusterProofs ---------------------------
(***************************************************************************)
(* Proofs about the cluster, for every set of workers and graphs and any   *)
(* number of GPUs, deaths and repeated calls: types, that the live workers *)
(* host the graphs of mGraphIdSet whenever no call is under way and share  *)
(* out their devices, and what a main node that aborts has met.            *)
(***************************************************************************)
EXTENDS Cluster, TLAPS, WellFoundedInduction

\* One call at a time, and it is the one that holds the mutex.
CallInv ==
    /\ \A g \in Graph : pc[g] \in {"creating", "destroying"} => holder = g
    /\ holder # NoGraph => pc[holder] \in {"creating", "destroying"}
    /\ \A g \in Graph : /\ pc[g] = "creating" => g \in graphIds
                        /\ pc[g] = "destroying" => g \notin graphIds

\* A worker that is known, or about to be, has its server up or has ended, and
\* ends regularly only when the main node has told it to.
Joined(w) == wpc[w] \in Serving \cup {"dead"} \/ (wpc[w] = "exited" /\ w \in destroySignal)
JoinInv ==
    /\ \A i \in DOMAIN nodes : Joined(nodes[i])
    /\ \A w \in Worker : requests[w] > 0 \/ w \in answered => Joined(w)
    /\ destroySignal # {} => main \notin {"off", "serving", "up"}

\* The graphs client i hosts while the call of `holder' goes through the clients.
Expected(i) ==
    IF holder = NoGraph \/ calls[i] = "done" THEN graphIds
    ELSE IF pc[holder] = "creating" THEN graphIds \ {holder}
    ELSE graphIds \cup {holder}

HostInv ==
    /\ \A w \in Worker : (\A i \in DOMAIN nodes : nodes[i] # w) => runners[w] = {}
    /\ main \in {"off", "serving", "up"} /\ ~Twice =>
         \A i \in DOMAIN nodes : wpc[nodes[i]] \in Serving =>
            /\ runners[nodes[i]] = Rows(i, Expected(i))
            /\ \/ graphIds = {}
               \/ holder # NoGraph /\ pc[holder] = "creating" /\ calls[i] = "sent"
               \/ installed[nodes[i]] = NodeSize

\* A graph's identifier is in mGraphIdSet from its CreateGraph on.
IdInv ==
    \A g \in Graph : /\ pc[g] \in {"none", "addressed", "built", "calling"} => g \notin graphIds
                     /\ pc[g] = "ready" => g \in graphIds

\* What a thread has read of the cluster stays true until its call has the mutex,
\* unless a worker was registered between.
AddressInv ==
    \/ untimely
    \/ \A g \in Graph :
         /\ pc[g] = "addressed" /\ (g \in PerDevice \/ NodeSize > 1) => g \in fabric
         /\ pc[g] \in {"built", "calling", "creating"} /\ NodeSize > 1 => g \in fabric
         /\ pc[g] = "calling" => seen[g] = NodeSize

\* Processes that never start belong to a graph without addresses.
StuckInv ==
    holder # NoGraph => \A i \in DOMAIN calls :
        calls[i] = "stuck" => pc[holder] = "creating" /\ holder \notin fabric

\* The signal has been sent to the clients ~MainNode has gone through.
SignalInv ==
    main = "stopping" =>
        signalled <= toSignal /\ \A w \in destroySignal : \E k \in 1 .. signalled : nodes[k] = w

FaultInv == IdInv /\ AddressInv /\ StuckInv /\ SignalInv /\ AbortsNeedAFault

ClusterInv == ClusterTypeOK /\ CallInv /\ JoinInv /\ HostInv /\ FaultInv

USE ClusterAssumption DEF Starting, Serving, Alive, InCall, Listens

-----------------------------------------------------------------------------
(* Type correctness *)

\* A handler changes the state of its own call, or ends its worker.
LEMMA CallsChange ==
    ASSUME ClusterTypeOK, NEW i \in DOMAIN calls,
           UNCHANGED mainVars \/ \E s \in {"running", "stuck", "done"} : Answer(i, s)
    PROVE  /\ calls' \in Seq({"sent", "running", "stuck", "done"}) /\ Len(calls') = Len(calls)
           /\ UNCHANGED <<main, nodes, graphIds, holder, signalled, toSignal>>
  <1>1. CASE UNCHANGED mainVars
    BY <1>1 DEF ClusterTypeOK, mainVars
  <1>2. ASSUME NEW s \in {"running", "stuck", "done"}, Answer(i, s)
        PROVE  /\ calls' \in Seq({"sent", "running", "stuck", "done"}) /\ Len(calls') = Len(calls)
               /\ UNCHANGED <<main, nodes, graphIds, holder, signalled, toSignal>>
    BY <1>2 DEF ClusterTypeOK, Answer
  <1> QED BY <1>1, <1>2

\* Every variable of the cluster keeps its type; the RPCs of a call are one per
\* client as long as the call holds the mutex.
THEOREM ClusterTypes == ClusterSpec => []ClusterTypeOK
<1>1. ClusterInit => ClusterTypeOK
  <2>1. ClusterInit => FlagTypeOK
    BY DEF ClusterInit, FlagTypeOK
  <2> QED BY <2>1 DEF ClusterInit, ClusterTypeOK
<1>2. ClusterTypeOK /\ [ClusterNext]_clusterVars => ClusterTypeOK'
  <2> SUFFICES ASSUME ClusterTypeOK, [ClusterNext]_clusterVars PROVE ClusterTypeOK'
    OBVIOUS
  <2>0. FlagTypeOK'
    <3>1. sameDevice' = sameDevice
      BY DEF ClusterNext, StartServer, StartHeartBeat, Stop, SendDestroySignal,
             StopEnds, Joins, Connect, SyncOptions, SyncClusterConfig, RegisterWorkerNode, AddWorkerNode,
             RegisterReturns, RetryRegister, JoinFails, Crash, WorkerExits, Lifecycle, ChooseAddresses,
             BuildExecutor, ComputeDevices, CreateGraph, DestroyGraph, DropGraph, CallReturns, FanOut,
             Handler, BeginCreate, EndCreate, RunDestroy, Answer, CallFails, Abort,
             clusterVars, mainVars, graphVars, workerVars, boundVars
    <3>2. untimely' \in BOOLEAN
      <4>1. untimely \in BOOLEAN
        BY DEF ClusterTypeOK, FlagTypeOK
      <4> QED BY <4>1 DEF ClusterNext, StartServer, StartHeartBeat, Stop, SendDestroySignal,
             StopEnds, Joins, Connect, SyncOptions, SyncClusterConfig, RegisterWorkerNode, AddWorkerNode,
             RegisterReturns, RetryRegister, JoinFails, Crash, WorkerExits, Lifecycle, ChooseAddresses,
             BuildExecutor, ComputeDevices, CreateGraph, DestroyGraph, DropGraph, CallReturns, FanOut,
             Handler, BeginCreate, EndCreate, RunDestroy, Answer, CallFails, Abort,
             clusterVars, mainVars, graphVars, workerVars, boundVars
    <3> QED BY <3>1, <3>2 DEF ClusterTypeOK, FlagTypeOK
  <2> USE <2>0 DEF mainVars, graphVars, workerVars, boundVars
  <2>1. CASE StartServer
    BY <2>1 DEF ClusterTypeOK, StartServer
  <2>2. CASE StartHeartBeat
    BY <2>2 DEF ClusterTypeOK, StartHeartBeat
  <2>3. CASE Stop
    BY <2>3 DEF ClusterTypeOK, Stop
  <2>4. CASE SendDestroySignal
    <3>1. signalled \in Nat /\ toSignal \in Nat /\ toSignal <= Len(nodes) /\ nodes \in Seq(Worker)
      BY DEF ClusterTypeOK
    <3>2. signalled < toSignal
      BY <2>4 DEF SendDestroySignal
    <3>3. nodes[signalled + 1] \in Worker /\ signalled + 1 \in Nat
      BY <3>1, <3>2
    <3>4. CASE Abort
      BY <2>4, <3>3, <3>4 DEF ClusterTypeOK, SendDestroySignal, Abort
    <3>5. CASE /\ signalled' = signalled + 1
               /\ destroySignal' = destroySignal \cup {nodes[signalled + 1]}
               /\ UNCHANGED <<sameDevice, main, nodes, graphIds, holder, calls, toSignal>>
      BY <2>4, <3>3, <3>5 DEF ClusterTypeOK, SendDestroySignal
    <3> QED BY <2>4, <3>4, <3>5 DEF SendDestroySignal
  <2>5. CASE StopEnds
    BY <2>5 DEF ClusterTypeOK, StopEnds
  <2>6. ASSUME NEW w \in Worker, Joins(w) PROVE ClusterTypeOK'
    <3>1. CASE AddWorkerNode(w)
      <4>1. requests' \in [Worker -> Nat]
        BY <3>1 DEF ClusterTypeOK, AddWorkerNode
      <4>2. nodes' \in Seq(Worker) /\ Len(nodes') >= Len(nodes) /\ holder' = NoGraph
        <5>1. nodes \in Seq(Worker) /\ (nodes' = nodes \/ nodes' = Append(nodes, w)) /\ holder' = NoGraph
          BY <3>1 DEF ClusterTypeOK, AddWorkerNode, Abort
        <5> QED BY <5>1
      <4>3. toSignal' <= Len(nodes')
        BY <3>1, <4>2 DEF ClusterTypeOK, AddWorkerNode, Abort
      <4> QED BY <3>1, <4>1, <4>2, <4>3 DEF ClusterTypeOK, AddWorkerNode, Abort
    <3>2. CASE Connect(w)
      BY <3>2 DEF ClusterTypeOK, Connect, Goto
    <3>3. CASE SyncOptions(w)
      BY <3>3 DEF ClusterTypeOK, SyncOptions, Goto
    <3>4. CASE SyncClusterConfig(w)
      BY <3>4 DEF ClusterTypeOK, SyncClusterConfig, Goto, Abort
    <3>5. CASE RegisterWorkerNode(w)
      <4>1. requests' \in [Worker -> Nat] /\ wpc' \in [Worker -> Alive \cup {"exited", "dead"}]
        <5>1. requests' \in [Worker -> Nat]
          <6>1. requests \in [Worker -> Nat]
            BY DEF ClusterTypeOK
          <6>2. requests' = requests \/ requests' = [requests EXCEPT ![w] = 1]
            BY <3>5 DEF RegisterWorkerNode
          <6> QED BY <6>1, <6>2
        <5>2. wpc' \in [Worker -> Alive \cup {"exited", "dead"}]
          BY <3>5 DEF ClusterTypeOK, RegisterWorkerNode, Goto
        <5> QED BY <5>1, <5>2
      <4> QED BY <3>5, <4>1 DEF ClusterTypeOK, RegisterWorkerNode
    <3>6. CASE RegisterReturns(w)
      BY <3>6 DEF ClusterTypeOK, RegisterReturns, Goto
    <3> QED BY <2>6, <3>1, <3>2, <3>3, <3>4, <3>5, <3>6 DEF Joins
  <2>7. ASSUME NEW w \in Worker, RetryRegister(w) PROVE ClusterTypeOK'
    BY <2>7 DEF ClusterTypeOK, RetryRegister
  <2>8. ASSUME NEW w \in Worker, JoinFails(w) PROVE ClusterTypeOK'
    BY <2>8 DEF ClusterTypeOK, JoinFails, Goto
  <2>9. ASSUME NEW w \in Worker, Crash(w) PROVE ClusterTypeOK'
    <3>1. faults' \in 0 .. MaxFault
      BY <2>9 DEF ClusterTypeOK, Crash
    <3>2. wpc' \in [Worker -> Alive \cup {"exited", "dead"}]
      BY <2>9 DEF ClusterTypeOK, Crash, Goto
    <3>3. runners' = [v \in Worker |-> runners'[v]]
      BY <2>9 DEF ClusterTypeOK, Crash
    <3> QED BY <2>9, <3>1, <3>2, <3>3 DEF ClusterTypeOK, Crash
  <2>10. ASSUME NEW w \in Worker, WorkerExits(w) PROVE ClusterTypeOK'
    BY <2>10 DEF ClusterTypeOK, WorkerExits, Goto
  <2>11. ASSUME NEW g \in Graph, Lifecycle(g) PROVE ClusterTypeOK'
    <3>1. CASE ChooseAddresses(g)
      BY <3>1 DEF ClusterTypeOK, ChooseAddresses, At
    <3>2. CASE BuildExecutor(g)
      BY <3>2 DEF ClusterTypeOK, BuildExecutor, At, Abort
    <3>3. CASE ComputeDevices(g)
      BY <3>3 DEF ClusterTypeOK, ComputeDevices, At, NodeSize
    <3>4. ASSUME FanOut(g) PROVE calls' \in Seq({"sent", "running", "stuck", "done"}) /\ Len(calls') = Len(nodes)
      BY <3>4 DEF ClusterTypeOK, FanOut
    <3>5. CASE CreateGraph(g)
      <4>1. CASE FanOut(g)
        <5>1. pc' \in [Graph -> InCall \cup {"none", "addressed", "built", "ready", "gone"}]
          BY <3>5 DEF ClusterTypeOK, CreateGraph, At
        <5>2. graphIds' \subseteq Graph
          BY <3>5, <4>1 DEF ClusterTypeOK, CreateGraph, FanOut, Abort
        <5> QED BY <3>5, <4>1, <3>4, <5>1, <5>2 DEF ClusterTypeOK, CreateGraph, FanOut
      <4>2. CASE Abort
        BY <3>5, <4>2 DEF ClusterTypeOK, CreateGraph, Abort, At
      <4> QED BY <3>5, <4>1, <4>2 DEF CreateGraph
    <3>6. CASE DestroyGraph(g)
      <4>1. CASE FanOut(g)
        <5>1. pc' \in [Graph -> InCall \cup {"none", "addressed", "built", "ready", "gone"}]
          BY <3>6 DEF ClusterTypeOK, DestroyGraph, At
        <5>2. graphIds' \subseteq Graph
          BY <3>6, <4>1 DEF ClusterTypeOK, DestroyGraph, FanOut, Abort
        <5> QED BY <3>6, <4>1, <3>4, <5>1, <5>2 DEF ClusterTypeOK, DestroyGraph, FanOut
      <4>2. CASE Abort
        BY <3>6, <4>2 DEF ClusterTypeOK, DestroyGraph, Abort, At
      <4>3. CASE UNCHANGED mainVars
        BY <3>6, <4>3 DEF ClusterTypeOK, DestroyGraph, At
      <4> QED BY <3>6, <4>1, <4>2, <4>3 DEF DestroyGraph
    <3>7. CASE DropGraph(g)
      BY <3>7 DEF ClusterTypeOK, DropGraph, At
    <3>8. CASE CallReturns(g)
      BY <3>8 DEF ClusterTypeOK, CallReturns, At
    <3> QED BY <2>11, <3>1, <3>2, <3>3, <3>5, <3>6, <3>7, <3>8 DEF Lifecycle
  <2>12. ASSUME NEW i \in DOMAIN calls, Handler(i) PROVE ClusterTypeOK'
    <3>1. nodes[i] \in Worker \/ holder = NoGraph
      BY <2>12 DEF ClusterTypeOK
    <3>2. CASE BeginCreate(i)
      <4>1. wpc' \in [Worker -> Alive \cup {"exited", "dead"}]
        BY <3>2 DEF ClusterTypeOK, BeginCreate, Goto
      <4>2. runners' = [v \in Worker |-> runners'[v]]
        BY <3>2 DEF ClusterTypeOK, BeginCreate
      <4>3. installed' \in [Worker -> Nat]
        <5>1. NodeSize \in Nat
          BY DEF ClusterTypeOK, NodeSize
        <5> QED BY <3>2, <5>1 DEF ClusterTypeOK, BeginCreate
      <4>4. /\ calls' \in Seq({"sent", "running", "stuck", "done"}) /\ Len(calls') = Len(calls)
            /\ UNCHANGED <<main, nodes, graphIds, holder, signalled, toSignal>>
        BY <3>2, CallsChange DEF BeginCreate
      <4> QED BY <3>2, <4>1, <4>2, <4>3, <4>4 DEF ClusterTypeOK, BeginCreate
    <3>3. CASE EndCreate(i)
      <4>1. wpc' \in [Worker -> Alive \cup {"exited", "dead"}]
        BY <3>3 DEF ClusterTypeOK, EndCreate, Goto
      <4>2. runners' = [v \in Worker |-> runners'[v]]
        BY <3>3 DEF ClusterTypeOK, EndCreate
      <4>3. installed' \in [Worker -> Nat]
        BY <3>3 DEF ClusterTypeOK, EndCreate, NodeSize
      <4>4. /\ calls' \in Seq({"sent", "running", "stuck", "done"}) /\ Len(calls') = Len(calls)
            /\ UNCHANGED <<main, nodes, graphIds, holder, signalled, toSignal>>
        BY <3>3, CallsChange DEF EndCreate
      <4> QED BY <3>3, <4>1, <4>2, <4>3, <4>4 DEF ClusterTypeOK, EndCreate
    <3>4. CASE RunDestroy(i)
      <4>1. wpc' \in [Worker -> Alive \cup {"exited", "dead"}]
        BY <3>4 DEF ClusterTypeOK, RunDestroy, Goto
      <4>2. runners' = [v \in Worker |-> runners'[v]]
        BY <3>4 DEF ClusterTypeOK, RunDestroy
      <4>3. installed' \in [Worker -> Nat]
        BY <3>4 DEF ClusterTypeOK, RunDestroy, NodeSize
      <4>4. /\ calls' \in Seq({"sent", "running", "stuck", "done"}) /\ Len(calls') = Len(calls)
            /\ UNCHANGED <<main, nodes, graphIds, holder, signalled, toSignal>>
        BY <3>4, CallsChange DEF RunDestroy
      <4> QED BY <3>4, <4>1, <4>2, <4>3, <4>4 DEF ClusterTypeOK, RunDestroy
    <3> QED BY <2>12, <3>2, <3>3, <3>4 DEF Handler
  <2>13. ASSUME NEW i \in DOMAIN calls, CallFails(i) PROVE ClusterTypeOK'
    BY <2>13 DEF ClusterTypeOK, CallFails, Abort
  <2>14. CASE UNCHANGED clusterVars
    BY <2>14 DEF ClusterTypeOK, clusterVars
  <2> QED BY <2>1, <2>2, <2>3, <2>4, <2>5, <2>6, <2>7, <2>8, <2>9, <2>10, <2>11, <2>12, <2>13, <2>14
          DEF ClusterNext
<1> QED BY <1>1, <1>2, PTL DEF ClusterSpec
-----------------------------------------------------------------------------
(* One call at a time *)

LEMMA CallStep ==
    ASSUME ClusterTypeOK, CallInv, [ClusterNext]_clusterVars
    PROVE  CallInv'
  <1> USE DEF mainVars, graphVars, workerVars, boundVars
  <1>1. CASE UNCHANGED <<pc, holder, graphIds>>
    BY <1>1 DEF CallInv
  <1>2. ASSUME NEW g \in Graph, Lifecycle(g) PROVE CallInv'
    <2>1. pc \in [Graph -> InCall \cup {"none", "addressed", "built", "ready", "gone"}] /\ graphIds \subseteq Graph /\ holder \in Graph \cup {NoGraph}
      BY DEF ClusterTypeOK
    <2>2. CASE CreateGraph(g)
      <3>1. CASE pc' = pc
        BY <1>1, <2>2, <3>1 DEF CreateGraph, At, Abort, FanOut, ClusterTypeOK
      <3>2. CASE FanOut(g) /\ At(g, "calling", "creating") /\ graphIds' = graphIds \cup {g} /\ holder = NoGraph
        BY <2>1, <3>2 DEF CallInv, At, FanOut
      <3> QED BY <2>2, <3>1, <3>2 DEF CreateGraph
    <2>3. CASE DestroyGraph(g)
      <3>1. CASE Abort /\ pc' = pc
        BY <1>1, <3>1 DEF Abort
      <3>2. CASE FanOut(g) /\ At(g, "ready", "destroying") /\ graphIds' = graphIds \ {g} /\ holder = NoGraph
        BY <2>1, <3>2 DEF CallInv, At, FanOut
      <3>3. CASE At(g, "ready", "gone") /\ UNCHANGED mainVars
        BY <2>1, <3>3 DEF CallInv, At
      <3> QED BY <2>3, <3>1, <3>2, <3>3 DEF DestroyGraph
    <2>4. CASE CallReturns(g)
      BY <2>1, <2>4 DEF CallInv, CallReturns, At
    <2>5. CASE BuildExecutor(g)
      BY <2>1, <2>5 DEF CallInv, BuildExecutor, At, Abort
    <2>6. CASE ChooseAddresses(g) \/ ComputeDevices(g) \/ DropGraph(g)
      BY <2>1, <2>6 DEF CallInv, ChooseAddresses, ComputeDevices, DropGraph, At
    <2> QED BY <1>2, <2>2, <2>3, <2>4, <2>5, <2>6 DEF Lifecycle
  <1>3. ASSUME StartServer \/ StartHeartBeat \/ Stop \/ SendDestroySignal \/ StopEnds
        PROVE  UNCHANGED <<pc, holder, graphIds>>
    BY <1>3 DEF StartServer, StartHeartBeat, Stop, SendDestroySignal, StopEnds, Abort
  <1>4. ASSUME NEW w \in Worker, Joins(w) \/ RetryRegister(w) \/ JoinFails(w) \/ Crash(w) \/ WorkerExits(w)
        PROVE  UNCHANGED <<pc, holder, graphIds>>
    BY <1>4 DEF Joins, Connect, SyncOptions, SyncClusterConfig, RegisterWorkerNode, AddWorkerNode,
                RegisterReturns, RetryRegister, JoinFails, Crash, WorkerExits, Abort
  <1>5. ASSUME NEW i \in DOMAIN calls, Handler(i) \/ CallFails(i)
        PROVE  UNCHANGED <<pc, holder, graphIds>>
    BY <1>5 DEF Handler, BeginCreate, EndCreate, RunDestroy, CallFails, Answer, Abort
  <1>6. CASE UNCHANGED clusterVars
    BY <1>6, <1>1 DEF clusterVars
  <1> QED BY <1>1, <1>2, <1>3, <1>4, <1>5, <1>6 DEF ClusterNext

-----------------------------------------------------------------------------
(* Who is known to the main node *)

LEMMA JoinFrame ==
    ASSUME ClusterTypeOK, JoinInv, NEW w \in Worker, NEW s,
           wpc' = [wpc EXCEPT ![w] = s], Joined(w) => s \in Serving \cup {"dead"},
           UNCHANGED <<nodes, requests, answered, destroySignal>>,
           main' \in {"off", "serving", "up"} => main \in {"off", "serving", "up"}
    PROVE  JoinInv'
  <1>1. \A v \in Worker : Joined(v) => Joined(v)'
    BY DEF ClusterTypeOK, Joined
  <1>2. \A i \in DOMAIN nodes : nodes[i] \in Worker
    BY DEF ClusterTypeOK
  <1> QED BY <1>1, <1>2 DEF JoinInv

LEMMA JoinStep ==
    ASSUME ClusterTypeOK, JoinInv, [ClusterNext]_clusterVars
    PROVE  JoinInv'
  <1> USE DEF mainVars, graphVars, workerVars, boundVars
  <1>0. /\ wpc \in [Worker -> Alive \cup {"exited", "dead"}] /\ requests \in [Worker -> Nat]
        /\ nodes \in Seq(Worker) /\ answered \subseteq Worker /\ destroySignal \subseteq Worker
    BY DEF ClusterTypeOK
  <1>1. CASE UNCHANGED <<nodes, wpc, requests, answered, destroySignal>>
             /\ (main' \in {"off", "serving", "up"} => main \in {"off", "serving", "up"})
    BY <1>1 DEF JoinInv, Joined
  <1>2. ASSUME NEW w \in Worker, Joins(w) PROVE JoinInv'
    <2>1. CASE AddWorkerNode(w)
      <3>1. Joined(w) /\ requests[w] \in Nat /\ requests[w] > 0
        BY <1>0, <2>1 DEF AddWorkerNode, JoinInv
      <3>2. \A v \in Worker : Joined(v)' <=> Joined(v)
        BY <2>1 DEF AddWorkerNode, Joined
      <3>3. \A v \in Worker : requests'[v] > 0 => requests[v] > 0
        BY <1>0, <2>1, <3>1 DEF AddWorkerNode
      <3>4. \A v \in Worker : v \in answered' => v \in answered \/ v = w
        BY <2>1 DEF AddWorkerNode
      <3>5. \A i \in DOMAIN nodes' : nodes'[i] = w \/ (i \in DOMAIN nodes /\ nodes'[i] = nodes[i])
        <4>1. nodes' = nodes \/ nodes' = Append(nodes, w)
          BY <2>1 DEF AddWorkerNode, Abort
        <4> QED BY <1>0, <4>1
      <3>6. destroySignal' # {} => main' \notin {"off", "serving", "up"}
        BY <2>1 DEF AddWorkerNode, Abort, JoinInv
      <3>7. \A i \in DOMAIN nodes : nodes[i] \in Worker
        BY <1>0
      <3> QED BY <3>1, <3>2, <3>3, <3>4, <3>5, <3>6, <3>7 DEF JoinInv
    <2>2. CASE Connect(w) \/ SyncOptions(w)
      BY <2>2, JoinFrame DEF Connect, SyncOptions, Goto, Joined
    <2>3. CASE SyncClusterConfig(w)
      <3>1. CASE Abort /\ wpc' = wpc
        BY <1>1, <2>3, <3>1 DEF SyncClusterConfig, Abort
      <3>2. CASE Goto(w, "configured") /\ UNCHANGED mainVars
        BY <2>3, <3>2, JoinFrame DEF SyncClusterConfig, Goto, Joined
      <3> QED BY <2>3, <3>1, <3>2 DEF SyncClusterConfig
    <2>4. CASE RegisterWorkerNode(w)
      <3>1. CASE sameDevice
        BY <2>4, <3>1, JoinFrame DEF RegisterWorkerNode, Goto, Joined
      <3>2. CASE ~sameDevice
        <4>1. /\ wpc[w] = "configured" /\ wpc' = [wpc EXCEPT ![w] = "registering"]
              /\ requests' = [requests EXCEPT ![w] = 1]
              /\ UNCHANGED <<main, nodes, answered, destroySignal>>
          BY <2>4, <3>2 DEF RegisterWorkerNode, Goto
        <4>2. \A v \in Worker : (Joined(v) => Joined(v)') /\ Joined(w)'
          BY <1>0, <4>1 DEF Joined
        <4>3. \A v \in Worker : requests'[v] > 0 => requests[v] > 0 \/ v = w
          BY <1>0, <4>1
        <4>4. \A i \in DOMAIN nodes : nodes[i] \in Worker
          BY <1>0
        <4> QED BY <4>1, <4>2, <4>3, <4>4 DEF JoinInv
      <3> QED BY <3>1, <3>2
    <2>5. CASE RegisterReturns(w)
      BY <2>5, JoinFrame DEF RegisterReturns, Goto, Joined
    <2> QED BY <1>2, <2>1, <2>2, <2>3, <2>4, <2>5 DEF Joins
  <1>3. ASSUME NEW w \in Worker, RetryRegister(w) PROVE JoinInv'
    BY <1>0, <1>3 DEF RetryRegister, JoinInv, Joined
  <1>4. ASSUME NEW w \in Worker, JoinFails(w) \/ Crash(w) PROVE JoinInv'
    <2>1. wpc' = [wpc EXCEPT ![w] = "dead"] /\ UNCHANGED <<main, nodes, requests, answered, destroySignal>>
      BY <1>4 DEF JoinFails, Crash, Goto
    <2> QED BY <1>0, <2>1 DEF JoinInv, Joined
  <1>5. ASSUME NEW w \in Worker, WorkerExits(w) PROVE JoinInv'
    BY <1>0, <1>5 DEF WorkerExits, Goto, JoinInv, Joined
  <1>6. CASE SendDestroySignal
    <2>1. /\ UNCHANGED <<nodes, wpc, requests, answered>> /\ destroySignal \subseteq destroySignal'
          /\ main' \in {"stopping", "aborted"}
      BY <1>6 DEF SendDestroySignal, Abort
    <2> QED BY <2>1 DEF JoinInv, Joined
  <1>7. ASSUME NEW i \in DOMAIN calls, Handler(i) PROVE JoinInv'
    <2>1. /\ wpc' = wpc \/ wpc' = [wpc EXCEPT ![nodes[i]] = "dead"]
          /\ UNCHANGED <<main, nodes, requests, answered, destroySignal>>
      BY <1>7 DEF Handler, BeginCreate, EndCreate, RunDestroy, Goto, Answer
    <2>2. i \in DOMAIN nodes => nodes[i] \in Worker
      BY <1>0
    <2>3. i \in DOMAIN nodes
      BY <1>7 DEF Handler, BeginCreate, EndCreate, RunDestroy, ClusterTypeOK
    <2> QED BY <1>1, <2>1, <2>2, <2>3, JoinFrame
  <1>8. CASE StartServer \/ StartHeartBeat \/ Stop \/ StopEnds
    BY <1>1, <1>8 DEF StartServer, StartHeartBeat, Stop, StopEnds
  <1>9. ASSUME NEW g \in Graph, Lifecycle(g) PROVE JoinInv'
    BY <1>1, <1>9 DEF Lifecycle, ChooseAddresses, BuildExecutor, ComputeDevices, CreateGraph, DestroyGraph,
                      DropGraph, CallReturns, FanOut, Abort
  <1>10. ASSUME NEW i \in DOMAIN calls, CallFails(i) PROVE JoinInv'
    BY <1>1, <1>10 DEF CallFails, Abort
  <1>11. CASE UNCHANGED clusterVars
    BY <1>1, <1>11 DEF clusterVars
  <1> QED BY <1>2, <1>3, <1>4, <1>5, <1>6, <1>7, <1>8, <1>9, <1>10, <1>11 DEF ClusterNext
-----------------------------------------------------------------------------
(* What the workers host *)

LEMMA Appended ==
    ASSUME NEW S, NEW s \in Seq(S), NEW e \in S
    PROVE  /\ \A i \in DOMAIN s : i \in DOMAIN Append(s, e) /\ Append(s, e)[i] = s[i]
           /\ \A i \in DOMAIN Append(s, e) : i \notin DOMAIN s => i = Len(s) + 1
           /\ Append(s, e)[Len(s) + 1] = e /\ Len(s) + 1 \notin DOMAIN s
           /\ Len(s) + 1 \in DOMAIN Append(s, e)
  OBVIOUS

LEMMA TwiceStays ==
    ASSUME ClusterTypeOK, nodes' = nodes \/ \E w \in Worker : nodes' = Append(nodes, w), ~Twice'
    PROVE  ~Twice
  <1>1. \A i \in DOMAIN nodes : i \in DOMAIN nodes' /\ nodes'[i] = nodes[i]
    <2>1. nodes \in Seq(Worker)
      BY DEF ClusterTypeOK
    <2>2. ASSUME NEW w \in Worker, nodes' = Append(nodes, w)
          PROVE  \A i \in DOMAIN nodes : i \in DOMAIN nodes' /\ nodes'[i] = nodes[i]
      BY <2>1, <2>2, Appended
    <2> QED BY <2>2
  <1> QED BY <1>1 DEF Twice

\* Steps that touch neither the clients, their state nor the call.
LEMMA HostFrame ==
    ASSUME HostInv,
           UNCHANGED <<nodes, runners, sameDevice>>,
           main' \in {"off", "serving", "up"} =>
               /\ main \in {"off", "serving", "up"}
               /\ UNCHANGED <<graphIds, holder, calls, installed>>
               /\ holder # NoGraph => (pc'[holder] = "creating" <=> pc[holder] = "creating"),
           \A i \in DOMAIN nodes : wpc'[nodes[i]] \in Serving => wpc[nodes[i]] \in Serving
    PROVE  HostInv'
  <1>1. GpuCount' = GpuCount /\ Twice' = Twice /\ NodeSize' = NodeSize
    BY DEF GpuCount, Twice, NodeSize
  <1>2. \A i : GetRunnerSupportedDevicesForNode(i)' = GetRunnerSupportedDevicesForNode(i)
    BY <1>1 DEF GetRunnerSupportedDevicesForNode
  <1>3. \A i, gs : Rows(i, gs)' = Rows(i, gs)
    BY <1>2 DEF Rows
  <1> QED BY <1>1, <1>3 DEF HostInv, Expected

\* Primed, what client i would hold is the same while clients and mode are.
LEMMA RowsStay ==
    ASSUME UNCHANGED <<nodes, sameDevice>>
    PROVE  /\ \A i, gs : Rows(i, gs)' = Rows(i, gs)
           /\ Twice' = Twice /\ NodeSize' = NodeSize
  <1>1. GpuCount' = GpuCount
    BY DEF GpuCount
  <1> QED BY <1>1 DEF Rows, GetRunnerSupportedDevicesForNode, Twice, NodeSize

\* A worker ends.
LEMMA HostEnds ==
    ASSUME ClusterTypeOK, HostInv, NEW w \in Worker, NEW s \in {"dead", "exited"},
           wpc' = [wpc EXCEPT ![w] = s], runners' = [runners EXCEPT ![w] = {}],
           installed' = installed \/ installed' = [installed EXCEPT ![w] = installed'[w]],
           UNCHANGED <<nodes, sameDevice, main, graphIds, holder, calls, pc>>
    PROVE  HostInv'
  <1>0. /\ wpc \in [Worker -> Alive \cup {"exited", "dead"}]
        /\ runners = [v \in Worker |-> runners[v]] /\ installed \in [Worker -> Nat]
        /\ \A i \in DOMAIN nodes : nodes[i] \in Worker
    BY DEF ClusterTypeOK
  <1>1. \A v \in Worker : (\A i \in DOMAIN nodes' : nodes'[i] # v) => runners'[v] = {}
    BY <1>0 DEF HostInv
  <1>2. ASSUME NEW i \in DOMAIN nodes, wpc'[nodes[i]] \in Serving
        PROVE  /\ nodes[i] # w /\ wpc[nodes[i]] \in Serving
               /\ runners'[nodes[i]] = runners[nodes[i]] /\ installed'[nodes[i]] = installed[nodes[i]]
    BY <1>0, <1>2
  <1>3. \A i : Expected(i)' = Expected(i)
    BY DEF Expected
  <1> QED BY <1>1, <1>2, <1>3, RowsStay DEF HostInv

LEMMA HostStep ==
    ASSUME ClusterTypeOK, ClusterTypeOK', CallInv, CallInv', JoinInv, HostInv, [ClusterNext]_clusterVars
    PROVE  HostInv'
  <1> USE DEF mainVars, graphVars, workerVars, boundVars
  <1>0. /\ wpc \in [Worker -> Alive \cup {"exited", "dead"}] /\ nodes \in Seq(Worker)
        /\ runners = [w \in Worker |-> runners[w]] /\ installed \in [Worker -> Nat]
        /\ graphIds \subseteq Graph
        /\ pc \in [Graph -> InCall \cup {"none", "addressed", "built", "ready", "gone"}]
        /\ \A i \in DOMAIN nodes : nodes[i] \in Worker
    BY DEF ClusterTypeOK
  <1>1. CASE StartServer \/ StartHeartBeat \/ Stop \/ SendDestroySignal \/ StopEnds
    BY <1>1, HostFrame DEF StartServer, StartHeartBeat, Stop, SendDestroySignal, StopEnds, Abort
  <1>2. ASSUME NEW w \in Worker, Joins(w) PROVE HostInv'
    <2>1. CASE AddWorkerNode(w)
      <3>1. CASE Abort
        BY <2>1, <3>1, HostFrame DEF AddWorkerNode, Abort
      <3>2. CASE nodes' = Append(nodes, w) /\ UNCHANGED <<main, graphIds, holder>>
        <4>1. \A v \in Worker : (\A i \in DOMAIN nodes' : nodes'[i] # v) => (\A i \in DOMAIN nodes : nodes[i] # v)
          BY <1>0, <3>2, Appended
        <4>2. \A v \in Worker : (\A i \in DOMAIN nodes' : nodes'[i] # v) => runners'[v] = {}
          BY <2>1, <4>1 DEF AddWorkerNode, HostInv
        <4>3. ASSUME main' \in {"off", "serving", "up"}, ~Twice', NEW i \in DOMAIN nodes',
                     wpc'[nodes'[i]] \in Serving
              PROVE  runners'[nodes'[i]] = {}
          <5>1. ~Twice /\ main \in {"off", "serving", "up"} /\ graphIds = {} /\ holder = NoGraph
            BY <2>1, <3>2, <4>3, TwiceStays DEF AddWorkerNode, Abort
          <5>2. CASE i \in DOMAIN nodes
            <6>1. nodes'[i] = nodes[i] /\ nodes[i] \in Worker /\ wpc[nodes[i]] \in Serving /\ runners' = runners
              BY <1>0, <2>1, <3>2, <4>3, <5>2, Appended DEF AddWorkerNode
            <6>2. runners[nodes[i]] = Rows(i, Expected(i)) /\ Expected(i) = {}
              BY <5>1, <5>2, <6>1 DEF HostInv, Expected
            <6> QED BY <6>1, <6>2 DEF Rows
          <5>3. CASE i \notin DOMAIN nodes
            <6>1. i = Len(nodes) + 1 /\ nodes'[i] = w
              BY <1>0, <3>2, <4>3, <5>3, Appended
            <6>2. \A j \in DOMAIN nodes : nodes[j] # w
              <7>1. \A j \in DOMAIN nodes : j \in DOMAIN nodes' /\ nodes'[j] = nodes[j] /\ j # i
                BY <1>0, <3>2, <5>3, Appended
              <7> QED BY <4>3, <6>1, <7>1 DEF Twice
            <6> QED BY <2>1, <6>1, <6>2 DEF AddWorkerNode, HostInv
          <5> QED BY <5>2, <5>3
        <4>4. main' \in {"off", "serving", "up"} => graphIds' = {} /\ holder' = NoGraph
          BY <2>1, <3>2 DEF AddWorkerNode, Abort
        <4> QED BY <4>2, <4>3, <4>4 DEF HostInv, Expected, Rows
      <3> QED BY <2>1, <3>1, <3>2 DEF AddWorkerNode
    <2>2. CASE Connect(w) \/ SyncOptions(w)
      BY <1>0, <2>2, HostFrame DEF Connect, SyncOptions, Goto
    <2>3. CASE SyncClusterConfig(w)
      BY <1>0, <2>3, HostFrame DEF SyncClusterConfig, Goto, Abort
    <2>4. CASE RegisterWorkerNode(w)
      <3>1. \A i \in DOMAIN nodes : nodes[i] # w
        BY <1>0, <2>4 DEF RegisterWorkerNode, JoinInv, Joined
      <3>2. \A i \in DOMAIN nodes : wpc'[nodes[i]] = wpc[nodes[i]]
        BY <1>0, <2>4, <3>1 DEF RegisterWorkerNode, Goto
      <3> QED BY <2>4, <3>2, HostFrame DEF RegisterWorkerNode
    <2>5. CASE RegisterReturns(w)
      BY <1>0, <2>5, HostFrame DEF RegisterReturns, Goto
    <2> QED BY <1>2, <2>1, <2>2, <2>3, <2>4, <2>5 DEF Joins
  <1>3. ASSUME NEW w \in Worker, RetryRegister(w) PROVE HostInv'
    BY <1>3, HostFrame DEF RetryRegister
  <1>4. ASSUME NEW w \in Worker, JoinFails(w) PROVE HostInv'
    BY <1>0, <1>4, HostFrame DEF JoinFails, Goto
  <1>5. ASSUME NEW w \in Worker, Crash(w) PROVE HostInv'
    BY <1>5, HostEnds DEF Crash, Goto
  <1>6. ASSUME NEW w \in Worker, WorkerExits(w) PROVE HostInv'
    BY <1>6, HostEnds DEF WorkerExits, Goto
  <1>7. ASSUME NEW g \in Graph, Lifecycle(g) PROVE HostInv'
    <2>1. CASE CreateGraph(g)
      <3>1. CASE Abort
        BY <2>1, <3>1, HostFrame DEF CreateGraph, Abort
      <3>2. CASE /\ g \notin graphIds /\ At(g, "calling", "creating")
                 /\ graphIds' = graphIds \cup {g} /\ FanOut(g)
        <4>1. /\ UNCHANGED <<nodes, sameDevice, main, runners, wpc, installed>>
              /\ holder = NoGraph /\ holder' = g /\ g # NoGraph /\ pc'[g] = "creating"
          BY <1>0, <2>1, <3>2 DEF CreateGraph, FanOut, At
        <4>2. \A i \in DOMAIN nodes : calls'[i] = "sent"
          BY <3>2 DEF FanOut
        <4>3. \A i \in DOMAIN nodes : Expected(i)' = Expected(i)
          BY <3>2, <4>1, <4>2 DEF Expected
        <4> QED BY <4>1, <4>2, <4>3, RowsStay DEF HostInv
      <3> QED BY <2>1, <3>1, <3>2 DEF CreateGraph
    <2>2. CASE DestroyGraph(g)
      <3>1. CASE Abort \/ main = "stopped"
        BY <2>2, <3>1, HostFrame DEF DestroyGraph, Abort, FanOut
      <3>2. CASE /\ g \in graphIds /\ At(g, "ready", "destroying") /\ holder = NoGraph
                 /\ graphIds' = graphIds \ {g} /\ FanOut(g)
        <4>1. /\ UNCHANGED <<nodes, sameDevice, main, runners, wpc, installed>>
              /\ holder' = g /\ g # NoGraph /\ pc'[g] = "destroying"
          BY <1>0, <2>2, <3>2 DEF DestroyGraph, FanOut, At
        <4>2. \A i \in DOMAIN nodes : calls'[i] = "sent"
          BY <3>2 DEF FanOut
        <4>3. \A i \in DOMAIN nodes : Expected(i)' = Expected(i)
          BY <3>2, <4>1, <4>2 DEF Expected
        <4> QED BY <3>2, <4>1, <4>2, <4>3, RowsStay DEF HostInv
      <3> QED BY <2>2, <3>1, <3>2 DEF DestroyGraph
    <2>3. CASE CallReturns(g)
      <3>1. /\ UNCHANGED <<nodes, sameDevice, main, runners, wpc, installed, graphIds>>
            /\ holder' = NoGraph /\ holder = g /\ g # NoGraph
        BY <2>3 DEF CallReturns
      <3>2. \A i \in DOMAIN nodes : calls[i] = "done"
        <4>1. holder # NoGraph /\ \A i \in DOMAIN calls : calls[i] = "done"
          BY <2>3, <3>1 DEF CallReturns
        <4>2. DOMAIN calls = DOMAIN nodes
          BY <4>1 DEF ClusterTypeOK
        <4> QED BY <4>1, <4>2
      <3>3. \A i \in DOMAIN nodes : Expected(i)' = Expected(i)
        BY <3>1, <3>2 DEF Expected
      <3> QED BY <3>1, <3>2, <3>3, RowsStay DEF HostInv
    <2>4. CASE BuildExecutor(g)
      <3>1. holder # NoGraph => pc'[holder] = pc[holder]
        BY <1>0, <2>4 DEF BuildExecutor, At, CallInv, ClusterTypeOK
      <3> QED BY <2>4, <3>1, HostFrame DEF BuildExecutor, Abort
    <2>5. CASE ChooseAddresses(g) \/ ComputeDevices(g) \/ DropGraph(g)
      <3>1. holder # NoGraph => pc'[holder] = pc[holder]
        BY <1>0, <2>5 DEF ChooseAddresses, ComputeDevices, DropGraph, At, CallInv, ClusterTypeOK
      <3> QED BY <2>5, <3>1, HostFrame DEF ChooseAddresses, ComputeDevices, DropGraph
    <2> QED BY <1>7, <2>1, <2>2, <2>3, <2>4, <2>5 DEF Lifecycle
  <1>8. ASSUME NEW i \in DOMAIN calls, CallFails(i) PROVE HostInv'
    BY <1>8, HostFrame DEF CallFails, Abort
  <1>9. ASSUME NEW i \in DOMAIN calls, Handler(i) PROVE HostInv'
    <2>1. /\ i \in DOMAIN nodes /\ nodes[i] \in Worker /\ holder # NoGraph /\ holder \in Graph
          /\ DOMAIN calls = DOMAIN nodes
      BY <1>0, <1>9 DEF Handler, BeginCreate, EndCreate, RunDestroy, ClusterTypeOK
    <2>2. CASE UNCHANGED mainVars
      BY <1>9, <2>1, <2>2, HostEnds DEF Handler, BeginCreate, EndCreate, RunDestroy, Goto, Answer
    <2>3. CASE ~Twice /\ ~(UNCHANGED mainVars)
      <3>1. \A j \in DOMAIN nodes : j # i => nodes[j] # nodes[i]
        BY <2>1, <2>3 DEF Twice
      <3>2. /\ UNCHANGED <<nodes, sameDevice, main, wpc, graphIds, holder, pc>>
            /\ wpc[nodes[i]] \in Serving /\ main = "up"
            /\ \A j \in DOMAIN nodes : j # i => /\ runners'[nodes[j]] = runners[nodes[j]]
                                                /\ installed'[nodes[j]] = installed[nodes[j]]
                                                /\ calls'[j] = calls[j]
        <4>1. /\ UNCHANGED <<nodes, sameDevice, main, wpc, graphIds, holder, pc>>
              /\ wpc[nodes[i]] \in Serving /\ main = "up"
          BY <1>9, <2>3 DEF Handler, BeginCreate, EndCreate, RunDestroy, Answer
        <4>2. /\ \A w \in Worker : w # nodes[i] => runners'[w] = runners[w] /\ installed'[w] = installed[w]
              /\ \A j \in DOMAIN calls : j # i => calls'[j] = calls[j]
          BY <1>0, <1>9, <2>1, <2>3 DEF Handler, BeginCreate, EndCreate, RunDestroy, Answer, ClusterTypeOK
        <4>3. \A j \in DOMAIN nodes : nodes[j] \in Worker
          BY <1>0
        <4> QED BY <2>1, <3>1, <4>1, <4>2, <4>3
      <3>3. \A j \in DOMAIN nodes : j # i => Expected(j)' = Expected(j)
        BY <3>2 DEF Expected
      <3>4. \A w \in Worker : (\A j \in DOMAIN nodes : nodes[j] # w) => runners'[w] = runners[w]
        BY <1>0, <1>9, <2>1 DEF Handler, BeginCreate, EndCreate, RunDestroy, Answer
      <3>5. runners[nodes[i]] = Rows(i, Expected(i))
        BY <2>1, <2>3, <3>2 DEF HostInv
      <3>6. /\ runners'[nodes[i]] = Rows(i, Expected(i)')
            /\ \/ graphIds = {}
               \/ pc[holder] = "creating" /\ calls'[i] = "sent"
               \/ installed'[nodes[i]] = NodeSize
        <4>1. CASE BeginCreate(i)
          <5>1. /\ runners' = runners /\ installed'[nodes[i]] = NodeSize
                /\ calls[i] = "sent" /\ calls'[i] \in {"running", "stuck"} /\ pc[holder] = "creating"
            BY <1>0, <2>1, <2>3, <4>1 DEF BeginCreate, Answer, ClusterTypeOK
          <5>2. Expected(i)' = Expected(i)
            BY <3>2, <5>1 DEF Expected
          <5> QED BY <3>5, <5>1, <5>2
        <4>2. CASE EndCreate(i)
          <5>1. /\ calls[i] = "running" /\ calls'[i] = "done" /\ pc[holder] = "creating"
                /\ installed' = installed
            BY <2>1, <2>3, <4>2 DEF EndCreate, Answer, ClusterTypeOK
          <5>2. Expected(i) = graphIds \ {holder} /\ Expected(i)' = graphIds /\ holder \in graphIds
            BY <2>1, <3>2, <5>1 DEF Expected, CallInv
          <5>3. ~Hosts(nodes[i], holder)
            BY <3>5, <5>2 DEF Hosts, Rows
          <5>4. runners'[nodes[i]] = runners[nodes[i]] \cup {<<holder, GetRunnerSupportedDevicesForNode(i + 1)>>}
            BY <1>0, <2>1, <4>2, <5>3 DEF EndCreate
          <5>5. runners'[nodes[i]] = Rows(i, graphIds)
            BY <3>5, <5>2, <5>4 DEF Rows
          <5>6. graphIds = {} \/ installed[nodes[i]] = NodeSize
            BY <2>1, <2>3, <3>2, <5>1 DEF HostInv
          <5> QED BY <5>1, <5>2, <5>5, <5>6
        <4>3. CASE RunDestroy(i)
          <5>1. /\ calls[i] = "sent" /\ calls'[i] = "done" /\ pc[holder] = "destroying"
                /\ installed' = installed
            BY <2>1, <2>3, <4>3 DEF RunDestroy, Answer, ClusterTypeOK
          <5>2. Expected(i) = graphIds \cup {holder} /\ Expected(i)' = graphIds /\ holder \notin graphIds
            BY <2>1, <3>2, <5>1 DEF Expected, CallInv
          <5>3. runners'[nodes[i]] = {r \in runners[nodes[i]] : r[1] # holder}
            BY <1>0, <2>1, <2>3, <4>3 DEF RunDestroy
          <5>4. runners'[nodes[i]] = Rows(i, graphIds)
            BY <3>5, <5>2, <5>3 DEF Rows
          <5>5. graphIds = {} \/ installed[nodes[i]] = NodeSize
            BY <2>1, <2>3, <3>2, <5>1 DEF HostInv
          <5> QED BY <5>1, <5>2, <5>4, <5>5
        <4> QED BY <1>9, <4>1, <4>2, <4>3 DEF Handler
      <3>7. \A w \in Worker : (\A j \in DOMAIN nodes' : nodes'[j] # w) => runners'[w] = {}
        BY <3>2, <3>4 DEF HostInv
      <3>8. ASSUME NEW j \in DOMAIN nodes, wpc[nodes[j]] \in Serving
            PROVE  /\ runners'[nodes[j]] = Rows(j, Expected(j)')
                   /\ \/ graphIds = {}
                      \/ holder # NoGraph /\ pc[holder] = "creating" /\ calls'[j] = "sent"
                      \/ installed'[nodes[j]] = NodeSize
        <4>1. CASE j = i
          BY <2>1, <3>6, <4>1
        <4>2. CASE j # i
          BY <2>1, <2>3, <3>2, <3>3, <3>8, <4>2 DEF HostInv
        <4> QED BY <4>1, <4>2
      <3> QED BY <3>2, <3>7, <3>8, RowsStay DEF HostInv
    <2>4. CASE Twice /\ ~(UNCHANGED mainVars)
      <3>1. nodes' = nodes
        BY <1>9, <2>1, <2>4 DEF Handler, BeginCreate, EndCreate, RunDestroy, Answer
      <3>2. \A w \in Worker : (\A j \in DOMAIN nodes : nodes[j] # w) => runners'[w] = runners[w]
        BY <1>0, <1>9, <2>1 DEF Handler, BeginCreate, EndCreate, RunDestroy, Answer
      <3> QED BY <2>4, <3>1, <3>2 DEF HostInv, Twice
    <2> QED BY <2>2, <2>3, <2>4
  <1>10. CASE UNCHANGED clusterVars
    BY <1>10, HostFrame DEF clusterVars
  <1> QED BY <1>1, <1>2, <1>3, <1>4, <1>5, <1>6, <1>7, <1>8, <1>9, <1>10 DEF ClusterNext

\* Between two calls the live workers host the graphs of mGraphIdSet, with the
\* devices of their places, whatever graphs other threads create, destroy and
\* drop, and whatever workers join and die.
THEOREM ClusterHosts == ClusterSpec => []GraphsHosted
<1>1. ClusterInit => CallInv /\ JoinInv /\ HostInv
  BY DEF ClusterInit, CallInv, JoinInv, HostInv
<1>2. ClusterTypeOK /\ ClusterTypeOK' /\ CallInv /\ JoinInv /\ HostInv /\ [ClusterNext]_clusterVars
      => CallInv' /\ JoinInv' /\ HostInv'
  BY CallStep, JoinStep, HostStep
<1>3. ClusterTypeOK /\ JoinInv /\ HostInv => GraphsHosted
  <2> SUFFICES ASSUME ClusterTypeOK, JoinInv, HostInv, main = "up", holder = NoGraph, ~Twice,
                      NEW i \in DOMAIN nodes, nodes[i] \notin Dead
               PROVE  /\ runners[nodes[i]] = Rows(i, graphIds)
                      /\ graphIds # {} => installed[nodes[i]] = NodeSize
    BY DEF GraphsHosted
  <2>1. nodes[i] \in Worker
    BY DEF ClusterTypeOK
  <2>2. wpc[nodes[i]] \in Serving
    BY <2>1 DEF JoinInv, Joined, Dead
  <2> QED BY <2>2 DEF HostInv, Expected
<1> QED BY <1>1, <1>2, <1>3, ClusterTypes, PTL DEF ClusterSpec
-----------------------------------------------------------------------------
(* Why the main node ends *)

\* Only the threads of graphs change what is kept about graphs.
LEMMA LifecycleOrNot ==
    ASSUME [ClusterNext]_clusterVars
    PROVE  UNCHANGED <<pc, fabric, seen, graphIds, holder>> \/ \E g \in Graph : Lifecycle(g)
  <1> USE DEF mainVars, graphVars, workerVars, boundVars
  <1>1. CASE StartServer \/ StartHeartBeat \/ Stop \/ SendDestroySignal \/ StopEnds
    BY <1>1 DEF StartServer, StartHeartBeat, Stop, SendDestroySignal, StopEnds, Abort
  <1>2. ASSUME NEW w \in Worker, Joins(w) \/ RetryRegister(w) \/ JoinFails(w) \/ Crash(w) \/ WorkerExits(w)
        PROVE  UNCHANGED <<pc, fabric, seen, graphIds, holder>>
    BY <1>2 DEF Joins, Connect, SyncOptions, SyncClusterConfig, RegisterWorkerNode, AddWorkerNode,
                RegisterReturns, RetryRegister, JoinFails, Crash, WorkerExits, Abort
  <1>3. ASSUME NEW i \in DOMAIN calls, Handler(i) \/ CallFails(i)
        PROVE  UNCHANGED <<pc, fabric, seen, graphIds, holder>>
    BY <1>3 DEF Handler, BeginCreate, EndCreate, RunDestroy, CallFails, Answer, Abort
  <1>4. CASE UNCHANGED clusterVars
    BY <1>4 DEF clusterVars
  <1> QED BY <1>1, <1>2, <1>3, <1>4 DEF ClusterNext

LEMMA IdStep ==
    ASSUME ClusterTypeOK, CallInv, IdInv, [ClusterNext]_clusterVars
    PROVE  IdInv'
  <1>1. CASE UNCHANGED <<pc, graphIds>>
    BY <1>1 DEF IdInv
  <1>2. ASSUME NEW g \in Graph, Lifecycle(g) PROVE IdInv'
    <2>1. pc \in [Graph -> InCall \cup {"none", "addressed", "built", "ready", "gone"}]
      BY DEF ClusterTypeOK
    <2>2. CASE CreateGraph(g)
      <3>1. UNCHANGED <<pc, graphIds>> \/ (At(g, "calling", "creating") /\ graphIds' = graphIds \cup {g})
        BY <2>2 DEF CreateGraph, Abort
      <3> QED BY <1>1, <2>1, <3>1 DEF IdInv, At
    <2>3. CASE DestroyGraph(g)
      <3>1. \/ UNCHANGED <<pc, graphIds>>
            \/ At(g, "ready", "destroying") /\ graphIds' = graphIds \ {g}
            \/ At(g, "ready", "gone") /\ UNCHANGED graphIds
        BY <2>3 DEF DestroyGraph, Abort, mainVars
      <3> QED BY <1>1, <2>1, <3>1 DEF IdInv, At
    <2>4. CASE CallReturns(g)
      <3>1. pc[g] \in {"creating", "destroying"} /\ UNCHANGED graphIds
        BY <2>4 DEF CallReturns, At
      <3>2. pc[g] = "creating" => g \in graphIds
        BY DEF CallInv
      <3> QED BY <2>1, <2>4, <3>1, <3>2 DEF IdInv, CallReturns, At
    <2>5. CASE BuildExecutor(g)
      BY <1>1, <2>1, <2>5 DEF IdInv, BuildExecutor, At, Abort, mainVars
    <2>6. CASE ChooseAddresses(g) \/ ComputeDevices(g) \/ DropGraph(g)
      BY <2>1, <2>6 DEF IdInv, ChooseAddresses, ComputeDevices, DropGraph, At, mainVars
    <2> QED BY <1>2, <2>2, <2>3, <2>4, <2>5, <2>6 DEF Lifecycle
  <1> QED BY <1>1, <1>2, LifecycleOrNot

\* A worker is registered while a thread is between reading the number of nodes
\* and its call only at the price of `untimely'.
LEMMA NodesStay ==
    ASSUME ClusterTypeOK, CallInv, IdInv, [ClusterNext]_clusterVars
    PROVE  /\ untimely => untimely'
           /\ \/ nodes' = nodes
              \/ untimely'
              \/ graphIds = {} /\ holder = NoGraph /\ \A g \in Graph : ~Creating(g)
  <1> USE DEF mainVars, graphVars, workerVars, boundVars
  <1>1. CASE StartServer \/ StartHeartBeat \/ Stop \/ SendDestroySignal \/ StopEnds
    BY <1>1 DEF StartServer, StartHeartBeat, Stop, SendDestroySignal, StopEnds, Abort
  <1>2. ASSUME NEW w \in Worker, AddWorkerNode(w)
        PROVE  \/ untimely'
               \/ /\ graphIds = {} /\ holder = NoGraph /\ \A g \in Graph : ~Creating(g)
                  /\ untimely => untimely'
    BY <1>2 DEF AddWorkerNode
  <1>3. ASSUME NEW w \in Worker, SyncClusterConfig(w) PROVE nodes' = nodes /\ (untimely => untimely')
    BY <1>3 DEF SyncClusterConfig, Abort
  <1>4. ASSUME NEW w \in Worker, \/ Connect(w) \/ SyncOptions(w) \/ RegisterWorkerNode(w) \/ RegisterReturns(w)
                                 \/ RetryRegister(w) \/ JoinFails(w) \/ Crash(w) \/ WorkerExits(w)
        PROVE  nodes' = nodes /\ untimely' = untimely
    BY <1>4 DEF Connect, SyncOptions, RegisterWorkerNode, RegisterReturns, RetryRegister, JoinFails, Crash,
                WorkerExits
  <1>5. ASSUME NEW i \in DOMAIN calls, Handler(i) \/ CallFails(i)
        PROVE  nodes' = nodes /\ untimely' = untimely
    BY <1>5 DEF Handler, BeginCreate, EndCreate, RunDestroy, CallFails, Answer, Abort
  <1>6. ASSUME NEW g \in Graph, Lifecycle(g) PROVE nodes' = nodes /\ untimely' = untimely
    BY <1>6 DEF Lifecycle, ChooseAddresses, BuildExecutor, ComputeDevices, CreateGraph, DestroyGraph,
                DropGraph, CallReturns, FanOut, Abort
  <1>7. CASE UNCHANGED clusterVars
    BY <1>7 DEF clusterVars
  <1> QED BY <1>1, <1>2, <1>3, <1>4, <1>5, <1>6, <1>7 DEF ClusterNext, Joins

LEMMA AddressStep ==
    ASSUME ClusterTypeOK, CallInv, IdInv, AddressInv, [ClusterNext]_clusterVars
    PROVE  AddressInv'
  <1>0. /\ pc \in [Graph -> InCall \cup {"none", "addressed", "built", "ready", "gone"}]
        /\ fabric \subseteq Graph /\ seen \in [Graph -> Nat]
    BY DEF ClusterTypeOK
  <1>1. CASE untimely \/ untimely'
    BY <1>1, NodesStay DEF AddressInv
  <1>2. CASE ~untimely /\ UNCHANGED <<pc, fabric, seen, nodes>>
    BY <1>2 DEF AddressInv, NodeSize
  <1>3. CASE /\ UNCHANGED <<pc, fabric, seen>>
             /\ graphIds = {} /\ holder = NoGraph /\ \A g \in Graph : ~Creating(g)
    <2>1. \A g \in Graph : pc[g] \notin {"addressed", "built", "calling", "creating"}
      BY <1>0, <1>3 DEF Creating, CallInv
    <2> QED BY <1>3, <2>1 DEF AddressInv
  <1>4. ASSUME NEW g \in Graph, Lifecycle(g), ~untimely, ~untimely' PROVE AddressInv'
    <2>1. NodeSize' = NodeSize
      BY <1>4 DEF Lifecycle, ChooseAddresses, BuildExecutor, ComputeDevices, CreateGraph, DestroyGraph,
                  DropGraph, CallReturns, FanOut, Abort, NodeSize, mainVars
    <2>2. CASE ChooseAddresses(g)
      <3>1. /\ pc' = [pc EXCEPT ![g] = "addressed"] /\ seen' = seen
            /\ fabric' = IF g \in PerDevice \/ NodeSize > 1 THEN fabric \cup {g} ELSE fabric
        BY <2>2 DEF ChooseAddresses, At
      <3>2. /\ (g \in PerDevice \/ NodeSize > 1) => g \in fabric'
            /\ \A h \in Graph : h \in fabric => h \in fabric'
        BY <3>1
      <3> QED BY <1>0, <1>4, <2>1, <3>1, <3>2 DEF AddressInv
    <2>3. CASE BuildExecutor(g)
      BY <1>0, <1>4, <2>1, <2>3 DEF AddressInv, BuildExecutor, At
    <2>4. CASE ComputeDevices(g)
      BY <1>0, <1>4, <2>1, <2>4 DEF AddressInv, ComputeDevices, At
    <2>5. CASE CreateGraph(g)
      BY <1>0, <1>4, <2>1, <2>5 DEF AddressInv, CreateGraph, At
    <2>6. CASE DestroyGraph(g) \/ DropGraph(g) \/ CallReturns(g)
      BY <1>0, <1>4, <2>1, <2>6 DEF AddressInv, DestroyGraph, DropGraph, CallReturns, At
    <2> QED BY <1>4, <2>2, <2>3, <2>4, <2>5, <2>6 DEF Lifecycle
  <1> QED BY <1>1, <1>2, <1>3, <1>4, NodesStay, LifecycleOrNot

LEMMA StuckStep ==
    ASSUME ClusterTypeOK, CallInv, StuckInv, [ClusterNext]_clusterVars
    PROVE  StuckInv'
  <1> USE DEF mainVars, graphVars, workerVars, boundVars
  <1>0. /\ pc \in [Graph -> InCall \cup {"none", "addressed", "built", "ready", "gone"}]
        /\ fabric \subseteq Graph /\ holder \in Graph \cup {NoGraph}
    BY DEF ClusterTypeOK
  <1>1. CASE UNCHANGED <<pc, fabric, holder, calls>>
    BY <1>1 DEF StuckInv
  <1>2. ASSUME NEW i \in DOMAIN calls, Handler(i) PROVE StuckInv'
    <2>1. UNCHANGED <<pc, fabric, holder>> /\ holder # NoGraph
      BY <1>2 DEF Handler, BeginCreate, EndCreate, RunDestroy, Answer
    <2>2. \/ calls' = calls
          \/ \E s \in {"running", "done"} : calls' = [calls EXCEPT ![i] = s]
          \/ /\ calls' = [calls EXCEPT ![i] = "stuck"]
             /\ pc[holder] = "creating" /\ holder \notin fabric
      BY <1>2 DEF Handler, BeginCreate, EndCreate, RunDestroy, Answer
    <2> QED BY <2>1, <2>2 DEF StuckInv
  <1>3. ASSUME NEW g \in Graph, Lifecycle(g) PROVE StuckInv'
    <2>1. ASSUME FanOut(g) PROVE StuckInv'
      BY <2>1 DEF StuckInv, FanOut
    <2>2. CASE CallReturns(g)
      BY <2>2 DEF StuckInv, CallReturns
    <2>3. CASE ~FanOut(g) /\ ~CallReturns(g)
      <3>1. UNCHANGED <<holder, calls>>
        BY <1>3, <2>3 DEF Lifecycle, ChooseAddresses, BuildExecutor, ComputeDevices, CreateGraph, DestroyGraph,
                          DropGraph, Abort
      <3>2. pc[g] \notin {"creating", "destroying"} \/ pc' = pc
        BY <1>3, <2>3 DEF Lifecycle, ChooseAddresses, BuildExecutor, ComputeDevices, CreateGraph, DestroyGraph,
                          DropGraph, At
      <3>3. holder # NoGraph => pc'[holder] = pc[holder] /\ (holder \in fabric' => holder \in fabric)
        BY <1>0, <1>3, <2>3, <3>2 DEF CallInv, Lifecycle, ChooseAddresses, BuildExecutor, ComputeDevices,
                                 CreateGraph, DestroyGraph, DropGraph, At
      <3> QED BY <3>1, <3>3 DEF StuckInv
    <2> QED BY <2>1, <2>2, <2>3
  <1>4. CASE StartServer \/ StartHeartBeat \/ Stop \/ SendDestroySignal \/ StopEnds
    BY <1>1, <1>4 DEF StartServer, StartHeartBeat, Stop, SendDestroySignal, StopEnds, Abort
  <1>5. ASSUME NEW w \in Worker, Joins(w) \/ RetryRegister(w) \/ JoinFails(w) \/ Crash(w) \/ WorkerExits(w)
        PROVE  UNCHANGED <<pc, fabric, holder, calls>>
    BY <1>5 DEF Joins, Connect, SyncOptions, SyncClusterConfig, RegisterWorkerNode, AddWorkerNode,
                RegisterReturns, RetryRegister, JoinFails, Crash, WorkerExits, Abort
  <1>6. ASSUME NEW i \in DOMAIN calls, CallFails(i) PROVE StuckInv'
    BY <1>1, <1>6 DEF CallFails, Abort
  <1>7. CASE UNCHANGED clusterVars
    BY <1>1, <1>7 DEF clusterVars
  <1> QED BY <1>1, <1>2, <1>3, <1>4, <1>5, <1>6, <1>7 DEF ClusterNext

LEMMA SignalStep ==
    ASSUME ClusterTypeOK, JoinInv, SignalInv, [ClusterNext]_clusterVars
    PROVE  SignalInv'
  <1> USE DEF mainVars, graphVars, workerVars, boundVars
  <1>0. /\ nodes \in Seq(Worker) /\ signalled \in Nat /\ toSignal \in Nat /\ toSignal <= Len(nodes)
    BY DEF ClusterTypeOK
  <1>1. CASE /\ UNCHANGED <<signalled, toSignal, destroySignal, nodes>>
             /\ main' = "stopping" => main = "stopping"
    BY <1>1 DEF SignalInv
  <1>2. CASE Stop
    BY <1>2 DEF SignalInv, Stop, JoinInv
  <1>3. CASE SendDestroySignal
    <2>1. CASE main' = "stopping"
      <3>1. /\ signalled < toSignal /\ signalled' = signalled + 1
            /\ destroySignal' = destroySignal \cup {nodes[signalled + 1]}
            /\ UNCHANGED <<main, nodes, toSignal>> /\ main = "stopping"
        BY <1>3, <2>1 DEF SendDestroySignal, Abort
      <3>2. \A w \in destroySignal : \E k \in 1 .. signalled : nodes[k] = w
        BY <3>1 DEF SignalInv
      <3>3. \A k \in 1 .. signalled : k \in 1 .. signalled + 1
        BY <1>0
      <3>4. signalled + 1 \in 1 .. signalled + 1
        BY <1>0
      <3>5. \A w \in destroySignal' : \E k \in 1 .. signalled + 1 : nodes[k] = w
        BY <3>1, <3>2, <3>3, <3>4
      <3> QED BY <1>0, <3>1, <3>5 DEF SignalInv
    <2>2. CASE main' # "stopping"
      BY <2>2 DEF SignalInv
    <2> QED BY <2>1, <2>2
  <1>4. ASSUME NEW w \in Worker, AddWorkerNode(w) PROVE SignalInv'
    <2>1. UNCHANGED <<signalled, toSignal, destroySignal>> /\ (main' = "stopping" => main = "stopping")
      BY <1>4 DEF AddWorkerNode, Abort
    <2>2. nodes' = nodes \/ nodes' = Append(nodes, w)
      BY <1>4 DEF AddWorkerNode, Abort
    <2>3. \A k \in DOMAIN nodes : nodes'[k] = nodes[k]
      <3>1. \A k \in DOMAIN nodes : Append(nodes, w)[k] = nodes[k]
        BY <1>0, Appended
      <3> QED BY <2>2, <3>1
    <2>4. ASSUME main = "stopping" PROVE \A k \in 1 .. signalled : k \in DOMAIN nodes
      BY <1>0, <2>4 DEF SignalInv
    <2> QED BY <2>1, <2>3, <2>4 DEF SignalInv
  <1>5. ASSUME NEW w \in Worker, \/ Connect(w) \/ SyncOptions(w) \/ SyncClusterConfig(w) \/ RegisterWorkerNode(w)
                                 \/ RegisterReturns(w) \/ RetryRegister(w) \/ JoinFails(w) \/ Crash(w)
                                 \/ WorkerExits(w)
        PROVE  SignalInv'
    BY <1>1, <1>5 DEF Connect, SyncOptions, SyncClusterConfig, RegisterWorkerNode, RegisterReturns,
                RetryRegister, JoinFails, Crash, WorkerExits, Abort
  <1>6. ASSUME NEW g \in Graph, Lifecycle(g) PROVE SignalInv'
    BY <1>1, <1>6 DEF Lifecycle, ChooseAddresses, BuildExecutor, ComputeDevices, CreateGraph, DestroyGraph,
                DropGraph, CallReturns, FanOut, Abort
  <1>7. ASSUME NEW i \in DOMAIN calls, Handler(i) \/ CallFails(i) PROVE SignalInv'
    BY <1>1, <1>7 DEF Handler, BeginCreate, EndCreate, RunDestroy, CallFails, Answer, Abort
  <1>8. CASE StartServer \/ StartHeartBeat \/ StopEnds \/ UNCHANGED clusterVars
    BY <1>1, <1>8 DEF StartServer, StartHeartBeat, StopEnds, clusterVars
  <1> QED BY <1>2, <1>3, <1>4, <1>5, <1>6, <1>7, <1>8 DEF ClusterNext, Joins

\* Whoever is dead, or registered twice, remains so.
LEMMA FaultsStay ==
    ASSUME ClusterTypeOK, [ClusterNext]_clusterVars
    PROVE  (Dead # {} => Dead' # {}) /\ (Twice => Twice')
  <1> USE DEF mainVars, graphVars, workerVars, boundVars
  <1>0. /\ wpc \in [Worker -> Alive \cup {"exited", "dead"}]
        /\ \A i \in DOMAIN nodes : nodes[i] \in Worker
    BY DEF ClusterTypeOK
  <1>1. ASSUME NEW w \in Worker, Joins(w) \/ RetryRegister(w) \/ JoinFails(w) \/ Crash(w) \/ WorkerExits(w)
        PROVE  /\ \A v \in Dead : v \in Dead'
               /\ nodes' = nodes \/ nodes' = Append(nodes, w)
    <2>1. nodes' = nodes \/ nodes' = Append(nodes, w)
      BY <1>1 DEF Joins, Connect, SyncOptions, SyncClusterConfig, RegisterWorkerNode, AddWorkerNode,
                  RegisterReturns, RetryRegister, JoinFails, Crash, WorkerExits, Abort
    <2>2. wpc' = wpc \/ \E s : wpc' = [wpc EXCEPT ![w] = s] /\ (wpc[w] = "dead" => s = "dead")
      BY <1>1 DEF Joins, Connect, SyncOptions, SyncClusterConfig, RegisterWorkerNode, AddWorkerNode,
                  RegisterReturns, RetryRegister, JoinFails, Crash, WorkerExits, Goto
    <2> QED BY <1>0, <2>1, <2>2 DEF Dead
  <1>2. ASSUME NEW i \in DOMAIN calls, Handler(i)
        PROVE  (\A v \in Dead : v \in Dead') /\ nodes' = nodes
    <2>1. nodes' = nodes /\ (wpc' = wpc \/ wpc' = [wpc EXCEPT ![nodes[i]] = "dead"])
      BY <1>2 DEF Handler, BeginCreate, EndCreate, RunDestroy, Answer, Goto
    <2> QED BY <1>0, <2>1 DEF Dead
  <1>3. CASE UNCHANGED <<wpc, nodes>>
    BY <1>3 DEF Dead, Twice
  <1>4. CASE StartServer \/ StartHeartBeat \/ Stop \/ SendDestroySignal \/ StopEnds \/ UNCHANGED clusterVars
    BY <1>3, <1>4 DEF StartServer, StartHeartBeat, Stop, SendDestroySignal, StopEnds, Abort, clusterVars
  <1>5. ASSUME NEW g \in Graph, Lifecycle(g) PROVE UNCHANGED <<wpc, nodes>>
    BY <1>5 DEF Lifecycle, ChooseAddresses, BuildExecutor, ComputeDevices, CreateGraph, DestroyGraph,
                DropGraph, CallReturns, FanOut, Abort
  <1>6. ASSUME NEW i \in DOMAIN calls, CallFails(i) PROVE UNCHANGED <<wpc, nodes>>
    BY <1>6 DEF CallFails, Abort
  <1>7. CASE (\A v \in Dead : v \in Dead') /\ (nodes' = nodes \/ \E w \in Worker : nodes' = Append(nodes, w))
    BY <1>7, TwiceStays
  <1> QED BY <1>1, <1>2, <1>3, <1>4, <1>5, <1>6, <1>7 DEF ClusterNext

\* An assertion or a call fails for no other reason.
LEMMA AbortStep ==
    ASSUME ClusterTypeOK, ClusterTypeOK', CallInv, JoinInv, FaultInv, [ClusterNext]_clusterVars
    PROVE  AbortsNeedAFault'
  <1> USE DEF mainVars, graphVars, workerVars, boundVars
  <1> SUFFICES ASSUME main' = "aborted", ~untimely, ~untimely', Dead = {}, ~Twice, main # "aborted"
               PROVE  FALSE
    BY NodesStay, FaultsStay DEF FaultInv, AbortsNeedAFault
  <1>0. /\ nodes \in Seq(Worker) /\ signalled \in Nat /\ toSignal \in Nat /\ toSignal <= Len(nodes)
        /\ holder \in Graph \cup {NoGraph} /\ (holder # NoGraph => Len(calls) = Len(nodes))
        /\ calls \in Seq({"sent", "running", "stuck", "done"})
        /\ wpc \in [Worker -> Alive \cup {"exited", "dead"}]
    BY DEF ClusterTypeOK
  <1>1. CASE StartServer \/ StartHeartBeat \/ Stop \/ StopEnds
    BY <1>1 DEF StartServer, StartHeartBeat, Stop, StopEnds
  <1>2. CASE SendDestroySignal
    <2> DEFINE w == nodes[signalled + 1]
    <2>1. /\ main = "stopping" /\ signalled < toSignal /\ wpc[w] \notin Serving
      BY <1>2 DEF SendDestroySignal
    <2>2. signalled + 1 \in DOMAIN nodes /\ w \in Worker
      BY <1>0, <2>1
    <2>3. wpc[w] # "dead" /\ Joined(w)
      BY <2>2 DEF Dead, JoinInv
    <2>4. w \in destroySignal
      BY <2>1, <2>3 DEF Joined
    <2>5. PICK k \in 1 .. signalled : nodes[k] = w
      BY <2>1, <2>4 DEF FaultInv, SignalInv
    <2>6. k \in DOMAIN nodes /\ k # signalled + 1
      BY <1>0, <2>1, <2>5
    <2> QED BY <2>2, <2>5, <2>6 DEF Twice
  <1>3. ASSUME NEW w \in Worker, Joins(w) PROVE FALSE
    BY <1>3 DEF Joins, Connect, SyncOptions, SyncClusterConfig, RegisterWorkerNode, AddWorkerNode, RegisterReturns
  <1>4. ASSUME NEW w \in Worker, RetryRegister(w) \/ JoinFails(w) \/ Crash(w) \/ WorkerExits(w) PROVE FALSE
    BY <1>4 DEF RetryRegister, JoinFails, Crash, WorkerExits
  <1>5. ASSUME NEW g \in Graph, Lifecycle(g) PROVE FALSE
    <2>1. CASE BuildExecutor(g)
      BY <2>1 DEF BuildExecutor, FaultInv, AddressInv
    <2>2. CASE CreateGraph(g)
      BY <2>2 DEF CreateGraph, FanOut, FaultInv, AddressInv, IdInv
    <2>3. CASE DestroyGraph(g)
      BY <2>3 DEF DestroyGraph, FanOut, FaultInv, IdInv
    <2>4. CASE ChooseAddresses(g) \/ ComputeDevices(g) \/ DropGraph(g) \/ CallReturns(g)
      BY <2>4 DEF ChooseAddresses, ComputeDevices, DropGraph, CallReturns
    <2> QED BY <1>5, <2>1, <2>2, <2>3, <2>4 DEF Lifecycle
  <1>6. ASSUME NEW i \in DOMAIN calls, Handler(i) PROVE FALSE
    BY <1>6 DEF Handler, BeginCreate, EndCreate, RunDestroy, Answer
  <1>7. ASSUME NEW i \in DOMAIN calls, CallFails(i) PROVE FALSE
    <2>1. /\ main = "up" /\ holder # NoGraph /\ holder \in Graph
          /\ i \in DOMAIN nodes /\ nodes[i] \in Worker
      BY <1>0, <1>7 DEF CallFails
    <2>2. CASE calls[i] = "stuck"
      <3>1. pc[holder] = "creating" /\ holder \notin fabric
        BY <2>1, <2>2 DEF FaultInv, StuckInv
      <3>2. NodeSize > 1
        BY <1>0, <2>1 DEF NodeSize
      <3> QED BY <2>1, <3>1, <3>2 DEF FaultInv, AddressInv
    <2>3. CASE wpc[nodes[i]] \notin Serving
      BY <2>1, <2>3 DEF JoinInv, Joined, Dead
    <2> QED BY <1>7, <2>2, <2>3 DEF CallFails
  <1>8. CASE UNCHANGED clusterVars
    BY <1>8 DEF clusterVars
  <1> QED BY <1>1, <1>2, <1>3, <1>4, <1>5, <1>6, <1>7, <1>8 DEF ClusterNext

\* Neither the order in which threads create, destroy and drop their graphs nor
\* what they read before they have MainNode::mMutex can make an assertion or a
\* call fail: the main node is ended by a worker that died or is registered twice,
\* or by a call that came too early or too late.
THEOREM ClusterAborts == ClusterSpec => []AbortsNeedAFault
<1>1. ClusterInit => CallInv /\ JoinInv /\ FaultInv
  BY DEF ClusterInit, CallInv, JoinInv, FaultInv, IdInv, AddressInv, StuckInv, SignalInv, AbortsNeedAFault
<1>2. ClusterTypeOK /\ ClusterTypeOK' /\ CallInv /\ JoinInv /\ FaultInv /\ [ClusterNext]_clusterVars
      => CallInv' /\ JoinInv' /\ FaultInv'
  <2> SUFFICES ASSUME ClusterTypeOK, ClusterTypeOK', CallInv, JoinInv, FaultInv, [ClusterNext]_clusterVars
               PROVE  CallInv' /\ JoinInv' /\ FaultInv'
    OBVIOUS
  <2>1. IdInv /\ AddressInv /\ StuckInv /\ SignalInv
    BY DEF FaultInv
  <2> QED BY <2>1, CallStep, JoinStep, IdStep, AddressStep, StuckStep, SignalStep, AbortStep DEF FaultInv
<1>3. FaultInv => AbortsNeedAFault
  BY DEF FaultInv
<1> QED BY <1>1, <1>2, <1>3, ClusterTypes, PTL DEF ClusterSpec
-----------------------------------------------------------------------------
(* The devices of the cluster. *)

\* A set of numbers that is not empty has a least one.
LEMMA Least == ASSUME NEW T \in SUBSET Nat, T # {} PROVE \E n \in T : \A m \in T : n <= m
  <1> DEFINE Less == {p \in Nat \X Nat : p[1] < p[2]}
  <1>1. IsWellFoundedOn(Less, Nat)
    <2>1. OpToRel(<, Nat) = Less
      BY DEF OpToRel
    <2>2. IsWellFoundedOn(OpToRel(<, Nat), Nat)
      BY NatLessThanWellFounded
    <2> QED BY <2>1, <2>2, Zenon
  <1>2. PICK n \in T : \A m \in T : ~ (<<m, n>> \in Less)
    <2> HIDE DEF Less
    <2> QED BY <1>1, WFMin
  <1>3. ASSUME NEW m \in T PROVE n <= m
    <2>1. ~(<<m, n>> \in Less) /\ <<m, n>> \in Nat \X Nat
      BY <1>2
    <2>2. ~(m < n)
      BY <2>1
    <2> QED BY <2>2
  <1> QED BY <1>3

\* The loop's counter goes through the sums of the first counts.
LEMMA Counted ==
    ASSUME NEW s \in Seq(Nat)
    PROVE  /\ Counter(s) \in [0 .. Len(s) -> Nat]
           /\ Counter(s)[0] = 0
           /\ \A n \in 1 .. Len(s) : Counter(s)[n] = Counter(s)[n - 1] + s[n]
  <1> DEFINE Sums(g, m) == \A n \in 0 .. m : g[n] = IF n = 0 THEN 0 ELSE g[n - 1] + s[n]
  <1>0. Len(s) \in Nat /\ \A n \in 1 .. Len(s) : s[n] \in Nat
    OBVIOUS
  <1>1. \A m \in 0 .. Len(s) : \E g \in [0 .. m -> Nat] : Sums(g, m)
    <2> DEFINE T == {m \in 0 .. Len(s) : ~ \E g \in [0 .. m -> Nat] : Sums(g, m)}
    <2>1. SUFFICES ASSUME T # {} PROVE FALSE
      OBVIOUS
    <2>2. T \in SUBSET Nat
      BY <1>0
    <2>3. PICK m \in T : \A k \in T : m <= k
      BY <2>1, <2>2, Least
    <2>4. m \in Nat /\ m <= Len(s)
      BY <1>0
    <2>5. CASE m = 0
      <3>1. [n \in 0 .. 0 |-> 0] \in [0 .. 0 -> Nat] /\ Sums([n \in 0 .. 0 |-> 0], 0)
        OBVIOUS
      <3> QED BY <2>5, <3>1
    <2>6. CASE m # 0
      <3>1. m - 1 \in 0 .. Len(s) /\ m \in 1 .. Len(s) /\ ~(m <= m - 1)
        BY <1>0, <2>4, <2>6
      <3>0. m - 1 \notin T
        BY <2>3, <3>1
      <3>2. PICK g \in [0 .. m - 1 -> Nat] : Sums(g, m - 1)
        <4> HIDE DEF Sums
        <4> QED BY <3>0, <3>1
      <3> DEFINE h == [n \in 0 .. m |-> IF n = m THEN g[m - 1] + s[m] ELSE g[n]]
      <3>3. h \in [0 .. m -> Nat]
        BY <1>0, <2>4, <3>1
      <3>4. ASSUME NEW n \in 0 .. m PROVE h[n] = IF n = 0 THEN 0 ELSE h[n - 1] + s[n]
        <4>1. CASE n = m
          BY <2>4, <2>6, <4>1
        <4>2. CASE n # m
          BY <2>4, <3>2, <4>2
        <4> QED BY <4>1, <4>2
      <3> QED BY <3>3, <3>4
    <2> QED BY <2>5, <2>6
  <1>2. PICK g \in [0 .. Len(s) -> Nat] : Sums(g, Len(s))
    <2> HIDE DEF Sums
    <2>1. Len(s) \in 0 .. Len(s)
      BY <1>0
    <2> QED BY <1>1, <2>1
  <1>3. g = [n \in 0 .. Len(s) |-> IF n = 0 THEN 0 ELSE g[n - 1] + s[n]]
    BY <1>2
  <1> DEFINE c == Counter(s)
  <1>4. c = [n \in 0 .. Len(s) |-> IF n = 0 THEN 0 ELSE c[n - 1] + s[n]]
    <2>1. c = CHOOSE total : total = [n \in 0 .. Len(s) |-> IF n = 0 THEN 0 ELSE total[n - 1] + s[n]]
      BY DEF Counter
    <2> HIDE DEF c
    <2> QED BY <1>3, <2>1
  <1> HIDE DEF c
  <1>5. c[0] = 0 /\ \A n \in 1 .. Len(s) : c[n] = c[n - 1] + s[n]
    <2>1. \A n \in 0 .. Len(s) : c[n] = IF n = 0 THEN 0 ELSE c[n - 1] + s[n]
      BY <1>4, Zenon
    <2> QED BY <1>0, <2>1
  <1>6. \A n \in 0 .. Len(s) : c[n] \in Nat
    <2> DEFINE T == {n \in 0 .. Len(s) : c[n] \notin Nat}
    <2>1. SUFFICES ASSUME T # {} PROVE FALSE
      OBVIOUS
    <2>2. T \in SUBSET Nat
      BY <1>0
    <2>3. PICK n \in T : \A k \in T : n <= k
      BY <2>1, <2>2, Least
    <2>4. n # 0 /\ n \in 1 .. Len(s) /\ n - 1 \in 0 .. Len(s) /\ n - 1 \notin T
      BY <1>0, <1>5, <2>3
    <2>5. c[n - 1] \in Nat /\ s[n] \in Nat
      BY <1>0, <2>4
    <2>6. c[n] = c[n - 1] + s[n]
      BY <1>5, <2>4
    <2> QED BY <2>5, <2>6
  <1>7. c \in [0 .. Len(s) -> Nat]
    BY <1>4, <1>6
  <1> QED BY <1>5, <1>7 DEF c

\* Each number below the sum lies between two neighbouring values of the counter,
\* and between no other two.
LEMMA Slices ==
    ASSUME NEW s \in Seq(Nat), NEW d \in Nat, d < Counter(s)[Len(s)]
    PROVE  \E n \in 1 .. Len(s) : \A m \in 1 .. Len(s) :
              Counter(s)[m - 1] <= d /\ d < Counter(s)[m] <=> m = n
  <1> DEFINE L == Len(s)
             c == Counter(s)
  <1>1. L \in Nat /\ c \in [0 .. L -> Nat] /\ c[0] = 0 /\ \A n \in 1 .. L : s[n] \in Nat /\ c[n] = c[n - 1] + s[n]
    BY Counted
  <1>2. d < c[L]
    OBVIOUS
  <1> HIDE DEF L, c
  <1>3. \A m, n \in 0 .. L : m <= n => c[m] <= c[n]
    <2> DEFINE T == {n \in 0 .. L : \E m \in 0 .. n : ~(c[m] <= c[n])}
    <2>1. T = {}
      <3>1. SUFFICES ASSUME T # {} PROVE FALSE
        OBVIOUS
      <3>2. T \in SUBSET Nat
        BY <1>1
      <3>3. PICK n \in T : \A k \in T : n <= k
        BY <3>1, <3>2, Least
      <3>4. PICK m \in 0 .. n : ~(c[m] <= c[n])
        OBVIOUS
      <3>5. n \in 0 .. L /\ m # n
        BY <1>1, <3>4
      <3>6. n \in 1 .. L /\ n - 1 \in 0 .. L /\ n - 1 \notin T /\ m \in 0 .. n - 1
        BY <1>1, <3>3, <3>5
      <3>7. c[m] <= c[n - 1] /\ c[n] = c[n - 1] + s[n] /\ c[n - 1] \in Nat /\ c[m] \in Nat /\ s[n] \in Nat
        BY <1>1, <3>6
      <3> QED BY <3>4, <3>7
    <2>2. ASSUME NEW m \in 0 .. L, NEW n \in 0 .. L, m <= n PROVE c[m] <= c[n]
      <3>1. n \notin T
        BY <2>1
      <3>2. m \in 0 .. n
        BY <1>1, <2>2
      <3> QED BY <3>1, <3>2
    <2> QED BY <2>2
  <1> DEFINE T == {n \in 0 .. L : d < c[n]}
  <1>4. PICK n \in T : \A k \in T : n <= k
    <2>1. L \in T
      BY <1>1, <1>2
    <2>2. T \in SUBSET Nat
      BY <1>1
    <2> QED BY <2>1, <2>2, Least
  <1>5. n \in 1 .. L /\ n - 1 \in 0 .. L /\ n - 1 \notin T
    BY <1>1, <1>4
  <1>6. c[n - 1] <= d /\ d < c[n]
    BY <1>1, <1>4, <1>5
  <1>7. ASSUME NEW m \in 1 .. L, c[m - 1] <= d, d < c[m] PROVE m = n
    <2>1. m - 1 \in 0 .. L /\ m \in 0 .. L /\ n \in 0 .. L /\ m \in Nat /\ n \in Nat
      BY <1>1, <1>5
    <2>2. c[m - 1] \in Nat /\ c[m] \in Nat /\ c[n - 1] \in Nat /\ c[n] \in Nat
      BY <1>1, <1>5, <2>1
    <2>3. CASE m < n
      <3>1. c[m] <= c[n - 1]
        BY <1>3, <1>5, <2>1, <2>3
      <3> QED BY <1>6, <1>7, <2>2, <3>1
    <2>4. CASE n < m
      <3>1. c[n] <= c[m - 1]
        BY <1>3, <2>1, <2>4
      <3> QED BY <1>6, <1>7, <2>2, <3>1
    <2> QED BY <2>1, <2>3, <2>4
  <1> QED BY <1>5, <1>6, <1>7 DEF L, c

\* Every device behind the main node's is one of one worker's.
LEMMA Shared ==
    ASSUME ClusterTypeOK, NEW d \in MainGpus .. Counter(GpuCount)[NodeSize] - 1
    PROVE  \E i \in DOMAIN nodes : \A j \in DOMAIN nodes :
              (\E p \in GetRunnerSupportedDevicesForNode(j + 1) : p[1] = d) <=> i = j
  <1>0. nodes \in Seq(Worker) /\ Len(nodes) \in Nat /\ DOMAIN nodes = 1 .. Len(nodes)
    BY DEF ClusterTypeOK
  <1>1. GpuCount \in Seq(Nat) /\ Len(GpuCount) = NodeSize /\ GpuCount[1] = MainGpus
    <2> DEFINE rest == [i \in DOMAIN nodes |-> Gpus[nodes[i]]]
    <2>1. rest \in Seq(Nat) /\ Len(rest) = Len(nodes)
      <3>1. \A i \in 1 .. Len(nodes) : nodes[i] \in Worker
        BY <1>0
      <3>2. rest \in [1 .. Len(nodes) -> Nat]
        BY <1>0, <3>1, ClusterAssumption
      <3> QED BY <1>0, <3>2
    <2>2. <<MainGpus>> \in Seq(Nat) /\ Len(<<MainGpus>>) = 1 /\ <<MainGpus>>[1] = MainGpus
      BY ClusterAssumption
    <2> HIDE DEF rest
    <2>3. PICK m \in Seq(Nat) : m = <<MainGpus>> /\ Len(m) = 1 /\ m[1] = MainGpus
      BY <2>2
    <2>4. m \o rest \in Seq(Nat) /\ Len(m \o rest) = Len(nodes) + 1 /\ (m \o rest)[1] = MainGpus
      BY <1>0, <2>1, <2>3
    <2> QED BY <2>3, <2>4 DEF GpuCount, NodeSize, rest
  <1>2. PICK s \in Seq(Nat) : s = GpuCount
    BY <1>1
  <1>3. /\ Counter(s) \in [0 .. Len(s) -> Nat] /\ Counter(s)[0] = 0
        /\ \A n \in 1 .. Len(s) : Counter(s)[n] = Counter(s)[n - 1] + s[n]
    BY Counted
  <1>4. Len(s) = Len(nodes) + 1 /\ s[1] = MainGpus /\ MainGpus \in Nat
    BY <1>1, <1>2, ClusterAssumption DEF NodeSize
  <1>5. Counter(s)[1] = MainGpus /\ Counter(s)[Len(s)] \in Nat
    <2>1. 1 \in 1 .. Len(s) /\ Len(s) \in 0 .. Len(s) /\ 1 - 1 = 0
      BY <1>0, <1>4
    <2>2. Counter(s)[Len(s)] \in Nat
      BY <1>3, <2>1
    <2>3. Counter(s)[1] = Counter(s)[1 - 1] + s[1]
      BY <1>3, <2>1
    <2>4. Counter(s)[1] = 0 + MainGpus
      BY <1>3, <1>4, <2>1, <2>3
    <2> QED BY <1>4, <2>2, <2>4
  <1>6. d \in Nat /\ d < Counter(s)[Len(s)] /\ MainGpus <= d
    BY <1>1, <1>2, <1>4, <1>5
  <1>7. PICK n \in 1 .. Len(s) : \A m \in 1 .. Len(s) : Counter(s)[m - 1] <= d /\ d < Counter(s)[m] <=> m = n
    BY <1>6, Slices
  <1>8. n # 1
    <2>1. n = 1 => d < Counter(s)[1]
      BY <1>7
    <2> QED BY <1>4, <1>5, <1>6, <2>1
  <1>9. n - 1 \in DOMAIN nodes
    BY <1>0, <1>4, <1>8
  <1>10. ASSUME NEW j \in DOMAIN nodes
         PROVE  (\E p \in GetRunnerSupportedDevicesForNode(j + 1) : p[1] = d) <=> n - 1 = j
    <2>1. j \in Nat /\ n \in Nat /\ j + 1 \in 1 .. Len(s) /\ j \in 0 .. Len(s) /\ (j + 1) - 1 = j
      <3>1. PICK b \in Nat : b = Len(nodes)
        BY <1>0
      <3>2. Len(s) = b + 1 /\ j \in 1 .. b
        BY <1>0, <1>4, <3>1
      <3>3. j \in Nat /\ j + 1 \in 1 .. b + 1 /\ j \in 0 .. b + 1 /\ (j + 1) - 1 = j
        BY <3>2
      <3>4. n \in Nat
        BY <3>2
      <3> QED BY <3>2, <3>3, <3>4
    <2>2. PICK c \in Nat, e \in Nat : c = Counter(s)[j] /\ e = s[j + 1] /\ Counter(s)[j + 1] = c + e
      <3>1. Counter(s)[j] \in Nat /\ s[j + 1] \in Nat
        BY <1>3, <2>1
      <3> QED BY <1>3, <2>1, <3>1
    <2>3. GetRunnerSupportedDevicesForNode(j + 1) = {<<c + k, IF sameDevice THEN 0 ELSE k>> : k \in 0 .. e - 1}
      BY <1>2, <2>1, <2>2 DEF GetRunnerSupportedDevicesForNode, DevicesOf
    <2>4. (\E p \in GetRunnerSupportedDevicesForNode(j + 1) : p[1] = d) <=> \E k \in 0 .. e - 1 : c + k = d
      <3>1. ASSUME NEW p \in GetRunnerSupportedDevicesForNode(j + 1), p[1] = d
            PROVE  \E k \in 0 .. e - 1 : c + k = d
        <4>1. PICK k \in 0 .. e - 1 : p = <<c + k, IF sameDevice THEN 0 ELSE k>>
          BY <2>3, <3>1
        <4>2. p[1] = c + k
          BY <4>1
        <4> QED BY <3>1, <4>2
      <3>2. ASSUME NEW k \in 0 .. e - 1, c + k = d
            PROVE  \E p \in GetRunnerSupportedDevicesForNode(j + 1) : p[1] = d
        <4>1. <<c + k, IF sameDevice THEN 0 ELSE k>> \in GetRunnerSupportedDevicesForNode(j + 1)
          BY <2>3
        <4> QED BY <3>2, <4>1
      <3> QED BY <3>1, <3>2
    <2>5. (\E k \in 0 .. e - 1 : c + k = d) <=> c <= d /\ d < c + e
      <3>1. ASSUME c <= d, d < c + e PROVE \E k \in 0 .. e - 1 : c + k = d
        <4>1. d \in Nat /\ c \in Nat /\ e \in Nat
          BY <1>6, <2>2
        <4>2. PICK k \in Nat : k = d - c
          BY <3>1, <4>1
        <4>3. k \in 0 .. e - 1 /\ c + k = d
          BY <3>1, <4>1, <4>2
        <4> QED BY <4>3
      <3>2. ASSUME NEW k \in 0 .. e - 1, c + k = d PROVE c <= d /\ d < c + e
        <4>1. c \in Nat /\ e \in Nat /\ k \in Nat /\ k < e
          BY <2>2
        <4> QED BY <3>2, <4>1
      <3> QED BY <3>1, <3>2
    <2>6. c <= d /\ d < c + e <=> j + 1 = n
      BY <1>7, <2>1, <2>2
    <2> QED BY <2>1, <2>4, <2>5, <2>6
  <1> QED BY <1>9, <1>10

\* The nodes share out the devices of a graph: between two calls every device
\* behind the main node's is run by one worker, which hosts the graph on it.
THEOREM ClusterWhole == ClusterSpec => []GraphsWhole
<1>1. ClusterTypeOK /\ GraphsHosted => GraphsWhole
  <2> SUFFICES ASSUME ClusterTypeOK, GraphsHosted, main = "up", holder = NoGraph, ~Twice, Dead = {},
                      NEW g \in graphIds, NEW d \in MainGpus .. Counter(GpuCount)[NodeSize] - 1
               PROVE  \E i \in DOMAIN nodes : \A j \in DOMAIN nodes :
                        (\E r \in runners[nodes[j]] : r[1] = g /\ \E p \in r[2] : p[1] = d) <=> i = j
    BY DEF GraphsWhole
  <2>1. \A j \in DOMAIN nodes : runners[nodes[j]] = {<<h, GetRunnerSupportedDevicesForNode(j + 1)>> : h \in graphIds}
    BY DEF GraphsHosted, Rows
  <2>2. \A j \in DOMAIN nodes :
          (\E r \in runners[nodes[j]] : r[1] = g /\ \E p \in r[2] : p[1] = d)
            <=> \E p \in GetRunnerSupportedDevicesForNode(j + 1) : p[1] = d
    <3> SUFFICES ASSUME NEW j \in DOMAIN nodes
                 PROVE  (\E r \in runners[nodes[j]] : r[1] = g /\ \E p \in r[2] : p[1] = d)
                          <=> \E p \in GetRunnerSupportedDevicesForNode(j + 1) : p[1] = d
      OBVIOUS
    <3> DEFINE D == GetRunnerSupportedDevicesForNode(j + 1)
    <3>1. runners[nodes[j]] = {<<h, D>> : h \in graphIds}
      BY <2>1
    <3> HIDE DEF D
    <3>2. <<g, D>> \in runners[nodes[j]] /\ <<g, D>>[1] = g /\ <<g, D>>[2] = D
      BY <3>1
    <3>3. \A r \in runners[nodes[j]] : r[2] = D
      BY <3>1
    <3>4. (\E r \in runners[nodes[j]] : r[1] = g /\ \E p \in r[2] : p[1] = d) <=> \E p \in D : p[1] = d
      BY <3>2, <3>3, Zenon
    <3> QED BY <3>4 DEF D
  <2>3. PICK i \in DOMAIN nodes : \A j \in DOMAIN nodes :
          (\E p \in GetRunnerSupportedDevicesForNode(j + 1) : p[1] = d) <=> i = j
    BY Shared
  <2> QED BY <2>2, <2>3
<1> QED BY ClusterTypes, ClusterHosts, <1>1, PTL
=============================================================================
