------------------------------ MODULE Cluster ------------------------------
(***************************************************************************)
(* The main node of a cluster, the worker nodes that join it, and the      *)
(* graphs that are created on all of them: the RPCs in both directions,    *)
(* the mutex of the main node, workers that come late, die or register     *)
(* twice, and the end of the cluster.                                      *)
(*                                                                         *)
(* A graph is used by a thread of its own.  The program starts the main    *)
(* node before the threads that use graphs, does not stop it while one of  *)
(* them is in a call, and starts it once.  An RPC to a process that is     *)
(* there is answered, unless its handler waits for a mutex or a process.   *)
(***************************************************************************)
EXTENDS Naturals, Sequences, FiniteSets, SequencesExt

CONSTANTS Worker, Graph,
          PerDevice,     \* the graphs with perDevicePerProcess
          MainGpus,      \* CudaDeviceCount() of the main node
          Gpus,          \* ... and of each worker
          MaxFault,      \* bound: workers that die and calls that are repeated
          NoGraph        \* nobody holds the main node's mutex across a call

ASSUME ClusterAssumption ==
    /\ PerDevice \subseteq Graph
    /\ MainGpus \in Nat
    /\ Gpus \in [Worker -> Nat]
    /\ MaxFault \in Nat
    /\ NoGraph \notin Graph

VARIABLES
    sameDevice,   \* the option DTensorInSameDevice
    main,         \* the process of the main node
    nodes,        \* mWorkerNodeClients, and ClusterInfo but for node 0
    graphIds,     \* MainNode::mGraphIdSet
    holder,       \* the graph whose call holds MainNode::mMutex
    calls,        \* that call's RPCs, one per client
    pc,           \* what each graph's thread is doing
    fabric,       \* graphs that have got broadcast addresses
    seen,         \* nodes for which a thread has computed the devices
    signalled,    \* clients ~MainNode has gone through
    toSignal,     \* clients its loop goes through
    wpc,          \* the process of each worker node
    requests,     \* its RegisterWorkerNode calls on their way
    answered,     \* workers whose registration has been answered
    destroySignal,\* WorkerNode::mGetDestroySignal
    installed,    \* how many nodes the worker's ClusterInfo tells of
    runners,      \* mRunnerForGraphMap: graph, its devices on this node
    faults,       \* workers that have died, calls that were repeated
    untimely      \* a call has come before the node was complete, or once
                  \* graphs or the end of the cluster were under way

mainVars   == <<sameDevice, main, nodes, graphIds, holder, calls, signalled, toSignal>>
graphVars  == <<pc, fabric, seen>>
workerVars == <<wpc, requests, answered, destroySignal, installed, runners>>
boundVars  == <<faults, untimely>>
clusterVars == <<mainVars, graphVars, workerVars, boundVars>>

Starting == {"options", "config", "configured", "registering"}
Serving  == {"registering", "serving"}       \* the worker's server is up
Alive    == Starting \cup {"off", "serving"}
InCall   == {"calling", "creating", "destroying"}
Listens  == {"serving", "up", "stopping"}    \* the main node's server is up

FlagTypeOK == sameDevice \in BOOLEAN /\ untimely \in BOOLEAN

ClusterTypeOK ==
    /\ FlagTypeOK
    /\ main \in Listens \cup {"off", "stopped", "aborted"}
    /\ nodes \in Seq(Worker)
    /\ graphIds \subseteq Graph
    /\ holder \in Graph \cup {NoGraph}
    /\ calls \in Seq({"sent", "running", "stuck", "done"})
    /\ holder # NoGraph => Len(calls) = Len(nodes)
    /\ pc \in [Graph -> InCall \cup {"none", "addressed", "built", "ready", "gone"}]
    /\ fabric \subseteq Graph
    /\ seen \in [Graph -> Nat]
    /\ signalled \in Nat /\ toSignal \in Nat /\ toSignal <= Len(nodes)
    /\ wpc \in [Worker -> Alive \cup {"exited", "dead"}]
    /\ requests \in [Worker -> Nat]
    /\ answered \subseteq Worker /\ destroySignal \subseteq Worker
    /\ installed \in [Worker -> Nat]
    /\ runners = [w \in Worker |-> runners[w]]
    /\ faults \in 0 .. MaxFault

NodeSize == Len(nodes) + 1

\* ClusterInfo's GPU counts, node 0 first.
GpuCount == <<MainGpus>> \o [i \in DOMAIN nodes |-> Gpus[nodes[i]]]

\* The loop's `counter': how many GPUs the first nodes have together.
Counter(counts) ==
    LET total[n \in 0 .. Len(counts)] == IF n = 0 THEN 0 ELSE total[n - 1] + counts[n]
    IN  total

\* A plausible bug: the global number starts again on every node.
DevicesOfRestarting(counts, same, i) ==
    {<<k, IF same THEN 0 ELSE k>> : k \in 0 .. counts[i] - 1}

\* The devices of the node at place i: pairs of a global and a local number.
DevicesOf(counts, same, i) ==
    {<<Counter(counts)[i - 1] + k, IF same THEN 0 ELSE k>> : k \in 0 .. counts[i] - 1}

GetRunnerSupportedDevicesForNode(i) == DevicesOf(GpuCount, sameDevice, i)

ClusterInit ==
    /\ sameDevice \in BOOLEAN
    /\ main = "off" /\ nodes = <<>> /\ graphIds = {} /\ holder = NoGraph /\ calls = <<>>
    /\ signalled = 0 /\ toSignal = 0
    /\ pc = [g \in Graph |-> "none"] /\ fabric = {} /\ seen = [g \in Graph |-> 0]
    /\ wpc = [w \in Worker |-> "off"] /\ requests = [w \in Worker |-> 0]
    /\ answered = {} /\ destroySignal = {}
    /\ installed = [w \in Worker |-> 0] /\ runners = [w \in Worker |-> {}]
    /\ faults = 0 /\ untimely = FALSE
-----------------------------------------------------------------------------
(* The main node begins. *)

\* MainNode's constructor: the server takes calls before the heart beat is there.
StartServer ==
    /\ main = "off"
    /\ main' = "serving"
    /\ UNCHANGED <<sameDevice, nodes, graphIds, holder, calls, signalled, toSignal,
                   graphVars, workerVars, boundVars>>

StartHeartBeat ==
    /\ main = "serving"
    /\ main' = "up"
    /\ UNCHANGED <<sameDevice, nodes, graphIds, holder, calls, signalled, toSignal,
                   graphVars, workerVars, boundVars>>

\* The process ends at a failed assertion or RPC.
Abort ==
    /\ main' = "aborted"
    /\ UNCHANGED <<sameDevice, nodes, graphIds, holder, calls, signalled, toSignal>>
-----------------------------------------------------------------------------
(* A worker node joins. *)

Goto(w, next) == wpc' = [wpc EXCEPT ![w] = next]

\* MainNodeClient's constructor waits for the channel, for a time.
Connect(w) ==
    /\ wpc[w] = "off"
    /\ \/ main \in Listens /\ Goto(w, "options")
       \/ main \notin Listens /\ Goto(w, "exited")
    /\ UNCHANGED <<mainVars, graphVars, requests, answered, destroySignal, installed, runners,
                   boundVars>>

\* SyncGlobalOptionFromMainNode and SyncEnvVarsFromMainNode: two calls that take no
\* mutex and change nothing but the worker's own settings.
SyncOptions(w) ==
    /\ main \in Listens /\ wpc[w] = "options"
    /\ Goto(w, "config")
    /\ UNCHANGED <<mainVars, graphVars, requests, answered, destroySignal, installed, runners,
                   boundVars>>

\* SyncClusterConfig reads through the pointer to the heart beat, which is not set
\* yet or being destroyed when the call is untimely.
SyncClusterConfig(w) ==
    /\ wpc[w] = "config" /\ holder = NoGraph
    /\ \/ /\ main \in {"up", "stopping"}
          /\ Goto(w, "configured")
          /\ UNCHANGED <<mainVars, untimely>>
       \/ /\ main \in {"serving", "stopping"}
          /\ Abort
          /\ untimely' = TRUE
          /\ UNCHANGED wpc
    /\ UNCHANGED <<graphVars, requests, answered, destroySignal, installed, runners,
                   faults>>

\* The rest of the constructor: it refuses, or listens and asks to be registered.
RegisterWorkerNode(w) ==
    /\ wpc[w] = "configured"
    /\ \/ sameDevice /\ Goto(w, "exited") /\ UNCHANGED requests
       \/ ~sameDevice /\ Goto(w, "registering") /\ requests' = [requests EXCEPT ![w] = 1]
    /\ UNCHANGED <<mainVars, graphVars, answered, destroySignal, installed, runners, boundVars>>

\* The client library repeats a call whose connection is gone; the request or
\* its answer may be lost, not what the handler has done.
RetryRegister(w) ==
    /\ wpc[w] = "registering" /\ main \in Listens
    /\ faults < MaxFault
    /\ faults' = faults + 1
    /\ requests' = [requests EXCEPT ![w] = @ + 1]
    /\ answered' = answered \ {w}
    /\ UNCHANGED <<mainVars, graphVars, wpc, destroySignal, installed, runners, untimely>>

\* A thread is between reading the number of nodes and its call.
Creating(g) == pc[g] \in {"addressed", "built", "calling"}

\* MainNode::AddWorkerNode, called by the handler of RegisterWorkerNode.  While the
\* main node is destroyed it changes a vector that is being read, or gone.
AddWorkerNode(w) ==
    /\ main \in Listens /\ requests[w] > 0 /\ holder = NoGraph
    /\ requests' = [requests EXCEPT ![w] = @ - 1]
    /\ \/ /\ graphIds = {} \/ main = "stopping"
          /\ nodes' = Append(nodes, w)
          /\ answered' = answered \cup {w}
          /\ UNCHANGED <<sameDevice, main, graphIds, holder, calls, signalled, toSignal>>
       \/ /\ graphIds # {} \/ main = "stopping"
          /\ Abort
          /\ UNCHANGED answered
    /\ untimely' = (untimely \/ main = "stopping" \/ graphIds # {} \/ \E g \in Graph : Creating(g))
    /\ UNCHANGED <<graphVars, wpc, destroySignal, installed, runners, faults>>

RegisterReturns(w) ==
    /\ wpc[w] = "registering" /\ w \in answered
    /\ Goto(w, "serving")
    /\ UNCHANGED <<mainVars, graphVars, requests, answered, destroySignal, installed, runners,
                   boundVars>>

\* RpcCheckStatus ends a worker whose call is not answered in time: the main node
\* is gone, or a graph's call holds the mutex.
JoinFails(w) ==
    /\ wpc[w] \in {"options", "config", "registering"} /\ w \notin answered
    /\ \/ main \notin Listens
       \/ wpc[w] \in {"config", "registering"} /\ holder # NoGraph
    /\ Goto(w, "dead")
    /\ UNCHANGED <<mainVars, graphVars, requests, answered, destroySignal, installed, runners,
                   boundVars>>

Crash(w) ==
    /\ wpc[w] \in Alive \ {"off"} /\ faults < MaxFault
    /\ Goto(w, "dead")
    /\ runners' = [runners EXCEPT ![w] = {}]
    /\ faults' = faults + 1
    /\ UNCHANGED <<mainVars, graphVars, requests, answered, destroySignal, installed,
                   untimely>>
-----------------------------------------------------------------------------
(* A graph is created and destroyed. *)

At(g, here, next) == pc[g] = here /\ pc' = [pc EXCEPT ![g] = next]

\* Graph::Impl::EnsureInitialized reads the number of nodes without the mutex.
ChooseAddresses(g) ==
    /\ main = "up" /\ At(g, "none", "addressed")
    /\ fabric' = IF g \in PerDevice \/ NodeSize > 1 THEN fabric \cup {g} ELSE fabric
    /\ UNCHANGED <<mainVars, seen, workerVars, boundVars>>

\* EagerGraphExecutor's constructor reads it again.
BuildExecutor(g) ==
    /\ main = "up"
    /\ \/ /\ g \in PerDevice \/ NodeSize > 1 => g \in fabric
          /\ At(g, "addressed", "built")
          /\ UNCHANGED mainVars
       \/ /\ NodeSize > 1 /\ g \notin fabric
          /\ pc[g] = "addressed"
          /\ Abort
          /\ UNCHANGED pc
    /\ UNCHANGED <<fabric, seen, workerVars, boundVars>>

\* The argument of MainNode::CreateGraph is computed before its mutex is taken.
ComputeDevices(g) ==
    /\ main = "up" /\ At(g, "built", "calling")
    /\ seen' = [seen EXCEPT ![g] = NodeSize]
    /\ UNCHANGED <<mainVars, fabric, workerVars, boundVars>>

\* MainNode::CreateGraph and DestroyGraph hold the mutex until every client has
\* answered.
FanOut(g) ==
    /\ holder' = g
    /\ calls' = [i \in DOMAIN nodes |-> "sent"]
    /\ UNCHANGED <<sameDevice, main, nodes, signalled, toSignal>>

CreateGraph(g) ==
    /\ main = "up" /\ holder = NoGraph
    /\ \/ /\ g \notin graphIds /\ seen[g] = NodeSize
          /\ At(g, "calling", "creating")
          /\ graphIds' = graphIds \cup {g}
          /\ FanOut(g)
       \/ /\ ~(g \notin graphIds /\ seen[g] = NodeSize)
          /\ pc[g] = "calling"
          /\ Abort
          /\ UNCHANGED pc
    /\ UNCHANGED <<fabric, seen, workerVars, boundVars>>

\* A plausible bug: a cluster that is gone is not asked about.
DestroyGraphUnguarded(g) ==
    /\ \/ /\ main = "up" /\ holder = NoGraph /\ g \in graphIds
          /\ At(g, "ready", "destroying")
          /\ graphIds' = graphIds \ {g}
          /\ FanOut(g)
       \/ main = "stopped" /\ pc[g] = "ready" /\ Abort /\ UNCHANGED pc
    /\ UNCHANGED <<fabric, seen, workerVars, boundVars>>

\* Graph::Destroy.  Without a cluster there is nobody to tell.
DestroyGraph(g) ==
    /\ \/ /\ main = "up" /\ holder = NoGraph /\ g \in graphIds
          /\ At(g, "ready", "destroying")
          /\ graphIds' = graphIds \ {g}
          /\ FanOut(g)
       \/ /\ main = "up" /\ holder = NoGraph /\ g \notin graphIds
          /\ pc[g] = "ready"
          /\ Abort
          /\ UNCHANGED pc
       \/ /\ main = "stopped"
          /\ At(g, "ready", "gone")
          /\ UNCHANGED mainVars
    /\ UNCHANGED <<fabric, seen, workerVars, boundVars>>

\* ~Graph::Impl of a graph that was not destroyed: the nodes are not told.
DropGraph(g) ==
    /\ main \in {"up", "stopped"} /\ At(g, "ready", "gone")
    /\ UNCHANGED <<mainVars, fabric, seen, workerVars, boundVars>>

CallReturns(g) ==
    /\ main = "up" /\ holder = g
    /\ \A i \in DOMAIN calls : calls[i] = "done"
    /\ \/ At(g, "creating", "ready") \/ At(g, "destroying", "gone")
    /\ holder' = NoGraph
    /\ UNCHANGED <<sameDevice, main, nodes, graphIds, calls, signalled, toSignal,
                   fabric, seen, workerVars, boundVars>>
-----------------------------------------------------------------------------
(* The handlers of a worker node. *)

Hosts(w, g) == \E r \in runners[w] : r[1] = g

Answer(i, status) ==
    /\ calls' = [calls EXCEPT ![i] = status]
    /\ UNCHANGED <<sameDevice, main, nodes, graphIds, holder, signalled, toSignal>>

\* The handler of client i is called: it installs ClusterInfo and starts a process
\* for each of the devices.  Without an address to connect to, a process never
\* says it has started.
BeginCreate(i) ==
    LET w == nodes[i]
    IN  /\ main = "up" /\ calls[i] = "sent" /\ wpc[w] \in Serving
        /\ holder # NoGraph /\ pc[holder] = "creating"
        /\ installed' = [installed EXCEPT ![w] = NodeSize]
        /\ \/ /\ ~Hosts(w, holder)
              /\ Answer(i, IF holder \in fabric \/ Gpus[w] = 0 THEN "running" ELSE "stuck")
              /\ UNCHANGED <<wpc, runners>>
           \/ /\ Hosts(w, holder)
              /\ Goto(w, "dead")
              /\ runners' = [runners EXCEPT ![w] = {}]
              /\ UNCHANGED mainVars
        /\ UNCHANGED <<graphVars, requests, answered, destroySignal, boundVars>>

\* WorkerNodeMultiGraphNodeRunner has no mutex.  A second handler that has passed
\* the check as well finds the graph there, or corrupts the map.
EndCreate(i) ==
    LET w == nodes[i]
    IN  /\ main = "up" /\ calls[i] = "running" /\ wpc[w] \in Serving
        /\ holder # NoGraph /\ pc[holder] = "creating"
        /\ \/ /\ Answer(i, "done")
              /\ runners' = IF Hosts(w, holder) THEN runners
                            ELSE [runners EXCEPT ![w] =
                                     @ \cup {<<holder, GetRunnerSupportedDevicesForNode(i + 1)>>}]
              /\ UNCHANGED wpc
           \/ /\ Hosts(w, holder)
              /\ Goto(w, "dead")
              /\ runners' = [runners EXCEPT ![w] = {}]
              /\ UNCHANGED mainVars
        /\ UNCHANGED <<graphVars, requests, answered, destroySignal, installed, boundVars>>

\* The runners of the graph end before the answer is given.
RunDestroy(i) ==
    LET w == nodes[i]
    IN  /\ main = "up" /\ calls[i] = "sent" /\ wpc[w] \in Serving
        /\ holder # NoGraph /\ pc[holder] = "destroying"
        /\ \/ /\ Hosts(w, holder)
              /\ Answer(i, "done")
              /\ runners' = [runners EXCEPT ![w] = {r \in @ : r[1] # holder}]
              /\ UNCHANGED wpc
           \/ /\ ~Hosts(w, holder)
              /\ Goto(w, "dead")
              /\ runners' = [runners EXCEPT ![w] = {}]
              /\ UNCHANGED mainVars
        /\ UNCHANGED <<graphVars, requests, answered, destroySignal, installed, boundVars>>

\* A plausible bug: a call without a deadline ends with its connection only.
CallFailsUnlimited(i) ==
    /\ main = "up" /\ holder # NoGraph
    /\ calls[i] # "done" /\ wpc[nodes[i]] \notin Serving
    /\ Abort
    /\ UNCHANGED <<graphVars, workerVars, boundVars>>

\* RpcCheckStatus ends the main node when a client does not answer in time.
CallFails(i) ==
    /\ main = "up" /\ holder # NoGraph
    /\ \/ calls[i] = "stuck"
       \/ calls[i] # "done" /\ wpc[nodes[i]] \notin Serving
    /\ Abort
    /\ UNCHANGED <<graphVars, workerVars, boundVars>>

-----------------------------------------------------------------------------
(* The cluster ends. *)

Stop ==
    /\ main = "up" /\ holder = NoGraph
    /\ \A g \in Graph : pc[g] \in {"none", "ready", "gone"}
    /\ main' = "stopping"
    /\ signalled' = 0 /\ toSignal' = Len(nodes)
    /\ UNCHANGED <<sameDevice, nodes, graphIds, holder, calls, graphVars, workerVars, boundVars>>

\* A plausible bug: the signal wakes who waits and is not remembered.
SendDestroySignalUnremembered ==
    /\ main = "stopping" /\ signalled < toSignal
    /\ LET w == nodes[signalled + 1]
       IN  \/ /\ wpc[w] \in Serving
              /\ destroySignal' = destroySignal \cup ({w} \cap {v \in Worker : wpc[v] = "serving"})
              /\ signalled' = signalled + 1
              /\ UNCHANGED <<sameDevice, main, nodes, graphIds, holder, calls, toSignal>>
           \/ wpc[w] \notin Serving /\ Abort /\ UNCHANGED destroySignal
    /\ UNCHANGED <<graphVars, wpc, requests, answered, installed, runners, boundVars>>

\* One turn of the loop of ~MainNode, which takes no mutex.
SendDestroySignal ==
    /\ main = "stopping" /\ signalled < toSignal
    /\ LET w == nodes[signalled + 1]
       IN  \/ /\ wpc[w] \in Serving
              /\ destroySignal' = destroySignal \cup {w}
              /\ signalled' = signalled + 1
              /\ UNCHANGED <<sameDevice, main, nodes, graphIds, holder, calls, toSignal>>
           \/ /\ wpc[w] \notin Serving
              /\ Abort
              /\ UNCHANGED destroySignal
    /\ UNCHANGED <<graphVars, wpc, requests, answered, installed, runners, boundVars>>

StopEnds ==
    /\ main = "stopping" /\ signalled = toSignal
    /\ main' = "stopped"
    /\ UNCHANGED <<sameDevice, nodes, graphIds, holder, calls, signalled, toSignal,
                   graphVars, workerVars, boundVars>>

\* WaitUntilGetDestroySignal returns and the process ends, its runners with it.
WorkerExits(w) ==
    /\ wpc[w] = "serving" /\ w \in destroySignal
    /\ Goto(w, "exited")
    /\ runners' = [runners EXCEPT ![w] = {}]
    /\ UNCHANGED <<mainVars, graphVars, requests, answered, destroySignal, installed, boundVars>>
-----------------------------------------------------------------------------
Joins(w) ==
    Connect(w) \/ SyncOptions(w) \/ SyncClusterConfig(w) \/ RegisterWorkerNode(w)
    \/ AddWorkerNode(w) \/ RegisterReturns(w)

Lifecycle(g) ==
    ChooseAddresses(g) \/ BuildExecutor(g) \/ ComputeDevices(g) \/ CreateGraph(g)
    \/ DestroyGraph(g) \/ DropGraph(g) \/ CallReturns(g)

Handler(i) == BeginCreate(i) \/ EndCreate(i) \/ RunDestroy(i)

ClusterNext ==
    \/ StartServer \/ StartHeartBeat \/ Stop \/ SendDestroySignal \/ StopEnds
    \/ \E w \in Worker : Joins(w) \/ RetryRegister(w) \/ JoinFails(w) \/ Crash(w) \/ WorkerExits(w)
    \/ \E g \in Graph : Lifecycle(g)
    \/ \E i \in DOMAIN calls : Handler(i) \/ CallFails(i)

\* Threads and processes run; a call that can only fail does so at its deadline.
\* Nothing says that a worker is started, a graph used or the cluster stopped.
ClusterFairness ==
    /\ WF_clusterVars(StartHeartBeat) /\ WF_clusterVars(SendDestroySignal) /\ WF_clusterVars(StopEnds)
    /\ \A w \in Worker : /\ WF_clusterVars(AddWorkerNode(w)) /\ WF_clusterVars(RegisterReturns(w))
                         /\ WF_clusterVars(JoinFails(w)) /\ WF_clusterVars(WorkerExits(w))
    /\ \A g \in Graph : WF_clusterVars(BuildExecutor(g) \/ ComputeDevices(g) \/ CreateGraph(g) \/ CallReturns(g))
    /\ \A i \in 1 .. Cardinality(Worker) + MaxFault :
           WF_clusterVars(i \in DOMAIN calls /\ (Handler(i) \/ CallFails(i)))

ClusterSpec == ClusterInit /\ [][ClusterNext]_clusterVars

FairCluster == ClusterSpec /\ ClusterFairness
-----------------------------------------------------------------------------
(* Properties. *)

Twice == \E i, j \in DOMAIN nodes : i # j /\ nodes[i] = nodes[j]

Dead == {w \in Worker : wpc[w] = "dead"}

\* What the client at place i holds when it hosts the graphs gs.
Rows(i, gs) == {<<g, GetRunnerSupportedDevicesForNode(i + 1)>> : g \in gs}

\* Between two calls, however the calls of several graphs and the registrations
\* of workers were interleaved, every live worker hosts exactly the graphs of
\* mGraphIdSet, each with the devices of its own place, and has been told of the
\* whole cluster.  (MainNode::CreateGraph hands client i the slice i + 1 of what
\* was computed before it took the mutex.)
GraphsHosted ==
    main = "up" /\ holder = NoGraph /\ ~Twice =>
        \A i \in DOMAIN nodes : nodes[i] \notin Dead =>
            /\ runners[nodes[i]] = Rows(i, graphIds)
            /\ graphIds # {} => installed[nodes[i]] = NodeSize

\* Its nodes share out the devices of a graph: those after the main node's are
\* each on one worker.
GraphsWhole ==
    /\ GraphsHosted
    /\ main = "up" /\ holder = NoGraph /\ ~Twice /\ Dead = {} =>
         \A g \in graphIds : \A d \in MainGpus .. Counter(GpuCount)[NodeSize] - 1 :
            \E i \in DOMAIN nodes : \A j \in DOMAIN nodes :
                (\E r \in runners[nodes[j]] : r[1] = g /\ \E p \in r[2] : p[1] = d) <=> i = j

\* The assertions and failing RPCs end the main node only when a worker has died
\* or is registered twice, or a call came at a time the node is not made for:
\* never because of how graphs are created, destroyed or dropped by their threads.
AbortsNeedAFault == main = "aborted" => untimely \/ Dead # {} \/ Twice

\* Every CreateGraph and DestroyGraph returns or ends the process, although the
\* thread waits with the mutex held: a worker that died, or whose processes never
\* start, does not keep it for ever (worker_node_interface.cc's deadlines).
CallsReturn == \A g \in Graph : pc[g] \in InCall ~> pc[g] \notin InCall \/ main = "aborted"

\* When the main node stops, the workers it knows end, those included that have
\* not yet come to wait for the signal when it arrives (worker_node.cc:82-96).
WorkersReleased ==
    \A w \in Worker :
        main = "stopping" /\ w \in Range(SubSeq(nodes, 1, toSignal))
            ~> wpc[w] \in {"exited", "dead"} \/ main = "aborted"
=============================================================================
