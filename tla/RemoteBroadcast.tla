--------------------------- MODULE RemoteBroadcast ---------------------------
(***************************************************************************)
(* One graph with a process per GPU: its creation over the main node and   *)
(* the worker nodes, the broadcast of operators from the executor to the   *)
(* remote runners, Sync, and its destruction.                              *)
(*                                                                         *)
(* Operators are numbered in the order the API creates them.  A batch is   *)
(* an interval of operators and every runner executes every batch (what a  *)
(* batch does to blobs is EagerGraph's subject).  An operator is local or  *)
(* collective: no kernel of a collective ends before all have started.     *)
(* Launch and heart beat are ProcessHeartBeat's, the collective itself is  *)
(* SameDeviceCollectives'.                                                 *)
(***************************************************************************)
EXTENDS Integers, Sequences

CONSTANTS Runner,        \* remote runners, one process per GPU
          LocalRunner,   \* those the main node starts itself
          MaxOps,        \* bound: operators and synchronisations
          Garbage        \* what else a subscriber may read as the id

ASSUME BroadcastAssumption ==
    /\ LocalRunner \subseteq Runner
    /\ MaxOps \in Nat
    /\ Garbage \notin Nat

VARIABLES
    api,        \* where the API thread is
    issued,     \* kind of each operator created so far
    queue,      \* operators taken from the message queue so far
    executor,   \* EagerGraphExecutor::AsyncMain
    bound,      \* are PUB and PULL bound?
    sent,       \* messages sent on PUB, in order
    unready,    \* expectedDevices of WaitAllRunnerReady
    ready,      \* runners whose notification the PULL socket has received
    proc,       \* main thread of each runner's process
    started,    \* SubProcessSync::isRuned
    exitFlag,   \* SubProcessSync::exitFlag
    loop,       \* RemoteRunner::AsyncMain
    stop,       \* RemoteRunner::mGetDestroySignal
    subscribed, \* runners whose subscription has reached the publisher
    inbox,      \* messages on their way to each runner
    messageId,  \* RemoteRunnerSubscriber::messageId, + 1
    launched,   \* operators whose kernels each runner has launched, in order
    done,       \* how many of them have run
    inKernel,   \* runners whose stream is running a kernel
    aborted     \* a process has called DLogFatal

mainVars == <<api, issued, queue, executor, bound, sent, unready>>
procVars == <<proc, started, exitFlag>>
loopVars == <<loop, stop, messageId>>
runVars  == <<launched, done, inKernel>>
wireVars == <<ready, subscribed, inbox>>
vars     == <<mainVars, procVars, loopVars, runVars, wireVars, aborted>>

Remote  == Runner \ LocalRunner
Kind    == {"local", "collective"}

\* The operators of a message are those after `from' up to `to'.
Message == [id : Nat \cup {Garbage}, type : {"execute", "destroy"}, from : Nat, to : Nat]

BroadcastTypeOK ==
    /\ api \in {"new", "starting", "creating", "waiting", "running", "syncing",
                "destroyingRemote", "stopping", "destroyingLocal", "destroyed"}
    /\ issued \in Seq(Kind) /\ queue \in Nat
    /\ executor \in {"running", "stopped"}
    /\ bound \in BOOLEAN
    /\ sent \in Seq(Message)
    /\ unready \subseteq Runner /\ ready \subseteq Runner
    /\ proc \in [Runner -> {"none", "connecting", "up", "joinLoop", "joinStream", "exited"}]
    /\ started \subseteq Runner /\ exitFlag \subseteq Runner
    /\ loop \in [Runner -> {"none", "notify", "poll", "ended"}]
    /\ stop \subseteq Runner /\ subscribed \subseteq Runner /\ inKernel \subseteq Runner
    /\ inbox \in [Runner -> Seq(Message)]
    /\ messageId \in [Runner -> Nat]
    /\ launched \in [Runner -> Seq(Nat)]
    /\ done \in [Runner -> Nat]
    /\ aborted \in BOOLEAN

BroadcastInit ==
    /\ api = "new" /\ issued = <<>> /\ queue = 0
    /\ executor = "running" /\ bound = FALSE /\ sent = <<>>
    /\ unready = {} /\ ready = {}
    /\ proc = [r \in Runner |-> "none"]
    /\ started = {} /\ exitFlag = {} /\ stop = {} /\ subscribed = {} /\ inKernel = {}
    /\ loop = [r \in Runner |-> "none"]
    /\ inbox = [r \in Runner |-> <<>>]
    /\ messageId = [r \in Runner |-> 0]
    /\ launched = [r \in Runner |-> <<>>]
    /\ done = [r \in Runner |-> 0]
    /\ aborted = FALSE

-----------------------------------------------------------------------------
(* Graph::EnsureInitialized, in the API thread *)

\* PerDeviceProcessNodeRunner's constructor starts a process per device, all at
\* once, and returns when each has started.
StartProcesses(rs) == proc' = [r \in Runner |-> IF r \in rs THEN "connecting" ELSE proc[r]]
WaitSubProcessStarted(rs) == rs \subseteq started

\* Mutant of BuildExecutor: the runners are started before PUB and PULL are bound.
BuildExecutorUnbound ==
    /\ api = "new"
    /\ api' = "starting"
    /\ StartProcesses(LocalRunner)
    /\ UNCHANGED <<issued, queue, executor, bound, sent, unready, started, exitFlag,
                   loopVars, runVars, wireVars, aborted>>

\* EagerGraphExecutor binds PUB and PULL, then starts the local processes.
BuildExecutor ==
    /\ api = "new"
    /\ api' = "starting"
    /\ bound' = TRUE
    /\ StartProcesses(LocalRunner)
    /\ UNCHANGED <<issued, queue, executor, sent, unready, started, exitFlag,
                   loopVars, runVars, wireVars, aborted>>

\* Every local process has started: MainNode::CreateGraph asks the worker
\* nodes, all at once, to start theirs.
CreateGraph ==
    /\ api = "starting"
    /\ WaitSubProcessStarted(LocalRunner)
    /\ api' = "creating"
    /\ StartProcesses(Remote)
    /\ UNCHANGED <<issued, queue, executor, bound, sent, unready, started, exitFlag,
                   loopVars, runVars, wireVars, aborted>>

\* Mutant of CreateGraphReturns: WaitAllRunnerReady expects the local devices only.
CreateGraphReturnsLocal ==
    /\ api = "creating"
    /\ WaitSubProcessStarted(Runner)
    /\ api' = "waiting"
    /\ unready' = LocalRunner
    /\ UNCHANGED <<issued, queue, executor, bound, sent,
                   procVars, loopVars, runVars, wireVars, aborted>>

CreateGraphReturns ==
    /\ api = "creating"
    /\ WaitSubProcessStarted(Runner)
    /\ api' = "waiting"
    /\ unready' = Runner
    /\ UNCHANGED <<issued, queue, executor, bound, sent,
                   procVars, loopVars, runVars, wireVars, aborted>>

PullReady(r) ==
    /\ api = "waiting" /\ r \in ready
    /\ ready' = ready \ {r}
    /\ unready' = unready \ {r}
    /\ aborted' = (r \notin unready)
    /\ UNCHANGED <<api, issued, queue, executor, bound, sent,
                   procVars, loopVars, runVars, subscribed, inbox>>

AllReady ==
    /\ api = "waiting" /\ unready = {}
    /\ api' = "running"
    /\ UNCHANGED <<issued, queue, executor, bound, sent, unready,
                   procVars, loopVars, runVars, wireVars, aborted>>

-----------------------------------------------------------------------------
(* Operators, synchronisation and destruction, in the API thread *)

AddOperator(kind) ==
    /\ api = "running" /\ Len(issued) < MaxOps
    /\ issued' = Append(issued, kind)
    /\ UNCHANGED <<api, queue, executor, bound, sent, unready,
                   procVars, loopVars, runVars, wireVars, aborted>>

\* Graph::Sync: an operator with a promise for every device.
Sync ==
    /\ api = "running" /\ Len(issued) < MaxOps
    /\ issued' = Append(issued, "local")
    /\ api' = "syncing"
    /\ UNCHANGED <<queue, executor, bound, sent, unready,
                   procVars, loopVars, runVars, wireVars, aborted>>

\* The sync kernel of r, its last one, has set its promise.
HasValue(r) == done[r] = Len(issued)

\* VoidFutureCollect::Get waits for the futures one by one; none is reset.
AllDone == \A r \in Runner : HasValue(r)

SyncReturns ==
    /\ api = "syncing" /\ AllDone
    /\ api' = "running"
    /\ UNCHANGED <<issued, queue, executor, bound, sent, unready,
                   procVars, loopVars, runVars, wireVars, aborted>>

\* MainNode::DestroyGraph: the worker nodes destroy their runners first.
Destroy ==
    /\ api = "running"
    /\ api' = "destroyingRemote"
    /\ exitFlag' = exitFlag \cup Remote
    /\ UNCHANGED <<issued, queue, executor, bound, sent, unready, proc, started,
                   loopVars, runVars, wireVars, aborted>>

\* ~EagerGraphExecutor, as soon as every worker node has answered.
StopExecutor ==
    /\ api = "destroyingRemote"
    /\ \A r \in Remote : proc[r] = "exited"
    /\ api' = "stopping"
    /\ UNCHANGED <<issued, queue, executor, bound, sent, unready,
                   procVars, loopVars, runVars, wireVars, aborted>>

\* The id is a view of a temporary string which is gone when the message is
\* sent: its bytes may or may not still be there.
IdFrame == {Len(sent), Garbage}

\* The operators after those already sent, up to n (none for "destroy").
SendMultipart(type, n) ==
    \E id \in IdFrame :
        LET message == [id |-> id, type |-> type, from |-> queue, to |-> n]
        IN  /\ sent' = Append(sent, message)
            /\ inbox' = [r \in Runner |-> IF r \in subscribed THEN Append(inbox[r], message)
                                                             ELSE inbox[r]]
            /\ UNCHANGED <<ready, subscribed>>

\* Mutant of DestroyRunners: the local processes get the message and no exit flag.
DestroyRunnersBroadcastOnly ==
    /\ api = "stopping" /\ executor = "stopped"
    /\ SendMultipart("destroy", queue)
    /\ api' = "destroyingLocal"
    /\ UNCHANGED <<issued, queue, executor, bound, unready, procVars,
                   loopVars, runVars, aborted>>

\* SendDestroy, then ~PerDeviceProcessNodeRunner.
DestroyRunners ==
    /\ api = "stopping" /\ executor = "stopped"
    /\ SendMultipart("destroy", queue)
    /\ api' = "destroyingLocal"
    /\ exitFlag' = exitFlag \cup LocalRunner
    /\ UNCHANGED <<issued, queue, executor, bound, unready, proc, started,
                   loopVars, runVars, aborted>>

\* ~RemoteRunnerPublisher sends "destroy" again, to nobody.
DestroyReturns ==
    /\ api = "destroyingLocal"
    /\ \A r \in LocalRunner : proc[r] = "exited"
    /\ SendMultipart("destroy", queue)
    /\ api' = "destroyed"
    /\ bound' = FALSE
    /\ UNCHANGED <<issued, queue, executor, unready, procVars, loopVars, runVars, aborted>>

-----------------------------------------------------------------------------
(* EagerGraphExecutor::AsyncMain *)

\* Mutant of ExecuteBatch: the operators the queue still holds are skipped.
ExecuteBatchSkips(n) ==
    /\ executor = "running" /\ queue < n /\ n <= Len(issued)
    /\ queue' = Len(issued)
    /\ SendMultipart("execute", n)
    /\ UNCHANGED <<api, issued, executor, bound, unready, procVars, loopVars, runVars, aborted>>

\* A batch of the operators up to n is broadcast.
ExecuteBatch(n) ==
    /\ executor = "running" /\ queue < n /\ n <= Len(issued)
    /\ queue' = n
    /\ SendMultipart("execute", n)
    /\ UNCHANGED <<api, issued, executor, bound, unready, procVars, loopVars, runVars, aborted>>

\* The destroy signal ends the loop, whatever the queue holds.
ExecutorEnds ==
    /\ executor = "running" /\ api = "stopping"
    /\ executor' = "stopped"
    /\ UNCHANGED <<api, issued, queue, bound, sent, unready,
                   procVars, loopVars, runVars, wireVars, aborted>>

-----------------------------------------------------------------------------
(* A runner's process: BackgroundProcessExecMain and RemoteRunner *)

\* The SUB socket's CONNECTED event ends the constructor's wait, whether the
\* publisher has processed the subscription or not.
Connect(r) ==
    /\ proc[r] = "connecting" /\ bound
    /\ proc' = [proc EXCEPT ![r] = "up"]
    /\ loop' = [loop EXCEPT ![r] = "notify"]
    /\ \/ subscribed' = subscribed \cup {r}
       \/ UNCHANGED subscribed
    /\ UNCHANGED <<mainVars, started, exitFlag, stop, messageId, runVars, ready, inbox, aborted>>

\* The publisher processes the subscription.
Subscribe(r) ==
    /\ proc[r] # "none" /\ loop[r] # "none" /\ r \notin subscribed
    /\ subscribed' = subscribed \cup {r}
    /\ UNCHANGED <<mainVars, procVars, loopVars, runVars, ready, inbox, aborted>>

NotifyProcessStarted(r) ==
    /\ proc[r] = "up" /\ r \notin started
    /\ started' = started \cup {r}
    /\ UNCHANGED <<mainVars, proc, exitFlag, loopVars, runVars, wireVars, aborted>>

NotifyDevicesReady(r) ==
    /\ loop[r] = "notify"
    /\ loop' = [loop EXCEPT ![r] = "poll"]
    /\ ready' = ready \cup {r}
    /\ UNCHANGED <<mainVars, procVars, stop, messageId, runVars, subscribed, inbox, aborted>>

Interval(message) == [i \in 1..(message.to - message.from) |-> message.from + i]

\* ExecuteSerialization and NaiveRunner::Execute: a kernel for each operator.
Execute(r, message) ==
    launched' = [launched EXCEPT ![r] = @ \o Interval(message)]

\* Mutant of Get: the message id is not checked.
GetUnchecked(r) ==
    /\ loop[r] = "poll" /\ r \notin stop /\ inbox[r] # <<>>
    /\ inbox' = [inbox EXCEPT ![r] = Tail(@)]
    /\ messageId' = [messageId EXCEPT ![r] = @ + 1]
    /\ LET message == Head(inbox[r])
       IN  \/ message.type = "execute" /\ Execute(r, message) /\ UNCHANGED stop
           \/ message.type = "destroy" /\ stop' = stop \cup {r} /\ UNCHANGED launched
    /\ UNCHANGED <<mainVars, procVars, loop, done, inKernel, ready, subscribed, aborted>>

Get(r) ==
    /\ loop[r] = "poll" /\ r \notin stop /\ inbox[r] # <<>>
    /\ LET message == Head(inbox[r])
       IN  \/ /\ message.id # messageId[r]
              /\ aborted' = TRUE                 \* DLogFatal
              /\ UNCHANGED <<inbox, messageId, launched, stop>>
           \/ /\ message.id = messageId[r]
              /\ inbox' = [inbox EXCEPT ![r] = Tail(@)]
              /\ messageId' = [messageId EXCEPT ![r] = @ + 1]
              /\ \/ message.type = "execute" /\ Execute(r, message) /\ UNCHANGED stop
                 \/ message.type = "destroy" /\ stop' = stop \cup {r} /\ UNCHANGED launched
              /\ UNCHANGED aborted
    /\ UNCHANGED <<mainVars, procVars, loop, done, inKernel, ready, subscribed>>

LoopEnds(r) ==
    /\ loop[r] = "poll" /\ r \in stop
    /\ loop' = [loop EXCEPT ![r] = "ended"]
    /\ UNCHANGED <<mainVars, procVars, stop, messageId, runVars, wireVars, aborted>>

\* WaitForExit returns and ~RemoteRunner sets mGetDestroySignal.
WaitForExit(r) ==
    /\ proc[r] = "up" /\ r \in started /\ r \in exitFlag
    /\ proc' = [proc EXCEPT ![r] = "joinLoop"]
    /\ stop' = stop \cup {r}
    /\ UNCHANGED <<mainVars, started, exitFlag, loop, messageId, runVars, wireVars, aborted>>

\* The loop's thread is joined; the stream gets its destroy signal.
JoinLoop(r) ==
    /\ proc[r] = "joinLoop" /\ loop[r] = "ended"
    /\ proc' = [proc EXCEPT ![r] = "joinStream"]
    /\ UNCHANGED <<mainVars, started, exitFlag, loopVars, runVars, wireVars, aborted>>

\* The stream ends between two kernels; those it has not started are dropped.
JoinStream(r) ==
    /\ proc[r] = "joinStream" /\ r \notin inKernel
    /\ proc' = [proc EXCEPT ![r] = "exited"]
    /\ UNCHANGED <<mainVars, started, exitFlag, loopVars, runVars, wireVars, aborted>>

-----------------------------------------------------------------------------
(* The kernel stream of a runner *)

StartKernel(r) ==
    /\ proc[r] \in {"up", "joinLoop"} /\ r \notin inKernel
    /\ done[r] < Len(launched[r])
    /\ inKernel' = inKernel \cup {r}
    /\ UNCHANGED <<mainVars, procVars, loopVars, launched, done, wireVars, aborted>>

\* Has r started (or finished) its kernel of the operator op?
Arrived(r, op) ==
    \E i \in 1..Len(launched[r]) :
        /\ launched[r][i] = op
        /\ i <= done[r] \/ (i = done[r] + 1 /\ r \in inKernel)

FinishKernel(r) ==
    /\ r \in inKernel
    /\ LET op == launched[r][done[r] + 1]
       IN  issued[op] = "local" \/ \A q \in Runner : Arrived(q, op)
    /\ inKernel' = inKernel \ {r}
    /\ done' = [done EXCEPT ![r] = @ + 1]
    /\ UNCHANGED <<mainVars, procVars, loopVars, launched, wireVars, aborted>>

-----------------------------------------------------------------------------
RunnerStep(r) ==
    \/ Connect(r) \/ Subscribe(r) \/ NotifyProcessStarted(r) \/ NotifyDevicesReady(r)
    \/ Get(r) \/ LoopEnds(r) \/ WaitForExit(r) \/ JoinLoop(r) \/ JoinStream(r)
    \/ StartKernel(r) \/ FinishKernel(r)

\* What the API thread does inside a call.
InCall ==
    \/ CreateGraph \/ CreateGraphReturns \/ AllReady \/ (\E r \in Runner : PullReady(r))
    \/ SyncReturns \/ StopExecutor \/ DestroyRunners \/ DestroyReturns

ExecutorStep == ExecutorEnds \/ (\E n \in 1..MaxOps : ExecuteBatch(n))

\* The calls themselves.
Call == BuildExecutor \/ Sync \/ Destroy \/ (\E kind \in Kind : AddOperator(kind))

\* A construction that waits for a process which never starts, a graph that is
\* never destroyed, a Sync whose message a runner has missed,
\* a destruction that waits for a collective which cannot complete, and a
\* group of processes that has aborted.
Rest ==
    /\ \/ api \in {"starting", "running", "syncing", "destroyingRemote", "destroyingLocal", "destroyed"}
       \/ aborted
    /\ UNCHANGED vars

BroadcastNext ==
    \/ ~aborted /\ (InCall \/ ExecutorStep \/ Call \/ \E r \in Runner : RunnerStep(r))
    \/ Rest

\* Every thread keeps running; a user need not make another call.
BroadcastFairness ==
    /\ WF_vars(~aborted /\ InCall)
    /\ WF_vars(~aborted /\ ExecutorStep)
    /\ \A r \in Runner :
          /\ WF_vars(~aborted /\ Connect(r))
          /\ WF_vars(~aborted /\ Subscribe(r))
          /\ WF_vars(~aborted /\ (NotifyDevicesReady(r) \/ Get(r) \/ LoopEnds(r)))
          /\ WF_vars(~aborted /\ (NotifyProcessStarted(r) \/ WaitForExit(r)
                                  \/ JoinLoop(r) \/ JoinStream(r)))
          /\ WF_vars(~aborted /\ (StartKernel(r) \/ FinishKernel(r)))

BroadcastSpec == BroadcastInit /\ [][BroadcastNext]_vars /\ BroadcastFairness

-----------------------------------------------------------------------------
(* Properties *)

\* Each runner launches the operators in the order of their creation, from
\* the first one and without a gap, whatever its subscription missed: the id
\* check of RemoteRunnerSubscriber::Get stops it otherwise.
LaunchesInOrder ==
    \A r \in Runner :
        /\ Len(launched[r]) <= queue
        /\ \A i \in 1..Len(launched[r]) : launched[r][i] = i

\* Every message carries its number, which the subscriber checks ("每条消息携带
\* 单调递增的 messageId"): frame 0 of SendMultipart.
SentNumbered == \A i \in 1..Len(sent) : sent[i].id = i - 1

\* Nothing is broadcast before every runner's loop has reported its devices:
\* what EnsureInitialized waits for (WaitAllRunnerReady).
NothingSentBeforeReady ==
    (\E i \in 1..Len(sent) : sent[i].type = "execute")
        => \A r \in Runner : r \in started /\ loop[r] # "none" /\ loop[r] # "notify"

\* EnsureInitialized returns: PUB and PULL are bound before anyone waits for
\* them, and no runner reports ready that WaitAllRunnerReady does not expect.
CreationReturns == (api = "starting") ~> (api = "running")

\* What a runner has taken and what is on its way to it are all that was sent:
\* "deterministically ensures the subscriber won't miss the first published
\* messages" (RemoteRunnerSubscriber) - if its subscription was in time.
NothingMissed == \A r \in Runner : Len(sent) = messageId[r] + Len(inbox[r])

\* The transport did what the code expects of it.
Undisturbed == SentNumbered /\ NothingMissed

\* Graph::Sync returns: every runner gets and runs everything before it.
\* Unless a message was missed or lost its number, that is: it is not sent
\* again, the next id check is fatal, and without a next message Sync hangs.
SyncAlwaysReturns == (api = "syncing") ~> (api = "running" \/ ~Undisturbed)

\* A graph destroyed after a Sync, with nothing created since, is destroyed
\* to the end: Graph::Destroy returns and every runner's process has exited.
SyncedDestroyReturns ==
    (api = "destroyingRemote" /\ AllDone)
        ~> (api = "destroyed" /\ (\A r \in Runner : proc[r] = "exited")) \/ ~Undisturbed

=============================================================================
