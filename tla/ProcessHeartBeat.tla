-------------------------- MODULE ProcessHeartBeat --------------------------
(***************************************************************************)
(* The life of the device processes ("workers") and of the main process    *)
(* that watches them: launch over shared memory, start-up handshake,       *)
(* registration, polling in both directions, exit on request, exit when    *)
(* the other side is gone, crashes, and the destruction of the main        *)
(* process's MainProcessHeartBeat.                                         *)
(*                                                                         *)
(* A worker is launched by its parent: the main process itself, or a       *)
(* worker node on another machine (Remote).  An RPC to a live server gets  *)
(* its answer; one to a dead server fails, after its deadline.             *)
(***************************************************************************)
EXTENDS Naturals, FiniteSets

CONSTANTS Worker,
          Remote,       \* workers launched by another node's process
          MaxCrash      \* bound: crashes of workers and of the main process

ASSUME HeartBeatAssumption == Remote \subseteq Worker /\ MaxCrash \in Nat

VARIABLES
    parent,       \* what each worker's launcher is doing with it
    proc,         \* control state of each worker process
    isRuned,      \* SubProcessSync, in shared memory
    exitFlag,     \* SubProcessSync, in shared memory
    workerStop,   \* WorkerProcessHeartBeat::mStopPoll
    workerPoll,   \* PollMainHeartBeatAsyncMain
    main,         \* the main process and its MainProcessHeartBeat
    registered,   \* mWorkerHeartBeatClients
    poll,         \* PollWorkerHeartBeatAsyncMain
    toPoll,       \* workers its loop has still to ask
    stopPoll,     \* MainProcessHeartBeat::mStopPoll
    notices,      \* detached threads that call NotifyStopPoll
    crashes

workerVars == <<proc, isRuned, exitFlag, workerStop, workerPoll>>
mainVars   == <<main, registered, poll, toPoll, stopPoll, notices>>
beatVars   == <<parent, workerVars, mainVars, crashes>>

Ended == {"exited", "failed", "crashed"}

BeatTypeOK ==
    /\ parent \in [Worker -> {"none", "starting", "up", "waiting", "done", "gone"}]
    /\ proc \in [Worker -> {"none", "launched", "started", "running", "leaving", "stopping"} \cup Ended]
    /\ isRuned \subseteq Worker /\ exitFlag \subseteq Worker /\ workerStop \subseteq Worker
    /\ workerPoll \in [Worker -> {"none", "running", "done"}]
    /\ main \in {"alive", "destroying", "clearing", "destroyed", "exited", "aborted", "crashed"}
    /\ registered \subseteq Worker
    /\ poll \in {"wait", "scan", "alarm", "notified", "done"}
    /\ toPoll \subseteq Worker
    /\ stopPoll \in BOOLEAN
    /\ notices \subseteq Worker
    /\ crashes \in 0..MaxCrash

BeatInit ==
    /\ parent = [w \in Worker |-> "none"]
    /\ proc = [w \in Worker |-> "none"]
    /\ isRuned = {} /\ exitFlag = {} /\ workerStop = {}
    /\ workerPoll = [w \in Worker |-> "none"]
    /\ main = "alive"
    /\ registered = {}
    /\ poll = "wait" /\ toPoll = {} /\ stopPoll = FALSE
    /\ notices = {}
    /\ crashes = 0

MainGone       == main \in {"exited", "aborted", "crashed"}
MainServerUp   == main \in {"alive", "destroying", "clearing"}
\* mWorkerHeartBeatServer lives as long as the WorkerProcessHeartBeat.
WorkerServerUp(w) == proc[w] \in {"running", "leaving", "stopping"}
\* The poll thread holds mMutex during the whole loop over the clients.
MutexFree      == poll # "scan"
LauncherUp(w)  == w \in Remote \/ ~MainGone

Set(f, w, value) == [f EXCEPT ![w] = value]

-----------------------------------------------------------------------------
(* RemoteRunnerInProcess and SubProcess, in the launcher *)

Launch(w) ==
    /\ parent[w] = "none" /\ main = "alive"
    /\ parent' = Set(parent, w, "starting")
    /\ proc' = Set(proc, w, "launched")
    /\ UNCHANGED <<isRuned, exitFlag, workerStop, workerPoll, mainVars, crashes>>

WaitProcessStarted(w) ==
    /\ parent[w] = "starting" /\ LauncherUp(w)
    /\ w \in isRuned
    /\ parent' = Set(parent, w, "up")
    /\ UNCHANGED <<workerVars, mainVars, crashes>>

NotifyExit(w) ==
    /\ parent[w] = "up" /\ LauncherUp(w)
    /\ parent' = Set(parent, w, "waiting")
    /\ exitFlag' = exitFlag \cup {w}
    /\ UNCHANGED <<proc, isRuned, workerStop, workerPoll, mainVars, crashes>>

\* ~SubProcess: wait for the process, assert that its exit code is 0.
Reap(w) ==
    /\ parent[w] = "waiting" /\ LauncherUp(w)
    /\ proc[w] \in Ended
    /\ parent' = Set(parent, w, IF proc[w] = "exited" THEN "done" ELSE "gone")
    /\ main' = IF proc[w] # "exited" /\ w \notin Remote THEN "aborted" ELSE main
    /\ UNCHANGED <<workerVars, registered, poll, toPoll, stopPoll, notices, crashes>>

-----------------------------------------------------------------------------
(* BackgroundProcessExecMain and WorkerProcessHeartBeat, in the worker *)

NotifyProcessStarted(w) ==
    /\ proc[w] = "launched"
    /\ proc' = Set(proc, w, "started")
    /\ isRuned' = isRuned \cup {w}
    /\ UNCHANGED <<parent, exitFlag, workerStop, workerPoll, mainVars, crashes>>

Register(w) ==
    /\ proc[w] = "started"
    /\ main \in {"alive", "destroying"} /\ MutexFree
    /\ registered' = registered \cup {w}
    /\ proc' = Set(proc, w, "running")
    /\ workerPoll' = Set(workerPoll, w, "running")
    /\ UNCHANGED <<parent, isRuned, exitFlag, workerStop, main, poll, toPoll, stopPoll, notices, crashes>>

\* "Register WorkerProcessHeartBeat to main process failed": return 1.
RegisterFails(w) ==
    /\ proc[w] = "started" /\ ~MainServerUp
    /\ proc' = Set(proc, w, "failed")
    /\ UNCHANGED <<parent, isRuned, exitFlag, workerStop, workerPoll, mainVars, crashes>>

WaitForExit(w) ==
    /\ proc[w] = "running" /\ w \in exitFlag
    /\ proc' = Set(proc, w, "leaving")
    /\ UNCHANGED <<parent, isRuned, exitFlag, workerStop, workerPoll, mainVars, crashes>>

\* Mutant of Unregister: the worker's server goes down first.
UnregisterLast(w) ==
    /\ proc[w] = "leaving" /\ main \in {"alive", "destroying"}
    /\ \/ w \notin workerStop /\ workerStop' = workerStop \cup {w} /\ UNCHANGED <<proc, registered>>
       \/ w \in workerStop /\ workerPoll[w] = "done"
          /\ proc' = Set(proc, w, "exited") /\ UNCHANGED <<workerStop, registered>>
    /\ UNCHANGED <<parent, isRuned, exitFlag, workerPoll, main, poll, toPoll, stopPoll, notices, crashes>>

\* ~WorkerProcessHeartBeat calls UnregisterWorker before anything else.
Unregister(w) ==
    /\ proc[w] = "leaving"
    /\ main \in {"alive", "destroying"} /\ MutexFree
    /\ proc' = Set(proc, w, "stopping")
    /\ registered' = registered \ {w}
    /\ workerStop' = workerStop \cup {w}
    /\ UNCHANGED <<parent, isRuned, exitFlag, workerPoll, main, poll, toPoll, stopPoll, notices, crashes>>

\* Mutant of UnregisterFails: the worker insists on an answer.
UnregisterInsists(w) ==
    /\ proc[w] = "leaving" /\ ~MainServerUp
    /\ UNCHANGED beatVars

\* The answer of UnregisterWorker is not looked at.
UnregisterFails(w) ==
    /\ proc[w] = "leaving" /\ ~MainServerUp
    /\ proc' = Set(proc, w, "stopping")
    /\ workerStop' = workerStop \cup {w}
    /\ UNCHANGED <<parent, isRuned, exitFlag, workerPoll, mainVars, crashes>>

\* Either RPC while the map of clients is destroyed and the server is not:
\* the handler works on a dead map, and aborts the process or gets away.
CallDuringClearing(w) ==
    /\ main = "clearing"
    /\ main' \in {"clearing", "aborted"}
    /\ \/ /\ proc[w] = "started"
          /\ proc' = Set(proc, w, IF main' = "aborted" THEN "failed" ELSE "running")
          /\ workerPoll' = Set(workerPoll, w, IF main' = "aborted" THEN "none" ELSE "running")
          /\ UNCHANGED workerStop
       \/ /\ proc[w] = "leaving"
          /\ proc' = Set(proc, w, "stopping")
          /\ workerStop' = workerStop \cup {w}
          /\ UNCHANGED workerPoll
    /\ UNCHANGED <<parent, isRuned, exitFlag, registered, poll, toPoll, stopPoll, notices, crashes>>

\* Mutant of PollMain: only the notification of the main process counts.
PollMainTrusting(w) ==
    /\ workerPoll[w] = "running" /\ proc[w] \notin Ended
    /\ w \in workerStop
    /\ workerPoll' = Set(workerPoll, w, "done")
    /\ exitFlag' = exitFlag \cup {w}
    /\ UNCHANGED <<parent, proc, isRuned, workerStop, mainVars, crashes>>

\* PollMainHeartBeatAsyncMain: told to stop, or no beat; mOnExit in any case.
PollMain(w) ==
    /\ workerPoll[w] = "running" /\ proc[w] \notin Ended
    /\ w \in workerStop \/ ~MainServerUp
    /\ workerPoll' = Set(workerPoll, w, "done")
    /\ exitFlag' = exitFlag \cup {w}
    /\ UNCHANGED <<parent, proc, isRuned, workerStop, mainVars, crashes>>

\* The poll thread is joined, the server is shut down, the process returns 0.
Exit(w) ==
    /\ proc[w] = "stopping" /\ workerPoll[w] = "done"
    /\ proc' = Set(proc, w, "exited")
    /\ UNCHANGED <<parent, isRuned, exitFlag, workerStop, workerPoll, mainVars, crashes>>

CrashWorker(w) ==
    /\ crashes < MaxCrash
    /\ proc[w] \notin Ended \cup {"none"}
    /\ crashes' = crashes + 1
    /\ proc' = Set(proc, w, "crashed")
    /\ UNCHANGED <<parent, isRuned, exitFlag, workerStop, workerPoll, mainVars>>

-----------------------------------------------------------------------------
(* PollWorkerHeartBeatAsyncMain *)

PollBegin ==
    /\ poll = "wait" /\ ~stopPoll /\ ~MainGone
    /\ registered # {}
    /\ poll' = "scan"
    /\ toPoll' = registered
    /\ UNCHANGED <<parent, workerVars, main, registered, stopPoll, notices, crashes>>

\* Mutant of PollWorker: one that does not answer is skipped.
PollWorkerForgiving(w) ==
    /\ poll = "scan" /\ w \in toPoll /\ ~MainGone
    /\ toPoll' = toPoll \ {w}
    /\ UNCHANGED <<parent, workerVars, main, registered, poll, stopPoll, notices, crashes>>

PollWorker(w) ==
    /\ poll = "scan" /\ w \in toPoll /\ ~MainGone
    /\ \/ WorkerServerUp(w) /\ toPoll' = toPoll \ {w} /\ UNCHANGED poll
       \/ ~WorkerServerUp(w) /\ poll' = "alarm" /\ toPoll' = {}
    /\ UNCHANGED <<parent, workerVars, main, registered, stopPoll, notices, crashes>>

PollEnd ==
    /\ poll = "scan" /\ toPoll = {} /\ ~MainGone
    /\ poll' = "wait"
    /\ UNCHANGED <<parent, workerVars, main, registered, toPoll, stopPoll, notices, crashes>>

\* StopWorkerPoll: one detached thread per client.
Alarm ==
    /\ poll = "alarm" /\ ~MainGone
    /\ notices' = registered
    /\ poll' = IF stopPoll THEN "done" ELSE "notified"
    /\ UNCHANGED <<parent, workerVars, main, registered, toPoll, stopPoll, crashes>>

AbortMain ==
    /\ poll = "notified" /\ ~MainGone
    /\ main' = "aborted"
    /\ UNCHANGED <<parent, workerVars, registered, poll, toPoll, stopPoll, notices, crashes>>

PollStops ==
    /\ poll = "wait" /\ stopPoll /\ ~MainGone
    /\ notices' = registered
    /\ poll' = "done"
    /\ UNCHANGED <<parent, workerVars, main, registered, toPoll, stopPoll, crashes>>

Deliver(w) ==
    /\ w \in notices /\ ~MainGone
    /\ notices' = notices \ {w}
    /\ workerStop' = IF WorkerServerUp(w) THEN workerStop \cup {w} ELSE workerStop
    /\ UNCHANGED <<parent, proc, isRuned, exitFlag, workerPoll, main, registered, poll, toPoll, stopPoll, crashes>>

-----------------------------------------------------------------------------
(* The end of the main process *)

\* ~MainProcessHeartBeat, when the main process has no workers of its own.
DestroyMain ==
    /\ main = "alive"
    /\ \A w \in Worker \ Remote : parent[w] \in {"none", "done"}
    /\ main' = "destroying"
    /\ stopPoll' = TRUE
    /\ UNCHANGED <<parent, workerVars, registered, poll, toPoll, notices, crashes>>

\* The thread is joined, then the members are destroyed, the map first.
JoinPoll ==
    /\ main = "destroying" /\ poll = "done"
    /\ main' = "clearing"
    /\ registered' = {}
    /\ UNCHANGED <<parent, workerVars, poll, toPoll, stopPoll, notices, crashes>>

ShutdownServer ==
    /\ main = "clearing"
    /\ main' = "destroyed"
    /\ UNCHANGED <<parent, workerVars, registered, poll, toPoll, stopPoll, notices, crashes>>

ExitMain ==
    /\ main = "destroyed"
    /\ main' = "exited"
    /\ UNCHANGED <<parent, workerVars, registered, poll, toPoll, stopPoll, notices, crashes>>

CrashMain ==
    /\ crashes < MaxCrash /\ ~MainGone
    /\ crashes' = crashes + 1
    /\ main' = "crashed"
    /\ UNCHANGED <<parent, workerVars, registered, poll, toPoll, stopPoll, notices>>

-----------------------------------------------------------------------------
LauncherStep(w) == WaitProcessStarted(w) \/ Reap(w)

WorkerStep(w) ==
    \/ NotifyProcessStarted(w) \/ RegisterFails(w)
    \/ WaitForExit(w) \/ UnregisterFails(w) \/ CallDuringClearing(w) \/ Exit(w)

\* The handlers of the two RPCs compete with the poll thread for mMutex.
MutexStep(w) == Register(w) \/ Unregister(w)

PollStep ==
    \/ PollBegin \/ (\E w \in Worker : PollWorker(w)) \/ PollEnd
    \/ Alarm \/ AbortMain \/ PollStops

DestroyStep == JoinPoll \/ ShutdownServer \/ ExitMain

\* Nothing left but idle processes, or none at all.
Quiet ==
    /\ \A w \in Worker : proc[w] \in Ended \cup {"none", "running"}
    /\ poll \in {"wait", "done"} \/ MainGone
    /\ UNCHANGED beatVars

BeatNext ==
    \/ \E w \in Worker :
          \/ Launch(w) \/ LauncherStep(w) \/ NotifyExit(w)
          \/ WorkerStep(w) \/ MutexStep(w) \/ PollMain(w)
          \/ CrashWorker(w) \/ Deliver(w)
    \/ PollStep \/ DestroyMain \/ DestroyStep \/ CrashMain
    \/ Quiet

\* Threads that can run do; the poll thread sleeps up to four seconds between
\* two scans without mMutex, so that a handler gets it in the end.  Nobody has
\* to launch, exit, destroy or crash, and no notice has to be delivered.
BeatSpec ==
    /\ BeatInit /\ [][BeatNext]_beatVars
    /\ WF_beatVars(PollStep) /\ WF_beatVars(DestroyStep)
    /\ \A w \in Worker :
          /\ WF_beatVars(LauncherStep(w)) /\ WF_beatVars(WorkerStep(w)) /\ WF_beatVars(PollMain(w))
          /\ SF_beatVars(MutexStep(w))

-----------------------------------------------------------------------------
(* Properties *)

\* The main process gives up only when a worker has really crashed.  A worker
\* that is told to exit, or that leaves because it was told to stop polling, is
\* out of the map before its server goes down, so that the poll does not miss
\* it (process_heart_beat.cc:55-90, 122-128); and it is still in the map when
\* it unregisters, where its absence would be fatal (lines 44-53).
NoFalseAlarm ==
    /\ poll = "alarm" => \E w \in registered : proc[w] = "crashed"
    /\ \A w \in Worker :
          proc[w] = "leaving" /\ main \in {"alive", "destroying"} => w \in registered

\* A crash of a registered worker ends the main process, unless that one has
\* already stopped polling ("Worker process crashes: the whole cluster exits").
CrashDetected ==
    \A w \in Worker :
        proc[w] = "crashed" /\ w \in registered ~> MainGone \/ poll = "done"

\* No worker outlives the main process, whatever it was doing when the main
\* process went away, and although the notices may never be sent.
OrphansExit == MainGone ~> \A w \in Worker : proc[w] \in Ended \cup {"none"}

\* Destroying a runner returns: the worker leaves, however the exit request
\* races with its start, its registration and the polls.
RunnerDestructionReturns ==
    \A w \in Worker : parent[w] = "waiting" ~> parent[w] # "waiting" \/ ~LauncherUp(w)

=============================================================================
