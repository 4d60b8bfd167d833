---------------------------- MODULE RuntimeProofs ----------------------------
(***************************************************************************)
(* Proofs about two services that run in the processes of a node beside    *)
(* the graphs: the heart beats between the main process and its workers,   *)
(* for every set of workers and any number of crashes - types, and that    *)
(* the main process raises no false alarm - and a kernel stream, for any   *)
(* number of kernels, callers and calls, on a GPU and on the CPU - types,  *)
(* that the assertion on the flag holds, and that Sync() waits for         *)
(* everything launched before it.                                          *)
(***************************************************************************)
EXTENDS ProcessHeartBeat, KernelStream, TLAPS

-----------------------------------------------------------------------------
(* The heart beats *)

\* The map of clients holds the workers that run, with the exception of those
\* that have died in it; the scan asks members of the map only, and it has ended
\* for good when the map is destroyed.
MapInv ==
    /\ MainServerUp => \A w \in registered : proc[w] \in {"running", "leaving", "crashed"}
    /\ main \in {"alive", "destroying"} =>
          \A w \in Worker : proc[w] \in {"running", "leaving"} => w \in registered
    /\ main = "clearing" => registered = {}
    /\ main \in {"clearing", "destroyed"} => poll = "done"
    /\ poll = "scan" => toPoll \subseteq registered
    /\ poll = "alarm" => \E w \in registered : proc[w] = "crashed"

\* A process is there when it has been launched.
LaunchInv == \A w \in Worker : parent[w] = "none" => proc[w] = "none"

LEMMA BeatTypeStep ==
    ASSUME BeatTypeOK, [BeatNext]_beatVars PROVE BeatTypeOK'
  <1> USE HeartBeatAssumption DEF BeatTypeOK, Ended, Set, workerVars, mainVars
  <1>1. ASSUME NEW w \in Worker, Launch(w) \/ LauncherStep(w) \/ NotifyExit(w) PROVE BeatTypeOK'
    <2>1. CASE Launch(w)
      BY <2>1 DEF Launch
    <2>2. CASE WaitProcessStarted(w)
      BY <2>2 DEF WaitProcessStarted
    <2>3. CASE Reap(w)
      BY <2>3 DEF Reap
    <2>4. CASE NotifyExit(w)
      BY <2>4 DEF NotifyExit
    <2> QED BY <1>1, <2>1, <2>2, <2>3, <2>4 DEF LauncherStep
  <1>2. ASSUME NEW w \in Worker, WorkerStep(w) PROVE BeatTypeOK'
    <2>1. CASE NotifyProcessStarted(w)
      BY <2>1 DEF NotifyProcessStarted
    <2>2. CASE RegisterFails(w)
      BY <2>2 DEF RegisterFails
    <2>3. CASE WaitForExit(w)
      BY <2>3 DEF WaitForExit
    <2>4. CASE UnregisterFails(w)
      BY <2>4 DEF UnregisterFails
    <2>5. CASE CallDuringClearing(w)
      BY <2>5 DEF CallDuringClearing
    <2>6. CASE Exit(w)
      BY <2>6 DEF Exit
    <2> QED BY <1>2, <2>1, <2>2, <2>3, <2>4, <2>5, <2>6 DEF WorkerStep
  <1>3. ASSUME NEW w \in Worker, MutexStep(w) \/ PollMain(w) \/ CrashWorker(w) \/ Deliver(w) PROVE BeatTypeOK'
    <2>1. CASE Register(w)
      BY <2>1 DEF Register
    <2>2. CASE Unregister(w)
      BY <2>2 DEF Unregister
    <2>3. CASE PollMain(w)
      BY <2>3 DEF PollMain
    <2>4. CASE CrashWorker(w)
      BY <2>4 DEF CrashWorker
    <2>5. CASE Deliver(w)
      BY <2>5 DEF Deliver
    <2> QED BY <1>3, <2>1, <2>2, <2>3, <2>4, <2>5 DEF MutexStep
  <1>4. CASE PollStep
    <2>1. CASE PollBegin
      BY <2>1 DEF PollBegin
    <2>2. ASSUME NEW w \in Worker, PollWorker(w) PROVE BeatTypeOK'
      BY <2>2 DEF PollWorker
    <2>3. CASE PollEnd
      BY <2>3 DEF PollEnd
    <2>4. CASE Alarm
      BY <2>4 DEF Alarm
    <2>5. CASE AbortMain
      BY <2>5 DEF AbortMain
    <2>6. CASE PollStops
      BY <2>6 DEF PollStops
    <2> QED BY <1>4, <2>1, <2>2, <2>3, <2>4, <2>5, <2>6 DEF PollStep
  <1>5. CASE DestroyMain \/ DestroyStep \/ CrashMain
    <2>1. CASE DestroyMain
      BY <2>1 DEF DestroyMain
    <2>2. CASE DestroyStep
      BY <2>2 DEF DestroyStep, JoinPoll, ShutdownServer, ExitMain
    <2>3. CASE CrashMain
      BY <2>3 DEF CrashMain
    <2> QED BY <1>5, <2>1, <2>2, <2>3
  <1>6. CASE UNCHANGED beatVars
    BY <1>6 DEF beatVars
  <1> QED BY <1>1, <1>2, <1>3, <1>4, <1>5, <1>6 DEF BeatNext, Quiet

\* Every variable of the heart beats keeps its type.
THEOREM BeatTypes == BeatSpec => []BeatTypeOK
<1>1. BeatInit => BeatTypeOK
  <2>1. BeatInit => crashes \in 0..MaxCrash
    BY HeartBeatAssumption DEF BeatInit
  <2>2. BeatInit => /\ parent \in [Worker -> {"none", "starting", "up", "waiting", "done", "gone"}]
                    /\ proc \in [Worker -> {"none", "launched", "started", "running", "leaving", "stopping"} \cup Ended]
                    /\ workerPoll \in [Worker -> {"none", "running", "done"}]
    BY DEF BeatInit
  <2> QED BY <2>1, <2>2 DEF BeatInit, BeatTypeOK
<1> QED BY <1>1, BeatTypeStep, PTL DEF BeatSpec

LEMMA LaunchStep ==
    ASSUME BeatTypeOK, LaunchInv, [BeatNext]_beatVars PROVE LaunchInv'
  <1> USE DEF Set, workerVars, mainVars
  <1>0. /\ parent \in [Worker -> {"none", "starting", "up", "waiting", "done", "gone"}]
        /\ proc \in [Worker -> {"none", "launched", "started", "running", "leaving", "stopping"} \cup Ended]
    BY DEF BeatTypeOK
  <1>1. CASE UNCHANGED <<parent, proc>>
    BY <1>1 DEF LaunchInv
  <1>2. ASSUME NEW w \in Worker, NEW s, proc[w] # "none", proc' = [proc EXCEPT ![w] = s], parent' = parent
        PROVE  LaunchInv'
    BY <1>0, <1>2 DEF LaunchInv
  <1>3. ASSUME NEW w \in Worker, NEW s, s # "none", parent' = [parent EXCEPT ![w] = s],
               proc' = proc \/ proc' = [proc EXCEPT ![w] = proc'[w]]
        PROVE  LaunchInv'
    BY <1>0, <1>3 DEF LaunchInv
  <1>4. ASSUME NEW w \in Worker, Launch(w) \/ LauncherStep(w) \/ NotifyExit(w) PROVE LaunchInv'
    <2>1. CASE Launch(w)
      BY <1>0, <2>1, <1>3 DEF Launch
    <2>2. CASE WaitProcessStarted(w) \/ NotifyExit(w)
      BY <2>2, <1>3 DEF WaitProcessStarted, NotifyExit
    <2>3. CASE Reap(w)
      BY <2>3, <1>3 DEF Reap
    <2> QED BY <1>4, <2>1, <2>2, <2>3 DEF LauncherStep
  <1>5. ASSUME NEW w \in Worker, WorkerStep(w) \/ MutexStep(w) \/ CrashWorker(w) PROVE LaunchInv'
    <2>1. CASE CallDuringClearing(w)
      BY <2>1, <1>2 DEF CallDuringClearing
    <2>2. CASE CrashWorker(w)
      BY <2>2, <1>2 DEF CrashWorker
    <2>3. CASE MutexStep(w)
      BY <2>3, <1>2 DEF MutexStep, Register, Unregister
    <2>4. CASE WorkerStep(w) /\ ~CallDuringClearing(w)
      BY <2>4, <1>2 DEF WorkerStep, NotifyProcessStarted, RegisterFails, WaitForExit, UnregisterFails, Exit
    <2> QED BY <1>5, <2>1, <2>2, <2>3, <2>4
  <1>6. ASSUME NEW w \in Worker, PollMain(w) \/ Deliver(w) PROVE LaunchInv'
    BY <1>6, <1>1 DEF PollMain, Deliver
  <1>7. CASE PollStep \/ DestroyMain \/ DestroyStep \/ CrashMain
    BY <1>7, <1>1 DEF PollStep, PollBegin, PollWorker, PollEnd, Alarm, AbortMain, PollStops,
                      DestroyMain, DestroyStep, JoinPoll, ShutdownServer, ExitMain, CrashMain
  <1>8. CASE UNCHANGED beatVars
    BY <1>8, <1>1 DEF beatVars
  <1> QED BY <1>4, <1>5, <1>6, <1>7, <1>8 DEF BeatNext, Quiet

LEMMA MapStep ==
    ASSUME BeatTypeOK, LaunchInv, MapInv, [BeatNext]_beatVars PROVE MapInv'
  <1> USE DEF Ended, Set, workerVars, mainVars, MainServerUp, MainGone
  <1>0. /\ registered \subseteq Worker
        /\ proc \in [Worker -> {"none", "launched", "started", "running", "leaving", "stopping"} \cup Ended]
    BY DEF BeatTypeOK
  \* Steps of a worker that leave the map, the poll and the main process alone.
  <1>1. ASSUME NEW w \in Worker, NEW s, proc' = [proc EXCEPT ![w] = s],
               proc[w] \notin {"running", "leaving", "crashed"} => s \notin {"running", "leaving"},
               proc[w] \in {"running", "leaving", "crashed"} /\ MainServerUp =>
                    s \in {"running", "leaving", "crashed"},
               proc[w] = "crashed" => s = "crashed",
               UNCHANGED <<main, registered, poll, toPoll>>
        PROVE  MapInv'
    BY <1>0, <1>1 DEF MapInv
  <1>2. CASE UNCHANGED <<proc, registered, poll, toPoll>>
             /\ (MainServerUp' => MainServerUp) /\ (main' = "clearing" => main = "clearing")
             /\ (main' \in {"alive", "destroying"} => main \in {"alive", "destroying"})
             /\ (main' = "destroyed" => main = "destroyed" \/ main = "clearing")
    BY <1>2 DEF MapInv
  <1>3. ASSUME NEW w \in Worker, Launch(w) \/ LauncherStep(w) \/ NotifyExit(w) PROVE MapInv'
    <2>1. CASE Launch(w)
      BY <2>1, <1>1 DEF Launch, LaunchInv
    <2>2. CASE WaitProcessStarted(w)
      BY <2>2, <1>2 DEF WaitProcessStarted
    <2>3. CASE Reap(w)
      BY <2>3, <1>2 DEF Reap
    <2>4. CASE NotifyExit(w)
      BY <2>4, <1>2 DEF NotifyExit
    <2> QED BY <1>3, <2>1, <2>2, <2>3, <2>4 DEF LauncherStep
  <1>4. ASSUME NEW w \in Worker, WorkerStep(w) PROVE MapInv'
    <2>1. CASE NotifyProcessStarted(w)
      BY <2>1, <1>1 DEF NotifyProcessStarted
    <2>2. CASE RegisterFails(w)
      BY <2>2, <1>1 DEF RegisterFails
    <2>3. CASE WaitForExit(w)
      BY <2>3, <1>1 DEF WaitForExit
    <2>4. CASE UnregisterFails(w)
      BY <2>4, <1>1 DEF UnregisterFails
    <2>5. CASE CallDuringClearing(w)
      BY <2>5, <1>0 DEF CallDuringClearing, MapInv
    <2>6. CASE Exit(w)
      BY <2>6, <1>1 DEF Exit
    <2> QED BY <1>4, <2>1, <2>2, <2>3, <2>4, <2>5, <2>6 DEF WorkerStep
  <1>5. ASSUME NEW w \in Worker, MutexStep(w) PROVE MapInv'
    <2>1. CASE Register(w)
      BY <1>0, <2>1 DEF Register, MutexFree, MapInv
    <2>2. CASE Unregister(w)
      BY <1>0, <2>2 DEF Unregister, MutexFree, MapInv
    <2> QED BY <1>5, <2>1, <2>2 DEF MutexStep
  <1>6. ASSUME NEW w \in Worker, PollMain(w) \/ Deliver(w) PROVE MapInv'
    BY <1>6, <1>2 DEF PollMain, Deliver
  <1>7. ASSUME NEW w \in Worker, CrashWorker(w) PROVE MapInv'
    BY <1>7, <1>1 DEF CrashWorker
  <1>8. CASE PollStep
    <2>1. CASE PollBegin \/ PollEnd \/ Alarm \/ PollStops
      <3>1. UNCHANGED <<main, proc, registered>>
        BY <2>1 DEF PollBegin, PollEnd, Alarm, PollStops
      <3>2. main \notin {"clearing", "destroyed"} \/ poll' = "done"
        BY <2>1 DEF PollBegin, PollEnd, Alarm, PollStops, MapInv
      <3>3. poll' # "alarm" /\ (poll' = "scan" => toPoll' \subseteq registered)
        BY <2>1 DEF PollBegin, PollEnd, Alarm, PollStops
      <3> QED BY <3>1, <3>2, <3>3 DEF MapInv
    <2>2. ASSUME NEW w \in Worker, PollWorker(w) PROVE MapInv'
      <3>1. /\ poll = "scan" /\ w \in registered /\ MainServerUp
            /\ UNCHANGED <<main, proc, registered>>
        BY <2>2 DEF PollWorker, MapInv, BeatTypeOK
      <3>2. CASE toPoll' = toPoll \ {w} /\ poll' = poll
        BY <3>1, <3>2 DEF MapInv
      <3>3. CASE poll' = "alarm" /\ ~WorkerServerUp(w)
        <4>1. proc[w] = "crashed"
          BY <3>1, <3>3 DEF MapInv, WorkerServerUp
        <4>2. main \notin {"clearing", "destroyed"}
          BY <3>1 DEF MapInv
        <4> QED BY <3>1, <3>3, <4>1, <4>2 DEF MapInv
      <3> QED BY <2>2, <3>2, <3>3 DEF PollWorker
    <2>3. CASE AbortMain
      BY <2>3, <1>2 DEF AbortMain
    <2> QED BY <1>8, <2>1, <2>2, <2>3 DEF PollStep
  <1>9. CASE DestroyMain \/ CrashMain
    BY <1>9, <1>2 DEF DestroyMain, CrashMain
  <1>10. CASE DestroyStep
    BY <1>0, <1>10 DEF DestroyStep, JoinPoll, ShutdownServer, ExitMain, MapInv
  <1>11. CASE UNCHANGED beatVars
    BY <1>11, <1>2 DEF beatVars
  <1> QED BY <1>3, <1>4, <1>5, <1>6, <1>7, <1>8, <1>9, <1>10, <1>11 DEF BeatNext, Quiet

\* The main process raises no alarm without a dead worker, and a worker that
\* leaves is still in the map: however exits, polls and registrations interleave.
THEOREM NoAlarmWithoutDeath == BeatSpec => []NoFalseAlarm
<1>1. BeatInit => MapInv
  BY DEF BeatInit, MapInv, MainServerUp
<1>3. BeatInit => LaunchInv
  BY DEF BeatInit, LaunchInv
<1>2. MapInv => NoFalseAlarm
  BY DEF MapInv, NoFalseAlarm
<1> QED BY <1>1, <1>2, <1>3, BeatTypes, LaunchStep, MapStep, PTL DEF BeatSpec

-----------------------------------------------------------------------------
(* A kernel stream *)

\* Kernel numbers start at 1; the stream's thread runs one of them.
StreamInv == StreamTypeOK /\ (thread = "run" => running \in Kernel)

NullAt(i) == i \in DOMAIN queue /\ queue[i] = NullKernel

\* While the stream is not destroyed, the flag stands for the one null kernel
\* that is in the queue or has just been taken from it.
FlagInv ==
    ~destroy =>
        /\ thread = "syncImp" => sync /\ \A i \in DOMAIN queue : ~NullAt(i)
        /\ ~sync => \A i \in DOMAIN queue : ~NullAt(i)
        /\ \A i, j \in DOMAIN queue : NullAt(i) /\ NullAt(j) => i = j

FlagAndAssert == FlagInv /\ ~aborted

\* Where a launched kernel may be.
Pending(k) ==
    \/ \E i \in DOMAIN queue : queue[i] = k
    \/ running = k
    \/ \E i \in DOMAIN onDevice : onDevice[i] = k

Launched == \A k \in Kernel : k <= launched => k \in done \/ Pending(k)

\* Nothing that c waits for is still behind the null kernel.
Behind(c) ==
    \/ thread = "syncImp" /\ \A i \in DOMAIN queue : queue[i] > cover[c]
    \/ \E n \in DOMAIN queue :
          NullAt(n) /\ \A i \in DOMAIN queue : i > n => queue[i] > cover[c]

Waits(c) == caller[c] = "waitDone" => 1..cover[c] \subseteq done \/ (sync /\ Behind(c))

\* A kernel that has been launched is not lost, and what a waiting caller waits
\* for is finished or in front of the null kernel.
WorkInv ==
    /\ \A c \in Caller : cover[c] <= launched
    /\ destroy => \A c \in Caller : caller[c] = "idle"
    /\ thread # "run" => running = NullKernel
    /\ ~destroy => Launched /\ \A c \in Caller : Waits(c)

USE StreamAssumption DEF NullKernel, Kernel, callVars, workVars

-----------------------------------------------------------------------------
(* Sequences *)

LEMMA Appended ==
    ASSUME NEW S, NEW s \in Seq(S), NEW e \in S
    PROVE  /\ Append(s, e) \in Seq(S)
           /\ DOMAIN Append(s, e) = DOMAIN s \cup {Len(s) + 1}
           /\ \A i \in DOMAIN s : Append(s, e)[i] = s[i] /\ i < Len(s) + 1
           /\ Append(s, e)[Len(s) + 1] = e
  OBVIOUS

LEMMA Taken ==
    ASSUME NEW S, NEW s \in Seq(S), s # <<>>
    PROVE  /\ Head(s) \in S /\ Tail(s) \in Seq(S)
           /\ 1 \in DOMAIN s /\ Head(s) = s[1]
           /\ \A i \in DOMAIN Tail(s) : i \in Nat /\ i + 1 \in DOMAIN s /\ i + 1 # 1 /\ Tail(s)[i] = s[i + 1]
           /\ \A i \in DOMAIN s : i # 1 => i - 1 \in DOMAIN Tail(s) /\ Tail(s)[i - 1] = s[i]
  OBVIOUS

-----------------------------------------------------------------------------
(* Type correctness *)

LEMMA StreamTypeStep ==
    ASSUME StreamInv, [StreamNext]_streamVars PROVE StreamInv'
  <1> USE DEF StreamInv, StreamTypeOK, Become
  <1>1. CASE LaunchKernel
    <2>1. launched + 1 \in Kernel \cup {NullKernel} /\ launched + 1 \in 0..MaxKernel
      BY <1>1 DEF LaunchKernel
    <2>2. queue' \in Seq(Kernel \cup {NullKernel})
      BY <1>1, <2>1, Appended DEF LaunchKernel
    <2> QED BY <1>1, <2>1, <2>2 DEF LaunchKernel
  <1>2. ASSUME NEW c \in Caller, TakeTurn(c) \/ WaitTurn(c)
        PROVE  /\ sync' \in BOOLEAN /\ queue' \in Seq(Kernel \cup {NullKernel})
               /\ caller' \in [Caller -> {"idle", "waitTurn", "waitDone"}] /\ asleep' \subseteq Caller
    <2>1. CASE TakeTurn(c)
      <3>1. queue' \in Seq(Kernel \cup {NullKernel})
        BY <2>1, Appended DEF TakeTurn
      <3> QED BY <2>1, <3>1 DEF TakeTurn
    <2>2. CASE WaitTurn(c)
      BY <2>2 DEF WaitTurn
    <2> QED BY <1>2, <2>1, <2>2
  <1>3. ASSUME NEW c \in Caller, Sync(c) PROVE StreamInv'
    <2>1. /\ sync' \in BOOLEAN /\ queue' \in Seq(Kernel \cup {NullKernel})
          /\ caller' \in [Caller -> {"idle", "waitTurn", "waitDone"}] /\ asleep' \subseteq Caller
      BY <1>2, <1>3 DEF Sync
    <2>2. calls[c] + 1 \in 0..MaxSync
      BY <1>3 DEF Sync
    <2> QED BY <2>1, <2>2, <1>3 DEF Sync
  <1>4. ASSUME NEW c \in Caller, ResumeTurn(c) PROVE StreamInv'
    <2>1. /\ sync' \in BOOLEAN /\ queue' \in Seq(Kernel \cup {NullKernel})
          /\ caller' \in [Caller -> {"idle", "waitTurn", "waitDone"}] /\ asleep' \subseteq Caller
      BY <1>2, <1>4 DEF ResumeTurn
    <2> QED BY <2>1, <1>4 DEF ResumeTurn
  <1>5. ASSUME NEW c \in Caller, ResumeDone(c) PROVE StreamInv'
    BY <1>5 DEF ResumeDone
  <1>6. ASSUME NEW c \in Caller, SpuriousWake(c) PROVE StreamInv'
    BY <1>6 DEF SpuriousWake
  <1>7. CASE Take
    <2>1. Head(queue) \in Kernel \cup {NullKernel} /\ queue' \in Seq(Kernel \cup {NullKernel})
      BY <1>7, Taken DEF Take
    <2>2. aborted' \in BOOLEAN
      BY <1>7 DEF Take
    <2>3. /\ running' \in Kernel \cup {NullKernel} /\ (thread' = "run" => running' \in Kernel)
          /\ thread' \in {"exited", "syncImp", "run"}
      BY <1>7, <2>1 DEF Take
    <2> QED BY <1>7, <2>1, <2>2, <2>3 DEF Take
  <1>8. CASE Run
    <2>1. onDevice' \in Seq(Kernel) /\ done' \subseteq Kernel
      <3>1. CASE OnGpu
        <4>1. running \in Kernel /\ onDevice \in Seq(Kernel)
          BY <1>8 DEF Run
        <4>2. Append(onDevice, running) \in Seq(Kernel)
          BY <4>1
        <4> QED BY <1>8, <3>1, <4>2 DEF Run
      <3>2. CASE ~OnGpu
        BY <1>8, <3>2 DEF Run
      <3> QED BY <3>1, <3>2
    <2> QED BY <1>8, <2>1 DEF Run
  <1>9. CASE SyncImp \/ Notify \/ Join
    BY <1>9 DEF SyncImp, Notify, Join
  <1>10. CASE GpuCompletes
    <2>1. onDevice' \in Seq(Kernel) /\ done' \subseteq Kernel
      BY <1>10, Taken DEF GpuCompletes
    <2> QED BY <1>10, <2>1 DEF GpuCompletes
  <1>11. CASE SendDestroyMessage
    <2>1. queue' \in Seq(Kernel \cup {NullKernel})
      BY <1>11, Appended DEF SendDestroyMessage
    <2> QED BY <1>11, <2>1 DEF SendDestroyMessage
  <1>12. CASE UNCHANGED streamVars
    BY <1>12 DEF streamVars
  <1> QED BY <1>1, <1>3, <1>4, <1>5, <1>6, <1>7, <1>8, <1>9, <1>10, <1>11, <1>12
          DEF StreamNext, CallerStep, ThreadStep, Rest

LEMMA StreamStarts == StreamInit => StreamInv
  <1> SUFFICES ASSUME StreamInit PROVE StreamInv
    OBVIOUS
  <1> USE DEF StreamInit
  <1>1. sync \in BOOLEAN /\ destroy \in BOOLEAN /\ aborted \in BOOLEAN
    OBVIOUS
  <1>2. queue \in Seq(Kernel \cup {NullKernel}) /\ onDevice \in Seq(Kernel)
    OBVIOUS
  <1>3. /\ caller \in [Caller -> {"idle", "waitTurn", "waitDone"}]
        /\ cover \in [Caller -> 0..MaxKernel] /\ calls \in [Caller -> 0..MaxSync]
    OBVIOUS
  <1>4. launched \in 0..MaxKernel /\ running \in Kernel \cup {NullKernel} /\ done \subseteq Kernel /\ asleep \subseteq Caller
    OBVIOUS
  <1>5. thread = "loop"
    OBVIOUS
  <1> QED BY <1>1, <1>2, <1>3, <1>4, <1>5 DEF StreamInv, StreamTypeOK

\* The types are an invariant of the specification.
THEOREM StreamTypes == StreamSpec => []StreamTypeOK
  <1>1. StreamInit => StreamInv
    BY StreamStarts
  <1>2. StreamInv /\ [StreamNext]_streamVars => StreamInv'
    BY StreamTypeStep
  <1>3. StreamInv => StreamTypeOK
    BY DEF StreamInv
  <1> QED BY <1>1, <1>2, <1>3, PTL DEF StreamSpec

-----------------------------------------------------------------------------
(* The flag *)

LEMMA FlagTurn ==
    ASSUME StreamInv, FlagInv, NEW c \in Caller, TakeTurn(c), UNCHANGED <<destroy, thread>>
    PROVE  FlagInv'
  <1> USE DEF StreamInv, StreamTypeOK, FlagInv, NullAt, TakeTurn
  <1>1. SUFFICES ASSUME ~destroy PROVE FlagInv'
    OBVIOUS
  <1>2. \A i \in DOMAIN queue : queue[i] # NullKernel
    BY <1>1
  <1>3. /\ DOMAIN queue' = DOMAIN queue \cup {Len(queue) + 1}
        /\ \A i \in DOMAIN queue : queue'[i] = queue[i]
    BY Appended
  <1>4. sync' /\ thread' # "syncImp"
    BY <1>1
  <1>5. \A i, j \in DOMAIN queue' : NullAt(i)' /\ NullAt(j)' => i = j
    BY <1>2, <1>3
  <1> QED BY <1>4, <1>5

LEMMA FlagStep ==
    ASSUME StreamInv, FlagAndAssert, [StreamNext]_streamVars PROVE FlagAndAssert'
  <1> USE DEF StreamInv, StreamTypeOK, FlagAndAssert
  <1>1. CASE LaunchKernel
    <2>1. /\ DOMAIN queue' = DOMAIN queue \cup {Len(queue) + 1}
          /\ \A i \in DOMAIN queue : queue'[i] = queue[i]
          /\ queue'[Len(queue) + 1] # NullKernel
      BY <1>1, Appended DEF LaunchKernel
    <2> QED BY <1>1, <2>1 DEF LaunchKernel, FlagInv, NullAt
  <1>2. ASSUME NEW c \in Caller, Sync(c) \/ ResumeTurn(c) PROVE FlagAndAssert'
    <2>1. CASE TakeTurn(c)
      BY <1>2, <2>1, FlagTurn DEF Sync, ResumeTurn
    <2>2. CASE WaitTurn(c)
      BY <1>2, <2>2 DEF Sync, ResumeTurn, WaitTurn, FlagInv, NullAt
    <2> QED BY <1>2, <2>1, <2>2 DEF Sync, ResumeTurn
  <1>3. ASSUME NEW c \in Caller, ResumeDone(c) \/ SpuriousWake(c) PROVE FlagAndAssert'
    BY <1>3 DEF ResumeDone, SpuriousWake, FlagInv, NullAt
  <1>4. CASE Take
    <2>1. SUFFICES ASSUME ~destroy PROVE FlagAndAssert'
      BY <1>4 DEF Take, FlagInv
    <2>2. /\ 1 \in DOMAIN queue /\ Head(queue) = queue[1]
          /\ \A i \in DOMAIN queue' : /\ i \in Nat /\ i + 1 \in DOMAIN queue
                                     /\ i + 1 # 1 /\ queue'[i] = queue[i + 1]
      BY <1>4, Taken DEF Take
    <2>3. CASE Head(queue) = NullKernel
      <3>1. \A i \in DOMAIN queue' : ~NullAt(i)'
        BY <2>1, <2>2, <2>3 DEF FlagInv, NullAt
      <3>2. sync' /\ ~aborted'
        BY <1>4, <2>1, <2>2, <2>3 DEF Take, FlagInv, NullAt
      <3> QED BY <3>1, <3>2 DEF FlagInv
    <2>4. CASE Head(queue) # NullKernel
      <3>1. \A i, j \in DOMAIN queue' : NullAt(i)' /\ NullAt(j)' => i = j
        BY <2>1, <2>2 DEF FlagInv, NullAt
      <3>2. ~sync => \A i \in DOMAIN queue' : ~NullAt(i)'
        BY <2>1, <2>2 DEF FlagInv, NullAt
      <3>3. thread' # "syncImp" /\ ~aborted' /\ sync' = sync
        BY <1>4, <2>1, <2>4 DEF Take
      <3> QED BY <3>1, <3>2, <3>3 DEF FlagInv
    <2> QED BY <2>3, <2>4
  <1>5. CASE Run \/ SyncImp \/ Notify \/ Join \/ GpuCompletes
    BY <1>5 DEF Run, SyncImp, Notify, Join, GpuCompletes, FlagInv, NullAt
  <1>6. CASE SendDestroyMessage
    BY <1>6 DEF SendDestroyMessage, FlagInv
  <1>7. CASE UNCHANGED streamVars
    BY <1>7 DEF streamVars, FlagInv, NullAt
  <1> QED BY <1>1, <1>2, <1>3, <1>4, <1>5, <1>6, <1>7
          DEF StreamNext, CallerStep, ThreadStep, Rest

\* AsyncMain never meets a null kernel without the flag
\* (DAlwaysAssert(mSharedInfo.sync), kernel_stream.cc:84): the flag stands for
\* the only null kernel there is.
THEOREM FlagHolds == StreamSpec => []NoAbort
  <1>1. StreamInit => StreamInv /\ FlagAndAssert
    BY StreamStarts DEF StreamInit, FlagAndAssert, FlagInv
  <1>2. StreamInv /\ FlagAndAssert /\ [StreamNext]_streamVars => (StreamInv /\ FlagAndAssert)'
    BY StreamTypeStep, FlagStep
  <1>3. FlagAndAssert => NoAbort
    BY DEF FlagAndAssert, NoAbort
  <1> QED BY <1>1, <1>2, <1>3, PTL DEF StreamSpec

-----------------------------------------------------------------------------
(* What Sync() waits for *)

\* A caller that takes the flag puts its null kernel behind everything.
LEMMA WorkTurn ==
    ASSUME StreamInv, WorkInv, ~destroy, NEW c \in Caller, TakeTurn(c),
           UNCHANGED <<launched, destroy, thread, workVars>>,
           \A e \in Caller : cover'[e] = cover[e] \/ (e = c /\ cover'[e] = launched)
    PROVE  WorkInv'
  <1> USE DEF StreamInv, StreamTypeOK, WorkInv, TakeTurn, Become
  <1>1. /\ DOMAIN queue' = DOMAIN queue \cup {Len(queue) + 1}
        /\ \A i \in DOMAIN queue : queue'[i] = queue[i] /\ i < Len(queue) + 1
        /\ queue'[Len(queue) + 1] = NullKernel
    BY Appended
  <1>2. \A e \in Caller : cover'[e] <= launched'
    <2> SUFFICES ASSUME NEW e \in Caller PROVE cover'[e] <= launched
      OBVIOUS
    <2>1. launched \in Nat /\ cover[e] <= launched
      OBVIOUS
    <2> HIDE DEF StreamInv, StreamTypeOK, WorkInv, TakeTurn
    <2> QED BY <2>1
  <1>3. ASSUME NEW k \in Kernel, k <= launched' PROVE k \in done' \/ Pending(k)'
    <2>1. k \in done \/ Pending(k)
      BY <1>3 DEF Launched
    <2> QED BY <1>1, <2>1 DEF Pending
  <1>4. ASSUME NEW e \in Caller, caller'[e] = "waitDone" PROVE Waits(e)'
    <2>1. CASE e = c
      <3>1. Behind(c)'
        BY <1>1 DEF Behind, NullAt
      <3> QED BY <2>1, <3>1 DEF Waits
    <2>2. CASE e # c
      BY <1>4, <2>2 DEF Waits
    <2> QED BY <2>1, <2>2
  <1> QED BY <1>2, <1>3, <1>4 DEF Launched, Waits

\* A step that leaves the queue, the flag and the callers alone.
LEMMA WorkKept ==
    ASSUME StreamInv, WorkInv,
           UNCHANGED <<launched, destroy, queue, sync, caller, cover>>,
           thread' # "run", running' = NullKernel, done \subseteq done',
           thread = "syncImp" => thread' = "syncImp",
           \A k \in Kernel : Pending(k) => k \in done' \/ Pending(k)'
    PROVE  WorkInv'
  <1> USE DEF WorkInv
  <1>1. Launched => Launched'
    BY DEF Launched
  <1>2. ASSUME NEW c \in Caller, Waits(c) PROVE Waits(c)'
    BY <1>2 DEF Waits, Behind, NullAt
  <1> QED BY <1>1, <1>2

LEMMA WorkStep ==
    ASSUME StreamInv, FlagAndAssert, WorkInv, [StreamNext]_streamVars PROVE WorkInv'
  <1> USE DEF StreamInv, StreamTypeOK
  <1>1. CASE LaunchKernel
    <2> USE <1>1 DEF LaunchKernel
    <2>1. /\ DOMAIN queue' = DOMAIN queue \cup {Len(queue) + 1}
          /\ \A i \in DOMAIN queue : queue'[i] = queue[i] /\ i < Len(queue) + 1
          /\ queue'[Len(queue) + 1] = launched + 1
      BY Appended
    <2>2. ASSUME NEW k \in Kernel, k <= launched' PROVE k \in done' \/ Pending(k)'
      <3>1. CASE k = launched + 1
        BY <2>1, <3>1 DEF Pending
      <3>2. CASE k <= launched
        BY <2>1, <3>2 DEF Pending, WorkInv, Launched
      <3> QED BY <2>2, <3>1, <3>2
    <2>3. ASSUME NEW c \in Caller PROVE Waits(c)'
      <3>1. cover'[c] = cover[c] /\ launched + 1 > cover[c]
        BY DEF WorkInv
      <3>2. CASE thread = "syncImp" /\ \A i \in DOMAIN queue : queue[i] > cover[c]
        BY <2>1, <3>1, <3>2 DEF Behind, WorkInv, Waits
      <3>3. ASSUME NEW n \in DOMAIN queue,
                   NullAt(n) /\ \A i \in DOMAIN queue : i > n => queue[i] > cover[c]
            PROVE  Behind(c)'
        <4>1. NullAt(n)'
          BY <2>1, <3>3 DEF NullAt
        <4>2. \A i \in DOMAIN queue' : i > n => queue'[i] > cover'[c]
          BY <2>1, <3>1, <3>3
        <4> QED BY <2>1, <4>1, <4>2 DEF Behind, NullAt
      <3>4. Behind(c) => Behind(c)'
        BY <2>1, <3>1, <3>2, <3>3 DEF Behind
      <3> QED BY <3>4 DEF WorkInv, Waits
    <2>4. \A c \in Caller : cover'[c] <= launched'
      BY DEF WorkInv
    <2> QED BY <2>2, <2>3, <2>4 DEF WorkInv, Launched
  <1>2. ASSUME NEW c \in Caller, Sync(c) \/ ResumeTurn(c) PROVE WorkInv'
    <2>0. ~destroy
      BY <1>2 DEF Sync, ResumeTurn, WorkInv
    <2>1. \A e \in Caller : cover'[e] = cover[e] \/ (e = c /\ cover'[e] = launched)
      BY <1>2 DEF Sync, ResumeTurn
    <2>2. CASE TakeTurn(c)
      BY <1>2, <2>0, <2>1, <2>2, WorkTurn DEF Sync, ResumeTurn
    <2>3. CASE WaitTurn(c)
      <3>1. UNCHANGED <<launched, queue, sync, destroy, thread, workVars>>
        BY <1>2, <2>3 DEF Sync, ResumeTurn, WaitTurn
      <3>2. Launched' <=> Launched
        BY <3>1 DEF Launched, Pending
      <3>3. ASSUME NEW e \in Caller PROVE Waits(e)'
        <4>1. CASE e = c
          BY <2>3, <4>1 DEF WaitTurn, Become, Waits
        <4>2. CASE e # c
          <5>1. caller'[e] = caller[e] /\ cover'[e] = cover[e]
            BY <1>2, <2>1, <2>3, <4>2 DEF WaitTurn, Become
          <5> QED BY <2>0, <3>1, <5>1 DEF WorkInv, Waits, Behind, NullAt
        <4> QED BY <4>1, <4>2
      <3>4. ASSUME NEW e \in Caller PROVE cover'[e] <= launched'
        <4>1. launched \in Nat /\ cover[e] <= launched
          BY DEF WorkInv
        <4> HIDE DEF StreamInv, StreamTypeOK
        <4> QED BY <2>1, <3>1, <4>1
      <3> QED BY <2>0, <3>1, <3>2, <3>3, <3>4 DEF WorkInv
    <2> QED BY <1>2, <2>2, <2>3 DEF Sync, ResumeTurn
  <1>3. ASSUME NEW c \in Caller, ResumeDone(c) \/ SpuriousWake(c) PROVE WorkInv'
    <2>1. \A e \in Caller : caller'[e] = caller[e] \/ caller'[e] = "idle"
      BY <1>3 DEF ResumeDone, SpuriousWake, Become
    <2>2. UNCHANGED <<launched, queue, sync, destroy, cover, thread, workVars>>
      BY <1>3 DEF ResumeDone, SpuriousWake
    <2>3. Launched' <=> Launched
      BY <2>2 DEF Launched, Pending
    <2>4. \A e \in Caller : Waits(e) => Waits(e)'
      BY <2>1, <2>2 DEF Waits, Behind, NullAt
    <2> QED BY <2>1, <2>2, <2>3, <2>4 DEF WorkInv
  <1>4. CASE Take
    <2>1. /\ 1 \in DOMAIN queue /\ Head(queue) = queue[1]
          /\ \A i \in DOMAIN queue' : /\ i \in Nat /\ i + 1 \in DOMAIN queue
                                     /\ i + 1 # 1 /\ queue'[i] = queue[i + 1]
          /\ \A i \in DOMAIN queue : i # 1 => i - 1 \in DOMAIN queue' /\ queue'[i - 1] = queue[i]
      BY <1>4, Taken DEF Take
    <2>2. UNCHANGED <<launched, destroy, sync, caller, cover, onDevice, done>>
      BY <1>4 DEF Take
    <2>3. running = NullKernel
      BY <1>4 DEF Take, WorkInv
    <2>4. CASE destroy
      BY <1>4, <2>2, <2>3, <2>4 DEF Take, WorkInv
    <2>5. CASE ~destroy
      <3>1. ASSUME NEW k \in Kernel, Pending(k) PROVE Pending(k)'
        <4>1. CASE queue[1] = k
          BY <1>4, <2>1, <2>5, <4>1 DEF Take, Pending
        <4>2. ASSUME NEW i \in DOMAIN queue, queue[i] = k, i # 1 PROVE Pending(k)'
          BY <2>1, <4>2 DEF Pending
        <4>3. CASE \E i \in DOMAIN onDevice : onDevice[i] = k
          BY <2>2, <4>3 DEF Pending
        <4>4. \/ \E i \in DOMAIN queue : queue[i] = k
              \/ \E i \in DOMAIN onDevice : onDevice[i] = k
          BY <2>3, <3>1 DEF Pending
        <4> QED BY <4>1, <4>2, <4>3, <4>4
      <3>2. Launched'
        BY <2>2, <2>5, <3>1 DEF WorkInv, Launched
      <3>3. ASSUME NEW c \in Caller PROVE Waits(c)'
        <4>1. SUFFICES ASSUME Behind(c), sync PROVE Behind(c)'
          BY <2>2, <2>5 DEF WorkInv, Waits
        <4>2. PICK n \in DOMAIN queue :
                NullAt(n) /\ \A i \in DOMAIN queue : i > n => queue[i] > cover[c]
          BY <1>4, <4>1 DEF Take, Behind
        <4>3. CASE n = 1
          <5>1. thread' = "syncImp"
            BY <1>4, <2>1, <2>5, <4>2, <4>3 DEF Take, NullAt
          <5>2. \A i \in DOMAIN queue' : queue'[i] > cover'[c]
            BY <2>1, <2>2, <4>2, <4>3
          <5> QED BY <5>1, <5>2 DEF Behind
        <4>4. CASE n # 1
          <5>1. NullAt(n - 1)'
            BY <2>1, <4>2, <4>4 DEF NullAt
          <5>2. \A i \in DOMAIN queue' : i > n - 1 => queue'[i] > cover'[c]
            BY <2>1, <2>2, <4>2
          <5> QED BY <5>1, <5>2 DEF Behind, NullAt
        <4> QED BY <4>3, <4>4
      <3>4. thread' # "run" => running' = NullKernel
        BY <1>4, <2>3 DEF Take
      <3> QED BY <2>2, <3>2, <3>3, <3>4 DEF WorkInv
    <2> QED BY <2>4, <2>5
  <1>5. CASE Run
    <2>1. ASSUME NEW k \in Kernel, Pending(k) PROVE k \in done' \/ Pending(k)'
      <3>1. CASE OnGpu
        <4>1. running \in Kernel /\ onDevice' = Append(onDevice, running) /\ queue' = queue
          BY <1>5, <3>1 DEF Run
        <4>2. /\ DOMAIN onDevice' = DOMAIN onDevice \cup {Len(onDevice) + 1}
              /\ \A i \in DOMAIN onDevice : onDevice'[i] = onDevice[i]
              /\ onDevice'[Len(onDevice) + 1] = running
          BY <4>1, Appended
        <4> QED BY <2>1, <4>1, <4>2 DEF Pending
      <3>2. CASE ~OnGpu
        BY <1>5, <2>1, <3>2 DEF Run, Pending
      <3> QED BY <3>1, <3>2
    <2>2. done \subseteq done'
      BY <1>5 DEF Run
    <2> QED BY <1>5, <2>1, <2>2, WorkKept DEF Run
  <1>6. CASE SyncImp
    <2>1. SUFFICES ASSUME ~destroy PROVE WorkInv'
      BY <1>6 DEF SyncImp, WorkInv
    <2>2. UNCHANGED <<launched, queue, destroy, callVars, workVars>> /\ thread' # "run"
      BY <1>6 DEF SyncImp
    <2>3. Launched' <=> Launched
      BY <2>2 DEF Launched, Pending
    <2>4. ASSUME NEW c \in Caller, caller[c] = "waitDone" PROVE 1..cover[c] \subseteq done
      <3>1. SUFFICES ASSUME Behind(c), NEW k \in 1..cover[c] PROVE k \in done
        BY <2>1, <2>4 DEF WorkInv, Waits
      <3>2. \A i \in DOMAIN queue : queue[i] > cover[c]
        BY <1>6, <2>1, <3>1 DEF SyncImp, Behind, FlagAndAssert, FlagInv
      <3>3. k \in Kernel /\ k <= launched
        BY <3>1 DEF WorkInv
      <3>4. ~Pending(k)
        BY <1>6, <3>2, <3>3 DEF SyncImp, Pending, WorkInv
      <3> QED BY <2>1, <3>3, <3>4 DEF WorkInv, Launched
    <2> QED BY <1>6, <2>1, <2>2, <2>3, <2>4 DEF WorkInv, Waits, SyncImp
  <1>7. CASE Notify \/ Join
    BY <1>7, WorkKept DEF Notify, Join, Pending, WorkInv
  <1>8. CASE GpuCompletes
    <2> USE <1>8 DEF GpuCompletes
    <2>1. /\ 1 \in DOMAIN onDevice /\ Head(onDevice) = onDevice[1]
          /\ \A i \in DOMAIN onDevice : i # 1 => i - 1 \in DOMAIN onDevice' /\ onDevice'[i - 1] = onDevice[i]
      BY Taken
    <2>2. \A k \in Kernel : Pending(k) => k \in done' \/ Pending(k)'
      BY <2>1 DEF Pending
    <2>3. Launched => Launched'
      BY <2>2 DEF Launched
    <2>4. \A c \in Caller : Waits(c) => Waits(c)'
      BY DEF Waits, Behind, NullAt
    <2> QED BY <2>3, <2>4 DEF WorkInv
  <1>9. CASE SendDestroyMessage
    BY <1>9 DEF SendDestroyMessage, WorkInv
  <1>10. CASE UNCHANGED streamVars
    BY <1>10 DEF streamVars, WorkInv, Launched, Pending, Waits, Behind, NullAt
  <1> QED BY <1>1, <1>2, <1>3, <1>4, <1>5, <1>6, <1>7, <1>8, <1>9, <1>10
          DEF StreamNext, CallerStep, ThreadStep, Rest

\* When Sync() returns, everything launched before it was called has finished:
\* only the caller's own null kernel, or a later one, has cleared the flag.
THEOREM SyncWaits == StreamSpec => SyncWaitsForAll
  <1> DEFINE Inv == StreamInv /\ FlagAndAssert /\ WorkInv
  <1>1. StreamInit => Inv
    BY StreamStarts DEF StreamInit, FlagAndAssert, FlagInv, WorkInv, Launched, Waits
  <1>2. Inv /\ [StreamNext]_streamVars => Inv'
    BY StreamTypeStep, FlagStep, WorkStep
  <1>3. ASSUME Inv, [StreamNext]_streamVars, NEW c \in Caller,
               caller[c] = "waitDone", caller'[c] = "idle"
        PROVE  1..cover[c] \subseteq done
    <2>1. ~destroy
      BY <1>3 DEF WorkInv
    <2>2. ASSUME NEW e \in Caller, Sync(e) \/ ResumeTurn(e) PROVE FALSE
      BY <1>3, <2>2 DEF Sync, ResumeTurn, TakeTurn, WaitTurn, Become, StreamInv, StreamTypeOK
    <2>3. ASSUME NEW e \in Caller, ResumeDone(e) PROVE ~sync
      BY <1>3, <2>3 DEF ResumeDone, Become, StreamInv, StreamTypeOK
    <2>4. \E e \in Caller : ResumeDone(e)
      BY <1>3, <2>2 DEF StreamNext, CallerStep, ThreadStep, Rest, LaunchKernel, SpuriousWake, Take, Run,
                        SyncImp, Notify, Join, GpuCompletes, SendDestroyMessage, streamVars
    <2> QED BY <1>3, <2>1, <2>3, <2>4 DEF WorkInv, Waits
  <1>4. Inv /\ [StreamNext]_streamVars
        => [\A c \in Caller : caller[c] = "waitDone" /\ caller'[c] = "idle"
                => 1..cover[c] \subseteq done]_streamVars
    BY <1>3
  <1> HIDE DEF Inv
  <1> QED BY <1>1, <1>2, <1>4, PTL DEF StreamSpec, SyncWaitsForAll

=============================================================================
