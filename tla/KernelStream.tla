---------------------------- MODULE KernelStream ----------------------------
(***************************************************************************)
(* One KernelStream: a launcher that enqueues kernels, callers of Sync(),  *)
(* and the stream's own thread that runs the kernels in order.  Sync() is  *)
(* a null kernel and a flag under a mutex; on a GPU stream the kernels     *)
(* only enqueue work on the device, and SyncImp() waits for that work too. *)
(***************************************************************************)
EXTENDS Naturals, Sequences, FiniteSets

CONSTANTS Caller,       \* threads that call Sync()
          MaxKernel,    \* bound: kernels launched
          MaxSync,      \* bound: calls of Sync() per caller
          OnGpu         \* CudaKernelStream or CpuKernelStream

ASSUME StreamAssumption ==
    /\ MaxKernel \in Nat
    /\ MaxSync \in Nat
    /\ OnGpu \in BOOLEAN

VARIABLES
    launched,   \* kernels launched so far: 1..launched
    queue,      \* mKernelQueue
    sync,       \* SharedInfo::sync
    destroy,    \* SharedInfo::destroy
    caller,     \* control state of each caller of Sync()
    asleep,     \* callers asleep in cv.wait
    cover,      \* cover[c]: kernels launched before c's current call
    calls,      \* number of calls each caller has made
    thread,     \* control state of AsyncMain
    running,    \* the kernel it is running
    onDevice,   \* work enqueued on the device and not finished
    done,       \* kernels whose work is finished
    aborted     \* a DAlwaysAssert failed

callVars   == <<caller, asleep, cover, calls>>
workVars   == <<running, onDevice, done>>
streamVars == <<launched, queue, sync, destroy, callVars, thread, workVars, aborted>>

NullKernel == 0
Kernel     == 1..MaxKernel

StreamTypeOK ==
    /\ launched \in 0..MaxKernel
    /\ queue \in Seq(Kernel \cup {NullKernel})
    /\ sync \in BOOLEAN /\ destroy \in BOOLEAN /\ aborted \in BOOLEAN
    /\ caller \in [Caller -> {"idle", "waitTurn", "waitDone"}]
    /\ asleep \subseteq Caller
    /\ cover \in [Caller -> 0..MaxKernel]
    /\ calls \in [Caller -> 0..MaxSync]
    /\ thread \in {"loop", "run", "syncImp", "notify", "exited", "joined"}
    /\ running \in Kernel \cup {NullKernel}
    /\ onDevice \in Seq(Kernel)
    /\ done \subseteq Kernel

StreamInit ==
    /\ launched = 0
    /\ queue = <<>>
    /\ sync = FALSE /\ destroy = FALSE
    /\ caller = [c \in Caller |-> "idle"]
    /\ asleep = {}
    /\ cover = [c \in Caller |-> 0]
    /\ calls = [c \in Caller |-> 0]
    /\ thread = "loop"
    /\ running = NullKernel
    /\ onDevice = <<>>
    /\ done = {}
    /\ aborted = FALSE

-----------------------------------------------------------------------------
LaunchKernel ==
    /\ ~aborted /\ ~destroy
    /\ launched < MaxKernel
    /\ launched' = launched + 1
    /\ queue' = Append(queue, launched + 1)
    /\ UNCHANGED <<sync, destroy, callVars, thread, workVars, aborted>>

-----------------------------------------------------------------------------
(* Sync().  The caller holds the mutex between two waits, so that what it  *)
(* does there is one step: a stream thread that takes the null kernel at   *)
(* once still waits for the mutex in SyncImp().                            *)

Become(c, state) == caller' = [caller EXCEPT ![c] = state]

\* The flag is free: take it, send the null kernel, wait.
TakeTurn(c) ==
    /\ ~sync
    /\ sync' = TRUE
    /\ queue' = Append(queue, NullKernel)
    /\ Become(c, "waitDone")
    /\ asleep' = asleep \cup {c}

WaitTurn(c) ==
    /\ sync
    /\ Become(c, "waitTurn")
    /\ asleep' = asleep \cup {c}
    /\ UNCHANGED <<sync, queue>>

\* Mutant of Sync: no second null kernel while another one is pending.
SyncSharesTurn(c) ==
    /\ ~aborted /\ ~destroy
    /\ caller[c] = "idle" /\ calls[c] < MaxSync
    /\ calls' = [calls EXCEPT ![c] = @ + 1]
    /\ cover' = [cover EXCEPT ![c] = launched]
    /\ \/ TakeTurn(c)
       \/ sync /\ Become(c, "waitDone") /\ asleep' = asleep \cup {c} /\ UNCHANGED <<sync, queue>>
    /\ UNCHANGED <<launched, destroy, thread, workVars, aborted>>

Sync(c) ==
    /\ ~aborted /\ ~destroy
    /\ caller[c] = "idle" /\ calls[c] < MaxSync
    /\ calls' = [calls EXCEPT ![c] = @ + 1]
    /\ cover' = [cover EXCEPT ![c] = launched]
    /\ TakeTurn(c) \/ WaitTurn(c)
    /\ UNCHANGED <<launched, destroy, thread, workVars, aborted>>

\* Mutant of ResumeTurn: a caller that has waited takes the turn unchecked.
ResumeTurnUnchecked(c) ==
    /\ ~aborted
    /\ caller[c] = "waitTurn" /\ c \notin asleep
    /\ sync' = TRUE
    /\ queue' = Append(queue, NullKernel)
    /\ Become(c, "waitDone")
    /\ asleep' = asleep \cup {c}
    /\ UNCHANGED <<launched, destroy, cover, calls, thread, workVars, aborted>>

\* The loop around the first wait: another caller may have been faster.
ResumeTurn(c) ==
    /\ ~aborted
    /\ caller[c] = "waitTurn" /\ c \notin asleep
    /\ TakeTurn(c) \/ WaitTurn(c)
    /\ UNCHANGED <<launched, destroy, cover, calls, thread, workVars, aborted>>

\* The second wait: a caller that wakes up late may find the flag taken by
\* the next one and then waits for that one's null kernel as well.
ResumeDone(c) ==
    /\ ~aborted
    /\ caller[c] = "waitDone" /\ c \notin asleep
    /\ \/ ~sync /\ Become(c, "idle") /\ UNCHANGED asleep
       \/ sync /\ asleep' = asleep \cup {c} /\ UNCHANGED caller
    /\ UNCHANGED <<launched, queue, sync, destroy, cover, calls, thread, workVars, aborted>>

SpuriousWake(c) ==
    /\ ~aborted
    /\ c \in asleep
    /\ asleep' = asleep \ {c}
    /\ UNCHANGED <<launched, queue, sync, destroy, caller, cover, calls, thread, workVars, aborted>>

-----------------------------------------------------------------------------
(* AsyncMain *)

Take ==
    /\ ~aborted
    /\ thread = "loop" /\ queue # <<>>
    /\ queue' = Tail(queue)
    /\ \/ destroy /\ thread' = "exited" /\ UNCHANGED <<running, aborted>>
       \/ /\ ~destroy /\ Head(queue) = NullKernel
          /\ aborted' = ~sync                  \* DAlwaysAssert(mSharedInfo.sync)
          /\ thread' = "syncImp"
          /\ UNCHANGED running
       \/ /\ ~destroy /\ Head(queue) # NullKernel
          /\ running' = Head(queue)
          /\ thread' = "run"
          /\ UNCHANGED aborted
    /\ UNCHANGED <<launched, sync, destroy, callVars, onDevice, done>>

\* Kernel::Run: on the CPU the work is finished when it returns.
Run ==
    /\ ~aborted
    /\ thread = "run"
    /\ thread' = "loop"
    /\ running' = NullKernel
    /\ \/ OnGpu /\ onDevice' = Append(onDevice, running) /\ UNCHANGED done
       \/ ~OnGpu /\ done' = done \cup {running} /\ UNCHANGED onDevice
    /\ UNCHANGED <<launched, queue, sync, destroy, callVars, aborted>>

\* CudaKernelStream::SyncImp synchronizes the CUDA stream, then both clear the
\* flag under the mutex.
SyncImp ==
    /\ ~aborted
    /\ thread = "syncImp"
    /\ onDevice = <<>>
    /\ sync' = FALSE
    /\ thread' = "notify"
    /\ UNCHANGED <<launched, queue, destroy, callVars, workVars, aborted>>

\* Mutant of Notify: notify_one.
NotifyOne ==
    /\ ~aborted
    /\ thread = "notify"
    /\ \/ asleep = {} /\ UNCHANGED asleep
       \/ \E c \in asleep : asleep' = asleep \ {c}
    /\ thread' = "loop"
    /\ UNCHANGED <<launched, queue, sync, destroy, caller, cover, calls, workVars, aborted>>

Notify ==
    /\ ~aborted
    /\ thread = "notify"
    /\ asleep' = {}
    /\ thread' = "loop"
    /\ UNCHANGED <<launched, queue, sync, destroy, caller, cover, calls, workVars, aborted>>

GpuCompletes ==
    /\ ~aborted
    /\ onDevice # <<>>
    /\ onDevice' = Tail(onDevice)
    /\ done' = done \cup {Head(onDevice)}
    /\ UNCHANGED <<launched, queue, sync, destroy, callVars, thread, running, aborted>>

ThreadStep == Take \/ Run \/ SyncImp \/ Notify

-----------------------------------------------------------------------------
(* ~KernelStream, when nobody is inside Sync() *)

\* Mutant of SendDestroyMessage: the flag alone.
SetDestroyFlag ==
    /\ ~aborted /\ ~destroy
    /\ \A c \in Caller : caller[c] = "idle"
    /\ destroy' = TRUE
    /\ UNCHANGED <<launched, queue, sync, callVars, thread, workVars, aborted>>

SendDestroyMessage ==
    /\ ~aborted /\ ~destroy
    /\ \A c \in Caller : caller[c] = "idle"
    /\ destroy' = TRUE
    /\ queue' = Append(queue, NullKernel)
    /\ UNCHANGED <<launched, sync, callVars, thread, workVars, aborted>>

Join ==
    /\ ~aborted
    /\ thread = "exited"
    /\ thread' = "joined"
    /\ UNCHANGED <<launched, queue, sync, destroy, callVars, workVars, aborted>>

-----------------------------------------------------------------------------
CallerStep(c) == ResumeTurn(c) \/ ResumeDone(c)

\* Nobody is inside Sync() and the thread is blocked on an empty queue, or gone.
Rest ==
    /\ \A c \in Caller : caller[c] = "idle"
    /\ thread = "joined" \/ (thread = "loop" /\ queue = <<>>)
    /\ UNCHANGED streamVars

StreamNext ==
    \/ LaunchKernel
    \/ \E c \in Caller : Sync(c) \/ CallerStep(c) \/ SpuriousWake(c)
    \/ ThreadStep \/ GpuCompletes
    \/ SendDestroyMessage \/ Join \/ Rest

\* The stream thread, the device and a thread that has been woken up run;
\* nobody has to launch, to call Sync() or to destroy the stream.
StreamSpec ==
    /\ StreamInit /\ [][StreamNext]_streamVars
    /\ WF_streamVars(ThreadStep) /\ WF_streamVars(GpuCompletes) /\ WF_streamVars(Join)
    /\ \A c \in Caller : WF_streamVars(CallerStep(c))

-----------------------------------------------------------------------------
(* Properties *)

\* AsyncMain never meets a null kernel nobody is waiting for
\* (DAlwaysAssert(mSharedInfo.sync), kernel_stream.cc:84), although the flag is
\* one for all callers and they wake up in any order.
NoAbort == ~aborted

\* When Sync() returns, everything launched before it was called has finished,
\* on the device too: "Same as cudaStreamSynchronize: wait for all kernel
\* launch and finish" (kernel_stream.h:31).
SyncWaitsForAll ==
    [][\A c \in Caller : caller[c] = "waitDone" /\ caller'[c] = "idle"
            => 1..cover[c] \subseteq done]_streamVars

\* Every call of Sync() returns, whoever else calls it at the same time
\* (kernel_stream.cc:50: "Support multiple threads calling Sync concurrently").
\* MaxSync is part of the claim: callers that never stop calling can keep one
\* that wakes up late behind them for ever.
SyncReturns == \A c \in Caller : caller[c] # "idle" ~> caller[c] = "idle"

\* The destructor ends, whatever is still queued.
DestroyJoins == destroy ~> thread = "joined"

=============================================================================
