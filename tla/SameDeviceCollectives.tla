------------------------ MODULE SameDeviceCollectives ------------------------
(***************************************************************************)
(* ThreadGroup's collectives when all ranks share one GPU:                 *)
(* ThreadGroupSameDeviceBackend translates every collective into handshakes*)
(* of a TensorStore, and ThreadGroup's methods prepare its arguments.      *)
(*                                                                         *)
(* A collective is a straight-line program per rank, given below as a      *)
(* sequence of instructions; Exec interprets one instruction of one rank   *)
(* in one step, so that ranks interleave between any two of them.  Tensors *)
(* are handles to storage cells: two registers may name the same cell, an  *)
(* in-place addition changes the cell under every handle, and DestGet      *)
(* yields the producer's own cell inside one process (kMemory, or kFile    *)
(* between threads of one process) and a copy across processes (kFile).    *)
(***************************************************************************)
EXTENDS StoreLifetime, Sequences, SequencesExt, Functions, TLC

CONSTANT Scenario      \* the jobs to consider: collectives to run, in order,
                       \* and the process every rank lives in

N == WorldSize

CollectiveName == {"AllReduce", "ReduceScatterTensor", "EqualShapeAllGatherIntoTensor",
                   "AllGather", "AllToAll", "reduce"}

ASSUME CollectiveAssumption ==
    \A s \in Scenario : /\ s.work \in Seq(CollectiveName)
                        /\ Len(s.work) <= MaxReset
                        /\ s.process \in [Rank -> Rank]

VARIABLES
    Work,    \* the collectives to run, in order; it never changes
    heap,    \* contents of the storage cells: sequences of N elements or fewer
    reg,     \* reg[r]: the local variables of rank r, lists of handles
    output,  \* output[r]: what each finished collective returned to rank r
    step,    \* index into Work of the collective rank r is executing
    ip       \* index of its next instruction

progVars == <<Work, heap, reg, output, step, ip>>
collVars == <<storeVars, lifeVars, progVars>>

-----------------------------------------------------------------------------
(* Storage.  A handle is a cell, or one element of it (a torch view), in  *)
(* the address space of a process.                                         *)

Whole == 0
Handle(cell, part, process) == [cell |-> cell, part |-> part, process |-> process]
InputCell(n, r) == <<"input", n, r>>

\* The operand's element j of rank r: sums and permutations are all distinct.
InputValue(r) == [j \in 1..N |-> (10 ^ r) * j]

Contents(h) == IF h.part = Whole THEN heap[h.cell] ELSE <<heap[h.cell][h.part]>>
ContentsOf(hs) == FlattenSeq([i \in 1..Len(hs) |-> Contents(hs[i])])

\* A cell written by rank r for the i-th instruction of collective n.
NewCell(n, r, i) == <<"new", n, r, i>>

\* The storage with one more cell.
Allocated(cell, contents) ==
    [c \in DOMAIN heap \cup {cell} |-> IF c = cell THEN contents ELSE heap[c]]

-----------------------------------------------------------------------------
(* Instructions and programs *)

RankKey(r) == <<"rank", r>>
ResultKey  == <<"result">>

\* Mutant of PairKey: the key names the source only.
SourceKey(s, d) == <<"pair", s, s>>

PairKey(s, d) == <<"pair", s, d>>

ASSUME KeyAssumption ==
    {RankKey(r) : r \in Rank} \cup {ResultKey} \cup {PairKey(s, d) : s \in Rank, d \in Rank} \subseteq Key

Set(key, src, count) == [op |-> "set", key |-> key, src |-> src, count |-> count]
Get(key)       == [op |-> "get", key |-> key]
Finish(key)    == [op |-> "finish", key |-> key]
Wait(key)      == [op |-> "wait", key |-> key]
Bind(dst)      == [op |-> "bind", dst |-> dst]       \* dst = DestGet(..)
Push(dst)   == [op |-> "append", dst |-> dst]     \* dst.push_back(DestGet(..))
AddTo(dst)     == [op |-> "add", dst |-> dst]        \* dst += DestGet(..)
Clone(dst, src)   == [op |-> "clone", dst |-> dst, src |-> src]   \* also torch::concat
Chunk(dst, src, part) == [op |-> "chunk", dst |-> dst, src |-> src, part |-> part]
BarrierOp      == [op |-> "barrier"]
ResetOp        == [op |-> "reset"]

\* The backend's own Reset(): the store's Reset between two barriers.
BackendReset == <<BarrierOp, ResetOp, BarrierOp>>

ForRanks(from, Body(_)) == FlattenSeq([i \in 1..(N - from) |-> Body(from + i - 1)])

\* for rankIdx in from..N-1: reg += DestGet(rankIdx); DestFinishGet(rankIdx)
Accumulate(dst, from) ==
    LET One(i) == <<Get(RankKey(i)), AddTo(dst), Finish(RankKey(i))>>
    IN  ForRanks(from, One)

\* `root' adds everyone's `src' into the tensor rank 0 published.
ReduceAtRoot(root, r, src) ==
    <<Set(RankKey(r), src, 1)>>
    \o (IF r = root
        THEN <<Get(RankKey(0)), Bind("result"), Finish(RankKey(0))>> \o Accumulate("result", 1)
        ELSE <<>>)
    \o <<Wait(RankKey(r))>>

\* Rank 0 hands its result to all the others.
ShareResult(r) ==
    IF r = 0
    THEN <<Set(ResultKey, "result", N - 1), Wait(ResultKey)>>
    ELSE <<Get(ResultKey), Bind("result"), Finish(ResultKey)>>

\* Mutant of AllReduce: the backend gets the caller's tensor.
AllReduceWithoutClone(r) ==
    ReduceAtRoot(0, r, "input") \o ShareResult(r)
    \o BackendReset \o <<Chunk("output", "result", Whole)>>

\* ThreadGroup::AllReduce clones its input first: the backend adds in place.
AllReduce(r) ==
    <<Clone("tensor", "input")>> \o ReduceAtRoot(0, r, "tensor") \o ShareResult(r)
    \o BackendReset \o <<Chunk("output", "result", Whole)>>

\* ThreadGroup::ReduceScatterTensor passes its input through.
ReduceScatterTensor(r) ==
    ReduceAtRoot(0, r, "input") \o ShareResult(r)
    \o <<Chunk("output", "result", r + 1)>> \o BackendReset

\* _allgather_base: rank 0 concatenates and shares; the input is contiguous.
EqualShapeAllGatherIntoTensor(r) ==
    LET One(i) == <<Get(RankKey(i)), Push("all"), Clone("result", "all"), Finish(RankKey(i))>>
    IN  <<Set(RankKey(r), "input", 1)>>
        \o (IF r = 0 THEN ForRanks(0, One) ELSE <<>>)
        \o <<Wait(RankKey(r))>> \o ShareResult(r)
        \o <<Chunk("output", "result", Whole)>> \o BackendReset

\* allgather, then ThreadGroup::AllGather concatenates.
AllGather(r) ==
    LET One(i) == <<Get(RankKey(i)), Push("all"), Finish(RankKey(i))>>
    IN  <<Set(RankKey(r), "input", N)>> \o ForRanks(0, One) \o <<Wait(RankKey(r))>>
        \o BackendReset \o <<Clone("output", "all")>>

\* ThreadGroup::AllToAll splits the input into contiguous chunks, the backend
\* publishes them all before it gets any.
AllToAll(r) ==
    LET Publish(i) == <<Chunk("chunk", "input", i + 1), Clone("chunk", "chunk"),
                        Set(PairKey(r, i), "chunk", 1)>>
        Collect(i) == <<Get(PairKey(i, r)), Push("all"), Finish(PairKey(i, r))>>
        Await(i)   == <<Wait(PairKey(r, i))>>
    IN  ForRanks(0, Publish) \o ForRanks(0, Collect) \o ForRanks(0, Await)
        \o BackendReset \o <<Clone("output", "all")>>

\* The backend's reduce, with rootRank 1: the result stays at the root.
ReduceRoot == 1
reduce(r) ==
    ReduceAtRoot(ReduceRoot, r, "input")
    \o <<Chunk("output", IF r = ReduceRoot THEN "result" ELSE "input", Whole)>> \o BackendReset

\* ConvertPlacements and InitTensorStore call Barrier() before anything else.
Program(name, r) ==
    <<BarrierOp>> \o
    CASE name = "AllReduce" -> AllReduce(r)
      [] name = "ReduceScatterTensor" -> ReduceScatterTensor(r)
      [] name = "EqualShapeAllGatherIntoTensor" -> EqualShapeAllGatherIntoTensor(r)
      [] name = "AllGather" -> AllGather(r)
      [] name = "AllToAll" -> AllToAll(r)
      [] name = "reduce" -> reduce(r)

-----------------------------------------------------------------------------
(* Execution *)

Running(r) == step[r] <= Len(Work)
Code(r)  == Program(Work[step[r]], r)
Instr(r) == Code(r)[ip[r]]

\* The local variables at the start of collective n.
FreshRegs(n, r) ==
    [v \in {"input", "tensor", "result", "chunk", "all", "output"} |->
        IF v = "input" THEN <<Handle(InputCell(n, r), Whole, pid[r])>> ELSE <<>>]

CollInit ==
    /\ StoreInit
    /\ LifeInit
    /\ \E s \in Scenario : Work = s.work /\ pid = s.process
    /\ heap = [c \in {InputCell(n, r) : n \in 1..Len(Work), r \in Rank} |-> InputValue(c[3])]
    /\ reg = [r \in Rank |-> FreshRegs(1, r)]
    /\ output = [r \in Rank |-> <<>>]
    /\ step = [r \in Rank |-> 1]
    /\ ip = [r \in Rank |-> 1]

\* Rank r, outside the store, is at an instruction of this kind.
AtInstr(r, op) == pc[r] = "idle" /\ Running(r) /\ Instr(r).op = op

\* Go on with the locals `regs': to the next instruction, or to the next
\* collective, keeping what this one returned.
Advance(r, regs) ==
    IF ip[r] < Len(Code(r))
    THEN /\ ip' = [ip EXCEPT ![r] = @ + 1]
         /\ reg' = [reg EXCEPT ![r] = regs]
         /\ UNCHANGED <<output, step>>
    ELSE /\ ip' = [ip EXCEPT ![r] = 1]
         /\ step' = [step EXCEPT ![r] = @ + 1]
         /\ reg' = [reg EXCEPT ![r] = FreshRegs(step[r] + 1, r)]
         /\ output' = [output EXCEPT ![r] = Append(@, regs["output"])]

Keep(r) == Advance(r, reg[r])
Assign(r, dst, handles) == Advance(r, [reg[r] EXCEPT ![dst] = handles])

Here(r) == NewCell(step[r], r, ip[r])

\* Mutant of Received: another process keeps the IPC handle itself.
ReceivedHandle(r) == got[r]

\* The tensor DestGet handed out: the producer's handle in the producer's
\* process, a copy elsewhere (FileTensorStore::DestGet clones IPC memory).
Received(r) == IF got[r].process = pid[r] THEN got[r] ELSE Handle(Here(r), Whole, pid[r])
HeapWithReceived(r) ==
    IF got[r].process = pid[r] THEN heap ELSE Allocated(Here(r), Contents(got[r]))

ExecSet(r) ==
    /\ AtInstr(r, "set")
    /\ SrcSet(r, Instr(r).key, reg[r][Instr(r).src][1], Instr(r).count)
    /\ Keep(r)
    /\ UNCHANGED heap

ExecGet(r) == AtInstr(r, "get") /\ DestGet(r, Instr(r).key) /\ Keep(r) /\ UNCHANGED heap

ExecFinish(r) == AtInstr(r, "finish") /\ DestFinishGet(r, Instr(r).key) /\ Keep(r) /\ UNCHANGED heap

ExecWait(r) ==
    AtInstr(r, "wait") /\ SrcWaitUntilGetFinished(r, Instr(r).key) /\ Keep(r) /\ UNCHANGED heap

ExecBarrier(r) == AtInstr(r, "barrier") /\ Barrier(r) /\ Keep(r) /\ UNCHANGED heap

ExecReset(r) == AtInstr(r, "reset") /\ Reset(r) /\ Keep(r) /\ UNCHANGED heap

ExecBind(r) ==
    /\ AtInstr(r, "bind")
    /\ heap' = HeapWithReceived(r)
    /\ Assign(r, Instr(r).dst, <<Received(r)>>)
    /\ UNCHANGED storeVars

ExecAppend(r) ==
    /\ AtInstr(r, "append")
    /\ heap' = HeapWithReceived(r)
    /\ Assign(r, Instr(r).dst, Append(reg[r][Instr(r).dst], Received(r)))
    /\ UNCHANGED storeVars

\* operator+= changes the cell itself; every accumulator is a whole cell.
ExecAdd(r) ==
    /\ AtInstr(r, "add")
    /\ LET cell == reg[r][Instr(r).dst][1].cell
           addend == Contents(got[r])
       IN  heap' = [heap EXCEPT ![cell] = [j \in 1..N |-> @[j] + addend[j]]]
    /\ Keep(r)
    /\ UNCHANGED storeVars

ExecClone(r) ==
    /\ AtInstr(r, "clone")
    /\ heap' = Allocated(Here(r), ContentsOf(reg[r][Instr(r).src]))
    /\ Assign(r, Instr(r).dst, <<Handle(Here(r), Whole, pid[r])>>)
    /\ UNCHANGED storeVars

ExecChunk(r) ==
    /\ AtInstr(r, "chunk")
    /\ Assign(r, Instr(r).dst, <<[reg[r][Instr(r).src][1] EXCEPT !.part = Instr(r).part]>>)
    /\ UNCHANGED <<storeVars, heap>>

Exec(r) ==
    \/ ExecSet(r) \/ ExecGet(r) \/ ExecFinish(r) \/ ExecWait(r)
    \/ ExecBarrier(r) \/ ExecReset(r)
    \/ ExecBind(r) \/ ExecAppend(r) \/ ExecAdd(r) \/ ExecClone(r) \/ ExecChunk(r)

\* Inside the store's operations; what Reset clears is StoreLifetime's.
StoreStep(r) ==
    \/ ConstructBarrier(r) \/ ResumeBarrier(r) \/ NotifyBarrier(r) \/ ResetSecondBarrier(r)
    \/ NotifyAll(r) \/ ResumeSrcWait(r) \/ ResumeDestGet(r)

RankStep(r) ==
    \/ Live(r, "running") /\ Exec(r) /\ UNCHANGED <<Work, lifeVars>>
    \/ StoreStep(r) /\ UNCHANGED <<lifeVars, progVars>>
    \/ LifeStep(r) /\ UNCHANGED progVars
    \/ ~Running(r) /\ DestroyStore(r) /\ UNCHANGED progVars

Finished(r) == ~Running(r) /\ life[r] = "gone"

\* When all ranks have finished there is no next step.
CollNext == \E r \in Rank : RankStep(r)

\* Kernels of different ranks run on threads or processes of their own.
CollSpec ==
    /\ CollInit
    /\ [][CollNext]_collVars
    /\ \A r \in Rank : WF_collVars(RankStep(r))

-----------------------------------------------------------------------------
CollTypeOK ==
    /\ aborted \in BOOLEAN
    /\ step \in [Rank -> 1..(Len(Work) + 1)]
    /\ \A r \in Rank : Running(r) => ip[r] \in 1..Len(Code(r))
    /\ \A r \in Rank : Len(output[r]) = step[r] - 1
    /\ \A r \in Rank : Running(r) =>
            \A v \in DOMAIN reg[r] : \A i \in 1..Len(reg[r][v]) :
                reg[r][v][i].cell \in DOMAIN heap

SumOfInputs == [j \in 1..N |-> FoldFunction(+, 0, [r \in Rank |-> InputValue(r)[j]])]

Expected(name, r) ==
    CASE name = "AllReduce" -> SumOfInputs
      [] name = "ReduceScatterTensor" -> <<SumOfInputs[r + 1]>>
      [] name \in {"EqualShapeAllGatherIntoTensor", "AllGather"} ->
            FlattenSeq([i \in 1..N |-> InputValue(i - 1)])
      [] name = "AllToAll" -> [i \in 1..N |-> InputValue(i - 1)[r + 1]]
      [] name = "reduce" -> IF r = ReduceRoot THEN SumOfInputs ELSE InputValue(r)

\* Each collective returns on every rank what its name promises: the sum, this
\* rank's slice of it, the concatenation in rank order, the transposed chunks
\* (thread_group_same_device_backend.cc) - and the returned tensor keeps that
\* value while later collectives run and reuse the store's keys.
ResultsCorrect ==
    \A r \in Rank : \A n \in 1..Len(output[r]) :
        ContentsOf(output[r][n]) = Expected(Work[n], r)

OperandPreserved(n) == \A r \in Rank : heap[InputCell(n, r)] = InputValue(r)

\* A conversion is not an in-place operator: it leaves its operand's tensor as
\* it was on every rank (operand.h:23 lists the operators that do not).
InputsPreserved == \A n \in 1..Len(Work) : OperandPreserved(n)

\* The backend adds in place into the tensor rank 0 publishes.  The collectives
\* that never add, and AllReduce because ThreadGroup clones first, leave every
\* operand as it was, on every rank and while later collectives run.
OperandsNotAccumulated ==
    \A n \in 1..Len(Work) :
        Work[n] \notin {"ReduceScatterTensor", "reduce"} => OperandPreserved(n)

\* No rank waits for a tensor nobody sets or for a reader that never comes:
\* all ranks find each other, get through all the collectives and let go of
\* the store, and no file of the group stays in shared memory
\* (thread_group_same_device_backend.cc:60, file_tensor_store.cc:143).
CollectivesComplete == <>((\A r \in Rank : Finished(r)) /\ NoFileLeft)

=============================================================================
