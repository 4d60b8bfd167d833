------------------------- MODULE DistributedTensors -------------------------
(***************************************************************************)
(* The distributed tensors of a program: Tensor.redistribute and the       *)
(* operators of the C++ API on them.                                       *)
(*                                                                         *)
(* A call translates into operators.  Each is inferred while it is added   *)
(* to the graph: its outputs get a shape, a mesh and placements, or the    *)
(* call throws.  The kernels run later and only see the tensors of their   *)
(* device: an operator is one step here, SameDeviceCollectives has the     *)
(* interleaving of its ranks.  whole is what torch makes of the call on    *)
(* undistributed tensors, a history variable of every operand.             *)
(***************************************************************************)
EXTENDS OrderlyCalls, FunctionalApi

CONSTANTS Placement,   \* placements of the dimensions of a mesh that a caller may
                       \* ask redistribute for
          Layout,      \* those of the tensors a program starts with
          Program      \* programs: the shapes of these tensors and how they are
                       \* filled, the meshes they may be on (sizes of the
                       \* dimensions and, in row-major order, the devices), the
                       \* calls of operators, and how many redistributions in
                       \* between, to which meshes

ASSUME DistributedTensorsAssumption ==
    \A p \in Program :
        /\ \A m \in p.meshes \cup p.targets : Len(m.ids) = Product(m.dims) /\ IsInjective(m.ids)
        /\ p.redistributions \in Nat

VARIABLES
    operands,   \* operands of the graph that are alive, the caller's tensors first
    queue,      \* what is left of the call: steps, one per operator
    handles,    \* places of the tensors the caller holds
    program,    \* what the caller has left: calls of operators, and how many
                \* redistributions at any time, to which meshes
    orderly,    \* history: no call has asked for what the code gets wrong
    aborted     \* a kernel failed

vars == <<operands, queue, handles, program, orderly, aborted>>

-----------------------------------------------------------------------------
(* What a call adds to the graph, one step per operator.  in are places in *)
(* operands, 0 for an input that is absent; held is the place the outputs  *)
(* take among the handles once the call returns, 0 if nobody holds them.   *)
(* A call that throws leaves the operators in front of the one that did.   *)

Step(op, in, rightly) == [op |-> op, in |-> in, held |-> 0, rightly |-> rightly]
Throw == <<Step(Exception, <<>>, TRUE)>>

HeldAs(place, steps) == [k \in DOMAIN steps |-> IF k = Len(steps) THEN [steps[k] EXCEPT !.held = place] ELSE steps[k]]

\* A step adds one operand, but for the last.
ResultOf(steps, i) == IF steps = <<>> THEN i ELSE Len(operands) + Len(steps)

Device0 == [dims |-> <<1>>, ids |-> <<0>>]
Convert(m, pl) == [kind |-> "convert", mesh |-> m, placements |-> pl]

\* The operators of one call of ConvertOpImpl::RunFunc.
ConvertPlacementsOneByOne(order, m, from, to) ==
    [i \in DOMAIN order |->
        Convert(m, [k \in DOMAIN from |-> IF k \in ToSet(SubSeq(order, 1, i)) THEN to[k] ELSE from[k]])]

RunFunc(x, toMesh, to) ==
    IF IsDistributed(x.mesh) /\ IsDistributed(toMesh)
    THEN ConvertPlacementsOneByOne(GetConvertOrder(x.placements, to), x.mesh, x.placements, to)
         \o (IF toMesh = x.mesh THEN <<>> ELSE <<Convert(toMesh, to)>>)
    ELSE <<Convert(toMesh, to)>>

\* One conversion after the other, of operand i of shape s, behind added steps.
\* ConvertOpImpl validates each.
Chained(ops, s, i, added, rightly) ==
    [k \in DOMAIN ops |->
        Step(IF CheckValid(s, ops[k].mesh, ops[k].placements) THEN ops[k] ELSE Exception,
             <<IF k = 1 THEN i ELSE Len(operands) + added + k - 1>>, rightly)]

\* _Redistribute(input, toMesh, asked) of operand i, which is, or will be, x.
RedistributeSteps(x, i, added, toMesh, to) ==
    IF \/ Len(to) # Len(toMesh.dims)
       \/ IsDistributed(x.mesh) /\ IsDistributed(toMesh) /\ Len(x.mesh.dims) # Len(toMesh.dims)
    THEN Throw
    ELSE Chained(RunFunc(x, toMesh, to), x.shape, i, added, Orderly(x, toMesh, to))

_Redistribute(x, i, added, toMesh, asked) ==
    IF Len(asked) # Len(toMesh.dims) THEN Throw
    ELSE RedistributeSteps(x, i, added, toMesh, Normalised(asked, toMesh, x.shape))

\* PlacementR2S(replicateTensor, shardTensor)
PlacementR2S(x, y) ==
    LET AxisInX(k) == y.placements[k].axis - Len(y.shape) + Len(x.shape)
        Follows(k) == /\ x.placements[k].kind = "R" /\ y.placements[k].kind = "S"
                      /\ AxisInX(k) >= 0 /\ x.shape[AxisInX(k) + 1] > 1
    IN  IF ~IsDistributed(x.mesh) \/ ~IsDistributed(y.mesh) THEN x.placements
        ELSE [k \in DOMAIN x.placements |->
                 IF Follows(k) THEN Shard(AxisInX(k), y.placements[k].sub) ELSE x.placements[k]]

PlacementR2SSteps(x, i, added, y) ==
    IF IsDistributed(x.mesh) /\ IsDistributed(y.mesh) /\ Len(x.placements) # Len(y.placements) THEN Throw
    ELSE _Redistribute(x, i, added, x.mesh, PlacementR2S(x, y))

\* BroadcastBinaryOpImpl: a replicated operand is brought to the placements of
\* the other, first of the second, then of the first.
SecondOperand(op, i, j, first) ==
    LET x == operands[i]
        y == operands[j]
    IN  PlacementR2SSteps(y, j, Len(first), [x EXCEPT !.placements = PlacementR2S(x, y)])
BothOperands(op, i, j, first, second) ==
    first \o second \o <<Step(op, <<ResultOf(first, i), IF second = <<>> THEN j ELSE ResultOf(first \o second, j)>>, TRUE)>>
BroadcastBinaryOpImpl(op, i, j) ==
    LET first == PlacementR2SSteps(operands[i], i, 0, operands[j])
    IN  BothOperands(op, i, j, first, SecondOperand(op, i, j, first))

\* _Copy: the source is brought to where the destination is.
CopySteps(op, i, j) ==
    LET x == operands[i]
        y == operands[j]
        moved == IF x.mesh = y.mesh /\ ~IsDistributed(x.mesh) THEN <<>>
                 ELSE IF ~IsDistributed(x.mesh) /\ IsDistributed(y.mesh) THEN _Redistribute(y, j, 0, Device0, <<Replicate>>)
                 ELSE _Redistribute(y, j, 0, x.mesh, x.placements)
    IN  moved \o <<Step(op, <<i, ResultOf(moved, j)>>, TRUE)>>

\* CreateOpImpl: what differs from element to element is made on device 0.
CreatedAlone(op, shape) ==
    <<Step([op EXCEPT !.mesh = Device0, !.placements = <<Replicate>>], <<>>, TRUE)>>
    \o _Redistribute([shape |-> shape, mesh |-> Device0, placements |-> <<Replicate>>], Len(operands) + 1, 1, op.mesh, op.placements)
CreateSteps(op) ==
    IF ~IsDistributed(op.mesh) \/ op.createKind \in {"full", "zeros", "ones"} THEN <<Step(op, <<>>, TRUE)>>
    ELSE IF CreateInfer(op) = Throws THEN Throw ELSE CreatedAlone(op, CreateInfer(op)[1])

\* _To: a mesh of the same form, on which the tensor is replicated.
ToSteps(x, i, mesh) ==
    IF mesh.dims # x.mesh.dims THEN Throw ELSE _Redistribute(x, i, 0, mesh, [k \in DOMAIN mesh.dims |-> Replicate])

\* _ApplyRotaryEmb: what is replicated is brought to the placements of x.
RotaryInputs(op, i, j, k, first, second) ==
    first \o second \o <<Step(op, <<i, ResultOf(first, j), IF second = <<>> THEN k ELSE ResultOf(first \o second, k)>>, TRUE)>>
ApplyRotaryEmbSteps(op, i, j, k) ==
    LET first == PlacementR2SSteps(operands[j], j, 0, operands[i])
    IN  RotaryInputs(op, i, j, k, first, PlacementR2SSteps(operands[k], k, Len(first), operands[i]))

\* _GetTensorAsync of operand i, which is, or will be, x: a distributed tensor
\* is gathered first.
GetTensorSteps(op, x, i, added) ==
    LET moved == IF IsDistributed(x.mesh) THEN _Redistribute(x, i, added, Device0, <<Replicate>>) ELSE <<>>
    IN  moved \o <<Step(op, <<IF moved = <<>> THEN i ELSE Len(operands) + added + Len(moved)>>, TRUE)>>

\* _GetMemoryStats: the rows of the devices are read like any tensor.
MemoryStatsSteps(op) ==
    <<Step(op, <<>>, TRUE)>>
    \o GetTensorSteps([kind |-> "get_tensor", asMemoryStats |-> TRUE],
                      [shape |-> MemoryInfer(op)[1], mesh |-> op.mesh, placements |-> op.placements], Len(operands) + 1, 1)

\* The functions of the API.
Steps(op, places) ==
    CASE op.kind = "throw" -> Throw
      [] op.kind = "input" -> <<>>
      [] op.kind = "broadcast_binary" /\ 0 \notin ToSet(places) -> BroadcastBinaryOpImpl(op, places[1], places[2])
      [] op.kind = "copy" -> CopySteps(op, places[1], places[2])
      [] op.kind = "to" -> ToSteps(operands[places[1]], places[1], op.mesh)
      [] op.kind = "create" -> CreateSteps(op)
      [] op.kind = "apply_rotary_emb" -> ApplyRotaryEmbSteps(op, places[1], places[2], places[3])
      [] op.kind = "memory" /\ ~InferNoOutput(op) -> MemoryStatsSteps(op)
      [] op.kind = "get_tensor" -> GetTensorSteps(op, operands[places[1]], places[1], 0)
      [] OTHER -> <<Step(op, places, TRUE)>>

-----------------------------------------------------------------------------
(* The caller *)

Idle == queue = <<>> /\ ~aborted

\* tensor = tensor.redistribute(toMesh, asked)
Redistribute(i, toMesh, asked) ==
    /\ Idle /\ program.redistributions > 0
    /\ program' = [program EXCEPT !.redistributions = @ - 1]
    /\ queue' = HeldAs(i, _Redistribute(operands[handles[i]], handles[i], 0, toMesh, asked))
    /\ UNCHANGED <<operands, handles, orderly, aborted>>

\* Output operands are new, but the result of set_item and copy is their input.
IsInPlace(op) == op.kind \in {"set_item", "copy"}

\* A call without operators gives its caller the tensor it was given.
Issue(op, places, steps) ==
    /\ queue' = HeldAs(IF IsInPlace(op) THEN 0 ELSE Len(handles) + 1, steps)
    /\ handles' = IF steps = <<>> THEN Append(handles, places[1]) ELSE handles
Begin(op, places) == Issue(op, places, Steps(op, places))

\* The next call of the program, which keeps its results and its operands.
\* call.in are numbers of tensors of the program, 0 for one that is absent.
Apply ==
    LET call == Head(program.calls)
    IN  /\ Idle /\ program.calls # <<>>
        /\ Begin(call.op, [i \in DOMAIN call.in |-> IF call.in[i] = Nullopt THEN 0 ELSE handles[call.in[i]]])
        /\ program' = [program EXCEPT !.calls = Tail(@)]
        /\ UNCHANGED <<operands, orderly, aborted>>

-----------------------------------------------------------------------------
(* Operators: GraphConstructor::AddOperator infers the outputs, and the    *)
(* kernels of all devices compute them.                                    *)

\* Tensor::GetNullTensorLike
NullTensorLike(x) == [shape |-> NullShape, mesh |-> x.mesh, placements |-> [k \in DOMAIN x.placements |-> Optional],
                      whole |-> Absent, local |-> <<>>, storage |-> Own(0)]
Operands(places) ==
    LET there == Min(ToSet(places) \ {0})
    IN  [i \in DOMAIN places |-> IF places[i] = 0 THEN NullTensorLike(operands[there]) ELSE operands[places[i]]]

\* The operands somebody still reads: those the steps left will, and those the
\* caller holds, but for what a step will replace if the call does not throw.
Readable(steps, held) ==
    LET replaced == IF \E k \in DOMAIN steps : steps[k].op = Exception THEN {} ELSE {steps[k].held : k \in DOMAIN steps}
    IN  UNION {ToSet(steps[k].in) : k \in DOMAIN steps} \cup {held[h] : h \in DOMAIN held \ replaced}
Read(steps, held) == Readable(steps, held) \cap DOMAIN operands

\* When the call returns or throws, only what the caller holds stays alive.
Kept(all, held, alive) ==
    /\ operands' = [i \in DOMAIN alive |->
           [all[alive[i]] EXCEPT !.storage.of = Min({k \in DOMAIN alive : all[alive[k]].storage.of = @})]]
    /\ handles' = [i \in DOMAIN held |-> CHOOSE k \in DOMAIN alive : alive[k] = held[i]]
Proceed(rest, all, held) ==
    /\ queue' = rest
    /\ IF rest = <<>> THEN Kept(all, held, SetToSortSeq(ToSet(held), <)) ELSE operands' = all /\ handles' = held

\* The program does not go on after an exception.
Raise == Proceed(<<>>, operands, handles) /\ program' = [program EXCEPT !.calls = <<>>] /\ UNCHANGED <<orderly, aborted>>

\* all: the operands and the outputs; held: what the caller holds of them.
HeldAfter(s, n) ==
    LET places == [j \in 1..n |-> Len(operands) + j]
    IN  IF s.held = 0 THEN handles
        ELSE SubSeq(handles, 1, s.held - 1) \o places \o SubSeq(handles, s.held + 1, Len(handles))

\* The operands a step leaves behind.
Written(s, in, new) ==
    IF IsInPlace(s.op) THEN [operands EXCEPT ![s.in[1]] = new[1]]
    ELSE IF ReduceScatters(s.op, in) THEN [operands EXCEPT ![s.in[1]] = AfterReduceScatter(s.op, @)] \o new
    ELSE operands \o new

\* The call asks for nothing that OrderlyCalls excludes.
OrderlyStep(s, in, out, held) ==
    /\ s.rightly
    /\ s.op.kind # "convert" => Sound(s.op, in, out)
    /\ WritesToInput(s.op, in) =>
          WritesToNobodyElse(s.op, in[1],
              {operands[i] : i \in Read(Tail(queue), held) \ (IF IsInPlace(s.op) THEN {s.in[1]} ELSE {})})

Complete(s, in, out, results) ==
    LET new == [j \in DOMAIN out |-> [shape |-> out[j].shape, mesh |-> out[j].mesh, placements |-> out[j].placements,
                                      whole |-> results[j].whole, local |-> results[j].local,
                                      storage |-> OutputStorage(s.op, in, Len(operands) + j)]]
        held == IF IsInPlace(s.op) THEN handles ELSE HeldAfter(s, Len(new))
    IN  /\ Proceed(Tail(queue), Written(s, in, new), held)
        /\ orderly' = (orderly /\ OrderlyStep(s, in, out, held))
        /\ aborted' = ~Survives(s.op, in, out, results)
        /\ UNCHANGED program

Execute(s, in, out) ==
    IF out = Throws THEN Raise ELSE Complete(s, in, out, Run(s.op, in, out))

\* Operators without outputs have nothing to infer.
ExecuteAlone(s, in) == IF SystemAccepts(s.op, in) THEN Complete(s, in, <<>>, <<>>) ELSE Raise

Infers(s, in) ==
    IF s.op = Exception THEN Raise
    ELSE IF InferNoOutput(s.op) THEN ExecuteAlone(s, in) ELSE Execute(s, in, InferOutput(s.op, in))

\* The next operator of the call.
RunOperator == queue # <<>> /\ ~aborted /\ Infers(Head(queue), Operands(Head(queue).in))

\* A tensor the program has distributed before.  The summands of a partial one
\* are not what a scatter makes of it.
Tampered(f, m, pl) ==
    LET partial == {k \in DOMAIN pl : pl[k] = Partial}
        Surplus(c) == CASE partial = {} -> 0
                        [] partial # {} /\ \A k \in partial : c[k] = 0 -> 1
                        [] partial # {} /\ \A k \in partial : c[k] = m.dims[k] - 1 -> Prime - 1
                        [] OTHER -> 0
    IN  [c \in DOMAIN f |-> Elementwise(LAMBDA x : Plus(x, Surplus(c)), f[c])]
Distributed(t, m, pl, place) ==
    [shape |-> t.shape, mesh |-> m, placements |-> pl, whole |-> t, storage |-> Own(place),
     local |-> OnMesh(Tampered(Scather(t, m, pl), m, pl), m)]

Fill(s, fill, i) ==
    Tensor(s, [c \in Coordinates(s) |->
        LET n == ComputeIndex(c, s)
        IN  CASE fill = "distinct" -> 2 + n + 40 * i
              [] fill = "words" -> (n * n + i) % 3
              [] fill = "mask" -> ((n * n + n) \div 2 + i) % 2])

Init ==
    \E p \in Program : \E m \in p.meshes : \E pls \in [DOMAIN p.tensors -> [DOMAIN m.dims -> Layout]] :
        LET t(i) == Fill(p.tensors[i].shape, p.tensors[i].fill, i)
        IN  /\ \A i \in DOMAIN pls : CheckValid(t(i).shape, m, pls[i]) /\ EvenSubSplits(t(i).shape, m, pls[i])
            /\ operands = [i \in DOMAIN pls |-> Distributed(t(i), m, pls[i], i)]
            /\ handles = [i \in DOMAIN pls |-> i]
            /\ program = [calls |-> p.calls, redistributions |-> p.redistributions, targets |-> p.targets]
            /\ queue = <<>> /\ orderly = TRUE /\ aborted = FALSE

Rest == (aborted \/ (queue = <<>>)) /\ UNCHANGED vars

Next ==
    \/ \E i \in DOMAIN handles, m \in program.targets : \E to \in [DOMAIN m.dims -> Placement] : Redistribute(i, m, to)
    \/ Apply
    \/ RunOperator
    \/ Rest

DistributedTensorsSpec == Init /\ [][Next]_vars

-----------------------------------------------------------------------------
(* Properties *)

\* What the devices hold along the partial dimensions of the mesh, added up.
Summed(x) ==
    LET f == ByCoordinate(x.local, x.mesh)
        whole == {k \in DOMAIN x.placements : x.placements[k] # Partial}
        Others(c) == {d \in DOMAIN f \ {c} : \A k \in whole : d[k] = c[k]}
    IN  [c \in DOMAIN f |-> FoldSet(LAMBDA d, sum : Add(f[d], sum), f[c], Others(c))]

Declared(x) ==
    Scather(x.whole, x.mesh, [k \in DOMAIN x.placements |-> IF x.placements[k] = Partial THEN Replicate ELSE x.placements[k]])

\* Every operand that is still read is on the devices what its placements say: the shards of what torch makes of the same calls on whole tensors, or
\* summands of them, in the shapes Operand::GetLocalShape announces.  So what
\* InferOutputMetaInfo and GetPlacementSignature promise for an operator, and
\* GetConvertOrder for a conversion, the kernels keep in any sequence of calls
\* that OrderlyCalls does not exclude.
HoldsWhatIsAnnounced ==
    orderly /\ ~aborted =>
        \A i \in Read(queue, handles) :
            LET x == operands[i]
            IN  /\ Summed(x) = Declared(x)
                /\ \A c \in Coordinates(x.mesh.dims) :
                      x.local[Device(x.mesh, c)].shape = GetLocalShape(x.shape, x.mesh, x.placements, c)

\* A call that has been accepted (Operator::Infer, DistributedSpec::CheckValid)
\* ends in no failed assertion, no exception of torch and no unimplemented case
\* of a kernel, unless OrderlyCalls excludes it: an error a kernel finds ends
\* the process.
OrderlyNeverAborts == orderly => ~aborted

\* A tensor gathered on one device is the tensor the program started from,
\* whatever valid placements it has been through (distributed_tensor.md,
\* ConvertKernel::GatherTensor).
ReadsBackWhole ==
    queue = <<>> /\ ~aborted =>
        \A i \in DOMAIN operands : ~IsDistributed(operands[i].mesh) =>
            operands[i].local[operands[i].mesh.ids[1]] = operands[i].whole
=============================================================================
