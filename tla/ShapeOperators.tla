---------------------------- MODULE ShapeOperators ----------------------------
(***************************************************************************)
(* The operators that move elements: joining and cutting, dimensions,      *)
(* shapes, repetition, indexing and creation.  Conventions are those of    *)
(* MathOperators.                                                          *)
(***************************************************************************)
EXTENDS MathOperators

Axis(s, dim) == GetValidDim(s, dim) + 1

-----------------------------------------------------------------------------
(* Joining and cutting *)

ConcatInfer(op, in) ==
    LET s    == in[1].shape
        axis == Axis(s, op.dim)
    IN  When(\A i \in DOMAIN in : [in[i].shape EXCEPT ![axis] = s[axis]] = s,
             <<[s EXCEPT ![axis] = Sum([i \in DOMAIN in |-> in[i].shape[axis]])]>>)

\* Two inputs cut along the joined dimension make a dimension cut in two parts.
ConcatSignature(op, in) ==
    LET s   == in[1].shape
        dim == GetValidDim(s, op.dim)
        All(p) == [i \in DOMAIN in |-> p]
    IN  Finish(<<Build(All(Partial), <<Partial>>)>>
               \o ForAxes(Dims(s) \ {dim}, LAMBDA i : Build(All(S(i)), <<S(i)>>))
               \o (IF Len(in) = 2 THEN <<Build(All(S(dim)), <<Shard(dim, s[dim + 1] - 1)>>)>> ELSE <<>>),
               Len(in), 1)

ConcatCompute(op, ts) == <<Concat(ts, AxisOf(ts[1].shape, op.dim))>>

\* torch.chunk: pieces of equal size, the last of which may be shorter.
ChunkInfer(op, in) ==
    LET s    == in[1].shape
        axis == Axis(s, op.dim)
        each == IF s[axis] <= op.chunks THEN 1 ELSE (s[axis] + op.chunks - 1) \div op.chunks
        n    == (s[axis] + each - 1) \div each
    IN  When(ShardDims(in[1].placements, axis - 1) = {},
             [i \in 1..n |-> [s EXCEPT ![axis] = IF i < n THEN each ELSE @ - each * (n - 1)]])
ChunkCompute(op, ts) == TorchChunk(ts[1], op.chunks, AxisOf(ts[1].shape, op.dim))

-----------------------------------------------------------------------------
(* Dimensions *)

TransposeInfer(op, in) ==
    LET s == in[1].shape IN <<Exchanged(s, Axis(s, op.dim0), Axis(s, op.dim1))>>
TransposeSignature(op, in) ==
    LET s     == in[1].shape
        order == Exchanged([i \in DOMAIN s |-> i - 1], Axis(s, op.dim0), Axis(s, op.dim1))
    IN  Finish(PartialStays \o [i \in DOMAIN s |-> Keeps(i - 1, order[i])], 1, 1)
TransposeCompute(op, ts) ==
    LET s == ts[1].shape
    IN  <<TorchPermute(ts[1], Exchanged([i \in DOMAIN s |-> i], AxisOf(s, op.dim0), AxisOf(s, op.dim1)))>>

PermuteInfer(op, in) ==
    LET s == in[1].shape
    IN  When(Len(op.dims) = Len(s) /\ IsInjective([i \in DOMAIN op.dims |-> GetValidDim(s, op.dims[i])]),
             <<[i \in DOMAIN op.dims |-> s[Axis(s, op.dims[i])]]>>)
PermuteSignature(op, in) ==
    Finish(PartialStays \o [i \in DOMAIN op.dims |-> Keeps(GetValidDim(in[1].shape, op.dims[i]), i - 1)], 1, 1)
PermuteCompute(op, ts) == <<TorchPermute(ts[1], [i \in DOMAIN op.dims |-> AxisOf(ts[1].shape, op.dims[i])])>>

\* The dimensions that go: of size 1, and named if any are.
SqueezedAxes(s, dims) == {i \in DOMAIN s : s[i] = 1 /\ (dims = <<>> \/ \E d \in ToSet(dims) : AxisOf(s, d) = i)}
SqueezeInfer(op, in) == <<WithoutAxes(in[1].shape, SqueezedAxes(in[1].shape, op.dims))>>
SqueezeSignature(op, in) ==
    LET s    == in[1].shape
        gone == {i - 1 : i \in SqueezedAxes(s, op.dims)}
    IN  Finish(PartialStays \o ForAxes(Dims(s) \ gone, LAMBDA i : Keeps(i, i - Cardinality(gone \cap 0..i))), 1, 1)
SqueezeCompute(op, ts) ==
    LET s == ts[1].shape IN <<TorchReshape(ts[1], WithoutAxes(s, SqueezedAxes(s, op.dims)))>>

\* A negative dimension counts from the end of the output; in the signature,
\* from the end of the input.
UnsqueezeInfer(op, in) ==
    LET s    == in[1].shape
        axis == GetValidDim(s \o <<1>>, op.dim) + 1
    IN  When(IsValidDim(s \o <<1>>, op.dim), <<InsertAt(s, axis, 1)>>)
UnsqueezeSignature(op, in) ==
    LET s == in[1].shape
        dim == GetValidDim(s, op.dim)
    IN  Finish(PartialStays \o ForAxes(Dims(s), LAMBDA i : Keeps(i, IF i < dim THEN i ELSE i + 1)), 1, 1)
UnsqueezeCompute(op, ts) ==
    LET s == ts[1].shape
    IN  <<TorchReshape(ts[1], InsertAt(s, AxisOf(s \o <<1>>, op.dim), 1))>>

-----------------------------------------------------------------------------
(* Shapes *)

\* A size of -1 keeps that of the input, and in the parameter it is replaced,
\* so that the kernel sees the size of the whole tensor.
ExpandShape(op, s) ==
    [i \in DOMAIN op.shape |-> IF op.shape[i] = -1 THEN s[i + Len(s) - Len(op.shape)] ELSE op.shape[i]]
ExpandInfer(op, in) ==
    LET s == in[1].shape
    IN  When(CanBroadcastWith(s, ExpandShape(op, s)), <<BroadcastOutputShape(s, ExpandShape(op, s))>>)
ExpandSignature(op, in) ==
    LET s    == in[1].shape
        more == Len(ExpandInfer(op, in)[1]) - Len(s)
    IN  Finish(PartialStays \o ForAxes(Dims(s), LAMBDA i : Keeps(i, more + i)), 1, 1)
ExpandCompute(op, in, ts) == <<TorchExpand(ts[1], ExpandShape(op, in[1].shape))>>

FlattenInfer(op, in) ==
    LET s     == in[1].shape
        first == Axis(s, op.startDim)
        last  == Axis(s, op.endDim)
    IN  When(first <= last, <<SubSeq(s, 1, first - 1) \o <<Product(SubSeq(s, first, last))>>
                              \o SubSeq(s, last + 1, Len(s))>>)
\* The dimensions behind the joined ones move one too far to the front.
FlattenSignature(op, in) ==
    LET s     == in[1].shape
        start == GetValidDim(s, op.startDim)
        end   == GetValidDim(s, op.endDim)
    IN  Finish(PartialStays \o ForAxes(0..start, LAMBDA i : Keeps(i, i))
               \o ForAxes((end + 1)..(Len(s) - 1), LAMBDA i : Keeps(i, i - (end - start + 1))), 1, 1)
FlattenCompute(op, ts) ==
    LET s     == ts[1].shape
        first == AxisOf(s, op.startDim)
        last  == AxisOf(s, op.endDim)
    IN  <<TorchReshape(ts[1], SubSeq(s, 1, first - 1) \o <<Product(SubSeq(s, first, last))>>
                              \o SubSeq(s, last + 1, Len(s)))>>

\* ReshapeOp::CalculateOutputShape: 0 keeps a size, -1 is what remains.
ReshapeShape(shape, s) ==
    LET kept  == [i \in DOMAIN shape |-> IF shape[i] = 0 THEN s[i] ELSE shape[i]]
        known == Product([i \in DOMAIN kept |-> IF kept[i] = -1 THEN 1 ELSE kept[i]])
    IN  [i \in DOMAIN kept |-> IF kept[i] = -1 THEN Product(s) \div known ELSE kept[i]]
ReshapeInfer(op, in) ==
    LET s == in[1].shape
    IN  IF \/ \E i \in DOMAIN op.shape : op.shape[i] <= -2 \/ (op.shape[i] = 0 /\ i > Len(s))
           \/ Cardinality({i \in DOMAIN op.shape : op.shape[i] = -1}) > 1
        THEN Throws
        ELSE When(Product(ReshapeShape(op.shape, s)) = Product(s), <<ReshapeShape(op.shape, s)>>)

\* Leading dimensions up to and with the first that differs, and trailing ones
\* before it, keep their shards.
ReshapeRules(s, u) ==
    LET n == Min({Len(s), Len(u)})
        front == {i \in 0..(n - 1) : \A j \in 1..i : s[j] = u[j]}
        back  == {i \in 0..(n - 1) : \A j \in 0..i : s[Len(s) - j] = u[Len(u) - j]}
    IN  PartialStays \o ForAxes(front, LAMBDA i : Keeps(i, i))
        \o ForAxes(back, LAMBDA i : Keeps(Len(s) - 1 - i, Len(u) - 1 - i))
ReshapeSignature(op, in) == Finish(ReshapeRules(in[1].shape, ReshapeInfer(op, in)[1]), 1, 1)

\* tensor.view(shape), whose size nothing compares with that of the input.
ViewInfer(op, in) ==
    LET known == Product([i \in DOMAIN op.shape |-> IF op.shape[i] = -1 THEN 1 ELSE op.shape[i]])
    IN  <<[i \in DOMAIN op.shape |-> IF op.shape[i] = -1 THEN Product(in[1].shape) \div known ELSE op.shape[i]]>>
ViewSignature(op, in) == Finish(ReshapeRules(in[1].shape, ViewInfer(op, in)[1]), 1, 1)

\* The same tensors under other placements, which nothing compares with those
\* of the input.
ViewPlacementsInfer(op, in) == When(CheckShapeValid(in[1].shape, in[1].mesh, op.placements), <<in[1].shape>>)
ViewPlacementsCompute(ts) == <<ts[1]>>

\* ViewKernel: into the shape announced for the device.
ViewCompute(ts, localShape) == <<TorchReshape(ts[1], localShape)>>

-----------------------------------------------------------------------------
(* Repetition *)

RepeatInfer(op, in) ==
    LET s == in[1].shape
    IN  When(Len(op.repeat) >= Len(s) /\ \A i \in DOMAIN op.repeat : op.repeat[i] >= 0,
             <<[i \in DOMAIN op.repeat |-> ExpandBefore(s, Len(op.repeat))[i] * op.repeat[i]]>>)
RepeatCompute(op, ts) == <<TorchRepeat(ts[1], op.repeat)>>

\* Without a dimension, of all elements in a row.
RepeatInterleaveInfer(op, in) ==
    LET s == in[1].shape
    IN  IF op.dim = <<>> THEN <<<<Product(s) * op.repeats>>>>
        ELSE <<[s EXCEPT ![Axis(s, op.dim[1])] = @ * op.repeats]>>
RepeatInterleaveSignature(op, in) ==
    LET s == in[1].shape
    IN  Finish(PartialStays \o (IF op.dim = <<>> THEN <<>>
                                ELSE ForAxes(Dims(s) \ {GetValidDim(s, op.dim[1])}, LAMBDA i : Keeps(i, i))), 1, 1)
RepeatInterleaveCompute(op, ts) ==
    LET t == ts[1]
    IN  <<IF op.dim = <<>> THEN TorchRepeatInterleave(TorchReshape(t, <<Product(t.shape)>>), op.repeats, 1)
          ELSE TorchRepeatInterleave(t, op.repeats, AxisOf(t.shape, op.dim[1]))>>

\* op.pad: before and after the last dimension, then the one in front of it.
PadInfer(op, in) ==
    LET s == in[1].shape
        Pads(i) == LET k == 2 * (Len(s) - i) + 1 IN IF k < Len(op.pad) THEN op.pad[k] + op.pad[k + 1] ELSE 0
    IN  When(/\ Len(op.pad) >= 2 /\ Len(op.pad) % 2 = 0 /\ Len(op.pad) <= 2 * Len(s)
             /\ \A i \in DOMAIN s : s[i] + Pads(i) >= 0,
             <<[i \in DOMAIN s |-> s[i] + Pads(i)]>>)
PadCompute(op, ts) == <<TorchPad(ts[1], op.pad[1], op.pad[2], op.value)>>

-----------------------------------------------------------------------------
(* Indexing.  Entries are those of TorchFunctions and one "ellipsis", which *)
(* stands for the axes nobody else consumes; else they are the last ones.   *)

Expanded(index, s) ==
    LET given == Cardinality({i \in DOMAIN index : index[i].is \notin {"none", "ellipsis"}})
        rest  == [i \in 1..(Len(s) - given) |-> [is |-> "all"]]
        dots  == {i \in DOMAIN index : index[i].is = "ellipsis"}
        place == IF dots = {} THEN Len(index) + 1 ELSE Min(dots)
    IN  SubSeq(index, 1, place - 1) \o rest \o SubSeq(index, place + 1, Len(index))

\* The size announced for a slice.  The quotient of the code is rounded towards
\* zero: an empty slice with a step has one element.
CheckSlice(size, e) ==
    LET span == SliceStop(e, size) - SliceStart(e, size) - 1
        step == SliceStep(e)
    IN  Max({0, (IF span < 0 THEN -((-span) \div step) ELSE span \div step) + 1})

\* GetItemOp::ComputeIndexedShape: the axis of tensors is always in front.
ComputeIndexedShape(s, index) ==
    LET ix   == Expanded(index, s)
        kept == SetToSortSeq({i \in DOMAIN ix : ix[i].is \in {"slice", "all", "none"}}, <)
        Size(i) == CASE ix[i].is = "none" -> 1
                     [] ix[i].is = "all" -> s[IndexAxis(ix, i)]
                     [] ix[i].is = "slice" -> CheckSlice(s[IndexAxis(ix, i)], ix[i])
        tensors == TensorEntries(ix)
    IN  (IF tensors = {} THEN <<>> ELSE <<Len(ix[Min(tensors)].values)>>) \o [k \in DOMAIN kept |-> Size(kept[k])]

ValidIndex(s, index) ==
    /\ Cardinality({i \in DOMAIN index : index[i].is \notin {"none", "ellipsis"}}) <= Len(s)
    /\ LET ix == Expanded(index, s)
       IN  \A i \in DOMAIN ix : ix[i].is = "int" =>
               ix[i].at \in -s[IndexAxis(ix, i)]..(s[IndexAxis(ix, i)] - 1)

GetItemInfer(op, in) ==
    When(ValidIndex(in[1].shape, op.index), <<ComputeIndexedShape(in[1].shape, op.index)>>)

\* A slice of exactly one part of a dimension some sub-split cuts in two.
IsFrontPart(e, pl) ==
    /\ e.is = "slice" /\ e.start = <<>> /\ e.step = <<>>
    /\ \E k \in DOMAIN pl : pl[k].sub # -1 /\ e.stop = <<pl[k].sub + 1>>
IsBackPart(e, pl) ==
    /\ e.is = "slice" /\ e.stop = <<>> /\ e.step = <<>>
    /\ \E k \in DOMAIN pl : pl[k].sub # -1 /\ e.start = <<pl[k].sub + 1>>
IsPart(e, pl) == IsFrontPart(e, pl) \/ IsBackPart(e, pl)

\* The output dimension of an entry is counted without those of tensors.
GetItemSignature(op, in) ==
    LET s  == in[1].shape
        ix == Expanded(op.index, s)
        out == ComputeIndexedShape(s, op.index)
        OutDim(i) == Cardinality({j \in 1..(i - 1) : ix[j].is \in {"slice", "all", "none"}})
        Keeping == {i \in DOMAIN ix : \/ ix[i].is = "all"
                                      \/ ix[i].is = "slice" /\ \/ s[IndexAxis(ix, i)] = out[OutDim(i) + 1]
                                                               \/ IsPart(ix[i], in[1].placements)}
    IN  Finish(ForAxes(Keeping, LAMBDA i : Keeps(IndexAxis(ix, i) - 1, OutDim(i))) \o PartialStays, 1, 1)

GetKeepSubSplitCoordinates(op, in) ==
    ~\E i \in DOMAIN op.index : IsPart(op.index[i], in[1].placements)

\* The index of the kernel: the bound of a part is divided among the devices.
LocalIndex(op, in) ==
    LET s  == in[1].shape
        ix == Expanded(op.index, s)
        pl == in[1].placements
        count(i) == ShardCount(in[1].mesh, pl, IndexAxis(ix, i) - 1)
    IN  [i \in DOMAIN ix |->
            IF IsFrontPart(ix[i], pl) THEN [ix[i] EXCEPT !.stop[1] = @ \div count(i)]
            ELSE IF IsBackPart(ix[i], pl) THEN [ix[i] EXCEPT !.start[1] = @ \div count(i)]
            ELSE ix[i]]
GetItemCompute(op, in, ts) == <<TorchIndex(ts[1], LocalIndex(op, in))>>

\* input[index] = value, in place.  The size of the result is compared, not
\* whether the shapes agree; the index is the same on every device.
SetItemInfer(op, in) ==
    LET s == in[1].shape
        indexed == ComputeIndexedShape(s, op.index)
    IN  When(ValidIndex(s, op.index) /\ BroadcastOutputShape(indexed, in[2].shape) = indexed, <<s>>)
SetItemCompute(op, ts) == <<TorchIndexPut(ts[1], Expanded(op.index, ts[1].shape), ts[2])>>

\* input.copy_(other), whose specs _Copy has made the same.
CopyInfer(op, in) == <<in[1].shape>>
CopyCompute(op, ts) == <<ts[2]>>

-----------------------------------------------------------------------------
(* Creation: "full" stands for all that fill every element alike and takes  *)
(* its number from op.args, "arange" its start, end and step.  Of a tensor   *)
(* of torch there are the device it is on and its elements, which differ.    *)

\* CreateOp::ComputeShapeForArange
ComputeShapeForArange(start, end, step) ==
    IF step > 0 THEN (end - start + step - 1) \div step ELSE (start - end - step - 1) \div (-step)

CreateInfer(op) ==
    LET size == ComputeShapeForArange(op.args[1], op.args[2], op.args[3])
    IN  IF op.createKind = "arange" THEN When(size > 0, <<<<size>>>>) ELSE <<op.shape>>

\* Tensors are made in the shape announced for the device, but for ranges and
\* copies, which are whole.
CreateCompute(op, localShape) ==
    <<CASE op.createKind = "full" -> Filled(localShape, op.args[1])
        [] op.createKind = "zeros" -> Filled(localShape, 0)
        [] op.createKind = "ones" -> Filled(localShape, 1)
        [] op.createKind \in {"rand", "randn", "rand_int"} ->
              Tensor(localShape, [c \in Coordinates(localShape) |-> Nonlinear(ComputeIndex(c, localShape))])
        [] op.createKind = "arange" ->
              Tensor(CreateInfer(op)[1], [c \in Coordinates(CreateInfer(op)[1]) |-> (op.args[1] + c[1] * op.args[3]) % Prime])
        [] op.createKind = "from_torch" ->
              IF op.device # op.mesh.ids[1] THEN NoTensor
              ELSE Tensor(op.shape, [c \in Coordinates(op.shape) |-> 3 + ComputeIndex(c, op.shape)])>>
=============================================================================
