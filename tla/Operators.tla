------------------------------ MODULE Operators ------------------------------
(***************************************************************************)
(* What all operators share: Operator::Infer, which checks the operands    *)
(* and announces shape, mesh and placements of the outputs, and the        *)
(* kernels, which make the outputs of every device from its inputs.        *)
(*                                                                         *)
(* An operator is a record with a kind and its parameters.  An operand has *)
(* a shape, a mesh and placements, and once it is computed local, the      *)
(* tensor of every device of the mesh.  Assertions are those of a build    *)
(* with DTORCH_DEBUG, the default; kernels do not validate their outputs   *)
(* (DTORCH_VALIDATE_KERNEL_INPUT_OUTPUT), the default as well.             *)
(***************************************************************************)
EXTENDS NeuralOperators, ShapeOperators, SystemOperators

-----------------------------------------------------------------------------
(* The parts every operator has *)

Infer(op, in) ==
    CASE op.kind = "activation" -> ActivationInfer(op, in)
      [] op.kind = "base_math" -> BaseMathInfer(op, in)
      [] op.kind \in {"clone", "contiguous"} -> CloneInfer(op, in)
      [] op.kind = "broadcast_binary" -> BroadcastInfer(op, in)
      [] op.kind = "clamp" -> ClampInfer(op, in)
      [] op.kind = "where" -> WhereInfer(op, in)
      [] op.kind = "masked" -> MaskedInfer(op, in)
      [] op.kind = "reduce" -> ReduceInfer(op, in)
      [] op.kind = "max_min" -> MaxMinInfer(op, in)
      [] op.kind = "einsum" -> EinsumInfer(op, in)
      [] op.kind = "matmul" -> MatmulInfer(op, in)
      [] op.kind = "outer" -> OuterInfer(op, in)
      [] op.kind = "linear" -> LinearInfer(op, in)
      [] op.kind = "softmax" -> SoftmaxInfer(op, in)
      [] op.kind = "normalization" -> NormalizationInfer(op, in)
      [] op.kind = "batch_norm" -> BatchNormInfer(op, in)
      [] op.kind = "embedding" -> EmbeddingInfer(op, in)
      [] op.kind = "sdpa" -> SdpaInfer(op, in)
      [] op.kind = "apply_rotary_emb" -> ApplyRotaryEmbInfer(op, in)
      [] op.kind = "silu_linear_chunk" -> SiluLinearChunkInfer(op, in)
      [] op.kind = "layer_norm_mul_add" -> LayerNormMulAddInfer(op, in)
      [] op.kind = "conv" -> ConvInfer(op, in)
      [] op.kind = "pooling" -> PoolingInfer(op, in)
      [] op.kind = "interpolate" -> InterpolateInfer(op, in)
      [] op.kind = "concat" -> ConcatInfer(op, in)
      [] op.kind = "chunk" -> ChunkInfer(op, in)
      [] op.kind = "transpose" -> TransposeInfer(op, in)
      [] op.kind = "permute" -> PermuteInfer(op, in)
      [] op.kind = "squeeze" -> SqueezeInfer(op, in)
      [] op.kind = "unsqueeze" -> UnsqueezeInfer(op, in)
      [] op.kind = "expand" -> ExpandInfer(op, in)
      [] op.kind = "flatten" -> FlattenInfer(op, in)
      [] op.kind = "reshape" -> ReshapeInfer(op, in)
      [] op.kind = "view" -> ViewInfer(op, in)
      [] op.kind = "view_placements" -> ViewPlacementsInfer(op, in)
      [] op.kind = "repeat" -> RepeatInfer(op, in)
      [] op.kind = "repeat_interleave" -> RepeatInterleaveInfer(op, in)
      [] op.kind = "pad" -> PadInfer(op, in)
      [] op.kind = "get_item" -> GetItemInfer(op, in)
      [] op.kind = "set_item" -> SetItemInfer(op, in)
      [] op.kind = "copy" -> CopyInfer(op, in)
      [] op.kind = "create" -> CreateInfer(op)
      [] op.kind = "memory" -> MemoryInfer(op)
      [] op.kind = "convert" -> <<in[1].shape>>

\* GetPlacementSignature; without one of its own, Operator's, in which
\* everything is replicated.
Signature(op, in) ==
    CASE op.kind = "broadcast_binary" -> BroadcastSignature(op, in)
      [] op.kind = "where" -> WhereSignature(op, in)
      [] op.kind = "reduce" -> ReduceSignature(op, in)
      [] op.kind = "max_min" -> MaxMinSignature(op, in)
      [] op.kind = "einsum" -> EinsumSignature(op, in)
      [] op.kind = "matmul" -> MatmulSignature(op, in)
      [] op.kind = "outer" -> OuterSignature(op, in)
      [] op.kind = "linear" -> LinearSignature(op, in)
      [] op.kind = "softmax" -> SoftmaxSignature(op, in)
      [] op.kind = "normalization" -> NormalizationSignature(op, in)
      [] op.kind = "embedding" -> EmbeddingSignature(op, in)
      [] op.kind = "sdpa" -> SdpaSignature(op, in)
      [] op.kind = "conv" -> ConvSignature(op, in)
      [] op.kind = "concat" -> ConcatSignature(op, in)
      [] op.kind = "transpose" -> TransposeSignature(op, in)
      [] op.kind = "permute" -> PermuteSignature(op, in)
      [] op.kind = "squeeze" -> SqueezeSignature(op, in)
      [] op.kind = "unsqueeze" -> UnsqueezeSignature(op, in)
      [] op.kind = "expand" -> ExpandSignature(op, in)
      [] op.kind = "flatten" -> FlattenSignature(op, in)
      [] op.kind = "reshape" -> ReshapeSignature(op, in)
      [] op.kind = "view" -> ViewSignature(op, in)
      [] op.kind = "repeat_interleave" -> RepeatInterleaveSignature(op, in)
      [] op.kind = "get_item" -> GetItemSignature(op, in)
      [] OTHER -> Finish(<<>>, Len(in), 1)

\* What a device makes of its tensors; localShape is the shape announced for it.
ComputeLocal(op, in, ts, localShape) ==
    CASE op.kind = "activation" -> ActivationCompute(op, ts)
      [] op.kind = "base_math" -> BaseMathCompute(op, ts)
      [] op.kind \in {"clone", "contiguous"} -> CloneCompute(op, ts)
      [] op.kind = "broadcast_binary" -> BroadcastCompute(op, ts)
      [] op.kind = "clamp" -> ClampCompute(op, ts)
      [] op.kind = "where" -> WhereCompute(op, ts)
      [] op.kind = "masked" -> MaskedCompute(op, ts)
      [] op.kind = "reduce" -> <<ComputeLocalResult(op, ts[1])>>
      [] op.kind = "max_min" -> MaxMinCompute(op, ts)
      [] op.kind = "einsum" -> EinsumCompute(op, ts)
      [] op.kind = "matmul" -> MatmulCompute(op, ts)
      [] op.kind = "outer" -> OuterCompute(op, ts)
      [] op.kind = "linear" -> LinearCompute(op, ts)
      [] op.kind = "softmax" -> SoftmaxCompute(op, ts)
      [] op.kind = "normalization" -> NormalizationCompute(op, ts)
      [] op.kind = "batch_norm" -> BatchNormCompute(op, ts)
      [] op.kind = "embedding" -> EmbeddingCompute(op, ts)
      [] op.kind = "sdpa" -> SdpaCompute(op, ts)
      [] op.kind = "apply_rotary_emb" -> ApplyRotaryEmbCompute(op, ts)
      [] op.kind = "silu_linear_chunk" -> SiluLinearChunkCompute(op, ts)
      [] op.kind = "layer_norm_mul_add" -> LayerNormMulAddCompute(op, ts)
      [] op.kind = "conv" -> ConvCompute(op, ts)
      [] op.kind = "pooling" -> PoolingCompute(op, in, ts)
      [] op.kind = "interpolate" -> InterpolateCompute(op, ts)
      [] op.kind = "concat" -> ConcatCompute(op, ts)
      [] op.kind = "chunk" -> ChunkCompute(op, ts)
      [] op.kind = "transpose" -> TransposeCompute(op, ts)
      [] op.kind = "permute" -> PermuteCompute(op, ts)
      [] op.kind = "squeeze" -> SqueezeCompute(op, ts)
      [] op.kind = "unsqueeze" -> UnsqueezeCompute(op, ts)
      [] op.kind = "expand" -> ExpandCompute(op, in, ts)
      [] op.kind = "flatten" -> FlattenCompute(op, ts)
      [] op.kind \in {"reshape", "view"} -> ViewCompute(ts, localShape)
      [] op.kind = "view_placements" -> ViewPlacementsCompute(ts)
      [] op.kind = "repeat" -> RepeatCompute(op, ts)
      [] op.kind = "repeat_interleave" -> RepeatInterleaveCompute(op, ts)
      [] op.kind = "pad" -> PadCompute(op, ts)
      [] op.kind = "get_item" -> GetItemCompute(op, in, ts)
      [] op.kind = "set_item" -> SetItemCompute(op, ts)
      [] op.kind = "copy" -> CopyCompute(op, ts)
      [] op.kind = "create" -> CreateCompute(op, localShape)

-----------------------------------------------------------------------------
(* Operator::InferOutput *)

\* MetaDataSameAs(OperandX()), of whatever is there.
RefOperand(in) == IF IsNull(in[1]) THEN in[2] ELSE in[1]
OutputOperand(x, shape, placements) == [shape |-> shape, mesh |-> x.mesh, placements |-> placements]

\* Operator::CheckInput: one mesh, and specs that fit the shapes.  A copy may be
\* one from device to device.
CheckInput(op, in) ==
    \A i \in DOMAIN in : /\ \/ IsNull(in[i]) \/ in[i].mesh = RefOperand(in).mesh
                            \/ op.kind = "copy" /\ ~IsDistributed(in[i].mesh) /\ ~IsDistributed(RefOperand(in).mesh)
                         /\ CheckValid(in[i].shape, in[i].mesh, in[i].placements)

\* SkipDistributedSpecFromPlacementSignature: the outputs have the spec of the input.
SkipsSignature(op, in) ==
    \/ ~IsDistributed(RefOperand(in).mesh)
    \/ op.kind \in {"activation", "base_math", "chunk", "clamp", "clone", "contiguous", "masked", "set_item", "copy",
                   "apply_rotary_emb", "silu_linear_chunk", "layer_norm_mul_add"}
    \/ op.kind = "broadcast_binary" /\ \E i \in 1..2 : IsNull(in[i])

\* ConvertOp, CreateOp and MemoryOp set the spec of their output themselves.
SetsSpec(op) == op.kind \in {"convert", "create", "memory"}

MatchSignature(op, in, shapes, signature) ==
    LET x      == RefOperand(in)
        placed == [i \in DOMAIN in |-> in[i].placements]
        keep   == op.kind = "get_item" => GetKeepSubSplitCoordinates(op, in)
        placements == Match(signature, placed, keep)
    IN  IF Matches(signature, placed) /\ \A j \in DOMAIN shapes : CheckShapeValid(shapes[j], x.mesh, placements[j])
        THEN [j \in DOMAIN shapes |-> OutputOperand(x, shapes[j], placements[j])] ELSE Throws

InferSpec(op, in, shapes) ==
    CASE shapes = Throws -> Throws
      [] shapes # Throws /\ SetsSpec(op) -> <<OutputOperand(op, shapes[1], op.placements)>>
      [] shapes # Throws /\ op.kind = "view_placements" -> <<OutputOperand(in[1], shapes[1], op.placements)>>
      [] shapes # Throws /\ ~SetsSpec(op) /\ op.kind # "view_placements" /\ SkipsSignature(op, in) ->
            [j \in DOMAIN shapes |-> OutputOperand(RefOperand(in), shapes[j], RefOperand(in).placements)]
      [] OTHER -> MatchSignature(op, in, shapes, Signature(op, in))

InferOutput(op, in) == IF CheckInput(op, in) THEN InferSpec(op, in, Infer(op, in)) ELSE Throws

-----------------------------------------------------------------------------
(* Storage.  The devices of a process may be one device of torch: what     *)
(* they exchange is then not copied.  storage.of is the place of the       *)
(* operand whose tensors those of an operand may be, or be parts of;       *)
(* storage.joined are the dimensions of the mesh along which the devices   *)
(* may have one tensor between them.                                       *)

Own(place) == [of |-> place, joined |-> {}]

\* The devices along a dimension are given one tensor, or the zeros behind the
\* first summand.
JoinedByScather(m, pl) == {k \in DOMAIN pl : pl[k] = Replicate \/ (pl[k] = Partial /\ m.dims[k] > 2)}

\* What ThreadGroup hands out: parts of the operand, the one result of an
\* all-reduce or an all-gather of equal pieces (IsLocalShapeEventSplit), or
\* tensors of everyone's own.
PlacementsStorage(x, to, place) ==
    LET k    == CHOOSE k \in GetDiffDims(x.placements, to) : TRUE
        from == x.placements[k]
        even == \A axis \in ShardedAxes(x.placements) : x.shape[axis + 1] % ShardCount(x.mesh, x.placements, axis) = 0
    IN  CASE to[k].kind = "S" /\ (from.kind = "P" \/ (from.kind = "R" /\ to[k].sub = -1)) -> [x.storage EXCEPT !.joined = @ \ {k}]
          [] to[k].kind = "R" /\ (from.kind = "P" \/ (from = Shard(0, -1) /\ even)) -> [of |-> place, joined |-> {k}]
          [] OTHER -> Own(place)

ConvertStorage(x, toMesh, to, place) ==
    CASE IsDistributed(x.mesh) /\ toMesh = x.mesh -> PlacementsStorage(x, to, place)
      [] ~IsDistributed(x.mesh) /\ IsDistributed(toMesh) -> [x.storage EXCEPT !.joined = JoinedByScather(toMesh, to)]
      [] IsDistributed(x.mesh) /\ ~IsDistributed(toMesh) ->
           IF ToSet(x.placements) = {Replicate} THEN [x.storage EXCEPT !.joined = {}] ELSE Own(place)
      [] OTHER -> x.storage

\* Kernels that may return their input or a view of it.
MayReturnInput(op) ==
    op.kind \in {"contiguous", "einsum", "chunk", "transpose", "permute", "squeeze", "unsqueeze", "expand", "flatten",
                 "reshape", "view", "view_placements", "get_item", "set_item", "copy"}

\* The storage of the output at a place among the operands.
OutputStorage(op, in, place) ==
    CASE op.kind = "convert" -> ConvertStorage(in[1], op.mesh, op.placements, place)
      [] MayReturnInput(op) -> in[1].storage
      [] OTHER -> Own(place)

\* Kernels that write to their first input: index_put_, copy_ and the sum of a
\* reduce-scatter.
ReduceScatters(op, in) ==
    /\ op.kind = "convert" /\ IsDistributed(op.mesh) /\ op.mesh = in[1].mesh
    /\ IsReduceScatter(in[1].placements, op.placements)
WritesToInput(op, in) == op.kind \in {"set_item", "copy"} \/ ReduceScatters(op, in)

-----------------------------------------------------------------------------
(* Kernels, one per device *)

\* Operand::GetLocalShape
LocalShape(x, c) == GetLocalShape(x.shape, x.mesh, x.placements, c)

OnMesh(f, m) == [d \in ToSet(m.ids) |-> f[CHOOSE c \in Coordinates(m.dims) : Device(m, c) = d]]
ByCoordinate(l, m) == [c \in Coordinates(m.dims) |-> l[Device(m, c)]]

\* ConvertKernel::Compute on all devices of the operator.
ConvertCompute(x, toMesh, to) ==
    LET from  == x.mesh
        local == x.local
    IN  CASE IsDistributed(from) /\ IsDistributed(toMesh) /\ toMesh = from ->
               OnMesh(ConvertPlacements(ByCoordinate(local, from), from, x.placements, to, x.storage.joined), from)
          [] IsDistributed(from) /\ IsDistributed(toMesh) /\ toMesh # from ->      \* ConvertDeviceMesh
               [d \in ToSet(toMesh.ids) |->
                   LET rank == GetRankId(d, toMesh)
                   IN  IF rank \in DOMAIN from.ids THEN local[from.ids[rank]] ELSE NoTensor]
          [] ~IsDistributed(from) /\ IsDistributed(toMesh) ->                      \* ScatherTensor
               OnMesh(Scather(local[from.ids[1]], toMesh, to), toMesh)
          [] IsDistributed(from) /\ ~IsDistributed(toMesh) ->                      \* GatherTensor
               [d \in {toMesh.ids[1]} |-> Gather(ByCoordinate(local, from), from, x.placements)]
          [] OTHER -> [d \in {toMesh.ids[1]} |-> local[from.ids[1]]]

\* The coordinate of one more device, which has everything: what torch makes of
\* undistributed tensors, a history variable of every operand.
Undistributed == <<>>
Everywhere(m) == Coordinates(m.dims) \cup {Undistributed}
Gathered(x) == [x EXCEPT !.mesh = [dims |-> <<1>>, ids |-> <<0>>], !.placements = <<Replicate>>]

\* ReduceKernel::Compute: the devices along the dimension of the mesh that
\* shards a reduced axis join what each has made of its own part.
ReduceCompute(op, x, f) ==
    LET commDim == UNION {ShardDims(x.placements, d) : d \in GetDimSet(op, x.shape)}
        Joined(group) == <<JoinResults(op, [i \in DOMAIN group |-> group[i][1]])>>
    IN  [c \in DOMAIN f |->
            IF commDim = {} \/ c = Undistributed THEN f[c]
            ELSE IF Cardinality(commDim) > 1 THEN <<NoTensor>>                     \* DUnimplemented
            ELSE Joined(Group(f, c, x.mesh, Min(commDim)))]

\* Compute of a kernel: what a device makes of its tensors.
KernelCompute(op, in, out, c) ==
    LET m == out.mesh
        \* Only a copy may find its second operand on another device.
        Input(x, d) == IF IsNull(x) THEN Absent ELSE x.local[IF d \in ToSet(x.mesh.ids) THEN d ELSE x.mesh.ids[1]]
        whole == c = Undistributed
    IN  IF op.kind = "memory" THEN MemoryCompute(IF whole THEN op.devices ELSE <<Device(m, c)>>)
        ELSE ComputeLocal(op, [i \in DOMAIN in |-> IF whole THEN Gathered(in[i]) ELSE in[i]],
                          [i \in DOMAIN in |-> IF whole THEN in[i].whole ELSE Input(in[i], Device(m, c))],
                          IF whole THEN out.shape ELSE LocalShape(out, c))

Communicate(op, in, f) == IF op.kind = "reduce" THEN ReduceCompute(op, in[1], f) ELSE f

\* Output j, where f gives the outputs everywhere.
Output(f, m, j) ==
    LET there == [c \in DOMAIN f |-> IF j \in DOMAIN f[c] THEN f[c][j] ELSE NoTensor]
    IN  [local |-> OnMesh(there, m), whole |-> there[Undistributed]]
Outputs(f, out) == [j \in DOMAIN out |-> Output(f, out[1].mesh, j)]

\* Kernel::Run on all devices.
Run(op, in, out) ==
    IF op.kind = "convert"
    THEN <<[local |-> ConvertCompute(in[1], op.mesh, op.placements), whole |-> in[1].whole]>>
    ELSE Outputs(Communicate(op, in, [c \in Everywhere(out[1].mesh) |-> KernelCompute(op, in, out[1], c)]), out)

\* What is left of an operand whose ranks 0 the sum has been added to.
AfterReduceScatter(op, x) ==
    [x EXCEPT !.local = OnMesh(AfterPlacements(ByCoordinate(@, x.mesh), x.mesh, x.placements, op.placements, x.storage.joined),
                               x.mesh)]

\* ScatherTensor compares the shapes with the ones announced.
ScatherSurprised(op, in, out, local) ==
    /\ op.kind = "convert" /\ ~IsDistributed(in[1].mesh) /\ IsDistributed(op.mesh)
    /\ \E c \in Coordinates(op.mesh.dims) :
          local[Device(op.mesh, c)].shape # LocalShape(out, c)

\* Whether the kernels end without an exception or a failed assertion.
Survives(op, in, out, results) ==
    /\ ReceivedSurvives(op, in)
    /\ \A j \in DOMAIN out : /\ \A d \in DOMAIN results[j].local : ~Failed(results[j].local[d])
                             /\ ~ScatherSurprised(op, in, out[j], results[j].local)
=============================================================================
