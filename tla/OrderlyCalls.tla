---------------------------- MODULE OrderlyCalls ----------------------------
(***************************************************************************)
(* Which calls the code gets right.  These predicates judge a call by its  *)
(* arguments; they describe no code.  A call that fails them and is        *)
(* accepted all the same ends in a wrong tensor or a failed kernel; what   *)
(* is at fault stands above each.                                          *)
(***************************************************************************)
EXTENDS Operators

-----------------------------------------------------------------------------
(* Redistribution *)

\* The pieces of an axis are numbered with the last mesh dimension running
\* fastest, so that only the last one that shards the axis may come or go.
Nested(from, to) ==
    \A k \in DOMAIN from : from[k] # to[k] =>
        /\ from[k].kind = "S" /\ to[k].kind = "R" =>
              \A l \in DOMAIN from : l > k => ~IsShardOf(to[l], from[k].axis)
        /\ from[k].kind = "S" /\ to[k].kind = "S" =>
              \A l \in DOMAIN from : l > k => ~IsShardOf(from[l], from[k].axis)
        /\ to[k].kind = "S" =>
              \A l \in DOMAIN from : l > k => ~IsShardOf(from[l], to[k].axis)

\* Splitting in two steps gives other sizes than splitting at once, unless
\* everything divides.
Divisible(s, m, from, to) ==
    \A axis \in {a \in ShardedAxes(from) \cup ShardedAxes(to) :
                    ShardDims(from, a) # ShardDims(to, a)} :
        LET dims == ShardDims(from, axis) \cup ShardDims(to, axis)
        IN  \/ Cardinality(dims) = 1
            \/ s[axis + 1] % Product([k \in DOMAIN from |-> IF k \in dims THEN m.dims[k] ELSE 1]) = 0

\* Sub-splits: both parts divide, no second mesh dimension splits the axis
\* another way, and the guess of GatherShardWithSubSplit is right.
EvenSubSplits(s, m, pl) ==
    \A k \in DOMAIN pl : pl[k].sub # -1 =>
        LET count == ShardCount(m, pl, pl[k].axis)
            size  == s[pl[k].axis + 1]
        IN  /\ pl[k].sub \in 1..(size - 2)
            /\ (pl[k].sub + 1) % count = 0 /\ (size - pl[k].sub - 1) % count = 0
            /\ \A l \in ShardDims(pl, pl[k].axis) : pl[l] = pl[k]
            /\ Cardinality(ShardDims(pl, pl[k].axis)) > 1 => pl[k].sub > size \div count

Implemented(s, m, from, to) ==
    \A k \in DOMAIN from : from[k] # to[k] =>
        /\ to[k].kind # "P"
        /\ from[k].kind = "P" /\ to[k].kind = "S" =>
              to[k].axis = 0 /\ to[k].sub = -1 /\ s[1] % ShardCount(m, to, 0) = 0
        /\ from[k].kind = "S" /\ to[k].kind = "S" => from[k].sub = -1 /\ to[k].sub = -1
        /\ to[k].sub # -1 =>
              \A l \in DOMAIN from \ {k} : ~IsShardOf(from[l], to[k].axis) /\ ~IsShardOf(to[l], to[k].axis)

Orderly(x, toMesh, to) ==
    /\ EvenSubSplits(x.shape, toMesh, to)
    /\ IsDistributed(x.mesh) /\ IsDistributed(toMesh) =>
          /\ toMesh.dims = x.mesh.dims
          /\ Nested(x.placements, to)
          /\ Divisible(x.shape, x.mesh, x.placements, to)
          /\ Implemented(x.shape, x.mesh, x.placements, to)

\* What a kernel writes to is nobody else's: no operand somebody still reads
\* has the storage of x, nor have two devices one tensor to which each would
\* write something else.
WritesToNobodyElse(op, x, read) ==
    /\ \A y \in read : y.storage.of # x.storage.of
    /\ IF op.kind = "convert" THEN x.storage.joined \subseteq GetDiffDims(x.placements, op.placements)
                               ELSE \A k \in x.storage.joined : x.placements[k] = Replicate

-----------------------------------------------------------------------------
(* Operators *)

IsWhole(x) == \A k \in DOMAIN x.placements : x.placements[k] = Replicate
IsSharded(x) == ShardedAxes(x.placements) # {}

\* Every device holds of y what the part it holds of x meets when the two
\* broadcast, and of a sum nothing.
Meets(x, y) ==
    \A k \in DOMAIN x.placements :
        LET p == x.placements[k]
            axis == p.axis - Len(x.shape) + Len(y.shape)
        IN  y.placements[k] = IF p.kind = "S" /\ axis >= 0 /\ y.shape[axis + 1] > 1
                              THEN Shard(axis, p.sub) ELSE Replicate

Fits(s, u) == Compatible(s, u) /\ Broadcast(s, u) = s

\* A signature does not look at sub-splits (Placement::ToHashKey).
SameCuts(in) ==
    \A k \in DOMAIN in[1].placements :
        Cardinality({in[i].placements[k].sub : i \in {i \in DOMAIN in : in[i].placements[k].kind = "S"}}) <= 1

\* What operators that skip their signature take from the first operand also
\* holds of sums of which they are no linear function.
SoundElementwise(op, in) ==
    CASE op.kind = "base_math" -> HasPartial(in[1].placements) => op.baseMathType = "neg"
      [] op.kind = "broadcast_binary" ->
           \A i \in 1..2 : IsNull(in[i]) /\ HasPartial(in[3 - i].placements) => op.binaryKind = "mul" \/ (i = 2 /\ op.binaryKind = "div")
      [] op.kind = "clamp" ->
           /\ ~HasPartial(in[1].placements)
           /\ <<>> \notin {op.min, op.max} \/ \E i \in {2, 3} : ~IsNull(in[i])
           /\ \A i \in {2, 3} : IsNull(in[i]) \/ (Meets(in[1], in[i]) /\ Fits(in[1].shape, in[i].shape))

\* Neither is the mask looked at, nor the axes the input gains; the source is
\* read from its beginning on every device.
SoundMasked(op, in, out) ==
    /\ ~HasPartial(in[1].placements) /\ Meets(out[1], in[2])
    /\ IsSharded(in[1]) => Len(out[1].shape) = Len(in[1].shape)
    /\ op.maskedType = "scatter" => \A i \in DOMAIN in : IsWhole(in[i])

\* The mean of the means of unequal pieces; any and all of everything have no
\* axes to keep; a second dimension of the mesh is not implemented.
SoundReduce(op, in) ==
    LET x == in[1]
        reduced == GetDimSet(op, x.shape) \cap ShardedAxes(x.placements)
    IN  /\ op.reduceKind = "mean" => \A d \in reduced : x.shape[d + 1] % ShardCount(x.mesh, x.placements, d) = 0
        /\ ~(op.reduceKind \in {"any", "all"} /\ op.dim = <<>> /\ op.keepdim)
        /\ Cardinality(UNION {ShardDims(x.placements, d) : d \in reduced}) <= 1

\* Half of a contraction cannot be computed from the whole of the other
\* operand; batch dimensions are looked up at the places of the longer operand.
SoundMatmul(in) ==
    LET a == in[1]
        b == in[2]
        innerA == Len(a.shape) - 1
        innerB == Len(b.shape) - (IF Len(b.shape) = 1 THEN 1 ELSE 2)
        ShardsBatch(x) == \E axis \in ShardedAxes(x.placements) : axis < Len(x.shape) - 2
    IN  /\ \A k \in DOMAIN a.placements : IsShardOf(a.placements[k], innerA) = IsShardOf(b.placements[k], innerB)
        /\ ShardsBatch(a) \/ ShardsBatch(b) =>
              Len(BatchShape(a.shape)) = Len(BatchShape(b.shape)) \/ <<>> \in {BatchShape(a.shape), BatchShape(b.shape)}

\* A vector passes for a bias whatever its length.
SoundLinear(in) == IsNull(in[3]) \/ in[3].shape = <<in[2].shape[1]>>

\* Dimension 2 are the tokens of a tensor of four dimensions only; a token of
\* a shard is taken for one of the first; a mask is expected whole.
SoundSdpa(op, in) ==
    /\ 2 \in ShardedAxes(in[1].placements) => Len(in[1].shape) = 4 /\ ~op.isCausal
    /\ IsNull(in[4]) \/ Meets(in[1], in[4])

\* A fused operator takes its other inputs as they come.
SoundRotary(op, in) ==
    /\ op.useReal /\ op.useRealUnbindDim \in {-1, -2} /\ Last(in[1].shape) % 2 = 0
    /\ \A i \in {2, 3} : Len(in[i].shape) <= 2 /\ Meets(in[1], in[i]) /\ Fits(in[1].shape, in[i].shape)
    /\ 3 \notin ShardedAxes(in[1].placements)
SoundSiluLinearChunk(op, in) ==
    LET x == in[1].shape
    IN  /\ ~HasPartial(in[1].placements) /\ 1 \notin ShardedAxes(in[1].placements)
        /\ IsWhole(in[2]) /\ IsWhole(in[3])
        /\ Len(x) = 2 /\ in[2].shape = <<op.chunkSize * x[2], x[2]>> /\ in[3].shape = <<op.chunkSize * x[2]>>
SoundLayerNormMulAdd(op, in) ==
    LET x == in[1]
        outer == Len(x.shape) - Len(op.normalizedShape)
        Spread(y) == [y EXCEPT !.shape = <<@[1], 1>> \o Tail(@)]
    IN  /\ ~HasPartial(x.placements) /\ \A axis \in ShardedAxes(x.placements) : axis < outer
        /\ outer > 0 /\ SubSeq(x.shape, outer + 1, Len(x.shape)) = op.normalizedShape
        /\ \A i \in {2, 3} : Meets(x, Spread(in[i])) /\ Fits(x.shape, Spread(in[i]).shape)
        /\ \A i \in {4, 5} : IsNull(in[i]) \/ (IsWhole(in[i]) /\ in[i].shape = op.normalizedShape)

\* Shards of an image are not seen to be made of whole windows.
SoundConv(op, in) ==
    \A k \in DOMAIN in[1].placements : IsShardOf(in[1].placements[k], 2) =>
        /\ in[1].placements[k].sub = -1
        /\ \A c \in Coordinates(in[1].mesh.dims) :
              GetLocalShape(in[1].shape, in[1].mesh, in[1].placements, c)[3] % op.strides[1] = 0

\* torch is given neither the pads of "same" nor those on the other side.
SoundConvPads(op, x, w) ==
    IF op.paddingType = "same" THEN CalculateConvOutputForSamePad(x[3], op.strides[1])
                                    = CalculateConvOutput(x[3], w[3], op.dilations[1], op.strides[1], 0, 0)
    ELSE op.pads[1] = op.pads[3]

\* The same of pooling; besides, windows that begin behind the image count when
\* nothing is padded, the mode of rounding stays for "valid" and "same", and an
\* average knows no dilation.
PoolingRows(op, x, pad) ==
    CalculatePoolingOutput(x[3], op.kernelSize[1], op.dilations[1], op.strides[1], pad, pad, op.ceilMode)
SoundPooling(op, in) ==
    LET x == in[1].shape
    IN  ~op.isGlobalPooling =>
            /\ op.poolingKind = "avg" => op.dilations = <<1, 1>>
            /\ op.paddingType = "notset" => op.pads[1] = op.pads[3]
            /\ PoolingRows(op, x, PoolingPadding(op, x)) = PoolingInfer(op, in)[1][3]
            /\ op.ceilMode => (PoolingInfer(op, in)[1][3] - 1) * op.strides[1] < x[3] + PoolingPadding(op, x)

\* Pieces of a joined dimension are one shard of two parts only if each part
\* was cut once, into pieces of one size.
SoundConcat(op, in, out) ==
    /\ EvenSubSplits(out[1].shape, out[1].mesh, out[1].placements)
    /\ \A k \in DOMAIN in[1].placements :
          IsShardOf(in[1].placements[k], GetValidDim(in[1].shape, op.dim)) => in[1].placements[k].sub = -1

\* An axis of which a device holds one element goes there as well.
SoundSqueeze(op, in) ==
    \A axis \in ShardedAxes(in[1].placements) :
        \/ op.dims # <<>> /\ \A d \in ToSet(op.dims) : AxisOf(in[1].shape, d) # axis + 1
        \/ in[1].shape[axis + 1] >= 2 * ShardCount(in[1].mesh, in[1].placements, axis)

\* A shard of an axis of another size holds the same elements only if both
\* divide; flatten counts trailing dimensions one too low; view does not count
\* elements.
SoundReshape(op, in, out) ==
    LET x == in[1]
        Remains(k) ==
            LET p == x.placements[k]
                size == x.shape[p.axis + 1]
                new  == out[1].shape[out[1].placements[k].axis + 1]
                n    == ShardCount(x.mesh, x.placements, p.axis)
            IN  size = new \/ (p.sub = -1 /\ size % n = 0 /\ new % n = 0)
    IN  /\ Product(x.shape) = Product(out[1].shape)
        /\ \A k \in DOMAIN x.placements : x.placements[k].kind = "S" =>
              Remains(k) /\ (op.kind = "flatten" => x.placements[k].axis <= GetValidDim(x.shape, op.endDim))

\* Tensors are expected in front; an empty slice with a step counts as one
\* element; a slice passes for a part of a dimension whichever is cut in two.
SoundGetItem(op, in) ==
    LET s  == in[1].shape
        ix == Expanded(op.index, s)
        pl == in[1].placements
    IN  /\ \A i \in DOMAIN ix : ix[i].is = "tensor" => i = 1 /\ ~IsSharded(in[1])
        /\ ComputeIndexedShape(s, op.index) = TorchIndexedShape(s, ix)
        /\ \A i \in DOMAIN ix : IsPart(ix[i], pl) =>
              \A k \in DOMAIN pl : pl[k].sub # -1 => pl[k].axis = IndexAxis(ix, i) - 1

\* The index means the same element on every device.
SoundSetItem(op, in) ==
    /\ IsWhole(in[1]) /\ IsWhole(in[2])
    /\ Fits(TorchIndexedShape(in[1].shape, Expanded(op.index, in[1].shape)), in[2].shape)

\* Nothing validates the placements; a partial one adds up to a multiple; a
\* tensor of torch is taken for one on the device it is wanted on.
SoundCreate(op, shape) ==
    /\ op.createKind = "from_torch" => op.device = op.mesh.ids[1]
    /\ CheckValid(shape, op.mesh, op.placements) /\ EvenSubSplits(shape, op.mesh, op.placements)
    /\ ~HasPartial(op.placements)

Sound(op, in, out) ==
    /\ in # <<>> => SameCuts(in)
    /\ CASE op.kind \in {"base_math", "broadcast_binary", "clamp"} -> SoundElementwise(op, in)
         [] op.kind = "masked" -> SoundMasked(op, in, out)
         [] op.kind = "reduce" -> SoundReduce(op, in)
         [] op.kind = "matmul" -> SoundMatmul(in)
         [] op.kind = "linear" -> SoundLinear(in)
         [] op.kind = "softmax" -> op.dim # Len(in[1].shape)        \* the dimension behind the last passes
         [] op.kind = "sdpa" -> SoundSdpa(op, in)
         [] op.kind = "apply_rotary_emb" -> SoundRotary(op, in)
         [] op.kind = "silu_linear_chunk" -> SoundSiluLinearChunk(op, in)
         [] op.kind = "layer_norm_mul_add" -> SoundLayerNormMulAdd(op, in)
         [] op.kind = "conv" -> SoundConv(op, in) /\ SoundConvPads(op, in[1].shape, in[2].shape)
         [] op.kind = "pooling" -> SoundPooling(op, in)
         [] op.kind = "interpolate" ->                              \* the arguments of a vector exchanged
              Len(op.scaleFactor) = 1 => op.scaleFactor[1] = Len(in[1].shape) - 2
         [] op.kind = "concat" -> SoundConcat(op, in, out)
         [] op.kind = "squeeze" -> SoundSqueeze(op, in)
         [] op.kind = "expand" -> ~IsSharded(in[1])                 \* the size of the whole tensor on a device
         [] op.kind \in {"flatten", "reshape", "view"} -> SoundReshape(op, in, out)
         [] op.kind = "view_placements" -> op.placements = in[1].placements
         [] op.kind = "get_item" -> SoundGetItem(op, in)
         [] op.kind = "set_item" -> SoundSetItem(op, in)
         [] op.kind = "create" -> SoundCreate(op, out[1].shape)
         [] OTHER -> TRUE
=============================================================================
