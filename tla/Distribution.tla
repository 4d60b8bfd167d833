---------------------------- MODULE Distribution ----------------------------
(***************************************************************************)
(* Tensors, placements and what one device does with them: how a           *)
(* DistributedSpec cuts a tensor into the local tensors of the devices of  *)
(* a mesh, and the operations of ThreadGroup that convert one cut into     *)
(* another, as functions from the operands of all ranks to the result of   *)
(* each (SameDeviceCollectives has the interleaving of the ranks).         *)
(*                                                                         *)
(* A tensor is its shape and its elements.  Elements are residues modulo a *)
(* prime: sums, products and quotients are exact and stay small, and an    *)
(* element in the wrong place, missing or counted twice shows.             *)
(***************************************************************************)
EXTENDS Integers, SequencesExt, FiniteSetsExt

CONSTANT GpuCount       \* GPUs of the cluster (ClusterInfo::mTotalGpuCount)

ASSUME GpuCountAssumption == GpuCount \in Nat

-----------------------------------------------------------------------------
(* Tensors *)

Product(s) == FoldLeft(LAMBDA a, b : a * b, 1, s)
Sum(s)     == FoldLeft(LAMBDA a, b : a + b, 0, s)

\* All index tuples below the sizes s.
Coordinates(s) ==
    {c \in [DOMAIN s -> 0..(Max({s[i] : i \in DOMAIN s} \cup {0}) - 1)] :
        \A i \in DOMAIN s : c[i] < s[i]}

\* Stride(shape).ComputeIndex: the row-major position of a coordinate.
ComputeIndex(c, s) == FoldLeftDomain(LAMBDA acc, i : acc * s[i] + c[i], 0, s)

Prime == 10007
Plus(a, b)  == (a + b) % Prime
Times(a, b) == (a * b) % Prime

Tensor(s, at) == [shape |-> s, at |-> at]
NoTensor == Tensor(<<-1>>, <<>>)    \* what a failed assertion or torch call yields
Failed(t) == t.shape = <<-1>>

\* The tensor the caller starts from.
Whole(s) == Tensor(s, [c \in Coordinates(s) |-> 1 + ComputeIndex(c, s)])

Slice(t, axis, from, size) ==
    LET s == [t.shape EXCEPT ![axis] = size]
    IN  Tensor(s, [c \in Coordinates(s) |-> t.at[[c EXCEPT ![axis] = @ + from]]])

\* torch::split
Split(t, sizes, axis) ==
    [i \in DOMAIN sizes |-> Slice(t, axis, Sum(SubSeq(sizes, 1, i - 1)), sizes[i])]

\* torch::concat, which throws unless the other dimensions agree.
Concat2(axis, a, b) ==
    LET s == [a.shape EXCEPT ![axis] = @ + b.shape[axis]]
    IN  IF Failed(a) \/ Failed(b) \/ [a.shape EXCEPT ![axis] = 0] # [b.shape EXCEPT ![axis] = 0]
        THEN NoTensor
        ELSE Tensor(s, [c \in Coordinates(s) |->
                          IF c[axis] < a.shape[axis]
                          THEN a.at[c]
                          ELSE b.at[[c EXCEPT ![axis] = @ - a.shape[axis]]]])

Concat(ts, axis) == FoldLeft(LAMBDA a, b : Concat2(axis, a, b), Head(ts), Tail(ts))

ZerosLike(t) == Tensor(t.shape, [c \in DOMAIN t.at |-> 0])

\* torch's a + b for tensors of one shape.
Add(a, b) ==
    IF a.shape = b.shape THEN Tensor(a.shape, [c \in DOMAIN a.at |-> Plus(a.at[c], b.at[c])])
                         ELSE NoTensor

AddAll(ts) == FoldLeft(Add, Head(ts), Tail(ts))

-----------------------------------------------------------------------------
(* Placements.  Shard(axis, sub): the first sub+1 elements and the rest    *)
(* are split separately; sub = -1 splits the dimension as one.             *)

Replicate == [kind |-> "R", axis |-> -1, sub |-> -1]
Partial   == [kind |-> "P", axis |-> -1, sub |-> -1]
Shard(axis, sub) == [kind |-> "S", axis |-> axis, sub |-> sub]

IsShardOf(p, axis) == p.kind = "S" /\ p.axis = axis

IsDistributed(m) == Len(m.ids) > 1
Device(m, c) == m.ids[1 + ComputeIndex(c, m.dims)]

\* The rank of a device among those of a mesh, from 1.
GetRankId(d, m) == CHOOSE rank \in DOMAIN m.ids : m.ids[rank] = d

\* The dimensions of the mesh that shard an axis, and into how many pieces.
ShardDims(pl, axis) == {k \in DOMAIN pl : IsShardOf(pl[k], axis)}
ShardedAxes(pl) == {pl[k].axis : k \in {k \in DOMAIN pl : pl[k].kind = "S"}}
ShardCount(m, pl, axis) == Product([k \in DOMAIN pl |-> IF k \in ShardDims(pl, axis) THEN m.dims[k] ELSE 1])

\* Sizes of the pieces: the first ones take the remainder.
GetShardSizeForAllRank(size, n) ==
    [i \in 1..n |-> (size \div n) + (IF i <= size % n THEN 1 ELSE 0)]

\* ToReplicateWhenDimSizeEqualOne and ShardDimToPositiveNumber, which forgets
\* the sub-split of the placements it renumbers.
Normalised(pl, m, s) ==
    [k \in DOMAIN pl |->
        IF m.dims[k] = 1 THEN Replicate
        ELSE IF pl[k].kind = "S" /\ pl[k].axis \in -Len(s)..-1
             THEN Shard(pl[k].axis + Len(s), -1)
             ELSE pl[k]]

\* The shape of an operand that is not there (Shape::GetNullShape).
NullShape == <<-100>>

\* DistributedSpec::CheckShapeValid: every piece of a sharded axis has an element.
CheckShapeValid(s, m, pl) ==
    \A axis \in ShardedAxes(pl) : s[axis + 1] >= ShardCount(m, pl, axis)

\* DistributedSpec::CheckDeviceIdValid, of the meshes of GPUs; one of CPUs passes.
CheckDeviceIdValid(m) == \A i \in DOMAIN m.ids : m.ids[i] < GpuCount

\* DistributedSpec::CheckValid
CheckValid(s, m, pl) ==
    \/ s = NullShape
    \/ /\ CheckDeviceIdValid(m)
       /\ Len(pl) = Len(m.dims)
       /\ ~IsDistributed(m) => pl[1] = Replicate
       /\ \A k \in DOMAIN pl : pl[k].kind = "S" => pl[k].axis \in 0..(Len(s) - 1) /\ m.dims[k] >= 2 /\ pl[k].sub >= -1
       /\ CheckShapeValid(s, m, pl)

\* The dimensions of the mesh whose placement changes.
GetDiffDims(from, to) == {k \in DOMAIN from : from[k] # to[k]}

\* Mutant of GetConvertOrder: everything front to back.
FrontToBack(from, to) == SetToSortSeq(GetDiffDims(from, to), <)

\* Order in which a conversion changes the mesh dimensions: Shard to Replicate
\* last, and back to front.
GetConvertOrder(from, to) ==
    LET differs == GetDiffDims(from, to)
        gathers == {k \in differs : from[k].kind = "S" /\ to[k].kind = "R"}
    IN  SetToSortSeq(differs \ gathers, <) \o SetToSortSeq(gathers, >)

\* DistributedSpec::ComputeLocalShape, from the global shape alone.
GetLocalShape(s, m, pl, c) ==
    [a \in DOMAIN s |->
        LET dims  == SetToSortSeq(ShardDims(pl, a - 1), <)
            count == ShardCount(m, pl, a - 1)
            index == ComputeIndex([i \in DOMAIN dims |-> c[dims[i]]],
                                  [i \in DOMAIN dims |-> m.dims[dims[i]]])
        IN  IF s[a] % count = 0 THEN s[a] \div count
                                ELSE GetShardSizeForAllRank(s[a], count)[index + 1]]

-----------------------------------------------------------------------------
(* Scatter and gather (DistributedScather, DistributeGather) *)

\* The i-th of n pieces (from 0) of an axis, none of which may be empty.
Cut(t, axis, n, i) ==
    LET sizes == GetShardSizeForAllRank(t.shape[axis], n)
    IN  IF Failed(t) \/ t.shape[axis] < n THEN NoTensor ELSE Split(t, sizes, axis)[i + 1]

\* The same for a placement, whose two parts are cut separately.
Piece(t, p, n, i) ==
    LET axis == p.axis + 1
        two  == Split(t, <<p.sub + 1, t.shape[axis] - p.sub - 1>>, axis)
    IN  IF Failed(t) \/ p.sub >= t.shape[axis] THEN NoTensor
        ELSE IF p.sub = -1 THEN Cut(t, axis, n, i)
        ELSE Concat(<<Cut(two[1], axis, n, i), Cut(two[2], axis, n, i)>>, axis)

\* DistributedScather::ScatherImp for one (merged) dimension of the mesh.
ScatherDim(t, p, n, i) ==
    CASE p.kind = "R" -> t
      [] p.kind = "P" -> IF i = 0 THEN t ELSE ZerosLike(t)
      [] p.kind = "S" -> Piece(t, p, n, i)

\* MergeSameShardDim: the mesh dimensions that shard one axis become one
\* dimension, at the place of the first of them.
MergeSameShardDim(pl) ==
    LET Group(k) == IF pl[k].kind = "S" THEN ShardDims(pl, pl[k].axis) ELSE {k}
        firsts   == SetToSortSeq({k \in DOMAIN pl : k = Min(Group(k))}, <)
    IN  [i \in DOMAIN firsts |-> SetToSortSeq(Group(firsts[i]), <)]

\* Mutant of Scather: the mesh dimensions split one after the other.
ScatherUnmerged(t, m, pl) ==
    [c \in Coordinates(m.dims) |->
        FoldLeftDomain(LAMBDA u, k : ScatherDim(u, pl[k], m.dims[k], c[k]), t, m.dims)]

\* The tensor every coordinate of the mesh is given.
Scather(t, m, pl) ==
    LET groups == MergeSameShardDim(pl)
        Size(g)     == [i \in DOMAIN g |-> m.dims[g[i]]]
        Index(g, c) == ComputeIndex([i \in DOMAIN g |-> c[g[i]]], Size(g))
    IN  [c \in Coordinates(m.dims) |->
            FoldLeft(LAMBDA u, g : ScatherDim(u, pl[g[1]], Product(Size(g)), Index(g, c)),
                     t, groups)]

\* The devices of a group along mesh dimension k (ThreadGroupInfo), in rank order.
ThreadGroup(c, m, k) == [i \in 1..m.dims[k] |-> [c EXCEPT ![k] = i - 1]]

\* Join the pieces of a sub-split shard.  How long the front parts are is
\* guessed from the size of the first piece.
GatherShardWithSubSplit(ts, m, pl, k) ==
    LET axis   == pl[k].axis + 1
        n     == Len(ts)
        whole == IF pl[k].sub > ts[1].shape[axis] THEN ShardCount(m, pl, pl[k].axis) ELSE n
        sizes == SubSeq(GetShardSizeForAllRank(pl[k].sub + 1, whole), 1, n)
        Halves(i) == Split(ts[i], <<sizes[i], ts[i].shape[axis] - sizes[i]>>, axis)
    IN  IF \/ pl[k].sub = 0 \/ \E i \in 1..n : Failed(ts[i])
           \/ pl[k].sub + 1 < whole \/ \E i \in 1..n : sizes[i] >= ts[i].shape[axis]
        THEN NoTensor
        ELSE Concat(<<Concat([i \in 1..n |-> Halves(i)[1]], axis),
                      Concat([i \in 1..n |-> Halves(i)[2]], axis)>>, axis)

GatherShard(ts, m, pl, k) ==
    IF pl[k].sub = -1 THEN Concat(ts, pl[k].axis + 1) ELSE GatherShardWithSubSplit(ts, m, pl, k)

\* DistributeGather::GatherImp for mesh dimension k: what it makes of the
\* tensors f the dimensions behind k have been gathered into.
GatherDim(f, m, pl, k) ==
    [c \in DOMAIN f |->
        LET ts == [i \in 1..m.dims[k] |-> f[ThreadGroup(c, m, k)[i]]]
        IN  CASE pl[k].kind = "R" -> ts[1]
              [] pl[k].kind = "P" -> AddAll(ts)
              [] pl[k].kind = "S" -> GatherShard(ts, m, pl, k)]

Gather(f, m, pl) ==
    FoldRightDomain(LAMBDA k, g : GatherDim(g, m, pl, k), m.dims, f)[[k \in DOMAIN m.dims |-> 0]]

-----------------------------------------------------------------------------
(* ThreadGroup's operations for one rank: c is its coordinate, k the mesh  *)
(* dimension that changes, f the operand of every coordinate.              *)

Group(f, c, m, k) == [i \in 1..m.dims[k] |-> f[ThreadGroup(c, m, k)[i]]]

\* S -> S: everyone cuts its piece along the new axis and receives one cut of
\* every other rank, to be joined along the old axis.
AllToAll(f, c, m, k, from, to) ==
    LET received == [i \in 1..m.dims[k] |->
                        Cut(Group(f, c, m, k)[i], to.axis + 1, m.dims[k], c[k])]
    IN  IF from.sub # -1 \/ to.sub # -1 THEN NoTensor ELSE Concat(received, from.axis + 1)

\* R -> S
ReplicateToShard(f, c, m, k, p) ==
    IF p.sub = 0 THEN NoTensor ELSE Piece(f[c], p, m.dims[k], c[k])

\* P -> S(0) of ThreadGroupSameDeviceBackend: rank 0 adds what the others have to
\* its operand, and everyone takes a piece of that.  Along the dimensions joined
\* the ranks 0 have one tensor for their operand, to which each of them adds.
SumOfRank0(f, c, m, k, joined) ==
    LET times == Product([j \in DOMAIN m.dims |-> IF j \in joined \ {k} THEN m.dims[j] ELSE 1])
        ts    == Group(f, c, m, k)
    IN  FoldLeft(LAMBDA sum, i : AddAll(<<sum>> \o Tail(ts)), Head(ts), [i \in 1..times |-> i])
ReduceScatterTensor(f, c, m, k, joined) ==
    LET sum == SumOfRank0(f, c, m, k, joined)
    IN  IF Failed(sum) \/ sum.shape[1] % m.dims[k] # 0
        THEN NoTensor ELSE Cut(sum, 1, m.dims[k], c[k])

IsReduceScatter(from, to) ==
    \E k \in GetDiffDims(from, to) : from[k].kind = "P" /\ IsShardOf(to[k], 0)

\* What a conversion leaves of its operand.
AfterPlacements(f, m, from, to, joined) ==
    LET k == CHOOSE k \in GetDiffDims(from, to) : TRUE
    IN  [c \in DOMAIN f |->
            IF IsReduceScatter(from, to) /\ c[k] = 0 THEN SumOfRank0(f, c, m, k, joined) ELSE f[c]]

\* ConvertKernel::ConvertPlacements: one dimension of the mesh changes.
ConvertPlacements(f, m, from, to, joined) ==
    LET k == CHOOSE k \in GetDiffDims(from, to) : TRUE
    IN  [c \in DOMAIN f |->
            CASE from[k].kind = "S" /\ to[k].kind = "S" -> AllToAll(f, c, m, k, from[k], to[k])
              [] from[k].kind = "S" /\ to[k].kind = "R" ->
                   GatherShard(Group(f, c, m, k), m, from, k)
              [] from[k].kind = "R" /\ to[k].kind = "S" -> ReplicateToShard(f, c, m, k, to[k])
              [] from[k].kind = "P" /\ IsShardOf(to[k], 0) -> ReduceScatterTensor(f, c, m, k, joined)
              [] from[k].kind = "P" /\ to[k].kind = "R" -> AddAll(Group(f, c, m, k))
              [] OTHER -> NoTensor]                             \* DUnimplemented
=============================================================================
