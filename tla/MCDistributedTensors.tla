------------------------ MODULE MCDistributedTensors ------------------------
EXTENDS DistributedTensors

GridOf(dims, ids) == [dims |-> dims, ids |-> ids]

Local(d) == GridOf(<<1>>, <<d>>)
Line     == GridOf(<<2>>, <<0, 1>>)
Odd      == GridOf(<<3>>, <<2, 0, 1>>)
Square   == GridOf(<<2, 2>>, <<0, 1, 2, 3>>)
Cube     == GridOf(<<2, 2, 2>>, <<0, 1, 2, 3, 4, 5, 6, 7>>)

X(s)     == [shape |-> s, fill |-> "distinct"]
Words(s) == [shape |-> s, fill |-> "words"]
Mask(s)  == [shape |-> s, fill |-> "mask"]

\* The program of a single call on a line, of a call on other meshes, and of a
\* further call, which may use the results of those before.
Of(tensors, call) == [tensors |-> tensors, calls |-> <<call>>, meshes |-> {Line}, redistributions |-> 0, targets |-> {}]
On(meshes, p) == [p EXCEPT !.meshes = meshes]
Then(p, call) == [p EXCEPT !.calls = Append(@, call)]
Redistributed(n, targets, p) == [p EXCEPT !.redistributions = n, !.targets = targets]

A  == X(<<4, 2>>)
A3 == X(<<4, 3>>)

Comparisons == {"equal", "greater", "greater_equal", "less", "less_equal", "logical_and", "logical_or"}

Elementwise1 == {
    ActivationOpImpl(1), BaseMathImp("neg", 1), BaseMathImp("exp", 1), _Clone(1), _Contiguous(1), Dropout(1),
    _AddScalar(1, 5, 1), _SubScalar(1, 5, 2), BinaryScalar("mul", 1, 5), BinaryScalar("div", 1, 5),
    BinaryScalar("pow", 1, 2), BinaryScalar("less", 1, 45), _PowScalar(2, 1),
    _Clamp(1, <<44>>, <<47>>), _Clamp(1, <<44>>, <<>>), _Clamp(1, <<>>, <<>>)}
ElementwiseCalls == {Of(<<A>>, call) : call \in Elementwise1} \cup {
    Of(<<A, A>>, _Add(1, 2, 1)),
    Of(<<X(<<4, 1>>), X(<<1, 2>>)>>, Binary("mul", 1, 2)),
    Of(<<X(<<2>>), X(<<3, 2>>)>>, _Sub(1, 2, 3)),
    Of(<<X(<<4>>), X(<<4, 1>>)>>, Binary("maximum", 1, 2)),
    Of(<<A, X(<<2>>), X(<<2>>)>>, _ClampTensor(1, 2, 3)),
    Of(<<Mask(<<4, 2>>)>>, _WhereScalars(1, 7, 8)),
    Of(<<Mask(<<4, 2>>), X(<<4, 1>>), X(<<2>>)>>, _Where(1, 2, 3)),
    Of(<<A, Mask(<<4, 2>>)>>, _MaskedFill(1, 2, 9)),
    Of(<<X(<<4, 1>>), Mask(<<4, 2>>)>>, _MaskedFill(1, 2, 9)),
    Of(<<A, Mask(<<4, 2>>), X(<<8>>)>>, _MaskedScatter(1, 2, 3))
}

\* These are on a line only.
ElementwiseOnLine == {Of(<<A, X(<<4, 1>>)>>, Binary(k, 1, 2)) : k \in Comparisons} \cup {
    Of(<<X(<<3, 2>>), X(<<2>>)>>, Binary("div", 1, 2)),
    Of(<<A, A>>, Binary("minimum", 1, 2)),
    Of(<<A, A>>, Binary("pow", 1, 2)),
    Of(<<A, X(<<2>>)>>, _ClampTensor(1, Nullopt, 2)),
    Of(<<X(<<2>>), A>>, _ClampTensor(1, Nullopt, 2)),
    Of(<<Mask(<<4, 2>>), A>>, _WhereOtherScalar(1, 2, 8)),
    Of(<<Mask(<<4, 2>>), A>>, _WhereInputScalar(1, 7, 2))
}

MathCalls == {
    Of(<<A>>, ReduceFunction("sum", 1, <<1>>, FALSE)),
    Of(<<X(<<4, 2, 2>>)>>, ReduceFunction("sum", 1, <<0>>, FALSE)),
    Of(<<A3>>, ReduceFunction("sum", 1, <<-1>>, TRUE)),
    Of(<<A3>>, ReduceFunction("sum", 1, <<>>, FALSE)),
    Of(<<X(<<4, 2, 2>>)>>, ReduceFunction("mean", 1, <<0, 2>>, FALSE)),
    Of(<<A3>>, ReduceFunction("mean", 1, <<1>>, TRUE)),
    Of(<<Mask(<<4, 3>>)>>, ReduceFunction("any", 1, <<0>>, FALSE)),
    Of(<<Mask(<<4, 3>>)>>, ReduceFunction("all", 1, <<0>>, TRUE)),
    Of(<<Mask(<<4, 3>>)>>, ReduceFunction("all", 1, <<>>, TRUE)),
    Of(<<A3>>, MaxMin("max", 1)),
    Of(<<A3>>, MaxMinAlong("min", 1, 1, TRUE)),
    Of(<<A3>>, _Einsum(<<1>>, 1)),
    Of(<<X(<<2, 3, 2>>)>>, _Einsum(<<2, 0>>, 1)),
    Of(<<A3, X(<<3, 2>>)>>, _Matmul(1, 2)),
    Of(<<X(<<4>>), A>>, _Matmul(1, 2)),
    Of(<<X(<<2, 4>>), X(<<4>>)>>, _Matmul(1, 2)),
    Of(<<X(<<2, 3, 2>>), X(<<2, 2, 2>>)>>, _Matmul(1, 2)),
    Of(<<X(<<2, 2, 2>>), X(<<1, 2, 2, 2>>)>>, _Matmul(1, 2)),
    Of(<<A, X(<<2, 2, 3>>)>>, _Matmul(1, 2)),
    Of(<<X(<<4>>), X(<<4>>)>>, _Matmul(1, 2)),
    Of(<<X(<<2, 4>>), X(<<4, 4>>)>>, _Matmul(1, 2)),
    Of(<<X(<<4>>), X(<<3>>)>>, _Outer(1, 2))
}

NeuralCalls == {
    Of(<<X(<<2, 4>>), X(<<3, 4>>), X(<<3>>)>>, Linear(1, 2, 3)),
    Of(<<X(<<2, 2, 4>>), X(<<2, 4>>)>>, Linear(1, 2, Nullopt)),
    Of(<<X(<<2, 4>>), X(<<3, 4>>), X(<<2>>)>>, Linear(1, 2, 3)),
    Of(<<A3>>, Softmax(1, <<-1>>)),
    Of(<<A3>>, Softmax(1, <<2>>)),
    Of(<<A3>>, Softmax(1, <<>>)),
    Of(<<A, X(<<2>>), X(<<2>>)>>, LayerNorm(1, <<2>>, 2, 3)),
    Of(<<X(<<2, 3, 2>>), X(<<3, 2>>)>>, RmsNorm(1, <<3, 2>>, 2)),
    Of(<<X(<<2, 4, 2>>), X(<<4>>)>>, GroupNorm(1, 2, 2, Nullopt)),
    Of(<<X(<<2, 2, 2, 1>>), X(<<2>>)>>, BatchNorm(1, 2, 2, Nullopt, Nullopt)),
    Of(<<X(<<2, 2, 2, 1>>), X(<<2>>)>>, BatchNorm(1, 2, 2, 2, 2)),
    Of(<<X(<<2, 2, 2, 1>>), X(<<2>>)>>, BatchNorm(1, 2, 2, 2, Nullopt)),
    Of(<<Words(<<2, 3>>), X(<<3, 4>>)>>, Embedding(1, 2)),
    Of(<<X(<<2, 2, 3, 2>>), X(<<2, 2, 2, 2>>), X(<<2, 2, 2, 2>>)>>, _ScaledDotProductAttention(1, 2, 3, Nullopt, FALSE)),
    Of(<<X(<<1, 2, 4, 1>>), X(<<1, 2, 2, 1>>), X(<<1, 2, 2, 2>>)>>, _ScaledDotProductAttention(1, 2, 3, Nullopt, TRUE)),
    Of(<<X(<<2, 1, 2, 2, 1>>), X(<<2, 1, 2, 2, 1>>), X(<<2, 1, 2, 2, 1>>)>>, _ScaledDotProductAttention(1, 2, 3, Nullopt, FALSE)),
    Of(<<X(<<2, 2, 2, 1>>), X(<<2, 2, 1, 1>>), X(<<2, 2, 1, 1>>), X(<<2, 1>>)>>, _ScaledDotProductAttention(1, 2, 3, 4, FALSE))
}

\* A fused operator takes what it is given: on a line only.
FusedCalls == {
    Of(<<X(<<2, 1, 2, 4>>), X(<<2, 4>>), X(<<2, 4>>)>>, _ApplyRotaryEmb(1, <<2, 3>>, TRUE, -1)),
    Of(<<X(<<1, 2, 2, 4>>), X(<<2, 4>>)>>, _ApplyRotaryEmb(1, <<2, 2>>, TRUE, -2)),
    Of(<<X(<<1, 1, 2, 2>>), X(<<2, 2>>)>>, _ApplyRotaryEmb(1, <<2, 2>>, FALSE, -1)),
    Of(<<X(<<1, 1, 2, 2>>), X(<<2, 2>>)>>, _ApplyRotaryEmb(1, <<2>>, TRUE, -1)),
    Of(<<X(<<2, 2>>), X(<<4, 2>>), X(<<4>>)>>, _SiluLinearChunk(1, 2, 3, 2)),
    Of(<<X(<<2, 2>>), X(<<4, 2>>), X(<<4>>)>>, _SiluLinearChunk(1, 2, 3, 3)),
    Of(<<X(<<2, 2, 2>>), X(<<2, 2>>), X(<<2, 2>>)>>, _LayerNormMulAdd(1, 2, 3, <<2>>, Nullopt, Nullopt)),
    Of(<<X(<<2, 2, 2>>), X(<<1, 2>>), X(<<2>>)>>, _LayerNormMulAdd(1, 2, 2, <<2>>, 3, 3))
}

SystemCalls == {Of(<<>>, call) : call \in {
    _GetMemoryStats("gpu", <<>>), _GetMemoryStats("gpu", <<Odd>>), _GetMemoryStats("gpu", <<Local(1)>>),
    _GetMemoryStats("cpu", <<Local(0)>>), _EmptyCache, _NvtxRangePush("layer"), _NvtxRangePop, _NvtxMark("")}}
    \cup {On({Local(1), Odd, Square}, Of(<<A>>, GetTorchTensor(1)))}

\* x, weight or window, stride, padding
Conv(s, w, stride, type, padding, dilation, group) == Of(<<X(s), X(w)>>, Conv2d(1, 2, Nullopt, <<stride>>, type, padding, <<dilation, 1>>, group))
Pool(kind, s, kernel, stride, type, padding, dilation, ceil, include) ==
    Of(<<X(s)>>, _Pooling2d(1, kind, <<dilation, 1>>, <<kernel, 1>>, <<stride>>, type, padding, ceil, include))
ImageCalls == {
    Of(<<X(<<2, 1, 4, 1>>), X(<<2, 1, 2, 1>>), X(<<2>>)>>, Conv2d(1, 2, 3, <<2>>, "notset", <<0>>, <<1>>, 1)),
    Conv(<<1, 1, 6, 1>>, <<1, 1, 2, 1>>, 2, "valid", <<0>>, 1, 1),
    Conv(<<1, 2, 4, 1>>, <<1, 2, 2, 1>>, 1, "notset", <<0>>, 1, 1),
    Conv(<<1, 2, 5, 1>>, <<2, 1, 2, 1>>, 1, "notset", <<1, 0>>, 2, 2),
    Conv(<<2, 1, 4, 1>>, <<1, 1, 2, 1>>, 2, "notset", <<1, 0>>, 1, 1),
    Conv(<<2, 1, 4, 1>>, <<1, 1, 2, 1>>, 2, "notset", <<1, 0, 0, 0>>, 1, 1),
    Conv(<<2, 1, 4, 1>>, <<1, 1, 2, 1>>, 2, "same", <<0>>, 1, 1),
    Conv(<<2, 1, 4, 1>>, <<1, 1, 3, 1>>, 1, "same", <<0>>, 1, 1),
    Conv(<<2, 1, 4, 1>>, <<1, 1, 3, 1>>, 1, "same", <<1>>, 1, 1),
    Conv(<<2, 1, 4, 1>>, <<1, 1, 3, 1>>, 1, "notset", <<1, 0, 1>>, 1, 1),
    Pool("max", <<2, 1, 4, 1>>, 2, 2, "notset", <<0>>, 1, FALSE, FALSE),
    Pool("max", <<1, 1, 5, 1>>, 2, 2, "notset", <<1, 0>>, 1, TRUE, FALSE),
    Pool("max", <<1, 1, 5, 1>>, 1, 3, "notset", <<0>>, 1, TRUE, FALSE),
    Pool("max", <<1, 1, 5, 1>>, 2, 1, "notset", <<0>>, 2, FALSE, FALSE),
    Pool("max", <<2, 1, 4, 1>>, 3, 1, "same", <<0>>, 1, FALSE, FALSE),
    Pool("max", <<2, 1, 4, 1>>, 2, 1, "same", <<0>>, 1, FALSE, FALSE),
    Pool("max", <<1, 1, 5, 1>>, 2, 2, "valid", <<0>>, 1, TRUE, FALSE),
    Pool("avg", <<1, 1, 5, 1>>, 2, 2, "notset", <<1, 0>>, 1, TRUE, TRUE),
    Pool("avg", <<1, 1, 5, 1>>, 2, 2, "notset", <<1, 0>>, 1, FALSE, FALSE),
    Pool("avg", <<1, 1, 5, 1>>, 2, 2, "notset", <<1, 0, 0, 0>>, 1, FALSE, FALSE),
    Pool("avg", <<1, 1, 5, 1>>, 2, 1, "notset", <<0>>, 2, FALSE, FALSE),
    Of(<<X(<<2, 1, 4, 1>>)>>, _GlobalPooling2d(1, "max")),
    Of(<<X(<<2, 1, 4, 1>>)>>, _GlobalPooling2d(1, "avg")),
    Of(<<X(<<1, 2, 2, 1>>)>>, Interpolate(1, <<4, 2>>, <<>>)),
    Of(<<X(<<1, 2, 2, 1>>)>>, Interpolate(1, <<>>, <<2>>)),
    Of(<<X(<<1, 2, 2, 1>>)>>, Interpolate(1, <<>>, <<3>>))
}

Row(n) == [is |-> "int", at |-> n]
SliceOf(a, b, c) == [is |-> "slice", start |-> a, stop |-> b, step |-> c]
Colon == SliceOf(<<>>, <<>>, <<>>)
Dots == [is |-> "ellipsis"]
NewAxis == [is |-> "none"]
Picks(v) == [is |-> "tensor", values |-> v]
Get(ix, s) == Of(<<X(s)>>, _GetItem(1, ix))
Put(ix, s, v) == Of(<<X(s), X(v)>>, _SetItem(1, 2, ix))

ShapeCalls == {
    Of(<<A, A>>, _Concat(<<1, 2>>, 1)),
    Of(<<X(<<2, 2>>), A>>, _Concat(<<1, 2>>, 0)),
    Of(<<X(<<2, 2>>), X(<<2, 2>>), X(<<2, 2>>)>>, _Concat(<<1, 2, 3>>, 0)),
    Of(<<X(<<2, 4>>), X(<<2, 4>>)>>, _Concat(<<1, 2>>, 1)),
    Of(<<X(<<4, 4>>)>>, _Chunk(1, 2, 1)),
    Of(<<X(<<5, 2>>)>>, _Chunk(1, 2, 0)),
    Of(<<X(<<4, 2, 3>>)>>, _Transpose(1, 0, -1)),
    Of(<<X(<<4, 2, 3>>)>>, _Permute(1, <<1, 2, 0>>)),
    Of(<<X(<<1, 4, 1, 2>>)>>, _Squeeze(1, <<>>)),
    Of(<<X(<<2, 1, 4>>)>>, _Squeeze(1, <<-2>>)),
    Of(<<X(<<2, 1, 4>>)>>, _Squeeze(1, <<>>)),
    Of(<<X(<<2, 1, 4>>)>>, _Squeeze(1, <<0, 1>>)),
    Of(<<A>>, _Unsqueeze(1, 1)),
    Of(<<A>>, _Unsqueeze(1, -1)),
    Of(<<X(<<4, 1>>)>>, _Expand(1, <<2, 4, 2>>)),
    Of(<<X(<<4, 1>>)>>, _Expand(1, <<-1, 2>>)),
    Of(<<X(<<4, 2, 2>>)>>, _Flatten(1, 0, 1)),
    Of(<<X(<<2, 2, 3>>)>>, _Flatten(1, 1, -1)),
    Of(<<X(<<3, 2>>)>>, _Flatten(1, 0, -1)),
    Of(<<X(<<2, 4, 2>>)>>, _Flatten(1, 1, 2)),
    Of(<<X(<<4, 4>>)>>, _Flatten(1, 0, 0)),
    Of(<<X(<<3, 2>>)>>, _Reshape(1, <<6>>)),
    Of(<<X(<<4, 4>>)>>, _Reshape(1, <<4, 2, 2>>)),
    Of(<<X(<<4, 2, 2>>)>>, _Reshape(1, <<4, -1>>)),
    Of(<<A>>, _Reshape(1, <<2, 2, 2>>)),
    Of(<<X(<<4, 2, 2>>)>>, _View(1, <<8, 2>>)),
    Of(<<A3>>, _View(1, <<0, 3>>)),
    Of(<<A>>, _Repeat(1, <<2, 1, 2>>)),
    Of(<<A>>, _RepeatInterleave(1, 2, <<0>>)),
    Of(<<A>>, _RepeatInterleave(1, 2, <<>>)),
    Of(<<A>>, Pad(1, <<1, 1>>, 7)),
    Of(<<A>>, Pad(1, <<>>, 7)),
    Get(<<Row(1)>>, <<4, 2>>), Get(<<Dots, Row(-1)>>, <<4, 2>>), Get(<<Colon, NewAxis>>, <<4, 2>>),
    Get(<<SliceOf(<<1>>, <<3>>, <<>>)>>, <<4, 2>>), Get(<<SliceOf(<<>>, <<>>, <<2>>), Colon>>, <<4, 2>>),
    Get(<<SliceOf(<<3>>, <<2>>, <<2>>)>>, <<4, 2>>),
    Get(<<SliceOf(<<>>, <<2>>, <<>>)>>, <<4, 4>>), Get(<<Colon, Picks(<<1, 0, 1>>)>>, <<4, 2>>),
    Get(<<Picks(<<2, 0, 1>>)>>, <<4, 2>>),
    Get(<<Colon, SliceOf(<<>>, <<2>>, <<>>)>>, <<2, 6>>), Get(<<Colon, SliceOf(<<2>>, <<>>, <<>>)>>, <<2, 6>>),
    Put(<<Row(1)>>, <<4, 2>>, <<2>>), Put(<<SliceOf(<<1>>, <<3>>, <<>>)>>, <<4, 2>>, <<2, 2>>),
    Put(<<SliceOf(<<1>>, <<3>>, <<>>)>>, <<4, 2>>, <<1, 1>>), Put(<<Colon>>, <<4>>, <<2>>),
    Of(<<A, A>>, _Copy(1, 2))
}

\* Other placements for the same tensors, on a line.
Views == {Of(<<X(s)>>, _ViewPlacements(1, <<p>>)) : s \in {<<4, 2>>, <<1, 2>>}, p \in {Replicate, S(0), S(1)}}

CreateCalls ==
    {Of(<<>>, _Full(s, 3, <<Line>>, <<pl>>)) : s \in {<<4, 2>>, <<3, 2>>}, pl \in {<<Replicate>>, <<S(0)>>, <<S(1)>>, <<Partial>>}}
    \cup {Of(<<>>, _FromTorch(s, 0, <<Line>>, <<pl>>)) : s \in {<<4, 2>>, <<3, 2>>}, pl \in {<<Replicate>>, <<S(0)>>, <<S(1)>>}}
    \cup {Of(<<>>, _Arange(2, end, step, mesh, pl)) :
             end \in {<<>>, <<9>>}, step \in {<<>>, <<2>>, <<-3>>}, mesh \in {<<>>, <<Local(1)>>, <<Odd>>}, pl \in {<<>>, <<<<S(0)>>>>}}
    \cup {Of(<<>>, _FromTorch(<<2, 2>>, device, mesh, <<>>)) : device \in {0, 1}, mesh \in {<<>>, <<Line>>}}
    \cup {Of(<<>>, _Full(<<2, 2>>, 3, <<Square>>, <<<<S(0)>>>>))}
    \cup {Of(<<>>, call) : call \in {
        _Zeros(<<3, 2>>, <<Odd>>, <<>>), _Ones(<<4, 2>>, <<Line>>, <<<<S(1)>>>>), _Rand(<<4, 2>>, <<>>, <<<<S(0)>>>>),
        _Randn(<<4, 2>>, <<Square>>, <<<<S(0), Replicate>>>>), _Randint(<<2, 2>>, <<Local(1)>>, <<>>)}}

Compositions == {
    \* gate and up projection in one, and taken apart again
    Then(Then(Then(Of(<<X(<<2, 4>>), X(<<2, 4>>)>>, _Concat(<<1, 2>>, 1)),
                   _GetItem(3, <<Dots, SliceOf(<<>>, <<4>>, <<>>)>>)),
              _GetItem(3, <<Dots, SliceOf(<<4>>, <<>>, <<>>)>>)),
         Binary("mul", 4, 5)),
    \* two layers, the first cut by columns and the second by rows
    Redistributed(1, {Line}, Then(Then(Of(<<X(<<2, 4>>), X(<<4, 4>>)>>, Linear(1, 2, Nullopt)),
                                       ActivationOpImpl(3)),
                                  Linear(4, 2, Nullopt))),
    \* attention scores and their normalisation
    Redistributed(1, {Line}, Then(Then(Of(<<A>>, _Transpose(1, 0, 1)), _Matmul(1, 2)), Softmax(3, <<-1>>))),
    \* a tensor less its mean
    On({Line, Odd, Square}, Then(Of(<<A>>, ReduceFunction("mean", 1, <<0>>, TRUE)), _Sub(1, 2, 1))),
    \* written in part, then read
    On({Line, Square}, Then(Of(<<A, A>>, _Copy(1, 2)), ReduceFunction("sum", 1, <<0>>, FALSE))),
    \* copied between devices, or between a device and a mesh
    Redistributed(2, {Local(0), Line}, On({Local(1)}, Of(<<X(<<2, 2>>), X(<<2, 2>>)>>, _Copy(1, 2)))),
    \* words to hidden states
    Then(Then(Of(<<Words(<<4, 2>>), X(<<3, 4>>)>>, Embedding(1, 2)), LayerNorm(3, <<4>>, Nullopt, Nullopt)),
         _Flatten(4, 0, 1)),
    \* what may be the tensor itself, then written to
    Then(Then(Of(<<A, X(<<1>>)>>, _Concat(<<1>>, 0)), _SetItem(3, 2, <<Row(0)>>)), _Add(1, 3, 1)),
    \* moved to a mesh of the same form, or of another,
    \* or of one device too many
    Then(Then(Of(<<A>>, _To(1, GridOf(<<2>>, <<1, 2>>))), _To(2, Line)), _Add(1, 3, 1)),
    Then(Of(<<A>>, _To(1, Line)), _To(1, Square)),
    Of(<<A>>, _To(1, GridOf(<<2>>, <<7, 8>>))),
    \* a range, cut, and positions from it
    Then(Then(Of(<<X(<<4>>)>>, _Arange(0, <<8>>, <<2>>, <<Line>>, <<<<S(0)>>>>)), _Add(1, 2, 1)), _Outer(3, 2))
}

\* A program that does nothing but redistribute a tensor.
Redistributing(n, s, meshes, targets) ==
    [tensors |-> <<X(s)>>, calls |-> <<>>, meshes |-> meshes, redistributions |-> n, targets |-> targets]

\* Two local devices, two squares over the same devices in another order, a
\* line whose size divides none of the shapes, and for one shape a cube.  What is
\* distributed from the start has other summands than a scatter makes.
MCMesh == {Local(0), Local(3), Square, GridOf(<<2, 2>>, <<3, 1, 0, 2>>), Odd}
Redistributions == {Redistributing(3, s, {Local(3)}, MCMesh) : s \in {<<4, 4>>, <<5, 3>>}}
                   \cup {Redistributing(3, <<8, 2>>, {Local(3)}, MCMesh \cup {Cube})}
                   \cup {Redistributing(2, <<4, 2>>, {m}, {m}) : m \in {Line, Square}}
                   \cup {Redistributing(1, <<6, 2>>, {Odd}, {Odd})}

\* The more tensors, the fewer meshes.
Spread(ps) == {On(CASE Len(p.tensors) = 1 -> {Local(0), Line, Odd, Square}
                    [] Len(p.tensors) = 2 -> {Line, Odd, Square}
                    [] OTHER -> {Line, Odd}, p) : p \in ps}

MCProgram == Redistributions \cup Compositions \cup CreateCalls \cup ElementwiseOnLine \cup FusedCalls \cup SystemCalls \cup Views
             \cup Spread(ElementwiseCalls \cup MathCalls \cup NeuralCalls \cup ImageCalls \cup ShapeCalls)
MCDefaultMesh == Line
MCPlacement == {Replicate, Partial, Shard(0, -1), Shard(1, -1), Shard(0, 3)}
MCLayout == {Replicate, Partial, Shard(0, -1), Shard(1, -1), Shard(2, -1), Shard(1, 1)}

\* One row per device, nothing but whole shards.
MCSquareProgram == {Redistributing(3, <<4, 2>>, {Local(0)}, {Local(0), Square})}
MCSquarePlacement == {Replicate, Shard(0, -1)}
=============================================================================
