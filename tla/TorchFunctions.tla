--------------------------- MODULE TorchFunctions ---------------------------
(***************************************************************************)
(* The torch functions the kernels call, on the tensors of one device.     *)
(* NoTensor stands for an exception.  Functions whose values do not matter *)
(* are replaced by ones that depend on the same elements and are not       *)
(* linear, so that a result computed from shards, or from summands, where  *)
(* it must not be, is another result.                                      *)
(***************************************************************************)
EXTENDS Distribution

\* Numbers the tensors of a program hold.
Reciprocal == [n \in 1..16 |-> CHOOSE i \in 1..(Prime - 1) : (i * n) % Prime = 1]
Nonlinear(x) == (x * x + 3) % Prime

Total(n, F(_)) == FoldLeft(LAMBDA acc, k : Plus(acc, F(k)), 0, [k \in 1..n |-> k - 1])
TotalOf(t, S)  == FoldSet(LAMBDA c, acc : Plus(acc, t.at[c]), 0, S)

Elementwise(F(_), t) == Tensor(t.shape, [c \in DOMAIN t.at |-> F(t.at[c])])

\* Broadcasting: missing leading axes and axes of size 1 repeat.
Padded(s, n)  == [i \in 1..n |-> IF i <= n - Len(s) THEN 1 ELSE s[i + Len(s) - n]]
Ranked(s, u)  == Max({Len(s), Len(u)})
Compatible(s, u) ==
    LET n == Ranked(s, u)
    IN  \A i \in 1..n : Padded(s, n)[i] = Padded(u, n)[i] \/ 1 \in {Padded(s, n)[i], Padded(u, n)[i]}
Broadcast(s, u) ==
    LET n == Ranked(s, u)
    IN  [i \in 1..n |-> IF Padded(s, n)[i] = 1 THEN Padded(u, n)[i] ELSE Padded(s, n)[i]]
At(t, c) ==
    t.at[[i \in DOMAIN t.shape |-> IF t.shape[i] = 1 THEN 0 ELSE c[i + Len(c) - Len(t.shape)]]]

Elementwise2(F(_, _), a, b) ==
    IF Failed(a) \/ Failed(b) \/ ~Compatible(a.shape, b.shape) THEN NoTensor
    ELSE LET s == Broadcast(a.shape, b.shape)
         IN  Tensor(s, [c \in Coordinates(s) |-> F(At(a, c), At(b, c))])

\* The same of any number of tensors; F of the sequence of their elements.
ElementwiseOf(F(_), ts) ==
    IF \E i, j \in DOMAIN ts : Failed(ts[i]) \/ ~Compatible(ts[i].shape, ts[j].shape) THEN NoTensor
    ELSE LET n == Max({Len(ts[i].shape) : i \in DOMAIN ts})
             s == [k \in 1..n |-> Max({Padded(ts[i].shape, n)[k] : i \in DOMAIN ts})]
         IN  Tensor(s, [c \in Coordinates(s) |-> F([i \in DOMAIN ts |-> At(ts[i], c)])])

\* torch.where, masked_fill with a tensor: a where the mask holds, else b
Where(mask, a, b) ==
    IF ~Compatible(a.shape, b.shape) \/ ~Compatible(mask.shape, Broadcast(a.shape, b.shape))
    THEN NoTensor
    ELSE LET s == Broadcast(mask.shape, Broadcast(a.shape, b.shape))
         IN  Tensor(s, [c \in Coordinates(s) |-> IF At(mask, c) # 0 THEN At(a, c) ELSE At(b, c)])

\* The coordinate of the n-th element (from 0).
CoordinateAt(n, s) == [i \in DOMAIN s |-> (n \div Product(SubSeq(s, i + 1, Len(s)))) % s[i]]

\* The elements of source, in their order, wherever the mask holds.
MaskedScatter(t, mask, source) ==
    LET s == Broadcast(t.shape, mask.shape)
        Taken == {c \in Coordinates(s) : At(mask, c) # 0}
        Before(c) == Cardinality({d \in Taken : ComputeIndex(d, s) < ComputeIndex(c, s)})
    IN  IF ~Compatible(t.shape, mask.shape) \/ Product(source.shape) < Cardinality(Taken) THEN NoTensor
        ELSE Tensor(s, [c \in Coordinates(s) |->
                 IF c \in Taken THEN source.at[CoordinateAt(Before(c), source.shape)] ELSE At(t, c)])

Filled(s, x) == Tensor(s, [c \in Coordinates(s) |-> x])
Scalar(x)    == Filled(<<>>, x)

-----------------------------------------------------------------------------
(* Shapes and axes.  Axes count from 1 here, as sequences do. *)

AxisOf(s, dim) == IF dim < 0 THEN dim + Len(s) + 1 ELSE dim + 1

TorchReshape(t, s) ==
    IF Product(s) # Product(t.shape) THEN NoTensor
    ELSE Tensor(s, [c \in Coordinates(s) |-> t.at[CoordinateAt(ComputeIndex(c, s), t.shape)]])

TorchPermute(t, order) ==
    LET s == [i \in DOMAIN order |-> t.shape[order[i]]]
    IN  Tensor(s, [c \in Coordinates(s) |->
                     t.at[[i \in DOMAIN order |-> c[CHOOSE j \in DOMAIN order : order[j] = i]]]])

Exchanged(s, i, j) == [k \in DOMAIN s |-> IF k = i THEN s[j] ELSE IF k = j THEN s[i] ELSE s[k]]

WithoutAxes(s, axes) == LET kept == SetToSortSeq(DOMAIN s \ axes, <) IN [i \in DOMAIN kept |-> s[kept[i]]]

TorchExpand(t, s) ==
    IF \/ Len(s) < Len(t.shape)
       \/ \E i \in DOMAIN s : Padded(t.shape, Len(s))[i] \notin {1, s[i]}
    THEN NoTensor
    ELSE Tensor(s, [c \in Coordinates(s) |-> At(t, c)])

TorchRepeat(t, times) ==
    LET from == Padded(t.shape, Len(times))
        s    == [i \in DOMAIN times |-> from[i] * times[i]]
    IN  Tensor(s, [c \in Coordinates(s) |-> At(t, [i \in DOMAIN c |-> c[i] % from[i]])])

TorchRepeatInterleave(t, n, axis) ==
    LET s == [t.shape EXCEPT ![axis] = @ * n]
    IN  Tensor(s, [c \in Coordinates(s) |-> t.at[[c EXCEPT ![axis] = @ \div n]]])

\* Constant padding of the last axis.
TorchPad(t, before, after, x) ==
    LET n == Len(t.shape)
        s == [t.shape EXCEPT ![n] = @ + before + after]
    IN  Tensor(s, [c \in Coordinates(s) |->
                     IF c[n] - before \in 0..(t.shape[n] - 1)
                     THEN t.at[[c EXCEPT ![n] = @ - before]] ELSE x])

\* torch.chunk
TorchChunk(t, chunks, axis) ==
    LET size == t.shape[axis]
        each == (size + chunks - 1) \div chunks
        n    == (size + each - 1) \div each
    IN  Split(t, [i \in 1..n |-> IF i < n THEN each ELSE size - each * (n - 1)], axis)

-----------------------------------------------------------------------------
(* Reductions and products *)

\* The elements that differ from c in the given axes only.
Fibre(t, c, axes) == {d \in DOMAIN t.at : \A i \in DOMAIN t.shape \ axes : d[i] = c[i]}

\* One number from the elements that every coordinate of the remaining axes leaves.
ReduceWith(F(_), t, axes, keepdim) ==
    LET kept == SetToSortSeq(DOMAIN t.shape \ axes, <)
        s    == IF keepdim THEN [i \in DOMAIN t.shape |-> IF i \in axes THEN 1 ELSE t.shape[i]]
                           ELSE WithoutAxes(t.shape, axes)
        Place(i) == IF keepdim THEN kept[i] ELSE i
    IN  Tensor(s, [c \in Coordinates(s) |->
                     F({d \in DOMAIN t.at : \A i \in DOMAIN kept : d[kept[i]] = c[Place(i)]})])

\* softmax, layer_norm and their like: an element and the whole row it is in.
Normalise(t, axes) ==
    Tensor(t.shape, [c \in DOMAIN t.at |->
                       Times(t.at[c], 1 + Cardinality(Fibre(t, c, axes)) + TotalOf(t, Fibre(t, c, axes)))])

\* The imaginary half of the last axis, negated, and the real half change places;
\* the halves alternate (-1) or follow each other (-2).
TorchRotated(x, unbindDim) ==
    LET n == Len(x.shape)
        size == x.shape[n]
        IsReal(k)  == IF unbindDim = -1 THEN k % 2 = 0 ELSE k < size \div 2
        Partner(k) == IF unbindDim = -2 THEN (k + size \div 2) % size ELSE IF IsReal(k) THEN k + 1 ELSE k - 1
        From(c) == x.at[[c EXCEPT ![n] = Partner(@)]]
    IN  Tensor(x.shape, [c \in DOMAIN x.at |-> IF IsReal(c[n]) THEN (Prime - From(c)) % Prime ELSE From(c)])

TorchMatmul(a, b) ==
    LET m == Len(a.shape)
        n == Len(b.shape)
        inner   == a.shape[m]
        rows    == IF m = 1 THEN <<>> ELSE <<a.shape[m - 1]>>
        columns == IF n = 1 THEN <<>> ELSE <<b.shape[n]>>
        batchA == SubSeq(a.shape, 1, m - 2)
        batchB == SubSeq(b.shape, 1, n - 2)
        batch  == Broadcast(batchA, batchB)
        s == batch \o rows \o columns
        Row(c) == SubSeq(c, 1, Len(batch) + Len(rows))
        Column(c) == SubSeq(c, Len(s) - Len(columns) + 1, Len(s))
    IN  IF inner # b.shape[IF n = 1 THEN 1 ELSE n - 1] \/ ~Compatible(batchA, batchB) THEN NoTensor
        ELSE Tensor(s, [c \in Coordinates(s) |->
                 Total(inner, LAMBDA k : Times(At(a, Row(c) \o <<k>>),
                                               At(b, SubSeq(c, 1, Len(batch)) \o <<k>> \o Column(c))))])

TorchEmbedding(w, x) ==
    LET s == x.shape \o <<w.shape[2]>>
        Word(c) == x.at[SubSeq(c, 1, Len(x.shape))]
    IN  IF \E c \in DOMAIN x.at : x.at[c] >= w.shape[1] THEN NoTensor
        ELSE Tensor(s, [c \in Coordinates(s) |-> w.at[<<Word(c), c[Len(s)]>>]])

\* softmax(q k^T + mask) v
TorchAttention(q, k, v, mask) ==
    LET r == Len(k.shape)
        Weighted(scores) == IF Failed(scores) THEN NoTensor ELSE TorchMatmul(Normalise(scores, {Len(scores.shape)}), v)
    IN  Weighted(Elementwise2(Plus, TorchMatmul(q, TorchPermute(k, Exchanged([i \in 1..r |-> i], r - 1, r))), mask))

\* A convolution of an NCHW image that is one pixel wide, by filters of a number
\* of rows; every group of filters sees a group of the channels.
TorchConv(x, w, stride, pad, dilation, groups) ==
    LET height == x.shape[3]
        span   == height + 2 * pad - dilation * (w.shape[3] - 1) - 1
        s == <<x.shape[1], w.shape[1], span \div stride + 1, 1>>
        Channel(c, i) == (c[2] \div (w.shape[1] \div groups)) * w.shape[2] + i
        InRow(c, i, j, h) ==
            IF h \in 0..(height - 1) THEN Times(x.at[<<c[1], Channel(c, i), h, 0>>], w.at[<<c[2], i, j, 0>>]) ELSE 0
    IN  IF w.shape[2] * groups # x.shape[2] \/ span < 0 THEN NoTensor
        ELSE Tensor(s, [c \in Coordinates(s) |->
                 Total(w.shape[2], LAMBDA i :
                     Total(w.shape[3], LAMBDA j : InRow(c, i, j, c[3] * stride + j * dilation - pad)))])

\* Windows of rows of such an image.  Rounded up, the last one must not begin
\* behind the image.  F of a window: its coordinates and its padded height.
TorchPool(F(_, _, _), x, kernel, stride, pad, dilation, ceilMode) ==
    LET height == x.shape[3]
        span   == height + 2 * pad - dilation * (kernel - 1) - 1
        up     == (span + stride - 1) \div stride + 1
        rows   == IF ~ceilMode THEN span \div stride + 1
                  ELSE IF (up - 1) * stride >= height + pad THEN up - 1 ELSE up
        s == [x.shape EXCEPT ![3] = rows]
        Window(c, first) == {[c EXCEPT ![3] = h] : h \in {first + dilation * j : j \in 0..(kernel - 1)} \cap 0..(height - 1)}
        Height(first) == Min({first + kernel, height + pad}) - first
    IN  IF span < 0 THEN NoTensor
        ELSE Tensor(s, [c \in Coordinates(s) |->
                 F(x, Window(c, c[3] * stride - pad), Height(c[3] * stride - pad))])

TorchMaxPool(x, kernel, stride, pad, dilation, ceilMode) ==
    TorchPool(LAMBDA t, cs, size : Max({t.at[c] : c \in cs}), x, kernel, stride, pad, dilation, ceilMode)
TorchAvgPool(x, kernel, stride, pad, ceilMode, countIncludePad) ==
    TorchPool(LAMBDA t, cs, size : Times(TotalOf(t, cs), Reciprocal[IF countIncludePad THEN size ELSE Cardinality(cs)]),
              x, kernel, stride, pad, 1, ceilMode)

\* torch's interpolate, mode nearest.
TorchNearest(t, s) ==
    Tensor(s, [c \in Coordinates(s) |-> t.at[[i \in DOMAIN c |-> (c[i] * t.shape[i]) \div s[i]]]])

-----------------------------------------------------------------------------
(* Indexing.  An index has one entry per axis and some that consume none:   *)
(* "int" (at), "slice" (start, stop and step, each <<>> or one number),     *)
(* "all", "tensor" (values: a vector of positions) and "none", a new axis.  *)

WithinAxis(x, size) == Max({0, Min({size, IF x < 0 THEN x + size ELSE x})})
SliceStart(e, size) == IF e.start = <<>> THEN 0 ELSE WithinAxis(e.start[1], size)
SliceStop(e, size)  == IF e.stop = <<>> THEN size ELSE WithinAxis(e.stop[1], size)
SliceStep(e)        == IF e.step = <<>> THEN 1 ELSE e.step[1]

\* Entries that make an axis, in the order of the axes.  Tensors make one axis
\* together: where the first is if they are neighbours, else in front.
TensorEntries(index) == {i \in DOMAIN index : index[i].is = "tensor"}
AxisEntries(index) ==
    LET tensors == TensorEntries(index)
        others  == {i \in DOMAIN index : index[i].is \in {"slice", "all", "none"}}
        first   == IF tensors = {} THEN {} ELSE {Min(tensors)}
    IN  IF tensors = {} \/ tensors = Min(tensors)..Max(tensors) THEN SetToSortSeq(others \cup first, <)
        ELSE SetToSortSeq(first, <) \o SetToSortSeq(others, <)

IndexAxis(index, i) == Cardinality({j \in 1..i : index[j].is # "none"})

TorchIndexedShape(s, index) ==
    LET Size(i) ==
            LET e == index[i]
                size == s[IndexAxis(index, i)]
                span == SliceStop(e, size) - SliceStart(e, size)
            IN  CASE e.is = "none" -> 1
                  [] e.is = "all" -> size
                  [] e.is = "tensor" -> Len(e.values)
                  [] e.is = "slice" -> Max({0, (span + SliceStep(e) - 1) \div SliceStep(e)})
        axes == AxisEntries(index)
    IN  [a \in DOMAIN axes |-> Size(axes[a])]

\* The element of a tensor of shape s that has coordinate c in the result, whose
\* axes are made by the entries axes.
Indexed(s, index, axes, c) ==
    LET \* The entry that consumes axis a, and where the axis it makes lies in c.
        Entry(a) == CHOOSE i \in DOMAIN index : index[i].is # "none" /\ IndexAxis(index, i) = a
        Makes(k, i) == axes[k] = IF index[i].is = "tensor" THEN Min(TensorEntries(index)) ELSE i
        Along(i) == IF index[i].is = "int" THEN 0 ELSE c[CHOOSE k \in DOMAIN axes : Makes(k, i)]
        Place(e, n, size) ==
            CASE e.is = "int" -> IF e.at < 0 THEN e.at + size ELSE e.at
              [] e.is = "all" -> n
              [] e.is = "tensor" -> e.values[n + 1]
              [] e.is = "slice" -> SliceStart(e, size) + n * SliceStep(e)
        PlaceOf(i, size) == Place(index[i], Along(i), size)
    IN  [a \in DOMAIN s |-> PlaceOf(Entry(a), s[a])]

OutOfRange(s, index) ==
    \E i \in DOMAIN index :
        LET size == s[IndexAxis(index, i)]
        IN  \/ index[i].is = "int" /\ index[i].at \notin -size..(size - 1)
            \/ index[i].is = "tensor" /\ \E n \in DOMAIN index[i].values : index[i].values[n] >= size

\* For every coordinate of the result, the element it comes from.
Origins(s, index) ==
    [c \in Coordinates(TorchIndexedShape(s, index)) |-> Indexed(s, index, AxisEntries(index), c)]

TorchIndex(t, index) ==
    LET from == Origins(t.shape, index)
    IN  IF OutOfRange(t.shape, index) THEN NoTensor
        ELSE Tensor(TorchIndexedShape(t.shape, index), [c \in DOMAIN from |-> t.at[from[c]]])

Overwritten(t, value, from) ==
    LET Hits(d) == {c \in DOMAIN from : from[c] = d}
        New(hits, d) == IF hits = {} THEN t.at[d] ELSE At(value, CHOOSE c \in hits : TRUE)
    IN  Tensor(t.shape, [d \in DOMAIN t.at |-> New(Hits(d), d)])

TorchIndexPut(t, index, value) ==
    LET s == TorchIndexedShape(t.shape, index)
    IN  IF OutOfRange(t.shape, index) \/ ~Compatible(s, value.shape) \/ Broadcast(s, value.shape) # s THEN NoTensor
        ELSE Overwritten(t, value, Origins(t.shape, index))
=============================================================================
