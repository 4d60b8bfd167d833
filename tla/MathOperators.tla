---------------------------- MODULE MathOperators ----------------------------
(***************************************************************************)
(* The operators that compute: elementwise, broadcasting, reductions and   *)
(* products.  Each has up to three definitions:                            *)
(*   ...Infer      the shapes it announces for its outputs                 *)
(*                 (InferOutputMetaInfo, CheckInput), from its operands    *)
(*   ...Signature  the placements it accepts and announces                 *)
(*                 (GetPlacementSignature)                                 *)
(*   ...Compute    what one device makes of its local tensors              *)
(*                 (torch_kernel.cc)                                       *)
(* op holds the parameters.  An operand has a shape, a mesh and            *)
(* placements; one that is absent has NullShape, and Absent for a tensor.  *)
(* Element types are left out.  A debug assertion about the operands of a   *)
(* call is a precondition, as it ends the process instead of refusing the  *)
(* call: the programs of the runs keep to it.                              *)
(***************************************************************************)
EXTENDS TorchFunctions, PlacementSignature

Throws == <<>>                                  \* the call raises an exception
When(accepted, shapes) == IF accepted THEN shapes ELSE Throws

Absent == Tensor(NullShape, <<>>)
IsNull(x) == x.shape = NullShape

\* Shape::ExpandBefore and Shape::RemoveSelectedDim
ExpandBefore(s, n) == [i \in 1..(n - Len(s)) |-> 1] \o s
RemoveSelectedDim(s, dim) == SubSeq(s, 1, dim - 1) \o SubSeq(s, dim + 1, Len(s))

HasPartial(pl) == \E k \in DOMAIN pl : pl[k] = Partial
Dims(s) == 0..(Len(s) - 1)

\* Operator::GetValidDim; the one behind the last is let through.
IsValidDim(s, dim) == dim \in -Len(s)..Len(s)
GetValidDim(s, dim) == IF dim < 0 THEN dim + Len(s) ELSE dim

\* Rules for one input and one output.
Keeps(i, j) == Build(<<S(i)>>, <<S(j)>>)
PartialStays == <<Build(<<Partial>>, <<Partial>>)>>

-----------------------------------------------------------------------------
(* Elementwise *)

ActivationInfer(op, in) == When(~HasPartial(in[1].placements), <<in[1].shape>>)
ActivationCompute(op, ts) == <<Elementwise(Nonlinear, ts[1])>>

BaseMathInfer(op, in) == <<in[1].shape>>
BaseMathCompute(op, ts) ==
    <<Elementwise(LAMBDA x : IF op.baseMathType = "neg" THEN (Prime - x) % Prime ELSE Nonlinear(x), ts[1])>>

\* clone and contiguous
CloneInfer(op, in) == <<in[1].shape>>
CloneCompute(op, ts) == <<ts[1]>>

-----------------------------------------------------------------------------
(* Broadcasting *)

\* Shape::CanBroadcastWith, Shape::BroadcastOutputShape
CanBroadcastWith(s, u) ==
    \A i \in 0..(Min({Len(s), Len(u)}) - 1) :
        LET a == s[Len(s) - i]
            b == u[Len(u) - i]
        IN  1 \in {a, b} \/ a = b
BroadcastOutputShape(s, u) ==
    LET n == Ranked(s, u)
    IN  [i \in 1..n |-> Max({Padded(s, n)[i], Padded(u, n)[i]})]

\* Null when there is a scalar in its place, with which any shape broadcasts.
BroadcastInfer(op, in) ==
    IF IsNull(in[1]) THEN <<in[2].shape>>
    ELSE IF IsNull(in[2]) THEN <<in[1].shape>>
    ELSE When(CanBroadcastWith(in[1].shape, in[2].shape),
              <<BroadcastOutputShape(in[1].shape, in[2].shape)>>)

\* AddBroadcastBinaryOpPlacementSignature.  A dimension that one operand lacks
\* or repeats may be sharded in the other; which it is, is looked up at the
\* place it has if the operand is the longer one.
BroadcastRules(a, b) ==
    LET expandDimA == Max({0, Len(b) - Len(a)})
        expandDimB == Max({0, Len(a) - Len(b)})
        Alone(i, expand, other) == i < expand \/ other[i - expand + 1] = 1
        Same(i) == a[i + expandDimB + 1] = b[i + expandDimA + 1]
    IN  ForAxes({i \in Dims(a) : Alone(i, expandDimB, b)},
                LAMBDA i : Build(<<S(i), Replicate>>, <<S(i + expandDimA)>>))
        \o ForAxes({i \in Dims(b) : Alone(i, expandDimA, a)},
                   LAMBDA i : Build(<<Replicate, S(i)>>, <<S(i + expandDimB)>>))
        \o ForAxes({i \in Dims(a) \cap Dims(b) : Same(i)},
                   LAMBDA i : Build(<<S(i + expandDimB), S(i + expandDimA)>>, <<S(i + expandDimA + expandDimB)>>))

BroadcastSignature(op, in) == Finish(BroadcastRules(in[1].shape, in[2].shape), 2, 1)

\* A number, if there is one, stands in for a tensor that is absent.
OrScalar(t, x) == IF IsNull(t) /\ x # <<>> THEN Scalar(x[1]) ELSE t
Truth(b) == IF b THEN 1 ELSE 0

BroadcastFunction(op, x, y) ==
    CASE op.binaryKind = "add" -> Plus(x, Times(op.scaleB, y))
      [] op.binaryKind = "sub" -> Plus(x, Prime - Times(op.scaleB, y))
      [] op.binaryKind = "mul" -> Times(x, y)
      [] op.binaryKind = "div" -> Times(x, Nonlinear(y))
      [] op.binaryKind = "pow" -> Nonlinear(Plus(Nonlinear(x), y))
      [] op.binaryKind = "maximum" -> Max({x, y})
      [] op.binaryKind = "minimum" -> Min({x, y})
      [] op.binaryKind = "equal" -> Truth(x = y)
      [] op.binaryKind = "greater" -> Truth(x > y)
      [] op.binaryKind = "greater_equal" -> Truth(x >= y)
      [] op.binaryKind = "less" -> Truth(x < y)
      [] op.binaryKind = "less_equal" -> Truth(x <= y)
      [] op.binaryKind = "logical_and" -> Truth(x # 0 /\ y # 0)
      [] op.binaryKind = "logical_or" -> Truth(x # 0 \/ y # 0)
BroadcastCompute(op, ts) ==
    <<Elementwise2(LAMBDA x, y : BroadcastFunction(op, x, y), OrScalar(ts[1], op.inputA), OrScalar(ts[2], op.inputB))>>

\* The bounds are numbers or tensors; a tensor for the upper bound is looked at
\* only if there is one for the lower.
ClampInfer(op, in) ==
    When(IsNull(in[2]) \/ \A i \in {2, 3} : CanBroadcastWith(in[1].shape, in[i].shape), <<in[1].shape>>)
ClampCompute(op, ts) ==
    LET Bounded(F(_, _), t, bound) == IF IsNull(bound) THEN t ELSE Elementwise2(F, t, bound)
        AtLeast(x, y) == Max({x, y})
        AtMost(x, y)  == Min({x, y})
        lower == OrScalar(ts[2], op.min)
        upper == OrScalar(ts[3], op.max)
    IN  <<IF IsNull(lower) /\ IsNull(upper) THEN NoTensor
          ELSE Bounded(AtMost, Bounded(AtLeast, ts[1], lower), upper)>>

\* where(condition, input, other), of which input and other may be numbers.
WhereInfer(op, in) ==
    LET With(s, x) == IF IsNull(x) THEN s ELSE BroadcastOutputShape(s, x.shape)
        Fits(s, x) == IsNull(x) \/ CanBroadcastWith(s, x.shape)
        first == With(in[1].shape, in[2])
    IN  When(Fits(in[1].shape, in[2]) /\ Fits(first, in[3]), <<With(first, in[3])>>)
WhereSignature(op, in) == Finish(<<>>, 3, 1)
WhereCompute(op, ts) == <<Where(ts[1], OrScalar(ts[2], op.input), OrScalar(ts[3], op.other))>>

\* masked_fill(input, mask) and masked_scatter(input, mask, source)
MaskedInfer(op, in) ==
    When(CanBroadcastWith(in[1].shape, in[2].shape), <<BroadcastOutputShape(in[1].shape, in[2].shape)>>)
MaskedCompute(op, ts) ==
    <<IF op.maskedType = "fill" THEN Where(ts[2], Scalar(op.value), ts[1]) ELSE MaskedScatter(ts[1], ts[2], ts[3])>>

-----------------------------------------------------------------------------
(* Reductions *)

GetDimSet(op, s) == IF op.dim = <<>> THEN Dims(s) ELSE {GetValidDim(s, op.dim[i]) : i \in DOMAIN op.dim}

\* ReduceOp::CalculateOutputShape
ReduceInfer(op, in) ==
    LET s    == in[1].shape
        axes == {d + 1 : d \in GetDimSet(op, s)}
    IN  When(\A i \in DOMAIN op.dim : op.dim[i] \in -Len(s)..(Len(s) - 1),
             <<IF op.keepdim THEN [i \in DOMAIN s |-> IF i \in axes THEN 1 ELSE s[i]] ELSE WithoutAxes(s, axes)>>)

ReduceSignature(op, in) ==
    LET s       == in[1].shape
        reduced == GetDimSet(op, s)
        Out(i)  == IF op.keepdim THEN i ELSE Cardinality(0..(i - 1) \ reduced)
    IN  Finish(ForAxes(Dims(s), LAMBDA i : Build(<<S(i)>>, <<IF i \in reduced THEN Replicate ELSE S(Out(i))>>)),
               1, 1)

\* ReduceKernel::ComputeLocalResult; any and all of the whole tensor are numbers.
ComputeLocalResult(op, t) ==
    LET axes == IF op.dim = <<>> THEN DOMAIN t.shape ELSE {AxisOf(t.shape, op.dim[i]) : i \in DOMAIN op.dim}
        keep == op.keepdim /\ (op.dim # <<>> \/ op.reduceKind \in {"sum", "mean"})
        Number(cs) ==
            CASE op.reduceKind = "sum"  -> TotalOf(t, cs)
              [] op.reduceKind = "mean" -> Times(TotalOf(t, cs), Reciprocal[Cardinality(cs)])
              [] op.reduceKind = "any"  -> Truth(\E c \in cs : t.at[c] # 0)
              [] op.reduceKind = "all"  -> Truth(\A c \in cs : t.at[c] # 0)
    IN  ReduceWith(Number, t, axes, keep)

\* ReduceKernel::Compute joins the results of the devices that share the axis.
JoinResults(op, ts) ==
    LET Both(x, y) == CASE op.reduceKind \in {"sum", "mean"} -> Plus(x, y)
                        [] op.reduceKind = "any" -> Max({x, y})
                        [] op.reduceKind = "all" -> Min({x, y})
        joined == FoldLeft(LAMBDA a, b : Elementwise2(Both, a, b), Head(ts), Tail(ts))
    IN  IF op.reduceKind = "mean" THEN Elementwise(LAMBDA x : Times(x, Reciprocal[Len(ts)]), joined) ELSE joined

\* max and min: of everything, or the values and their places along a dimension.
MaxMinInfer(op, in) ==
    LET s   == in[1].shape
        dim == GetValidDim(s, op.dim[1]) + 1
        out == IF op.keepdim THEN [s EXCEPT ![dim] = 1] ELSE RemoveSelectedDim(s, dim)
    IN  IF op.dim = <<>> THEN <<<<>>>> ELSE When(IsValidDim(s, op.dim[1]), <<out, out>>)
MaxMinSignature(op, in) == Finish(<<>>, 1, IF op.dim = <<>> THEN 1 ELSE 2)
MaxMinCompute(op, ts) ==
    LET t     == ts[1]
        axis  == AxisOf(t.shape, op.dim[1])
        Best(cs)  == LET ns == {t.at[c] : c \in cs} IN IF op.maxMinKind = "max" THEN Max(ns) ELSE Min(ns)
        Place(cs) == Min({c[axis] : c \in {c \in cs : t.at[c] = Best(cs)}})
    IN  IF op.dim = <<>> THEN <<ReduceWith(Best, t, DOMAIN t.shape, FALSE)>>
        ELSE <<ReduceWith(Best, t, {axis}, op.keepdim), ReduceWith(Place, t, {axis}, op.keepdim)>>

\* einsum of one operand, "ij->j": op.output names the input dimension of every
\* output dimension; the others are summed.
EinsumInfer(op, in) == <<[i \in DOMAIN op.output |-> in[1].shape[op.output[i] + 1]]>>
EinsumSignature(op, in) ==
    Finish([i \in DOMAIN op.output |-> Keeps(op.output[i], i - 1)] \o PartialStays, 1, 1)
EinsumCompute(op, ts) ==
    LET kept   == {op.output[i] + 1 : i \in DOMAIN op.output}
        summed == ReduceWith(LAMBDA cs : TotalOf(ts[1], cs), ts[1], DOMAIN ts[1].shape \ kept, FALSE)
    IN  <<TorchPermute(summed, [i \in DOMAIN op.output |-> Cardinality({j \in kept : j <= op.output[i] + 1})])>>

-----------------------------------------------------------------------------
(* Products *)

\* MatmulOp::SplitBroadcastShape
BatchShape(s)   == SubSeq(s, 1, Len(s) - 2)
ComputeShape(s) == SubSeq(s, Max({1, Len(s) - 1}), Len(s))

\* [M,K] or [K] times [K,N] or [K]
ComputeShapeForLessTwoDim(a, b) == SubSeq(a, 1, Len(a) - 1) \o SubSeq(b, 2, Len(b))

MergeShape(batch, compute) == batch \o compute

MatmulInfer(op, in) ==
    LET a == in[1].shape
        b == in[2].shape
    IN  When(CanBroadcastWith(BatchShape(a), BatchShape(b)) /\ Last(a) = ComputeShape(b)[1],
             <<MergeShape(BroadcastOutputShape(BatchShape(a), BatchShape(b)),
                          ComputeShapeForLessTwoDim(ComputeShape(a), ComputeShape(b)))>>)

\* Mutant of MatmulSignature: a product over a sharded dimension is complete.
MatmulSignatureComplete(op, in) ==
    LET a == in[1].shape
        b == in[2].shape
    IN  Finish(<<Build(<<S(Len(a) - 1), S(Len(b) - 2)>>, <<Replicate>>)>>, 2, 1)

MatmulSignature(op, in) ==
    LET a    == in[1].shape
        b    == in[2].shape
        rank == Len(MatmulInfer(op, in)[1])
        rows == Len(a) >= 2
        columns == Len(b) >= 2
        M  == S(Len(a) - 2)
        KA == S(Len(a) - 1)
        KB == S(Len(b) - (IF columns THEN 2 ELSE 1))
        N  == S(Len(b) - 1)
        R  == Replicate
        P  == Partial
        outM == S(rank - (IF columns THEN 2 ELSE 1))
        outN == S(rank - 1)
        OfRows    == <<Build(<<M, R>>, <<outM>>), Build(<<M, KB>>, <<P>>)>>
        OfColumns == <<Build(<<R, N>>, <<outN>>), Build(<<KA, N>>, <<P>>)>>
        Contracted == <<Build(<<KA, R>>, <<P>>), Build(<<R, KB>>, <<P>>), Build(<<KA, KB>>, <<P>>),
                        Build(<<P, R>>, <<P>>), Build(<<R, P>>, <<P>>)>>
    IN  Finish(BroadcastRules(BatchShape(a), BatchShape(b))
               \o (IF rows THEN OfRows ELSE <<>>) \o (IF columns THEN OfColumns ELSE <<>>)
               \o (IF rows \/ columns THEN Contracted ELSE <<>>), 2, 1)

MatmulCompute(op, ts) == <<TorchMatmul(ts[1], ts[2])>>

OuterInfer(op, in) == When(Len(in[1].shape) = 1 /\ Len(in[2].shape) = 1, <<in[1].shape \o in[2].shape>>)
OuterSignature(op, in) ==
    Finish(<<Build(<<Partial, Replicate>>, <<Partial>>), Build(<<Replicate, Partial>>, <<Partial>>),
             Build(<<S(0), Replicate>>, <<S(0)>>), Build(<<Replicate, S(0)>>, <<S(1)>>)>>, 2, 1)
OuterCompute(op, ts) ==
    LET s == ts[1].shape \o ts[2].shape
    IN  <<Tensor(s, [c \in Coordinates(s) |-> Times(ts[1].at[<<c[1]>>], ts[2].at[<<c[2]>>])])>>
=============================================================================
