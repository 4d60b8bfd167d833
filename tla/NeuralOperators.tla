--------------------------- MODULE NeuralOperators ---------------------------
(***************************************************************************)
(* The operators of neural networks: linear layers, attention,             *)
(* normalisation, embedding and the operators on images.  Conventions are  *)
(* those of MathOperators.  Images are one pixel wide: their last          *)
(* dimension (NCHW) is there and has one element.                          *)
(***************************************************************************)
EXTENDS MathOperators

\* torch.nn.functional.linear(x, weight, bias)
LinearInfer(op, in) ==
    LET x == in[1].shape
        w == in[2].shape
        b == in[3].shape
    IN  When(Len(w) = 2 /\ (IsNull(in[3]) \/ Len(b) = 1 \/ b[1] = w[1]), <<[x EXCEPT ![Len(x)] = w[1]]>>)

LinearSignature(op, in) ==
    LET last == Len(in[1].shape) - 1
        R == Replicate
        P == Partial
        Rule(x, w, b, y) == BuildOptional(<<x, w, b>>, {3}, <<y>>)
    IN  Finish(ForAxes(0..(last - 1), LAMBDA i : Rule(S(i), R, R, S(i)))
               \o <<Rule(R, S(0), S(0), S(last)), Rule(S(last), S(1), P, P), Rule(P, R, P, P), Rule(R, P, P, P)>>,
               3, 1)

LinearCompute(op, ts) ==
    LET y == TorchMatmul(ts[1], TorchPermute(ts[2], <<2, 1>>))
    IN  <<IF IsNull(ts[3]) THEN y ELSE Elementwise2(Plus, y, ts[3])>>

SoftmaxInfer(op, in) == When(IsValidDim(in[1].shape, op.dim), <<in[1].shape>>)
SoftmaxSignature(op, in) ==
    Finish(ForAxes((0..Len(in[1].shape)) \ {GetValidDim(in[1].shape, op.dim)}, LAMBDA i : Keeps(i, i)), 1, 1)
SoftmaxCompute(op, ts) ==
    <<IF op.dim \in -Len(ts[1].shape)..(Len(ts[1].shape) - 1)
      THEN Normalise(ts[1], {AxisOf(ts[1].shape, op.dim)}) ELSE NoTensor>>

\* layer_norm and rms_norm over the last dimensions, group_norm over groups of
\* channels, with a weight and a bias.
NormalizationInfer(op, in) ==
    LET x == in[1].shape
        shift == Len(x) - Len(op.normalizedShape)
        Fits(s) == \A i \in {2, 3} : IsNull(in[i]) \/ in[i].shape = s
    IN  IF op.normKind = "group"
        THEN When(Len(x) > 2 /\ x[2] % op.numGroups = 0 /\ Fits(<<x[2]>>), <<x>>)
        ELSE When(shift > 0 /\ SubSeq(x, shift + 1, Len(x)) = op.normalizedShape /\ Fits(op.normalizedShape), <<x>>)

NormalizationSignature(op, in) ==
    LET axes == IF op.normKind = "group" THEN {0} ELSE 0..(Len(in[1].shape) - Len(op.normalizedShape) - 1)
    IN  Finish(ForAxes(axes, LAMBDA i : BuildOptional(<<S(i), Replicate, Replicate>>, {2, 3}, <<S(i)>>)), 3, 1)

NormalizationCompute(op, ts) ==
    LET x == ts[1]
        n == Len(x.shape)
        \* The weight and the bias of a group norm lie along the channels.
        Spread(t) == IF op.normKind = "group" /\ ~IsNull(t)
                     THEN TorchReshape(t, <<Product(t.shape)>> \o [i \in 1..(n - 2) |-> 1]) ELSE t
        grouped == TorchReshape(x, <<x.shape[1] * op.numGroups, Product(Tail(x.shape)) \div op.numGroups>>)
        y == IF op.normKind = "group" THEN TorchReshape(Normalise(grouped, {2}), x.shape)
             ELSE Normalise(x, (n - Len(op.normalizedShape) + 1)..n)
    IN  <<Elementwise2(Plus, Elementwise2(Times, y, OrScalar(Spread(ts[2]), <<1>>)), OrScalar(Spread(ts[3]), <<0>>))>>

\* Every channel of an image by its running mean, variance, scale and bias.
BatchNormInfer(op, in) ==
    LET x == in[1].shape
    IN  When(Len(x) = 4 /\ \A i \in 2..5 : IsNull(in[i]) \/ in[i].shape = <<x[2]>>, <<x>>)
BatchNormCompute(op, ts) ==
    LET Of(i, c) == IF IsNull(ts[i]) THEN 1 ELSE ts[i].at[<<c[2]>>]
    IN  <<Tensor(ts[1].shape, [c \in DOMAIN ts[1].at |->
              Plus(Times(Plus(ts[1].at[c], Of(2, c)), Times(Of(3, c), Of(4, c))), Of(5, c))])>>

EmbeddingInfer(op, in) == When(Len(in[2].shape) = 2, <<in[1].shape \o <<in[2].shape[2]>>>>)
EmbeddingSignature(op, in) ==
    Finish(<<Build(<<Replicate, S(1)>>, <<S(Len(in[1].shape))>>)>>
           \o ForAxes(Dims(in[1].shape), LAMBDA i : Build(<<S(i), Replicate>>, <<S(i)>>)), 2, 1)
EmbeddingCompute(op, ts) == <<TorchEmbedding(ts[2], ts[1])>>

\* scaled_dot_product_attention(query, key, value, mask), of four dimensions or
\* more: a debug assertion.
SdpaInfer(op, in) == <<[in[1].shape EXCEPT ![Len(in[1].shape)] = Last(in[3].shape)]>>
SdpaSignature(op, in) ==
    LET Rule(q, kv, mask) == BuildOptional(<<q, kv, kv, mask>>, {4}, <<q>>)
    IN  Finish(<<Rule(S(0), S(0), S(0))>>
               \o ForAxes(1..(Len(in[1].shape) - 3), LAMBDA i : Rule(S(i), S(i), Replicate))
               \o <<Rule(S(2), Replicate, Replicate)>>, 4, 1)
SdpaCompute(op, ts) ==
    LET q == ts[1]
        n == Len(q.shape)
        rows == q.shape[n - 1]
        columns == ts[2].shape[n - 1]
        \* A token sees itself and those before it.
        causal == Tensor(<<rows, columns>>, [c \in Coordinates(<<rows, columns>>) |-> IF c[2] <= c[1] THEN 0 ELSE 1])
    IN  <<TorchAttention(q, ts[2], ts[3], IF op.isCausal THEN causal ELSE OrScalar(ts[4], <<0>>))>>

-----------------------------------------------------------------------------
(* Fused operators, whose kernels are functions of dtorch.compiled_op.     *)
(* They announce the shape of their first input and do not look at others. *)

ApplyRotaryEmbInfer(op, in) == <<in[1].shape>>

\* x cos + rotated(x) sin, where x has four dimensions.  What is not real, or
\* unbound along another dimension, raises.
ApplyRotaryEmbCompute(op, ts) ==
    LET x == ts[1]
        Spread(t) == TorchReshape(t, <<1, 1>> \o t.shape)
    IN  <<IF ~op.useReal \/ op.useRealUnbindDim \notin {-1, -2} \/ Last(x.shape) % 2 # 0 THEN NoTensor
          ELSE ElementwiseOf(LAMBDA v : Plus(Times(v[1], v[2]), Times(v[3], v[4])),
                             <<x, Spread(ts[2]), TorchRotated(x, op.useRealUnbindDim), Spread(ts[3])>>)>>

SiluLinearChunkInfer(op, in) == [i \in 1..op.chunkSize |-> in[1].shape]

\* silu and linear, then chunks along dimension 1, as many as asked for.
SiluLinearChunkCompute(op, ts) ==
    LET chunks == TorchChunk(LinearCompute(op, <<Elementwise(Nonlinear, ts[1]), ts[2], ts[3]>>)[1], op.chunkSize, 2)
        fits   == Last(ts[1].shape) = ts[2].shape[2] /\ Last(ts[3].shape) \in {1, ts[2].shape[1]}
    IN  IF ~fits \/ Len(chunks) # op.chunkSize THEN <<NoTensor>> ELSE chunks

LayerNormMulAddInfer(op, in) == <<in[1].shape>>

\* layer_norm(x) (1 + scale[:, None]) + shift[:, None]
LayerNormMulAddCompute(op, ts) ==
    LET x == ts[1].shape
        n == Len(op.normalizedShape)
        Spread(t) == TorchReshape(t, <<t.shape[1], 1>> \o Tail(t.shape))
        y == Normalise(ts[1], (Len(x) - n + 1)..Len(x))
        Of(v) == Plus(Times(Plus(Times(v[1], v[2]), v[3]), Plus(1, v[4])), v[5])
    IN  <<IF SubSeq(x, Len(x) - n + 1, Len(x)) # op.normalizedShape THEN NoTensor
          ELSE ElementwiseOf(Of, <<y, OrScalar(ts[4], <<1>>), OrScalar(ts[5], <<0>>), Spread(ts[2]), Spread(ts[3])>>)>>

-----------------------------------------------------------------------------
(* Images *)

\* ConvOp::CalculateConvOutput, CalculateConvOutputForSamePad
CalculateConvOutput(input, kernel, dilation, stride, padBefore, padAfter) ==
    (input + padBefore + padAfter - (kernel - 1) * dilation - 1) \div stride + 1
CalculateConvOutputForSamePad(input, stride) == (input + stride - 1) \div stride

\* ConvParam::GetKernelSize: the size of the kernel is the one of the weight.
GetKernelSize(w) == SubSeq(w, 3, 4)

\* pads: above, left, below and right, which are 0 for "valid" and "same".
ConvInfer(op, in) ==
    LET x == in[1].shape
        w == in[2].shape
        Extent(i) == IF op.paddingType = "same" THEN CalculateConvOutputForSamePad(x[i + 2], op.strides[i])
                     ELSE CalculateConvOutput(x[i + 2], GetKernelSize(w)[i], op.dilations[i], op.strides[i],
                                              op.pads[i], op.pads[i + 2])
    IN  When(/\ w[2] = x[2] \div op.group
             /\ IsNull(in[3]) \/ in[3].shape = <<w[1]>>,
             <<<<x[1], w[1], Extent(1), Extent(2)>>>>)

ConvSignature(op, in) ==
    LET plain == op.pads[1] = 0 /\ op.pads[2] = 0 /\ op.dilations = <<1, 1>>
        axes  == {0} \cup {i + 1 : i \in {i \in 1..2 : plain /\ GetKernelSize(in[2].shape)[i] = op.strides[i]}}
    IN  Finish(ForAxes(axes, LAMBDA i : BuildOptional(<<S(i), Replicate, Replicate>>, {3}, <<S(i)>>)), 3, 1)

\* torch is given the pads above and on the left, for both sides.
ConvCompute(op, ts) ==
    LET y == TorchConv(ts[1], ts[2], op.strides[1], op.pads[1], op.dilations[1], op.group)
    IN  <<IF Failed(y) \/ IsNull(ts[3]) THEN y
          ELSE Elementwise2(Plus, y, TorchReshape(ts[3], <<ts[3].shape[1], 1, 1>>))>>

\* PoolingOp::CalculatePoolingOutput
CalculatePoolingOutput(input, kernel, dilation, stride, padBefore, padAfter, ceilMode) ==
    LET span    == input + padBefore + padAfter - (kernel - 1) * dilation - 1
        rounded == (span + stride - 1) \div stride + 1
    IN  IF ~ceilMode THEN span \div stride + 1
        ELSE IF padBefore + padAfter # 0 /\ (rounded - 1) * stride >= input + padBefore THEN rounded - 1 ELSE rounded

\* PoolingOp::CalculatePadForSamePad: what is missing, on both sides together.
PaddingNeeded(input, output, kernel, dilation, stride) ==
    Max({0, (output - 1) * stride + (kernel - 1) * dilation + 1 - input})

PoolingInfer(op, in) ==
    LET x == in[1].shape
        Extent(i, after) ==
            IF op.paddingType = "same" THEN CalculateConvOutputForSamePad(x[i + 2], op.strides[i])
            ELSE CalculatePoolingOutput(x[i + 2], op.kernelSize[i], op.dilations[i], op.strides[i],
                                        op.pads[i], op.pads[after], op.ceilMode /\ op.paddingType = "notset")
    IN  <<SubSeq(x, 1, 2) \o (IF op.isGlobalPooling THEN <<1, 1>> ELSE <<Extent(1, 3), Extent(2, 2)>>)>>

\* The parameters as InferOutputMetaInfo leaves them, from the whole image.
PoolingPadding(op, x) ==
    IF op.paddingType # "same" THEN op.pads[1]
    ELSE PaddingNeeded(x[3], CalculateConvOutputForSamePad(x[3], op.strides[1]),
                       op.kernelSize[1], op.dilations[1], op.strides[1]) \div 2
PoolingCompute(op, in, ts) ==
    LET pad    == IF op.isGlobalPooling THEN 0 ELSE PoolingPadding(op, in[1].shape)
        kernel == IF op.isGlobalPooling THEN in[1].shape[3] ELSE op.kernelSize[1]
        stride == IF op.isGlobalPooling THEN 1 ELSE op.strides[1]
        dilation == IF op.isGlobalPooling THEN 1 ELSE op.dilations[1]
    IN  <<IF op.poolingKind = "max" THEN TorchMaxPool(ts[1], kernel, stride, pad, dilation, op.ceilMode)
          ELSE TorchAvgPool(ts[1], kernel, stride, pad, op.ceilMode, op.countIncludePad)>>

\* interpolate to a size or by a factor, nearest element, a size per dimension
\* behind the channels.  Exactly one of shape and scaleFactor is there.
InterpolateInfer(op, in) ==
    LET x == in[1].shape
        n == Len(x) - 2
        Factor(i) == op.scaleFactor[IF Len(op.scaleFactor) = 1 THEN 1 ELSE i]
        sizes == IF op.shape # <<>> THEN op.shape ELSE [i \in 1..n |-> x[i + 2] * Factor(i)]
    IN  When(/\ n \in 1..3 /\ (op.shape = <<>>) # (op.scaleFactor = <<>>)
             /\ Len(op.shape) \in {0, n} /\ Len(op.scaleFactor) \in {0, 1, n},
             <<SubSeq(x, 1, 2) \o sizes>>)

\* A single factor for several dimensions becomes a vector of factor times the
\* number of dimensions, not the other way round.
InterpolateCompute(op, ts) ==
    LET x == ts[1].shape
        n == Len(x) - 2
        factors == IF Len(op.scaleFactor) = 1 /\ n # 1 THEN [i \in 1..op.scaleFactor[1] |-> n] ELSE op.scaleFactor
        sizes == IF op.shape # <<>> THEN op.shape ELSE [i \in 1..n |-> x[i + 2] * factors[i]]
    IN  <<IF op.shape = <<>> /\ Len(factors) # n THEN NoTensor
          ELSE TorchNearest(ts[1], SubSeq(x, 1, 2) \o sizes)>>
=============================================================================
