---------------------------- MODULE FunctionalApi ----------------------------
(***************************************************************************)
(* The functions of the C++ API (dtorch::functional): what each makes of   *)
(* its arguments, which is the parameters and the inputs of one operator,  *)
(* one of its arguments, or an exception before anything is added to the   *)
(* graph.  What depends on the specs of the tensors, the redistributions   *)
(* an API function puts in front of its operator, is in DistributedTensors.*)
(*                                                                         *)
(* Tensors are numbers of tensors of the program, Nullopt for one that is  *)
(* absent; other optional arguments are sequences of at most one element.  *)
(* Element types, names of variants that compute alike and the in-place    *)
(* variants of activations are left out.                                   *)
(***************************************************************************)
EXTENDS Operators

CONSTANT DefaultDeviceMesh      \* of the graph (Graph::SetDefaultDeviceMesh)

Nullopt == 0
Call(op, in) == [op |-> op, in |-> in]
Returned(x) == Call([kind |-> "input"], <<x>>)
Exception == [kind |-> "throw"]
Refused == Call(Exception, <<>>)
Unless(refused, call) == IF refused THEN Refused ELSE call

-----------------------------------------------------------------------------
(* Elementwise: math.cc, activation.cc *)

\* Relu, Sigmoid, LeakyRelu, Elu, Gelu, Silu
ActivationOpImpl(x) == Call([kind |-> "activation"], <<x>>)

\* _Exp, _Square, _Rsqrt, ..., _Neg, ..., _Isnan
BaseMathImp(baseMathType, x) == Call([kind |-> "base_math", baseMathType |-> baseMathType], <<x>>)

BroadcastBinary(binaryKind, x, y, inputA, inputB, scaleB) ==
    Call([kind |-> "broadcast_binary", binaryKind |-> binaryKind, inputA |-> inputA, inputB |-> inputB, scaleB |-> scaleB],
         <<x, y>>)

_Add(x, y, alpha) == BroadcastBinary("add", x, y, <<>>, <<>>, alpha)
_AddScalar(x, other, alpha) == BroadcastBinary("add", x, Nullopt, <<>>, <<other>>, alpha)
_Sub(x, y, alpha) == BroadcastBinary("sub", x, y, <<>>, <<>>, alpha)
_SubScalar(x, other, alpha) == BroadcastBinary("sub", x, Nullopt, <<>>, <<other>>, alpha)

\* _Mul, _Div, _Equal, _Greater, _GreaterEqual, _Less, _LessEqual and _Pow of
\* tensors or with a number, _Minimum, _Maximum, _LogicalAnd and _LogicalOr of tensors.
Binary(binaryKind, x, y) == BroadcastBinary(binaryKind, x, y, <<>>, <<>>, 1)
BinaryScalar(binaryKind, x, other) == BroadcastBinary(binaryKind, x, Nullopt, <<>>, <<other>>, 1)

\* _Pow(self, exponent) of a number
_PowScalar(self, exponent) == BroadcastBinary("pow", Nullopt, exponent, <<self>>, <<>>, 1)

_Clamp(x, min, max) == Call([kind |-> "clamp", min |-> min, max |-> max], <<x, Nullopt, Nullopt>>)
_ClampTensor(x, min, max) == Call([kind |-> "clamp", min |-> <<>>, max |-> <<>>], <<x, min, max>>)

_WhereImp(condition, x, other, inputScalar, otherScalar) ==
    Call([kind |-> "where", input |-> inputScalar, other |-> otherScalar], <<condition, x, other>>)
_Where(condition, x, other) == _WhereImp(condition, x, other, <<>>, <<>>)
_WhereInputScalar(condition, x, other) == _WhereImp(condition, Nullopt, other, <<x>>, <<>>)
_WhereOtherScalar(condition, x, other) == _WhereImp(condition, x, Nullopt, <<>>, <<other>>)
_WhereScalars(condition, x, other) == _WhereImp(condition, Nullopt, Nullopt, <<x>>, <<other>>)

_MaskedFill(x, mask, value) == Call([kind |-> "masked", maskedType |-> "fill", value |-> value], <<x, mask>>)
_MaskedScatter(x, mask, source) == Call([kind |-> "masked", maskedType |-> "scatter"], <<x, mask, source>>)

-----------------------------------------------------------------------------
(* Reductions and products *)

\* _Sum, _Mean, _Any and _All; no dimensions stand for all of them.
ReduceFunction(reduceKind, x, dim, keepdim) ==
    Call([kind |-> "reduce", reduceKind |-> reduceKind, dim |-> dim, keepdim |-> keepdim], <<x>>)

\* _Max and _Min, of the whole tensor and along a dimension.
MaxMin(maxMinKind, x) == Call([kind |-> "max_min", maxMinKind |-> maxMinKind, dim |-> <<>>, keepdim |-> FALSE], <<x>>)
MaxMinAlong(maxMinKind, x, dim, keepdim) ==
    Call([kind |-> "max_min", maxMinKind |-> maxMinKind, dim |-> <<dim>>, keepdim |-> keepdim], <<x>>)

\* Of one operand; output names its dimensions that are left.
_Einsum(output, x) == Call([kind |-> "einsum", output |-> output], <<x>>)
_Outer(x, vec2) == Call([kind |-> "outer"], <<x, vec2>>)
_Matmul(x, other) == Call([kind |-> "matmul"], <<x, other>>)
Linear(x, weight, bias) == Call([kind |-> "linear"], <<x, weight, bias>>)

-----------------------------------------------------------------------------
(* neural_network.cc *)

Softmax(x, dim) == Unless(dim = <<>>, Call([kind |-> "softmax", dim |-> dim[1]], <<x>>))

Normalization(normKind, normalizedShape, numGroups, in) ==
    Call([kind |-> "normalization", normKind |-> normKind, normalizedShape |-> normalizedShape, numGroups |-> numGroups], in)
GroupNorm(x, numGroups, scale, bias) == Normalization("group", <<>>, numGroups, <<x, scale, bias>>)
LayerNorm(x, normalizedShape, scale, bias) == Normalization("layer", normalizedShape, 1, <<x, scale, bias>>)
RmsNorm(x, normalizedShape, weight) == Normalization("rms", normalizedShape, 1, <<x, weight, Nullopt>>)

BatchNorm(x, runningMean, runningVar, scale, bias) ==
    Unless((scale = Nullopt) # (bias = Nullopt) \/ Nullopt \in {runningMean, runningVar},
           Call([kind |-> "batch_norm"], <<x, runningMean, runningVar, scale, bias>>))

\* Not in training: the tensor itself.
Dropout(x) == Returned(x)

Embedding(x, weight) == Call([kind |-> "embedding"], <<x, weight>>)
_ScaledDotProductAttention(query, key, value, attnMask, isCausal) ==
    Call([kind |-> "sdpa", isCausal |-> isCausal], <<query, key, value, attnMask>>)

\* fused_compile_op.cc: the cosine and the sine are two tensors.
_ApplyRotaryEmb(x, freqsCis, useReal, useRealUnbindDim) ==
    Unless(Len(freqsCis) # 2,
           Call([kind |-> "apply_rotary_emb", useReal |-> useReal, useRealUnbindDim |-> useRealUnbindDim], <<x>> \o freqsCis))
_SiluLinearChunk(emb, linearWeight, linearBias, chunkSize) ==
    Call([kind |-> "silu_linear_chunk", chunkSize |-> chunkSize], <<emb, linearWeight, linearBias>>)
_LayerNormMulAdd(x, scale, shift, normalizedShape, normScale, normBias) ==
    Call([kind |-> "layer_norm_mul_add", normalizedShape |-> normalizedShape], <<x, scale, shift, normScale, normBias>>)

\* OpParamUtil::IntOrIntArrayTo2DParam and IntOrIntArrayTo2DPad: one number
\* stands for both directions, two pads for both sides.
Is2DParam(a) == Len(a) \in {1, 2}
IntOrIntArrayTo2DParam(a) == <<a[1], Last(a)>>
Is2DPad(a) == Len(a) \in {1, 2, 4}
IntOrIntArrayTo2DPad(a) == IF Len(a) = 4 THEN a ELSE <<a[1], Last(a), a[1], Last(a)>>

\* Explicit pads are for "notset" only.
ValidPads(paddingType, padding) ==
    Is2DPad(padding) /\ (paddingType # "notset" => \A i \in DOMAIN padding : padding[i] = 0)

\* The constructors of the parameters throw unless their arguments are valid.
ValidParam(arrays, paddingType, padding) == (\A a \in arrays : Is2DParam(a)) /\ ValidPads(paddingType, padding)

ConvParam(dilation, group, paddingType, padding, stride) ==
    [kind |-> "conv", strides |-> IntOrIntArrayTo2DParam(stride), paddingType |-> paddingType,
     pads |-> IntOrIntArrayTo2DPad(padding), dilations |-> IntOrIntArrayTo2DParam(dilation), group |-> group]

\* ceilMode is meant to be off for "valid" and "same", but the constructor
\* resets its own argument.
PoolingParam(poolingKind, dilation, ceilMode, kernelSize, paddingType, padding, stride, countIncludePad) ==
    [kind |-> "pooling", poolingKind |-> poolingKind, dilations |-> IntOrIntArrayTo2DParam(dilation),
     kernelSize |-> IntOrIntArrayTo2DParam(kernelSize), strides |-> IntOrIntArrayTo2DParam(stride),
     paddingType |-> paddingType, pads |-> IntOrIntArrayTo2DPad(padding), ceilMode |-> ceilMode,
     countIncludePad |-> countIncludePad, isGlobalPooling |-> FALSE]

Conv2d(x, weight, bias, stride, paddingType, padding, dilation, group) ==
    Unless(~ValidParam({stride, dilation}, paddingType, padding),
           Call(ConvParam(dilation, group, paddingType, padding, stride), <<x, weight, bias>>))

_Pooling2d(x, poolingKind, dilation, kernelSize, stride, paddingType, padding, ceilMode, countIncludePad) ==
    Unless(~ValidParam({dilation, kernelSize, stride}, paddingType, padding),
           Call(PoolingParam(poolingKind, dilation, ceilMode, kernelSize, paddingType, padding, stride, countIncludePad), <<x>>))
_GlobalPooling2d(x, poolingKind) ==
    Call([kind |-> "pooling", poolingKind |-> poolingKind, ceilMode |-> FALSE, countIncludePad |-> FALSE,
          isGlobalPooling |-> TRUE], <<x>>)

\* A single factor is a vector of one.
Interpolate(x, size, scaleFactor) == Call([kind |-> "interpolate", shape |-> size, scaleFactor |-> scaleFactor], <<x>>)

-----------------------------------------------------------------------------
(* Shapes and indices: tensor_functional.cc, neural_network.cc *)

_Squeeze(x, dims) == Call([kind |-> "squeeze", dims |-> dims], <<x>>)
_Unsqueeze(x, dim) == Call([kind |-> "unsqueeze", dim |-> dim], <<x>>)
_Chunk(x, chunks, dim) == Call([kind |-> "chunk", chunks |-> chunks, dim |-> dim], <<x>>)

\* Of one tensor, the tensor itself.
_Concat(inputs, dim) == IF Len(inputs) = 1 THEN Returned(inputs[1]) ELSE Call([kind |-> "concat", dim |-> dim], inputs)

_Expand(x, shape) == Call([kind |-> "expand", shape |-> shape], <<x>>)
_Transpose(x, dim0, dim1) == Call([kind |-> "transpose", dim0 |-> dim0, dim1 |-> dim1], <<x>>)
_Permute(x, dims) == Call([kind |-> "permute", dims |-> dims], <<x>>)
_Flatten(x, startDim, endDim) == Call([kind |-> "flatten", startDim |-> startDim, endDim |-> endDim], <<x>>)
_Reshape(x, shape) == Call([kind |-> "reshape", shape |-> shape], <<x>>)
_View(x, shape) == Call([kind |-> "view", shape |-> shape], <<x>>)
_ViewPlacements(x, placements) == Call([kind |-> "view_placements", placements |-> placements], <<x>>)
_Repeat(x, repeats) == Call([kind |-> "repeat", repeat |-> repeats], <<x>>)
_RepeatInterleave(x, repeats, dim) == Call([kind |-> "repeat_interleave", repeats |-> repeats, dim |-> dim], <<x>>)
Pad(x, pad, value) == IF pad = <<>> THEN Returned(x) ELSE Call([kind |-> "pad", pad |-> pad, value |-> value], <<x>>)
_Contiguous(x) == Call([kind |-> "contiguous"], <<x>>)
_Clone(x) == Call([kind |-> "clone"], <<x>>)
_GetItem(x, index) == Call([kind |-> "get_item", index |-> index], <<x>>)
_SetItem(x, value, index) == Call([kind |-> "set_item", index |-> index], <<x, value>>)

-----------------------------------------------------------------------------
(* Creation.  deviceMesh and placements may be absent. *)

CreateOpImpl(createKind, shape, deviceMesh, placements, args, device) ==
    LET mesh == IF deviceMesh = <<>> THEN DefaultDeviceMesh ELSE deviceMesh[1]
        pl   == IF placements = <<>> \/ ~IsDistributed(mesh) THEN [k \in DOMAIN mesh.dims |-> Replicate] ELSE placements[1]
    IN  Unless(placements # <<>> /\ Len(placements[1]) # Len(mesh.dims),
               Call([kind |-> "create", createKind |-> createKind, shape |-> shape, args |-> args, device |-> device,
                     mesh |-> mesh, placements |-> [k \in DOMAIN pl |-> IF mesh.dims[k] = 1 THEN Replicate ELSE pl[k]]],
                    <<>>))

_Zeros(shape, deviceMesh, placements) == CreateOpImpl("zeros", shape, deviceMesh, placements, <<0, 0, 0>>, 0)
_Ones(shape, deviceMesh, placements) == CreateOpImpl("ones", shape, deviceMesh, placements, <<0, 0, 0>>, 0)

\* Numbers drawn by the generator of a device; bounds and distributions are left out.
_Rand(shape, deviceMesh, placements) == CreateOpImpl("rand", shape, deviceMesh, placements, <<0, 0, 0>>, 0)
_Randn(shape, deviceMesh, placements) == CreateOpImpl("randn", shape, deviceMesh, placements, <<0, 0, 0>>, 0)
_Randint(shape, deviceMesh, placements) == CreateOpImpl("rand_int", shape, deviceMesh, placements, <<0, 0, 0>>, 0)

_Full(shape, fillValue, deviceMesh, placements) ==
    CreateOpImpl("full", shape, deviceMesh, placements, <<fillValue, 0, 0>>, 0)

_Arange(start, end, step, deviceMesh, placements) ==
    Unless(end = <<>> /\ step # <<>>,
           CreateOpImpl("arange", <<>>, deviceMesh, placements,
                        IF end = <<>> THEN <<0, start, 1>> ELSE <<start, end[1], IF step = <<>> THEN 1 ELSE step[1]>>, 0))

\* A tensor of torch, which is on a device, on that device unless told otherwise.
_FromTorch(shape, device, deviceMesh, placements) ==
    CreateOpImpl("from_torch", shape, IF deviceMesh = <<>> THEN <<[dims |-> <<1>>, ids |-> <<device>>]>> ELSE deviceMesh,
                 placements, <<0, 0, 0>>, device)

-----------------------------------------------------------------------------
(* Between tensors and meshes: the rest of these is in DistributedTensors *)

_Copy(x, other) == Call([kind |-> "copy"], <<x, other>>)
_To(x, deviceMesh) == Call([kind |-> "to", mesh |-> deviceMesh], <<x>>)

-----------------------------------------------------------------------------
(* The system: system_functional.cc, tensor.cc *)

NvtxOpImpl(nvtxType, message) == Call([kind |-> "nvtx", nvtxType |-> nvtxType, message |-> message], <<>>)
_NvtxRangePush(message) == NvtxOpImpl("push", message)
_NvtxRangePop == NvtxOpImpl("pop", "")
_NvtxMark(message) == NvtxOpImpl("mark", message)

MemoryOpImpl(operation, devices) ==
    Call([kind |-> "memory", operation |-> operation, devices |-> devices,
          mesh |-> [dims |-> <<Len(devices)>>, ids |-> devices], placements |-> <<S(0)>>], <<>>)
_EmptyCache == MemoryOpImpl("empty_cache", GetGpuDevices)
_GetMemoryStats(deviceKind, deviceMesh) ==
    Unless(deviceMesh # <<>> /\ deviceKind # "gpu",
           MemoryOpImpl("memory_stats", IF deviceMesh = <<>> THEN GetGpuDevices ELSE deviceMesh[1].ids))

\* Tensor::GetTorchTensor
GetTorchTensor(x) == Call([kind |-> "get_tensor", asMemoryStats |-> FALSE], <<x>>)
=============================================================================
