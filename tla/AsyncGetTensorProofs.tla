------------------------ MODULE AsyncGetTensorProofs ------------------------
(***************************************************************************)
(* Proofs about AsyncGetTensor, for any number of requests: types, and     *)
(* that a TensorFuture hands out the tensor that was asked for in every    *)
(* mode except the redistributed tensor through an IPC handle, where it    *)
(* does not (the run async_get_distributed shows it).                      *)
(***************************************************************************)
EXTENDS AsyncGetTensor, TLAPS

\* No tensor of a redistribution goes through an IPC handle.
NoHandleOfLocal == \A m \in Mode : m.perDevicePerProcess /\ m.device = "gpu" => m.distributed = {}

\* An API object that references an input keeps its blob and its memory; a future
\* is such an object.
RefInv ==
    \A r \in Request :
        /\ apiRefs[r] # {} =>
             /\ "blob" \in held[Input(r)] /\ storage[Input(r)] = "filled"
             /\ \A i \in DOMAIN messages : messages[i] # <<"noHold", Input(r)>>
        /\ call[r] \notin {"none", "gone"} => "future" \in apiRefs[r]

\* Nothing is under way for a request that has not been made.
FreshInv ==
    \A r \in Request : call[r] = "none" =>
        /\ r \notin hasValue /\ r \notin pool
        /\ \A i \in DOMAIN messages : /\ messages[i] # <<"getTensor", Local(r)>>
                                      /\ r \in Distributed => messages[i] # <<"noHold", Local(r)>>
        /\ \A i \in DOMAIN kernels : kernels[i] # <<"getTensor", Local(r)>>

\* A tensor of redistribution is filled before its value is asked for, and is held
\* on every part of its way: by its blob while the request is a message, ...
Asked(r) ==
    /\ \A i, j \in DOMAIN messages :
         messages[i] = <<"getTensor", Local(r)>> /\ messages[j] = <<"noHold", Local(r)>> => i < j
    /\ \A i \in DOMAIN messages : messages[i] = <<"getTensor", Local(r)>> =>
         \/ \E j \in DOMAIN messages : j < i /\ messages[j] = <<"redistribute", Local(r)>>
         \/ /\ "blob" \in held[Local(r)]
            /\ \/ storage[Local(r)] = "filled"
               \/ \E k \in DOMAIN kernels : kernels[k] = <<"redistribute", Local(r)>>

\* ... by the kernels, by the posted function, and by the future's own value.
Launched(r) ==
    \A i \in DOMAIN kernels : kernels[i] = <<"getTensor", Local(r)>> =>
        \/ \E j \in DOMAIN kernels : j < i /\ kernels[j] = <<"redistribute", Local(r)>>
        \/ storage[Local(r)] = "filled"
Fulfilled(r) ==
    /\ r \in pool => storage[Local(r)] = "filled" /\ "pool" \in held[Local(r)]
    /\ r \in hasValue /\ call[r] # "gone" =>
         storage[Local(r)] = "filled" /\ held[Local(r)] \cap {"value", "result"} # {}
KernelsHold == \A i \in DOMAIN kernels : "kernel" \in held[kernels[i][2]]

PathInv == KernelsHold /\ \A r \in Distributed : Asked(r) /\ Launched(r) /\ Fulfilled(r)

USE AsyncAssumption
-----------------------------------------------------------------------------
(* Sequences *)

LEMMA Dropped ==
    ASSUME NEW S, NEW s \in Seq(S), s # <<>>
    PROVE  /\ Head(s) = s[1] /\ Head(s) \in S /\ 1 \in DOMAIN s
           /\ Tail(s) \in Seq(S)
           /\ \A i \in DOMAIN Tail(s) : i + 1 \in DOMAIN s /\ Tail(s)[i] = s[i + 1]
           /\ \A i \in DOMAIN s : i = 1 \/ (i - 1 \in DOMAIN Tail(s) /\ Tail(s)[i - 1] = s[i])
  OBVIOUS

LEMMA Appended ==
    ASSUME NEW S, NEW s \in Seq(S), NEW e \in S
    PROVE  /\ Append(s, e) \in Seq(S)
           /\ \A i \in DOMAIN s : i \in DOMAIN Append(s, e) /\ Append(s, e)[i] = s[i]
           /\ \A i \in DOMAIN Append(s, e) : i \in DOMAIN s \/ (i = Len(s) + 1 /\ Append(s, e)[i] = e)
  OBVIOUS

LEMMA AppendedOne ==
    ASSUME NEW S, NEW s \in Seq(S), NEW e \in S
    PROVE  Append(s, e) = s \o <<e>> /\ <<e>> \in Seq(S) /\ \A i \in DOMAIN <<e>> : <<e>>[i] = e
  OBVIOUS

LEMMA Concatenated ==
    ASSUME NEW S, NEW s \in Seq(S), NEW t \in Seq(S)
    PROVE  /\ s \o t \in Seq(S)
           /\ \A i \in DOMAIN s : i \in DOMAIN (s \o t) /\ (s \o t)[i] = s[i]
           /\ \A i \in DOMAIN t : Len(s) + i \in DOMAIN (s \o t) /\ (s \o t)[Len(s) + i] = t[i]
           /\ \A i \in DOMAIN (s \o t) :
                i \in DOMAIN s \/ (i - Len(s) \in DOMAIN t /\ (s \o t)[i] = t[i - Len(s)])
  OBVIOUS

\* Three new elements come in their order.
InOrder(u, a, b, c) ==
    /\ \A i, j \in DOMAIN u : u[i] = b /\ u[j] = c => i < j
    /\ \A i \in DOMAIN u : u[i] = b => \E j \in DOMAIN u : j < i /\ u[j] = a

LEMMA NewInOrder ==
    ASSUME NEW S, NEW s \in Seq(S), NEW a \in S, NEW b \in S, NEW c \in S, a # b, b # c, a # c,
           \A i \in DOMAIN s : s[i] # b /\ s[i] # c
    PROVE  InOrder(s \o <<a, b, c>>, a, b, c)
  <1> DEFINE u == s \o <<a, b, c>>
  <1>1. /\ u \in Seq(S) /\ Len(u) = Len(s) + 3 /\ Len(s) \in Nat
        /\ u[Len(s) + 1] = a /\ u[Len(s) + 2] = b /\ u[Len(s) + 3] = c
    OBVIOUS
  <1>2. \A i \in DOMAIN u : (i \in DOMAIN s /\ u[i] = s[i]) \/ i \in {Len(s) + 1, Len(s) + 2, Len(s) + 3}
    OBVIOUS
  <1> HIDE DEF u
  <1>3. \A i \in DOMAIN u : (u[i] = b => i = Len(s) + 2) /\ (u[i] = c => i = Len(s) + 3)
    BY <1>1, <1>2
  <1>4. Len(s) + 1 \in DOMAIN u
    BY <1>1
  <1>5. \A i, j \in DOMAIN u : u[i] = b /\ u[j] = c => i < j
    BY <1>1, <1>3
  <1>6. \A i \in DOMAIN u : u[i] = b => Len(s) + 1 < i
    BY <1>1, <1>3
  <1>7. /\ \A i, j \in DOMAIN u : u[i] = b /\ u[j] = c => i < j
        /\ \A i \in DOMAIN u : u[i] = b => \E j \in DOMAIN u : j < i /\ u[j] = a
    BY <1>1, <1>4, <1>5, <1>6
  <1> QED BY <1>7 DEF u, InOrder

LEMMA Messages ==
    ASSUME NEW r \in Request
    PROVE  /\ <<"redistribute", Local(r)>> \in Message /\ <<"getTensor", Local(r)>> \in Message
           /\ <<"noHold", Local(r)>> \in Message /\ <<"noHold", Input(r)>> \in Message
           /\ Input(r) \in Tensor /\ Local(r) \in Tensor
  BY DEF Message, Tensor

LEMMA MessageParts ==
    ASSUME NEW m \in Message
    PROVE  /\ m = <<m[1], m[2]>> /\ m[2] \in Tensor /\ m[1] \in {"redistribute", "getTensor", "noHold"}
           /\ RequestOf(m) \in Request
           /\ m[1] \in {"redistribute", "getTensor"} => m[2] = Local(RequestOf(m))
  BY DEF Message, Tensor, RequestOf, Input, Local

\* The messages of a request.
Request3(r) == IF r \in Distributed
               THEN << <<"redistribute", Local(r)>>, <<"getTensor", Local(r)>>, <<"noHold", Local(r)>> >>
               ELSE << <<"getTensor", Local(r)>> >>

LEMMA RequestMessages ==
    ASSUME NEW r \in Request
    PROVE  Request3(r) \in Seq(Message)
  <1>1. /\ <<"redistribute", Local(r)>> \in Message /\ <<"getTensor", Local(r)>> \in Message
        /\ <<"noHold", Local(r)>> \in Message
    BY Messages
  <1> QED BY <1>1 DEF Request3
-----------------------------------------------------------------------------
(* Type correctness *)

\* Every variable keeps its type, and the mode never changes.
THEOREM AsyncTypes == AsyncSpec => []AsyncTypeOK
<1>1. AsyncInit => AsyncTypeOK
  BY DEF AsyncInit, AsyncTypeOK, Tensor
<1>2. AsyncTypeOK /\ [AsyncNext]_asyncVars => AsyncTypeOK'
  <2> SUFFICES ASSUME AsyncTypeOK, [AsyncNext]_asyncVars PROVE AsyncTypeOK'
    OBVIOUS
  <2>0. mode' = mode
    BY DEF AsyncNext, Client, GetTensorAsync, DropTensor, DropFuture, CallFuture, Resume, Open, SpuriousWake,
           TimeOut, Device, ProcessMessage, Run, PoolSetsValue, PoolReturns, Reuse, AtRest, asyncVars
  <2>1. (\A r : Local(r)' = Local(r)) /\ Message' = Message /\ Tensor' = Tensor
    BY <2>0 DEF Local, Distributed, Message, Tensor
  <2>2. ASSUME NEW r \in Request, GetTensorAsync(r) PROVE AsyncTypeOK'
    <3>1. messages' = messages \o Request3(r)
      BY <2>2 DEF GetTensorAsync, Request3
    <3>2. messages' \in Seq(Message)
      BY <3>1, RequestMessages, Concatenated DEF AsyncTypeOK
    <3> QED BY <2>0, <2>1, <2>2, <3>2 DEF AsyncTypeOK, GetTensorAsync
  <2>3. ASSUME NEW r \in Request, NEW holder, Release(r, holder)
        PROVE  /\ apiRefs' \in [Request -> SUBSET {"user", "future"}]
               /\ messages' \in Seq(Message)
    <3>1. messages \in Seq(Message) /\ <<"noHold", Input(r)>> \in Message
      BY Messages DEF AsyncTypeOK
    <3>2. Append(messages, <<"noHold", Input(r)>>) \in Seq(Message)
      BY <3>1, Appended
    <3> QED BY <2>3, <3>1, <3>2 DEF AsyncTypeOK, Release
  <2>4. ASSUME NEW r \in Request, DropTensor(r) PROVE AsyncTypeOK'
    BY <2>0, <2>1, <2>3, <2>4 DEF AsyncTypeOK, DropTensor
  <2>5. ASSUME NEW r \in Request, DropFuture(r) PROVE AsyncTypeOK'
    <3>1. apiRefs' \in [Request -> SUBSET {"user", "future"}] /\ messages' \in Seq(Message)
      BY <2>3, <2>5 DEF AsyncTypeOK, DropFuture
    <3> QED BY <2>0, <2>1, <2>5, <3>1 DEF AsyncTypeOK, DropFuture
  <2>6. ASSUME NEW r \in Request, NEW op \in {"Get", "Wait", "WaitFor"}, CallFuture(r, op) PROVE AsyncTypeOK'
    BY <2>0, <2>1, <2>6 DEF AsyncTypeOK, CallFuture, Answered, Block
  <2>7. ASSUME NEW r \in Request, Resume(r) \/ SpuriousWake(r) \/ TimeOut(r) PROVE AsyncTypeOK'
    BY <2>0, <2>1, <2>7 DEF AsyncTypeOK, Resume, SpuriousWake, TimeOut, Answered, Block
  <2>8. ASSUME NEW r \in Request, Open(r) PROVE AsyncTypeOK'
    BY <2>0, <2>1, <2>8 DEF AsyncTypeOK, Open
  <2>9. CASE ProcessMessage
    <3>1. /\ Head(messages) \in Message /\ Tail(messages) \in Seq(Message)
          /\ Append(kernels, Head(messages)) \in Seq(Message)
      <4>1. messages \in Seq(Message) /\ messages # <<>> /\ kernels \in Seq(Message)
        BY <2>9 DEF AsyncTypeOK, ProcessMessage
      <4>2. Head(messages) \in Message /\ Tail(messages) \in Seq(Message)
        BY <4>1, Dropped
      <4> QED BY <4>1, <4>2, Appended
    <3>2. Head(messages)[2] \in Tensor
      BY <3>1, MessageParts
    <3>3. held' \in [Tensor -> SUBSET {"blob", "kernel", "pool", "value", "result"}]
      <4>1. PICK t \in Tensor : t = Head(messages)[2]
        BY <3>2
      <4>2. \/ held' = held
            \/ held' = [held EXCEPT ![t] = @ \cup {"blob", "kernel"}]
            \/ held' = [held EXCEPT ![t] = @ \cup {"kernel"}]
            \/ held' = [held EXCEPT ![t] = @ \ {"blob"}]
        BY <2>9, <4>1 DEF ProcessMessage, Hold
      <4>3. held \in [Tensor -> SUBSET {"blob", "kernel", "pool", "value", "result"}]
        BY DEF AsyncTypeOK
      <4> QED BY <4>2, <4>3
    <3>4. messages' \in Seq(Message) /\ kernels' \in Seq(Message)
      BY <2>9, <3>1 DEF AsyncTypeOK, ProcessMessage
    <3> QED BY <2>0, <2>1, <2>9, <3>3, <3>4 DEF AsyncTypeOK, ProcessMessage
  <2>10. CASE Run
    <3>1. Head(kernels) \in Message /\ Tail(kernels) \in Seq(Message)
      BY <2>10, Dropped DEF AsyncTypeOK, Run
    <3>2. Head(kernels)[2] \in Tensor /\ RequestOf(Head(kernels)) \in Request
      BY <3>1, MessageParts
    <3>3. \A r \in Request : ComputeHolds(r) \subseteq {"pool", "value"}
      BY DEF ComputeHolds, ValueHolds
    <3>4. held' \in [Tensor -> SUBSET {"blob", "kernel", "pool", "value", "result"}]
      BY <2>10, <3>2, <3>3 DEF AsyncTypeOK, Run, AfterKernel
    <3>5. storage' \in [Tensor -> {"none", "filled", "reused"}]
      BY <2>10, <3>2 DEF AsyncTypeOK, Run
    <3>6. pool' \subseteq Request /\ hasValue' \subseteq Request /\ asleep' \subseteq Request
      BY <2>10, <3>2 DEF AsyncTypeOK, Run, Compute
    <3> QED BY <2>0, <2>1, <2>10, <3>1, <3>4, <3>5, <3>6 DEF AsyncTypeOK, Run
  <2>11. ASSUME NEW r \in Request, PoolSetsValue(r) \/ PoolReturns(r) PROVE AsyncTypeOK'
    BY <2>0, <2>1, <2>11 DEF AsyncTypeOK, PoolSetsValue, PoolReturns, Hold, ValueHolds
  <2>12. ASSUME NEW t \in Tensor, Reuse(t) PROVE AsyncTypeOK'
    BY <2>0, <2>1, <2>12 DEF AsyncTypeOK, Reuse
  <2>13. CASE AtRest \/ UNCHANGED asyncVars
    BY <2>1, <2>13 DEF AsyncTypeOK, AtRest, asyncVars
  <2> QED BY <2>2, <2>4, <2>5, <2>6, <2>7, <2>8, <2>9, <2>10, <2>11, <2>12, <2>13
          DEF AsyncNext, Client, Device
<1> QED BY <1>1, <1>2, PTL DEF AsyncSpec
-----------------------------------------------------------------------------
(* The inputs *)

LEMMA ModeStays ==
    ASSUME [AsyncNext]_asyncVars
    PROVE  mode' = mode /\ Distributed' = Distributed /\ Promise' = Promise /\ \A r : Local(r)' = Local(r)
  <1>1. mode' = mode
    BY DEF AsyncNext, Client, GetTensorAsync, DropTensor, DropFuture, CallFuture, Resume, Open, SpuriousWake,
           TimeOut, Device, ProcessMessage, Run, PoolSetsValue, PoolReturns, Reuse, AtRest, asyncVars
  <1> QED BY <1>1 DEF Distributed, Promise, InOtherProcess, GetTensorPromiseTypeFromOperand, Local

LEMMA TensorNames ==
    /\ \A q, r : Local(q) = Local(r) => q = r
    /\ \A q, r : Input(q) = Input(r) => q = r
    /\ \A q, r : q \in Distributed => Local(q) # Input(r)
    /\ \A r : r \notin Distributed => Local(r) = Input(r)
  BY DEF Local, Input

\* The calls of a TensorFuture start and end with a future in the caller's hands.
LEMMA FutureCalls ==
    ASSUME AsyncTypeOK, NEW r \in Request,
           (\E op \in {"Get", "Wait", "WaitFor"} : CallFuture(r, op)) \/ Resume(r) \/ SpuriousWake(r) \/ TimeOut(r)
    PROVE  /\ UNCHANGED <<mode, apiRefs, messages, kernels, pool, held, storage, hasValue>>
           /\ \A q \in Request : /\ call'[q] = "none" <=> call[q] = "none"
                                 /\ call'[q] = "gone" <=> call[q] = "gone"
  <1>1. UNCHANGED <<mode, apiRefs, messages, kernels, pool, held, storage, hasValue>>
    BY DEF CallFuture, Resume, SpuriousWake, TimeOut
  <1>2. call' = call \/ (call[r] \notin {"none", "gone"} /\ \E c \in {"idle", "Get", "Wait", "WaitFor", "opening"} : call' = [call EXCEPT ![r] = c])
    BY DEF CallFuture, Resume, SpuriousWake, TimeOut, Answered, Block
  <1> QED BY <1>1, <1>2 DEF AsyncTypeOK

\* Steps that keep references, blobs and messages.
LEMMA RefFrame ==
    ASSUME RefInv,
           apiRefs' = apiRefs, messages' = messages,
           \A r \in Request : /\ "blob" \in held[Input(r)] => "blob" \in held'[Input(r)]
                              /\ "blob" \in held[Input(r)] /\ storage[Input(r)] = "filled" => storage'[Input(r)] = "filled"
                              /\ call[r] \in {"none", "gone"} => call'[r] \in {"none", "gone"}
    PROVE  RefInv'
  BY DEF RefInv, Input

LEMMA RefStep ==
    ASSUME AsyncTypeOK, AsyncTypeOK', RefInv, [AsyncNext]_asyncVars
    PROVE  RefInv'
  <1>0. /\ held \in [Tensor -> SUBSET {"blob", "kernel", "pool", "value", "result"}]
        /\ storage \in [Tensor -> {"none", "filled", "reused"}]
        /\ apiRefs \in [Request -> SUBSET {"user", "future"}]
        /\ call \in [Request -> {"none", "idle", "Get", "Wait", "WaitFor", "opening", "got", "gone"}]
        /\ messages \in Seq(Message) /\ kernels \in Seq(Message)
        /\ \A r \in Request : Input(r) \in Tensor /\ Local(r) \in Tensor
    BY Messages DEF AsyncTypeOK
  <1>1. ASSUME NEW r \in Request, GetTensorAsync(r) PROVE RefInv'
    <2>1. messages' = messages \o Request3(r) /\ UNCHANGED <<held, storage>>
      BY <1>1 DEF GetTensorAsync, Request3
    <2>2. \A q, i : i \in DOMAIN Request3(r) => Request3(r)[i] # <<"noHold", Input(q)>>
      BY TensorNames DEF Request3
    <2>3. \A i \in DOMAIN messages' :
             (i \in DOMAIN messages /\ messages'[i] = messages[i]) \/ \E j \in DOMAIN Request3(r) : messages'[i] = Request3(r)[j]
      BY <1>0, <2>1, RequestMessages, Concatenated
    <2>4. \A q \in Request : apiRefs'[q] # {} => apiRefs[q] # {}
      BY <1>0, <1>1 DEF GetTensorAsync
    <2>5. \A q \in Request : call'[q] \notin {"none", "gone"} => "future" \in apiRefs'[q]
      BY <1>0, <1>1 DEF GetTensorAsync, RefInv
    <2>6. ASSUME NEW q \in Request, apiRefs'[q] # {}
          PROVE  /\ "blob" \in held'[Input(q)] /\ storage'[Input(q)] = "filled"
                 /\ \A i \in DOMAIN messages' : messages'[i] # <<"noHold", Input(q)>>
      <3>1. /\ "blob" \in held[Input(q)] /\ storage[Input(q)] = "filled"
            /\ \A i \in DOMAIN messages : messages[i] # <<"noHold", Input(q)>>
        BY <2>4, <2>6 DEF RefInv
      <3>2. \A i \in DOMAIN messages' : messages'[i] # <<"noHold", Input(q)>>
        BY <2>2, <2>3, <3>1
      <3> QED BY <2>1, <3>1, <3>2
    <2> QED BY <2>5, <2>6 DEF RefInv, Input
  <1>2. ASSUME NEW r \in Request, NEW holder \in {"user", "future"}, Release(r, holder),
               holder = "future" => call'[r] = "gone",
               \A q \in Request : /\ "blob" \in held[Input(q)] => "blob" \in held'[Input(q)]
                                  /\ storage'[Input(q)] = storage[Input(q)]
                                  /\ q # r => call'[q] = call[q],
               call'[r] \in {call[r], "gone"}
        PROVE  RefInv'
    <2>1. \A q \in Request : q # r => apiRefs'[q] = apiRefs[q]
      BY <1>0, <1>2 DEF Release
    <2>2. apiRefs'[r] # {} => apiRefs[r] # {} /\ messages' = messages
      BY <1>0, <1>2 DEF Release
    <2>3. \A q \in Request, i \in DOMAIN messages' :
             q # r /\ messages'[i] = <<"noHold", Input(q)>> => i \in DOMAIN messages /\ messages'[i] = messages[i]
      <3>1. CASE messages' = Append(messages, <<"noHold", Input(r)>>)
        <4>1. <<"noHold", Input(r)>> \in Message
          BY Messages
        <4>2. \A i \in DOMAIN messages' : (i \in DOMAIN messages /\ messages'[i] = messages[i]) \/ messages'[i] = <<"noHold", Input(r)>>
          BY <1>0, <3>1, <4>1, Appended
        <4> QED BY <4>2, TensorNames
      <3> QED BY <1>2, <3>1 DEF Release
    <2>4. "future" \in apiRefs[r] /\ call'[r] # "gone" => "future" \in apiRefs'[r]
      BY <1>0, <1>2 DEF Release
    <2>5. ASSUME NEW q \in Request, apiRefs'[q] # {}
          PROVE  /\ "blob" \in held'[Input(q)] /\ storage'[Input(q)] = "filled"
                 /\ \A i \in DOMAIN messages' : messages'[i] # <<"noHold", Input(q)>>
      BY <1>2, <2>1, <2>2, <2>3, <2>5 DEF RefInv
    <2>6. ASSUME NEW q \in Request, call'[q] \notin {"none", "gone"} PROVE "future" \in apiRefs'[q]
      BY <1>2, <2>1, <2>4, <2>6 DEF RefInv
    <2> QED BY <2>5, <2>6 DEF RefInv, Input
  <1>3. ASSUME NEW r \in Request, DropTensor(r) PROVE RefInv'
    BY <1>2, <1>3 DEF DropTensor
  <1>4. ASSUME NEW r \in Request, DropFuture(r) PROVE RefInv'
    <2>1. /\ call' = [call EXCEPT ![r] = "gone"] /\ storage' = storage
          /\ \A q \in Request : "blob" \in held[Input(q)] => "blob" \in held'[Input(q)]
      BY <1>0, <1>4 DEF DropFuture
    <2>2. CASE "future" \in apiRefs[r]
      BY <1>0, <1>2, <1>4, <2>1, <2>2 DEF DropFuture
    <2>3. CASE "future" \notin apiRefs[r]
      BY <1>0, <1>4, <2>1, <2>3, RefFrame DEF DropFuture
    <2> QED BY <2>2, <2>3
  <1>5. ASSUME NEW r \in Request,
               (\E op \in {"Get", "Wait", "WaitFor"} : CallFuture(r, op)) \/ Resume(r) \/ SpuriousWake(r) \/ TimeOut(r)
        PROVE  RefInv'
    BY <1>5, FutureCalls, RefFrame
  <1>6. ASSUME NEW r \in Request, Open(r) PROVE RefInv'
    BY <1>0, <1>6, RefFrame DEF Open
  <1>7. CASE ProcessMessage
    <2>1. /\ messages # <<>> /\ messages' = Tail(messages) /\ UNCHANGED <<apiRefs, storage, call>>
          /\ Head(messages) = messages[1] /\ 1 \in DOMAIN messages /\ Head(messages) \in Message
          /\ \A i \in DOMAIN messages' : i + 1 \in DOMAIN messages /\ messages'[i] = messages[i + 1]
      BY <1>0, <1>7, Dropped DEF ProcessMessage
    <2>2. Head(messages) = <<Head(messages)[1], Head(messages)[2]>> /\ Head(messages)[2] \in Tensor
      BY <2>1, MessageParts
    <2>3. \A q \in Request : "blob" \in held[Input(q)] =>
             "blob" \in held'[Input(q)] \/ Head(messages) = <<"noHold", Input(q)>>
      BY <1>0, <1>7, <2>2 DEF ProcessMessage, Hold
    <2> QED BY <2>1, <2>3 DEF RefInv, Input
  <1>8. CASE Run
    <2>1. /\ Head(kernels) \in Message /\ Head(kernels)[2] \in Tensor /\ RequestOf(Head(kernels)) \in Request
      BY <1>0, <1>8, Dropped, MessageParts DEF Run
    <2>2. \A t \in Tensor : "blob" \in held[t] => "blob" \in held'[t]
      <3> DEFINE u == Head(kernels)[2]
      <3>1. held' = [held EXCEPT ![u] = held'[u]] /\ held[u] \ {"kernel"} \subseteq held'[u]
        BY <1>0, <1>8, <2>1 DEF Run, AfterKernel
      <3> QED BY <1>0, <2>1, <3>1
    <2>3. \A t \in Tensor : storage[t] = "filled" => storage'[t] = "filled"
      BY <1>0, <1>8, <2>1 DEF Run
    <2> QED BY <1>0, <1>8, <2>2, <2>3, RefFrame DEF Run
  <1>9. ASSUME NEW r \in Request, PoolSetsValue(r) \/ PoolReturns(r) PROVE RefInv'
    BY <1>0, <1>9, RefFrame DEF PoolSetsValue, PoolReturns, Hold
  <1>10. ASSUME NEW t \in Tensor, Reuse(t) PROVE RefInv'
    BY <1>0, <1>10, RefFrame DEF Reuse
  <1>11. CASE AtRest \/ UNCHANGED asyncVars
    BY <1>11, RefFrame DEF AtRest, asyncVars
  <1> QED BY <1>1, <1>3, <1>4, <1>5, <1>6, <1>7, <1>8, <1>9, <1>10, <1>11 DEF AsyncNext, Client, Device
-----------------------------------------------------------------------------
(* Requests that have not been made *)

LEMMA FreshStep ==
    ASSUME AsyncTypeOK, FreshInv, [AsyncNext]_asyncVars
    PROVE  FreshInv'
  <1>0. /\ call \in [Request -> {"none", "idle", "Get", "Wait", "WaitFor", "opening", "got", "gone"}]
        /\ messages \in Seq(Message) /\ kernels \in Seq(Message)
    BY DEF AsyncTypeOK
  <1>1. ASSUME \A r \in Request : call'[r] = "none" =>
                   call[r] = "none" /\ (r \in hasValue' => r \in hasValue) /\ (r \in pool' => r \in pool),
               \A i \in DOMAIN messages' :
                   \/ \E j \in DOMAIN messages : messages'[i] = messages[j]
                   \/ \E r \in Request : messages'[i] = <<"noHold", Input(r)>>
                   \/ \E r \in Request : call'[r] # "none" /\ messages'[i][2] = Local(r),
               \A i \in DOMAIN kernels' :
                   \/ \E j \in DOMAIN kernels : kernels'[i] = kernels[j]
                   \/ \E j \in DOMAIN messages : kernels'[i] = messages[j]
        PROVE  FreshInv'
    <2> SUFFICES ASSUME NEW r \in Request, call'[r] = "none"
                 PROVE  /\ r \notin hasValue' /\ r \notin pool'
                        /\ \A i \in DOMAIN messages' :
                              /\ messages'[i] # <<"getTensor", Local(r)>>
                              /\ r \in Distributed => messages'[i] # <<"noHold", Local(r)>>
                        /\ \A i \in DOMAIN kernels' : kernels'[i] # <<"getTensor", Local(r)>>
      BY ModeStays DEF FreshInv
    <2>1. /\ r \notin hasValue /\ r \notin pool
          /\ \A i \in DOMAIN messages : /\ messages[i] # <<"getTensor", Local(r)>>
                                        /\ r \in Distributed => messages[i] # <<"noHold", Local(r)>>
          /\ \A i \in DOMAIN kernels : kernels[i] # <<"getTensor", Local(r)>>
      BY <1>1 DEF FreshInv
    <2>2. r \notin hasValue' /\ r \notin pool'
      BY <1>1, <2>1
    <2>3. ASSUME NEW i \in DOMAIN messages'
          PROVE  /\ messages'[i] # <<"getTensor", Local(r)>>
                 /\ r \in Distributed => messages'[i] # <<"noHold", Local(r)>>
      <3>1. CASE \E j \in DOMAIN messages : messages'[i] = messages[j]
        BY <2>1, <3>1
      <3>2. CASE \E q \in Request : messages'[i] = <<"noHold", Input(q)>>
        BY <3>2, TensorNames
      <3>3. CASE \E q \in Request : call'[q] # "none" /\ messages'[i][2] = Local(q)
        BY <3>3, TensorNames
      <3> QED BY <1>1, <2>3, <3>1, <3>2, <3>3
    <2>4. \A i \in DOMAIN kernels' : kernels'[i] # <<"getTensor", Local(r)>>
      BY <1>1, <2>1
    <2> QED BY <2>2, <2>3, <2>4
  <1>2. ASSUME NEW r \in Request, GetTensorAsync(r) PROVE FreshInv'
    <2>1. messages' = messages \o Request3(r) /\ UNCHANGED <<kernels, pool, hasValue>>
      BY <1>2 DEF GetTensorAsync, Request3
    <2>2. \A i \in DOMAIN Request3(r) : Request3(r)[i][2] = Local(r)
      BY DEF Request3
    <2>3. \A i \in DOMAIN messages' : (i \in DOMAIN messages /\ messages'[i] = messages[i]) \/ messages'[i][2] = Local(r)
      BY <1>0, <2>1, <2>2, RequestMessages, Concatenated
    <2>4. call'[r] # "none" /\ \A q \in Request : call'[q] = "none" => call[q] = "none"
      BY <1>0, <1>2 DEF GetTensorAsync
    <2> QED BY <1>1, <2>1, <2>3, <2>4
  <1>3. ASSUME NEW r \in Request, NEW holder, Release(r, holder), UNCHANGED <<kernels, pool, hasValue>>,
               \A q \in Request : call'[q] = "none" => call[q] = "none"
        PROVE  FreshInv'
    <2>1. CASE messages' = Append(messages, <<"noHold", Input(r)>>)
      <3>1. <<"noHold", Input(r)>> \in Message
        BY Messages
      <3>2. \A i \in DOMAIN messages' : (i \in DOMAIN messages /\ messages'[i] = messages[i]) \/ messages'[i] = <<"noHold", Input(r)>>
        BY <1>0, <2>1, <3>1, Appended
      <3> QED BY <1>1, <1>3, <3>2
    <2>2. CASE messages' = messages
      BY <1>1, <1>3, <2>2
    <2> QED BY <1>3, <2>1, <2>2 DEF Release
  <1>4. ASSUME NEW r \in Request, DropTensor(r) PROVE FreshInv'
    BY <1>3, <1>4 DEF DropTensor
  <1>5. ASSUME NEW r \in Request, DropFuture(r) PROVE FreshInv'
    <2>1. (\A q \in Request : call'[q] = "none" => call[q] = "none") /\ UNCHANGED <<kernels, pool, hasValue>>
      BY <1>0, <1>5 DEF DropFuture
    <2>2. CASE "future" \in apiRefs[r]
      BY <1>3, <1>5, <2>1, <2>2 DEF DropFuture
    <2>3. CASE "future" \notin apiRefs[r]
      BY <1>1, <1>5, <2>1, <2>3 DEF DropFuture
    <2> QED BY <2>2, <2>3
  <1>6. ASSUME NEW r \in Request,
               (\E op \in {"Get", "Wait", "WaitFor"} : CallFuture(r, op)) \/ Resume(r) \/ SpuriousWake(r) \/ TimeOut(r)
        PROVE  FreshInv'
    BY <1>1, <1>6, FutureCalls
  <1>7. ASSUME NEW r \in Request, Open(r) PROVE FreshInv'
    BY <1>0, <1>1, <1>7 DEF Open
  <1>8. CASE ProcessMessage
    <2>1. /\ messages' = Tail(messages) /\ UNCHANGED <<hasValue, pool, call>>
          /\ 1 \in DOMAIN messages /\ Head(messages) = messages[1] /\ Head(messages) \in Message
          /\ \A i \in DOMAIN messages' : i + 1 \in DOMAIN messages /\ messages'[i] = messages[i + 1]
      BY <1>0, <1>8, Dropped DEF ProcessMessage
    <2>2. kernels' = kernels \/ kernels' = Append(kernels, messages[1])
      BY <1>8, <2>1 DEF ProcessMessage
    <2>3. \A i \in DOMAIN kernels' : (\E j \in DOMAIN kernels : kernels'[i] = kernels[j]) \/ kernels'[i] = messages[1]
      <3>1. CASE kernels' = kernels
        BY <3>1
      <3>2. CASE kernels' = Append(kernels, messages[1])
        <4>1. messages[1] \in Message /\ kernels \in Seq(Message)
          BY <1>0, <2>1
        <4>2. \A i \in DOMAIN Append(kernels, messages[1]) :
                \/ i \in DOMAIN kernels
                \/ i = Len(kernels) + 1 /\ Append(kernels, messages[1])[i] = messages[1]
          BY <4>1, Appended
        <4>3. \A i \in DOMAIN kernels : Append(kernels, messages[1])[i] = kernels[i]
          BY <4>1, Appended
        <4> QED BY <3>2, <4>2, <4>3
      <3> QED BY <2>2, <3>1, <3>2
    <2> QED BY <1>1, <2>1, <2>3
  <1>9. CASE Run
    <2>1. /\ kernels' = Tail(kernels) /\ UNCHANGED <<messages, call>>
          /\ 1 \in DOMAIN kernels /\ Head(kernels) = kernels[1] /\ kernels[1] \in Message
          /\ \A i \in DOMAIN kernels' : i + 1 \in DOMAIN kernels /\ kernels'[i] = kernels[i + 1]
      BY <1>0, <1>9, Dropped DEF Run
    <2> DEFINE q == RequestOf(kernels[1])
    <2>2. \/ UNCHANGED <<pool, hasValue>>
          \/ kernels[1][1] = "getTensor" /\ pool' \subseteq pool \cup {q} /\ hasValue' \subseteq hasValue \cup {q}
      BY <1>9, <2>1 DEF Run, Compute
    <2>3. kernels[1][1] = "getTensor" => q \in Request /\ kernels[1] = <<"getTensor", Local(q)>>
      BY <2>1, MessageParts
    <2>4. kernels[1][1] = "getTensor" => call[q] # "none"
      BY <2>1, <2>3 DEF FreshInv
    <2> QED BY <1>1, <2>1, <2>2, <2>4
  <1>10. ASSUME NEW r \in Request, PoolSetsValue(r) \/ PoolReturns(r) PROVE FreshInv'
    <2>1. /\ UNCHANGED <<messages, kernels, call>> /\ pool' \subseteq pool
          /\ hasValue' = hasValue \/ (r \in pool /\ hasValue' = hasValue \cup {r})
      BY <1>10 DEF PoolSetsValue, PoolReturns
    <2> QED BY <1>1, <2>1 DEF FreshInv
  <1>11. ASSUME NEW t \in Tensor, Reuse(t) PROVE FreshInv'
    BY <1>1, <1>11 DEF Reuse
  <1>12. CASE AtRest \/ UNCHANGED asyncVars
    BY <1>1, <1>12 DEF AtRest, asyncVars
  <1> QED BY <1>2, <1>4, <1>5, <1>6, <1>7, <1>8, <1>9, <1>10, <1>11, <1>12 DEF AsyncNext, Client, Device
-----------------------------------------------------------------------------
(* The way of a redistributed tensor *)

\* Steps that keep messages and kernels, and what the parts of the way hold.
LEMMA PathFrame ==
    ASSUME PathInv, mode' = mode, messages' = messages, kernels' = kernels, pool' \subseteq pool,
           \A t \in Tensor : \A h \in {"blob", "kernel"} : h \in held[t] => h \in held'[t],
           \A t \in Tensor : storage[t] = "filled" /\ held[t] # {} => storage'[t] = "filled",
           kernels \in Seq(Message),
           \A r \in Distributed :
              /\ r \in pool' /\ "pool" \in held[Local(r)] => "pool" \in held'[Local(r)]
              /\ r \in hasValue' /\ call'[r] # "gone" =>
                   \/ r \in hasValue /\ call[r] # "gone" /\ (held[Local(r)] \cap {"value", "result"} # {} =>
                                                             held'[Local(r)] \cap {"value", "result"} # {})
                   \/ r \in pool /\ held'[Local(r)] \cap {"value", "result"} # {},
           Distributed \subseteq Request
    PROVE  PathInv'
  <1>0. Distributed' = Distributed /\ \A r : Local(r)' = Local(r)
    BY DEF Distributed, Local
  <1>1. KernelsHold'
    <2>1. \A i \in DOMAIN kernels : kernels[i][2] \in Tensor
      BY MessageParts
    <2> QED BY <2>1 DEF PathInv, KernelsHold
  <1>2. ASSUME NEW r \in Distributed PROVE Asked(r)' /\ Launched(r)' /\ Fulfilled(r)'
    <2>1. r \in Request /\ Local(r) \in Tensor
      BY Messages
    <2>2. Asked(r) /\ Launched(r) /\ Fulfilled(r) /\ KernelsHold
      BY DEF PathInv
    <2>3. Asked(r)'
      BY <1>0, <2>1, <2>2 DEF Asked
    <2>4. Launched(r)'
      <3>1. \A i \in DOMAIN kernels : kernels[i] = <<"getTensor", Local(r)>> => "kernel" \in held[Local(r)]
        BY <2>2 DEF KernelsHold
      <3> QED BY <1>0, <2>1, <2>2, <3>1 DEF Launched
    <2>5. Fulfilled(r)'
      <3>1. r \in pool \/ (r \in hasValue /\ call[r] # "gone") => storage'[Local(r)] = "filled"
        BY <2>1, <2>2 DEF Fulfilled
      <3>2. r \in pool' => r \in pool /\ "pool" \in held'[Local(r)]
        BY <2>1, <2>2 DEF Fulfilled
      <3>3. r \in hasValue' /\ call'[r] # "gone" =>
               held'[Local(r)] \cap {"value", "result"} # {} /\ (r \in pool \/ (r \in hasValue /\ call[r] # "gone"))
        BY <2>1, <2>2 DEF Fulfilled
      <3> QED BY <1>0, <3>1, <3>2, <3>3 DEF Fulfilled
    <2> QED BY <2>3, <2>4, <2>5
  <1> QED BY <1>0, <1>1, <1>2 DEF PathInv

\* New messages, of other tensors or of a request that had none.
LEMMA PathGrows ==
    ASSUME AsyncTypeOK, PathInv, NEW t \in Seq(Message), messages' = messages \o t,
           UNCHANGED <<mode, kernels, pool, hasValue, storage>>,
           \A q \in Tensor : \A h \in {"blob", "kernel", "pool"} : h \in held[q] => h \in held'[q],
           \A r \in Distributed : r \in hasValue /\ call'[r] # "gone" =>
               call[r] # "gone" /\ held'[Local(r)] = held[Local(r)],
           Distributed \subseteq Request,
           \A r \in Distributed :
              \/ \A i \in DOMAIN t : t[i] \notin {<<"getTensor", Local(r)>>, <<"noHold", Local(r)>>}
              \/ /\ \A i \in DOMAIN messages : messages[i] \notin {<<"getTensor", Local(r)>>, <<"noHold", Local(r)>>}
                 /\ t = << <<"redistribute", Local(r)>>, <<"getTensor", Local(r)>>, <<"noHold", Local(r)>> >>
    PROVE  PathInv'
  <1>0. Distributed' = Distributed /\ \A r : Local(r)' = Local(r)
    BY DEF Distributed, Local
  <1>1. messages \in Seq(Message) /\ kernels \in Seq(Message)
    BY DEF AsyncTypeOK
  <1>2. KernelsHold'
    <2>1. \A i \in DOMAIN kernels : kernels[i][2] \in Tensor
      BY <1>1, MessageParts
    <2> QED BY <2>1 DEF PathInv, KernelsHold
  <1>3. ASSUME NEW r \in Distributed PROVE Asked(r)' /\ Launched(r)' /\ Fulfilled(r)'
    <2>1. r \in Request /\ Local(r) \in Tensor
      BY Messages
    <2>2. Asked(r) /\ Launched(r) /\ Fulfilled(r)
      BY DEF PathInv
    <2>3. Launched(r)' /\ Fulfilled(r)'
      BY <1>0, <2>1, <2>2 DEF Launched, Fulfilled
    <2>4. \A i \in DOMAIN messages' :
             \/ i \in DOMAIN messages /\ messages'[i] = messages[i]
             \/ i - Len(messages) \in DOMAIN t /\ messages'[i] = t[i - Len(messages)]
      BY <1>1, Concatenated
    <2>5. \A i \in DOMAIN messages : i \in DOMAIN messages' /\ messages'[i] = messages[i]
      BY <1>1, Concatenated
    <2>6. CASE \A i \in DOMAIN t : t[i] \notin {<<"getTensor", Local(r)>>, <<"noHold", Local(r)>>}
      <3>1. \A i \in DOMAIN messages' : messages'[i] \in {<<"getTensor", Local(r)>>, <<"noHold", Local(r)>>} =>
               i \in DOMAIN messages /\ messages'[i] = messages[i]
        BY <2>4, <2>6
      <3>2. ASSUME NEW i \in DOMAIN messages', NEW j \in DOMAIN messages',
                   messages'[i] = <<"getTensor", Local(r)>>, messages'[j] = <<"noHold", Local(r)>>
            PROVE  i < j
        BY <2>2, <3>1, <3>2 DEF Asked
      <3>3. ASSUME NEW i \in DOMAIN messages', messages'[i] = <<"getTensor", Local(r)>>
            PROVE  \/ \E j \in DOMAIN messages' : j < i /\ messages'[j] = <<"redistribute", Local(r)>>
                   \/ /\ "blob" \in held'[Local(r)]
                      /\ \/ storage[Local(r)] = "filled"
                         \/ \E k \in DOMAIN kernels : kernels[k] = <<"redistribute", Local(r)>>
        <4>1. i \in DOMAIN messages /\ messages[i] = <<"getTensor", Local(r)>>
          BY <3>1, <3>3
        <4>2. "blob" \in held[Local(r)] => "blob" \in held'[Local(r)]
          BY <2>1
        <4>3. CASE \E j \in DOMAIN messages : j < i /\ messages[j] = <<"redistribute", Local(r)>>
          BY <2>5, <4>3
        <4>4. CASE ~ \E j \in DOMAIN messages : j < i /\ messages[j] = <<"redistribute", Local(r)>>
          BY <2>2, <4>1, <4>2, <4>4 DEF Asked
        <4> QED BY <4>3, <4>4
      <3> QED BY <1>0, <2>3, <3>2, <3>3 DEF Asked
    <2>7. CASE /\ \A i \in DOMAIN messages : messages[i] \notin {<<"getTensor", Local(r)>>, <<"noHold", Local(r)>>}
               /\ t = << <<"redistribute", Local(r)>>, <<"getTensor", Local(r)>>, <<"noHold", Local(r)>> >>
      <3>1. /\ <<"redistribute", Local(r)>> # <<"getTensor", Local(r)>> /\ <<"getTensor", Local(r)>> # <<"noHold", Local(r)>>
            /\ <<"redistribute", Local(r)>> # <<"noHold", Local(r)>>
            /\ <<"redistribute", Local(r)>> \in Message /\ <<"getTensor", Local(r)>> \in Message
            /\ <<"noHold", Local(r)>> \in Message
        BY <2>1, Messages
      <3> DEFINE a == <<"redistribute", Local(r)>>
                 b == <<"getTensor", Local(r)>>
                 c == <<"noHold", Local(r)>>
      <3>2. /\ messages' = messages \o <<a, b, c>>
            /\ \A i \in DOMAIN messages : messages[i] # b /\ messages[i] # c
        BY <2>7
      <3>3. /\ a \in Message /\ b \in Message /\ c \in Message /\ a # b /\ b # c /\ a # c
        BY <3>1
      <3> HIDE DEF a, b, c
      <3>4. InOrder(messages \o <<a, b, c>>, a, b, c)
        BY <1>1, <3>2, <3>3, NewInOrder
      <3>5. InOrder(messages', a, b, c)
        BY <3>2, <3>4
      <3> QED BY <1>0, <2>3, <3>5 DEF Asked, InOrder, a, b, c
    <2> QED BY <2>3, <2>6, <2>7
  <1> QED BY <1>0, <1>2, <1>3 DEF PathInv

\* A message becomes a kernel.
LEMMA PathProcess ==
    ASSUME AsyncTypeOK, PathInv, ProcessMessage, Distributed \subseteq Request
    PROVE  PathInv'
  <1> DEFINE m == messages[1]
  <1>0. Distributed' = Distributed /\ \A r : Local(r)' = Local(r)
    BY DEF ProcessMessage, Distributed, Local
  <1>1. /\ messages \in Seq(Message) /\ kernels \in Seq(Message)
        /\ held \in [Tensor -> SUBSET {"blob", "kernel", "pool", "value", "result"}]
    BY DEF AsyncTypeOK
  <1>2. /\ 1 \in DOMAIN messages /\ Head(messages) = m /\ m \in Message
        /\ messages' = Tail(messages) /\ UNCHANGED <<pool, storage, hasValue, call>>
        /\ \A i \in DOMAIN messages' : i + 1 \in DOMAIN messages /\ messages'[i] = messages[i + 1]
        /\ \A i \in DOMAIN messages : i = 1 \/ (i - 1 \in DOMAIN messages' /\ messages'[i - 1] = messages[i])
    BY <1>1, Dropped DEF ProcessMessage
  <1>3. m[2] \in Tensor /\ m = <<m[1], m[2]>>
    BY <1>2, MessageParts
  <1>4. \/ /\ m[1] \in {"redistribute", "getTensor"}
           /\ kernels' = Append(kernels, m)
           /\ held' = [held EXCEPT ![m[2]] = held'[m[2]]] /\ held[m[2]] \cup {"kernel"} \subseteq held'[m[2]]
           /\ m[1] = "redistribute" => "blob" \in held'[m[2]]
        \/ /\ m[1] = "noHold" /\ kernels' = kernels
           /\ held' = [held EXCEPT ![m[2]] = @ \ {"blob"}]
    BY <1>1, <1>2, <1>3 DEF ProcessMessage, Hold
  <1>5. /\ \A i \in DOMAIN kernels : i \in DOMAIN kernels' /\ kernels'[i] = kernels[i]
        /\ \A i \in DOMAIN kernels' : \/ i \in DOMAIN kernels
                                      \/ i = Len(kernels) + 1 /\ kernels'[i] = m /\ m[1] \in {"redistribute", "getTensor"}
    <2>1. CASE kernels' = Append(kernels, m) /\ m[1] \in {"redistribute", "getTensor"}
      BY <1>1, <1>2, <2>1, Appended
    <2>2. CASE kernels' = kernels
      BY <2>2
    <2> QED BY <1>4, <2>1, <2>2
  <1>6. m[1] \in {"redistribute", "getTensor"} => \E k \in DOMAIN kernels' : kernels'[k] = m
    BY <1>1, <1>2, <1>4
  <1>7. \A t \in Tensor : \A h \in {"kernel", "pool", "value", "result"} : h \in held[t] => h \in held'[t]
    BY <1>1, <1>3, <1>4
  <1>8. \A t \in Tensor : "blob" \in held[t] => "blob" \in held'[t] \/ m = <<"noHold", t>>
    BY <1>1, <1>3, <1>4
  <1> HIDE DEF m
  <1>9. KernelsHold'
    <2>1. ASSUME NEW i \in DOMAIN kernels' PROVE "kernel" \in held'[kernels'[i][2]]
      <3>1. CASE i \in DOMAIN kernels
        <4>1. kernels[i][2] \in Tensor
          BY <1>1, <3>1, MessageParts
        <4> QED BY <1>5, <1>7, <3>1, <4>1 DEF PathInv, KernelsHold
      <3>2. CASE i \notin DOMAIN kernels
        BY <1>1, <1>3, <1>4, <1>5, <3>2
      <3> QED BY <3>1, <3>2
    <2> QED BY <2>1 DEF KernelsHold
  <1>10. ASSUME NEW r \in Distributed PROVE Asked(r)' /\ Launched(r)' /\ Fulfilled(r)'
    <2>1. r \in Request /\ Local(r) \in Tensor
      BY Messages
    <2>2. Asked(r) /\ Launched(r) /\ Fulfilled(r)
      BY DEF PathInv
    <2>3. ASSUME NEW i \in DOMAIN messages', NEW j \in DOMAIN messages',
                 messages'[i] = <<"getTensor", Local(r)>>, messages'[j] = <<"noHold", Local(r)>>
          PROVE  i < j
      <3>1. i + 1 < j + 1
        BY <1>2, <2>2, <2>3 DEF Asked
      <3>2. i \in Nat /\ j \in Nat
        BY <1>1, <1>2
      <3> QED BY <3>1, <3>2
    <2>4. ASSUME NEW i \in DOMAIN messages', messages'[i] = <<"getTensor", Local(r)>>
          PROVE  \/ \E j \in DOMAIN messages' : j < i /\ messages'[j] = <<"redistribute", Local(r)>>
                 \/ /\ "blob" \in held'[Local(r)]
                    /\ \/ storage[Local(r)] = "filled"
                       \/ \E k \in DOMAIN kernels' : kernels'[k] = <<"redistribute", Local(r)>>
      <3>1. i + 1 \in DOMAIN messages /\ messages[i + 1] = <<"getTensor", Local(r)>> /\ i \in Nat \ {0}
        BY <1>1, <1>2, <2>4
      <3>2. m # <<"noHold", Local(r)>>
        BY <1>2, <2>2, <3>1 DEF Asked, m
      <3>3. CASE \E j \in DOMAIN messages : j < i + 1 /\ messages[j] = <<"redistribute", Local(r)>>
        <4>1. PICK j \in DOMAIN messages : j < i + 1 /\ messages[j] = <<"redistribute", Local(r)>>
          BY <3>3
        <4>2. CASE j = 1
          <5>1. m = <<"redistribute", Local(r)>>
            BY <4>1, <4>2 DEF m
          <5> QED BY <1>4, <1>6, <5>1
        <4>3. CASE j # 1
          <5>1. j - 1 \in DOMAIN messages' /\ messages'[j - 1] = messages[j] /\ j \in Nat
            BY <1>1, <1>2, <4>3
          <5> QED BY <3>1, <4>1, <5>1
        <4> QED BY <4>2, <4>3
      <3>4. CASE ~ \E j \in DOMAIN messages : j < i + 1 /\ messages[j] = <<"redistribute", Local(r)>>
        <4>1. /\ "blob" \in held[Local(r)]
              /\ \/ storage[Local(r)] = "filled"
                 \/ \E k \in DOMAIN kernels : kernels[k] = <<"redistribute", Local(r)>>
          BY <2>2, <3>1, <3>4 DEF Asked
        <4> QED BY <1>5, <1>8, <2>1, <3>2, <4>1
      <3> QED BY <3>3, <3>4
    <2>5. Asked(r)'
      BY <1>0, <1>2, <2>3, <2>4 DEF Asked
    <2>6. ASSUME NEW i \in DOMAIN kernels', kernels'[i] = <<"getTensor", Local(r)>>
          PROVE  \/ \E j \in DOMAIN kernels' : j < i /\ kernels'[j] = <<"redistribute", Local(r)>>
                 \/ storage[Local(r)] = "filled"
      <3>1. CASE i \in DOMAIN kernels
        BY <1>5, <2>2, <2>6, <3>1 DEF Launched
      <3>2. CASE i \notin DOMAIN kernels
        <4>1. i = Len(kernels) + 1 /\ messages[1] = <<"getTensor", Local(r)>>
          BY <1>5, <2>6, <3>2 DEF m
        <4>2. ~ \E j \in DOMAIN messages : j < 1
          BY <1>1
        <4>3. storage[Local(r)] = "filled" \/ \E k \in DOMAIN kernels : kernels[k] = <<"redistribute", Local(r)>>
          BY <1>2, <2>2, <4>1, <4>2 DEF Asked
        <4>4. \A k \in DOMAIN kernels : k < i
          BY <1>1, <4>1
        <4> QED BY <1>5, <4>3, <4>4
      <3> QED BY <3>1, <3>2
    <2>7. Launched(r)'
      BY <1>0, <1>2, <2>6 DEF Launched
    <2>8. Fulfilled(r)'
      <3>1. /\ "pool" \in held[Local(r)] => "pool" \in held'[Local(r)]
            /\ held[Local(r)] \cap {"value", "result"} # {} => held'[Local(r)] \cap {"value", "result"} # {}
        BY <1>7, <2>1
      <3> QED BY <1>0, <1>2, <2>2, <3>1 DEF Fulfilled
    <2> QED BY <2>5, <2>7, <2>8
  <1> QED BY <1>0, <1>9, <1>10 DEF PathInv

\* A kernel runs.
LEMMA PathRun ==
    ASSUME AsyncTypeOK, PathInv, Run, mode \in Mode, NoHandleOfLocal
    PROVE  PathInv'
  <1> DEFINE k == kernels[1]
             q == RequestOf(k)
  <1>0. /\ Distributed' = Distributed /\ Distributed \subseteq Request
        /\ \A r : Local(r)' = Local(r)
    BY DEF Run, Distributed, Local
  <1>1. /\ messages \in Seq(Message) /\ kernels \in Seq(Message)
        /\ held \in [Tensor -> SUBSET {"blob", "kernel", "pool", "value", "result"}]
        /\ storage \in [Tensor -> {"none", "filled", "reused"}]
    BY DEF AsyncTypeOK
  <1>2. /\ 1 \in DOMAIN kernels /\ Head(kernels) = k /\ k \in Message
        /\ kernels' = Tail(kernels) /\ UNCHANGED <<messages, call>>
        /\ \A i \in DOMAIN kernels' : i + 1 \in DOMAIN kernels /\ kernels'[i] = kernels[i + 1]
        /\ \A i \in DOMAIN kernels : i = 1 \/ (i - 1 \in DOMAIN kernels' /\ kernels'[i - 1] = kernels[i])
    BY <1>1, Dropped DEF Run
  <1>3. /\ k[2] \in Tensor /\ k = <<k[1], k[2]>>
        /\ k[1] \in {"redistribute", "getTensor"} => k[2] = Local(q) /\ q \in Request
    BY <1>2, MessageParts
  <1>4. /\ k[1] \in {"redistribute", "getTensor"}
        /\ \/ k[1] = "redistribute" /\ storage' = [storage EXCEPT ![k[2]] = "filled"] /\ UNCHANGED <<pool, hasValue>>
           \/ k[1] = "getTensor" /\ storage' = storage /\ pool' \subseteq pool \cup {q} /\ hasValue' \subseteq hasValue \cup {q}
        /\ held' = [held EXCEPT ![k[2]] = held'[k[2]]] /\ AfterKernel(k[2]) \subseteq held'[k[2]]
    BY <1>1, <1>2, <1>3 DEF Run, Compute
  <1>5. k[1] = "getTensor" /\ q \in Distributed =>
           /\ q \in pool' /\ q \notin pool => "pool" \in held'[k[2]]
           /\ q \in hasValue' /\ q \notin hasValue /\ call[q] # "gone" => "value" \in held'[k[2]]
    <2> SUFFICES ASSUME k[1] = "getTensor", q \in Distributed
                 PROVE  /\ q \in pool' /\ q \notin pool => "pool" \in held'[k[2]]
                        /\ q \in hasValue' /\ q \notin hasValue /\ call[q] # "gone" => "value" \in held'[k[2]]
      OBVIOUS
    <2>1. Promise = "memory"
      BY DEF NoHandleOfLocal, Distributed, Promise, InOtherProcess, GetTensorPromiseTypeFromOperand
    <2>2. Compute(q) /\ ComputeHolds(q) \subseteq held'[k[2]]
      BY <1>1, <1>2, <1>3 DEF Run
    <2> QED BY <2>1, <2>2 DEF Compute, ComputeHolds, ValueHolds
  <1>6. \A t \in Tensor : \A h \in {"blob", "pool", "value", "result"} : h \in held[t] => h \in held'[t]
    BY <1>1, <1>3, <1>4 DEF AfterKernel
  <1>7. \A t \in Tensor : storage[t] = "filled" => storage'[t] = "filled"
    BY <1>1, <1>3, <1>4
  <1> HIDE DEF k, q
  <1>8. KernelsHold'
    <2>1. ASSUME NEW i \in DOMAIN kernels' PROVE "kernel" \in held'[kernels'[i][2]]
      <3>1. /\ i + 1 \in DOMAIN kernels /\ kernels'[i] = kernels[i + 1] /\ kernels[i + 1][2] \in Tensor
            /\ i + 1 \in 2 .. Len(kernels)
        BY <1>1, <1>2, MessageParts
      <3>2. "kernel" \in held[kernels[i + 1][2]]
        BY <3>1 DEF PathInv, KernelsHold
      <3>3. CASE kernels[i + 1][2] = k[2]
        <4>1. AfterKernel(k[2]) = held[k[2]]
          BY <3>1, <3>3 DEF AfterKernel, StillUsed
        <4> QED BY <1>4, <3>1, <3>2, <3>3, <4>1
      <3>4. CASE kernels[i + 1][2] # k[2]
        BY <1>1, <1>4, <3>1, <3>2, <3>4
      <3> QED BY <3>3, <3>4
    <2> QED BY <2>1 DEF KernelsHold
  <1>9. ASSUME NEW r \in Distributed PROVE Asked(r)' /\ Launched(r)' /\ Fulfilled(r)'
    <2>1. r \in Request /\ Local(r) \in Tensor
      BY <1>0, Messages
    <2>2. Asked(r) /\ Launched(r) /\ Fulfilled(r)
      BY DEF PathInv
    <2>3. ASSUME NEW j \in DOMAIN kernels, kernels[j] = <<"redistribute", Local(r)>>
          PROVE  storage'[Local(r)] = "filled" \/ (j - 1 \in DOMAIN kernels' /\ kernels'[j - 1] = kernels[j])
      <3>1. CASE j = 1
        <4>1. k[1] = "redistribute" /\ k[2] = Local(r)
          BY <2>3, <3>1 DEF k
        <4> QED BY <1>1, <1>4, <2>1, <4>1
      <3> QED BY <1>2, <3>1
    <2>4. ASSUME NEW i \in DOMAIN messages, messages[i] = <<"getTensor", Local(r)>>
          PROVE  \/ \E j \in DOMAIN messages : j < i /\ messages[j] = <<"redistribute", Local(r)>>
                 \/ /\ "blob" \in held'[Local(r)]
                    /\ \/ storage'[Local(r)] = "filled"
                       \/ \E j \in DOMAIN kernels' : kernels'[j] = <<"redistribute", Local(r)>>
      <3>1. CASE ~ \E j \in DOMAIN messages : j < i /\ messages[j] = <<"redistribute", Local(r)>>
        <4>1. /\ "blob" \in held[Local(r)]
              /\ \/ storage[Local(r)] = "filled"
                 \/ \E j \in DOMAIN kernels : kernels[j] = <<"redistribute", Local(r)>>
          BY <2>2, <2>4, <3>1 DEF Asked
        <4> QED BY <1>6, <1>7, <2>1, <2>3, <4>1
      <3> QED BY <3>1
    <2>5. Asked(r)'
      <3>1. \A i, j \in DOMAIN messages :
               messages[i] = <<"getTensor", Local(r)>> /\ messages[j] = <<"noHold", Local(r)>> => i < j
        BY <2>2 DEF Asked
      <3> QED BY <1>0, <1>2, <2>4, <3>1 DEF Asked
    <2>6. ASSUME NEW i \in DOMAIN kernels', kernels'[i] = <<"getTensor", Local(r)>>
          PROVE  \/ \E j \in DOMAIN kernels' : j < i /\ kernels'[j] = <<"redistribute", Local(r)>>
                 \/ storage'[Local(r)] = "filled"
      <3>1. i + 1 \in DOMAIN kernels /\ kernels[i + 1] = <<"getTensor", Local(r)>> /\ i \in Nat
        BY <1>1, <1>2, <2>6
      <3>2. CASE \E j \in DOMAIN kernels : j < i + 1 /\ kernels[j] = <<"redistribute", Local(r)>>
        <4>1. PICK j \in DOMAIN kernels : j < i + 1 /\ kernels[j] = <<"redistribute", Local(r)>>
          BY <3>2
        <4>2. j \in Nat /\ j - 1 < i
          BY <1>1, <3>1, <4>1
        <4> QED BY <2>3, <4>1, <4>2
      <3> QED BY <1>7, <2>1, <2>2, <3>1, <3>2 DEF Launched
    <2>7. Launched(r)'
      BY <1>0, <2>6 DEF Launched
    <2>8. ASSUME k[1] = "getTensor", q = r PROVE storage'[Local(r)] = "filled"
      <3>1. kernels[1] = <<"getTensor", Local(r)>> /\ ~ \E j \in DOMAIN kernels : j < 1
        BY <1>1, <1>3, <2>8 DEF k
      <3> QED BY <1>2, <1>7, <2>1, <2>2, <3>1 DEF Launched
    <2>9. Fulfilled(r)'
      <3>1. CASE k[1] = "getTensor" /\ q = r
        <4>1. k[2] = Local(r)
          BY <1>3, <3>1
        <4>2. r \in pool' => "pool" \in held'[Local(r)]
          BY <1>5, <1>6, <2>1, <2>2, <3>1, <4>1 DEF Fulfilled
        <4>3. r \in hasValue' /\ call[r] # "gone" => held'[Local(r)] \cap {"value", "result"} # {}
          BY <1>5, <1>6, <2>1, <2>2, <3>1, <4>1 DEF Fulfilled
        <4> QED BY <1>0, <1>2, <2>8, <3>1, <4>2, <4>3 DEF Fulfilled
      <3>2. CASE ~(k[1] = "getTensor" /\ q = r)
        <4>1. (r \in pool' => r \in pool) /\ (r \in hasValue' => r \in hasValue)
          BY <1>4, <3>2
        <4>2. /\ "pool" \in held[Local(r)] => "pool" \in held'[Local(r)]
              /\ held[Local(r)] \cap {"value", "result"} # {} => held'[Local(r)] \cap {"value", "result"} # {}
          BY <1>6, <2>1
        <4> QED BY <1>0, <1>2, <1>7, <2>1, <2>2, <4>1, <4>2 DEF Fulfilled
      <3> QED BY <3>1, <3>2
    <2> QED BY <2>5, <2>7, <2>9
  <1> QED BY <1>0, <1>8, <1>9 DEF PathInv

LEMMA PathStep ==
    ASSUME AsyncTypeOK, FreshInv, PathInv, [AsyncNext]_asyncVars, NoHandleOfLocal
    PROVE  PathInv'
  <1>0. /\ held \in [Tensor -> SUBSET {"blob", "kernel", "pool", "value", "result"}]
        /\ storage \in [Tensor -> {"none", "filled", "reused"}]
        /\ call \in [Request -> {"none", "idle", "Get", "Wait", "WaitFor", "opening", "got", "gone"}]
        /\ messages \in Seq(Message) /\ kernels \in Seq(Message) /\ mode \in Mode
        /\ Distributed \subseteq Request
        /\ \A r \in Request : Input(r) \in Tensor /\ Local(r) \in Tensor
    BY Messages DEF AsyncTypeOK, Distributed
  <1>1. ASSUME NEW r \in Request, GetTensorAsync(r) PROVE PathInv'
    <2>1. messages' = messages \o Request3(r) /\ UNCHANGED <<mode, kernels, pool, held, hasValue, storage>>
      BY <1>1 DEF GetTensorAsync, Request3
    <2>2. Request3(r) \in Seq(Message)
      BY RequestMessages
    <2>3. \A q \in Request : q \in hasValue /\ call'[q] # "gone" => call[q] # "gone"
      BY <1>0, <1>1 DEF GetTensorAsync
    <2>4. ASSUME NEW q \in Distributed
          PROVE \/ \A i \in DOMAIN Request3(r) : Request3(r)[i] \notin {<<"getTensor", Local(q)>>, <<"noHold", Local(q)>>}
                \/ /\ \A i \in DOMAIN messages : messages[i] \notin {<<"getTensor", Local(q)>>, <<"noHold", Local(q)>>}
                   /\ Request3(r) = << <<"redistribute", Local(q)>>, <<"getTensor", Local(q)>>, <<"noHold", Local(q)>> >>
      <3>1. CASE q = r
        BY <1>1, <2>4, <3>1 DEF FreshInv, GetTensorAsync, Request3
      <3>2. CASE q # r
        <4>1. \A i \in DOMAIN Request3(r) : Request3(r)[i][2] = Local(r)
          BY DEF Request3
        <4> QED BY <3>2, <4>1, TensorNames
      <3> QED BY <3>1, <3>2
    <2> QED BY <1>0, <2>1, <2>2, <2>3, <2>4, PathGrows
  <1>2. ASSUME NEW r \in Request, NEW holder, Release(r, holder),
               UNCHANGED <<mode, kernels, pool, hasValue, storage>>,
               \A q \in Tensor : \A h \in {"blob", "kernel", "pool"} : h \in held[q] => h \in held'[q],
               \A q \in Distributed : q \in hasValue /\ call'[q] # "gone" =>
                   call[q] # "gone" /\ held'[Local(q)] = held[Local(q)]
        PROVE  PathInv'
    <2>1. CASE messages' = Append(messages, <<"noHold", Input(r)>>)
      <3> DEFINE e == <<"noHold", Input(r)>>
                 t == <<e>>
      <3>1. e \in Message /\ messages \in Seq(Message) /\ messages' = Append(messages, e)
        BY <1>0, <2>1, Messages DEF AsyncTypeOK
      <3>2. \A q \in Distributed : e \notin {<<"getTensor", Local(q)>>, <<"noHold", Local(q)>>}
        BY TensorNames
      <3> HIDE DEF e
      <3>3. messages' = messages \o t /\ t \in Seq(Message) /\ \A i \in DOMAIN t : t[i] = e
        BY <3>1, AppendedOne
      <3> HIDE DEF t
      <3>4. \A q \in Distributed : \A i \in DOMAIN t : t[i] \notin {<<"getTensor", Local(q)>>, <<"noHold", Local(q)>>}
        BY <3>2, <3>3
      <3> QED BY <1>0, <1>2, <3>3, <3>4, PathGrows
    <2>2. CASE messages' = messages
      <3> DEFINE t == <<>>
      <3>1. t \in Seq(Message) /\ messages' = messages \o t /\ DOMAIN t = {}
        BY <1>0, <2>2
      <3> HIDE DEF t
      <3> QED BY <1>0, <1>2, <3>1, PathGrows
    <2> QED BY <1>2, <2>1, <2>2 DEF Release
  <1>3. ASSUME NEW r \in Request, DropTensor(r) PROVE PathInv'
    BY <1>2, <1>3 DEF DropTensor
  <1>4. ASSUME NEW r \in Request, DropFuture(r) PROVE PathInv'
    <2>1. /\ \A t \in Tensor : \A h \in {"blob", "kernel", "pool"} : h \in held[t] => h \in held'[t]
          /\ UNCHANGED <<mode, kernels, pool, hasValue, storage>>
      BY <1>0, <1>4 DEF DropFuture
    <2>2. ASSUME NEW q \in Distributed, call'[q] # "gone"
          PROVE  call[q] # "gone" /\ held'[Local(q)] = held[Local(q)]
      <3>1. call' = [call EXCEPT ![r] = "gone"] /\ held' = [held EXCEPT ![Local(r)] = @ \ {"value", "result"}]
        BY <1>4 DEF DropFuture
      <3>2. q # r /\ Local(q) # Local(r) /\ q \in Request
        BY <1>0, <2>2, <3>1, TensorNames
      <3> QED BY <1>0, <2>2, <3>1, <3>2
    <2>3. CASE "future" \in apiRefs[r]
      <3>1. Release(r, "future")
        BY <1>4, <2>3 DEF DropFuture
      <3> QED BY <1>2, <2>1, <2>2, <3>1
    <2>4. CASE "future" \notin apiRefs[r]
      <3>1. messages' = messages
        BY <1>4, <2>4 DEF DropFuture
      <3>2. ASSUME NEW q \in Distributed
            PROVE  /\ "pool" \in held[Local(q)] => "pool" \in held'[Local(q)]
                   /\ q \in hasValue' /\ call'[q] # "gone" =>
                        /\ q \in hasValue /\ call[q] # "gone"
                        /\ held[Local(q)] \cap {"value", "result"} # {} => held'[Local(q)] \cap {"value", "result"} # {}
        <4>1. Local(q) \in Tensor
          BY <1>0, Messages
        <4> QED BY <2>1, <2>2, <4>1
      <3>3. \A t \in Tensor : storage[t] = "filled" /\ held[t] # {} => storage'[t] = "filled"
        BY <2>1
      <3> QED BY <1>0, <2>1, <3>1, <3>2, <3>3, PathFrame
    <2> QED BY <2>3, <2>4
  <1>5. ASSUME NEW r \in Request,
               (\E op \in {"Get", "Wait", "WaitFor"} : CallFuture(r, op)) \/ Resume(r) \/ SpuriousWake(r) \/ TimeOut(r)
        PROVE  PathInv'
    BY <1>0, <1>5, FutureCalls, PathFrame
  <1>6. ASSUME NEW r \in Request, Open(r) PROVE PathInv'
    <2>1. /\ UNCHANGED <<mode, messages, kernels, pool, storage, hasValue>>
          /\ \A q \in Request : call'[q] # "gone" => call[q] # "gone"
      BY <1>0, <1>6 DEF Open
    <2>2. \A t \in Tensor : /\ \A h \in {"blob", "kernel", "pool"} : h \in held[t] => h \in held'[t]
                            /\ held[t] \cap {"value", "result"} # {} => held'[t] \cap {"value", "result"} # {}
      BY <1>0, <1>6 DEF Open
    <2> QED BY <1>0, <2>1, <2>2, PathFrame
  <1>7. CASE ProcessMessage
    BY <1>0, <1>7, PathProcess
  <1>8. CASE Run
    BY <1>0, <1>8, PathRun
  <1>9. ASSUME NEW r \in Request, PoolSetsValue(r) PROVE PathInv'
    <2>1. /\ UNCHANGED <<mode, messages, kernels, pool, storage, call>>
          /\ r \in pool /\ hasValue' = hasValue \cup {r}
          /\ \A t \in Tensor : \A h \in {"blob", "kernel", "pool", "value", "result"} : h \in held[t] => h \in held'[t]
      BY <1>0, <1>9 DEF PoolSetsValue, Hold
    <2>2. r \in Distributed /\ call'[r] # "gone" => "value" \in held'[Local(r)]
      <3>1. r \in Distributed => Promise = "memory"
        BY <1>0 DEF NoHandleOfLocal, Distributed, Promise, InOtherProcess, GetTensorPromiseTypeFromOperand
      <3> QED BY <1>0, <1>9, <2>1, <3>1 DEF PoolSetsValue, Hold, ValueHolds
    <2> QED BY <1>0, <2>1, <2>2, PathFrame
  <1>10. ASSUME NEW r \in Request, PoolReturns(r) PROVE PathInv'
    <2>1. /\ UNCHANGED <<mode, messages, kernels, storage, call, hasValue>>
          /\ pool' = pool \ {r}
          /\ held' = [held EXCEPT ![Local(r)] = @ \ {"pool"}]
      BY <1>0, <1>10 DEF PoolReturns
    <2>2. \A t \in Tensor : \A h \in {"blob", "kernel", "value", "result"} : h \in held[t] => h \in held'[t]
      BY <1>0, <2>1
    <2>3. \A q \in Distributed : q \in pool' => held'[Local(q)] = held[Local(q)]
      BY <1>0, <2>1, TensorNames
    <2> QED BY <1>0, <2>1, <2>2, <2>3, PathFrame
  <1>11. ASSUME NEW t \in Tensor, Reuse(t) PROVE PathInv'
    <2>1. /\ UNCHANGED <<mode, messages, kernels, pool, held, hasValue, call>>
          /\ \A u \in Tensor : storage[u] = "filled" /\ held[u] # {} => storage'[u] = "filled"
      BY <1>0, <1>11 DEF Reuse
    <2> QED BY <1>0, <2>1, PathFrame
  <1>12. CASE AtRest \/ UNCHANGED asyncVars
    BY <1>0, <1>12, PathFrame DEF AtRest, asyncVars
  <1> QED BY <1>1, <1>3, <1>4, <1>5, <1>6, <1>7, <1>8, <1>9, <1>10, <1>11, <1>12 DEF AsyncNext, Client, Device

\* While somebody has the future, what it hands out is the tensor that was asked
\* for, however late the posted function runs and whatever the caller drops, on
\* condition that no redistributed tensor leaves its process as a handle
\* (tensor_functional.cc's _GetTensorAsync gives the future the input, not the
\* result of the redistribution).
THEOREM AsyncFutureGuards ==
    ASSUME NoHandleOfLocal
    PROVE  AsyncSpec => []FutureGuardsTensor
<1>1. AsyncInit => RefInv /\ FreshInv /\ PathInv
  BY DEF AsyncInit, RefInv, FreshInv, PathInv, KernelsHold, Asked, Launched, Fulfilled, Tensor, Input
<1>2. AsyncTypeOK /\ AsyncTypeOK' /\ RefInv /\ FreshInv /\ PathInv /\ [AsyncNext]_asyncVars
      => RefInv' /\ FreshInv' /\ PathInv'
  BY RefStep, FreshStep, PathStep
<1>3. AsyncTypeOK /\ RefInv /\ FreshInv /\ PathInv => FutureGuardsTensor
  <2> SUFFICES ASSUME AsyncTypeOK, RefInv, FreshInv, PathInv, NEW r \in hasValue, call[r] # "gone"
               PROVE  storage[Local(r)] = "filled"
    BY DEF FutureGuardsTensor
  <2>1. r \in Request /\ call[r] # "none"
    BY DEF AsyncTypeOK, FreshInv
  <2>2. CASE r \in Distributed
    BY <2>2 DEF PathInv, Fulfilled
  <2>3. CASE r \notin Distributed
    BY <2>1, <2>3, TensorNames DEF RefInv
  <2> QED BY <2>2, <2>3
<1> QED BY <1>1, <1>2, <1>3, AsyncTypes, PTL DEF AsyncSpec
=============================================================================
