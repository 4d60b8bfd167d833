--------------------------- MODULE EagerGraphProofs ---------------------------
(***************************************************************************)
(* Proofs about EagerGraph, for any number of devices, addresses and       *)
(* operators and any batch size: the runner never meets an operand it does *)
(* not know or knows already, blobs are neither leaked nor released twice, *)
(* every kernel reads what the API call named and its stream has filled    *)
(* it, and a future that is ready stands for finished work.                *)
(*                                                                         *)
(* The invariant has two halves.  The first follows an operator from the   *)
(* API through the message queue to the runner: an operator is pending     *)
(* until its kernels are created, operators are created in the order of    *)
(* their ids, and whoever names an address names the one operator that     *)
(* owns it.  The second follows the kernels on their streams: those of a   *)
(* device run in the order of their operators' ids, and none is skipped.   *)
(***************************************************************************)
EXTENDS EagerGraph, FiniteSetTheorems, TLAPS

Ids == 1..Len(ops)

\* What the API issues: operator i of the sequence s.
Issued(s, i) ==
    LET op == s[i]
        source == s[op.want].mesh
    IN  /\ op.want # 0 => op.want \in 1..(i - 1) /\ op.input = s[op.want].output /\ op.input \in Addr
        /\ op.want = 0 => op.input = NoAddr
        /\ op.output # NoAddr => op.mesh \in Mesh /\ op.mesh \subseteq op.kernels /\ op.kind \notin {"get", "sync"}
        /\ op.output = NoAddr => op.mesh = {} /\ op.kind \in {"get", "sync"}
        /\ op.kind = "create" => op.want = 0
        /\ op.kind = "compute" => op.want # 0 /\ op.mesh = source
        /\ op.kind = "convert" => op.want # 0 /\ op.mesh # source /\ op.kernels = op.mesh \cup source
        /\ op.kind = "get" => op.want # 0 /\ Cardinality(source) = 1 /\ op.kernels = source
        /\ op.kind = "sync" => op.want = 0

OperatorInv == \A i \in Ids : Issued(ops, i)

\* The API's books: one reference for each tensor that is held.
CacheInv == \A a \in Addr :
    /\ tensor[a] = 0 => mOperandCaches[a] = 0
    /\ tensor[a] # 0 => mOperandCaches[a] = 1 /\ tensor[a] \in Ids /\ ops[tensor[a]].output = a

-----------------------------------------------------------------------------
(* Operators on their way to the runner *)

Adds(m, i)   == m.type = "addOperator" /\ m.op = i
Drops(m, a)  == m.type = "noHold" /\ m.operand = a
Added(i)     == \E n \in DOMAIN queue : Adds(queue[n], i)
Pending(i)   == i \in Elements(newOps) \/ Added(i)

\* The operand of i exists, or will.
Alive(i) == Pending(i) \/ (ops[i].output # NoAddr /\ mOperandToBlobs[ops[i].output] = i)

\* Somebody has asked for the operand at a to be dropped.
Announced(a) == \E n \in DOMAIN queue : Drops(queue[n], a)
Dropped(a)   == a \in Elements(newNoHold) \/ Announced(a)

\* Only issued operators are pending.
KnownInv == \A i \in Id : Pending(i) => i \in Ids

\* Messages keep the order of their operators.
OrderInv ==
    /\ \A p, q \in DOMAIN newOps : p < q => newOps[p] < newOps[q]
    /\ \A p, q \in DOMAIN queue : \A i, j \in Id :
         p < q /\ Adds(queue[p], i) /\ Adds(queue[q], j) => i < j
    /\ \A i \in Elements(newOps) : \A j \in Id : Added(j) => i < j

\* An address has one owner.
OwnerInv ==
    /\ \A a \in Addr : mOperandToBlobs[a] # 0 => mOperandToBlobs[a] \in Ids
    /\ \A a \in Addr : \A i \in Ids : mOperandToBlobs[a] = i => ops[i].output = a /\ ~Pending(i)
    /\ \A i, j \in Ids : Alive(i) /\ Alive(j) /\ ops[i].output = ops[j].output /\ ops[i].output # NoAddr => i = j
    /\ \A a \in Addr : a \in mOperandMap <=>
         mOperandToBlobs[a] # 0 \/ \E i \in Elements(newOps) : ops[i].output = a

\* Whoever uses an operand uses one that exists.
UserInv ==
    /\ \A a \in Addr : \A i \in Ids : tensor[a] = i => Alive(i)
    /\ \A i, w \in Ids : Pending(i) /\ ops[i].want = w => Alive(w)

\* There is one message that drops an operand, exactly when the API has dropped
\* it, and no operator behind it that has to do with this operand.
NoHoldInv ==
    /\ \A p, q \in DOMAIN newNoHold : newNoHold[p] = newNoHold[q] => p = q
    /\ \A p, q \in DOMAIN queue : \A a \in Addr : Drops(queue[p], a) /\ Drops(queue[q], a) => p = q
    /\ \A a \in Elements(newNoHold) : ~Announced(a)
    /\ \A a \in Addr : Dropped(a) => tensor[a] = 0 /\ \E i \in Ids : Alive(i) /\ ops[i].output = a
    /\ \A a \in Addr : \A i \in Ids : Alive(i) /\ ops[i].output = a /\ tensor[a] = 0 => Dropped(a)
    /\ \A p, q \in DOMAIN queue : \A a \in Addr : \A i \in Ids :
         Adds(queue[p], i) /\ a \in {ops[i].input, ops[i].output} /\ Drops(queue[q], a) => p < q
    /\ \A a \in Elements(newNoHold) : \A i \in Ids : Added(i) => a \notin {ops[i].input, ops[i].output}

\* Where the executor is, and the end of the graph.
ControlInv ==
    /\ execPc = "poll" => msgCount < BatchSize
    /\ execPc = "poll" /\ msgCount = 0 => newOps = <<>> /\ newNoHold = <<>>
    /\ execPc # "create" => \A d \in Device : unlaunched[d] = <<>>
    /\ execPc = "exited" => destroyPc # "no"
    /\ destroyPc \in {"streams", "gone"} => execPc = "exited"
    /\ \A n \in DOMAIN queue : queue[n].type = "null" => QueueDestroyed
    /\ \A d \in Device : streamDestroy[d] => destroyPc \in {"streams", "gone"}
    /\ \A d \in Device : streamPc[d] = "exited" => streamDestroy[d]

\* The null kernel is in a queue only to end its stream.
NullInv == \A d \in Device :
    /\ NoKernel \in Elements(kernelQueue[d]) => streamDestroy[d]
    /\ NoKernel \notin Elements(unlaunched[d])
    /\ streamPc[d] \in {"run", "inStore"} => running[d] # NoKernel

BaseInv == EagerTypeOK /\ OperatorInv /\ CacheInv /\ KnownInv /\ ControlInv /\ NullInv

\* The books of the graph, as long as there is an executor to keep them.
BooksInv == OrderInv /\ OwnerInv /\ UserInv /\ NoHoldInv
GraphInv == execPc # "exited" => BooksInv

-----------------------------------------------------------------------------
(* Kernels on their streams *)

\* The kernels a stream has still to run.
Line(d)       == kernelQueue[d] \o unlaunched[d]
Running(d, k) == streamPc[d] \in {"run", "inStore"} /\ running[d] = k
InLine(i, d)  == \E k \in Kernel : k.op = i /\ (Running(d, k) \/ k \in Elements(Line(d)))
Seen(i, d)    == <<i, d>> \in ran \/ InLine(i, d)

\* A kernel of the operator on this device, with what the API call named.
KernelOf(k, d) == k.op \in Ids /\ d \in ops[k.op].kernels /\ k.input = ops[k.op].want

\* A stream has its kernels in the order of their operators; the null kernel
\* ends it.
LineInv == \A d \in Device :
    /\ \A p, q \in DOMAIN Line(d) : p < q => Line(d)[p].op < Line(d)[q].op \/ Line(d)[q] = NoKernel
    /\ \A k \in Kernel : k \in Elements(Line(d)) => k = NoKernel \/ KernelOf(k, d)
    /\ \A k \in Kernel : Running(d, k) =>
         KernelOf(k, d) /\ \A l \in Kernel : l \in Elements(Line(d)) => l = NoKernel \/ k.op < l.op

\* What has run, has run in this order; no kernel is skipped.
RanInv == \A d \in Device :
    /\ \A i \in Id : <<i, d>> \in ran => i \in Ids /\ d \in ops[i].kernels
    /\ \A i, j \in Ids : <<i, d>> \in ran /\ InLine(j, d) => i < j
    /\ \A i, j \in Ids : <<i, d>> \in ran /\ j < i /\ d \in ops[j].kernels => <<j, d>> \in ran
    /\ streamPc[d] # "exited" => \A i, j \in Ids : Seen(i, d) /\ j < i /\ d \in ops[j].kernels => Seen(j, d)
    /\ execPc # "exited" => \A i, j \in Ids : Seen(i, d) /\ Pending(j) => i < j
    /\ execPc # "exited" => \A i \in Ids : d \in ops[i].kernels => Pending(i) \/ Seen(i, d)

\* A kernel is in its store while it runs, and returns when all are there.
StoreInv ==
    /\ \A i \in Id : \A d \in arrived[i] :
         /\ i \in Ids /\ d \in ops[i].kernels
         /\ (streamPc[d] = "inStore" /\ running[d].op = i) \/ <<i, d>> \in ran
    /\ \A i \in Ids : \A d \in Device : Rendezvous(i) /\ <<i, d>> \in ran => arrived[i] = ops[i].kernels

\* The work enqueued on a GPU completes in its order.
OnDevice(j, d) == j \in Elements(onDevice[d])
DeviceInv ==
    /\ \A d \in Gpu :
         /\ \A p, q \in DOMAIN onDevice[d] : p < q => onDevice[d][p] < onDevice[d][q]
         /\ \A j \in Id : OnDevice(j, d) => <<j, d>> \in ran
         /\ \A i, j \in Ids : <<i, d>> \in ran /\ ~HandsOver(i) /\ OnDevice(j, d) => OnDevice(i, d) \/ i < j
    /\ \A p \in posted : /\ <<p.op, p.device>> \in ran
                         /\ \A j \in Id : OnDevice(j, p.device) /\ j < p.op => j \in p.event
    /\ \A f \in ready : /\ f \in ran /\ HandsOver(f[1])
                        /\ f[2] \in Gpu => \A j \in Id : OnDevice(j, f[2]) => f[1] <= j
    /\ \A p \in posted : HandsOver(p.op)

\* A conversion is computed only when what it reads is.
SourceInv == \A i \in Ids : \A d \in ops[i].mesh :
    ops[i].kind = "convert" /\ Computed(i, d) => SourcesDone(i)

StreamInv == LineInv /\ RanInv /\ StoreInv /\ DeviceInv /\ SourceInv

USE EagerAssumption
-----------------------------------------------------------------------------
(* Sequences *)

LEMMA ElementsOf ==
    ASSUME NEW S, NEW s \in Seq(S)
    PROVE  /\ Elements(s) \subseteq S
           /\ \A i \in DOMAIN s : s[i] \in Elements(s) /\ s[i] \in S
           /\ \A x \in Elements(s) : \E i \in DOMAIN s : s[i] = x
           /\ s = <<>> => Elements(s) = {}
           /\ Elements(s) = {} => s = <<>>
<1>1. DOMAIN s = 1..Len(s) /\ Len(s) \in Nat /\ \A i \in DOMAIN s : s[i] \in S
  OBVIOUS
<1>2. Elements(s) = {s[i] : i \in DOMAIN s}
  BY <1>1 DEF Elements
<1>3. s = <<>> => DOMAIN s = {}
  OBVIOUS
<1>4. s # <<>> => 1 \in DOMAIN s
  OBVIOUS
<1>5. \A x \in Elements(s) : \E i \in DOMAIN s : s[i] = x
  BY <1>2
<1>6. \A i \in DOMAIN s : s[i] \in Elements(s)
  BY <1>2
<1>7. Elements(s) \subseteq S
  BY <1>1, <1>5
<1> QED BY <1>1, <1>3, <1>4, <1>5, <1>6, <1>7

LEMMA Appended ==
    ASSUME NEW S, NEW s \in Seq(S), NEW e \in S
    PROVE  /\ Append(s, e) \in Seq(S) /\ Append(s, e) # <<>>
           /\ DOMAIN Append(s, e) = DOMAIN s \cup {Len(s) + 1} /\ Len(s) + 1 \notin DOMAIN s
           /\ Append(s, e)[Len(s) + 1] = e
           /\ \A i \in DOMAIN s : Append(s, e)[i] = s[i] /\ i < Len(s) + 1
           /\ Elements(Append(s, e)) = Elements(s) \cup {e}
<1>1. /\ Append(s, e) \in Seq(S) /\ Append(s, e) # <<>>
      /\ DOMAIN Append(s, e) = DOMAIN s \cup {Len(s) + 1} /\ Len(s) + 1 \notin DOMAIN s
      /\ Append(s, e)[Len(s) + 1] = e
      /\ \A i \in DOMAIN s : Append(s, e)[i] = s[i] /\ i < Len(s) + 1
  OBVIOUS
<1>2. Elements(Append(s, e)) = Elements(s) \cup {e}
  <2> DEFINE u == Append(s, e)
  <2>1. u \in Seq(S) /\ DOMAIN u = DOMAIN s \cup {Len(s) + 1} /\ u[Len(s) + 1] = e /\ \A i \in DOMAIN s : u[i] = s[i]
    BY <1>1
  <2>2. DOMAIN u = 1..Len(u) /\ DOMAIN s = 1..Len(s)
    BY <2>1
  <2> HIDE DEF u
  <2>3. Elements(u) = {u[i] : i \in DOMAIN u} /\ Elements(s) = {s[i] : i \in DOMAIN s}
    BY <2>2 DEF Elements
  <2> QED BY <2>1, <2>3 DEF u
<1> QED BY <1>1, <1>2

LEMMA Removed ==
    ASSUME NEW S, NEW s \in Seq(S), s # <<>>
    PROVE  /\ Tail(s) \in Seq(S) /\ Head(s) \in S /\ 1 \in DOMAIN s /\ Head(s) = s[1]
           /\ \A i \in DOMAIN Tail(s) : i \in Nat /\ i + 1 \in DOMAIN s /\ Tail(s)[i] = s[i + 1]
           /\ \A i \in DOMAIN s : i \in Nat /\ (i = 1 \/ (i - 1 \in DOMAIN Tail(s) /\ Tail(s)[i - 1] = s[i] /\ 1 < i))
           /\ Elements(s) = {Head(s)} \cup Elements(Tail(s))
<1>1. /\ Tail(s) \in Seq(S) /\ Head(s) \in S /\ 1 \in DOMAIN s /\ Head(s) = s[1]
      /\ \A i \in DOMAIN Tail(s) : i \in Nat /\ i + 1 \in DOMAIN s /\ Tail(s)[i] = s[i + 1]
      /\ \A i \in DOMAIN s : i \in Nat /\ (i = 1 \/ (i - 1 \in DOMAIN Tail(s) /\ Tail(s)[i - 1] = s[i] /\ 1 < i))
  OBVIOUS
<1>2. Elements(s) = {Head(s)} \cup Elements(Tail(s))
  <2> DEFINE t == Tail(s)
  <2>1. t \in Seq(S) /\ \A i \in DOMAIN t : i + 1 \in DOMAIN s /\ t[i] = s[i + 1]
    BY <1>1
  <2>2. \A i \in DOMAIN s : i = 1 \/ (i - 1 \in DOMAIN t /\ t[i - 1] = s[i])
    BY <1>1
  <2>3. DOMAIN t = 1..Len(t) /\ DOMAIN s = 1..Len(s)
    BY <2>1
  <2> HIDE DEF t
  <2>4. Elements(t) = {t[i] : i \in DOMAIN t} /\ Elements(s) = {s[i] : i \in DOMAIN s}
    BY <2>3, Zenon DEF Elements
  <2>5. ASSUME NEW x \in Elements(s) PROVE x = Head(s) \/ x \in Elements(t)
    <3>1. PICK i \in DOMAIN s : s[i] = x
      BY <2>4
    <3>2. CASE i = 1
      BY <1>1, <3>1, <3>2
    <3>3. CASE i - 1 \in DOMAIN t /\ t[i - 1] = s[i]
      BY <2>4, <3>1, <3>3
    <3> QED BY <2>2, <3>2, <3>3
  <2>6. \A x \in Elements(t) : x \in Elements(s)
    BY <2>1, <2>4
  <2>7. Head(s) \in Elements(s)
    BY <1>1, <2>4
  <2> QED BY <2>5, <2>6, <2>7 DEF t
<1> QED BY <1>1, <1>2

LEMMA Joined ==
    ASSUME NEW S, NEW s \in Seq(S), NEW t \in Seq(S)
    PROVE  /\ s \o t \in Seq(S) /\ Len(s) \in Nat
           /\ \A i \in DOMAIN s : i \in Nat /\ i <= Len(s) /\ i \in DOMAIN (s \o t) /\ (s \o t)[i] = s[i]
           /\ \A i \in DOMAIN (s \o t) : i \in Nat /\
                (i \in DOMAIN s \/ (i - Len(s) \in DOMAIN t /\ (s \o t)[i] = t[i - Len(s)] /\ i > Len(s)))
           /\ Elements(s \o t) = Elements(s) \cup Elements(t)
<1>1. /\ s \o t \in Seq(S) /\ Len(s) \in Nat
      /\ \A i \in DOMAIN s : i \in Nat /\ i <= Len(s) /\ i \in DOMAIN (s \o t) /\ (s \o t)[i] = s[i]
      /\ \A i \in DOMAIN (s \o t) : i \in Nat /\
           (i \in DOMAIN s \/ (i - Len(s) \in DOMAIN t /\ (s \o t)[i] = t[i - Len(s)] /\ i > Len(s)))
  OBVIOUS
<1>0. \A i \in DOMAIN t : Len(s) + i \in DOMAIN (s \o t) /\ (s \o t)[Len(s) + i] = t[i]
  OBVIOUS
<1>2. Elements(s \o t) = Elements(s) \cup Elements(t)
  <2> DEFINE u == s \o t
  <2>1. /\ \A i \in DOMAIN s : i \in DOMAIN u /\ u[i] = s[i]
        /\ \A i \in DOMAIN t : Len(s) + i \in DOMAIN u /\ u[Len(s) + i] = t[i]
        /\ \A i \in DOMAIN u : i \in DOMAIN s \/ (i - Len(s) \in DOMAIN t /\ u[i] = t[i - Len(s)])
    BY <1>0, <1>1
  <2>2. DOMAIN u = 1..Len(u) /\ DOMAIN s = 1..Len(s) /\ DOMAIN t = 1..Len(t)
    BY <1>1
  <2> HIDE DEF u
  <2>3. /\ Elements(u) = {u[i] : i \in DOMAIN u} /\ Elements(s) = {s[i] : i \in DOMAIN s}
        /\ Elements(t) = {t[i] : i \in DOMAIN t}
    BY <2>2, Zenon DEF Elements
  <2>4. \A x \in Elements(s) \cup Elements(t) : x \in Elements(u)
    BY <2>1, <2>3
  <2>5. \A x \in Elements(u) : x \in Elements(s) \cup Elements(t)
    BY <2>1, <2>3
  <2> QED BY <2>4, <2>5 DEF u
<1> QED BY <1>1, <1>2
-----------------------------------------------------------------------------
(* What the API issues *)

Issues(op) ==
    /\ ~aborted /\ destroyPc = "no" /\ Len(ops) < MaxOp
    /\ op \in Operator
    /\ Issued(Append(ops, op), Len(ops) + 1)
    /\ op.want # 0 => tensor[op.input] = op.want
    /\ op.output # NoAddr => Free(op.output)
    /\ AddOperator(op)

\* An operator of the sequence does not depend on what follows.
LEMMA IssuedKept ==
    ASSUME NEW s \in Seq(Operator), NEW op \in Operator, NEW i \in 1..Len(s), Issued(s, i)
    PROVE  Issued(Append(s, op), i)
<1> DEFINE u == Append(s, op)
<1>1. Len(s) \in Nat /\ \A j \in 1..Len(s) : u[j] = s[j]
  OBVIOUS
<1> HIDE DEF u
<1>2. u[i] = s[i] /\ (s[i].want # 0 => u[s[i].want] = s[s[i].want])
  BY <1>1 DEF Issued
<1>3. CASE s[i].want # 0
  BY <1>2, <1>3 DEF Issued, u
<1>4. CASE s[i].want = 0
  BY <1>2, <1>4 DEF Issued, u
<1> QED BY <1>3, <1>4

\* A held tensor is the output of an operator on a device mesh.
LEMMA HeldTensor ==
    ASSUME BaseInv, NEW x \in Held
    PROVE  /\ x \in Addr /\ tensor[x] \in Ids /\ tensor[x] \in 1..MaxOp /\ ops[tensor[x]].output = x
           /\ MeshOf(x) \in Mesh /\ MeshOf(x) \in SUBSET Device /\ MeshOf(x) # {}
<1>1. x \in Addr /\ tensor[x] \in Ids /\ ops[tensor[x]].output = x
  <2>1. x \in Addr /\ mOperandCaches[x] > 0
    BY DEF Held
  <2>2. tensor[x] # 0
    BY <2>1 DEF BaseInv, CacheInv
  <2> QED BY <2>1, <2>2 DEF BaseInv, CacheInv
<1>2. Issued(ops, tensor[x])
  BY <1>1 DEF BaseInv, OperatorInv
<1>3. MeshOf(x) \in Mesh
  BY <1>1, <1>2 DEF Issued, MeshOf
<1>4. Len(ops) \in Nat /\ Len(ops) <= MaxOp
  BY DEF BaseInv, EagerTypeOK
<1>5. tensor[x] \in 1..MaxOp
  BY <1>1, <1>4 DEF Ids
<1> QED BY <1>1, <1>3, <1>5 DEF Mesh

LEMMA NewIssued ==
    ASSUME BaseInv, NEW op \in Operator,
           op.want # 0 => op.want \in Ids /\ op.input = ops[op.want].output /\ op.input \in Addr,
           op.want = 0 => op.input = NoAddr,
           op.output # NoAddr => op.mesh \in Mesh /\ op.mesh \subseteq op.kernels /\ op.kind \notin {"get", "sync"},
           op.output = NoAddr => op.mesh = {} /\ op.kind \in {"get", "sync"},
           op.kind = "create" => op.want = 0,
           op.kind = "compute" => op.want # 0 /\ op.mesh = ops[op.want].mesh,
           op.kind = "convert" => /\ op.want # 0 /\ op.mesh # ops[op.want].mesh
                                  /\ op.kernels = op.mesh \cup ops[op.want].mesh,
           op.kind = "get" => /\ op.want # 0 /\ Cardinality(ops[op.want].mesh) = 1
                              /\ op.kernels = ops[op.want].mesh,
           op.kind = "sync" => op.want = 0
    PROVE  Issued(Append(ops, op), Len(ops) + 1)
<1> DEFINE u == Append(ops, op)
<1>1. Len(ops) \in Nat /\ u[Len(ops) + 1] = op /\ \A j \in Ids : u[j] = ops[j]
  BY DEF BaseInv, EagerTypeOK, Ids
<1> HIDE DEF u
<1>2. CASE op.want # 0
  <2>1. u[op.want] = ops[op.want] /\ op.want \in 1..(Len(ops) + 1 - 1)
    BY <1>1, <1>2 DEF Ids
  <2>2. Issued(u, Len(ops) + 1)
    BY <1>1, <1>2, <2>1 DEF Issued
  <2> QED BY <2>2 DEF u
<1>3. CASE op.want = 0
  <2>1. Issued(u, Len(ops) + 1)
    BY <1>1, <1>3 DEF Issued
  <2> QED BY <2>1 DEF u
<1> QED BY <1>2, <1>3

LEMMA ApiIssues ==
    ASSUME BaseInv, Create \/ Compute \/ Convert \/ GetTensorAsync \/ SyncFuture
    PROVE  \E op \in Operator : Issues(op)
<1>m. Device \in SUBSET Device /\ \A m \in Mesh : m \in SUBSET Device
  BY DEF Mesh
<1>n. 0 \in 0..MaxOp
  OBVIOUS
<1>a. ASSUME NEW op \in Operator, Issued(Append(ops, op), Len(ops) + 1),
             op.want # 0 => tensor[op.input] = op.want, op.output # NoAddr => Free(op.output), AddOperator(op)
      PROVE  Issues(op)
  BY <1>a DEF Issues, AddOperator
<1>1. CASE Create
  <2>1. PICK mesh \in Mesh, a \in Addr :
          /\ Free(a)
          /\ AddOperator([kind |-> "create", input |-> NoAddr, want |-> 0,
                          output |-> a, mesh |-> mesh, kernels |-> mesh])
    BY <1>1 DEF Create
  <2> DEFINE op == [kind |-> "create", input |-> NoAddr, want |-> 0, output |-> a, mesh |-> mesh, kernels |-> mesh]
  <2>2. "create" \in OpKind
    BY <2>1 DEF AddOperator
  <2>3. op \in Operator
    BY <1>m, <1>n, <2>2 DEF Operator
  <2>4. Issued(Append(ops, op), Len(ops) + 1)
    BY <2>3, NewIssued
  <2> QED BY <1>a, <2>1, <2>3, <2>4
<1>2. CASE Compute
  <2>1. PICK x \in Held, a \in Addr :
          /\ Free(a)
          /\ AddOperator([kind |-> "compute", input |-> x, want |-> tensor[x],
                          output |-> a, mesh |-> MeshOf(x), kernels |-> MeshOf(x)])
    BY <1>2 DEF Compute
  <2> DEFINE op == [kind |-> "compute", input |-> x, want |-> tensor[x],
                    output |-> a, mesh |-> MeshOf(x), kernels |-> MeshOf(x)]
  <2>2. "compute" \in OpKind
    BY <2>1 DEF AddOperator
  <2>3. op \in Operator
    BY <2>2, HeldTensor DEF Operator
  <2>4. Issued(Append(ops, op), Len(ops) + 1)
    <3>1. MeshOf(x) = ops[tensor[x]].mesh
      BY DEF MeshOf
    <3> QED BY <2>3, <3>1, HeldTensor, NewIssued
  <2> QED BY <1>a, <2>1, <2>3, <2>4
<1>3. CASE Convert
  <2>1. PICK x \in Held, a \in Addr, mesh \in Mesh :
          /\ Free(a)
          /\ mesh # MeshOf(x)
          /\ AddOperator([kind |-> "convert", input |-> x, want |-> tensor[x],
                          output |-> a, mesh |-> mesh, kernels |-> mesh \cup MeshOf(x)])
    BY <1>3 DEF Convert
  <2> DEFINE op == [kind |-> "convert", input |-> x, want |-> tensor[x],
                    output |-> a, mesh |-> mesh, kernels |-> mesh \cup MeshOf(x)]
  <2>2. "convert" \in OpKind
    BY <2>1 DEF AddOperator
  <2>3. op \in Operator
    BY <1>m, <2>2, HeldTensor DEF Operator
  <2>4. Issued(Append(ops, op), Len(ops) + 1)
    <3>1. MeshOf(x) = ops[tensor[x]].mesh
      BY DEF MeshOf
    <3> QED BY <2>1, <2>3, <3>1, HeldTensor, NewIssued
  <2> QED BY <1>a, <2>1, <2>3, <2>4
<1>4. CASE GetTensorAsync
  <2>1. PICK x \in Held :
          /\ Cardinality(MeshOf(x)) = 1
          /\ AddOperator([kind |-> "get", input |-> x, want |-> tensor[x],
                          output |-> NoAddr, mesh |-> {}, kernels |-> MeshOf(x)])
    BY <1>4 DEF GetTensorAsync
  <2> DEFINE op == [kind |-> "get", input |-> x, want |-> tensor[x],
                    output |-> NoAddr, mesh |-> {}, kernels |-> MeshOf(x)]
  <2>2. "get" \in OpKind
    BY <2>1 DEF AddOperator
  <2>3. op \in Operator
    BY <2>2, HeldTensor DEF Operator
  <2>4. Issued(Append(ops, op), Len(ops) + 1)
    <3>1. MeshOf(x) = ops[tensor[x]].mesh
      BY DEF MeshOf
    <3> QED BY <2>1, <2>3, <3>1, HeldTensor, NewIssued
  <2> QED BY <1>a, <2>1, <2>3, <2>4
<1>5. CASE SyncFuture
  <2> DEFINE op == [kind |-> "sync", input |-> NoAddr, want |-> 0,
                    output |-> NoAddr, mesh |-> {}, kernels |-> Device]
  <2>1. AddOperator(op) /\ "sync" \in OpKind
    BY <1>5 DEF SyncFuture, AddOperator
  <2>2. op \in Operator
    BY <1>m, <1>n, <2>1 DEF Operator
  <2>3. Issued(Append(ops, op), Len(ops) + 1)
    BY <2>2, NewIssued
  <2> QED BY <1>a, <2>1, <2>2, <2>3
<1> QED BY <1>1, <1>2, <1>3, <1>4, <1>5
-----------------------------------------------------------------------------
(* Types, and what they rest on *)

LEMMA Messages ==
    /\ \A i \in Id : [type |-> "addOperator", op |-> i] \in Message
    /\ \A a \in Addr : [type |-> "noHold", operand |-> a] \in Message
    /\ [type |-> "null"] \in Message
    /\ \A m \in Message : /\ m.type = "addOperator" => m.op \in Id
                          /\ m.type = "noHold" => m.operand \in Addr
                          /\ m.type \in {"addOperator", "noHold", "null"}
  BY DEF Message

LEMMA Kernels ==
    /\ NoKernel \in Kernel /\ NoKernel.op = 0 /\ 0 \notin Id
    /\ \A k \in Kernel : k # NoKernel => k.op \in Id /\ k.device \in Device /\ k.input \in 0..MaxOp
    /\ \A i \in Id, d \in Device, n \in 0..MaxOp :
         /\ [op |-> i, device |-> d, input |-> n] \in Kernel
         /\ [op |-> i, device |-> d, input |-> n] # NoKernel
<1>1. 0 \notin Id /\ NoKernel \in Kernel /\ NoKernel.op = 0
  BY DEF Id, NoKernel, Kernel
<1>2. \A k \in Kernel : k # NoKernel => k.op \in Id /\ k.device \in Device /\ k.input \in 0..MaxOp
  BY DEF Kernel
<1>3. ASSUME NEW i \in Id, NEW d \in Device, NEW n \in 0..MaxOp
      PROVE  /\ [op |-> i, device |-> d, input |-> n] \in Kernel
             /\ [op |-> i, device |-> d, input |-> n] # NoKernel
  <2>1. [op |-> i, device |-> d, input |-> n] \in Kernel
    BY DEF Kernel
  <2>2. [op |-> i, device |-> d, input |-> n].op # NoKernel.op
    BY <1>1
  <2> QED BY <2>1, <2>2
<1> QED BY <1>1, <1>2, <1>3

LEMMA QueueGrows ==
    ASSUME NEW m \in Message, queue \in Seq(Message), queue' = Append(queue, m)
    PROVE  /\ queue' \in Seq(Message) /\ queue' # <<>>
           /\ \A i : Added(i)' <=> Added(i) \/ Adds(m, i)
           /\ \A a : Announced(a)' <=> Announced(a) \/ Drops(m, a)
           /\ (\E n \in DOMAIN queue' : queue'[n].type = "null") <=>
                (\E n \in DOMAIN queue : queue[n].type = "null") \/ m.type = "null"
<1>1. /\ DOMAIN queue' = DOMAIN queue \cup {Len(queue) + 1} /\ queue'[Len(queue) + 1] = m
      /\ \A n \in DOMAIN queue : queue'[n] = queue[n]
      /\ queue' \in Seq(Message) /\ queue' # <<>>
  BY Appended
<1> QED BY <1>1 DEF Added, Announced

LEMMA QueueShrinks ==
    ASSUME queue \in Seq(Message), queue # <<>>, queue' = Tail(queue)
    PROVE  /\ queue' \in Seq(Message) /\ Head(queue) \in Message
           /\ \A i : Added(i) <=> Added(i)' \/ Adds(Head(queue), i)
           /\ \A a : Announced(a) <=> Announced(a)' \/ Drops(Head(queue), a)
           /\ (\E n \in DOMAIN queue : queue[n].type = "null") <=>
                (\E n \in DOMAIN queue' : queue'[n].type = "null") \/ Head(queue).type = "null"
<1>1. /\ queue' \in Seq(Message) /\ Head(queue) \in Message /\ 1 \in DOMAIN queue /\ Head(queue) = queue[1]
      /\ \A i \in DOMAIN queue' : i + 1 \in DOMAIN queue /\ queue'[i] = queue[i + 1]
      /\ \A i \in DOMAIN queue : i = 1 \/ (i - 1 \in DOMAIN queue' /\ queue'[i - 1] = queue[i])
  BY Removed
<1>2. ASSUME NEW i PROVE Added(i) <=> Added(i)' \/ Adds(Head(queue), i)
  <2>1. ASSUME NEW n \in DOMAIN queue, Adds(queue[n], i) PROVE Added(i)' \/ Adds(Head(queue), i)
    BY <1>1, <2>1 DEF Added
  <2>2. ASSUME NEW n \in DOMAIN queue', Adds(queue'[n], i) PROVE Added(i)
    BY <1>1, <2>2 DEF Added
  <2>3. Adds(Head(queue), i) => Added(i)
    BY <1>1 DEF Added
  <2> QED BY <2>1, <2>2, <2>3 DEF Added
<1>3. ASSUME NEW a
      PROVE  Announced(a) <=> Announced(a)' \/ Drops(Head(queue), a)
  <2>1. ASSUME NEW n \in DOMAIN queue, Drops(queue[n], a)
        PROVE  Announced(a)' \/ Drops(Head(queue), a)
    BY <1>1, <2>1 DEF Announced
  <2>2. ASSUME NEW n \in DOMAIN queue', Drops(queue'[n], a) PROVE Announced(a)
    BY <1>1, <2>2 DEF Announced
  <2> QED BY <1>1, <2>1, <2>2 DEF Announced
<1>4. (\E n \in DOMAIN queue : queue[n].type = "null") <=>
        (\E n \in DOMAIN queue' : queue'[n].type = "null") \/ Head(queue).type = "null"
  <2>1. ASSUME NEW n \in DOMAIN queue', queue'[n].type = "null" PROVE \E k \in DOMAIN queue : queue[k].type = "null"
    BY <1>1, <2>1
  <2>2. ASSUME NEW n \in DOMAIN queue, queue[n].type = "null", Head(queue).type # "null"
        PROVE  \E k \in DOMAIN queue' : queue'[k].type = "null"
    <3>1. n # 1
      BY <1>1, <2>2
    <3>2. n - 1 \in DOMAIN queue' /\ queue'[n - 1] = queue[n]
      BY <1>1, <3>1
    <3> QED BY <2>2, <3>2
  <2>3. Head(queue).type = "null" => \E k \in DOMAIN queue : queue[k].type = "null"
    BY <1>1
  <2> QED BY <2>1, <2>2, <2>3, Zenon
<1> QED BY <1>1, <1>2, <1>3, <1>4

LEMMA BaseInit == EagerInit => BaseInv
<1> SUFFICES ASSUME EagerInit PROVE BaseInv
  OBVIOUS
<1>1. \A s : s = <<>> => Elements(s) = {}
  BY DEF Elements
<1>2. EagerTypeOK
  <2>1. <<>> \in Seq(Operator) /\ <<>> \in Seq(Message) /\ <<>> \in Seq(Id) /\ <<>> \in Seq(Addr)
    OBVIOUS
  <2>2. [d \in Device |-> <<>>] \in [Device -> Seq(Kernel)] /\ [d \in Gpu |-> <<>>] \in [Gpu -> Seq(Id)]
    OBVIOUS
  <2>3. Len(<<>>) <= MaxOp /\ 0 \in 0..BatchSize /\ 0 \in 0..MaxOp /\ 0 \in Nat
    OBVIOUS
  <2>4. [d \in Device |-> NoKernel] \in [Device -> Kernel] /\ [i \in Id |-> {}] \in [Id -> SUBSET Device]
    BY Kernels
  <2> QED BY <2>1, <2>2, <2>3, <2>4 DEF EagerInit, EagerTypeOK
<1>3. OperatorInv /\ CacheInv /\ ControlInv
  BY DEF EagerInit, OperatorInv, CacheInv, ControlInv, Ids
<1>4. NullInv
  BY <1>1 DEF EagerInit, NullInv
<1>5. KnownInv
  <2>1. \A i : ~Pending(i)
    <3>1. Elements(newOps) = {} /\ queue = <<>> /\ DOMAIN <<>> = {}
      BY <1>1 DEF EagerInit
    <3> QED BY <3>1 DEF Pending, Added
  <2> QED BY <2>1 DEF KnownInv
<1> QED BY <1>2, <1>3, <1>4, <1>5 DEF BaseInv

\* What an action leaves alone.
LEMMA OperatorFrame == OperatorInv /\ UNCHANGED ops => OperatorInv'
  BY DEF OperatorInv, Ids

LEMMA CacheFrame == CacheInv /\ UNCHANGED apiVars => CacheInv'
  BY DEF CacheInv, Ids, apiVars

LEMMA KnownFrame == KnownInv /\ UNCHANGED <<ops, queue, newOps>> => KnownInv'
  BY DEF KnownInv, Ids, Pending, Added

LEMMA NullFrame == NullInv /\ UNCHANGED <<kernelQueue, unlaunched, streamPc, running, streamDestroy>> => NullInv'
  BY DEF NullInv

LEMMA BaseIssues ==
    ASSUME BaseInv, NEW op \in Operator, Issues(op)
    PROVE  BaseInv'
<1>0. EagerTypeOK /\ OperatorInv /\ CacheInv /\ KnownInv /\ ControlInv /\ NullInv
  BY DEF BaseInv
<1>1. /\ ops' = Append(ops, op) /\ Len(ops) \in Nat /\ Len(ops) < MaxOp
      /\ Len(ops) + 1 \in Id
      /\ queue' = Append(queue, [type |-> "addOperator", op |-> Len(ops) + 1])
      /\ UNCHANGED <<execVars, kernelQueue, streamVars, futureVars, endVars, aborted>>
  BY <1>0 DEF Issues, AddOperator, EagerTypeOK, Id
<1>2. /\ ops' \in Seq(Operator) /\ Len(ops') = Len(ops) + 1 /\ \A i \in Ids : ops'[i] = ops[i]
      /\ ops'[Len(ops) + 1] = op
  BY <1>0, <1>1 DEF EagerTypeOK, Ids
<1>3. /\ queue' \in Seq(Message)
      /\ \A n \in DOMAIN queue' : queue'[n].type = "null" => \E j \in DOMAIN queue : queue[j].type = "null"
      /\ \A i : Added(i)' <=> Added(i) \/ i = Len(ops) + 1
  <2> DEFINE m == [type |-> "addOperator", op |-> Len(ops) + 1]
  <2>1. queue \in Seq(Message) /\ m \in Message
    BY <1>0, <1>1, Messages DEF EagerTypeOK
  <2>2. m.type # "null" /\ \A i : Adds(m, i) <=> i = Len(ops) + 1
    BY DEF Adds
  <2>3. queue' = Append(queue, m)
    BY <1>1
  <2> HIDE DEF m
  <2> QED BY <2>1, <2>2, <2>3, QueueGrows
<1>4. /\ mOperandCaches' \in [Addr -> Nat] /\ tensor' \in [Addr -> 0..MaxOp]
      /\ \A a \in Addr : \/ mOperandCaches'[a] = mOperandCaches[a] /\ tensor'[a] = tensor[a]
                         \/ /\ mOperandCaches'[a] = 1 /\ tensor'[a] = Len(ops) + 1
                            /\ op.output = a
  <2>1. CASE op.output = NoAddr
    BY <1>0, <2>1 DEF Issues, AddOperator, EagerTypeOK
  <2>2. CASE op.output # NoAddr
    <3>1. /\ mOperandCaches' = [mOperandCaches EXCEPT ![op.output] = 1]
          /\ tensor' = [tensor EXCEPT ![op.output] = Len(ops) + 1]
      BY <2>2 DEF Issues, AddOperator
    <3>2. op.output \in Addr /\ Len(ops) + 1 \in 0..MaxOp
      BY <1>1, <2>2 DEF Operator, Id
    <3> QED BY <1>0, <3>1, <3>2 DEF EagerTypeOK
  <2> QED BY <2>1, <2>2
<1>5. EagerTypeOK'
  <2>1. Len(ops') <= MaxOp
    BY <1>1, <1>2
  <2>2. UNCHANGED <<execVars, kernelQueue, streamVars, futureVars, endVars, aborted>>
    BY <1>1
  <2> QED BY <1>0, <1>2, <1>3, <1>4, <2>1, <2>2
         DEF EagerTypeOK, execVars, streamVars, futureVars, endVars
<1>6. OperatorInv'
  <2>1. ASSUME NEW i \in Ids PROVE Issued(ops', i)
    BY <1>0, <1>1, <2>1, IssuedKept DEF OperatorInv, Ids, EagerTypeOK
  <2>2. Issued(ops', Len(ops) + 1)
    BY <1>1 DEF Issues
  <2>3. Ids' = Ids \cup {Len(ops) + 1}
    BY <1>1, <1>2 DEF Ids
  <2>4. ASSUME NEW i \in Ids' PROVE Issued(ops, i)'
    <3>1. Issued(ops', i)
      BY <2>1, <2>2, <2>3
    <3> QED BY <3>1 DEF Issued
  <2> QED BY <2>4 DEF OperatorInv
<1>7. CacheInv'
  <2>1. Ids' = Ids \cup {Len(ops) + 1} /\ Len(ops) + 1 # 0
    BY <1>1, <1>2 DEF Ids
  <2>2. ASSUME NEW a \in Addr
        PROVE  /\ tensor'[a] = 0 => mOperandCaches'[a] = 0
               /\ tensor'[a] # 0 => mOperandCaches'[a] = 1 /\ tensor'[a] \in Ids' /\ ops'[tensor'[a]].output = a
    <3>1. CASE mOperandCaches'[a] = mOperandCaches[a] /\ tensor'[a] = tensor[a]
      BY <1>0, <1>2, <2>1, <3>1 DEF CacheInv
    <3>2. CASE mOperandCaches'[a] = 1 /\ tensor'[a] = Len(ops) + 1 /\ op.output = a
      BY <1>2, <2>1, <3>2
    <3> QED BY <1>4, <3>1, <3>2
  <2> QED BY <2>2 DEF CacheInv
<1>8. ControlInv'
  BY <1>0, <1>1, <1>3 DEF ControlInv, execVars, streamVars, endVars, QueueDestroyed
<1>9. NullInv'
  BY <1>0, <1>1, NullFrame DEF execVars, streamVars, endVars
<1>10. KnownInv'
  <2>1. Ids' = Ids \cup {Len(ops) + 1} /\ newOps' = newOps
    BY <1>1, <1>2 DEF Ids, execVars
  <2> QED BY <1>0, <1>3, <2>1 DEF KnownInv, Pending
<1> QED BY <1>5, <1>6, <1>7, <1>8, <1>9, <1>10 DEF BaseInv

LEMMA BaseDecrease ==
    ASSUME BaseInv, NEW a \in Addr, ApiTensorRefCountDecrease(a)
    PROVE  BaseInv'
<1>0. EagerTypeOK /\ OperatorInv /\ CacheInv /\ KnownInv /\ ControlInv /\ NullInv
  BY DEF BaseInv
<1>1. /\ queue' = Append(queue, [type |-> "noHold", operand |-> a])
      /\ mOperandCaches' = [mOperandCaches EXCEPT ![a] = 0]
      /\ tensor' = [tensor EXCEPT ![a] = 0]
      /\ UNCHANGED <<ops, execVars, kernelQueue, streamVars, futureVars, endVars, aborted>>
  BY DEF ApiTensorRefCountDecrease
<1>2. /\ queue' \in Seq(Message)
      /\ \A n \in DOMAIN queue' : queue'[n].type = "null" => \E j \in DOMAIN queue : queue[j].type = "null"
      /\ \A i : Added(i)' <=> Added(i)
  <2> DEFINE m == [type |-> "noHold", operand |-> a]
  <2>1. queue \in Seq(Message) /\ m \in Message
    BY <1>0, Messages DEF EagerTypeOK
  <2>2. m.type # "null" /\ \A i : ~Adds(m, i)
    BY DEF Adds
  <2>3. queue' = Append(queue, m)
    BY <1>1
  <2> HIDE DEF m
  <2> QED BY <2>1, <2>2, <2>3, QueueGrows
<1>3. EagerTypeOK'
  BY <1>0, <1>1, <1>2 DEF EagerTypeOK, execVars, streamVars, futureVars, endVars
<1>4. CacheInv'
  BY <1>0, <1>1 DEF CacheInv, Ids, EagerTypeOK
<1>5. ControlInv'
  BY <1>0, <1>1, <1>2 DEF ControlInv, execVars, streamVars, endVars, QueueDestroyed
<1>6. OperatorInv' /\ NullInv'
  BY <1>0, <1>1, OperatorFrame, NullFrame DEF execVars, streamVars, endVars
<1>7. KnownInv'
  BY <1>0, <1>1, <1>2 DEF KnownInv, Pending, Ids, execVars
<1> QED BY <1>3, <1>4, <1>5, <1>6, <1>7 DEF BaseInv

\* The operator at the head of the batch is an issued one.
LEMMA NextOperator ==
    ASSUME BaseInv, newOps # <<>>
    PROVE  /\ Head(newOps) \in Ids /\ Head(newOps) \in Id /\ ops[Head(newOps)] \in Operator
           /\ Head(newOps) \in 1..MaxOp /\ Issued(ops, Head(newOps))
<1>1. newOps \in Seq(Id) /\ ops \in Seq(Operator)
  BY DEF BaseInv, EagerTypeOK
<1>2. Head(newOps) \in Id /\ Head(newOps) \in Elements(newOps)
  BY <1>1, Removed
<1>3. Head(newOps) \in Ids
  BY <1>2 DEF BaseInv, KnownInv, Pending
<1> QED BY <1>1, <1>2, <1>3 DEF BaseInv, OperatorInv, Ids, Id

LEMMA BaseMessage ==
    ASSUME BaseInv, ProcessMessage
    PROVE  BaseInv'
<1>0. EagerTypeOK /\ OperatorInv /\ CacheInv /\ KnownInv /\ ControlInv /\ NullInv
  BY DEF BaseInv
<1>1. /\ execPc = "poll" /\ queue # <<>> /\ queue' = Tail(queue) /\ queue \in Seq(Message)
      /\ UNCHANGED <<apiVars, batchOps, mOperandToBlobs, unlaunched, kernelQueue, streamVars, futureVars, endVars, aborted>>
  BY <1>0 DEF ProcessMessage, EagerTypeOK
<1>2. /\ queue' \in Seq(Message) /\ Head(queue) \in Message
      /\ \A i : Added(i) <=> Added(i)' \/ Adds(Head(queue), i)
      /\ \A n \in DOMAIN queue' : queue'[n].type = "null" => \E j \in DOMAIN queue : queue[j].type = "null"
  BY <1>1, QueueShrinks
<1>3. /\ newOps' \in Seq(Id) /\ newNoHold' \in Seq(Addr) /\ mOperandMap' \subseteq Addr
      /\ \A i \in Id : Pending(i)' => Pending(i)
  <2>1. CASE UNCHANGED <<newOps, newNoHold, mOperandMap>>
    BY <1>0, <1>2, <2>1 DEF Pending, EagerTypeOK
  <2>2. CASE /\ Head(queue).type = "addOperator"
             /\ newOps' = Append(newOps, Head(queue).op)
             /\ mOperandMap' = mOperandMap \cup ({ops[Head(queue).op].output} \ {NoAddr})
             /\ UNCHANGED newNoHold
    <3>1. Head(queue).op \in Id /\ Adds(Head(queue), Head(queue).op) /\ newOps \in Seq(Id)
      BY <1>0, <1>2, <2>2, Messages DEF Adds, EagerTypeOK
    <3>2. Pending(Head(queue).op)
      BY <1>2, <3>1 DEF Pending
    <3>3. Head(queue).op \in Ids
      BY <1>0, <3>1, <3>2 DEF KnownInv
    <3>4. ops[Head(queue).op] \in Operator
      BY <1>0, <3>3 DEF Ids, EagerTypeOK
    <3>5. newOps' \in Seq(Id) /\ Elements(newOps') = Elements(newOps) \cup {Head(queue).op}
      BY <2>2, <3>1, Appended
    <3> QED BY <1>0, <1>2, <2>2, <3>2, <3>4, <3>5 DEF Pending, Operator, EagerTypeOK
  <2>3. CASE /\ Head(queue).type = "noHold"
             /\ newNoHold' = Append(newNoHold, Head(queue).operand)
             /\ UNCHANGED <<newOps, mOperandMap>>
    <3>1. Head(queue).operand \in Addr /\ newNoHold \in Seq(Addr)
      BY <1>0, <1>2, <2>3, Messages DEF EagerTypeOK
    <3>2. newNoHold' \in Seq(Addr)
      BY <2>3, <3>1, Appended
    <3> QED BY <1>0, <1>2, <2>3, <3>2 DEF Pending, EagerTypeOK
  <2> QED BY <2>1, <2>2, <2>3 DEF ProcessMessage
<1>4. /\ execPc' \in {"poll", "execute", "exited"} /\ msgCount' \in 0..BatchSize
      /\ execPc' = "poll" => msgCount' < BatchSize /\ msgCount' # 0
      /\ execPc' = "exited" => QueueDestroyed
  <2>1. msgCount \in Nat /\ msgCount < BatchSize /\ BatchSize \in Nat
    BY <1>0, <1>1 DEF ControlInv, EagerTypeOK
  <2>2. CASE QueueDestroyed /\ execPc' = "exited" /\ UNCHANGED msgCount
    BY <2>1, <2>2
  <2>3. CASE /\ msgCount' = msgCount + 1
             /\ execPc' = IF msgCount + 1 = BatchSize THEN "execute" ELSE "poll"
    BY <2>1, <2>3
  <2> QED BY <2>2, <2>3 DEF ProcessMessage
<1>5. EagerTypeOK'
  BY <1>0, <1>1, <1>2, <1>3, <1>4 DEF EagerTypeOK, apiVars, streamVars, futureVars, endVars
<1>6. ControlInv'
  BY <1>0, <1>1, <1>2, <1>4 DEF ControlInv, streamVars, endVars, QueueDestroyed
<1>7. OperatorInv' /\ CacheInv' /\ NullInv'
  BY <1>0, <1>1, OperatorFrame, CacheFrame, NullFrame DEF apiVars, streamVars, endVars
<1>8. KnownInv'
  BY <1>0, <1>1, <1>3 DEF KnownInv, Ids, apiVars
<1> QED BY <1>5, <1>6, <1>7, <1>8 DEF BaseInv

LEMMA BaseTurns ==
    ASSUME BaseInv, NoMoreMessages \/ BeginExecute
    PROVE  BaseInv'
<1>0. EagerTypeOK /\ OperatorInv /\ CacheInv /\ KnownInv /\ ControlInv /\ NullInv
  BY DEF BaseInv
<1>1. /\ UNCHANGED <<apiVars, queue, msgCount, newOps, newNoHold, mOperandMap,
                     mOperandToBlobs, unlaunched, kernelQueue, streamVars, futureVars, endVars, aborted>>
      /\ execPc' \in {"execute", "create", "exited"}
      /\ execPc # "create"
      /\ execPc' = "exited" => destroyPc # "no"
      /\ execPc # "exited"
  BY DEF NoMoreMessages, BeginExecute
<1>2. batchOps' \subseteq Id
  <2>1. newOps \in Seq(Id) /\ batchOps \subseteq Id
    BY <1>0 DEF EagerTypeOK
  <2>2. Elements(newOps) \subseteq Id
    BY <2>1, ElementsOf
  <2> QED BY <2>1, <2>2 DEF NoMoreMessages, BeginExecute
<1>3. EagerTypeOK'
  BY <1>0, <1>1, <1>2 DEF EagerTypeOK, apiVars, streamVars, futureVars, endVars
<1>4. ControlInv'
  BY <1>0, <1>1 DEF ControlInv, streamVars, endVars, QueueDestroyed
<1>5. OperatorInv' /\ CacheInv' /\ NullInv' /\ KnownInv'
  BY <1>0, <1>1, OperatorFrame, CacheFrame, NullFrame, KnownFrame DEF apiVars, streamVars, endVars
<1> QED BY <1>3, <1>4, <1>5 DEF BaseInv

LEMMA BaseCreateKernel ==
    ASSUME BaseInv, CreateKernelForOperator
    PROVE  BaseInv'
<1>0. EagerTypeOK /\ OperatorInv /\ CacheInv /\ KnownInv /\ ControlInv /\ NullInv
  BY DEF BaseInv
<1> DEFINE i == Head(newOps)
<1>1. /\ execPc = "create" /\ newOps # <<>>
      /\ UNCHANGED <<apiVars, queue, execPc, msgCount, newNoHold, batchOps, mOperandMap,
                     kernelQueue, streamVars, futureVars, endVars>>
      /\ aborted' \in BOOLEAN
      /\ \/ UNCHANGED <<mOperandToBlobs, unlaunched, newOps>>
         \/ /\ mOperandToBlobs' = [a \in Addr |-> IF a = ops[i].output THEN i ELSE mOperandToBlobs[a]]
            /\ CreateKernels(i, InputBlobs(ops[i]))
            /\ newOps' = Tail(newOps)
  BY <1>0 DEF CreateKernelForOperator, Abort, execVars, EagerTypeOK
<1>2. /\ i \in Id /\ i \in 1..MaxOp /\ ops[i] \in Operator
  BY <1>1, NextOperator
<1>3. InputBlobs(ops[i]) \in 0..MaxOp
  BY <1>0, <1>2 DEF InputBlobs, Operator, EagerTypeOK
<1> HIDE DEF i
<1>4. /\ newOps' \in Seq(Id) /\ mOperandToBlobs' \in [Addr -> 0..MaxOp]
      /\ unlaunched' \in [Device -> Seq(Kernel)]
      /\ \A n \in Elements(newOps') : n \in Elements(newOps)
      /\ \A d \in Device : NoKernel \notin Elements(unlaunched'[d])
  <2>1. CASE UNCHANGED <<mOperandToBlobs, unlaunched, newOps>>
    BY <1>0, <2>1 DEF EagerTypeOK, NullInv
  <2>2. CASE /\ mOperandToBlobs' = [a \in Addr |-> IF a = ops[i].output THEN i ELSE mOperandToBlobs[a]]
             /\ CreateKernels(i, InputBlobs(ops[i]))
             /\ newOps' = Tail(newOps)
    <3>1. newOps \in Seq(Id) /\ newOps' \in Seq(Id) /\ \A n \in Elements(newOps') : n \in Elements(newOps)
      <4>1. newOps \in Seq(Id)
        BY <1>0 DEF EagerTypeOK
      <4> QED BY <1>1, <2>2, <4>1, Removed
    <3>2. mOperandToBlobs' \in [Addr -> 0..MaxOp]
      BY <1>0, <1>2, <2>2 DEF EagerTypeOK
    <3>3. ASSUME NEW d \in Device
          PROVE  LET s == IF d \in ops[i].kernels
                          THEN Append(unlaunched[d], [op |-> i, device |-> d, input |-> InputBlobs(ops[i])])
                          ELSE unlaunched[d]
                 IN  s \in Seq(Kernel) /\ NoKernel \notin Elements(s)
      <4> DEFINE k == [op |-> i, device |-> d, input |-> InputBlobs(ops[i])]
      <4>1. k \in Kernel /\ k # NoKernel
        BY <1>2, <1>3, Kernels
      <4> HIDE DEF k
      <4>2. unlaunched[d] \in Seq(Kernel) /\ NoKernel \notin Elements(unlaunched[d])
        BY <1>0 DEF EagerTypeOK, NullInv
      <4>3. Append(unlaunched[d], k) \in Seq(Kernel) /\ NoKernel \notin Elements(Append(unlaunched[d], k))
        BY <4>1, <4>2, Appended
      <4> QED BY <4>2, <4>3 DEF k
    <3>4. /\ unlaunched' \in [Device -> Seq(Kernel)]
          /\ \A d \in Device : NoKernel \notin Elements(unlaunched'[d])
      BY <2>2, <3>3 DEF CreateKernels
    <3> QED BY <3>1, <3>2, <3>4
  <2> QED BY <1>1, <2>1, <2>2
<1>5. EagerTypeOK'
  BY <1>0, <1>1, <1>4 DEF EagerTypeOK, apiVars, streamVars, futureVars, endVars
<1>6. ControlInv'
  BY <1>0, <1>1 DEF ControlInv, streamVars, endVars, QueueDestroyed
<1>7. OperatorInv' /\ CacheInv'
  BY <1>0, <1>1, OperatorFrame, CacheFrame DEF apiVars
<1>8. KnownInv'
  BY <1>0, <1>1, <1>4 DEF KnownInv, Pending, Added, Ids, apiVars
<1>9. NullInv'
  BY <1>0, <1>1, <1>4 DEF NullInv, streamVars, endVars
<1> QED BY <1>5, <1>6, <1>7, <1>8, <1>9 DEF BaseInv

LEMMA BaseFinish ==
    ASSUME BaseInv, FinishBatch
    PROVE  BaseInv'
<1>0. EagerTypeOK /\ OperatorInv /\ CacheInv /\ KnownInv /\ ControlInv /\ NullInv
  BY DEF BaseInv
<1>1. CASE Abort
  <2>1. EagerTypeOK' /\ ControlInv'
    BY <1>0, <1>1 DEF Abort, EagerTypeOK, ControlInv, QueueDestroyed, apiVars, execVars, streamVars, futureVars, endVars
  <2>2. OperatorInv' /\ CacheInv' /\ NullInv' /\ KnownInv'
    BY <1>0, <1>1, OperatorFrame, CacheFrame, NullFrame, KnownFrame
       DEF Abort, apiVars, execVars, streamVars, endVars
  <2> QED BY <2>1, <2>2 DEF BaseInv
<1>2. CASE ~Abort
  <2>1. /\ execPc = "create" /\ newOps = <<>>
        /\ mOperandToBlobs' = [a \in Addr |-> IF a \in Elements(newNoHold) THEN 0 ELSE mOperandToBlobs[a]]
        /\ kernelQueue' = [d \in Device |-> kernelQueue[d] \o unlaunched[d]]
        /\ unlaunched' = [d \in Device |-> <<>>]
        /\ mOperandMap' = mOperandMap \ Elements(newNoHold)
        /\ execPc' = "poll" /\ batchOps' = {} /\ newNoHold' = <<>> /\ msgCount' = 0
        /\ UNCHANGED <<apiVars, queue, newOps, streamVars, futureVars, endVars, aborted>>
    BY <1>2 DEF FinishBatch, DeleteBlobs, LaunchKernels, NextBatch
  <2>2. \A d \in Device : /\ kernelQueue[d] \o unlaunched[d] \in Seq(Kernel)
                          /\ NoKernel \in Elements(kernelQueue[d] \o unlaunched[d]) => streamDestroy[d]
    <3>1. TAKE d \in Device
    <3>2. kernelQueue[d] \in Seq(Kernel) /\ unlaunched[d] \in Seq(Kernel)
      BY <1>0 DEF EagerTypeOK
    <3> QED BY <1>0, <3>2, Joined DEF NullInv
  <2>3. kernelQueue' \in [Device -> Seq(Kernel)] /\ unlaunched' \in [Device -> Seq(Kernel)]
    BY <2>1, <2>2
  <2>4. mOperandToBlobs' \in [Addr -> 0..MaxOp]
    BY <1>0, <2>1 DEF EagerTypeOK
  <2>5. newNoHold' \in Seq(Addr) /\ msgCount' \in 0..BatchSize /\ mOperandMap' \subseteq Addr
    BY <1>0, <2>1 DEF EagerTypeOK
  <2>6. EagerTypeOK'
    BY <1>0, <2>1, <2>3, <2>4, <2>5 DEF EagerTypeOK, apiVars, streamVars, futureVars, endVars
  <2>7. ControlInv'
    BY <1>0, <2>1 DEF ControlInv, streamVars, endVars, QueueDestroyed
  <2>8. OperatorInv' /\ CacheInv' /\ KnownInv'
    BY <1>0, <2>1, OperatorFrame, CacheFrame, KnownFrame DEF apiVars
  <2>9. NullInv'
    <3>1. \A d \in Device : unlaunched'[d] = <<>> /\ Elements(<<>>) = {}
      BY <2>1 DEF Elements
    <3>2. \A d \in Device : kernelQueue'[d] = kernelQueue[d] \o unlaunched[d]
      BY <2>1
    <3> QED BY <1>0, <2>1, <2>2, <3>1, <3>2 DEF NullInv, streamVars, endVars
  <2> QED BY <2>6, <2>7, <2>8, <2>9 DEF BaseInv
<1> QED BY <1>1, <1>2

\* The kernel a stream runs is one of an operator.
LEMMA RunningKernel ==
    ASSUME BaseInv, NEW d \in Device, streamPc[d] \in {"run", "inStore"}
    PROVE  running[d] \in Kernel /\ running[d].op \in Id
  BY Kernels DEF BaseInv, EagerTypeOK, NullInv

LEMMA BaseStream ==
    ASSUME BaseInv, NEW d \in Device, StreamStep(d)
    PROVE  BaseInv'
<1>0. EagerTypeOK /\ OperatorInv /\ CacheInv /\ KnownInv /\ ControlInv /\ NullInv
  BY DEF BaseInv
<1>1. UNCHANGED <<apiVars, queue, execVars, endVars, aborted>>
  BY DEF StreamStep, TakeKernel, EnterTensorStore, Run
<1>2. OperatorInv' /\ CacheInv' /\ KnownInv'
  BY <1>0, <1>1, OperatorFrame, CacheFrame, KnownFrame DEF apiVars, execVars
<1>3. CASE TakeKernel(d)
  <2>1. /\ streamPc[d] = "loop" /\ kernelQueue[d] # <<>>
        /\ kernelQueue' = [kernelQueue EXCEPT ![d] = Tail(kernelQueue[d])]
        /\ \/ /\ streamDestroy[d] /\ streamPc' = [streamPc EXCEPT ![d] = "exited"] /\ UNCHANGED running
           \/ /\ ~streamDestroy[d] /\ running' = [running EXCEPT ![d] = Head(kernelQueue[d])]
              /\ streamPc' = [streamPc EXCEPT ![d] = "run"]
        /\ UNCHANGED <<arrived, ran, onDevice, futureVars>>
    BY <1>3 DEF TakeKernel
  <2>2. /\ kernelQueue[d] \in Seq(Kernel) /\ Tail(kernelQueue[d]) \in Seq(Kernel) /\ Head(kernelQueue[d]) \in Kernel
        /\ Elements(kernelQueue[d]) = {Head(kernelQueue[d])} \cup Elements(Tail(kernelQueue[d]))
    <3>1. kernelQueue[d] \in Seq(Kernel)
      BY <1>0 DEF EagerTypeOK
    <3> QED BY <2>1, <3>1, Removed
  <2>3. kernelQueue' \in [Device -> Seq(Kernel)]
    BY <1>0, <2>1, <2>2 DEF EagerTypeOK
  <2>4. running' \in [Device -> Kernel] /\ streamPc' \in [Device -> {"loop", "run", "inStore", "exited"}]
    <3>1. running' \in [Device -> Kernel]
      BY <1>0, <2>1, <2>2 DEF EagerTypeOK
    <3>2. streamPc' \in [Device -> {"loop", "run", "inStore", "exited"}]
      BY <1>0, <2>1 DEF EagerTypeOK
    <3> QED BY <3>1, <3>2
  <2>5. EagerTypeOK'
    BY <1>0, <1>1, <2>1, <2>3, <2>4 DEF EagerTypeOK, apiVars, execVars, futureVars, endVars
  <2>6. \A e \in Device : streamPc'[e] = "exited" => streamDestroy[e]
    BY <1>0, <2>1 DEF EagerTypeOK, ControlInv
  <2>7. ControlInv'
    BY <1>0, <1>1, <2>6 DEF ControlInv, QueueDestroyed, execVars, endVars
  <2>8. ASSUME NEW e \in Device
        PROVE  /\ NoKernel \in Elements(kernelQueue'[e]) => streamDestroy[e]
               /\ streamPc'[e] \in {"run", "inStore"} => running'[e] # NoKernel
    <3>1. CASE e = d
      <4>1. kernelQueue'[e] = Tail(kernelQueue[d])
        BY <1>0, <2>1, <3>1 DEF EagerTypeOK
      <4>2. streamPc'[e] \in {"run", "inStore"} => ~streamDestroy[d] /\ running'[e] = Head(kernelQueue[d])
        BY <1>0, <2>1, <3>1 DEF EagerTypeOK
      <4> QED BY <1>0, <2>2, <3>1, <4>1, <4>2 DEF NullInv
    <3>2. CASE e # d
      BY <1>0, <2>1, <3>2 DEF EagerTypeOK, NullInv
    <3> QED BY <3>1, <3>2
  <2>9. NullInv'
    BY <1>0, <1>1, <2>8 DEF NullInv, execVars, endVars
  <2> QED BY <1>2, <2>5, <2>7, <2>9 DEF BaseInv
<1>4. CASE EnterTensorStore(d)
  <2>1. /\ streamPc[d] = "run"
        /\ streamPc' = [streamPc EXCEPT ![d] = "inStore"]
        /\ arrived' = [arrived EXCEPT ![running[d].op] = arrived[running[d].op] \cup {d}]
        /\ UNCHANGED <<kernelQueue, running, ran, onDevice, futureVars>>
    BY <1>4 DEF EnterTensorStore
  <2>2. arrived' \in [Id -> SUBSET Device] /\ streamPc' \in [Device -> {"loop", "run", "inStore", "exited"}]
    BY <1>0, <2>1 DEF EagerTypeOK
  <2>3. EagerTypeOK'
    BY <1>0, <1>1, <2>1, <2>2 DEF EagerTypeOK, apiVars, execVars, futureVars, endVars
  <2>4. ControlInv' /\ NullInv'
    BY <1>0, <1>1, <2>1 DEF EagerTypeOK, ControlInv, NullInv, QueueDestroyed, execVars, endVars
  <2> QED BY <1>2, <2>3, <2>4 DEF BaseInv
<1>5. CASE Run(d)
  <2> DEFINE i == running[d].op
  <2>1. /\ streamPc[d] \in {"run", "inStore"}
        /\ ran' = ran \cup {<<i, d>>}
        /\ \/ HandsOver(i) /\ SetPromise(d, i) /\ UNCHANGED onDevice
           \/ ~HandsOver(i) /\ d \in Gpu /\ onDevice' = [onDevice EXCEPT ![d] = Append(onDevice[d], i)] /\ UNCHANGED futureVars
           \/ ~HandsOver(i) /\ d \notin Gpu /\ UNCHANGED <<onDevice, futureVars>>
        /\ running' = [running EXCEPT ![d] = NoKernel]
        /\ streamPc' = [streamPc EXCEPT ![d] = "loop"]
        /\ UNCHANGED <<kernelQueue, arrived>>
    BY <1>5 DEF Run
  <2>2. i \in Id
    BY <2>1, RunningKernel
  <2> HIDE DEF i
  <2>3. ran' \subseteq Id \X Device
    BY <1>0, <2>1, <2>2 DEF EagerTypeOK
  <2>4. onDevice' \in [Gpu -> Seq(Id)]
    <3>1. d \in Gpu => Append(onDevice[d], i) \in Seq(Id)
      BY <1>0, <2>2 DEF EagerTypeOK
    <3> QED BY <1>0, <2>1, <3>1 DEF EagerTypeOK
  <2>5. posted' \subseteq [op : Id, device : Gpu, event : SUBSET Id] /\ ready' \subseteq Id \X Device
    <3>1. CASE SetPromise(d, i)
      <4>1. ASSUME d \in Gpu PROVE [op |-> i, device |-> d, event |-> Elements(onDevice[d])] \in [op : Id, device : Gpu, event : SUBSET Id]
        <5>1. onDevice[d] \in Seq(Id)
          BY <1>0, <4>1 DEF EagerTypeOK
        <5> QED BY <2>2, <4>1, <5>1, ElementsOf
      <4> QED BY <1>0, <2>2, <3>1, <4>1 DEF SetPromise, EagerTypeOK
    <3>2. CASE UNCHANGED futureVars
      BY <1>0, <3>2 DEF EagerTypeOK, futureVars
    <3> QED BY <2>1, <3>1, <3>2 DEF futureVars
  <2>6. running' \in [Device -> Kernel] /\ streamPc' \in [Device -> {"loop", "run", "inStore", "exited"}]
    BY <1>0, <2>1, Kernels DEF EagerTypeOK
  <2>7. EagerTypeOK'
    BY <1>0, <1>1, <2>1, <2>3, <2>4, <2>5, <2>6 DEF EagerTypeOK, apiVars, execVars, endVars
  <2>8. ControlInv' /\ NullInv'
    BY <1>0, <1>1, <2>1 DEF EagerTypeOK, ControlInv, NullInv, QueueDestroyed, execVars, endVars
  <2> QED BY <1>2, <2>7, <2>8 DEF BaseInv
<1> QED BY <1>3, <1>4, <1>5 DEF StreamStep

LEMMA BaseDevice ==
    ASSUME BaseInv, (\E d \in Gpu : GpuCompletes(d)) \/ (\E p \in posted : PoolSetsValue(p))
    PROVE  BaseInv'
<1>0. EagerTypeOK /\ OperatorInv /\ CacheInv /\ KnownInv /\ ControlInv /\ NullInv
  BY DEF BaseInv
<1>1. /\ UNCHANGED <<apiVars, queue, execVars, kernelQueue, running, streamPc, arrived, ran, endVars, aborted>>
      /\ onDevice' \in [Gpu -> Seq(Id)]
      /\ posted' \subseteq posted
      /\ ready' \subseteq Id \X Device
  <2>1. ASSUME NEW d \in Gpu, GpuCompletes(d) PROVE <1>1!:
    <3>1. onDevice[d] \in Seq(Id) /\ onDevice[d] # <<>>
      BY <1>0, <2>1 DEF EagerTypeOK, GpuCompletes
    <3>2. Tail(onDevice[d]) \in Seq(Id)
      BY <3>1
    <3> QED BY <1>0, <2>1, <3>2 DEF GpuCompletes, EagerTypeOK, futureVars
  <2>2. ASSUME NEW p \in posted, PoolSetsValue(p) PROVE <1>1!:
    BY <1>0, <2>2 DEF PoolSetsValue, EagerTypeOK, streamVars
  <2> QED BY <2>1, <2>2
<1>2. EagerTypeOK'
  BY <1>0, <1>1 DEF EagerTypeOK, apiVars, execVars, endVars
<1>3. ControlInv'
  BY <1>0, <1>1 DEF ControlInv, QueueDestroyed, execVars, endVars
<1>4. OperatorInv' /\ CacheInv' /\ KnownInv' /\ NullInv'
  BY <1>0, <1>1, OperatorFrame, CacheFrame, KnownFrame, NullFrame DEF apiVars, execVars, endVars
<1> QED BY <1>2, <1>3, <1>4 DEF BaseInv

LEMMA BaseStutter == BaseInv /\ UNCHANGED eagerVars => BaseInv'
<1> SUFFICES ASSUME BaseInv, UNCHANGED eagerVars PROVE BaseInv'
  OBVIOUS
<1>1. EagerTypeOK' /\ ControlInv'
  BY DEF BaseInv, EagerTypeOK, ControlInv, QueueDestroyed, eagerVars, apiVars, execVars, streamVars, futureVars, endVars
<1>2. OperatorInv' /\ CacheInv' /\ NullInv' /\ KnownInv'
  BY OperatorFrame, CacheFrame, NullFrame, KnownFrame DEF BaseInv, eagerVars, apiVars, execVars, streamVars, endVars
<1> QED BY <1>1, <1>2 DEF BaseInv

LEMMA BaseDestroy ==
    ASSUME BaseInv, SignalDestroy \/ DestroyStep \/ Idle
    PROVE  BaseInv'
<1>0. EagerTypeOK /\ OperatorInv /\ CacheInv /\ KnownInv /\ ControlInv /\ NullInv
  BY DEF BaseInv
<1>1. CASE SignalDestroy
  <2>1. EagerTypeOK' /\ ControlInv'
    BY <1>0, <1>1
       DEF SignalDestroy, EagerTypeOK, ControlInv, QueueDestroyed, apiVars, execVars, streamVars, futureVars
  <2>2. OperatorInv' /\ CacheInv' /\ NullInv' /\ KnownInv'
    BY <1>0, <1>1, OperatorFrame, CacheFrame, NullFrame, KnownFrame
       DEF SignalDestroy, apiVars, execVars, streamVars
  <2> QED BY <2>1, <2>2 DEF BaseInv
<1>2. CASE DestroyQueue
  <2> DEFINE m == [type |-> "null"]
  <2>1. m \in Message /\ m.type = "null" /\ \A i : ~Adds(m, i)
    BY Messages DEF Adds
  <2>2. queue \in Seq(Message) /\ queue' = Append(queue, m)
    BY <1>0, <1>2 DEF DestroyQueue, EagerTypeOK
  <2> HIDE DEF m
  <2>3. queue' \in Seq(Message) /\ \A i : Added(i)' <=> Added(i)
    BY <2>1, <2>2, QueueGrows
  <2>4. /\ destroyPc = "signal" /\ destroyPc' = "join"
        /\ UNCHANGED <<apiVars, execVars, kernelQueue, streamVars, futureVars, streamDestroy, aborted>>
    BY <1>2 DEF DestroyQueue
  <2>5. EagerTypeOK'
    BY <1>0, <2>3, <2>4 DEF EagerTypeOK, apiVars, execVars, streamVars, futureVars
  <2>6. ControlInv'
    BY <1>0, <2>4 DEF ControlInv, QueueDestroyed, execVars, streamVars
  <2>7. OperatorInv' /\ CacheInv' /\ NullInv'
    BY <1>0, <2>4, OperatorFrame, CacheFrame, NullFrame DEF apiVars, execVars, streamVars
  <2>8. KnownInv'
    BY <1>0, <2>3, <2>4 DEF KnownInv, Pending, Ids, apiVars, execVars
  <2> QED BY <2>5, <2>6, <2>7, <2>8 DEF BaseInv
<1>3. CASE JoinExecutor
  <2>1. EagerTypeOK' /\ ControlInv'
    BY <1>0, <1>3
       DEF JoinExecutor, EagerTypeOK, ControlInv, QueueDestroyed, apiVars, execVars, streamVars, futureVars
  <2>2. OperatorInv' /\ CacheInv' /\ NullInv' /\ KnownInv'
    BY <1>0, <1>3, OperatorFrame, CacheFrame, NullFrame, KnownFrame
       DEF JoinExecutor, apiVars, execVars, streamVars
  <2> QED BY <2>1, <2>2 DEF BaseInv
<1>4. CASE DestroyReturns
  <2>1. /\ destroyPc = "streams" /\ destroyPc' = "gone"
        /\ queue' = <<>> /\ newOps' = <<>> /\ newNoHold' = <<>>
        /\ kernelQueue' = [d \in Device |-> <<>>]
        /\ mOperandMap' = {} /\ mOperandToBlobs' = [a \in Addr |-> 0]
        /\ UNCHANGED <<apiVars, execPc, msgCount, batchOps, unlaunched, streamVars, futureVars, streamDestroy, aborted>>
    BY <1>4 DEF DestroyReturns
  <2>2. /\ queue' \in Seq(Message) /\ newOps' \in Seq(Id) /\ newNoHold' \in Seq(Addr)
        /\ kernelQueue' \in [Device -> Seq(Kernel)] /\ mOperandToBlobs' \in [Addr -> 0..MaxOp]
    <3>1. <<>> \in Seq(Kernel) /\ 0 \in 0..MaxOp
      OBVIOUS
    <3> QED BY <2>1, <3>1
  <2>3. EagerTypeOK'
    BY <1>0, <2>1, <2>2 DEF EagerTypeOK, apiVars, streamVars, futureVars
  <2>4. ControlInv'
    BY <1>0, <2>1 DEF ControlInv, QueueDestroyed, streamVars
  <2>5. OperatorInv' /\ CacheInv'
    BY <1>0, <2>1, OperatorFrame, CacheFrame DEF apiVars
  <2>6. Elements(<<>>) = {} /\ DOMAIN <<>> = {}
    BY DEF Elements
  <2>7. KnownInv'
    BY <2>1, <2>6 DEF KnownInv, Pending, Added
  <2>8. \A d \in Device : kernelQueue'[d] = <<>>
    BY <2>1
  <2>9. NullInv'
    BY <1>0, <2>1, <2>6, <2>8 DEF NullInv, streamVars
  <2> QED BY <2>3, <2>4, <2>5, <2>7, <2>9 DEF BaseInv
<1>5. CASE \E d \in Device : DestroyStream(d)
  <2>1. PICK d \in Device : DestroyStream(d)
    BY <1>5
  <2>2. /\ destroyPc = "streams"
        /\ streamDestroy' = [streamDestroy EXCEPT ![d] = TRUE]
        /\ kernelQueue' = [kernelQueue EXCEPT ![d] = Append(kernelQueue[d], NoKernel)]
        /\ UNCHANGED <<apiVars, queue, execVars, streamVars, futureVars, destroyPc, aborted>>
    BY <2>1 DEF DestroyStream
  <2>3. /\ kernelQueue[d] \in Seq(Kernel) /\ Append(kernelQueue[d], NoKernel) \in Seq(Kernel)
    BY <1>0, Kernels DEF EagerTypeOK
  <2>4. kernelQueue' \in [Device -> Seq(Kernel)] /\ streamDestroy' \in [Device -> BOOLEAN]
    BY <1>0, <2>2, <2>3 DEF EagerTypeOK
  <2>5. EagerTypeOK'
    BY <1>0, <2>2, <2>4 DEF EagerTypeOK, apiVars, execVars, streamVars, futureVars
  <2>6. \A e \in Device : streamDestroy[e] => streamDestroy'[e]
    BY <1>0, <2>2 DEF EagerTypeOK
  <2>7. ControlInv'
    BY <1>0, <2>2, <2>6 DEF ControlInv, QueueDestroyed, execVars, streamVars
  <2>8. OperatorInv' /\ CacheInv' /\ KnownInv'
    BY <1>0, <2>2, OperatorFrame, CacheFrame, KnownFrame DEF apiVars, execVars
  <2>9. \A e \in Device : NoKernel \in Elements(kernelQueue'[e]) => streamDestroy'[e]
    BY <1>0, <2>2 DEF EagerTypeOK, NullInv
  <2>10. NullInv'
    BY <1>0, <2>2, <2>9 DEF NullInv, execVars, streamVars
  <2> QED BY <2>5, <2>7, <2>8, <2>10 DEF BaseInv
<1>6. CASE Idle
  BY <1>0, <1>6, BaseStutter DEF Idle
<1> QED BY <1>1, <1>2, <1>3, <1>4, <1>5, <1>6 DEF DestroyStep

LEMMA BaseStep ==
    ASSUME BaseInv, [EagerNext]_eagerVars
    PROVE  BaseInv'
<1>1. CASE Create \/ Compute \/ Convert \/ GetTensorAsync \/ SyncFuture
  BY <1>1, ApiIssues, BaseIssues
<1>2. CASE \E a \in Addr : ApiTensorRefCountDecrease(a)
  BY <1>2, BaseDecrease
<1>3. CASE ExecutorStep
  BY <1>3, BaseMessage, BaseTurns, BaseCreateKernel, BaseFinish DEF ExecutorStep
<1>4. CASE \E d \in Device : StreamStep(d)
  BY <1>4, BaseStream
<1>5. CASE (\E d \in Gpu : GpuCompletes(d)) \/ (\E p \in posted : PoolSetsValue(p))
  BY <1>5, BaseDevice
<1>6. CASE SignalDestroy \/ DestroyStep \/ Idle
  BY <1>6, BaseDestroy
<1>7. CASE UNCHANGED eagerVars
  BY <1>7, BaseStutter
<1> QED BY <1>1, <1>2, <1>3, <1>4, <1>5, <1>6, <1>7 DEF EagerNext, Api

\* Every state has the declared types: no message, kernel or promise ever names
\* an operator that was not issued or a device it is not for.
THEOREM EagerTypes == EagerSpec => []EagerTypeOK
<1>1. BaseInv /\ [EagerNext]_eagerVars => BaseInv'
  BY BaseStep
<1>2. BaseInv => EagerTypeOK
  BY DEF BaseInv
<1> QED BY BaseInit, <1>1, <1>2, PTL DEF EagerSpec
-----------------------------------------------------------------------------
(* Operators and operands *)

\* What the books of the graph are kept in.
graphVars == <<ops, tensor, queue, newOps, newNoHold, mOperandMap, mOperandToBlobs>>

LEMMA BooksFrame == BooksInv /\ UNCHANGED graphVars => BooksInv'
<1> SUFFICES ASSUME BooksInv, UNCHANGED graphVars PROVE BooksInv'
  OBVIOUS
<1>1. Ids' = Ids /\ ops' = ops /\ tensor' = tensor /\ queue' = queue /\ newOps' = newOps
      /\ newNoHold' = newNoHold /\ mOperandMap' = mOperandMap /\ mOperandToBlobs' = mOperandToBlobs
  BY DEF graphVars, Ids
<1>2. /\ \A i : Added(i)' <=> Added(i)
      /\ \A i : Pending(i)' <=> Pending(i)
      /\ \A i : Alive(i)' <=> Alive(i)
      /\ \A a : Announced(a)' <=> Announced(a)
      /\ \A a : Dropped(a)' <=> Dropped(a)
  BY <1>1 DEF Added, Pending, Alive, Announced, Dropped
<1>3. OrderInv'
  BY <1>1, <1>2 DEF BooksInv, OrderInv
<1>4. OwnerInv'
  BY <1>1, <1>2 DEF BooksInv, OwnerInv
<1>5. UserInv'
  BY <1>1, <1>2 DEF BooksInv, UserInv
<1>6. NoHoldInv'
  BY <1>1, <1>2 DEF BooksInv, NoHoldInv
<1> QED BY <1>3, <1>4, <1>5, <1>6 DEF BooksInv

\* Nothing is left of an operand at an address the allocator may return.
LEMMA FreeAddress ==
    ASSUME BaseInv, BooksInv, NEW a \in Addr, Free(a)
    PROVE  /\ tensor[a] = 0 /\ mOperandToBlobs[a] = 0 /\ ~Dropped(a)
           /\ \A i \in Ids : Alive(i) => ops[i].output # a
           /\ \A i \in Ids : Pending(i) => ops[i].input # a
<1>1. tensor[a] = 0
  BY DEF Free, BaseInv, CacheInv
<1>2. mOperandToBlobs[a] = 0
  BY DEF Free, BooksInv, OwnerInv
<1>3. ASSUME NEW i \in Ids, Pending(i) PROVE ops[i].output # a /\ ops[i].input # a
  <2>1. i # 0
    BY DEF Ids
  <2>2. i \in LiveOps
    <3>1. CASE i \in Elements(newOps)
      BY <3>1 DEF LiveOps
    <3>2. CASE Added(i)
      <4>1. PICK n \in DOMAIN queue : Adds(queue[n], i)
        BY <3>2 DEF Added
      <4>2. queue[n] \in Elements(queue)
        BY ElementsOf DEF BaseInv, EagerTypeOK
      <4>3. i \in {m.op : m \in {x \in Elements(queue) : x.type = "addOperator"}}
        BY <4>1, <4>2 DEF Adds
      <4> QED BY <4>3 DEF LiveOps
    <3> QED BY <1>3, <3>1, <3>2 DEF Pending
  <2> QED BY <2>1, <2>2 DEF Free
<1>4. ASSUME NEW i \in Ids, Alive(i) PROVE ops[i].output # a
  <2>1. i # 0
    BY DEF Ids
  <2> QED BY <1>2, <1>3, <1>4, <2>1 DEF Alive
<1>5. ~Dropped(a)
  BY <1>4 DEF BooksInv, NoHoldInv
<1> QED BY <1>1, <1>2, <1>3, <1>4, <1>5

LEMMA BooksIssues ==
    ASSUME BaseInv, BooksInv, NEW op \in Operator, Issues(op)
    PROVE  BooksInv'
<1>0. PICK n \in Id : n = Len(ops) + 1
  BY DEF BaseInv, EagerTypeOK, Issues, Id
<1> DEFINE m == [type |-> "addOperator", op |-> n]
<1>1. /\ Len(ops) \in Nat /\ n \in Id /\ n \notin Ids
      /\ ops' = Append(ops, op) /\ queue' = Append(queue, m)
      /\ UNCHANGED <<newOps, newNoHold, mOperandMap, mOperandToBlobs>>
      /\ ops \in Seq(Operator) /\ queue \in Seq(Message) /\ m \in Message
      /\ Ids \subseteq Id /\ newOps \in Seq(Id) /\ newNoHold \in Seq(Addr)
  <2>1. Len(ops) \in Nat /\ n \in Id /\ n \notin Ids /\ Ids \subseteq Id
    BY <1>0 DEF BaseInv, EagerTypeOK, Issues, Id, Ids
  <2> QED BY <1>0, <2>1, Messages DEF BaseInv, EagerTypeOK, Issues, AddOperator, execVars
<1>2. /\ Ids' = Ids \cup {n} /\ ops'[n] = op /\ \A i \in Ids : ops'[i] = ops[i] /\ i < n
  <2>1. Len(ops') = Len(ops) + 1 /\ ops'[n] = op /\ \A i \in 1..Len(ops) : ops'[i] = ops[i] /\ i < n
    BY <1>0, <1>1
  <2> QED BY <1>0, <1>1, <2>1 DEF Ids
<1>3. m.type = "addOperator" /\ m.op = n /\ (\A i : Adds(m, i) <=> i = n) /\ \A a : ~Drops(m, a)
  BY DEF Adds, Drops
<1> HIDE DEF m
<1>4. /\ DOMAIN queue' = DOMAIN queue \cup {Len(queue) + 1} /\ queue'[Len(queue) + 1] = m
      /\ \A p \in DOMAIN queue : queue'[p] = queue[p] /\ p < Len(queue) + 1
  BY <1>1, Appended
<1>5. Len(queue) \in Nat /\ \A p \in DOMAIN queue : p \in Nat
  BY <1>1
<1>6. \A i : Added(i)' <=> Added(i) \/ i = n
  BY <1>1, <1>3, QueueGrows
<1>7. /\ \A a : Announced(a)' <=> Announced(a)
      /\ \A a : Dropped(a)' <=> Dropped(a)
  <2>1. \A a : Announced(a)' <=> Announced(a)
    BY <1>1, <1>3, QueueGrows
  <2> QED BY <1>1, <2>1 DEF Dropped
<1>8. /\ \A i : Pending(i)' <=> Pending(i) \/ i = n
      /\ \A i \in Id : Pending(i) => i \in Ids
  BY <1>1, <1>6 DEF Pending, BaseInv, KnownInv
<1>9. Alive(n)' /\ \A i \in Ids : Alive(i)' <=> Alive(i)
  <2>1. Alive(n)'
    BY <1>8 DEF Alive
  <2>2. ASSUME NEW i \in Ids PROVE Alive(i)' <=> Alive(i)
    <3>1. (Pending(i)' <=> Pending(i)) /\ ops'[i] = ops[i] /\ mOperandToBlobs' = mOperandToBlobs
      BY <1>1, <1>2, <1>8
    <3> QED BY <3>1 DEF Alive
  <2> QED BY <2>1, <2>2
<1>10. /\ op.output # NoAddr => op.output \in Addr /\ Free(op.output)
       /\ \A a \in Addr : tensor'[a] = IF a = op.output THEN n ELSE tensor[a]
  <2>1. op.output # NoAddr => op.output \in Addr
    BY DEF Operator
  <2> QED BY <1>0, <2>1 DEF Issues, AddOperator, BaseInv, EagerTypeOK
<1>11. op.output # NoAddr =>
         /\ tensor[op.output] = 0 /\ mOperandToBlobs[op.output] = 0 /\ ~Dropped(op.output)
         /\ \A i \in Ids : Alive(i) => ops[i].output # op.output
  BY <1>10, FreeAddress
<1>12. op.want # 0 => op.want \in Ids /\ op.input \in Addr /\ tensor[op.input] = op.want
  BY <1>0, <1>1, <1>2 DEF Issues, Issued, Ids
<1>13. op.want = 0 => op.input = NoAddr
  BY <1>0, <1>1, <1>2 DEF Issues, Issued
<1>14. \A p \in DOMAIN newOps : newOps[p] \in Elements(newOps) /\ newOps[p] \in Id
  BY <1>1, ElementsOf
<1>20. OrderInv'
  <2>1. ASSUME NEW p \in DOMAIN queue', NEW q \in DOMAIN queue', NEW i \in Id, NEW j \in Id,
               p < q, Adds(queue'[p], i), Adds(queue'[q], j)
        PROVE  i < j
    <3>1. p \in DOMAIN queue /\ queue'[p] = queue[p]
      BY <1>4, <1>5, <2>1
    <3>2. Added(i)
      BY <2>1, <3>1 DEF Added
    <3>3. CASE q \in DOMAIN queue
      BY <1>4, <2>1, <3>1, <3>3 DEF BooksInv, OrderInv
    <3>4. CASE q = Len(queue) + 1
      BY <1>2, <1>3, <1>4, <1>8, <2>1, <3>2, <3>4 DEF Pending
    <3> QED BY <1>4, <3>3, <3>4
  <2>2. ASSUME NEW i \in Elements(newOps), NEW j \in Id, Added(j)' PROVE i < j
    <3>1. i \in Id /\ Pending(i)
      BY <1>1, ElementsOf DEF Pending
    <3> QED BY <1>2, <1>6, <1>8, <2>2, <3>1 DEF BooksInv, OrderInv
  <2> QED BY <1>1, <2>1, <2>2 DEF BooksInv, OrderInv
<1>21. OwnerInv'
  <2>1. \A a \in Addr : mOperandToBlobs[a] # 0 => mOperandToBlobs[a] \in Ids'
    BY <1>2 DEF BooksInv, OwnerInv
  <2>2. ASSUME NEW a \in Addr, NEW i \in Ids', mOperandToBlobs[a] = i PROVE ops'[i].output = a /\ ~Pending(i)'
    <3>1. i \in Ids
      BY <1>1, <1>2, <2>2 DEF BooksInv, OwnerInv, Ids
    <3> QED BY <1>1, <1>2, <1>8, <2>2, <3>1 DEF BooksInv, OwnerInv
  <2>3. ASSUME NEW i \in Ids', NEW j \in Ids', Alive(i)', Alive(j)', ops'[i].output = ops'[j].output,
               ops'[i].output # NoAddr
        PROVE  i = j
    BY <1>2, <1>9, <1>11, <2>3 DEF BooksInv, OwnerInv
  <2>4. \A i \in Elements(newOps) : ops'[i] = ops[i]
    BY <1>1, <1>2, <1>8, ElementsOf DEF Pending
  <2>5. \A a \in Addr : a \in mOperandMap <=>
          mOperandToBlobs[a] # 0 \/ \E i \in Elements(newOps) : ops'[i].output = a
    BY <2>4 DEF BooksInv, OwnerInv
  <2> QED BY <1>1, <2>1, <2>2, <2>3, <2>5 DEF OwnerInv
<1>22. UserInv'
  <2>1. ASSUME NEW a \in Addr, NEW i \in Ids', tensor'[a] = i PROVE Alive(i)'
    <3>1. CASE i = n
      BY <1>9, <3>1
    <3>2. CASE i # n
      <4>1. i \in Ids /\ tensor[a] = i
        BY <1>2, <1>10, <2>1, <3>2
      <4> QED BY <1>9, <4>1 DEF BooksInv, UserInv
    <3> QED BY <3>1, <3>2
  <2>2. ASSUME NEW i \in Ids', NEW w \in Ids', Pending(i)', ops'[i].want = w PROVE Alive(w)'
    <3>1. CASE i = n
      <4>0. w # 0
        BY <1>1, <1>2 DEF Ids
      <4>1. w \in Ids /\ op.input \in Addr /\ tensor[op.input] = w
        BY <1>2, <1>12, <2>2, <3>1, <4>0
      <4> QED BY <1>9, <4>1 DEF BooksInv, UserInv
    <3>2. CASE i # n
      <4>1. i \in Ids /\ Pending(i) /\ ops[i].want = w
        BY <1>2, <1>8, <2>2, <3>2
      <4>2. w \in Ids \/ w = n
        BY <1>2
      <4>3. w \in Ids => Alive(w)
        BY <4>1 DEF BooksInv, UserInv
      <4>4. CASE w = n
        BY <1>9, <4>4
      <4>5. CASE w \in Ids
        BY <1>9, <4>3, <4>5
      <4> QED BY <4>2, <4>4, <4>5
    <3> QED BY <3>1, <3>2
  <2> QED BY <2>1, <2>2 DEF UserInv
<1>23. NoHoldInv'
  <2>1. \A p \in DOMAIN queue' : \A a \in Addr : Drops(queue'[p], a) => p \in DOMAIN queue /\ Drops(queue[p], a) /\ Dropped(a)
    BY <1>3, <1>4 DEF Dropped, Announced
  <2>2. \A p, q \in DOMAIN queue' : \A a \in Addr : Drops(queue'[p], a) /\ Drops(queue'[q], a) => p = q
    BY <2>1 DEF BooksInv, NoHoldInv
  <2>3. ASSUME NEW a \in Addr, Dropped(a)' PROVE tensor'[a] = 0 /\ \E i \in Ids' : Alive(i)' /\ ops'[i].output = a
    <3>1. Dropped(a) /\ tensor[a] = 0 /\ \E i \in Ids : Alive(i) /\ ops[i].output = a
      BY <1>7, <2>3 DEF BooksInv, NoHoldInv
    <3>2. a # op.output
      BY <1>11, <3>1, EagerAssumption
    <3> QED BY <1>2, <1>9, <1>10, <3>1, <3>2
  <2>4. ASSUME NEW a \in Addr, NEW i \in Ids', Alive(i)', ops'[i].output = a, tensor'[a] = 0 PROVE Dropped(a)'
    <3>1. n # 0
      BY <1>0, <1>1
    <3>2. a # op.output /\ tensor[a] = 0
      BY <1>10, <2>4, <3>1
    <3>3. i \in Ids /\ Alive(i) /\ ops[i].output = a
      BY <1>2, <1>9, <2>4, <3>2
    <3> QED BY <1>7, <3>2, <3>3 DEF BooksInv, NoHoldInv
  <2>5. \A a \in Addr : a \in {op.input, op.output} => ~Dropped(a)
    <3>1. op.input \in Addr => tensor[op.input] # 0
      BY <1>12, <1>13, EagerAssumption
    <3> QED BY <1>11, <3>1, EagerAssumption DEF BooksInv, NoHoldInv
  <2>6. ASSUME NEW p \in DOMAIN queue', NEW q \in DOMAIN queue', NEW a \in Addr, NEW i \in Ids',
               Adds(queue'[p], i), a \in {ops'[i].input, ops'[i].output}, Drops(queue'[q], a)
        PROVE  p < q
    <3>1. q \in DOMAIN queue /\ Drops(queue[q], a) /\ Dropped(a)
      BY <2>1, <2>6
    <3>2. i # n
      BY <1>2, <2>5, <2>6, <3>1
    <3>3. p \in DOMAIN queue /\ Adds(queue[p], i) /\ i \in Ids
      BY <1>2, <1>3, <1>4, <2>6, <3>2
    <3> QED BY <1>2, <2>6, <3>1, <3>3 DEF BooksInv, NoHoldInv
  <2>7. ASSUME NEW a \in Elements(newNoHold), NEW i \in Ids', Added(i)'
        PROVE  a \notin {ops'[i].input, ops'[i].output}
    <3>1. Dropped(a) /\ a \in Addr
      BY <1>1, ElementsOf DEF Dropped
    <3>2. CASE i = n
      BY <1>2, <2>5, <3>1, <3>2
    <3>3. CASE i # n
      <4>1. i \in Ids /\ Added(i)
        BY <1>2, <1>6, <2>7, <3>3
      <4> QED BY <1>2, <4>1 DEF BooksInv, NoHoldInv
    <3> QED BY <3>2, <3>3
  <2>8. /\ \A p, q \in DOMAIN newNoHold' : newNoHold'[p] = newNoHold'[q] => p = q
        /\ \A a \in Elements(newNoHold)' : ~Announced(a)'
    BY <1>1, <1>7 DEF BooksInv, NoHoldInv
  <2>9. \A a \in Elements(newNoHold)' : \A i \in Ids' : Added(i)' => a \notin {ops'[i].input, ops'[i].output}
    BY <1>1, <2>7
  <2> QED BY <2>2, <2>3, <2>4, <2>6, <2>8, <2>9 DEF NoHoldInv
<1> QED BY <1>20, <1>21, <1>22, <1>23 DEF BooksInv

LEMMA BooksDecrease ==
    ASSUME BaseInv, BooksInv, NEW a \in Addr, ApiTensorRefCountDecrease(a)
    PROVE  BooksInv'
<1> DEFINE m == [type |-> "noHold", operand |-> a]
<1>1. /\ queue' = Append(queue, m) /\ queue \in Seq(Message) /\ m \in Message
      /\ tensor' = [tensor EXCEPT ![a] = 0] /\ tensor \in [Addr -> 0..MaxOp]
      /\ newNoHold \in Seq(Addr)
      /\ UNCHANGED <<ops, newOps, newNoHold, mOperandMap, mOperandToBlobs>>
      /\ Ids' = Ids
  BY Messages DEF BaseInv, EagerTypeOK, ApiTensorRefCountDecrease, execVars, Ids
<1>2. \A b \in Addr : tensor'[b] = IF b = a THEN 0 ELSE tensor[b]
  BY <1>1
<1>3. (\A i : ~Adds(m, i)) /\ \A b : Drops(m, b) <=> b = a
  BY DEF Adds, Drops
<1> HIDE DEF m
<1>4. /\ DOMAIN queue' = DOMAIN queue \cup {Len(queue) + 1} /\ queue'[Len(queue) + 1] = m
      /\ \A p \in DOMAIN queue : queue'[p] = queue[p] /\ p < Len(queue) + 1
  BY <1>1, Appended
<1>5. /\ \A i : Added(i)' <=> Added(i)
      /\ \A b : Announced(b)' <=> Announced(b) \/ b = a
  BY <1>1, <1>3, QueueGrows
<1>6. /\ \A i : Pending(i)' <=> Pending(i)
      /\ \A i : Alive(i)' <=> Alive(i)
      /\ \A b : Dropped(b)' <=> Dropped(b) \/ b = a
  BY <1>1, <1>5 DEF Pending, Alive, Dropped
<1>7. /\ tensor[a] # 0 /\ ~Dropped(a)
      /\ \E i \in Ids : Alive(i) /\ ops[i].output = a
  <2>1. tensor[a] \in Ids /\ ops[tensor[a]].output = a /\ tensor[a] # 0
    BY DEF ApiTensorRefCountDecrease, BaseInv, CacheInv
  <2>2. PICK i \in Ids : i = tensor[a]
    BY <2>1
  <2>3. Alive(i)
    BY <2>2 DEF BooksInv, UserInv
  <2> QED BY <2>1, <2>2, <2>3 DEF BooksInv, NoHoldInv
<1>8. OrderInv'
  BY <1>1, <1>3, <1>4, <1>5 DEF BooksInv, OrderInv
<1>9. OwnerInv'
  BY <1>1, <1>6 DEF BooksInv, OwnerInv
<1>10. UserInv'
  <2>1. ASSUME NEW b \in Addr, NEW i \in Ids, tensor'[b] = i PROVE Alive(i)
    <3>1. i # 0
      BY DEF Ids
    <3> QED BY <1>2, <2>1, <3>1 DEF BooksInv, UserInv
  <2>2. \A i, w \in Ids : Pending(i) /\ ops[i].want = w => Alive(w)
    BY DEF BooksInv, UserInv
  <2> QED BY <1>1, <1>6, <2>1, <2>2 DEF UserInv
<1>11. NoHoldInv'
  <2>1. \A p \in DOMAIN queue' : \A b \in Addr : Drops(queue'[p], b) =>
          \/ p \in DOMAIN queue /\ Drops(queue[p], b) /\ Dropped(b)
          \/ p = Len(queue) + 1 /\ b = a
    BY <1>3, <1>4 DEF Dropped, Announced
  <2>2. \A p, q \in DOMAIN queue' : \A b \in Addr : Drops(queue'[p], b) /\ Drops(queue'[q], b) => p = q
    BY <1>7, <2>1 DEF BooksInv, NoHoldInv
  <2>3. ASSUME NEW b \in Elements(newNoHold) PROVE ~Announced(b)'
    <3>1. Dropped(b)
      BY DEF Dropped
    <3> QED BY <1>5, <1>7, <3>1 DEF BooksInv, NoHoldInv
  <2>4. ASSUME NEW b \in Addr, Dropped(b)' PROVE tensor'[b] = 0 /\ \E i \in Ids : Alive(i) /\ ops[i].output = b
    <3>1. CASE b = a
      BY <1>2, <1>7, <3>1
    <3>2. CASE b # a
      BY <1>2, <1>6, <2>4, <3>2 DEF BooksInv, NoHoldInv
    <3> QED BY <3>1, <3>2
  <2>5. ASSUME NEW b \in Addr, NEW i \in Ids, Alive(i), ops[i].output = b, tensor'[b] = 0 PROVE Dropped(b)'
    BY <1>2, <1>6, <2>5 DEF BooksInv, NoHoldInv
  <2>6. ASSUME NEW p \in DOMAIN queue', NEW q \in DOMAIN queue', NEW b \in Addr, NEW i \in Ids,
               Adds(queue'[p], i), b \in {ops[i].input, ops[i].output}, Drops(queue'[q], b)
        PROVE  p < q
    <3>1. p \in DOMAIN queue /\ Adds(queue[p], i)
      BY <1>3, <1>4, <2>6
    <3>2. CASE q \in DOMAIN queue /\ Drops(queue[q], b)
      BY <2>6, <3>1, <3>2 DEF BooksInv, NoHoldInv
    <3>3. CASE q = Len(queue) + 1
      BY <1>4, <3>1, <3>3
    <3> QED BY <2>1, <2>6, <3>2, <3>3
  <2>7. /\ \A p, q \in DOMAIN newNoHold : newNoHold[p] = newNoHold[q] => p = q
        /\ \A b \in Elements(newNoHold) : \A i \in Ids : Added(i) => b \notin {ops[i].input, ops[i].output}
    BY DEF BooksInv, NoHoldInv
  <2> QED BY <1>1, <1>5, <1>6, <2>2, <2>3, <2>4, <2>5, <2>6, <2>7 DEF NoHoldInv
<1> QED BY <1>8, <1>9, <1>10, <1>11 DEF BooksInv

\* The null message adds and drops nothing.
LEMMA BooksNull ==
    ASSUME BaseInv, BooksInv, queue' = Append(queue, [type |-> "null"]),
           UNCHANGED <<ops, tensor, newOps, newNoHold, mOperandMap, mOperandToBlobs>>
    PROVE  BooksInv'
<1> DEFINE m == [type |-> "null"]
<1>1. queue' = Append(queue, m) /\ queue \in Seq(Message) /\ m \in Message /\ Ids' = Ids
  BY Messages DEF BaseInv, EagerTypeOK, Ids
<1>2. (\A i : ~Adds(m, i)) /\ \A b : ~Drops(m, b)
  BY DEF Adds, Drops
<1> HIDE DEF m
<1>3. /\ DOMAIN queue' = DOMAIN queue \cup {Len(queue) + 1} /\ queue'[Len(queue) + 1] = m
      /\ \A p \in DOMAIN queue : queue'[p] = queue[p] /\ p < Len(queue) + 1
  BY <1>1, Appended
<1>4. /\ \A i : Added(i)' <=> Added(i)
      /\ \A b : Announced(b)' <=> Announced(b)
  BY <1>1, <1>2, QueueGrows
<1>5. /\ \A i : Pending(i)' <=> Pending(i)
      /\ \A i : Alive(i)' <=> Alive(i)
      /\ \A b : Dropped(b)' <=> Dropped(b)
  BY <1>4 DEF Pending, Alive, Dropped
<1>6. OrderInv'
  BY <1>1, <1>2, <1>3, <1>4 DEF BooksInv, OrderInv
<1>7. OwnerInv' /\ UserInv'
  BY <1>1, <1>5 DEF BooksInv, OwnerInv, UserInv
<1>8. NoHoldInv'
  BY <1>1, <1>2, <1>3, <1>4, <1>5 DEF BooksInv, NoHoldInv
<1> QED BY <1>6, <1>7, <1>8 DEF BooksInv

LEMMA BooksMessage ==
    ASSUME BaseInv, BooksInv, ProcessMessage, execPc' # "exited"
    PROVE  BooksInv'
<1>1. /\ queue # <<>> /\ queue' = Tail(queue) /\ queue \in Seq(Message)
      /\ UNCHANGED <<ops, tensor, mOperandToBlobs>> /\ Ids' = Ids
      /\ newOps \in Seq(Id) /\ newNoHold \in Seq(Addr)
      /\ Ids \subseteq Id /\ ops \in Seq(Operator)
  BY DEF ProcessMessage, BaseInv, EagerTypeOK, apiVars, Ids, Id
<1>2. /\ Head(queue) \in Message /\ 1 \in DOMAIN queue /\ Head(queue) = queue[1]
      /\ \A p \in DOMAIN queue' : p \in Nat /\ p + 1 \in DOMAIN queue /\ queue'[p] = queue[p + 1]
  BY <1>1, Removed
<1>3. /\ \A i : Added(i) <=> Added(i)' \/ Adds(Head(queue), i)
      /\ \A a : Announced(a) <=> Announced(a)' \/ Drops(Head(queue), a)
  BY <1>1, QueueShrinks
<1>4. /\ \A p, q \in DOMAIN queue' : \A i, j \in Id : p < q /\ Adds(queue'[p], i) /\ Adds(queue'[q], j) => i < j
      /\ \A p, q \in DOMAIN queue' : \A a \in Addr : Drops(queue'[p], a) /\ Drops(queue'[q], a) => p = q
      /\ \A p, q \in DOMAIN queue' : \A a \in Addr : \A i \in Ids :
           Adds(queue'[p], i) /\ a \in {ops[i].input, ops[i].output} /\ Drops(queue'[q], a) => p < q
  <2>1. ASSUME NEW p \in DOMAIN queue', NEW q \in DOMAIN queue', NEW i \in Id, NEW j \in Id,
               p < q, Adds(queue'[p], i), Adds(queue'[q], j)
        PROVE  i < j
    <3>1. p + 1 < q + 1 /\ Adds(queue[p + 1], i) /\ Adds(queue[q + 1], j)
      BY <1>2, <2>1
    <3> QED BY <1>2, <3>1 DEF BooksInv, OrderInv
  <2>2. ASSUME NEW p \in DOMAIN queue', NEW q \in DOMAIN queue', NEW a \in Addr,
               Drops(queue'[p], a), Drops(queue'[q], a)
        PROVE  p = q
    <3>1. p + 1 = q + 1
      BY <1>2, <2>2 DEF BooksInv, NoHoldInv
    <3> QED BY <1>2, <3>1
  <2>3. ASSUME NEW p \in DOMAIN queue', NEW q \in DOMAIN queue', NEW a \in Addr, NEW i \in Ids,
               Adds(queue'[p], i), a \in {ops[i].input, ops[i].output}, Drops(queue'[q], a)
        PROVE  p < q
    <3>1. p + 1 < q + 1
      BY <1>2, <2>3 DEF BooksInv, NoHoldInv
    <3> QED BY <1>2, <3>1
  <2> QED BY <2>1, <2>2, <2>3
<1>5. CASE /\ Head(queue).type = "addOperator"
           /\ newOps' = Append(newOps, Head(queue).op)
           /\ mOperandMap' = mOperandMap \cup ({ops[Head(queue).op].output} \ {NoAddr})
           /\ UNCHANGED newNoHold
  <2>1. PICK n \in Id : n = Head(queue).op
    BY <1>2, <1>5, Messages
  <2>2. (\A i : Adds(Head(queue), i) <=> i = n) /\ \A a : ~Drops(Head(queue), a)
    BY <1>5, <2>1 DEF Adds, Drops
  <2>3. Pending(n) /\ n \in Ids
    <3>1. Pending(n)
      BY <1>3, <2>2 DEF Pending
    <3> QED BY <3>1 DEF BaseInv, KnownInv
  <2>4. /\ DOMAIN newOps' = DOMAIN newOps \cup {Len(newOps) + 1} /\ newOps'[Len(newOps) + 1] = n
        /\ \A p \in DOMAIN newOps : newOps'[p] = newOps[p] /\ p < Len(newOps) + 1
        /\ Elements(newOps') = Elements(newOps) \cup {n}
        /\ Len(newOps) \in Nat /\ DOMAIN newOps \subseteq Nat
    BY <1>1, <1>5, <2>1, Appended
  <2>5. Elements(newOps)' = Elements(newOps) \cup {n} /\ \A i \in Elements(newOps) : i < n /\ i \in Id
    BY <1>1, <1>3, <2>2, <2>4, ElementsOf DEF BooksInv, OrderInv
  <2>6. /\ \A i : Pending(i)' <=> Pending(i)
        /\ \A i : Alive(i)' <=> Alive(i)
        /\ \A a : Announced(a)' <=> Announced(a)
        /\ \A a : Dropped(a)' <=> Dropped(a)
    <3>1. \A i : Pending(i)' <=> Pending(i)
      BY <1>3, <2>2, <2>5 DEF Pending
    <3>2. \A a : Announced(a)' <=> Announced(a)
      BY <1>3, <2>2
    <3> QED BY <1>1, <1>5, <3>1, <3>2 DEF Alive, Dropped
  <2>7. OrderInv'
    <3>1. ASSUME NEW p \in DOMAIN newOps', NEW q \in DOMAIN newOps', p < q PROVE newOps'[p] < newOps'[q]
      <4>1. p \in DOMAIN newOps /\ newOps'[p] = newOps[p] /\ newOps[p] \in Elements(newOps)
        BY <1>1, <2>4, <3>1, ElementsOf
      <4>2. CASE q \in DOMAIN newOps
        BY <2>4, <3>1, <4>1, <4>2 DEF BooksInv, OrderInv
      <4>3. CASE q = Len(newOps) + 1
        BY <2>4, <2>5, <4>1, <4>3
      <4> QED BY <2>4, <4>2, <4>3
    <3>2. ASSUME NEW i \in Elements(newOps)', NEW j \in Id, Added(j)' PROVE i < j
      <4>1. CASE i \in Elements(newOps)
        BY <1>3, <3>2, <4>1 DEF BooksInv, OrderInv
      <4>2. CASE i = n
        <5>1. PICK p \in DOMAIN queue' : Adds(queue'[p], j)
          BY <3>2 DEF Added
        <5>2. 1 < p + 1 /\ Adds(queue[1], n) /\ Adds(queue[p + 1], j) /\ p + 1 \in DOMAIN queue
          <6>1. p \in Nat /\ p # 0
            BY <1>1, Removed, <5>1
          <6> QED BY <1>2, <2>2, <5>1, <6>1
        <5> QED BY <1>2, <4>2, <5>2 DEF BooksInv, OrderInv
      <4> QED BY <2>5, <3>2, <4>1, <4>2
    <3> QED BY <1>4, <3>1, <3>2 DEF OrderInv
  <2>8. OwnerInv'
    <3>1. ASSUME NEW a \in Addr
          PROVE  a \in mOperandMap' <=> mOperandToBlobs[a] # 0 \/ \E i \in Elements(newOps)' : ops[i].output = a
      BY <1>5, <2>1, <2>5 DEF BooksInv, OwnerInv
    <3>2. /\ \A a \in Addr : mOperandToBlobs[a] # 0 => mOperandToBlobs[a] \in Ids
          /\ \A a \in Addr : \A i \in Ids : mOperandToBlobs[a] = i => ops[i].output = a /\ ~Pending(i)
          /\ \A i, j \in Ids : Alive(i) /\ Alive(j) /\ ops[i].output = ops[j].output /\ ops[i].output # NoAddr => i = j
      BY DEF BooksInv, OwnerInv
    <3> QED BY <1>1, <2>6, <3>1, <3>2 DEF OwnerInv
  <2>9. UserInv'
    BY <1>1, <2>6 DEF BooksInv, UserInv
  <2>10. NoHoldInv'
    <3>1. newNoHold' = newNoHold /\ \A i : Added(i)' => Added(i)
      BY <1>3, <1>5
    <3>2. /\ \A p, q \in DOMAIN newNoHold : newNoHold[p] = newNoHold[q] => p = q
          /\ \A a \in Elements(newNoHold) : ~Announced(a)
          /\ \A a \in Addr : Dropped(a) => tensor[a] = 0 /\ \E i \in Ids : Alive(i) /\ ops[i].output = a
          /\ \A a \in Addr : \A i \in Ids : Alive(i) /\ ops[i].output = a /\ tensor[a] = 0 => Dropped(a)
          /\ \A a \in Elements(newNoHold) : \A i \in Ids : Added(i) => a \notin {ops[i].input, ops[i].output}
      BY DEF BooksInv, NoHoldInv
    <3> QED BY <1>1, <1>4, <2>6, <3>1, <3>2 DEF NoHoldInv
  <2> QED BY <2>7, <2>8, <2>9, <2>10 DEF BooksInv
<1>6. CASE /\ Head(queue).type = "noHold"
           /\ newNoHold' = Append(newNoHold, Head(queue).operand)
           /\ UNCHANGED <<newOps, mOperandMap>>
  <2>1. PICK b \in Addr : b = Head(queue).operand
    BY <1>2, <1>6, Messages
  <2>2. (\A i : ~Adds(Head(queue), i)) /\ \A a : Drops(Head(queue), a) <=> a = b
    BY <1>6, <2>1 DEF Adds, Drops
  <2>3. /\ DOMAIN newNoHold' = DOMAIN newNoHold \cup {Len(newNoHold) + 1} /\ newNoHold'[Len(newNoHold) + 1] = b
        /\ \A p \in DOMAIN newNoHold : newNoHold'[p] = newNoHold[p]
        /\ Elements(newNoHold') = Elements(newNoHold) \cup {b}
    BY <1>1, <1>6, <2>1, Appended
  <2>4. b \notin Elements(newNoHold) /\ Elements(newNoHold)' = Elements(newNoHold) \cup {b}
    BY <1>3, <2>2, <2>3 DEF BooksInv, NoHoldInv
  <2>5. /\ \A i : Added(i)' <=> Added(i)
        /\ \A i : Pending(i)' <=> Pending(i)
        /\ \A i : Alive(i)' <=> Alive(i)
        /\ \A a : Announced(a)' => Announced(a)
        /\ \A a : Dropped(a)' <=> Dropped(a)
    <3>1. (\A i : Added(i)' <=> Added(i)) /\ \A a : Announced(a) <=> Announced(a)' \/ a = b
      BY <1>3, <2>2
    <3> QED BY <1>1, <1>6, <2>4, <3>1 DEF Pending, Alive, Dropped
  <2>6. OrderInv'
    <3>1. newOps' = newOps
      BY <1>6
    <3>2. /\ \A p, q \in DOMAIN newOps : p < q => newOps[p] < newOps[q]
          /\ \A i \in Elements(newOps) : \A j \in Id : Added(j) => i < j
      BY DEF BooksInv, OrderInv
    <3> QED BY <1>4, <2>5, <3>1, <3>2 DEF OrderInv
  <2>7. OwnerInv' /\ UserInv'
    <3>1. newOps' = newOps /\ mOperandMap' = mOperandMap
      BY <1>6
    <3> QED BY <1>1, <2>5, <3>1 DEF BooksInv, OwnerInv, UserInv
  <2>8. NoHoldInv'
    <3>1. \A p, q \in DOMAIN newNoHold' : newNoHold'[p] = newNoHold'[q] => p = q
      <4>1. \A p \in DOMAIN newNoHold : newNoHold[p] # b
        BY <1>1, <2>4, ElementsOf
      <4> QED BY <2>3, <4>1 DEF BooksInv, NoHoldInv
    <3>2. ASSUME NEW a \in Elements(newNoHold)' PROVE ~Announced(a)'
      <4>1. CASE a \in Elements(newNoHold)
        BY <2>5, <4>1 DEF BooksInv, NoHoldInv
      <4>2. CASE a = b
        <5>1. SUFFICES ASSUME Announced(b)' PROVE FALSE
          BY <4>2
        <5>2. PICK p \in DOMAIN queue' : Drops(queue'[p], b)
          BY <5>1 DEF Announced
        <5>3. p + 1 \in DOMAIN queue /\ Drops(queue[p + 1], b) /\ Drops(queue[1], b) /\ p \in Nat /\ p # 0
          BY <1>1, <1>2, <2>2, <5>2, Removed
        <5>4. p + 1 = 1
          BY <1>2, <5>3 DEF BooksInv, NoHoldInv
        <5> QED BY <5>3, <5>4
      <4> QED BY <2>4, <4>1, <4>2
    <3>3. ASSUME NEW a \in Elements(newNoHold)', NEW i \in Ids, Added(i)'
          PROVE  a \notin {ops[i].input, ops[i].output}
      <4>1. CASE a \in Elements(newNoHold)
        BY <2>5, <3>3, <4>1 DEF BooksInv, NoHoldInv
      <4>2. CASE a = b
        <5>1. SUFFICES ASSUME b \in {ops[i].input, ops[i].output} PROVE FALSE
          BY <4>2
        <5>2. PICK p \in DOMAIN queue' : Adds(queue'[p], i)
          BY <3>3 DEF Added
        <5>3. p + 1 \in DOMAIN queue /\ Adds(queue[p + 1], i) /\ Drops(queue[1], b) /\ p \in Nat /\ p # 0
          BY <1>1, <1>2, <2>2, <5>2, Removed
        <5>4. p + 1 < 1
          BY <1>2, <5>1, <5>3 DEF BooksInv, NoHoldInv
        <5> QED BY <5>3, <5>4
      <4> QED BY <2>4, <4>1, <4>2
    <3>4. /\ \A a \in Addr : Dropped(a) => tensor[a] = 0 /\ \E i \in Ids : Alive(i) /\ ops[i].output = a
          /\ \A a \in Addr : \A i \in Ids : Alive(i) /\ ops[i].output = a /\ tensor[a] = 0 => Dropped(a)
      BY DEF BooksInv, NoHoldInv
    <3> QED BY <1>1, <1>4, <2>5, <3>1, <3>2, <3>3, <3>4 DEF NoHoldInv
  <2> QED BY <2>6, <2>7, <2>8 DEF BooksInv
<1> QED BY <1>5, <1>6 DEF ProcessMessage

LEMMA OperatorTypes ==
    ASSUME BaseInv, NEW i \in Ids
    PROVE  /\ i \in Nat /\ i # 0 /\ i \in Id /\ i <= Len(ops) /\ Len(ops) \in Nat
           /\ ops[i].output \in Addr \cup {NoAddr} /\ ops[i].input \in Addr \cup {NoAddr}
           /\ ops[i].mesh \subseteq Device /\ ops[i].kernels \subseteq Device
           /\ ops[i].want = 0 \/ (ops[i].want \in Ids /\ ops[i].want < i)
<1>1. ops \in Seq(Operator) /\ Len(ops) \in Nat /\ Len(ops) <= MaxOp
  BY DEF BaseInv, EagerTypeOK
<1>2. i \in Nat /\ i # 0 /\ i \in Id /\ i <= Len(ops)
  BY <1>1 DEF Ids, Id
<1>3. ops[i] \in Operator
  BY <1>1 DEF Ids
<1>4. ops[i].want = 0 \/ ops[i].want \in 1..(i - 1)
  BY DEF BaseInv, OperatorInv, Issued
<1>5. \A w \in 1..(i - 1) : w \in Ids /\ w < i
  BY <1>1, <1>2 DEF Ids
<1> QED BY <1>1, <1>2, <1>3, <1>4, <1>5 DEF Operator

\* The next operator of the batch: it leads all that are pending, and its input
\* has the blobs of the operator the API call named.
LEMMA NextOfBatch ==
    ASSUME BaseInv, BooksInv, newOps # <<>>, NEW i \in Ids, i = Head(newOps)
    PROVE  /\ Pending(i) /\ i \notin Elements(Tail(newOps)) /\ ~Added(i)
           /\ Elements(newOps) = {i} \cup Elements(Tail(newOps))
           /\ Tail(newOps) \in Seq(Id)
           /\ \A p, q \in DOMAIN Tail(newOps) : p < q => Tail(newOps)[p] < Tail(newOps)[q]
           /\ \A j \in Id : Pending(j) => j = i \/ i < j
           /\ ops[i].want # 0 => ops[i].want \in Ids /\ mOperandToBlobs[ops[i].input] = ops[i].want
           /\ BlobsPresent(ops[i]) /\ OutputAbsent(ops[i]) /\ InputBlobs(ops[i]) = ops[i].want
<1>0. newOps \in Seq(Id) /\ i \in Id /\ i \in Nat /\ Id \subseteq Nat
  <2>1. newOps \in Seq(Id)
    BY DEF BaseInv, EagerTypeOK
  <2>2. i \in Id /\ i \in Nat
    BY OperatorTypes
  <2> QED BY <2>1, <2>2 DEF Id
<1>1. /\ Elements(newOps) = {i} \cup Elements(Tail(newOps)) /\ Tail(newOps) \in Seq(Id)
      /\ 1 \in DOMAIN newOps /\ newOps[1] = i
      /\ \A p \in DOMAIN Tail(newOps) : p \in Nat /\ p + 1 \in DOMAIN newOps /\ Tail(newOps)[p] = newOps[p + 1]
  BY <1>0, Removed
<1>2. \A p, q \in DOMAIN Tail(newOps) : p < q => Tail(newOps)[p] < Tail(newOps)[q]
  <2>1. ASSUME NEW p \in DOMAIN Tail(newOps), NEW q \in DOMAIN Tail(newOps), p < q
        PROVE  Tail(newOps)[p] < Tail(newOps)[q]
    <3>1. p + 1 < q + 1
      BY <1>1, <2>1
    <3> QED BY <1>1, <3>1 DEF BooksInv, OrderInv
  <2> QED BY <2>1
<1>3. \A j \in Elements(Tail(newOps)) : i < j
  <2>1. TAKE j \in Elements(Tail(newOps))
  <2>2. PICK p \in DOMAIN Tail(newOps) : Tail(newOps)[p] = j
    <3>1. PICK t \in Seq(Id) : t = Tail(newOps)
      BY <1>1
    <3>2. \E p \in DOMAIN t : t[p] = j
      BY <2>1, <3>1, ElementsOf
    <3> QED BY <3>1, <3>2
  <2>3. 1 < p + 1
    BY <1>1, <2>2, ElementsOf
  <2> QED BY <1>1, <2>2, <2>3 DEF BooksInv, OrderInv
<1>4. Pending(i) /\ \A j \in Id : Added(j) => i < j
  BY <1>1 DEF Pending, BooksInv, OrderInv
<1>5. i \notin Elements(Tail(newOps)) /\ ~Added(i)
  BY <1>0, <1>3, <1>4
<1>6. \A j \in Id : Pending(j) => j = i \/ i < j
  BY <1>1, <1>3, <1>4 DEF Pending
<1>7. ops[i].want # 0 => /\ ops[i].want \in Ids /\ mOperandToBlobs[ops[i].input] = ops[i].want
                         /\ ops[i].input \in Addr
  <2>1. SUFFICES ASSUME ops[i].want # 0 PROVE <1>7!2
    OBVIOUS
  <2>2. ops[i].want \in 1..(i - 1) /\ ops[i].input = ops[ops[i].want].output /\ ops[i].input \in Addr
    BY <2>1 DEF BaseInv, OperatorInv, Issued
  <2>3. PICK w \in Ids : w = ops[i].want /\ w < i
    BY <2>1, OperatorTypes
  <2>4. Alive(w)
    BY <1>4, <2>3 DEF BooksInv, UserInv
  <2>5. ~Pending(w)
    BY <1>0, <1>6, <2>3, OperatorTypes
  <2> QED BY <2>2, <2>3, <2>4, <2>5 DEF Alive
<1>8. ops[i].want = 0 => ops[i].input = NoAddr
  BY DEF BaseInv, OperatorInv, Issued
<1>9. BlobsPresent(ops[i]) /\ InputBlobs(ops[i]) = ops[i].want
  BY <1>7, <1>8, EagerAssumption DEF BlobsPresent, InputBlobs, Resident
<1>10. OutputAbsent(ops[i])
  <2>1. SUFFICES ASSUME ops[i].output \in Addr, mOperandToBlobs[ops[i].output] # 0 PROVE FALSE
    BY DEF OutputAbsent, Resident
  <2>2. PICK j \in Ids : j = mOperandToBlobs[ops[i].output]
    BY <2>1 DEF BooksInv, OwnerInv
  <2>3. ops[j].output = ops[i].output /\ ~Pending(j)
    BY <2>1, <2>2 DEF BooksInv, OwnerInv
  <2>4. Alive(i) /\ Alive(j) /\ ops[i].output # NoAddr
    BY <1>4, <2>1, <2>2, <2>3, EagerAssumption DEF Alive
  <2> QED BY <1>4, <2>3, <2>4 DEF BooksInv, OwnerInv
<1> QED BY <1>1, <1>2, <1>4, <1>5, <1>6, <1>7, <1>9, <1>10

LEMMA BooksCreate ==
    ASSUME BaseInv, BooksInv, CreateKernelForOperator
    PROVE  BooksInv' /\ ~aborted'
<1>0. newOps # <<>>
  BY DEF CreateKernelForOperator
<1>1. PICK i \in Ids : i = Head(newOps) /\ Issued(ops, i)
  BY <1>0, NextOperator
<1>2. /\ Pending(i) /\ i \notin Elements(Tail(newOps)) /\ ~Added(i)
      /\ Elements(newOps) = {i} \cup Elements(Tail(newOps))
      /\ Tail(newOps) \in Seq(Id)
      /\ \A p, q \in DOMAIN Tail(newOps) : p < q => Tail(newOps)[p] < Tail(newOps)[q]
      /\ BlobsPresent(ops[i]) /\ OutputAbsent(ops[i])
  BY <1>0, <1>1, NextOfBatch
<1>3. /\ mOperandToBlobs' = [a \in Addr |-> IF a = ops[i].output THEN i ELSE mOperandToBlobs[a]]
      /\ newOps' = Tail(newOps)
      /\ UNCHANGED <<ops, tensor, queue, newNoHold, mOperandMap>>
      /\ Ids' = Ids /\ ~aborted' /\ i # 0
      /\ mOperandToBlobs \in [Addr -> 0..MaxOp] /\ ops[i].output \in Addr \cup {NoAddr}
  <2>1. ops[i].output \in Addr \cup {NoAddr} /\ i # 0
    BY OperatorTypes
  <2>2. mOperandToBlobs \in [Addr -> 0..MaxOp]
    BY DEF BaseInv, EagerTypeOK
  <2>3. /\ newOps' = Tail(newOps) /\ ~aborted'
        /\ UNCHANGED <<ops, tensor, queue, newNoHold, mOperandMap>>
        /\ mOperandToBlobs' = [a \in Addr |-> IF a = ops[i].output THEN i ELSE mOperandToBlobs[a]]
    BY <1>1, <1>2, <2>2 DEF CreateKernelForOperator, apiVars
  <2> QED BY <2>1, <2>2, <2>3 DEF Ids
<1>4. Elements(newOps)' = Elements(newOps) \ {i}
  BY <1>2, <1>3
<1>5. /\ \A j : Added(j)' <=> Added(j)
      /\ \A j : Pending(j)' <=> Pending(j) /\ j # i
      /\ \A a : Announced(a)' <=> Announced(a)
      /\ \A a : Dropped(a)' <=> Dropped(a)
  <2>1. (\A j : Added(j)' <=> Added(j)) /\ \A a : Announced(a)' <=> Announced(a)
    BY <1>3 DEF Added, Announced
  <2> QED BY <1>2, <1>3, <1>4, <2>1 DEF Pending, Dropped
<1>6. \A j \in Ids : ops[j].output # NoAddr =>
        ops[j].output \in Addr /\ mOperandToBlobs'[ops[j].output] =
                                    (IF ops[j].output = ops[i].output THEN i ELSE mOperandToBlobs[ops[j].output])
  BY <1>3, OperatorTypes
<1>7. Alive(i) /\ (ops[i].output # NoAddr => Alive(i)') /\ (Alive(i)' => ops[i].output # NoAddr)
  <2>1. Alive(i)' <=> Pending(i)' \/ (ops[i].output # NoAddr /\ mOperandToBlobs'[ops[i].output] = i)
    BY <1>3 DEF Alive
  <2> QED BY <1>2, <1>5, <1>6, <2>1 DEF Alive
<1>8. ASSUME NEW j \in Ids, j # i PROVE Alive(j)' <=> Alive(j)
  <2>1. Alive(j)' <=> Pending(j)' \/ (ops[j].output # NoAddr /\ mOperandToBlobs'[ops[j].output] = j)
    BY <1>3 DEF Alive
  <2>2. ops[j].output # NoAddr /\ mOperandToBlobs[ops[j].output] = j => ops[j].output # ops[i].output
    BY <1>7, <1>8 DEF Alive, BooksInv, OwnerInv
  <2> QED BY <1>5, <1>6, <1>8, <2>1, <2>2 DEF Alive
<1>9. OrderInv'
  BY <1>2, <1>3, <1>4, <1>5 DEF BooksInv, OrderInv
<1>10. OwnerInv'
  <2>1. ASSUME NEW a \in Addr, mOperandToBlobs'[a] # 0 PROVE mOperandToBlobs'[a] \in Ids
    BY <1>3, <2>1 DEF BooksInv, OwnerInv
  <2>2. ASSUME NEW a \in Addr, NEW j \in Ids, mOperandToBlobs'[a] = j PROVE ops[j].output = a /\ ~Pending(j)'
    BY <1>3, <1>5, <2>2 DEF BooksInv, OwnerInv
  <2>3. ASSUME NEW j \in Ids, NEW k \in Ids, Alive(j)', Alive(k)', ops[j].output = ops[k].output, ops[j].output # NoAddr
        PROVE  j = k
    <3>1. Alive(j) /\ Alive(k)
      BY <1>7, <1>8, <2>3
    <3> QED BY <2>3, <3>1 DEF BooksInv, OwnerInv
  <2>4. ASSUME NEW a \in Addr
        PROVE  a \in mOperandMap <=> mOperandToBlobs'[a] # 0 \/ \E j \in Elements(newOps)' : ops[j].output = a
    <3>1. a \in mOperandMap <=> mOperandToBlobs[a] # 0 \/ \E j \in Elements(newOps) : ops[j].output = a
      BY DEF BooksInv, OwnerInv
    <3>2. mOperandToBlobs'[a] # 0 <=> mOperandToBlobs[a] # 0 \/ a = ops[i].output
      BY <1>3
    <3> QED BY <1>2, <1>4, <3>1, <3>2
  <2> QED BY <1>3, <2>1, <2>2, <2>3, <2>4 DEF OwnerInv
<1>11. UserInv'
  <2>1. ASSUME NEW a \in Addr, NEW j \in Ids, tensor[a] = j PROVE Alive(j)'
    <3>1. Alive(j) /\ ops[j].output = a /\ j # 0
      BY <2>1 DEF BooksInv, UserInv, BaseInv, CacheInv, Ids
    <3> QED BY <1>7, <1>8, <3>1, EagerAssumption
  <2>2. ASSUME NEW j \in Ids, NEW w \in Ids, Pending(j)', ops[j].want = w PROVE Alive(w)'
    <3>1. Alive(w)
      BY <1>5, <2>2 DEF BooksInv, UserInv
    <3>2. w # 0 /\ ops[j].input = ops[w].output /\ ops[j].input \in Addr
      BY <2>2 DEF BaseInv, OperatorInv, Issued, Ids
    <3> QED BY <1>7, <1>8, <3>1, <3>2, EagerAssumption
  <2> QED BY <1>3, <2>1, <2>2 DEF UserInv
<1>12. NoHoldInv'
  <2>1. ASSUME NEW a \in Addr, Dropped(a) PROVE tensor[a] = 0 /\ \E j \in Ids : Alive(j)' /\ ops[j].output = a
    BY <1>7, <1>8, <2>1, EagerAssumption DEF BooksInv, NoHoldInv
  <2>2. ASSUME NEW a \in Addr, NEW j \in Ids, Alive(j)', ops[j].output = a, tensor[a] = 0 PROVE Dropped(a)
    BY <1>7, <1>8, <2>2 DEF BooksInv, NoHoldInv
  <2>3. /\ \A p, q \in DOMAIN newNoHold : newNoHold[p] = newNoHold[q] => p = q
        /\ \A p, q \in DOMAIN queue : \A a \in Addr : Drops(queue[p], a) /\ Drops(queue[q], a) => p = q
        /\ \A a \in Elements(newNoHold) : ~Announced(a)
        /\ \A p, q \in DOMAIN queue : \A a \in Addr : \A j \in Ids :
             Adds(queue[p], j) /\ a \in {ops[j].input, ops[j].output} /\ Drops(queue[q], a) => p < q
        /\ \A a \in Elements(newNoHold) : \A j \in Ids : Added(j) => a \notin {ops[j].input, ops[j].output}
    BY DEF BooksInv, NoHoldInv
  <2> QED BY <1>3, <1>5, <2>1, <2>2, <2>3 DEF NoHoldInv
<1> QED BY <1>3, <1>9, <1>10, <1>11, <1>12 DEF BooksInv

\* The operands of a batch are there, and each is named once.
LEMMA BatchDrops ==
    ASSUME BaseInv, BooksInv, newOps = <<>>
    PROVE  /\ DeleteAsserts
           /\ \A a \in Elements(newNoHold) : a \in Addr /\ tensor[a] = 0
<1>1. newNoHold \in Seq(Addr)
  BY DEF BaseInv, EagerTypeOK
<1>2. Elements(newNoHold) \subseteq Addr /\ Elements(newOps) = {}
  <2>1. Elements(<<>>) = {}
    BY DEF Elements
  <2> QED BY <1>1, <2>1, ElementsOf
<1>3. ASSUME NEW a \in Elements(newNoHold) PROVE mOperandToBlobs[a] # 0 /\ tensor[a] = 0
  <2>1. a \in Addr /\ Dropped(a)
    BY <1>2 DEF Dropped
  <2>2. PICK i \in Ids : Alive(i) /\ ops[i].output = a
    BY <2>1 DEF BooksInv, NoHoldInv
  <2>3. ~Pending(i)
    BY <1>2, <2>2 DEF BooksInv, NoHoldInv, Pending
  <2>4. mOperandToBlobs[a] = i /\ i # 0
    BY <2>2, <2>3 DEF Alive, Ids
  <2> QED BY <2>1, <2>4 DEF BooksInv, NoHoldInv
<1>4. Cardinality(Elements(newNoHold)) = Len(newNoHold)
  <2>1. Len(newNoHold) \in Nat /\ DOMAIN newNoHold = 1..Len(newNoHold)
    BY <1>1
  <2>2. Elements(newNoHold) = {newNoHold[p] : p \in 1..Len(newNoHold)}
    BY DEF Elements
  <2>3. IsFiniteSet(1..Len(newNoHold)) /\ Cardinality(1..Len(newNoHold)) = Len(newNoHold)
    BY <2>1, FS_Interval
  <2>4. ExistsBijection(1..Len(newNoHold), Elements(newNoHold))
    <3> DEFINE f == [p \in 1..Len(newNoHold) |-> newNoHold[p]]
    <3>1. f \in [1..Len(newNoHold) -> Elements(newNoHold)]
      BY <2>2
    <3>2. \A p, q \in 1..Len(newNoHold) : f[p] = f[q] => p = q
      BY <2>1 DEF BooksInv, NoHoldInv
    <3>3. \A a \in Elements(newNoHold) : \E p \in 1..Len(newNoHold) : f[p] = a
      BY <2>2
    <3> HIDE DEF f
    <3>4. f \in Bijection(1..Len(newNoHold), Elements(newNoHold))
      BY <3>1, <3>2, <3>3 DEF Bijection, Injection, Surjection, IsInjective
    <3> QED BY <3>4 DEF ExistsBijection
  <2> QED BY <2>3, <2>4, FS_Bijection, FS_CardinalityType, FS_SameCardinalityBij
<1> QED BY <1>2, <1>3, <1>4 DEF DeleteAsserts, Resident

LEMMA BooksFinish ==
    ASSUME BaseInv, BooksInv, FinishBatch
    PROVE  BooksInv' /\ aborted' = aborted
<1>1. newOps = <<>> /\ DeleteAsserts /\ \A a \in Elements(newNoHold) : a \in Addr /\ tensor[a] = 0
  BY BatchDrops DEF FinishBatch
<1>2. /\ mOperandToBlobs' = [a \in Addr |-> IF a \in Elements(newNoHold) THEN 0 ELSE mOperandToBlobs[a]]
      /\ mOperandMap' = mOperandMap \ Elements(newNoHold)
      /\ newNoHold' = <<>>
      /\ UNCHANGED <<ops, tensor, queue, newOps, aborted>>
      /\ Ids' = Ids
  BY <1>1 DEF FinishBatch, DeleteBlobs, NextBatch, apiVars, Ids
<1>3. Elements(newOps) = {} /\ Elements(newOps)' = {} /\ Elements(newNoHold)' = {}
  BY <1>1, <1>2 DEF Elements
<1>4. /\ \A i : Added(i)' <=> Added(i)
      /\ \A i : Pending(i)' <=> Pending(i)
      /\ \A i : Pending(i) <=> Added(i)
      /\ \A a : Announced(a)' <=> Announced(a)
      /\ \A a : Dropped(a)' <=> Announced(a)
      /\ \A a : Dropped(a) <=> Announced(a) \/ a \in Elements(newNoHold)
      /\ \A a \in Elements(newNoHold) : ~Announced(a) /\ Dropped(a)
  <2>1. (\A i : Added(i)' <=> Added(i)) /\ \A a : Announced(a)' <=> Announced(a)
    BY <1>2 DEF Added, Announced
  <2> QED BY <1>3, <2>1 DEF Pending, Dropped, BooksInv, NoHoldInv
<1>5. ASSUME NEW i \in Ids
      PROVE  Alive(i)' <=> Alive(i) /\ ops[i].output \notin Elements(newNoHold)
  <2>1. Alive(i)' <=> Pending(i)' \/ (ops[i].output # NoAddr /\ mOperandToBlobs'[ops[i].output] = i)
    BY <1>2 DEF Alive
  <2>2. Pending(i) => ops[i].output \notin Elements(newNoHold)
    BY <1>4 DEF BooksInv, NoHoldInv
  <2>3. i # 0 /\ (ops[i].output # NoAddr => ops[i].output \in Addr)
    BY OperatorTypes
  <2>4. ops[i].output # NoAddr =>
          (mOperandToBlobs'[ops[i].output] = i
             <=> mOperandToBlobs[ops[i].output] = i /\ ops[i].output \notin Elements(newNoHold))
    BY <1>2, <2>3
  <2>5. Alive(i) <=> Pending(i) \/ (ops[i].output # NoAddr /\ mOperandToBlobs[ops[i].output] = i)
    BY DEF Alive
  <2> QED BY <1>4, <2>1, <2>2, <2>4, <2>5
<1>6. OrderInv'
  BY <1>2, <1>3, <1>4 DEF BooksInv, OrderInv
<1>7. OwnerInv'
  <2>1. ASSUME NEW a \in Addr, mOperandToBlobs'[a] # 0 PROVE mOperandToBlobs'[a] \in Ids
    BY <1>2, <2>1 DEF BooksInv, OwnerInv
  <2>2. ASSUME NEW a \in Addr, NEW i \in Ids, mOperandToBlobs'[a] = i PROVE ops[i].output = a /\ ~Pending(i)
    <3>1. i # 0
      BY OperatorTypes
    <3> QED BY <1>2, <2>2, <3>1 DEF BooksInv, OwnerInv
  <2>3. ASSUME NEW i \in Ids, NEW j \in Ids, Alive(i)', Alive(j)', ops[i].output = ops[j].output, ops[i].output # NoAddr
        PROVE  i = j
    BY <1>5, <2>3 DEF BooksInv, OwnerInv
  <2>4. ASSUME NEW a \in Addr PROVE a \in mOperandMap' <=> mOperandToBlobs'[a] # 0
    BY <1>2, <1>3 DEF BooksInv, OwnerInv
  <2> QED BY <1>2, <1>3, <1>4, <2>1, <2>2, <2>3, <2>4 DEF OwnerInv
<1>8. UserInv'
  <2>1. ASSUME NEW a \in Addr, NEW i \in Ids, tensor[a] = i PROVE Alive(i)'
    <3>1. i # 0 /\ Alive(i) /\ ops[i].output = a
      BY <2>1, OperatorTypes DEF BooksInv, UserInv, BaseInv, CacheInv
    <3> QED BY <1>1, <1>5, <2>1, <3>1
  <2>2. ASSUME NEW i \in Ids, NEW w \in Ids, Pending(i), ops[i].want = w PROVE Alive(w)'
    <3>1. Alive(w) /\ Added(i)
      BY <1>4, <2>2 DEF BooksInv, UserInv
    <3>2. w # 0 /\ ops[i].input = ops[w].output
      BY <2>2, OperatorTypes DEF BaseInv, OperatorInv, Issued
    <3>3. ops[w].output \notin Elements(newNoHold)
      BY <3>1, <3>2 DEF BooksInv, NoHoldInv
    <3> QED BY <1>5, <3>1, <3>3
  <2> QED BY <1>2, <1>4, <2>1, <2>2 DEF UserInv
<1>9. NoHoldInv'
  <2>1. ASSUME NEW a \in Addr, Announced(a) PROVE tensor[a] = 0 /\ \E i \in Ids : Alive(i)' /\ ops[i].output = a
    <3>1. Dropped(a) /\ a \notin Elements(newNoHold)
      BY <1>4, <2>1
    <3> QED BY <1>5, <3>1 DEF BooksInv, NoHoldInv
  <2>2. ASSUME NEW a \in Addr, NEW i \in Ids, Alive(i)', ops[i].output = a, tensor[a] = 0 PROVE Announced(a)
    BY <1>4, <1>5, <2>2 DEF BooksInv, NoHoldInv
  <2>3. /\ \A p, q \in DOMAIN queue : \A a \in Addr : Drops(queue[p], a) /\ Drops(queue[q], a) => p = q
        /\ \A p, q \in DOMAIN queue : \A a \in Addr : \A j \in Ids :
             Adds(queue[p], j) /\ a \in {ops[j].input, ops[j].output} /\ Drops(queue[q], a) => p < q
    BY DEF BooksInv, NoHoldInv
  <2>4. DOMAIN newNoHold' = {}
    BY <1>2
  <2> QED BY <1>2, <1>3, <1>4, <2>1, <2>2, <2>3, <2>4 DEF NoHoldInv
<1> QED BY <1>2, <1>6, <1>7, <1>8, <1>9 DEF BooksInv

LEMMA BooksStep ==
    ASSUME BaseInv, BooksInv, [EagerNext]_eagerVars, execPc' # "exited"
    PROVE  BooksInv' /\ (~aborted => ~aborted')
<1>1. CASE Create \/ Compute \/ Convert \/ GetTensorAsync \/ SyncFuture
  <2>1. PICK op \in Operator : Issues(op)
    BY <1>1, ApiIssues
  <2> QED BY <2>1, BooksIssues DEF Issues, AddOperator
<1>2. CASE \E a \in Addr : ApiTensorRefCountDecrease(a)
  <2>1. PICK a \in Addr : ApiTensorRefCountDecrease(a)
    BY <1>2
  <2>2. aborted' = aborted
    BY <2>1 DEF ApiTensorRefCountDecrease
  <2> QED BY <2>1, <2>2, BooksDecrease
<1>3. CASE ProcessMessage
  BY <1>3, BooksMessage DEF ProcessMessage
<1>4. CASE CreateKernelForOperator
  BY <1>4, BooksCreate DEF CreateKernelForOperator
<1>5. CASE FinishBatch
  BY <1>5, BooksFinish
<1>6. CASE DestroyQueue
  BY <1>6, BooksNull DEF DestroyQueue, apiVars, execVars
<1>7. CASE DestroyReturns
  <2>1. execPc' = execPc /\ destroyPc = "streams"
    BY <1>7 DEF DestroyReturns
  <2> QED BY <2>1 DEF BaseInv, ControlInv
<1>8. CASE NoMoreMessages \/ BeginExecute
  <2>1. UNCHANGED graphVars /\ aborted' = aborted
    BY <1>8 DEF NoMoreMessages, BeginExecute, graphVars, apiVars
  <2> QED BY <2>1, BooksFrame
<1>9. CASE \/ \E d \in Device : StreamStep(d)
           \/ \E d \in Gpu : GpuCompletes(d)
           \/ \E p \in posted : PoolSetsValue(p)
  <2>1. UNCHANGED <<apiVars, queue, execVars, aborted>>
    BY <1>9 DEF StreamStep, TakeKernel, EnterTensorStore, Run, GpuCompletes, PoolSetsValue
  <2>2. UNCHANGED graphVars /\ aborted' = aborted
    BY <2>1 DEF graphVars, apiVars, execVars
  <2> QED BY <2>2, BooksFrame
<1>10. CASE \/ SignalDestroy \/ JoinExecutor \/ Idle \/ UNCHANGED eagerVars
            \/ \E d \in Device : DestroyStream(d)
  <2>1. UNCHANGED <<apiVars, queue, execVars, aborted>>
    BY <1>10 DEF SignalDestroy, JoinExecutor, Idle, DestroyStream, eagerVars
  <2>2. UNCHANGED graphVars /\ aborted' = aborted
    BY <2>1 DEF graphVars, apiVars, execVars
  <2> QED BY <2>2, BooksFrame
<1>11. CASE Api
  BY <1>1, <1>2, <1>11 DEF Api
<1>12. CASE ExecutorStep
  BY <1>3, <1>4, <1>5, <1>8, <1>12 DEF ExecutorStep
<1>13. CASE DestroyStep
  BY <1>6, <1>7, <1>10, <1>13 DEF DestroyStep
<1> QED BY <1>9, <1>10, <1>11, <1>12, <1>13 DEF EagerNext

\* Nothing aborts without an executor, and it does not come back.
LEMMA ExecutorGone ==
    ASSUME [EagerNext]_eagerVars
    PROVE  /\ execPc = "exited" => execPc' = "exited"
           /\ execPc' = "exited" => aborted' = aborted
<1>1. CASE Api
  <2>1. /\ Create => execPc' = execPc /\ aborted' = aborted
        /\ Compute => execPc' = execPc /\ aborted' = aborted
        /\ Convert => execPc' = execPc /\ aborted' = aborted
    <3>1. \A op : AddOperator(op) => execPc' = execPc /\ aborted' = aborted
      BY DEF AddOperator, execVars
    <3>2. (\E op : AddOperator(op)) => execPc' = execPc /\ aborted' = aborted
      BY <3>1
    <3>3. Create => \E op : AddOperator(op)
      BY DEF Create
    <3>4. Compute => \E op : AddOperator(op)
      BY DEF Compute
    <3>5. Convert => \E op : AddOperator(op)
      BY DEF Convert
    <3> QED BY <3>2, <3>3, <3>4, <3>5
  <2>2. GetTensorAsync \/ SyncFuture => execPc' = execPc /\ aborted' = aborted
    BY DEF GetTensorAsync, SyncFuture, AddOperator, execVars
  <2>3. (\E a \in Addr : ApiTensorRefCountDecrease(a)) => execPc' = execPc /\ aborted' = aborted
    BY DEF ApiTensorRefCountDecrease, execVars
  <2> QED BY <1>1, <2>1, <2>2, <2>3 DEF Api
<1>2. CASE ExecutorStep
  BY <1>2 DEF ExecutorStep, ProcessMessage, NoMoreMessages, BeginExecute, CreateKernelForOperator,
              FinishBatch, NextBatch, Abort, execVars
<1>3. CASE \/ \E d \in Device : StreamStep(d)
           \/ \E d \in Gpu : GpuCompletes(d)
           \/ \E p \in posted : PoolSetsValue(p)
  BY <1>3 DEF StreamStep, TakeKernel, EnterTensorStore, Run, GpuCompletes, PoolSetsValue, execVars
<1>4. CASE SignalDestroy \/ DestroyStep \/ Idle \/ UNCHANGED eagerVars
  BY <1>4 DEF SignalDestroy, DestroyStep, DestroyQueue, JoinExecutor, DestroyReturns, DestroyStream,
              Idle, eagerVars, execVars
<1> QED BY <1>1, <1>2, <1>3, <1>4 DEF EagerNext

\* What holds of the graph in every state.
EagerInv == BaseInv /\ GraphInv /\ ~aborted

LEMMA EagerInvInit == EagerInit => EagerInv
<1> SUFFICES ASSUME EagerInit PROVE EagerInv
  OBVIOUS
<1>1. \A s : s = <<>> => Elements(s) = {} /\ DOMAIN s = {}
  BY DEF Elements
<1>2. /\ ops = <<>> /\ queue = <<>> /\ newOps = <<>> /\ newNoHold = <<>> /\ mOperandMap = {} /\ ~aborted
      /\ Ids = {} /\ \A a \in Addr : tensor[a] = 0 /\ mOperandToBlobs[a] = 0
  BY DEF EagerInit, Ids
<1>3. \A i : ~Added(i) /\ ~Pending(i) /\ ~Announced(i) /\ ~Dropped(i)
  BY <1>1, <1>2 DEF Added, Pending, Announced, Dropped
<1>4. BooksInv
  BY <1>1, <1>2, <1>3 DEF BooksInv, OrderInv, OwnerInv, UserInv, NoHoldInv
<1> QED BY <1>2, <1>4, BaseInit DEF EagerInv, GraphInv

LEMMA EagerInvStep == EagerInv /\ [EagerNext]_eagerVars => EagerInv'
<1> SUFFICES ASSUME EagerInv, [EagerNext]_eagerVars PROVE EagerInv'
  OBVIOUS
<1>1. BaseInv'
  BY BaseStep DEF EagerInv
<1>2. CASE execPc' = "exited"
  BY <1>1, <1>2, ExecutorGone DEF EagerInv, GraphInv
<1>3. CASE execPc' # "exited"
  <2>1. BooksInv
    BY <1>3, ExecutorGone DEF EagerInv, GraphInv
  <2>2. BooksInv' /\ ~aborted'
    BY <1>3, <2>1, BooksStep DEF EagerInv
  <2> QED BY <1>1, <2>2 DEF EagerInv, GraphInv
<1> QED BY <1>2, <1>3

\* The assertions of the naive runner hold: an operand is known when an operator
\* reads it, unknown when one writes it, and known when it is dropped, once,
\* although messages name it by an address that the allocator reuses.
THEOREM EagerNeverAborts == EagerSpec => []NoAbort
<1>1. EagerInv => NoAbort
  BY DEF EagerInv, NoAbort
<1> QED BY EagerInvInit, EagerInvStep, <1>1, PTL DEF EagerSpec

LEMMA BlobsFollow == EagerInv => BlobsAccountedFor
<1> SUFFICES ASSUME EagerInv, execPc = "poll", msgCount = 0
             PROVE  /\ mOperandMap = Resident
                    /\ \A a \in mOperandMap :
                         Cardinality(PendingNoHold(a)) = (IF tensor[a] = mOperandToBlobs[a] THEN 0 ELSE 1)
  BY DEF BlobsAccountedFor
<1>1. BaseInv /\ BooksInv
  BY DEF EagerInv, GraphInv
<1>2. Elements(newOps) = {} /\ Elements(newNoHold) = {}
  BY <1>1 DEF BaseInv, ControlInv, Elements
<1>3. mOperandMap = Resident
  BY <1>1, <1>2 DEF BaseInv, EagerTypeOK, BooksInv, OwnerInv, Resident
<1>4. ASSUME NEW a \in mOperandMap
      PROVE  Cardinality(PendingNoHold(a)) = (IF tensor[a] = mOperandToBlobs[a] THEN 0 ELSE 1)
  <2>1. a \in Addr /\ mOperandToBlobs[a] # 0
    BY <1>3 DEF Resident
  <2>2. PICK i \in Ids : i = mOperandToBlobs[a]
    BY <1>1, <2>1 DEF BooksInv, OwnerInv
  <2>3. ops[i].output = a /\ Alive(i)
    BY <1>1, <2>1, <2>2 DEF BooksInv, OwnerInv, Alive
  <2>4. PendingNoHold(a) = {n \in DOMAIN queue : Drops(queue[n], a)}
    BY DEF PendingNoHold, Drops
  <2>5. CASE tensor[a] = i
    <3>1. ~Announced(a)
      BY <1>1, <2>1, <2>2, <2>5 DEF BooksInv, NoHoldInv, Dropped
    <3>2. PendingNoHold(a) = {}
      BY <2>4, <3>1 DEF Announced
    <3> QED BY <2>2, <2>5, <3>2, FS_EmptySet
  <2>6. CASE tensor[a] # i
    <3>1. tensor[a] = 0
      <4>1. SUFFICES ASSUME tensor[a] # 0 PROVE FALSE
        OBVIOUS
      <4>2. PICK j \in Ids : j = tensor[a] /\ ops[j].output = a
        BY <1>1, <2>1, <4>1 DEF BaseInv, CacheInv
      <4>3. Alive(j)
        BY <1>1, <2>1, <4>2 DEF BooksInv, UserInv
      <4> QED BY <1>1, <2>1, <2>3, <2>6, <4>2, <4>3, EagerAssumption DEF BooksInv, OwnerInv
    <3>2. Announced(a)
      BY <1>1, <1>2, <2>1, <2>3, <3>1 DEF BooksInv, NoHoldInv, Dropped
    <3>3. PICK n \in DOMAIN queue : Drops(queue[n], a)
      BY <3>2 DEF Announced
    <3>4. PendingNoHold(a) = {n}
      BY <1>1, <2>1, <2>4, <3>3 DEF BooksInv, NoHoldInv
    <3> QED BY <2>2, <2>6, <3>4, FS_Singleton
  <2> QED BY <2>5, <2>6
<1> QED BY <1>3, <1>4

\* No operand leaks and none is released twice: between two batches the runner
\* and the logical graph list the same operands, and for each that the API has
\* dropped exactly one message is on its way.
THEOREM EagerBlobs == EagerSpec => []BlobsAccountedFor
BY EagerInvInit, EagerInvStep, BlobsFollow, PTL DEF EagerSpec
-----------------------------------------------------------------------------
(* Kernels on their streams *)

LEMMA LineTypes ==
    ASSUME BaseInv, NEW d \in Device
    PROVE  /\ Line(d) \in Seq(Kernel)
           /\ Elements(Line(d)) = Elements(kernelQueue[d]) \cup Elements(unlaunched[d])
           /\ Elements(Line(d)) \subseteq Kernel
           /\ \A p \in DOMAIN Line(d) : Line(d)[p] \in Elements(Line(d)) /\ p \in Nat
           /\ NoKernel \in Elements(Line(d)) => streamDestroy[d]
<1>1. kernelQueue[d] \in Seq(Kernel) /\ unlaunched[d] \in Seq(Kernel)
  BY DEF BaseInv, EagerTypeOK
<1>2. Line(d) \in Seq(Kernel) /\ Elements(Line(d)) = Elements(kernelQueue[d]) \cup Elements(unlaunched[d])
  BY <1>1, Joined DEF Line
<1>3. Elements(Line(d)) \subseteq Kernel /\ \A p \in DOMAIN Line(d) : Line(d)[p] \in Elements(Line(d)) /\ p \in Nat
  BY <1>2, ElementsOf
<1>4. NoKernel \in Elements(Line(d)) => streamDestroy[d]
  BY <1>2 DEF BaseInv, NullInv
<1> QED BY <1>2, <1>3, <1>4

LEMMA KernelTypes ==
    \A k \in Kernel : /\ k.op \in Nat /\ k.op \in Id \cup {0}
                      /\ k = NoKernel <=> k.op = 0
<1>1. Id \subseteq Nat
  BY DEF Id
<1>2. TAKE k \in Kernel
<1>3. CASE k = NoKernel
  <2>1. k.op = 0 /\ 0 \in Nat /\ 0 \in Id \cup {0}
    BY <1>3, Kernels
  <2> QED BY <1>3, <2>1
<1>4. CASE k # NoKernel
  <2>1. k.op \in Id /\ k.op # 0
    BY <1>4, Kernels
  <2> QED BY <1>1, <1>4, <2>1
<1> QED BY <1>3, <1>4

\* Neither half of the invariant about streams looks at how a kernel was launched.
LEMMA LineFrame ==
    ASSUME LineInv, UNCHANGED <<ops, running, streamPc>>, \A d \in Device : Line(d)' = Line(d)
    PROVE  LineInv' /\ (\A i, d : d \in Device => (InLine(i, d)' <=> InLine(i, d)))
<1>1. Ids' = Ids
  BY DEF Ids
<1>2. \A k, d : (KernelOf(k, d)' <=> KernelOf(k, d)) /\ (Running(d, k)' <=> Running(d, k))
  BY <1>1 DEF KernelOf, Running
<1>3. LineInv'
  BY <1>2 DEF LineInv
<1>4. \A i, d : d \in Device => (InLine(i, d)' <=> InLine(i, d))
  BY <1>2 DEF InLine
<1> QED BY <1>3, <1>4

LEMMA DeviceFrame ==
    ASSUME BaseInv, UNCHANGED <<ops, ran, onDevice, posted, ready>>
    PROVE  DeviceInv => DeviceInv'
<1>1. Ids' = Ids /\ (\A i : HandsOver(i)' <=> HandsOver(i)) /\ \A i, d : OnDevice(i, d)' <=> OnDevice(i, d)
  BY DEF Ids, HandsOver, OnDevice
<1> QED BY <1>1 DEF DeviceInv

LEMMA SourceFrame ==
    ASSUME UNCHANGED <<ops, ran, onDevice>>
    PROVE  SourceInv => SourceInv'
<1>1. Ids' = Ids /\ (\A i : SourcesDone(i)' <=> SourcesDone(i)) /\ \A i, d : Computed(i, d)' <=> Computed(i, d)
  BY DEF Ids, SourcesDone, SourceGpus, Computed
<1> QED BY <1>1 DEF SourceInv

LEMMA StoreFrame ==
    ASSUME UNCHANGED <<ops, ran, arrived, running, streamPc>>
    PROVE  StoreInv => StoreInv'
<1>1. Ids' = Ids /\ \A i : Rendezvous(i)' <=> Rendezvous(i)
  BY DEF Ids, Rendezvous
<1> QED BY <1>1 DEF StoreInv

LEMMA StreamFrame ==
    ASSUME BaseInv, StreamInv,
           UNCHANGED <<ops, running, streamPc, ran, arrived, onDevice, posted, ready>>,
           \A d \in Device : Line(d)' = Line(d),
           execPc' # "exited" => execPc # "exited" /\ \A i \in Id : Pending(i)' <=> Pending(i)
    PROVE  StreamInv'
<1>1. LineInv' /\ DeviceInv' /\ SourceInv' /\ StoreInv'
  BY LineFrame, DeviceFrame, SourceFrame, StoreFrame DEF StreamInv
<1>2. RanInv'
  <2>1. Ids' = Ids /\ Ids \subseteq Id
    BY OperatorTypes DEF Ids
  <2>2. \A i, d : d \in Device => (InLine(i, d)' <=> InLine(i, d)) /\ (Seen(i, d)' <=> Seen(i, d))
    BY LineFrame DEF StreamInv, Seen
  <2>3. RanInv
    BY DEF StreamInv
  <2> QED BY <2>1, <2>2, <2>3 DEF RanInv
<1> QED BY <1>1, <1>2 DEF StreamInv

\* What is queued or has run was issued.
LEMMA SeenIssued ==
    ASSUME BaseInv, StreamInv, NEW d \in Device, NEW i \in Id, Seen(i, d)
    PROVE  i \in Ids /\ d \in ops[i].kernels
<1>0. 0 \notin Id
  BY DEF Id
<1>1. CASE <<i, d>> \in ran
  BY <1>1 DEF StreamInv, RanInv
<1>2. CASE InLine(i, d)
  <2>1. PICK k \in Kernel : k.op = i /\ (Running(d, k) \/ k \in Elements(Line(d)))
    BY <1>2 DEF InLine
  <2>2. k # NoKernel
    BY <1>0, <2>1, KernelTypes
  <2> QED BY <2>1, <2>2 DEF StreamInv, LineInv, KernelOf
<1> QED BY <1>1, <1>2 DEF Seen

LEMMA StreamIssues ==
    ASSUME BaseInv, StreamInv, NEW op \in Operator, Issues(op)
    PROVE  StreamInv'
<1>0. PICK n \in Id : n = Len(ops) + 1
  BY DEF BaseInv, EagerTypeOK, Issues, Id
<1>1. /\ n \notin Ids /\ Ids' = Ids \cup {n} /\ Ids \subseteq Id /\ (\A i \in Ids : ops'[i] = ops[i] /\ i < n /\ i \in Nat)
      /\ n \in Nat
  <2>1. Len(ops) \in Nat /\ ops \in Seq(Operator) /\ ops' = Append(ops, op)
    BY DEF BaseInv, EagerTypeOK, Issues, AddOperator
  <2>2. Len(ops') = n /\ \A i \in 1..Len(ops) : ops'[i] = ops[i] /\ i < n
    BY <1>0, <2>1
  <2> QED BY <1>0, <2>1, <2>2 DEF Ids, Id
<1>2. UNCHANGED <<execPc, newOps, unlaunched, kernelQueue, running, streamPc, arrived, ran, onDevice, posted, ready>>
  BY DEF Issues, AddOperator, execVars, streamVars, futureVars
<1>3. \A i : Pending(i)' <=> Pending(i) \/ i = n
  <2> DEFINE m == [type |-> "addOperator", op |-> n]
  <2>1. m \in Message /\ \A i : Adds(m, i) <=> i = n
    BY Messages DEF Adds
  <2>2. queue \in Seq(Message) /\ queue' = Append(queue, m)
    BY <1>0 DEF BaseInv, EagerTypeOK, Issues, AddOperator
  <2> HIDE DEF m
  <2>3. \A i : Added(i)' <=> Added(i) \/ i = n
    BY <2>1, <2>2, QueueGrows
  <2> QED BY <1>2, <2>3 DEF Pending
<1>4. (\A d : Line(d)' = Line(d)) /\ \A d, k : Running(d, k)' <=> Running(d, k)
  BY <1>2 DEF Line, Running
<1>5. /\ \A i, d : InLine(i, d)' <=> InLine(i, d)
      /\ \A i, d : Seen(i, d)' <=> Seen(i, d)
  BY <1>2, <1>4 DEF InLine, Seen
<1>6. \A d \in Device : \A i \in Id : Seen(i, d) \/ InLine(i, d) \/ <<i, d>> \in ran => i \in Ids /\ i # n /\ d \in ops[i].kernels
  BY <1>1, SeenIssued DEF Seen
<1>7. LineInv'
  <2>1. \A k, d : KernelOf(k, d) => KernelOf(k, d)'
    BY <1>1 DEF KernelOf
  <2> QED BY <1>4, <2>1 DEF StreamInv, LineInv
<1>8. RanInv'
  <2>1. ASSUME NEW d \in Device
        PROVE  /\ \A i \in Id : <<i, d>> \in ran => i \in Ids' /\ d \in ops'[i].kernels
               /\ \A i, j \in Ids' : <<i, d>> \in ran /\ InLine(j, d) => i < j
               /\ \A i, j \in Ids' : <<i, d>> \in ran /\ j < i /\ d \in ops'[j].kernels => <<j, d>> \in ran
               /\ streamPc[d] # "exited" =>
                    \A i, j \in Ids' : Seen(i, d) /\ j < i /\ d \in ops'[j].kernels => Seen(j, d)
    <3>1. \A i \in Ids' : Seen(i, d) \/ InLine(i, d) \/ <<i, d>> \in ran => i \in Ids
      BY <1>1, <1>6
    <3>2. \A i \in Ids : \A j \in Ids' : j < i => j \in Ids
      BY <1>1
    <3> QED BY <1>1, <3>1, <3>2 DEF StreamInv, RanInv
  <2>2. ASSUME NEW d \in Device, execPc # "exited"
        PROVE  /\ \A i, j \in Ids' : Seen(i, d) /\ Pending(j)' => i < j
               /\ \A i \in Ids' : d \in ops'[i].kernels => Pending(i)' \/ Seen(i, d)
    <3>1. \A i \in Ids' : Seen(i, d) => i \in Ids
      BY <1>1, <1>6
    <3> QED BY <1>1, <1>3, <2>2, <3>1 DEF StreamInv, RanInv
  <2> QED BY <1>2, <1>5, <2>1, <2>2 DEF RanInv
<1>9. StoreInv'
  <2>1. \A i \in Ids : Rendezvous(i)' <=> Rendezvous(i)
    BY <1>1 DEF Rendezvous
  <2>2. \A d \in Device : <<n, d>> \notin ran
    BY <1>1, <1>6
  <2> QED BY <1>1, <1>2, <2>1, <2>2 DEF StreamInv, StoreInv
<1>10. DeviceInv'
  <2>1. \A i \in Ids : HandsOver(i)' <=> HandsOver(i)
    BY <1>1 DEF HandsOver
  <2>2. \A i, d : OnDevice(i, d)' <=> OnDevice(i, d)
    BY <1>2 DEF OnDevice
  <2>3. \A i \in Id : \A d \in Device : <<i, d>> \in ran => i \in Ids
    BY <1>6
  <2>4. /\ \A f \in ready : f \in ran /\ f[1] \in Ids
        /\ \A p \in posted : p.op \in Ids
    <3>1. ready \subseteq Id \X Device /\ posted \subseteq [op : Id, device : Gpu, event : SUBSET Id]
      BY DEF BaseInv, EagerTypeOK
    <3>2. ASSUME NEW f \in ready PROVE f \in ran /\ f[1] \in Ids
      <4>1. PICK i \in Id, d \in Device : f = <<i, d>>
        BY <3>1
      <4>2. <<i, d>> \in ran
        BY <4>1 DEF StreamInv, DeviceInv
      <4> QED BY <2>3, <4>1, <4>2
    <3>3. ASSUME NEW p \in posted PROVE p.op \in Ids
      <4>1. p.op \in Id /\ p.device \in Device /\ <<p.op, p.device>> \in ran
        BY <3>1 DEF StreamInv, DeviceInv
      <4> QED BY <2>3, <4>1
    <3> QED BY <3>2, <3>3
  <2>5. \A d \in Gpu : d \in Device
    OBVIOUS
  <2>6. \A d \in Gpu : \A i, j \in Ids' : <<i, d>> \in ran /\ ~HandsOver(i)' /\ OnDevice(j, d) => OnDevice(i, d) \/ i < j
    <3>1. SUFFICES ASSUME NEW d \in Gpu, NEW i \in Ids', NEW j \in Ids', <<i, d>> \in ran, ~HandsOver(i)', OnDevice(j, d)
                   PROVE  OnDevice(i, d) \/ i < j
      OBVIOUS
    <3>2. <<j, d>> \in ran /\ i \in Id /\ j \in Id
      BY <1>1, <3>1 DEF StreamInv, DeviceInv
    <3>3. i \in Ids /\ j \in Ids
      BY <2>3, <2>5, <3>1, <3>2
    <3> QED BY <2>1, <3>1, <3>3 DEF StreamInv, DeviceInv
  <2> QED BY <1>2, <2>1, <2>2, <2>4, <2>6 DEF StreamInv, DeviceInv
<1>11. SourceInv'
  <2>1. \A i, d : Computed(i, d)' <=> Computed(i, d)
    BY <1>2 DEF Computed
  <2>2. ASSUME NEW i \in Ids, ops[i].kind = "convert" PROVE SourcesDone(i)' <=> SourcesDone(i)
    <3>1. ops[i].want \in Ids
      BY <2>2, OperatorTypes DEF BaseInv, OperatorInv, Issued
    <3> QED BY <1>1, <1>2, <3>1 DEF SourcesDone, SourceGpus
  <2>3. \A d \in ops'[n].mesh : ~Computed(n, d)
    <3>1. \A d \in Device : <<n, d>> \notin ran
      BY <1>1, <1>6
    <3>2. ops'[n].mesh \subseteq Device
      <4>1. ops'[n] = op
        BY <1>0 DEF Issues, AddOperator, BaseInv, EagerTypeOK
      <4> QED BY <4>1 DEF Operator
    <3> QED BY <3>1, <3>2 DEF Computed
  <2> QED BY <1>1, <2>1, <2>2, <2>3 DEF StreamInv, SourceInv
<1> QED BY <1>7, <1>8, <1>9, <1>10, <1>11 DEF StreamInv

\* The ways a line grows, shrinks or is launched.
LEMMA Lines ==
    ASSUME NEW S, NEW s \in Seq(S), NEW t \in Seq(S)
    PROVE  /\ \A e \in S : s \o Append(t, e) = Append(s \o t, e)
           /\ s # <<>> => /\ s \o t # <<>> /\ Head(s \o t) = Head(s)
                          /\ Tail(s) \o t = Tail(s \o t)
           /\ (s \o t) \o <<>> = s \o t
           /\ t = <<>> => s \o t = s
<1>1. \A e \in S : s \o Append(t, e) = Append(s \o t, e)
  OBVIOUS
<1>2. s # <<>> => s \o t # <<>> /\ Head(s \o t) = Head(s)
  OBVIOUS
<1>3. ASSUME s # <<>> PROVE Tail(s) \o t = Tail(s \o t)
  <2> DEFINE u == s \o t  v == Tail(s) \o t
  <2>1. u \in Seq(S) /\ v \in Seq(S) /\ u # <<>> /\ Len(u) = Len(s) + Len(t) /\ Len(s) \in Nat \ {0} /\ Len(t) \in Nat
    BY <1>3
  <2>2. Tail(u) \in Seq(S) /\ Len(Tail(u)) = Len(s) + Len(t) - 1 /\ Len(v) = Len(s) - 1 + Len(t)
    BY <1>3, <2>1
  <2>3. ASSUME NEW i \in 1..Len(v) PROVE v[i] = Tail(u)[i]
    <3>1. Tail(u)[i] = u[i + 1]
      BY <2>1, <2>2
    <3>2. CASE i <= Len(s) - 1
      BY <1>3, <2>1, <3>1, <3>2
    <3>3. CASE i > Len(s) - 1
      BY <1>3, <2>1, <2>2, <3>1, <3>3
    <3> QED BY <2>1, <2>2, <3>2, <3>3
  <2> HIDE DEF u, v
  <2>4. v = Tail(u)
    BY <2>1, <2>2, <2>3
  <2> QED BY <2>4 DEF u, v
<1>4. (s \o t) \o <<>> = s \o t /\ (t = <<>> => s \o t = s)
  OBVIOUS
<1> QED BY <1>1, <1>2, <1>3, <1>4

LEMMA StreamCreate ==
    ASSUME BaseInv, BooksInv, StreamInv, CreateKernelForOperator
    PROVE  StreamInv'
<1>0. execPc = "create" /\ newOps # <<>>
  BY DEF CreateKernelForOperator
<1>1. PICK i \in Ids : i = Head(newOps) /\ Issued(ops, i)
  BY <1>0, NextOperator
<1>2. /\ Pending(i) /\ i \notin Elements(Tail(newOps)) /\ ~Added(i)
      /\ Elements(newOps) = {i} \cup Elements(Tail(newOps))
      /\ \A j \in Id : Pending(j) => j = i \/ i < j
      /\ BlobsPresent(ops[i]) /\ OutputAbsent(ops[i]) /\ InputBlobs(ops[i]) = ops[i].want
  BY <1>0, <1>1, NextOfBatch
<1>3. /\ unlaunched' = [d \in Device |-> IF d \in ops[i].kernels
                                         THEN Append(unlaunched[d], [op |-> i, device |-> d, input |-> ops[i].want])
                                         ELSE unlaunched[d]]
      /\ newOps' = Tail(newOps)
      /\ UNCHANGED <<ops, queue, execPc, kernelQueue, running, streamPc, arrived, ran, onDevice, posted, ready>>
      /\ Ids' = Ids
  BY <1>1, <1>2 DEF CreateKernelForOperator, CreateKernels, apiVars, streamVars, futureVars, Ids
<1>4. /\ i \in Nat /\ i \in Id /\ Ids \subseteq Id /\ Ids \subseteq Nat
      /\ ops[i].want \in 0..MaxOp
  <2>1. ops[Head(newOps)] \in Operator
    BY <1>0, NextOperator
  <2> QED BY <1>1, <2>1, OperatorTypes DEF Operator
<1>5. \A j : Pending(j)' <=> Pending(j) /\ j # i
  <2>1. Elements(newOps)' = Elements(newOps) \ {i}
    BY <1>2, <1>3
  <2>2. \A j : Added(j)' <=> Added(j)
    BY <1>3 DEF Added
  <2> QED BY <1>2, <2>1, <2>2 DEF Pending
<1>6. ASSUME NEW d \in Device
      PROVE  /\ d \notin ops[i].kernels => Line(d)' = Line(d)
             /\ d \in ops[i].kernels =>
                  \E k \in Kernel : k.op = i /\ k.input = ops[i].want /\ Line(d)' = Append(Line(d), k)
  <2>1. d \notin ops[i].kernels => Line(d)' = Line(d)
    BY <1>3 DEF Line
  <2>2. ASSUME d \in ops[i].kernels
        PROVE  \E k \in Kernel : k.op = i /\ k.input = ops[i].want /\ Line(d)' = Append(Line(d), k)
    <3>1. PICK k \in Kernel : k = [op |-> i, device |-> d, input |-> ops[i].want]
      BY <1>4, Kernels
    <3>2. k.op = i /\ k.input = ops[i].want
      BY <3>1
    <3>3. unlaunched'[d] = Append(unlaunched[d], k)
      BY <1>3, <2>2, <3>1
    <3>4. PICK s \in Seq(Kernel), t \in Seq(Kernel) : s = kernelQueue[d] /\ t = unlaunched[d]
      BY DEF BaseInv, EagerTypeOK
    <3>5. s \o Append(t, k) = Append(s \o t, k)
      BY Lines
    <3>6. kernelQueue' = kernelQueue
      BY <1>3
    <3>7. Line(d)' = Append(Line(d), k)
      BY <3>3, <3>4, <3>5, <3>6 DEF Line
    <3> QED BY <3>2, <3>7
  <2> QED BY <2>1, <2>2
<1>7. ASSUME NEW d \in Device
      PROVE  \A k \in Kernel : k \in Elements(Line(d))' => k \in Elements(Line(d)) \/ (k.op = i /\ d \in ops[i].kernels /\ k.input = ops[i].want)
  <2>1. CASE d \notin ops[i].kernels
    <3>1. Elements(Line(d))' = Elements(Line(d))
      BY <1>6, <2>1
    <3> QED BY <3>1
  <2>2. CASE d \in ops[i].kernels
    <3>1. PICK k \in Kernel : k.op = i /\ k.input = ops[i].want /\ Line(d)' = Append(Line(d), k)
      BY <1>6, <2>2
    <3>2. Elements(Line(d))' = Elements(Line(d)) \cup {k}
      BY <3>1, LineTypes, Appended
    <3> QED BY <2>2, <3>1, <3>2
  <2> QED BY <2>1, <2>2
<1>8. /\ \A d, k : Running(d, k)' <=> Running(d, k)
      /\ \A d \in Device, j \in Id : InLine(j, d)' <=> InLine(j, d) \/ (j = i /\ d \in ops[i].kernels)
      /\ \A d \in Device, j \in Id : Seen(j, d)' <=> Seen(j, d) \/ (j = i /\ d \in ops[i].kernels)
  <2>1. \A d, k : Running(d, k)' <=> Running(d, k)
    BY <1>3 DEF Running
  <2>2. ASSUME NEW d \in Device, NEW j \in Id
        PROVE  InLine(j, d)' <=> InLine(j, d) \/ (j = i /\ d \in ops[i].kernels)
    <3>1. CASE d \notin ops[i].kernels
      <4>1. Elements(Line(d))' = Elements(Line(d))
        BY <1>6, <3>1
      <4> QED BY <2>1, <3>1, <4>1 DEF InLine
    <3>2. CASE d \in ops[i].kernels
      <4>1. PICK k \in Kernel : k.op = i /\ k.input = ops[i].want /\ Line(d)' = Append(Line(d), k)
        BY <1>6, <3>2
      <4>2. Elements(Line(d))' = Elements(Line(d)) \cup {k}
        BY <4>1, LineTypes, Appended
      <4> QED BY <2>1, <3>2, <4>1, <4>2 DEF InLine
    <3> QED BY <3>1, <3>2
  <2> QED BY <1>3, <2>1, <2>2 DEF Seen
<1>9. \A d \in Device, j \in Ids : Seen(j, d) => j < i
  BY <1>0, <1>2 DEF StreamInv, RanInv
<1>10. \A d \in Device : streamDestroy[d] = FALSE
  BY <1>0 DEF BaseInv, ControlInv, EagerTypeOK
<1>11. \A d \in Device, k \in Kernel : k \in Elements(Line(d)) \/ Running(d, k) => k # NoKernel /\ k.op < i
  <2>1. SUFFICES ASSUME NEW d \in Device, NEW k \in Kernel, k \in Elements(Line(d)) \/ Running(d, k)
                 PROVE  k # NoKernel /\ k.op < i
    OBVIOUS
  <2>2. k # NoKernel
    BY <1>10, <2>1, LineTypes DEF Running, BaseInv, NullInv
  <2>3. k.op \in Id /\ InLine(k.op, d)
    BY <2>1, <2>2, Kernels DEF InLine
  <2>4. Seen(k.op, d)
    BY <2>3 DEF Seen
  <2> QED BY <1>9, <2>2, <2>3, <2>4, SeenIssued
<1>12. LineInv'
  <2>1. \A k, d : KernelOf(k, d)' <=> KernelOf(k, d)
    BY <1>3 DEF KernelOf
  <2>2. ASSUME NEW d \in Device, NEW p \in DOMAIN Line(d)', NEW q \in DOMAIN Line(d)', p < q
        PROVE  Line(d)'[p].op < Line(d)'[q].op
    <3>1. CASE d \notin ops[i].kernels
      <4>1. Line(d)' = Line(d)
        BY <1>6, <3>1
      <4>2. Line(d)[q] # NoKernel
        BY <1>11, <2>2, <4>1, LineTypes
      <4> QED BY <2>2, <4>1, <4>2 DEF StreamInv, LineInv
    <3>2. CASE d \in ops[i].kernels
      <4>1. PICK k \in Kernel : k.op = i /\ k.input = ops[i].want /\ Line(d)' = Append(Line(d), k)
        BY <1>6, <3>2
      <4>2. /\ DOMAIN Line(d)' = DOMAIN Line(d) \cup {Len(Line(d)) + 1} /\ Line(d)'[Len(Line(d)) + 1] = k
            /\ \A n \in DOMAIN Line(d) : Line(d)'[n] = Line(d)[n] /\ n < Len(Line(d)) + 1
        BY <4>1, LineTypes, Appended
      <4>3. p \in DOMAIN Line(d) /\ Line(d)'[p] = Line(d)[p] /\ Line(d)[p] \in Elements(Line(d)) /\ Line(d)[p] \in Kernel
        <5>1. Len(Line(d)) \in Nat /\ DOMAIN Line(d) \subseteq Nat
          BY LineTypes
        <5> QED BY <2>2, <4>2, <5>1, LineTypes
      <4>4. CASE q \in DOMAIN Line(d)
        <5>1. Line(d)[q] # NoKernel
          BY <1>11, <4>4, LineTypes
        <5> QED BY <2>2, <4>2, <4>3, <4>4, <5>1 DEF StreamInv, LineInv
      <4>5. CASE q = Len(Line(d)) + 1
        BY <1>11, <4>1, <4>2, <4>3, <4>5
      <4> QED BY <4>2, <4>4, <4>5
    <3> QED BY <3>1, <3>2
  <2>3. ASSUME NEW d \in Device, NEW k \in Kernel, k \in Elements(Line(d))' PROVE k = NoKernel \/ KernelOf(k, d)
    BY <1>1, <1>7, <2>3 DEF StreamInv, LineInv, KernelOf
  <2>4. ASSUME NEW d \in Device, NEW k \in Kernel, Running(d, k)
        PROVE  KernelOf(k, d) /\ \A l \in Kernel : l \in Elements(Line(d))' => l = NoKernel \/ k.op < l.op
    BY <1>7, <1>11, <2>4 DEF StreamInv, LineInv
  <2> QED BY <1>8, <2>1, <2>2, <2>3, <2>4 DEF LineInv
<1>13. RanInv'
  <2>0. RanInv
    BY DEF StreamInv
  <2>1. ASSUME NEW d \in Device
        PROVE  /\ \A j \in Id : <<j, d>> \in ran => j \in Ids /\ d \in ops[j].kernels
               /\ \A j, k \in Ids : <<j, d>> \in ran /\ InLine(k, d)' => j < k
               /\ \A j, k \in Ids : <<j, d>> \in ran /\ k < j /\ d \in ops[k].kernels => <<k, d>> \in ran
    BY <1>4, <1>8, <1>9, <2>0 DEF RanInv, Seen
  <2>2. ASSUME NEW d \in Device, NEW j \in Ids, NEW k \in Ids, Seen(j, d)', k < j, d \in ops[k].kernels
        PROVE  Seen(k, d)'
    <3>1. Seen(j, d) \/ j = i
      BY <1>4, <1>8, <2>2
    <3>0. j \in Nat /\ k \in Nat /\ i \in Nat /\ k \in Id
      BY <1>4
    <3>2. k < i
      <4>1. j <= i
        BY <1>9, <3>0, <3>1
      <4> QED BY <2>2, <3>0, <4>1
    <3>3. ~Pending(k)
      <4>1. Pending(k) => k = i \/ i < k
        BY <1>2, <3>0
      <4> QED BY <3>0, <3>2, <4>1
    <3> QED BY <1>0, <1>4, <1>8, <2>0, <2>2, <3>3 DEF RanInv
  <2>3. ASSUME NEW d \in Device, NEW j \in Ids, NEW k \in Ids, Seen(j, d)', Pending(k)' PROVE j < k
    <3>1. Pending(k) /\ i < k
      BY <1>2, <1>4, <1>5, <2>3
    <3> QED BY <1>0, <1>4, <1>8, <2>0, <2>3, <3>1 DEF RanInv
  <2>4. ASSUME NEW d \in Device, NEW j \in Ids, d \in ops[j].kernels PROVE Pending(j)' \/ Seen(j, d)'
    BY <1>0, <1>4, <1>5, <1>8, <2>0, <2>4 DEF RanInv
  <2> QED BY <1>3, <2>1, <2>2, <2>3, <2>4 DEF RanInv
<1> QED BY <1>3, <1>12, <1>13, DeviceFrame, SourceFrame, StoreFrame DEF StreamInv

LEMMA StreamFinish ==
    ASSUME BaseInv, BooksInv, StreamInv, FinishBatch
    PROVE  StreamInv'
<1>0. DeleteAsserts /\ newOps = <<>>
  BY BatchDrops DEF FinishBatch
<1>1. /\ kernelQueue' = [d \in Device |-> kernelQueue[d] \o unlaunched[d]]
      /\ unlaunched' = [d \in Device |-> <<>>]
      /\ execPc = "create"
      /\ UNCHANGED <<ops, queue, newOps, running, streamPc, arrived, ran, onDevice, posted, ready>>
  BY <1>0 DEF FinishBatch, LaunchKernels, apiVars, streamVars, futureVars
<1>2. ASSUME NEW d \in Device PROVE Line(d)' = Line(d)
  <2>1. kernelQueue'[d] = kernelQueue[d] \o unlaunched[d] /\ unlaunched'[d] = <<>>
    BY <1>1
  <2>2. PICK s \in Seq(Kernel), t \in Seq(Kernel) : s = kernelQueue[d] /\ t = unlaunched[d]
    BY DEF BaseInv, EagerTypeOK
  <2>3. (s \o t) \o <<>> = s \o t
    BY Lines
  <2> QED BY <2>1, <2>2, <2>3 DEF Line
<1>3. execPc # "exited" /\ \A i \in Id : Pending(i)' <=> Pending(i)
  BY <1>1 DEF Pending, Added
<1> QED BY <1>1, <1>2, <1>3, StreamFrame

\* The next kernel of a stream comes before those that stay in its line.
LEMMA FirstOfLine ==
    ASSUME BaseInv, LineInv, NEW d \in Device, kernelQueue[d] # <<>>
    PROVE  /\ Head(kernelQueue[d]) \in Kernel /\ Head(kernelQueue[d]) \in Elements(Line(d))
           /\ Tail(kernelQueue[d]) \o unlaunched[d] = Tail(Line(d))
           /\ Elements(Line(d)) = {Head(kernelQueue[d])} \cup Elements(Tail(Line(d)))
           /\ \A l \in Kernel : l \in Elements(Tail(Line(d))) => l = NoKernel \/ Head(kernelQueue[d]).op < l.op
           /\ \A p, q \in DOMAIN Tail(Line(d)) : p < q =>
                Tail(Line(d))[p].op < Tail(Line(d))[q].op \/ Tail(Line(d))[q] = NoKernel
<1>1. PICK s \in Seq(Kernel), t \in Seq(Kernel) : s = kernelQueue[d] /\ t = unlaunched[d]
  BY DEF BaseInv, EagerTypeOK
<1>2. s # <<>> /\ s \o t # <<>> /\ Head(s \o t) = Head(s) /\ Tail(s) \o t = Tail(s \o t)
  <2>1. s # <<>>
    BY <1>1
  <2> QED BY <2>1, Lines
<1>3. Line(d) = s \o t
  BY <1>1 DEF Line
<1>4. PICK u \in Seq(Kernel) : u = Line(d)
  BY LineTypes
<1>5. u # <<>> /\ Head(u) = Head(kernelQueue[d]) /\ Tail(kernelQueue[d]) \o unlaunched[d] = Tail(u)
  BY <1>1, <1>2, <1>3, <1>4
<1>6. /\ Tail(u) \in Seq(Kernel) /\ Head(u) \in Kernel /\ 1 \in DOMAIN u /\ Head(u) = u[1]
      /\ \A i \in DOMAIN Tail(u) : i \in Nat /\ i + 1 \in DOMAIN u /\ Tail(u)[i] = u[i + 1]
      /\ Elements(u) = {Head(u)} \cup Elements(Tail(u))
  BY <1>5, Removed
<1>7. \A p, q \in DOMAIN u : p < q => u[p].op < u[q].op \/ u[q] = NoKernel
  BY <1>4 DEF LineInv
<1>8. ASSUME NEW l \in Kernel, l \in Elements(Tail(u)) PROVE l = NoKernel \/ Head(u).op < l.op
  <2>1. PICK p \in DOMAIN Tail(u) : Tail(u)[p] = l
    <3>1. PICK v \in Seq(Kernel) : v = Tail(u)
      BY <1>6
    <3>2. l \in Elements(v)
      BY <1>8, <3>1
    <3>3. \E p \in DOMAIN v : v[p] = l
      BY <3>2, ElementsOf
    <3> QED BY <3>1, <3>3
  <2>2. 1 < p + 1
    BY <1>6, <2>1, ElementsOf
  <2> QED BY <1>6, <1>7, <2>1, <2>2
<1>9. ASSUME NEW p \in DOMAIN Tail(u), NEW q \in DOMAIN Tail(u), p < q
      PROVE  Tail(u)[p].op < Tail(u)[q].op \/ Tail(u)[q] = NoKernel
  <2>1. p + 1 < q + 1
    BY <1>6, <1>9
  <2> QED BY <1>6, <1>7, <2>1
<1> QED BY <1>4, <1>5, <1>6, <1>8, <1>9

LEMMA StreamTakes ==
    ASSUME BaseInv, StreamInv, NEW d \in Device, TakeKernel(d)
    PROVE  StreamInv'
<1>1. /\ streamPc[d] = "loop" /\ kernelQueue[d] # <<>>
      /\ kernelQueue' = [kernelQueue EXCEPT ![d] = Tail(kernelQueue[d])]
      /\ \/ /\ streamDestroy[d] /\ streamPc' = [streamPc EXCEPT ![d] = "exited"] /\ UNCHANGED running
         \/ /\ ~streamDestroy[d] /\ running' = [running EXCEPT ![d] = Head(kernelQueue[d])]
            /\ streamPc' = [streamPc EXCEPT ![d] = "run"]
      /\ UNCHANGED <<ops, queue, execPc, newOps, unlaunched, arrived, ran, onDevice, posted, ready>>
      /\ Ids' = Ids
  BY DEF TakeKernel, apiVars, execVars, futureVars, Ids
<1>2. \A i : Pending(i)' <=> Pending(i)
  BY <1>1 DEF Pending, Added
<1>3. LineInv /\ RanInv /\ Ids \subseteq Id
  BY OperatorTypes DEF StreamInv
<1>4. ASSUME NEW e \in Device, e # d
      PROVE  /\ Line(e)' = Line(e) /\ streamPc'[e] = streamPc[e] /\ running'[e] = running[e]
             /\ \A k : Running(e, k)' <=> Running(e, k)
  <2>1. kernelQueue'[e] = kernelQueue[e] /\ streamPc'[e] = streamPc[e] /\ running'[e] = running[e]
    BY <1>1, <1>4 DEF BaseInv, EagerTypeOK
  <2> QED BY <1>1, <2>1 DEF Line, Running
<1>5. PICK h \in Kernel : h = Head(kernelQueue[d])
  BY <1>1, <1>3, FirstOfLine
<1>6. /\ Line(d)' = Tail(Line(d))
      /\ h \in Elements(Line(d))
      /\ Elements(Line(d)) = {h} \cup Elements(Line(d)')
      /\ \A l \in Kernel : l \in Elements(Line(d)') => l = NoKernel \/ h.op < l.op
      /\ \A p, q \in DOMAIN Line(d)' : p < q => Line(d)'[p].op < Line(d)'[q].op \/ Line(d)'[q] = NoKernel
  <2>1. Line(d)' = Tail(kernelQueue[d]) \o unlaunched[d]
    <3>1. kernelQueue'[d] = Tail(kernelQueue[d])
      BY <1>1 DEF BaseInv, EagerTypeOK
    <3> QED BY <1>1, <3>1 DEF Line
  <2>2. Line(d)' = Tail(Line(d))
    BY <1>1, <1>3, <2>1, FirstOfLine
  <2> QED BY <1>1, <1>3, <1>5, <2>2, FirstOfLine
<1>7. /\ \A k : ~Running(d, k)
      /\ \A k : Running(d, k)' => ~streamDestroy[d] /\ k = h /\ k # NoKernel
      /\ ~streamDestroy[d] => Running(d, h)'
      /\ ~streamDestroy[d] => streamPc'[d] # "exited"
      /\ streamDestroy[d] => streamPc'[d] = "exited"
  <2>1. CASE streamDestroy[d]
    <3>1. streamPc'[d] = "exited"
      BY <1>1, <2>1 DEF BaseInv, EagerTypeOK
    <3> QED BY <1>1, <2>1, <3>1 DEF Running
  <2>2. CASE ~streamDestroy[d]
    <3>1. streamPc'[d] = "run" /\ running'[d] = h
      BY <1>1, <1>5, <2>2 DEF BaseInv, EagerTypeOK
    <3>2. h # NoKernel
      BY <1>6, <2>2, LineTypes
    <3> QED BY <1>1, <2>2, <3>1, <3>2 DEF Running
  <2> QED BY <2>1, <2>2
<1>8. \A k, e : KernelOf(k, e)' <=> KernelOf(k, e)
  BY <1>1 DEF KernelOf
<1>9. LineInv'
  <2>1. ASSUME NEW e \in Device
        PROVE  /\ \A p, q \in DOMAIN Line(e)' : p < q => Line(e)'[p].op < Line(e)'[q].op \/ Line(e)'[q] = NoKernel
               /\ \A k \in Kernel : k \in Elements(Line(e)') => k = NoKernel \/ KernelOf(k, e)
               /\ \A k \in Kernel : Running(e, k)' =>
                    KernelOf(k, e) /\ \A l \in Kernel : l \in Elements(Line(e)') => l = NoKernel \/ k.op < l.op
    <3>1. CASE e = d
      <4>1. \A k \in Kernel : k \in Elements(Line(d)) => k = NoKernel \/ KernelOf(k, d)
        BY <1>3 DEF LineInv
      <4> QED BY <1>6, <1>7, <3>1, <4>1
    <3>2. CASE e # d
      BY <1>3, <1>4, <3>2 DEF LineInv
    <3> QED BY <3>1, <3>2
  <2> QED BY <1>8, <2>1 DEF LineInv
<1>10. ASSUME NEW e \in Device, NEW i \in Id
       PROVE  /\ InLine(i, e)' => InLine(i, e)
              /\ streamPc'[e] # "exited" /\ InLine(i, e) => InLine(i, e)'
              /\ streamPc'[e] # "exited" => streamPc[e] # "exited"
  <2>1. CASE e = d
    <3>1. streamPc[e] # "exited"
      BY <1>1, <2>1
    <3>2. InLine(i, e)' => InLine(i, e)
      BY <1>6, <1>7, <2>1 DEF InLine
    <3>3. ASSUME streamPc'[e] # "exited", InLine(i, e) PROVE InLine(i, e)'
      <4>1. PICK k \in Kernel : k.op = i /\ k \in Elements(Line(d))
        BY <1>7, <2>1, <3>3 DEF InLine
      <4>2. CASE k = h
        BY <1>7, <2>1, <3>3, <4>1, <4>2 DEF InLine
      <4>3. CASE k \in Elements(Line(d)')
        BY <2>1, <4>1, <4>3 DEF InLine
      <4> QED BY <1>6, <4>1, <4>2, <4>3
    <3> QED BY <3>1, <3>2, <3>3
  <2>2. CASE e # d
    BY <1>4, <2>2 DEF InLine
  <2> QED BY <2>1, <2>2
<1>11. ASSUME NEW e \in Device, NEW i \in Id
       PROVE  /\ Seen(i, e)' => Seen(i, e)
              /\ streamPc'[e] # "exited" /\ Seen(i, e) => Seen(i, e)'
  BY <1>1, <1>10 DEF Seen
<1>12. RanInv'
  <2>1. ASSUME NEW e \in Device
        PROVE  /\ \A i \in Id : <<i, e>> \in ran => i \in Ids /\ e \in ops[i].kernels
               /\ \A i, j \in Ids : <<i, e>> \in ran /\ InLine(j, e)' => i < j
               /\ \A i, j \in Ids : <<i, e>> \in ran /\ j < i /\ e \in ops[j].kernels => <<j, e>> \in ran
    BY <1>3, <1>10 DEF RanInv
  <2>2. ASSUME NEW e \in Device, streamPc'[e] # "exited", NEW i \in Ids, NEW j \in Ids,
               Seen(i, e)', j < i, e \in ops[j].kernels
        PROVE  Seen(j, e)'
    BY <1>3, <1>10, <1>11, <2>2 DEF RanInv
  <2>3. ASSUME NEW e \in Device, execPc # "exited", NEW i \in Ids, NEW j \in Ids, Seen(i, e)', Pending(j) PROVE i < j
    BY <1>3, <1>11, <2>3 DEF RanInv
  <2>4. ASSUME NEW e \in Device, execPc # "exited", NEW i \in Ids, e \in ops[i].kernels PROVE Pending(i) \/ Seen(i, e)'
    <3>1. ~streamDestroy[d] /\ streamPc[e] # "exited"
      BY <2>4 DEF BaseInv, ControlInv
    <3>2. streamPc'[e] # "exited"
      BY <1>4, <1>7, <3>1
    <3> QED BY <1>3, <1>11, <2>4, <3>2 DEF RanInv
  <2> QED BY <1>1, <1>2, <2>1, <2>2, <2>3, <2>4 DEF RanInv
<1>13. StoreInv'
  <2>1. \A i : Rendezvous(i)' <=> Rendezvous(i)
    BY <1>1 DEF Rendezvous
  <2>2. \A e \in Device : streamPc[e] = "inStore" => streamPc'[e] = "inStore" /\ running'[e] = running[e]
    BY <1>1, <1>4
  <2>3. \A i \in Id : arrived[i] \subseteq Device
    BY DEF BaseInv, EagerTypeOK
  <2>4. StoreInv
    BY DEF StreamInv
  <2>5. ASSUME NEW i \in Id, NEW e \in arrived[i]
        PROVE  /\ i \in Ids /\ e \in ops[i].kernels
               /\ (streamPc'[e] = "inStore" /\ running'[e].op = i) \/ <<i, e>> \in ran
    <3>1. e \in Device
      BY <2>3
    <3> QED BY <2>2, <2>4, <3>1 DEF StoreInv
  <2>6. \A i \in Ids : \A e \in Device : Rendezvous(i) /\ <<i, e>> \in ran => arrived[i] = ops[i].kernels
    BY <2>4 DEF StoreInv
  <2> QED BY <1>1, <2>1, <2>5, <2>6 DEF StoreInv
<1> QED BY <1>1, <1>9, <1>12, <1>13, DeviceFrame, SourceFrame DEF StreamInv

LEMMA StreamEnters ==
    ASSUME BaseInv, StreamInv, NEW d \in Device, EnterTensorStore(d)
    PROVE  StreamInv'
<1>1. PICK i \in Id : i = running[d].op
  BY RunningKernel DEF EnterTensorStore
<1>2. /\ streamPc[d] = "run" /\ Rendezvous(i)
      /\ streamPc' = [streamPc EXCEPT ![d] = "inStore"]
      /\ arrived' = [arrived EXCEPT ![i] = arrived[i] \cup {d}]
      /\ UNCHANGED <<ops, queue, execPc, newOps, unlaunched, kernelQueue, running, ran, onDevice, posted, ready>>
      /\ Ids' = Ids
  BY <1>1 DEF EnterTensorStore, apiVars, execVars, futureVars, Ids
<1>3. /\ \A e \in Device : streamPc'[e] = IF e = d THEN "inStore" ELSE streamPc[e]
      /\ \A j \in Id : arrived'[j] = IF j = i THEN arrived[i] \cup {d} ELSE arrived[j]
  BY <1>2 DEF BaseInv, EagerTypeOK
<1>4. \A e \in Device : (Line(e)' = Line(e)) /\ \A k : Running(e, k)' <=> Running(e, k)
  BY <1>2, <1>3 DEF Line, Running
<1>5. /\ \A e \in Device : \A j : InLine(j, e)' <=> InLine(j, e)
      /\ \A e \in Device : \A j : Seen(j, e)' <=> Seen(j, e)
      /\ \A j : Pending(j)' <=> Pending(j)
      /\ \A k, e : KernelOf(k, e)' <=> KernelOf(k, e)
  BY <1>2, <1>4 DEF InLine, Seen, Pending, Added, KernelOf
<1>6. LineInv'
  BY <1>4, <1>5 DEF StreamInv, LineInv
<1>7. RanInv'
  <2>1. \A e \in Device : streamPc'[e] # "exited" <=> streamPc[e] # "exited"
    BY <1>2, <1>3
  <2> QED BY <1>2, <1>5, <2>1 DEF StreamInv, RanInv
<1>8. StoreInv'
  <2>1. \A j : Rendezvous(j)' <=> Rendezvous(j)
    BY <1>2 DEF Rendezvous
  <2>2. i \in Ids /\ d \in ops[i].kernels
    <3>1. running[d] \in Kernel /\ Running(d, running[d])
      BY <1>2, RunningKernel DEF Running
    <3> QED BY <1>1, <3>1 DEF StreamInv, LineInv, KernelOf
  <2>3. ASSUME NEW j \in Id, NEW e \in arrived'[j]
        PROVE  /\ j \in Ids /\ e \in ops[j].kernels
               /\ (streamPc'[e] = "inStore" /\ running[e].op = j) \/ <<j, e>> \in ran
    <3>1. CASE j = i /\ e = d
      BY <1>1, <1>3, <2>2, <3>1
    <3>2. CASE e \in arrived[j]
      <4>1. e \in Device
        BY <3>2 DEF BaseInv, EagerTypeOK
      <4> QED BY <1>3, <3>2, <4>1 DEF StreamInv, StoreInv
    <3> QED BY <1>3, <2>3, <3>1, <3>2
  <2>4. ASSUME NEW j \in Ids, NEW e \in Device, Rendezvous(j), <<j, e>> \in ran PROVE arrived'[j] = ops[j].kernels
    <3>1. j \in Id
      BY OperatorTypes
    <3>2. arrived[j] = ops[j].kernels
      BY <2>4 DEF StreamInv, StoreInv
    <3>3. arrived'[j] = IF j = i THEN arrived[j] \cup {d} ELSE arrived[j]
      BY <1>3, <3>1
    <3> QED BY <2>2, <3>2, <3>3
  <2> QED BY <1>2, <2>1, <2>3, <2>4 DEF StoreInv
<1> QED BY <1>2, <1>6, <1>7, <1>8, DeviceFrame, SourceFrame DEF StreamInv

\* A conversion runs on two devices or more, those it reads from among them.
LEMMA Conversions ==
    ASSUME BaseInv, NEW i \in Ids, ops[i].kind = "convert"
    PROVE  /\ Rendezvous(i) /\ ~HandsOver(i)
           /\ ops[i].want \in Ids /\ ops[i].want < i
           /\ ops[i].kernels = ops[i].mesh \cup ops[ops[i].want].mesh
           /\ SourceGpus(i) = ops[ops[i].want].mesh \cap Gpu
           /\ SourceGpus(i) \subseteq ops[i].kernels
<1>1. /\ ops[i].want # 0 /\ ops[i].mesh # ops[ops[i].want].mesh
      /\ ops[i].kernels = ops[i].mesh \cup ops[ops[i].want].mesh
      /\ ops[i].output # NoAddr /\ ops[i].mesh \in Mesh
      /\ ops[i].input = ops[ops[i].want].output /\ ops[i].input \in Addr
  BY DEF BaseInv, OperatorInv, Issued
<1>2. ops[i].want \in Ids /\ ops[i].want < i
  BY <1>1, OperatorTypes
<1>3. ops[ops[i].want].mesh \in Mesh
  BY <1>1, <1>2 DEF BaseInv, OperatorInv, Issued
<1>4. Cardinality(ops[i].kernels) > 1
  <2> DEFINE S == ops[i].kernels
  <2>1. IsFiniteSet(S)
    <3>1. S \subseteq Device
      BY OperatorTypes
    <3> QED BY <3>1, FS_Subset DEF EagerAssumption
  <2>2. Cardinality(S) \in Nat
    BY <2>1, FS_CardinalityType
  <2>3. PICK A, B : A # {} /\ B # {} /\ A # B /\ S = A \cup B
    <3>1. ops[i].mesh # {} /\ ops[ops[i].want].mesh # {}
      BY <1>1, <1>3 DEF Mesh
    <3> QED BY <1>1, <3>1
  <2> HIDE DEF S
  <2>4. Cardinality(S) # 0
    BY <2>1, <2>3, FS_EmptySet
  <2>5. Cardinality(S) # 1
    <3>1. ASSUME NEW x, S = {x} PROVE FALSE
      BY <2>3, <3>1
    <3> QED BY <2>1, <3>1, FS_Singleton
  <2> QED BY <2>2, <2>4, <2>5 DEF S
<1> QED BY <1>1, <1>2, <1>4 DEF Rendezvous, HandsOver, SourceGpus

\* What ends a stream's line is its kernel, whatever the line holds besides.
LEMMA RunningLine ==
    ASSUME BaseInv, StreamInv, NEW d \in Device, streamPc[d] \in {"run", "inStore"}, NEW i \in Id, i = running[d].op
    PROVE  /\ i \in Ids /\ d \in ops[i].kernels /\ running[d].input = ops[i].want
           /\ InLine(i, d) /\ Seen(i, d)
           /\ \A k \in Kernel : Running(d, k) <=> k = running[d]
           /\ \A k \in Kernel : k \in Elements(Line(d)) => k = NoKernel \/ i < k.op
           /\ \A j \in Ids : <<j, d>> \in ran => j < i
           /\ <<i, d>> \notin ran
           /\ \A j \in Ids : j < i /\ d \in ops[j].kernels => <<j, d>> \in ran
<1>1. PICK k \in Kernel : k = running[d] /\ k.op = i /\ Running(d, k)
  BY RunningKernel DEF Running
<1>2. LineInv /\ RanInv
  BY DEF StreamInv
<1>3. KernelOf(k, d) /\ \A l \in Kernel : l \in Elements(Line(d)) => l = NoKernel \/ i < l.op
  BY <1>1, <1>2 DEF LineInv
<1>4. i \in Ids /\ d \in ops[i].kernels /\ running[d].input = ops[i].want
  BY <1>1, <1>3 DEF KernelOf
<1>5. InLine(i, d) /\ Seen(i, d)
  BY <1>1 DEF InLine, Seen
<1>6. \A l \in Kernel : Running(d, l) <=> l = running[d]
  BY DEF Running
<1>7. \A j \in Ids : <<j, d>> \in ran => j < i
  BY <1>2, <1>4, <1>5 DEF RanInv
<1>8. <<i, d>> \notin ran
  <2>1. ~(i < i)
    BY <1>4, OperatorTypes
  <2> QED BY <1>4, <1>7, <2>1
<1>9. ASSUME NEW j \in Ids, j < i, d \in ops[j].kernels PROVE <<j, d>> \in ran
  <2>1. Seen(j, d)
    BY <1>2, <1>4, <1>5, <1>9 DEF RanInv
  <2>2. ~InLine(j, d)
    <3>1. ASSUME NEW l \in Kernel, l.op = j, Running(d, l) \/ l \in Elements(Line(d)) PROVE FALSE
      <4>1. j \in Nat /\ i \in Nat /\ j # 0
        BY <1>4, OperatorTypes
      <4>2. l # running[d]
        BY <1>1, <1>9, <3>1, <4>1
      <4>3. l = NoKernel \/ i < j
        BY <1>3, <1>6, <3>1, <4>2
      <4> QED BY <1>9, <3>1, <4>1, <4>3, KernelTypes
    <3> QED BY <3>1 DEF InLine
  <2> QED BY <2>1, <2>2 DEF Seen
<1> QED BY <1>3, <1>4, <1>5, <1>6, <1>7, <1>8, <1>9

\* A conversion that has run somewhere ends no later than the kernel that runs.
LEMMA ConversionBefore ==
    ASSUME BaseInv, StreamInv, NEW d \in Device, NEW i \in Ids, streamPc[d] \in {"run", "inStore"}, i = running[d].op,
           NEW a \in Ids, ops[a].kind = "convert", NEW e \in Device, <<a, e>> \in ran, d \in ops[a].kernels
    PROVE  a <= i
<1>0. i \in Id /\ i \in Nat /\ a \in Nat /\ a \in Id
  BY OperatorTypes
<1>1. arrived[a] = ops[a].kernels
  BY Conversions DEF StreamInv, StoreInv
<1>2. (streamPc[d] = "inStore" /\ i = a) \/ <<a, d>> \in ran
  BY <1>0, <1>1 DEF StreamInv, StoreInv
<1>3. <<a, d>> \in ran => a < i
  BY <1>0, RunningLine
<1> QED BY <1>0, <1>2, <1>3

LEMMA StreamRuns ==
    ASSUME BaseInv, StreamInv, NEW d \in Device, Run(d)
    PROVE  StreamInv'
<1>0. PICK i \in Id : i = running[d].op
  BY RunningKernel DEF Run
<1>1. /\ streamPc[d] \in {"run", "inStore"} /\ ComputeReturns(d)
      /\ ran' = ran \cup {<<i, d>>}
      /\ \/ HandsOver(i) /\ SetPromise(d, i) /\ UNCHANGED onDevice
         \/ ~HandsOver(i) /\ d \in Gpu /\ onDevice' = [onDevice EXCEPT ![d] = Append(onDevice[d], i)] /\ UNCHANGED <<posted, ready>>
         \/ ~HandsOver(i) /\ d \notin Gpu /\ UNCHANGED <<onDevice, posted, ready>>
      /\ running' = [running EXCEPT ![d] = NoKernel]
      /\ streamPc' = [streamPc EXCEPT ![d] = "loop"]
      /\ UNCHANGED <<ops, queue, execPc, newOps, unlaunched, kernelQueue, arrived>>
      /\ Ids' = Ids
  BY <1>0 DEF Run, apiVars, execVars, futureVars, Ids
<1>2. /\ i \in Ids /\ d \in ops[i].kernels
      /\ InLine(i, d) /\ Seen(i, d)
      /\ \A k \in Kernel : Running(d, k) <=> k = running[d]
      /\ \A k \in Kernel : k \in Elements(Line(d)) => k = NoKernel \/ i < k.op
      /\ \A j \in Ids : <<j, d>> \in ran => j < i
      /\ <<i, d>> \notin ran
      /\ \A j \in Ids : j < i /\ d \in ops[j].kernels => <<j, d>> \in ran
  BY <1>0, <1>1, RunningLine
<1>3. LineInv /\ RanInv /\ StoreInv /\ DeviceInv /\ SourceInv
  BY DEF StreamInv
<1>4. \A j \in Ids : j \in Nat /\ j \in Id
  BY OperatorTypes
<1>5. /\ \A e \in Device : e # d => streamPc'[e] = streamPc[e] /\ running'[e] = running[e]
      /\ streamPc'[d] = "loop"
  BY <1>1 DEF BaseInv, EagerTypeOK
<1>6. /\ \A e \in Device : Line(e)' = Line(e)
      /\ \A e \in Device : e # d => \A k : Running(e, k)' <=> Running(e, k)
      /\ \A k : ~Running(d, k)'
      /\ \A j : Pending(j)' <=> Pending(j)
      /\ \A k, e : KernelOf(k, e)' <=> KernelOf(k, e)
      /\ \A j : (HandsOver(j)' <=> HandsOver(j)) /\ (Rendezvous(j)' <=> Rendezvous(j)) /\ SourceGpus(j)' = SourceGpus(j)
  BY <1>1, <1>5 DEF Line, Running, Pending, Added, KernelOf, HandsOver, Rendezvous, SourceGpus
<1>7. /\ \A e \in Device : \A j \in Id : InLine(j, e)' => InLine(j, e) /\ <<j, e>> # <<i, d>>
      /\ \A e \in Device : \A j \in Id : InLine(j, e) /\ <<j, e>> # <<i, d>> => InLine(j, e)'
  <2>1. ASSUME NEW e \in Device, e # d, NEW j \in Id PROVE InLine(j, e)' <=> InLine(j, e)
    BY <1>6, <2>1 DEF InLine
  <2>2. ASSUME NEW j \in Id, InLine(j, d)' PROVE InLine(j, d) /\ j # i
    <3>1. PICK k \in Kernel : k.op = j /\ k \in Elements(Line(d))
      BY <1>6, <2>2 DEF InLine
    <3>2. j \in Nat /\ i \in Nat /\ j # 0
      BY DEF Id
    <3>3. i < j
      BY <1>2, <3>1, <3>2, KernelTypes
    <3> QED BY <3>1, <3>2, <3>3 DEF InLine
  <2>3. ASSUME NEW j \in Id, InLine(j, d), j # i PROVE InLine(j, d)'
    <3>1. PICK k \in Kernel : k.op = j /\ (Running(d, k) \/ k \in Elements(Line(d)))
      BY <2>3 DEF InLine
    <3>2. k \in Elements(Line(d))
      BY <1>0, <1>2, <2>3, <3>1
    <3> QED BY <1>6, <3>1, <3>2 DEF InLine
  <2> QED BY <2>1, <2>2, <2>3
<1>8. \A e \in Device : \A j \in Id : Seen(j, e)' <=> Seen(j, e)
  BY <1>1, <1>2, <1>7 DEF Seen
<1>9. LineInv'
  BY <1>3, <1>6 DEF LineInv
<1>10. RanInv'
  <2>1. ASSUME NEW e \in Device, NEW j \in Id, <<j, e>> \in ran' PROVE j \in Ids /\ e \in ops[j].kernels
    BY <1>1, <1>2, <1>3, <2>1 DEF RanInv
  <2>2. ASSUME NEW e \in Device, NEW a \in Ids, NEW j \in Ids, <<a, e>> \in ran', InLine(j, e)' PROVE a < j
    <3>1. InLine(j, e) /\ <<j, e>> # <<i, d>>
      BY <1>4, <1>7, <2>2
    <3>2. CASE <<a, e>> \in ran
      BY <1>3, <2>2, <3>1, <3>2 DEF RanInv
    <3>3. CASE a = i /\ e = d
      <4>1. PICK k \in Kernel : k.op = j /\ k \in Elements(Line(d))
        BY <1>6, <2>2, <3>3 DEF InLine
      <4>2. k # NoKernel
        BY <4>1, KernelTypes, OperatorTypes
      <4> QED BY <1>2, <3>3, <4>1, <4>2
    <3> QED BY <1>1, <2>2, <3>2, <3>3
  <2>3. ASSUME NEW e \in Device, NEW a \in Ids, NEW j \in Ids, <<a, e>> \in ran', j < a, e \in ops[j].kernels
        PROVE  <<j, e>> \in ran'
    BY <1>1, <1>2, <1>3, <2>3 DEF RanInv
  <2>4. ASSUME NEW e \in Device, streamPc'[e] # "exited", NEW a \in Ids, NEW j \in Ids,
               Seen(a, e)', j < a, e \in ops[j].kernels
        PROVE  Seen(j, e)'
    <3>1. streamPc[e] # "exited"
      BY <1>1, <1>5, <2>4
    <3> QED BY <1>3, <1>4, <1>8, <2>4, <3>1 DEF RanInv
  <2>5. ASSUME NEW e \in Device, execPc # "exited", NEW a \in Ids, NEW j \in Ids, Seen(a, e)', Pending(j) PROVE a < j
    BY <1>3, <1>4, <1>8, <2>5 DEF RanInv
  <2>6. ASSUME NEW e \in Device, execPc # "exited", NEW a \in Ids, e \in ops[a].kernels PROVE Pending(a) \/ Seen(a, e)'
    BY <1>3, <1>4, <1>8, <2>6 DEF RanInv
  <2> QED BY <1>1, <1>6, <2>1, <2>2, <2>3, <2>4, <2>5, <2>6 DEF RanInv
<1>11. StoreInv'
  <2>1. ASSUME NEW j \in Id, NEW e \in arrived[j]
        PROVE  /\ j \in Ids /\ e \in ops[j].kernels
               /\ (streamPc'[e] = "inStore" /\ running'[e].op = j) \/ <<j, e>> \in ran'
    <3>1. e \in Device
      BY DEF BaseInv, EagerTypeOK
    <3>2. j \in Ids /\ e \in ops[j].kernels /\ ((streamPc[e] = "inStore" /\ running[e].op = j) \/ <<j, e>> \in ran)
      BY <1>3 DEF StoreInv
    <3> QED BY <1>0, <1>1, <1>5, <3>1, <3>2
  <2>2. ASSUME NEW j \in Ids, NEW e \in Device, Rendezvous(j), <<j, e>> \in ran' PROVE arrived[j] = ops[j].kernels
    BY <1>0, <1>1, <1>3, <2>2 DEF StoreInv, ComputeReturns
  <2> QED BY <1>1, <1>6, <2>1, <2>2 DEF StoreInv
<1>12. /\ \A g \in Gpu : onDevice[g] \in Seq(Id) /\ onDevice'[g] \in Seq(Id)
       /\ \A g \in Gpu : g # d => onDevice'[g] = onDevice[g]
       /\ d \in Gpu => onDevice'[d] = IF HandsOver(i) THEN onDevice[d] ELSE Append(onDevice[d], i)
  <2>1. \A g \in Gpu : onDevice[g] \in Seq(Id)
    BY DEF BaseInv, EagerTypeOK
  <2>2. /\ \A g \in Gpu : g # d => onDevice'[g] = onDevice[g]
        /\ d \in Gpu => onDevice'[d] = IF HandsOver(i) THEN onDevice[d] ELSE Append(onDevice[d], i)
    BY <1>1 DEF BaseInv, EagerTypeOK
  <2>3. d \in Gpu => Append(onDevice[d], i) \in Seq(Id)
    BY <2>1, Appended
  <2> QED BY <2>1, <2>2, <2>3
<1>13. /\ \A g \in Gpu : \A j \in Id : OnDevice(j, g)' => OnDevice(j, g) \/ (j = i /\ g = d /\ ~HandsOver(i))
       /\ \A g \in Gpu : \A j \in Id : OnDevice(j, g) => OnDevice(j, g)'
       /\ d \in Gpu /\ ~HandsOver(i) => OnDevice(i, d)'
  <2>1. d \in Gpu => Elements(Append(onDevice[d], i)) = Elements(onDevice[d]) \cup {i}
    BY <1>12, Appended
  <2> QED BY <1>12, <2>1 DEF OnDevice
<1>14. \A g \in Gpu : \A p, q \in DOMAIN onDevice'[g] : p < q => onDevice'[g][p] < onDevice'[g][q]
  <2>1. ASSUME NEW g \in Gpu PROVE \A p, q \in DOMAIN onDevice[g] : p < q => onDevice[g][p] < onDevice[g][q]
    BY <1>3 DEF DeviceInv
  <2>2. ASSUME d \in Gpu
        PROVE  \A p, q \in DOMAIN Append(onDevice[d], i) : p < q => Append(onDevice[d], i)[p] < Append(onDevice[d], i)[q]
    <3>1. PICK s \in Seq(Id) : s = onDevice[d]
      BY <1>12, <2>2
    <3>2. \A p, q \in DOMAIN s : p < q => s[p] < s[q]
      BY <2>1, <2>2, <3>1
    <3>3. ASSUME NEW p \in DOMAIN s PROVE s[p] < i
      <4>1. s[p] \in Elements(s) /\ s[p] \in Id
        BY ElementsOf
      <4>2. <<s[p], d>> \in ran /\ s[p] \in Ids
        BY <1>3, <2>2, <3>1, <4>1 DEF DeviceInv, RanInv, OnDevice
      <4> QED BY <1>2, <4>2
    <3>4. \A p, q \in DOMAIN Append(s, i) : p < q => Append(s, i)[p] < Append(s, i)[q]
      BY <3>2, <3>3, Appended
    <3> QED BY <3>1, <3>4
  <2> QED BY <1>12, <2>1, <2>2
<1>15. /\ \A p \in posted' : p \in posted \/ (HandsOver(i) /\ d \in Gpu /\ p = [op |-> i, device |-> d, event |-> Elements(onDevice[d])])
       /\ \A f \in ready' : f \in ready \/ (HandsOver(i) /\ d \notin Gpu /\ f = <<i, d>>)
  BY <1>1 DEF SetPromise
<1>16. DeviceInv'
  <2>0. DeviceInv
    BY <1>3
  <2>1. ASSUME NEW g \in Gpu, NEW j \in Id, OnDevice(j, g)' PROVE <<j, g>> \in ran'
    BY <1>1, <1>13, <2>0, <2>1 DEF DeviceInv
  <2>2. ASSUME NEW g \in Gpu, NEW a \in Ids, NEW j \in Ids, <<a, g>> \in ran', ~HandsOver(a), OnDevice(j, g)'
        PROVE  OnDevice(a, g)' \/ a < j
    <3>1. CASE <<a, g>> \in ran
      <4>1. CASE OnDevice(j, g)
        BY <1>4, <1>13, <2>0, <2>2, <3>1, <4>1 DEF DeviceInv
      <4>2. CASE j = i /\ g = d
        BY <1>2, <3>1, <4>2
      <4> QED BY <1>4, <1>13, <2>2, <4>1, <4>2
    <3>2. CASE a = i /\ g = d
      BY <1>13, <2>2, <3>2
    <3> QED BY <1>1, <2>2, <3>1, <3>2
  <2>3. ASSUME NEW p \in posted'
        PROVE  /\ <<p.op, p.device>> \in ran'
               /\ \A j \in Id : OnDevice(j, p.device)' /\ j < p.op => j \in p.event
               /\ HandsOver(p.op)
    <3>1. CASE p \in posted
      <4>1. /\ <<p.op, p.device>> \in ran /\ HandsOver(p.op)
            /\ \A j \in Id : OnDevice(j, p.device) /\ j < p.op => j \in p.event
        BY <2>0, <3>1 DEF DeviceInv
      <4>2. p.op \in Id /\ p.device \in Gpu
        BY <3>1 DEF BaseInv, EagerTypeOK
      <4>3. ASSUME NEW j \in Id, OnDevice(j, p.device)', j < p.op PROVE j \in p.event
        <5>1. CASE OnDevice(j, p.device)
          BY <4>1, <4>3, <5>1
        <5>2. CASE j = i /\ p.device = d
          <6>1. p.op \in Ids /\ d \in Device
            BY <1>3, <4>1, <4>2, <5>2 DEF RanInv
          <6>2. p.op < i /\ p.op \in Nat /\ i \in Nat
            BY <1>2, <1>4, <4>1, <5>2, <6>1
          <6> QED BY <4>3, <5>2, <6>2
        <5> QED BY <1>13, <4>2, <4>3, <5>1, <5>2
      <4> QED BY <1>1, <4>1, <4>3
    <3>2. CASE HandsOver(i) /\ d \in Gpu /\ p = [op |-> i, device |-> d, event |-> Elements(onDevice[d])]
      <4>1. p.op = i /\ p.device = d /\ p.event = Elements(onDevice[d])
        BY <3>2
      <4> QED BY <1>1, <1>13, <3>2, <4>1 DEF OnDevice
    <3> QED BY <1>15, <3>1, <3>2
  <2>4. ASSUME NEW f \in ready'
        PROVE  /\ f \in ran' /\ HandsOver(f[1])
               /\ f[2] \in Gpu => \A j \in Id : OnDevice(j, f[2])' => f[1] <= j
    <3>1. CASE f \in ready
      <4>1. f \in ran /\ HandsOver(f[1]) /\ (f[2] \in Gpu => \A j \in Id : OnDevice(j, f[2]) => f[1] <= j)
        BY <2>0, <3>1 DEF DeviceInv
      <4>2. f[1] \in Id /\ f[2] \in Device /\ f = <<f[1], f[2]>>
        BY <3>1 DEF BaseInv, EagerTypeOK
      <4>3. f[1] \in Ids
        BY <1>3, <4>1, <4>2 DEF RanInv
      <4>4. ASSUME f[2] \in Gpu, NEW j \in Id, OnDevice(j, f[2])' PROVE f[1] <= j
        <5>1. CASE OnDevice(j, f[2])
          BY <4>1, <4>4, <5>1
        <5>2. CASE j = i /\ f[2] = d
          <6>1. f[1] < i /\ f[1] \in Nat /\ i \in Nat
            BY <1>2, <1>4, <4>1, <4>2, <4>3, <5>2
          <6> QED BY <5>2, <6>1
        <5> QED BY <1>13, <4>4, <5>1, <5>2
      <4> QED BY <1>1, <4>1, <4>4
    <3>2. CASE HandsOver(i) /\ d \notin Gpu /\ f = <<i, d>>
      BY <1>1, <3>2
    <3> QED BY <1>15, <3>1, <3>2
  <2> QED BY <1>1, <1>6, <1>14, <2>1, <2>2, <2>3, <2>4 DEF DeviceInv
<1>17. SourceInv'
  <2>1. ASSUME NEW a \in Ids, NEW e \in ops[a].mesh, ops[a].kind = "convert", Computed(a, e)'
        PROVE  SourcesDone(a)'
    <3>1. e \in Device /\ a \in Id /\ a \in Nat /\ i \in Nat
      BY <1>2, OperatorTypes
    <3>2. SourcesDone(a)
      <4>1. CASE <<a, e>> \in ran
        <5>1. Computed(a, e)
          BY <1>13, <2>1, <3>1, <4>1 DEF Computed, OnDevice
        <5> QED BY <1>3, <2>1, <5>1 DEF SourceInv
      <4>2. CASE a = i /\ e = d
        <5>1. d \notin Gpu
          BY <1>13, <2>1, <4>2, Conversions DEF Computed, OnDevice
        <5>2. Rendezvous(i) /\ ~(ops[i].mesh \subseteq Gpu)
          BY <2>1, <4>2, <5>1, Conversions
        <5> QED BY <1>0, <1>1, <4>2, <5>2 DEF ComputeReturns
      <4> QED BY <1>1, <2>1, <4>1, <4>2 DEF Computed
    <3>3. ASSUME NEW g \in SourceGpus(a), NEW j \in Elements(onDevice'[g]) PROVE j >= a
      <4>1. g \in Gpu /\ g \in ops[a].kernels
        BY <2>1, Conversions
      <4>2. j \in Id /\ OnDevice(j, g)'
        BY <1>12, <4>1, ElementsOf DEF OnDevice
      <4>3. CASE OnDevice(j, g)
        BY <3>2, <4>3 DEF SourcesDone, OnDevice
      <4>4. CASE j = i /\ g = d
        <5>1. CASE a = i
          BY <3>1, <4>4, <5>1
        <5>2. CASE <<a, e>> \in ran
          <6>1. a <= i
            BY <1>0, <1>1, <1>2, <2>1, <3>1, <4>1, <4>4, <5>2, ConversionBefore
          <6> QED BY <3>1, <4>4, <6>1
        <5> QED BY <1>1, <2>1, <5>1, <5>2 DEF Computed
      <4> QED BY <1>13, <4>1, <4>2, <4>3, <4>4
    <3> QED BY <1>6, <3>3 DEF SourcesDone
  <2> QED BY <1>1, <2>1 DEF SourceInv
<1> QED BY <1>9, <1>10, <1>11, <1>16, <1>17 DEF StreamInv

LEMMA StreamCompletes ==
    ASSUME BaseInv, StreamInv, NEW d \in Gpu, GpuCompletes(d)
    PROVE  StreamInv'
<1>1. PICK s \in Seq(Id) : s = onDevice[d]
  BY DEF BaseInv, EagerTypeOK
<1>2. PICK h \in Id : h = Head(s) /\ s # <<>>
  <2>1. s # <<>>
    BY <1>1 DEF GpuCompletes
  <2> QED BY <2>1, Removed
<1>3. /\ SourcesDone(h)
      /\ onDevice' = [onDevice EXCEPT ![d] = Tail(s)]
      /\ UNCHANGED <<ops, queue, execPc, newOps, unlaunched, kernelQueue, running, streamPc, arrived, ran, posted, ready>>
      /\ Ids' = Ids
  BY <1>1, <1>2 DEF GpuCompletes, apiVars, execVars, futureVars, Ids
<1>4. /\ Tail(s) \in Seq(Id) /\ 1 \in DOMAIN s /\ h = s[1]
      /\ \A p \in DOMAIN Tail(s) : p \in Nat /\ p + 1 \in DOMAIN s /\ Tail(s)[p] = s[p + 1]
      /\ Elements(s) = {h} \cup Elements(Tail(s))
  BY <1>2, Removed
<1>5. \A g \in Gpu : onDevice'[g] = IF g = d THEN Tail(s) ELSE onDevice[g]
  BY <1>3 DEF BaseInv, EagerTypeOK
<1>6. /\ \A j : \A g \in Gpu : OnDevice(j, g)' => OnDevice(j, g)
      /\ \A j : \A g \in Gpu : OnDevice(j, g) => OnDevice(j, g)' \/ (j = h /\ g = d)
  BY <1>1, <1>4, <1>5 DEF OnDevice
<1>7. DeviceInv /\ SourceInv
  BY DEF StreamInv
<1>8. \A p, q \in DOMAIN s : p < q => s[p] < s[q]
  BY <1>1, <1>7 DEF DeviceInv
<1>9. ASSUME NEW j \in Id, j \in Elements(Tail(s)) PROVE h < j
  <2>1. PICK p \in DOMAIN Tail(s) : Tail(s)[p] = j
    BY <1>4, <1>9, ElementsOf
  <2>2. 1 < p + 1
    BY <1>4, <2>1, ElementsOf
  <2> QED BY <1>4, <1>8, <2>1, <2>2
<1>10. \A p, q \in DOMAIN Tail(s) : p < q => Tail(s)[p] < Tail(s)[q]
  <2>1. ASSUME NEW p \in DOMAIN Tail(s), NEW q \in DOMAIN Tail(s), p < q PROVE Tail(s)[p] < Tail(s)[q]
    <3>1. p + 1 < q + 1
      BY <1>4, <2>1
    <3> QED BY <1>4, <1>8, <3>1
  <2> QED BY <2>1
<1>11. /\ \A j : (HandsOver(j)' <=> HandsOver(j)) /\ SourceGpus(j)' = SourceGpus(j)
       /\ \A e \in Device : Line(e)' = Line(e)
       /\ \A j : Pending(j)' <=> Pending(j)
  BY <1>3 DEF HandsOver, SourceGpus, Line, Pending, Added
<1>12. DeviceInv'
  <2>1. ASSUME NEW g \in Gpu
        PROVE  \A p, q \in DOMAIN onDevice'[g] : p < q => onDevice'[g][p] < onDevice'[g][q]
    BY <1>5, <1>7, <1>10 DEF DeviceInv
  <2>2. \A g \in Gpu : \A j \in Id : OnDevice(j, g)' => <<j, g>> \in ran
    BY <1>6, <1>7 DEF DeviceInv
  <2>3. ASSUME NEW g \in Gpu, NEW a \in Ids, NEW j \in Ids, <<a, g>> \in ran, ~HandsOver(a), OnDevice(j, g)'
        PROVE  OnDevice(a, g)' \/ a < j
    <3>1. OnDevice(a, g) \/ a < j
      BY <1>6, <1>7, <2>3 DEF DeviceInv
    <3>2. CASE a = h /\ g = d
      <4>1. j \in Elements(Tail(s)) /\ j \in Id
        BY <1>5, <2>3, <3>2, OperatorTypes DEF OnDevice
      <4> QED BY <1>9, <3>2, <4>1
    <3> QED BY <1>6, <3>1, <3>2
  <2>4. ASSUME NEW p \in posted
        PROVE  /\ <<p.op, p.device>> \in ran
               /\ \A j \in Id : OnDevice(j, p.device)' /\ j < p.op => j \in p.event
               /\ HandsOver(p.op)
    <3>1. p.device \in Gpu
      BY DEF BaseInv, EagerTypeOK
    <3> QED BY <1>6, <1>7, <3>1 DEF DeviceInv
  <2>5. \A f \in ready : /\ f \in ran /\ HandsOver(f[1])
                         /\ f[2] \in Gpu => \A j \in Id : OnDevice(j, f[2])' => f[1] <= j
    BY <1>6, <1>7 DEF DeviceInv
  <2> QED BY <1>3, <1>11, <2>1, <2>2, <2>3, <2>4, <2>5 DEF DeviceInv
<1>13. SourceInv'
  <2>1. \A a : SourcesDone(a) => SourcesDone(a)'
    <3>1. SUFFICES ASSUME NEW a, SourcesDone(a), NEW g \in SourceGpus(a), NEW j \in Elements(onDevice'[g]) PROVE j >= a
      BY <1>11 DEF SourcesDone
    <3>2. g \in Gpu
      BY DEF SourceGpus
    <3> QED BY <1>6, <3>1, <3>2 DEF SourcesDone, OnDevice
  <2>2. ASSUME NEW a \in Ids, NEW e \in ops[a].mesh, ops[a].kind = "convert", Computed(a, e)' PROVE SourcesDone(a)
    <3>1. CASE Computed(a, e)
      BY <1>7, <2>2, <3>1 DEF SourceInv
    <3>2. CASE ~Computed(a, e)
      <4>1. e \in Gpu /\ OnDevice(a, e) /\ ~OnDevice(a, e)'
        BY <1>3, <2>2, <3>2 DEF Computed, OnDevice
      <4> QED BY <1>3, <1>6, <4>1
    <3> QED BY <3>1, <3>2
  <2> QED BY <1>3, <2>1, <2>2 DEF SourceInv
<1>14. LineInv' /\ StoreInv'
  BY <1>3, <1>11, LineFrame, StoreFrame DEF StreamInv
<1>15. RanInv'
  <2>1. \A i, e : e \in Device => (InLine(i, e)' <=> InLine(i, e)) /\ (Seen(i, e)' <=> Seen(i, e))
    BY <1>3, <1>11, LineFrame DEF StreamInv, Seen
  <2>2. RanInv /\ \A i \in Ids : i \in Id
    BY OperatorTypes DEF StreamInv
  <2> QED BY <1>3, <1>11, <2>1, <2>2 DEF RanInv
<1> QED BY <1>12, <1>13, <1>14, <1>15 DEF StreamInv

LEMMA StreamSetsValue ==
    ASSUME BaseInv, StreamInv, NEW p \in posted, PoolSetsValue(p)
    PROVE  StreamInv'
<1>1. /\ p.event \cap Elements(onDevice[p.device]) = {}
      /\ posted' = posted \ {p}
      /\ ready' = ready \cup {<<p.op, p.device>>}
      /\ UNCHANGED <<ops, queue, execPc, newOps, unlaunched, kernelQueue, running, streamPc, arrived, ran, onDevice>>
      /\ Ids' = Ids
  BY DEF PoolSetsValue, apiVars, execVars, streamVars, Ids
<1>2. /\ \A j : HandsOver(j)' <=> HandsOver(j)
      /\ \A j, g : OnDevice(j, g)' <=> OnDevice(j, g)
      /\ \A e \in Device : Line(e)' = Line(e)
      /\ \A j : Pending(j)' <=> Pending(j)
  BY <1>1 DEF HandsOver, OnDevice, Line, Pending, Added
<1>3. DeviceInv
  BY DEF StreamInv
<1>4. DeviceInv'
  <2>1. ASSUME NEW f \in ready'
        PROVE  /\ f \in ran /\ HandsOver(f[1])
               /\ f[2] \in Gpu => \A j \in Id : OnDevice(j, f[2]) => f[1] <= j
    <3>1. CASE f \in ready
      BY <1>3, <3>1 DEF DeviceInv
    <3>2. CASE f = <<p.op, p.device>>
      <4>1. f[1] = p.op /\ f[2] = p.device /\ p.op \in Nat
        BY <3>2 DEF BaseInv, EagerTypeOK, Id
      <4>2. /\ <<p.op, p.device>> \in ran /\ HandsOver(p.op)
            /\ \A j \in Id : OnDevice(j, p.device) /\ j < p.op => j \in p.event
        BY <1>3 DEF DeviceInv
      <4>3. ASSUME NEW j \in Id, OnDevice(j, p.device) PROVE p.op <= j
        <5>1. j \in Nat /\ ~(j < p.op)
          BY <1>1, <4>2, <4>3 DEF OnDevice, Id
        <5> QED BY <4>1, <5>1
      <4> QED BY <3>2, <4>1, <4>2, <4>3
    <3> QED BY <1>1, <3>1, <3>2
  <2> QED BY <1>1, <1>2, <1>3, <2>1 DEF DeviceInv
<1>5. LineInv' /\ StoreInv' /\ SourceInv'
  BY <1>1, <1>2, LineFrame, StoreFrame, SourceFrame DEF StreamInv
<1>6. RanInv'
  <2>1. \A i, e : e \in Device => (InLine(i, e)' <=> InLine(i, e)) /\ (Seen(i, e)' <=> Seen(i, e))
    BY <1>1, <1>2, LineFrame DEF StreamInv, Seen
  <2>2. RanInv /\ \A i \in Ids : i \in Id
    BY OperatorTypes DEF StreamInv
  <2> QED BY <1>1, <1>2, <2>1, <2>2 DEF RanInv
<1> QED BY <1>4, <1>5, <1>6 DEF StreamInv

\* What concerns neither a stream nor an operator that is pending.
LEMMA StreamQueue ==
    ASSUME BaseInv, StreamInv,
           \/ \E a \in Addr : ApiTensorRefCountDecrease(a)
           \/ ProcessMessage \/ NoMoreMessages \/ BeginExecute
           \/ SignalDestroy \/ DestroyQueue \/ JoinExecutor \/ Idle \/ UNCHANGED eagerVars
    PROVE  StreamInv'
<1>1. UNCHANGED <<ops, running, streamPc, ran, arrived, onDevice, posted, ready, kernelQueue, unlaunched>>
  BY DEF ApiTensorRefCountDecrease, ProcessMessage, NoMoreMessages, BeginExecute, SignalDestroy, DestroyQueue,
         JoinExecutor, Idle, eagerVars, apiVars, execVars, streamVars, futureVars
<1>2. \A d \in Device : Line(d)' = Line(d)
  BY <1>1 DEF Line
<1>0. queue \in Seq(Message) /\ newOps \in Seq(Id)
  BY DEF BaseInv, EagerTypeOK
<1>3. ASSUME execPc' # "exited" PROVE execPc # "exited" /\ \A i \in Id : Pending(i)' <=> Pending(i)
  <2>1. CASE \E a \in Addr : ApiTensorRefCountDecrease(a)
    <3>1. PICK a \in Addr, m \in Message : /\ m = [type |-> "noHold", operand |-> a]
                                           /\ queue' = Append(queue, m) /\ execPc' = execPc /\ newOps' = newOps
      BY <2>1, Messages DEF ApiTensorRefCountDecrease, execVars
    <3>2. \A i : ~Adds(m, i)
      BY <3>1 DEF Adds
    <3>3. \A i : Added(i)' <=> Added(i)
      BY <1>0, <3>1, <3>2, QueueGrows
    <3> QED BY <1>3, <3>1, <3>3 DEF Pending
  <2>2. CASE ProcessMessage
    <3>1. /\ execPc = "poll" /\ queue # <<>> /\ queue' = Tail(queue)
          /\ \/ Head(queue).type = "addOperator" /\ newOps' = Append(newOps, Head(queue).op)
             \/ Head(queue).type = "noHold" /\ newOps' = newOps
      BY <1>3, <2>2 DEF ProcessMessage
    <3>2. Head(queue) \in Message /\ \A i : Added(i) <=> Added(i)' \/ Adds(Head(queue), i)
      BY <1>0, <3>1, QueueShrinks
    <3>3. CASE Head(queue).type = "addOperator"
      <4>1. PICK j \in Id : j = Head(queue).op /\ newOps' = Append(newOps, j)
        BY <3>1, <3>2, <3>3, Messages
      <4>2. Elements(newOps') = Elements(newOps) \cup {j}
        BY <1>0, <4>1, Appended
      <4>3. \A i : Adds(Head(queue), i) <=> i = j
        BY <3>3, <4>1 DEF Adds
      <4> QED BY <3>1, <3>2, <4>2, <4>3 DEF Pending
    <3>4. CASE Head(queue).type = "noHold" /\ newOps' = newOps
      <4>1. \A i : ~Adds(Head(queue), i)
        BY <3>4 DEF Adds
      <4> QED BY <3>1, <3>2, <3>4, <4>1 DEF Pending
    <3> QED BY <3>1, <3>3, <3>4
  <2>3. CASE NoMoreMessages \/ BeginExecute
    <3>1. UNCHANGED <<queue, newOps>> /\ execPc \in {"poll", "execute"}
      BY <2>3 DEF NoMoreMessages, BeginExecute
    <3> QED BY <3>1 DEF Pending, Added
  <2>4. CASE DestroyQueue
    <3>1. PICK m \in Message : m = [type |-> "null"] /\ queue' = Append(queue, m) /\ execPc' = execPc /\ newOps' = newOps
      BY <2>4, Messages DEF DestroyQueue, execVars
    <3>2. \A i : ~Adds(m, i)
      BY <3>1 DEF Adds
    <3>3. \A i : Added(i)' <=> Added(i)
      BY <1>0, <3>1, <3>2, QueueGrows
    <3> QED BY <1>3, <3>1, <3>3 DEF Pending
  <2>5. CASE SignalDestroy \/ JoinExecutor \/ Idle \/ UNCHANGED eagerVars
    <3>1. UNCHANGED <<queue, newOps, execPc>>
      BY <2>5 DEF SignalDestroy, JoinExecutor, Idle, eagerVars, execVars
    <3> QED BY <1>3, <3>1 DEF Pending, Added
  <2> QED BY <2>1, <2>2, <2>3, <2>4, <2>5
<1> QED BY <1>1, <1>2, <1>3, StreamFrame

\* The end of the streams: nothing is pending any more, and a null kernel or
\* none at all is behind what a stream has still to run.
LEMMA StreamEnds ==
    ASSUME BaseInv, StreamInv, (\E d \in Device : DestroyStream(d)) \/ DestroyReturns
    PROVE  StreamInv'
<1>1. /\ UNCHANGED <<ops, running, streamPc, ran, arrived, onDevice, posted, ready, execPc, unlaunched>>
      /\ destroyPc = "streams" /\ Ids' = Ids
  BY DEF DestroyStream, DestroyReturns, apiVars, execVars, streamVars, futureVars, Ids
<1>2. execPc = "exited" /\ execPc' = "exited" /\ \A d \in Device : unlaunched[d] = <<>>
  BY <1>1 DEF BaseInv, ControlInv
<1>3. \A d \in Device : kernelQueue[d] \in Seq(Kernel) /\ Line(d) = kernelQueue[d] /\ Line(d)' = kernelQueue'[d]
  <2>1. kernelQueue' \in [Device -> Seq(Kernel)]
    <3>1. CASE DestroyReturns
      BY <3>1 DEF DestroyReturns
    <3>2. ASSUME NEW d \in Device, DestroyStream(d) PROVE kernelQueue' \in [Device -> Seq(Kernel)]
      <4>1. kernelQueue[d] \in Seq(Kernel) /\ kernelQueue' = [kernelQueue EXCEPT ![d] = Append(kernelQueue[d], NoKernel)]
        BY <3>2 DEF DestroyStream, BaseInv, EagerTypeOK
      <4>2. Append(kernelQueue[d], NoKernel) \in Seq(Kernel)
        BY <4>1, Kernels, Appended
      <4> QED BY <4>1, <4>2 DEF BaseInv, EagerTypeOK
    <3> QED BY <3>1, <3>2
  <2>2. \A d \in Device : kernelQueue[d] \in Seq(Kernel) /\ kernelQueue'[d] \in Seq(Kernel)
    BY <2>1 DEF BaseInv, EagerTypeOK
  <2>3. \A s \in Seq(Kernel) : s \o <<>> = s
    OBVIOUS
  <2> QED BY <1>1, <1>2, <2>2, <2>3 DEF Line
<1>4. \A k, d : (Running(d, k)' <=> Running(d, k)) /\ (KernelOf(k, d)' <=> KernelOf(k, d))
  BY <1>1 DEF Running, KernelOf
<1>5. LineInv /\ RanInv
  BY DEF StreamInv
<1>6. ASSUME NEW d \in Device
      PROVE  /\ \A p, q \in DOMAIN Line(d)' : p < q => Line(d)'[p].op < Line(d)'[q].op \/ Line(d)'[q] = NoKernel
             /\ \A k \in Kernel : k \in Elements(Line(d)') => k \in Elements(Line(d)) \/ k = NoKernel
             /\ streamPc[d] # "exited" => \A k \in Kernel : k \in Elements(Line(d)) => k \in Elements(Line(d)')
  <2>1. CASE DestroyReturns
    <3>1. Line(d)' = <<>> /\ streamPc[d] = "exited"
      BY <1>3, <2>1 DEF DestroyReturns
    <3>2. DOMAIN <<>> = {} /\ Elements(<<>>) = {}
      BY DEF Elements
    <3> QED BY <3>1, <3>2
  <2>2. ASSUME NEW e \in Device, DestroyStream(e)
        PROVE  /\ \A p, q \in DOMAIN Line(d)' : p < q => Line(d)'[p].op < Line(d)'[q].op \/ Line(d)'[q] = NoKernel
               /\ \A k \in Kernel : k \in Elements(Line(d)') => k \in Elements(Line(d)) \/ k = NoKernel
               /\ \A k \in Kernel : k \in Elements(Line(d)) => k \in Elements(Line(d)')
    <3>1. CASE d # e
      <4>1. Line(d)' = Line(d)
        BY <1>3, <2>2, <3>1 DEF DestroyStream, BaseInv, EagerTypeOK
      <4> QED BY <1>5, <4>1 DEF LineInv
    <3>2. CASE d = e
      <4>1. PICK s \in Seq(Kernel) : s = Line(d)
        BY <1>3
      <4>2. Line(d)' = Append(s, NoKernel)
        BY <1>3, <2>2, <3>2, <4>1 DEF DestroyStream, BaseInv, EagerTypeOK
      <4>3. \A p, q \in DOMAIN s : p < q => s[p].op < s[q].op \/ s[q] = NoKernel
        BY <1>5, <4>1 DEF LineInv
      <4>4. /\ DOMAIN Append(s, NoKernel) = DOMAIN s \cup {Len(s) + 1}
            /\ Append(s, NoKernel)[Len(s) + 1] = NoKernel
            /\ \A p \in DOMAIN s : Append(s, NoKernel)[p] = s[p] /\ p < Len(s) + 1
            /\ Elements(Append(s, NoKernel)) = Elements(s) \cup {NoKernel}
        BY Kernels, Appended
      <4>5. \A p \in DOMAIN s : p \in Nat /\ Len(s) \in Nat
        OBVIOUS
      <4>6. \A p, q \in DOMAIN Append(s, NoKernel) : p < q =>
              Append(s, NoKernel)[p].op < Append(s, NoKernel)[q].op \/ Append(s, NoKernel)[q] = NoKernel
        BY <4>3, <4>4, <4>5
      <4> QED BY <4>1, <4>2, <4>4, <4>6
    <3> QED BY <3>1, <3>2
  <2> QED BY <2>1, <2>2
<1>7. LineInv'
  <2>1. ASSUME NEW d \in Device, NEW k \in Kernel, Running(d, k)
        PROVE  KernelOf(k, d) /\ \A l \in Kernel : l \in Elements(Line(d)') => l = NoKernel \/ k.op < l.op
    BY <1>5, <1>6, <2>1 DEF LineInv
  <2>2. \A d \in Device : \A k \in Kernel : k \in Elements(Line(d)') => k = NoKernel \/ KernelOf(k, d)
    BY <1>5, <1>6 DEF LineInv
  <2> QED BY <1>4, <1>6, <2>1, <2>2 DEF LineInv
<1>8. ASSUME NEW d \in Device, NEW i \in Id
      PROVE  /\ InLine(i, d)' => InLine(i, d)
             /\ streamPc[d] # "exited" => (InLine(i, d)' <=> InLine(i, d))
  <2>1. \A k \in Kernel : k.op = i => k # NoKernel
    BY KernelTypes DEF Id
  <2> QED BY <1>4, <1>6, <2>1 DEF InLine
<1>9. RanInv'
  <2>1. ASSUME NEW d \in Device
        PROVE  /\ \A i \in Id : <<i, d>> \in ran => i \in Ids /\ d \in ops[i].kernels
               /\ \A i, j \in Ids : <<i, d>> \in ran /\ InLine(j, d)' => i < j
               /\ \A i, j \in Ids : <<i, d>> \in ran /\ j < i /\ d \in ops[j].kernels => <<j, d>> \in ran
    BY <1>5, <1>8, OperatorTypes DEF RanInv
  <2>2. ASSUME NEW d \in Device, streamPc[d] # "exited", NEW i \in Ids, NEW j \in Ids,
               Seen(i, d)', j < i, d \in ops[j].kernels
        PROVE  Seen(j, d)'
    <3>1. \A a \in Ids : Seen(a, d)' <=> Seen(a, d)
      BY <1>1, <1>8, <2>2, OperatorTypes DEF Seen
    <3> QED BY <1>5, <2>2, <3>1 DEF RanInv
  <2> QED BY <1>1, <1>2, <2>1, <2>2 DEF RanInv
<1> QED BY <1>1, <1>7, <1>9, DeviceFrame, SourceFrame, StoreFrame DEF StreamInv

LEMMA StreamInit == EagerInit => StreamInv
<1> SUFFICES ASSUME EagerInit PROVE StreamInv
  OBVIOUS
<1>1. \A s : s = <<>> => Elements(s) = {} /\ DOMAIN s = {}
  BY DEF Elements
<1>2. /\ ops = <<>> /\ queue = <<>> /\ newOps = <<>> /\ ran = {} /\ posted = {} /\ ready = {} /\ Ids = {}
      /\ \A d \in Device : kernelQueue[d] = <<>> /\ unlaunched[d] = <<>> /\ streamPc[d] = "loop"
      /\ \A d \in Gpu : onDevice[d] = <<>>
      /\ \A i \in Id : arrived[i] = {}
  BY DEF EagerInit, Ids
<1>3. \A d \in Device : Line(d) = <<>> /\ \A k : ~Running(d, k)
  BY <1>2 DEF Line, Running
<1>4. LineInv
  BY <1>1, <1>3 DEF LineInv
<1>5. RanInv /\ StoreInv /\ SourceInv
  BY <1>2 DEF RanInv, StoreInv, SourceInv
<1>6. DeviceInv
  BY <1>1, <1>2 DEF DeviceInv, OnDevice
<1> QED BY <1>4, <1>5, <1>6 DEF StreamInv

LEMMA StreamInvStep == EagerInv /\ StreamInv /\ [EagerNext]_eagerVars => StreamInv'
<1> SUFFICES ASSUME EagerInv, StreamInv, [EagerNext]_eagerVars PROVE StreamInv'
  OBVIOUS
<1>0. BaseInv /\ (execPc # "exited" => BooksInv)
  BY DEF EagerInv, GraphInv
<1>1. CASE Create \/ Compute \/ Convert \/ GetTensorAsync \/ SyncFuture
  BY <1>0, <1>1, ApiIssues, StreamIssues
<1>2. CASE CreateKernelForOperator
  <2>1. BooksInv
    BY <1>0, <1>2 DEF CreateKernelForOperator
  <2> QED BY <1>0, <1>2, <2>1, StreamCreate
<1>3. CASE FinishBatch
  <2>1. BooksInv
    BY <1>0, <1>3 DEF FinishBatch
  <2> QED BY <1>0, <1>3, <2>1, StreamFinish
<1>4. CASE \E d \in Device : StreamStep(d)
  BY <1>0, <1>4, StreamTakes, StreamEnters, StreamRuns DEF StreamStep
<1>5. CASE (\E d \in Gpu : GpuCompletes(d)) \/ (\E p \in posted : PoolSetsValue(p))
  BY <1>0, <1>5, StreamCompletes, StreamSetsValue
<1>6. CASE \/ \E a \in Addr : ApiTensorRefCountDecrease(a)
           \/ ProcessMessage \/ NoMoreMessages \/ BeginExecute
           \/ SignalDestroy \/ DestroyQueue \/ JoinExecutor \/ Idle \/ UNCHANGED eagerVars
  BY <1>0, <1>6, StreamQueue
<1>7. CASE (\E d \in Device : DestroyStream(d)) \/ DestroyReturns
  BY <1>0, <1>7, StreamEnds
<1> QED BY <1>1, <1>2, <1>3, <1>4, <1>5, <1>6, <1>7 DEF EagerNext, Api, ExecutorStep, DestroyStep

\* The operator that an operator is computed from has an output.
LEMMA Wanted ==
    ASSUME BaseInv, NEW i \in Ids, ops[i].want # 0
    PROVE  /\ ops[i].want \in Ids /\ ops[i].want < i
           /\ ops[ops[i].want].output # NoAddr
           /\ ops[ops[i].want].mesh \subseteq ops[ops[i].want].kernels
<1>1. ops[i].want \in Ids /\ ops[i].want < i
  BY OperatorTypes
<1>2. ops[ops[i].want].output \in Addr
  BY DEF BaseInv, OperatorInv, Issued
<1> QED BY <1>1, <1>2, EagerAssumption DEF BaseInv, OperatorInv, Issued

\* A kernel reads the operand that the API call named, although it was looked up
\* by an address, and reads it after its stream has filled it.
THEOREM EagerInputs == EagerSpec => []InputsIntendedAndFilled
<1>1. ASSUME EagerInv, StreamInv PROVE InputsIntendedAndFilled
  <2>1. ASSUME NEW d \in Device, streamPc[d] \in {"run", "inStore"}
        PROVE  /\ running[d].input = ops[running[d].op].want
               /\ ops[running[d].op].want # 0 /\ d \in ops[ops[running[d].op].want].mesh
                    => <<ops[running[d].op].want, d>> \in ran
    <3>1. PICK i \in Id : i = running[d].op
      BY <1>1, <2>1, RunningKernel DEF EagerInv
    <3>2. /\ i \in Ids /\ running[d].input = ops[i].want
          /\ \A j \in Ids : j < i /\ d \in ops[j].kernels => <<j, d>> \in ran
      BY <1>1, <2>1, <3>1, RunningLine DEF EagerInv
    <3>3. ops[i].want # 0 /\ d \in ops[ops[i].want].mesh => <<ops[i].want, d>> \in ran
      BY <1>1, <3>2, Wanted DEF EagerInv
    <3> QED BY <3>1, <3>2, <3>3
  <2> QED BY <2>1 DEF InputsIntendedAndFilled
<1> QED BY EagerInvInit, EagerInvStep, StreamInit, StreamInvStep, <1>1, PTL DEF EagerSpec

\* What a computed operator was computed from is computed.
LEMMA ComputedFrom ==
    ASSUME BaseInv, StreamInv, NEW k \in Ids, ops[k].output # NoAddr, ops[k].want # 0,
           \A d \in ops[k].mesh : Computed(k, d), NEW d \in ops[ops[k].want].mesh
    PROVE  Computed(ops[k].want, d)
<1>0. PICK w \in Ids : w = ops[k].want /\ w < k /\ d \in ops[w].kernels
  BY Wanted
<1>1. d \in Device /\ w \in Nat /\ w \in Id /\ k \in Nat /\ k \in Id
  BY <1>0, OperatorTypes
<1>2. RanInv /\ StoreInv /\ DeviceInv /\ SourceInv
  BY DEF StreamInv
<1>3. /\ ops[k].kind \in {"compute", "convert"}
      /\ ops[k].kind = "compute" => ops[k].mesh = ops[w].mesh
      /\ ops[k].mesh # {} /\ ops[k].mesh \subseteq Device
  <2>1. ops[k] \in Operator
    BY DEF BaseInv, EagerTypeOK, Ids
  <2>2. ops[k].kind \in {"create", "compute", "convert", "get", "sync"}
    BY <2>1, EagerAssumption DEF Operator
  <2>3. ops[k].mesh # {}
    BY DEF BaseInv, OperatorInv, Issued, Mesh
  <2> QED BY <1>0, <2>2, <2>3, OperatorTypes DEF BaseInv, OperatorInv, Issued
<1>4. CASE ops[k].kind = "compute"
  <2>1. Computed(k, d) /\ ~HandsOver(k)
    BY <1>0, <1>3, <1>4 DEF HandsOver
  <2>2. <<k, d>> \in ran /\ <<w, d>> \in ran
    BY <1>0, <1>1, <1>2, <2>1 DEF Computed, RanInv
  <2>3. ASSUME d \in Gpu, OnDevice(w, d) PROVE FALSE
    <3>1. OnDevice(k, d) \/ k < w
      BY <1>2, <2>1, <2>2, <2>3 DEF DeviceInv
    <3> QED BY <1>0, <1>1, <2>1, <2>3, <3>1 DEF Computed, OnDevice
  <2> QED BY <1>0, <2>2, <2>3 DEF Computed, OnDevice
<1>5. CASE ops[k].kind = "convert"
  <2>1. PICK e \in ops[k].mesh : e \in Device /\ Computed(k, e)
    BY <1>3
  <2>2. SourcesDone(k) /\ <<k, e>> \in ran
    BY <1>2, <1>5, <2>1 DEF SourceInv, Computed
  <2>3. Rendezvous(k) /\ d \in ops[k].kernels /\ SourceGpus(k) = ops[w].mesh \cap Gpu
    BY <1>0, <1>5, Conversions
  <2>4. d \in arrived[k]
    BY <1>2, <2>1, <2>2, <2>3 DEF StoreInv
  <2>5. (streamPc[d] = "inStore" /\ running[d].op = k) \/ <<k, d>> \in ran
    BY <1>1, <1>2, <2>4 DEF StoreInv
  <2>6. <<w, d>> \in ran
    <3>1. CASE <<k, d>> \in ran
      BY <1>0, <1>1, <1>2, <3>1 DEF RanInv
    <3>2. CASE streamPc[d] = "inStore" /\ running[d].op = k
      BY <1>0, <1>1, <3>2, RunningLine
    <3> QED BY <2>5, <3>1, <3>2
  <2>7. ASSUME d \in Gpu, w \in Elements(onDevice[d]) PROVE FALSE
    <3>1. w >= k
      BY <1>0, <2>2, <2>3, <2>7 DEF SourcesDone
    <3> QED BY <1>0, <1>1, <3>1
  <2> QED BY <1>0, <2>6, <2>7 DEF Computed
<1> QED BY <1>3, <1>4, <1>5

\* When a future has its value, all that was issued before to the same stream,
\* and all that its value is computed from on any device, is computed.
LEMMA ReadyFollows == EagerInv /\ StreamInv => ReadyMeansComputed
<1> SUFFICES ASSUME EagerInv, StreamInv, NEW f \in ready
             PROVE  /\ \A j \in 1..f[1] - 1 : f[2] \in ops[j].kernels => Computed(j, f[2])
                    /\ \A j \in Ancestors(f[1]) \ {f[1]} : \A d \in ops[j].mesh : Computed(j, d)
  BY DEF ReadyMeansComputed
<1>0. BaseInv /\ RanInv /\ DeviceInv
  BY DEF EagerInv, StreamInv
<1>1. PICK i \in Id, c \in Device : f = <<i, c>> /\ f[1] = i /\ f[2] = c
  BY <1>0 DEF BaseInv, EagerTypeOK
<1>2. /\ <<i, c>> \in ran /\ HandsOver(i)
      /\ c \in Gpu => \A j \in Id : OnDevice(j, c) => i <= j
  BY <1>0, <1>1 DEF DeviceInv
<1>3. i \in Ids /\ c \in ops[i].kernels
  BY <1>0, <1>2 DEF RanInv
<1>4. ASSUME NEW j \in Ids, j < i, c \in ops[j].kernels PROVE Computed(j, c)
  <2>1. <<j, c>> \in ran
    BY <1>0, <1>2, <1>3, <1>4 DEF RanInv
  <2>2. j \in Id /\ j \in Nat /\ i \in Nat
    BY <1>0, <1>3, OperatorTypes
  <2> QED BY <1>2, <1>4, <2>1, <2>2 DEF Computed, OnDevice
<1>5. \A j \in 1..(i - 1) : j \in Ids /\ j < i
  <2>1. i \in Nat /\ i <= Len(ops) /\ Len(ops) \in Nat
    BY <1>0, <1>3, OperatorTypes
  <2> QED BY <2>1 DEF Ids
<1> DEFINE S == {i} \cup {k \in Ids : ops[k].output # NoAddr /\ \A d \in ops[k].mesh : Computed(k, d)}
<1>6. ASSUME NEW k \in S, ops[k].want # 0 PROVE ops[k].want \in S
  <2>1. k \in Ids
    BY <1>3
  <2>2. PICK w \in Ids : w = ops[k].want /\ w < k /\ ops[w].output # NoAddr /\ ops[w].mesh \subseteq ops[w].kernels
    BY <1>0, <1>6, <2>1, Wanted
  <2>3. CASE k = i
    <3>1. Cardinality(ops[w].mesh) = 1 /\ ops[i].kernels = ops[w].mesh
      BY <1>0, <1>2, <1>3, <1>6, <2>2, <2>3 DEF HandsOver, BaseInv, OperatorInv, Issued
    <3>2. IsFiniteSet(ops[w].mesh)
      <4>1. ops[w].mesh \subseteq Device
        BY <1>0, OperatorTypes
      <4> QED BY <4>1, FS_Subset DEF EagerAssumption
    <3>3. ops[w].mesh = {c}
      BY <1>3, <3>1, <3>2, FS_Singleton
    <3>4. Computed(w, c)
      BY <1>4, <2>2, <2>3, <3>3
    <3> QED BY <2>2, <3>3, <3>4
  <2>4. CASE k # i
    <3>1. ops[k].output # NoAddr /\ \A d \in ops[k].mesh : Computed(k, d)
      BY <2>4
    <3>2. \A d \in ops[ops[k].want].mesh : Computed(ops[k].want, d)
      BY <1>0, <1>6, <2>1, <3>1, ComputedFrom
    <3> QED BY <2>2, <3>2
  <2> QED BY <2>3, <2>4
<1>7. S \in SUBSET (1..Len(ops)) /\ i \in S
  BY <1>3 DEF Ids
<1>8. ASSUME NEW j \in Ancestors(i), j # i PROVE \A d \in ops[j].mesh : Computed(j, d)
  <2>1. j \in S
    <3> HIDE DEF S
    <3> QED BY <1>6, <1>7, <1>8 DEF Ancestors
  <2> QED BY <1>8, <2>1
<1> QED BY <1>1, <1>4, <1>5, <1>8

\* A future that is ready stands for finished work, of its own stream and of all
\* the devices that its value comes from.
THEOREM EagerReady == EagerSpec => []ReadyMeansComputed
BY EagerInvInit, EagerInvStep, StreamInit, StreamInvStep, ReadyFollows, PTL DEF EagerSpec
=============================================================================
