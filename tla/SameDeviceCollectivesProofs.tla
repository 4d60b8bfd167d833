--------------------- MODULE SameDeviceCollectivesProofs ---------------------
(***************************************************************************)
(* Proofs about the same-device collectives, for any number of ranks, any  *)
(* assignment of ranks to processes, any sequence of collectives and any   *)
(* number of Resets: that the barriers of the collectives are a rendezvous *)
(* of all ranks, that ranks at the same Reset have the same store, and     *)
(* that no operand is added into but those of reduce-scatter and reduce.   *)
(*                                                                         *)
(* The argument.  Every collective's program has one layout: a barrier,    *)
(* the exchange, the backend's Reset between two barriers, and what needs  *)
(* no store (Programs).  So the number of barriers a rank has entered can  *)
(* be read off its place in the programs (StageInv), and as no rank is     *)
(* more than one barrier ahead of another, ranks' places tell what other   *)
(* ranks still do (Close).  Hence, when the last user of a segment removes *)
(* its file, nobody has yet to open it (RemovesLast), a name leads all     *)
(* ranks to one segment (LifeInv), and a tensor that must not be added     *)
(* into has left the store before a collective that adds begins (DataInv). *)
(***************************************************************************)
EXTENDS SameDeviceCollectives, TensorStoreProofs, WellFoundedInduction, SequenceTheorems

\* A set of numbers that is not empty has a least one.
LEMMA Least == ASSUME NEW T \in SUBSET Nat, T # {} PROVE \E n \in T : \A m \in T : n <= m
  <1> DEFINE Less == {p \in Nat \X Nat : p[1] < p[2]}
  <1>1. IsWellFoundedOn(Less, Nat)
    <2>1. OpToRel(<, Nat) = Less
      BY DEF OpToRel
    <2>2. IsWellFoundedOn(OpToRel(<, Nat), Nat)
      BY NatLessThanWellFounded
    <2> QED BY <2>1, <2>2, Zenon
  <1>2. PICK n \in T : \A m \in T : ~ (<<m, n>> \in Less)
    <2> HIDE DEF Less
    <2> QED BY <1>1, WFMin
  <1>3. ASSUME NEW m \in T PROVE n <= m
    <2>1. ~(<<m, n>> \in Less) /\ <<m, n>> \in Nat \X Nat
      BY <1>2
    <2>2. ~(m < n)
      BY <2>1
    <2> QED BY <2>2
  <1> QED BY <1>3

\* A loop that emits instructions of a kind emits a list of that kind.
LEMMA Flattened ==
    ASSUME NEW S, NEW m \in Nat, NEW f \in [1..m -> Seq(S)]
    PROVE  FlattenSeq(f) \in Seq(S)
  <1>0. Len(f) = m /\ f \in Seq(Seq(S))
    OBVIOUS
  <1>a. CASE m = 0
    <2>1. f = <<>> /\ Len(f) = 0
      BY <1>0, <1>a
    <2> QED BY <2>1 DEF FlattenSeq
  <1>b. CASE m # 0
    <2> DEFINE Pre(g, n) == \A i \in 1..n : g[i] = IF i = 1 THEN f[i] ELSE g[i - 1] \o f[i]
    <2>1. \A n \in 1..m : \E g \in [1..n -> Seq(S)] : Pre(g, n)
      <3> DEFINE T == {n \in 1..m : ~ \E g \in [1..n -> Seq(S)] : Pre(g, n)}
      <3>1. SUFFICES ASSUME T # {} PROVE FALSE
        OBVIOUS
      <3>2. T \in SUBSET Nat
        OBVIOUS
      <3>3. PICK n \in T : \A k \in T : n <= k
        BY <3>1, <3>2, Least
      <3>4. n \in Nat /\ n \in 1..m
        OBVIOUS
      <3>5. CASE n = 1
        <4>1. [i \in 1..1 |-> f[1]] \in [1..1 -> Seq(S)] /\ Pre([i \in 1..1 |-> f[1]], 1)
          BY <1>b
        <4> QED BY <3>5, <4>1
      <3>6. CASE n # 1
        <4>1. n - 1 \in 1..m /\ ~(n <= n - 1) /\ f[n] \in Seq(S)
          BY <3>4, <3>6
        <4>2. n - 1 \notin T
          BY <3>3, <4>1
        <4>3. PICK g \in [1..n - 1 -> Seq(S)] : Pre(g, n - 1)
          <5> HIDE DEF Pre
          <5> QED BY <4>1, <4>2
        <4> DEFINE h == [i \in 1..n |-> IF i = n THEN g[n - 1] \o f[n] ELSE g[i]]
        <4>4. h \in [1..n -> Seq(S)]
          <5>1. g[n - 1] \in Seq(S)
            BY <3>4, <3>6
          <5>2. g[n - 1] \o f[n] \in Seq(S)
            BY <4>1, <5>1
          <5> QED BY <3>4, <5>2
        <4>5. ASSUME NEW i \in 1..n PROVE h[i] = IF i = 1 THEN f[i] ELSE h[i - 1] \o f[i]
          <5>1. \A j \in 1..n : h[j] = IF j = n THEN g[n - 1] \o f[n] ELSE g[j]
            OBVIOUS
          <5> HIDE DEF h
          <5>2. CASE i = n
            <6>1. n - 1 \in 1..n /\ n - 1 # n /\ n \in 1..n
              BY <3>4, <3>6
            <6>2. h[n - 1] = g[n - 1]
              BY <5>1, <6>1
            <6>3. h[n] = g[n - 1] \o f[n]
              BY <5>1, <6>1, Zenon
            <6> QED BY <3>6, <5>2, <6>2, <6>3
          <5>3. CASE i # n
            <6>1. i \in 1..n - 1 /\ (i # 1 => i - 1 \in 1..n /\ i - 1 # n)
              BY <3>4, <5>3
            <6>2. h[i] = g[i] /\ (i # 1 => h[i - 1] = g[i - 1])
              BY <5>1, <5>3, <6>1
            <6>3. g[i] = IF i = 1 THEN f[i] ELSE g[i - 1] \o f[i]
              BY <4>3, <6>1
            <6> QED BY <6>2, <6>3
          <5> QED BY <5>2, <5>3
        <4> QED BY <4>4, <4>5
      <3> QED BY <3>5, <3>6
    <2>2. PICK g \in [1..m -> Seq(S)] : Pre(g, m)
      <3> HIDE DEF Pre
      <3> QED BY <1>b, <2>1
    <2>3. g = [i \in 1..m |-> IF i = 1 THEN f[i] ELSE g[i - 1] \o f[i]]
      BY <2>2
    <2> DEFINE c == CHOOSE h : h = [i \in 1..m |-> IF i = 1 THEN f[i] ELSE h[i - 1] \o f[i]]
    <2>4. c = [i \in 1..m |-> IF i = 1 THEN f[i] ELSE c[i - 1] \o f[i]]
      BY <2>3
    <2>5. FlattenSeq(f) = c[m]
      BY <1>0, <1>b DEF FlattenSeq
    <2> HIDE DEF c
    <2>6. \A i \in 1..m : c[i] = IF i = 1 THEN f[i] ELSE c[i - 1] \o f[i]
      BY <2>4, Zenon
    <2>7. \A i \in 1..m : c[i] \in Seq(S)
      <3> DEFINE T == {i \in 1..m : c[i] \notin Seq(S)}
      <3>1. SUFFICES ASSUME T # {} PROVE FALSE
        OBVIOUS
      <3>2. T \in SUBSET Nat
        OBVIOUS
      <3>3. PICK n \in T : \A k \in T : n <= k
        BY <3>1, <3>2, Least
      <3>4. n # 1
        BY <2>6, <1>b
      <3>5. n - 1 \in 1..m /\ ~(n <= n - 1) /\ f[n] \in Seq(S)
        BY <3>4
      <3>6. c[n - 1] \in Seq(S)
        BY <3>3, <3>5
      <3>7. c[n] = c[n - 1] \o f[n]
        BY <2>6, <3>4
      <3>8. c[n - 1] \o f[n] \in Seq(S)
        BY <3>5, <3>6, ConcatProperties
      <3> QED BY <3>3, <3>7, <3>8
    <2> QED BY <1>b, <2>5, <2>7
  <1> QED BY <1>a, <1>b

-----------------------------------------------------------------------------
(* The programs *)

Var == {"input", "tensor", "result", "chunk", "all", "output"}

\* The collectives that add in place.
Adding == {"AllReduce", "ReduceScatterTensor", "reduce"}

Moves == [op : {"clone"}, dst : Var, src : Var] \cup [op : {"chunk"}, dst : Var, src : Var, part : Nat]
Returning == [op : {"chunk"}, dst : {"output"}, src : Var, part : Nat]
Handshake == [op : {"get", "finish", "wait"}, key : Key]
Publishing(vars) == [op : {"set"}, key : Key, src : vars, count : Nat]
Taking(ops, vars) == [op : ops, dst : vars]

\* What a collective may do between its first barrier and the backend's Reset.
AddingInstr == Handshake \cup Publishing({"input", "tensor", "result"}) \cup Taking({"bind", "add"}, {"result"})
               \cup [op : {"clone"}, dst : {"tensor"}, src : {"input"}]
               \cup Returning
PlainInstr == Handshake \cup Publishing(Var) \cup Taking({"bind", "append"}, Var) \cup Moves

\* What an instruction of an adding collective uses, and what it makes.
Need(instr) == CASE instr.op = "set" -> {instr.src}
                 [] instr.op = "add" -> {"got", "result"}
                 [] instr.op = "bind" -> {"got"}
                 [] OTHER -> {}
Give(instr) == CASE instr.op \in {"bind", "clone"} -> {instr.dst}
                 [] instr.op = "get" -> {"got"}
                 [] OTHER -> {}

\* With `given' at hand, every instruction of c finds what it uses.
Supplied(c, given) ==
    \A i \in 1..Len(c) : \A v \in Need(c[i]) :
        v \in given \/ \E j \in 1..(i - 1) : v \in Give(c[j])

LEMMA RankFacts == /\ N \in Nat /\ N >= 1 /\ Rank = 0..(N - 1) /\ 0 \in Rank
                   /\ \A i, j \in Rank : RankKey(i) \in Key /\ PairKey(i, j) \in Key
                   /\ ResultKey \in Key
  <1>1. WorldSize \in Nat \ {0}
    BY StoreAssumption, FS_CardinalityType, FS_EmptySet DEF WorldSize
  <1>2. Rank = 0..(WorldSize - 1)
    BY LifetimeAssumption
  <1>3. WorldSize >= 1 /\ 0 \in Rank
    BY <1>1, <1>2
  <1>4. ASSUME NEW i \in Rank, NEW j \in Rank PROVE RankKey(i) \in Key /\ PairKey(i, j) \in Key
    <2>1. RankKey(i) \in {RankKey(s) : s \in Rank}
      OBVIOUS
    <2>2. PairKey(i, j) \in {PairKey(s, d) : s \in Rank, d \in Rank}
      OBVIOUS
    <2> QED BY <2>1, <2>2, KeyAssumption
  <1>5. ResultKey \in Key
    BY KeyAssumption
  <1> QED BY <1>1, <1>2, <1>3, <1>4, <1>5 DEF N

LEMMA SuppliedConcat ==
    ASSUME NEW a \in Seq(AddingInstr), NEW b \in Seq(AddingInstr), NEW given, NEW made,
           Supplied(a, given), Supplied(b, given \cup made),
           \A v \in made : \E j \in 1..Len(a) : v \in Give(a[j])
    PROVE  a \o b \in Seq(AddingInstr) /\ Supplied(a \o b, given)
  <1>1. /\ a \o b \in Seq(AddingInstr) /\ Len(a \o b) = Len(a) + Len(b)
        /\ \A i \in 1..Len(a) + Len(b) : (a \o b)[i] = IF i <= Len(a) THEN a[i] ELSE b[i - Len(a)]
    BY ConcatProperties
  <1>2. Len(a) \in Nat /\ Len(b) \in Nat
    OBVIOUS
  <1> SUFFICES ASSUME NEW i \in 1..Len(a) + Len(b), NEW v \in Need((a \o b)[i]), v \notin given
               PROVE  \E j \in 1..(i - 1) : v \in Give((a \o b)[j])
    BY <1>1 DEF Supplied
  <1>3. CASE i <= Len(a)
    <2>1. i \in 1..Len(a) /\ (a \o b)[i] = a[i]
      BY <1>1, <1>2, <1>3
    <2>2. PICK j \in 1..(i - 1) : v \in Give(a[j])
      BY <2>1 DEF Supplied
    <2>3. j \in 1..Len(a) + Len(b) /\ j <= Len(a)
      BY <1>2, <2>1
    <2> QED BY <1>1, <2>2, <2>3
  <1>4. CASE i > Len(a)
    <2>1. i - Len(a) \in 1..Len(b) /\ (a \o b)[i] = b[i - Len(a)]
      BY <1>1, <1>2, <1>4
    <2>2. CASE v \in made
      <3>1. PICK j \in 1..Len(a) : v \in Give(a[j])
        BY <2>2
      <3>2. j \in 1..Len(a) + Len(b) /\ j <= Len(a) /\ j \in 1..(i - 1)
        BY <1>2, <1>4
      <3> QED BY <1>1, <3>1, <3>2
    <2>3. CASE v \notin made
      <3>1. PICK j \in 1..(i - Len(a) - 1) : v \in Give(b[j])
        BY <2>1, <2>3 DEF Supplied
      <3>2. /\ j + Len(a) \in 1..Len(a) + Len(b) /\ ~(j + Len(a) <= Len(a)) /\ j + Len(a) \in 1..(i - 1)
            /\ j + Len(a) - Len(a) = j
        BY <1>2, <1>4
      <3>3. (a \o b)[j + Len(a)] = b[j]
        BY <1>1, <3>2
      <3> QED BY <3>1, <3>2, <3>3
    <2> QED BY <2>2, <2>3
  <1> QED BY <1>2, <1>3, <1>4

LEMMA SuppliedBoth ==
    ASSUME NEW a \in Seq(AddingInstr), NEW b \in Seq(AddingInstr), NEW given,
           Supplied(a, given), Supplied(b, given)
    PROVE  a \o b \in Seq(AddingInstr) /\ Supplied(a \o b, given)
  <1> DEFINE made == {}
  <1>1. given \cup made = given /\ \A v \in made : \E j \in 1..Len(a) : v \in Give(a[j])
    OBVIOUS
  <1>2. Supplied(b, given \cup made)
    BY <1>1
  <1> HIDE DEF made
  <1> QED BY <1>1, <1>2, SuppliedConcat

LEMMA Accumulated == /\ Accumulate("result", 1) \in Seq(AddingInstr)
                     /\ \A given : {"got", "result"} \subseteq given => Supplied(Accumulate("result", 1), given)
  <1> DEFINE S == Handshake \cup Taking({"add"}, {"result"})
             One(i) == <<Get(RankKey(i)), AddTo("result"), Finish(RankKey(i))>>
             f == [i \in 1..(N - 1) |-> One(1 + i - 1)]
  <1>1. \A i \in Rank : One(i) \in Seq(S)
    <2>1. \A i \in Rank : Get(RankKey(i)) \in S /\ AddTo("result") \in S /\ Finish(RankKey(i)) \in S
      BY RankFacts DEF Get, AddTo, Finish, Handshake, Taking
    <2> HIDE DEF S
    <2> QED BY <2>1
  <1>2. \A i \in 1..(N - 1) : 1 + i - 1 \in Rank
    BY RankFacts
  <1>3. f \in [1..(N - 1) -> Seq(S)] /\ N - 1 \in Nat
    BY <1>1, <1>2, RankFacts
  <1>4. Accumulate("result", 1) = FlattenSeq(f)
    BY DEF Accumulate, ForRanks
  <1>5. Accumulate("result", 1) \in Seq(S)
    BY <1>3, <1>4, Flattened
  <1>6. S \subseteq AddingInstr
    BY DEF AddingInstr, Taking
  <1>7. \A instr \in S : Need(instr) \subseteq {"got", "result"}
    BY DEF Handshake, Taking, Need
  <1> HIDE DEF S
  <1> QED BY <1>5, <1>6, <1>7 DEF Supplied

LEMMA Shared ==
    ASSUME NEW r \in Rank, NEW given
    PROVE  /\ ShareResult(r) \in Seq(AddingInstr) /\ ShareResult(r) \in Seq(PlainInstr)
           /\ (r = 0 => "result" \in given) => Supplied(ShareResult(r), given)
  <1> DEFINE s1 == Set(ResultKey, "result", N - 1)
             s2 == Wait(ResultKey)
             g1 == Get(ResultKey)
             g2 == Bind("result")
             g3 == Finish(ResultKey)
  <1>1. N - 1 \in Nat
    BY RankFacts
  <1>2. /\ s1 \in AddingInstr /\ s2 \in AddingInstr /\ s1 \in PlainInstr /\ s2 \in PlainInstr
        /\ Need(s1) = {"result"} /\ Need(s2) = {}
    BY <1>1, RankFacts DEF Set, Wait, AddingInstr, PlainInstr, Handshake, Publishing, Var, Need
  <1>3. /\ g1 \in AddingInstr /\ g2 \in AddingInstr /\ g3 \in AddingInstr
        /\ g1 \in PlainInstr /\ g2 \in PlainInstr /\ g3 \in PlainInstr
        /\ Need(g1) = {} /\ Need(g2) = {"got"} /\ Need(g3) = {} /\ Give(g1) = {"got"}
    BY RankFacts DEF Get, Bind, Finish, AddingInstr, PlainInstr, Handshake, Taking, Var, Need, Give
  <1>4. ShareResult(r) = IF r = 0 THEN <<s1, s2>> ELSE <<g1, g2, g3>>
    BY DEF ShareResult
  <1> HIDE DEF s1, s2, g1, g2, g3
  <1>5. CASE r = 0
    <2>1. <<s1, s2>> \in Seq(AddingInstr) /\ <<s1, s2>> \in Seq(PlainInstr)
      BY <1>2
    <2>2. "result" \in given => Supplied(<<s1, s2>>, given)
      BY <1>2 DEF Supplied
    <2> QED BY <1>4, <1>5, <2>1, <2>2
  <1>6. CASE r # 0
    <2>1. <<g1, g2, g3>> \in Seq(AddingInstr) /\ <<g1, g2, g3>> \in Seq(PlainInstr)
      BY <1>3
    <2>2. Supplied(<<g1, g2, g3>>, given)
      <3> SUFFICES ASSUME NEW i \in 1..3, NEW v \in Need(<<g1, g2, g3>>[i])
                   PROVE  \E j \in 1..(i - 1) : v \in Give(<<g1, g2, g3>>[j])
        BY DEF Supplied
      <3>1. i = 2 /\ v = "got"
        BY <1>3
      <3> QED BY <1>3, <3>1
    <2> QED BY <1>4, <1>6, <2>1, <2>2
  <1> QED BY <1>5, <1>6

LEMMA Reduced ==
    ASSUME NEW r \in Rank, NEW root, NEW src \in {"input", "tensor"}, NEW given, src \in given
    PROVE  /\ ReduceAtRoot(root, r, src) \in Seq(AddingInstr)
           /\ Supplied(ReduceAtRoot(root, r, src), given)
           /\ r = root => \E j \in 1..Len(ReduceAtRoot(root, r, src)) :
                               "result" \in Give(ReduceAtRoot(root, r, src)[j])
  <1> DEFINE s == Set(RankKey(r), src, 1)
             w == Wait(RankKey(r))
             g1 == Get(RankKey(0))
             g2 == Bind("result")
             g3 == Finish(RankKey(0))
             acc == Accumulate("result", 1)
  <1>1. /\ s \in AddingInstr /\ w \in AddingInstr /\ g1 \in AddingInstr /\ g2 \in AddingInstr /\ g3 \in AddingInstr
        /\ Need(s) = {src} /\ Need(w) = {} /\ Need(g1) = {} /\ Need(g2) = {"got"} /\ Need(g3) = {}
        /\ Give(g1) = {"got"} /\ Give(g2) = {"result"}
    BY RankFacts DEF Set, Wait, Get, Bind, Finish, AddingInstr, Handshake, Publishing, Taking, Need, Give
  <1>2. ReduceAtRoot(root, r, src) =
            (<<s>> \o (IF r = root THEN <<g1, g2, g3>> \o acc ELSE <<>>)) \o <<w>>
    BY DEF ReduceAtRoot
  <1>3. acc \in Seq(AddingInstr) /\ \A all : {"got", "result"} \subseteq all => Supplied(acc, all)
    BY Accumulated
  <1> HIDE DEF s, w, g1, g2, g3, acc
  <1>4. <<s>> \in Seq(AddingInstr) /\ <<w>> \in Seq(AddingInstr) /\ <<g1, g2, g3>> \in Seq(AddingInstr)
    BY <1>1
  <1>5. Supplied(<<s>>, given) /\ \A all : Supplied(<<w>>, all)
    BY <1>1 DEF Supplied
  <1>6. \A all : Supplied(<<g1, g2, g3>>, all)
    <2> SUFFICES ASSUME NEW i \in 1..3, NEW v \in Need(<<g1, g2, g3>>[i])
                 PROVE  \E j \in 1..(i - 1) : v \in Give(<<g1, g2, g3>>[j])
      BY DEF Supplied
    <2>1. i = 2 /\ v = "got"
      BY <1>1
    <2> QED BY <1>1, <2>1
  <1>7. CASE r = root
    <2> DEFINE mid == <<g1, g2, g3>> \o acc
               pre == <<s>> \o mid
    <2>1. mid \in Seq(AddingInstr) /\ Supplied(mid, given)
      <3>1. Len(<<g1, g2, g3>>) = 3 /\ \A v \in {"got", "result"} : \E j \in 1..3 : v \in Give(<<g1, g2, g3>>[j])
        BY <1>1
      <3>2. {"got", "result"} \subseteq given \cup {"got", "result"}
        OBVIOUS
      <3> QED BY <1>3, <1>4, <1>6, <3>1, <3>2, SuppliedConcat
    <2>2. mid[2] = g2 /\ 2 \in 1..Len(mid)
      BY <1>3, <1>4, ConcatProperties
    <2> HIDE DEF mid
    <2>3. pre \in Seq(AddingInstr) /\ Supplied(pre, given)
      BY <1>4, <1>5, <2>1, SuppliedBoth
    <2>4. pre[3] = g2 /\ 3 \in 1..Len(pre)
      BY <1>4, <2>1, <2>2, ConcatProperties
    <2> HIDE DEF pre
    <2>5. pre \o <<w>> \in Seq(AddingInstr) /\ Supplied(pre \o <<w>>, given)
      BY <1>4, <1>5, <2>3, SuppliedBoth
    <2>6. (pre \o <<w>>)[3] = g2 /\ 3 \in 1..Len(pre \o <<w>>)
      BY <1>4, <2>3, <2>4, ConcatProperties
    <2>7. ReduceAtRoot(root, r, src) = pre \o <<w>>
      BY <1>2, <1>7 DEF pre, mid
    <2> QED BY <1>1, <2>5, <2>6, <2>7
  <1>8. CASE r # root
    <2>1. ReduceAtRoot(root, r, src) = <<s>> \o <<w>>
      BY <1>2, <1>4, <1>8, ConcatEmptySeq
    <2> QED BY <1>4, <1>5, <1>8, <2>1, SuppliedBoth
  <1> QED BY <1>7, <1>8

\* The registers that hold a tensor the collective may add to from the start.
Given(name) == IF name = "AllReduce" THEN {} ELSE {"input"}

LEMMA AddingProgram ==
    ASSUME NEW name \in Adding, NEW r \in Rank
    PROVE  \E body \in Seq(AddingInstr), tail \in Seq(Returning) :
              /\ Program(name, r) = <<BarrierOp>> \o ((body \o BackendReset) \o tail)
              /\ Supplied(body, Given(name))
  <1>a. r + 1 \in Nat /\ Whole \in Nat
    BY RankFacts DEF Whole
  <1>b. \A part \in Nat, src \in Var :
            /\ <<Chunk("output", src, part)>> \in Seq(Returning)
            /\ <<Chunk("output", src, part)>> \in Seq(AddingInstr)
            /\ \A given : Supplied(<<Chunk("output", src, part)>>, given)
    <2> SUFFICES ASSUME NEW part \in Nat, NEW src \in Var
                 PROVE  /\ Chunk("output", src, part) \in Returning
                        /\ Chunk("output", src, part) \in AddingInstr
                        /\ Need(Chunk("output", src, part)) = {}
      BY DEF Supplied
    <2> QED BY DEF Chunk, Returning, AddingInstr, Need
  <1>c. "result" \in Var /\ "input" \in Var
    BY DEF Var
  <1>d. BackendReset \in Seq({BarrierOp, ResetOp})
    BY DEF BackendReset
  <1>1. CASE name = "AllReduce"
    <2> DEFINE c == Clone("tensor", "input")
               red == ReduceAtRoot(0, r, "tensor")
               share == ShareResult(r)
               out == Chunk("output", "result", Whole)
    <2>1. <<c>> \in Seq(AddingInstr) /\ Supplied(<<c>>, {}) /\ Give(c) = {"tensor"}
      <3>1. c \in AddingInstr /\ Need(c) = {} /\ Give(c) = {"tensor"}
        BY DEF Clone, AddingInstr, Need, Give
      <3> QED BY <3>1 DEF Supplied
    <2>2. /\ red \in Seq(AddingInstr) /\ Supplied(red, {"tensor"})
          /\ r = 0 => \E j \in 1..Len(red) : "result" \in Give(red[j])
      BY Reduced
    <2>3. share \in Seq(AddingInstr) /\ Supplied(share, IF r = 0 THEN {"result"} ELSE {})
      BY Shared
    <2>4. <<out>> \in Seq(Returning)
      BY <1>a, <1>b, <1>c
    <2>5. Program(name, r) = <<BarrierOp>> \o ((((<<c>> \o red) \o share) \o BackendReset) \o <<out>>)
      BY <1>1 DEF Program, AllReduce
    <2> HIDE DEF c, red, share, out
    <2>6. <<c>> \o red \in Seq(AddingInstr) /\ Supplied(<<c>> \o red, {})
      <3> DEFINE made == {"tensor"}
      <3>1. \A v \in made : \E j \in 1..Len(<<c>>) : v \in Give(<<c>>[j])
        BY <2>1
      <3>2. Supplied(red, {} \cup made)
        <4>1. {} \cup made = {"tensor"}
          OBVIOUS
        <4> QED BY <2>2, <4>1
      <3> HIDE DEF made
      <3> QED BY <2>1, <2>2, <3>1, <3>2, SuppliedConcat
    <2>7. (<<c>> \o red) \o share \in Seq(AddingInstr) /\ Supplied((<<c>> \o red) \o share, {})
      <3> DEFINE made == IF r = 0 THEN {"result"} ELSE {}
                 pre == <<c>> \o red
      <3>1. \A v \in made : \E j \in 1..Len(pre) : v \in Give(pre[j])
        <4> SUFFICES ASSUME r = 0 PROVE \E j \in 1..Len(pre) : "result" \in Give(pre[j])
          OBVIOUS
        <4>1. PICK j \in 1..Len(red) : "result" \in Give(red[j])
          BY <2>2
        <4>2. /\ Len(<<c>>) = 1 /\ Len(pre) = 1 + Len(red)
              /\ \A i \in 1..1 + Len(red) : pre[i] = IF i <= 1 THEN <<c>>[i] ELSE red[i - 1]
          BY <2>1, <2>2, ConcatProperties
        <4>3. j + 1 \in 1..1 + Len(red) /\ ~(j + 1 <= 1) /\ j + 1 - 1 = j
          BY <2>2
        <4>4. pre[j + 1] = red[j]
          BY <4>2, <4>3
        <4> QED BY <4>1, <4>2, <4>3, <4>4
      <3>2. Supplied(share, {} \cup made)
        <4>1. {} \cup made = IF r = 0 THEN {"result"} ELSE {}
          OBVIOUS
        <4> QED BY <2>3, <4>1
      <3>3. pre \in Seq(AddingInstr) /\ Supplied(pre, {})
        BY <2>6
      <3> HIDE DEF made, pre
      <3>4. pre \o share \in Seq(AddingInstr) /\ Supplied(pre \o share, {})
        BY <2>3, <3>1, <3>2, <3>3, SuppliedConcat
      <3> QED BY <3>4 DEF pre
    <2> QED BY <1>1, <2>4, <2>5, <2>7 DEF Given
  <1>2. CASE name = "ReduceScatterTensor"
    <2> DEFINE red == ReduceAtRoot(0, r, "input")
               share == ShareResult(r)
               out == Chunk("output", "result", r + 1)
               body == (red \o share) \o <<out>>
    <2>1. /\ red \in Seq(AddingInstr) /\ Supplied(red, {"input"})
          /\ r = 0 => \E j \in 1..Len(red) : "result" \in Give(red[j])
      BY Reduced
    <2>2. share \in Seq(AddingInstr) /\ Supplied(share, {"input"} \cup (IF r = 0 THEN {"result"} ELSE {}))
      BY Shared
    <2>3. <<out>> \in Seq(AddingInstr) /\ Supplied(<<out>>, {"input"})
      BY <1>a, <1>b, <1>c
    <2>4. Program(name, r) = <<BarrierOp>> \o (body \o BackendReset)
      BY <1>2 DEF Program, ReduceScatterTensor
    <2> HIDE DEF red, share, out
    <2>5. red \o share \in Seq(AddingInstr) /\ Supplied(red \o share, {"input"})
      <3> DEFINE made == IF r = 0 THEN {"result"} ELSE {}
      <3>1. \A v \in made : \E j \in 1..Len(red) : v \in Give(red[j])
        BY <2>1
      <3>2. Supplied(share, {"input"} \cup made)
        BY <2>2
      <3> HIDE DEF made
      <3> QED BY <2>1, <2>2, <3>1, <3>2, SuppliedConcat
    <2>6. body \in Seq(AddingInstr) /\ Supplied(body, {"input"})
      BY <2>3, <2>5, SuppliedBoth
    <2> HIDE DEF body
    <2>7. Program(name, r) = <<BarrierOp>> \o ((body \o BackendReset) \o <<>>)
      <3>1. body \o BackendReset \in Seq(AddingInstr \cup {BarrierOp, ResetOp})
        BY <1>d, <2>6
      <3> QED BY <2>4, <3>1, ConcatEmptySeq
    <2>8. <<>> \in Seq(Returning)
      OBVIOUS
    <2> QED BY <1>2, <2>6, <2>7, <2>8 DEF Given
  <1>3. CASE name = "reduce"
    <2> DEFINE red == ReduceAtRoot(ReduceRoot, r, "input")
               out == Chunk("output", IF r = ReduceRoot THEN "result" ELSE "input", Whole)
               body == red \o <<out>>
    <2>1. red \in Seq(AddingInstr) /\ Supplied(red, {"input"})
      BY Reduced
    <2>3. <<out>> \in Seq(AddingInstr) /\ Supplied(<<out>>, {"input"})
      BY <1>a, <1>b, <1>c
    <2>4. Program(name, r) = <<BarrierOp>> \o (body \o BackendReset)
      BY <1>3 DEF Program, reduce
    <2> HIDE DEF red, out
    <2>6. body \in Seq(AddingInstr) /\ Supplied(body, {"input"})
      BY <2>1, <2>3, SuppliedBoth
    <2> HIDE DEF body
    <2>7. Program(name, r) = <<BarrierOp>> \o ((body \o BackendReset) \o <<>>)
      <3>1. body \o BackendReset \in Seq(AddingInstr \cup {BarrierOp, ResetOp})
        BY <1>d, <2>6
      <3> QED BY <2>4, <3>1, ConcatEmptySeq
    <2>8. <<>> \in Seq(Returning)
      OBVIOUS
    <2> QED BY <1>3, <2>6, <2>7, <2>8 DEF Given
  <1> QED BY <1>1, <1>2, <1>3 DEF Adding

LEMMA PlainProgram ==
    ASSUME NEW name \in CollectiveName \ Adding, NEW r \in Rank
    PROVE  \E body \in Seq(PlainInstr), tail \in Seq(Moves) :
              Program(name, r) = <<BarrierOp>> \o ((body \o BackendReset) \o tail)
  <1>a. \A i \in Rank : /\ Get(RankKey(i)) \in PlainInstr /\ Finish(RankKey(i)) \in PlainInstr
                        /\ Wait(RankKey(i)) \in PlainInstr
                        /\ \A count \in Nat : Set(RankKey(i), "input", count) \in PlainInstr
    BY RankFacts DEF Get, Finish, Wait, Set, PlainInstr, Handshake, Publishing, Var
  <1>b. Push("all") \in PlainInstr /\ Clone("result", "all") \in PlainInstr /\ <<Clone("output", "all")>> \in Seq(Moves)
    <2>1. Push("all") \in PlainInstr /\ Clone("result", "all") \in Moves /\ Clone("output", "all") \in Moves
      BY DEF Push, Clone, PlainInstr, Taking, Moves, Var
    <2> QED BY <2>1 DEF PlainInstr
  <1>c. \A i \in 1..(N - 0) : 0 + i - 1 \in Rank
    BY RankFacts
  <1>d. BackendReset \in Seq({BarrierOp, ResetOp})
    BY DEF BackendReset
  <1>e. N \in Nat /\ N - 0 \in Nat /\ ShareResult(r) \in Seq(PlainInstr)
    BY RankFacts, Shared
  <1>1. CASE name = "EqualShapeAllGatherIntoTensor"
    <2> DEFINE One(i) == <<Get(RankKey(i)), Push("all"), Clone("result", "all"), Finish(RankKey(i))>>
               f == [i \in 1..(N - 0) |-> One(0 + i - 1)]
               s == Set(RankKey(r), "input", 1)
               w == Wait(RankKey(r))
               out == Chunk("output", "result", Whole)
               body == (((<<s>> \o (IF r = 0 THEN FlattenSeq(f) ELSE <<>>)) \o <<w>>) \o ShareResult(r)) \o <<out>>
    <2>1. f \in [1..(N - 0) -> Seq(PlainInstr)]
      <3>1. \A i \in Rank : One(i) \in Seq(PlainInstr)
        <4> HIDE DEF PlainInstr
        <4> QED BY <1>a, <1>b
      <3> QED BY <1>c, <3>1
    <2>2. FlattenSeq(f) \in Seq(PlainInstr)
      BY <1>e, <2>1, Flattened
    <2>3. s \in PlainInstr /\ w \in PlainInstr
      BY <1>a
    <2>4. out \in PlainInstr
      BY DEF Chunk, PlainInstr, Moves, Var, Whole
    <2>5. Program(name, r) = <<BarrierOp>> \o (body \o BackendReset)
      BY <1>1 DEF Program, EqualShapeAllGatherIntoTensor, ForRanks
    <2>6. body \in Seq(PlainInstr)
      <3> HIDE DEF s, w, out, f, PlainInstr
      <3>1. (IF r = 0 THEN FlattenSeq(f) ELSE <<>>) \in Seq(PlainInstr)
        BY <2>2
      <3> QED BY <1>e, <2>3, <2>4, <3>1
    <2> HIDE DEF body
    <2>7. body \o BackendReset \in Seq(PlainInstr \cup {BarrierOp, ResetOp})
      <3> HIDE DEF PlainInstr
      <3> QED BY <1>d, <2>6
    <2>8. (body \o BackendReset) \o <<>> = body \o BackendReset /\ <<>> \in Seq(Moves)
      BY <2>7, ConcatEmptySeq
    <2> QED BY <2>5, <2>6, <2>8
  <1>2. CASE name = "AllGather"
    <2> DEFINE One(i) == <<Get(RankKey(i)), Push("all"), Finish(RankKey(i))>>
               f == [i \in 1..(N - 0) |-> One(0 + i - 1)]
               s == Set(RankKey(r), "input", N)
               w == Wait(RankKey(r))
               body == (<<s>> \o FlattenSeq(f)) \o <<w>>
    <2>1. f \in [1..(N - 0) -> Seq(PlainInstr)]
      <3>1. \A i \in Rank : One(i) \in Seq(PlainInstr)
        <4> HIDE DEF PlainInstr
        <4> QED BY <1>a, <1>b
      <3> QED BY <1>c, <3>1
    <2>2. FlattenSeq(f) \in Seq(PlainInstr)
      BY <1>e, <2>1, Flattened
    <2>3. s \in PlainInstr /\ w \in PlainInstr
      BY <1>a, <1>e
    <2>5. Program(name, r) = <<BarrierOp>> \o ((body \o BackendReset) \o <<Clone("output", "all")>>)
      BY <1>2 DEF Program, AllGather, ForRanks
    <2>6. body \in Seq(PlainInstr)
      <3> HIDE DEF s, w, f, PlainInstr
      <3> QED BY <2>2, <2>3
    <2> HIDE DEF body
    <2> QED BY <1>b, <2>5, <2>6
  <1>3. CASE name = "AllToAll"
    <2> DEFINE Publish(i) == <<Chunk("chunk", "input", i + 1), Clone("chunk", "chunk"),
                               Set(PairKey(r, i), "chunk", 1)>>
               Collect(i) == <<Get(PairKey(i, r)), Push("all"), Finish(PairKey(i, r))>>
               Await(i)   == <<Wait(PairKey(r, i))>>
               f == [i \in 1..(N - 0) |-> Publish(0 + i - 1)]
               g == [i \in 1..(N - 0) |-> Collect(0 + i - 1)]
               h == [i \in 1..(N - 0) |-> Await(0 + i - 1)]
               body == (FlattenSeq(f) \o FlattenSeq(g)) \o FlattenSeq(h)
    <2>1. ASSUME NEW i \in Rank
          PROVE  Publish(i) \in Seq(PlainInstr) /\ Collect(i) \in Seq(PlainInstr) /\ Await(i) \in Seq(PlainInstr)
      <3>1. Chunk("chunk", "input", i + 1) \in PlainInstr /\ Clone("chunk", "chunk") \in PlainInstr
        BY RankFacts DEF Chunk, Clone, PlainInstr, Moves, Var
      <3>2. /\ Set(PairKey(r, i), "chunk", 1) \in PlainInstr /\ Get(PairKey(i, r)) \in PlainInstr
            /\ Finish(PairKey(i, r)) \in PlainInstr /\ Wait(PairKey(r, i)) \in PlainInstr
        BY RankFacts DEF Set, Get, Finish, Wait, PlainInstr, Handshake, Publishing, Var
      <3> HIDE DEF PlainInstr
      <3> QED BY <1>b, <3>1, <3>2
    <2>2. /\ f \in [1..(N - 0) -> Seq(PlainInstr)] /\ g \in [1..(N - 0) -> Seq(PlainInstr)]
          /\ h \in [1..(N - 0) -> Seq(PlainInstr)]
      BY <1>c, <2>1
    <2>3. Program(name, r) = <<BarrierOp>> \o ((body \o BackendReset) \o <<Clone("output", "all")>>)
      BY <1>3 DEF Program, AllToAll, ForRanks
    <2> HIDE DEF f, g, h, PlainInstr
    <2>4. FlattenSeq(f) \in Seq(PlainInstr) /\ FlattenSeq(g) \in Seq(PlainInstr) /\ FlattenSeq(h) \in Seq(PlainInstr)
      BY <1>e, <2>2, Flattened
    <2>5. body \in Seq(PlainInstr)
      BY <2>4
    <2> HIDE DEF body
    <2> QED BY <1>b, <2>3, <2>5
  <1> QED BY <1>1, <1>2, <1>3 DEF CollectiveName, Adding

\* Where the backend's Reset is in a program.
ResetAt(c) == CHOOSE i \in 1..Len(c) : c[i].op = "reset"

\* What is where: the barrier of the caller, the exchange, Reset between two
\* barriers, and what needs no store any more.
Layout(c, name) ==
    LET at == ResetAt(c)
    IN  /\ Len(c) \in Nat /\ at \in 3..(Len(c) - 1)
        /\ c[1] = BarrierOp /\ c[at - 1] = BarrierOp /\ c[at] = ResetOp /\ c[at + 1] = BarrierOp
        /\ \A i \in 2..(at - 2) : c[i] \in (IF name \in Adding THEN AddingInstr ELSE PlainInstr)
        /\ \A i \in (at + 2)..Len(c) : c[i] \in (IF name \in Adding THEN Returning ELSE Moves)
        /\ name \in Adding =>
             \A i \in 2..(at - 2) : \A v \in Need(c[i]) :
                v \in Given(name) \/ \E j \in 2..(i - 1) : v \in Give(c[j])

Around(body, tail) == <<BarrierOp>> \o ((body \o BackendReset) \o tail)

LEMMA LaidOut ==
    ASSUME NEW Inside, NEW After, NEW body \in Seq(Inside), NEW tail \in Seq(After), NEW c,
           c = Around(body, tail),
           \A instr \in Inside \cup After : instr.op # "reset"
    PROVE  /\ Len(c) \in Nat /\ ResetAt(c) = Len(body) + 3 /\ ResetAt(c) \in 3..(Len(c) - 1)
           /\ c[1] = BarrierOp /\ c[ResetAt(c) - 1] = BarrierOp /\ c[ResetAt(c)] = ResetOp
           /\ c[ResetAt(c) + 1] = BarrierOp
           /\ \A i \in 2..(ResetAt(c) - 2) : i - 1 \in 1..Len(body) /\ c[i] = body[i - 1]
           /\ \A i \in (ResetAt(c) + 2)..Len(c) : c[i] \in After
  <1> DEFINE L == Len(body)
             K == Len(tail)
             All == Inside \cup After \cup {BarrierOp, ResetOp}
  <1>1. L \in Nat /\ K \in Nat /\ body \in Seq(All) /\ tail \in Seq(All)
        /\ BackendReset \in Seq(All) /\ <<BarrierOp>> \in Seq(All)
    BY DEF BackendReset
  <1>2. Len(BackendReset) = 3 /\ BackendReset[1] = BarrierOp /\ BackendReset[2] = ResetOp /\ BackendReset[3] = BarrierOp
    BY DEF BackendReset
  <1>b. \A i \in 1..L : body[i] \in Inside
    OBVIOUS
  <1>t. \A i \in 1..K : tail[i] \in After
    OBVIOUS
  <1> DEFINE a == body \o BackendReset
             b == a \o tail
  <1>3. /\ a \in Seq(All) /\ Len(a) = L + 3
        /\ \A i \in 1..L + 3 : a[i] = IF i <= L THEN body[i] ELSE BackendReset[i - L]
    <2> HIDE DEF All
    <2>1. /\ a \in Seq(All) /\ Len(a) = L + Len(BackendReset)
          /\ \A i \in 1..L + Len(BackendReset) : a[i] = IF i <= L THEN body[i] ELSE BackendReset[i - L]
      BY <1>1, ConcatProperties
    <2> QED BY <1>2, <2>1
  <1> HIDE DEF a, All
  <1>4. /\ b \in Seq(All) /\ Len(b) = L + 3 + K
        /\ \A i \in 1..L + 3 + K : b[i] = IF i <= L + 3 THEN a[i] ELSE tail[i - (L + 3)]
    <2>1. /\ b \in Seq(All) /\ Len(b) = Len(a) + K
          /\ \A i \in 1..Len(a) + K : b[i] = IF i <= Len(a) THEN a[i] ELSE tail[i - Len(a)]
      <3>1. a \in Seq(All) /\ tail \in Seq(All)
        BY <1>1, <1>3
      <3> QED BY <3>1, ConcatProperties
    <2> QED BY <1>3, <2>1
  <1>5. c = <<BarrierOp>> \o b
    BY DEF a, Around
  <1> HIDE DEF b
  <1>6. /\ c \in Seq(All) /\ Len(c) = 1 + (L + 3 + K)
        /\ \A i \in 1..1 + (L + 3 + K) : c[i] = IF i <= 1 THEN BarrierOp ELSE b[i - 1]
    <2>1. PICK one \in Seq(All) : one = <<BarrierOp>>
      BY <1>1
    <2>2. Len(one) = 1 /\ \A i : i = 1 => one[i] = BarrierOp
      BY <2>1
    <2>3. c = one \o b
      BY <1>5, <2>1, Zenon
    <2>4. b \in Seq(All)
      BY <1>4
    <2>5. /\ c \in Seq(All) /\ Len(c) = Len(one) + Len(b)
          /\ \A i \in 1..Len(one) + Len(b) : c[i] = IF i <= Len(one) THEN one[i] ELSE b[i - Len(one)]
      BY <2>3, <2>4, ConcatProperties
    <2>6. \A i \in 1..1 + Len(b) : c[i] = IF i <= 1 THEN BarrierOp ELSE b[i - 1]
      BY <2>2, <2>5
    <2> QED BY <1>4, <2>2, <2>5, <2>6
  <1> HIDE DEF L, K
  <1>7. c[1] = BarrierOp
    BY <1>1, <1>6
  <1>8. ASSUME NEW i \in 2..L + 1 PROVE i - 1 \in 1..L /\ c[i] = body[i - 1]
    <2>1. /\ i - 1 \in 1..L /\ i - 1 <= L /\ i - 1 \in 1..L + 3 /\ i - 1 <= L + 3 /\ i - 1 \in 1..L + 3 + K
          /\ i \in 1..1 + (L + 3 + K) /\ ~(i <= 1)
      BY <1>1
    <2>2. c[i] = b[i - 1]
      BY <1>6, <2>1
    <2>3. b[i - 1] = a[i - 1]
      BY <1>4, <2>1
    <2>4. a[i - 1] = body[i - 1]
      BY <1>3, <2>1
    <2> QED BY <2>1, <2>2, <2>3, <2>4
  <1>9. c[L + 2] = BarrierOp /\ c[L + 3] = ResetOp /\ c[L + 4] = BarrierOp
    <2>1. ASSUME NEW k \in (L + 2)..(L + 4), NEW j, j = k - 1 - L PROVE c[k] = BackendReset[j]
      <3>1. PICK i \in (L + 1)..(L + 3) : i = k - 1
        BY <1>1
      <3>2. i \in 1..L + 3 /\ i \in 1..L + 3 + K /\ ~(i <= L) /\ i <= L + 3 /\ k \in 1..1 + (L + 3 + K) /\ ~(k <= 1)
        BY <1>1, <3>1
      <3>3. c[k] = b[i]
        BY <1>6, <3>1, <3>2
      <3>4. b[i] = a[i]
        BY <1>4, <3>2
      <3>5. a[i] = BackendReset[i - L]
        BY <1>3, <3>2
      <3> QED BY <2>1, <3>1, <3>3, <3>4, <3>5
    <2>2. /\ L + 2 - 1 - L = 1 /\ L + 3 - 1 - L = 2 /\ L + 4 - 1 - L = 3
          /\ L + 2 \in (L + 2)..(L + 4) /\ L + 3 \in (L + 2)..(L + 4) /\ L + 4 \in (L + 2)..(L + 4)
      BY <1>1
    <2>3. c[L + 2] = BackendReset[1] /\ c[L + 3] = BackendReset[2] /\ c[L + 4] = BackendReset[3]
      <3>1. L \in Nat
        BY <1>1
      <3> QED BY <2>1, <2>2, <3>1
    <2> QED BY <1>2, <2>3
  <1>10. \A i \in (L + 5)..(L + 4 + K) : c[i] \in After
    <2> SUFFICES ASSUME NEW i \in (L + 5)..(L + 4 + K) PROVE c[i] \in After
      OBVIOUS
    <2>1. i - 1 \in 1..L + 3 + K /\ ~(i - 1 <= L + 3) /\ i \in 1..1 + (L + 3 + K) /\ ~(i <= 1)
          /\ i - 1 - (L + 3) \in 1..K
      BY <1>1
    <2>2. c[i] = b[i - 1] /\ b[i - 1] = tail[i - 1 - (L + 3)]
      BY <1>4, <1>6, <2>1
    <2> QED BY <1>t, <2>1, <2>2
  <1>11. ResetAt(c) = L + 3
    <2>1. \A i \in 1..Len(c) : c[i].op = "reset" <=> i = L + 3
      <3> SUFFICES ASSUME NEW i \in 1..Len(c) PROVE c[i].op = "reset" <=> i = L + 3
        OBVIOUS
      <3>1. \/ i = 1 \/ i \in 2..L + 1 \/ i = L + 2 \/ i = L + 3 \/ i = L + 4 \/ i \in (L + 5)..(L + 4 + K)
        BY <1>1, <1>6
      <3>2. i \in 2..L + 1 => c[i] \in Inside /\ i # L + 3
        BY <1>1, <1>8, <1>b
      <3>3. i \in (L + 5)..(L + 4 + K) => c[i] \in After /\ i # L + 3
        BY <1>1, <1>10
      <3>4. 1 # L + 3 /\ L + 2 # L + 3 /\ L + 4 # L + 3
        BY <1>1
      <3>5. BarrierOp.op # "reset" /\ ResetOp.op = "reset"
        BY DEF BarrierOp, ResetOp
      <3> QED BY <1>7, <1>9, <3>1, <3>2, <3>3, <3>4, <3>5
    <2>2. L + 3 \in 1..Len(c)
      BY <1>1, <1>6
    <2> QED BY <2>1, <2>2 DEF ResetAt
  <1>12. Len(c) \in Nat /\ L + 3 \in 3..(Len(c) - 1) /\ L + 3 - 1 = L + 2 /\ L + 3 + 1 = L + 4
         /\ L + 3 - 2 = L + 1 /\ L + 3 + 2 = L + 5 /\ Len(c) = L + 4 + K
    BY <1>1, <1>6
  <1> QED BY <1>7, <1>8, <1>9, <1>10, <1>11, <1>12 DEF L

LEMMA Programs ==
    ASSUME NEW name \in CollectiveName, NEW r \in Rank
    PROVE  Layout(Program(name, r), name)
  <1> DEFINE c == Program(name, r)
             at == ResetAt(c)
  <1>1. CASE name \in Adding
    <2>1. PICK body \in Seq(AddingInstr), tail \in Seq(Returning) :
              c = Around(body, tail) /\ Supplied(body, Given(name))
      BY <1>1, AddingProgram DEF Around
    <2>2. \A instr \in AddingInstr \cup Returning : instr.op # "reset"
      BY DEF AddingInstr, Returning, Handshake, Publishing, Taking
    <2> HIDE DEF c
    <2>3. /\ Len(c) \in Nat /\ at = Len(body) + 3 /\ at \in 3..(Len(c) - 1)
          /\ c[1] = BarrierOp /\ c[at - 1] = BarrierOp /\ c[at] = ResetOp
          /\ c[at + 1] = BarrierOp
          /\ \A i \in 2..(at - 2) : i - 1 \in 1..Len(body) /\ c[i] = body[i - 1]
          /\ \A i \in (at + 2)..Len(c) : c[i] \in Returning
      BY <2>1, <2>2, LaidOut
    <2> HIDE DEF at
    <2>4. \A i \in 2..(at - 2) : c[i] \in AddingInstr
      BY <2>3
    <2>5. ASSUME NEW i \in 2..(at - 2), NEW v \in Need(c[i]), v \notin Given(name)
          PROVE  \E j \in 2..(i - 1) : v \in Give(c[j])
      <3>1. i - 1 \in 1..Len(body) /\ c[i] = body[i - 1]
        BY <2>3
      <3>2. PICK j \in 1..(i - 1 - 1) : v \in Give(body[j])
        BY <2>1, <2>5, <3>1 DEF Supplied
      <3>3. j + 1 \in 2..(i - 1) /\ j + 1 \in 2..(at - 2) /\ j + 1 - 1 = j
        BY <2>3
      <3>4. c[j + 1] = body[j]
        BY <2>3, <3>3
      <3> QED BY <3>2, <3>3, <3>4
    <2> QED BY <1>1, <2>3, <2>4, <2>5 DEF Layout, at, c
  <1>2. CASE name \notin Adding
    <2>1. PICK body \in Seq(PlainInstr), tail \in Seq(Moves) :
              c = Around(body, tail)
      BY <1>2, PlainProgram DEF Around
    <2>2. \A instr \in PlainInstr \cup Moves : instr.op # "reset"
      BY DEF PlainInstr, Moves, Handshake, Publishing, Taking
    <2> HIDE DEF c
    <2>3. /\ Len(c) \in Nat /\ at = Len(body) + 3 /\ at \in 3..(Len(c) - 1)
          /\ c[1] = BarrierOp /\ c[at - 1] = BarrierOp /\ c[at] = ResetOp
          /\ c[at + 1] = BarrierOp
          /\ \A i \in 2..(at - 2) : i - 1 \in 1..Len(body) /\ c[i] = body[i - 1]
          /\ \A i \in (at + 2)..Len(c) : c[i] \in Moves
      BY <2>1, <2>2, LaidOut, SMTT(30)
    <2> HIDE DEF at
    <2>4. \A i \in 2..(at - 2) : c[i] \in PlainInstr
      BY <2>3
    <2> QED BY <1>2, <2>3, <2>4 DEF Layout, at, c
  <1> QED BY <1>1, <1>2

-----------------------------------------------------------------------------
(* Where a rank is in its programs *)

ProgInv ==
    /\ Work \in Seq(CollectiveName) /\ Len(Work) <= MaxReset /\ pid \in [Rank -> Rank]
    /\ step \in [Rank -> 1..(Len(Work) + 1)] /\ ip \in [Rank -> Nat] /\ DOMAIN reg = Rank
    /\ \A r \in Rank : ip[r] \in 1..(IF Running(r) THEN Len(Code(r)) ELSE 1)

\* How many barriers of the current program a rank has entered.
Phase(r) ==
    IF ~Running(r) \/ ip[r] = 1 THEN 0
    ELSE IF ip[r] < ResetAt(Code(r)) THEN 1
    ELSE IF ip[r] = ResetAt(Code(r)) THEN 2
    ELSE IF ip[r] = ResetAt(Code(r)) + 1 THEN 4
    ELSE 5

\* The barriers of all its programs, Reset's second one included.
Position(r) == 5 * (step[r] - 1) + Phase(r)

LEMMA Coded ==
    ASSUME ProgInv, NEW r \in Rank, Running(r)
    PROVE  /\ Work[step[r]] \in CollectiveName /\ Layout(Code(r), Work[step[r]])
           /\ ip[r] \in 1..Len(Code(r)) /\ Len(Code(r)) \in Nat /\ ResetAt(Code(r)) \in 3..(Len(Code(r)) - 1)
           /\ step[r] \in 1..Len(Work) /\ Len(Work) \in Nat
  <1>1. step[r] \in 1..Len(Work) /\ Len(Work) \in Nat
    BY DEF ProgInv, Running
  <1>2. Work[step[r]] \in CollectiveName
    BY <1>1 DEF ProgInv
  <1>3. Layout(Code(r), Work[step[r]])
    BY <1>2, Programs DEF Code
  <1> QED BY <1>1, <1>2, <1>3 DEF ProgInv, Layout

\* What an instruction's kind says of its place.
LEMMA Placed ==
    ASSUME ProgInv, NEW r \in Rank, Running(r)
    PROVE  LET at == ResetAt(Code(r))
           IN  /\ Instr(r).op = "barrier" <=> ip[r] \in {1, at - 1, at + 1}
               /\ Instr(r).op = "reset" <=> ip[r] = at
               /\ Instr(r).op \notin {"barrier", "reset", "clone", "chunk"} => ip[r] \in 2..(at - 2)
               /\ Work[step[r]] \in Adding =>
                    /\ ip[r] \in 2..(at - 2) => Instr(r) \in AddingInstr
                    /\ ip[r] > at + 1 => Instr(r) \in Returning
               /\ Work[step[r]] \notin Adding =>
                    /\ ip[r] \in 2..(at - 2) => Instr(r) \in PlainInstr
                    /\ ip[r] > at + 1 => Instr(r) \in Moves
  <1> DEFINE c == Code(r)
             at == ResetAt(c)
             i == ip[r]
             name == Work[step[r]]
  <1>1. /\ Layout(c, name) /\ i \in 1..Len(c) /\ Len(c) \in Nat /\ at \in 3..(Len(c) - 1) /\ Instr(r) = c[i]
    BY Coded DEF Instr
  <1> HIDE DEF c, at, i, name
  <1>2. /\ c[1] = BarrierOp /\ c[at - 1] = BarrierOp /\ c[at] = ResetOp /\ c[at + 1] = BarrierOp
        /\ \A k \in 2..(at - 2) : c[k] \in (IF name \in Adding THEN AddingInstr ELSE PlainInstr)
        /\ \A k \in (at + 2)..Len(c) : c[k] \in (IF name \in Adding THEN Returning ELSE Moves)
    BY <1>1 DEF Layout, at
  <1>3. /\ BarrierOp.op = "barrier" /\ ResetOp.op = "reset"
        /\ \A instr \in AddingInstr \cup PlainInstr : instr.op \notin {"barrier", "reset"}
        /\ \A instr \in Moves \cup Returning : instr.op \in {"clone", "chunk"}
    BY DEF BarrierOp, ResetOp, AddingInstr, PlainInstr, Moves, Returning, Handshake, Publishing, Taking
  <1>4. \/ i = 1 \/ i = at - 1 \/ i = at \/ i = at + 1
        \/ i \in 2..(at - 2) /\ i \notin {1, at - 1, at, at + 1} /\ ~(i > at + 1)
        \/ i \in (at + 2)..Len(c) /\ i \notin {1, at - 1, at, at + 1} /\ i > at + 1 /\ i \notin 2..(at - 2)
    BY <1>1
  <1>5. /\ at \notin {1, at - 1, at + 1} /\ 1 # at /\ at - 1 # at /\ at + 1 # at
        /\ \A k \in {1, at - 1, at, at + 1} : k \notin 2..(at - 2) /\ ~(k > at + 1)
    BY <1>1
  <1>6. ASSUME i \in 2..(at - 2)
        PROVE  c[i] \in (IF name \in Adding THEN AddingInstr ELSE PlainInstr)
    BY <1>2, <1>6
  <1>7. ASSUME i \in (at + 2)..Len(c)
        PROVE  c[i] \in (IF name \in Adding THEN Returning ELSE Moves)
    BY <1>2, <1>7
  <1>8. /\ Instr(r).op = "barrier" <=> i \in {1, at - 1, at + 1}
        /\ Instr(r).op = "reset" <=> i = at
        /\ Instr(r).op \notin {"barrier", "reset", "clone", "chunk"} => i \in 2..(at - 2)
        /\ name \in Adding =>
             /\ i \in 2..(at - 2) => Instr(r) \in AddingInstr
             /\ i > at + 1 => Instr(r) \in Returning
        /\ name \notin Adding =>
             /\ i \in 2..(at - 2) => Instr(r) \in PlainInstr
             /\ i > at + 1 => Instr(r) \in Moves
    BY <1>1, <1>2, <1>3, <1>4, <1>5, <1>6, <1>7
  <1> QED BY <1>8 DEF c, at, i, name

\* One instruction further: past a barrier, past Reset, or neither.
LEMMA Advanced ==
    ASSUME ProgInv, NEW r \in Rank, Running(r), NEW regs, Advance(r, regs), UNCHANGED <<Work, pid>>
    PROVE  /\ ProgInv'
           /\ \A u \in Rank \ {r} : UNCHANGED <<step[u], ip[u], reg[u]>>
           /\ Position(r)' = Position(r) + (IF Instr(r).op = "barrier" THEN 1
                                            ELSE IF Instr(r).op = "reset" THEN 2 ELSE 0)
  <1> DEFINE c == Code(r)
             at == ResetAt(c)
             i == ip[r]
             s == step[r]
  <1>1. /\ i \in 1..Len(c) /\ Len(c) \in Nat /\ at \in 3..(Len(c) - 1) /\ s \in 1..Len(Work) /\ Len(Work) \in Nat
    BY Coded
  <1>2. /\ Instr(r).op = "barrier" <=> i \in {1, at - 1, at + 1}
        /\ Instr(r).op = "reset" <=> i = at
    BY Placed
  <1>3. Phase(r) = IF i = 1 THEN 0 ELSE IF i < at THEN 1 ELSE IF i = at THEN 2 ELSE IF i = at + 1 THEN 4 ELSE 5
    BY DEF Phase
  <1>4. /\ \A u \in Rank \ {r} : UNCHANGED <<step[u], ip[u], reg[u]>>
        /\ step' \in [Rank -> 1..(Len(Work) + 1)] /\ ip' \in [Rank -> Nat] /\ DOMAIN reg' = Rank
    <2>1. step \in [Rank -> 1..(Len(Work) + 1)] /\ ip \in [Rank -> Nat] /\ DOMAIN reg = Rank
      BY DEF ProgInv
    <2>2. /\ \/ step' = step \/ step' = [step EXCEPT ![r] = step[r] + 1]
          /\ \/ ip' = [ip EXCEPT ![r] = ip[r] + 1] \/ ip' = [ip EXCEPT ![r] = 1]
          /\ \E new : reg' = [reg EXCEPT ![r] = new]
      BY DEF Advance
    <2>3. step[r] + 1 \in 1..(Len(Work) + 1) /\ ip[r] + 1 \in Nat
      BY <1>1
    <2>4. step' \in [Rank -> 1..(Len(Work) + 1)] /\ \A u \in Rank \ {r} : UNCHANGED step[u]
      BY <2>1, <2>2, <2>3
    <2>5. ip' \in [Rank -> Nat] /\ \A u \in Rank \ {r} : UNCHANGED ip[u]
      <3>1. PICK i1 \in Nat : ip' = [ip EXCEPT ![r] = i1]
        BY <2>2, <2>3
      <3> QED BY <2>1, <3>1
    <2>6. DOMAIN reg' = Rank /\ \A u \in Rank \ {r} : UNCHANGED reg[u]
      BY <2>1, <2>2
    <2> QED BY <2>4, <2>5, <2>6
  <1>5. \A u \in Rank \ {r} : (Running(u)' <=> Running(u)) /\ Code(u)' = Code(u)
    BY <1>4 DEF Running, Code
  <1>6. CASE i < Len(c)
    <2>1. ip'[r] = i + 1 /\ step'[r] = s
      BY <1>6 DEF Advance, ProgInv
    <2>2. Running(r)' /\ Code(r)' = c
      BY <2>1 DEF Running, Code
    <2>3. ProgInv'
      <3>1. \A u \in Rank : ip'[u] \in 1..(IF Running(u)' THEN Len(Code(u)') ELSE 1)
        <4> SUFFICES ASSUME NEW u \in Rank PROVE ip'[u] \in 1..(IF Running(u)' THEN Len(Code(u)') ELSE 1)
          OBVIOUS
        <4>1. CASE u = r
          BY <1>1, <1>6, <2>1, <2>2, <4>1
        <4>2. CASE u # r
          BY <1>4, <1>5, <4>2 DEF ProgInv
        <4> QED BY <4>1, <4>2
      <3> QED BY <1>4, <3>1 DEF ProgInv
    <2>4. Phase(r)' = IF i + 1 = 1 THEN 0 ELSE IF i + 1 < at THEN 1 ELSE IF i + 1 = at THEN 2
                      ELSE IF i + 1 = at + 1 THEN 4 ELSE 5
      BY <2>1, <2>2 DEF Phase
    <2> HIDE DEF c, at, i, s
    <2>5. Phase(r)' = Phase(r) + (IF Instr(r).op = "barrier" THEN 1 ELSE IF Instr(r).op = "reset" THEN 2 ELSE 0)
      BY <1>1, <1>2, <1>3, <2>4
    <2>6. Position(r)' = 5 * (s - 1) + Phase(r)' /\ Position(r) = 5 * (s - 1) + Phase(r) /\ Phase(r) \in Nat
      BY <1>3, <2>1 DEF Position, s
    <2> QED BY <1>1, <1>4, <2>3, <2>5, <2>6
  <1>7. CASE ~(i < Len(c))
    <2>0. i = Len(c)
      BY <1>1, <1>7
    <2>1. ip'[r] = 1 /\ step'[r] = s + 1
      BY <1>7 DEF Advance, ProgInv
    <2>2. ProgInv'
      <3>1. \A u \in Rank : ip'[u] \in 1..(IF Running(u)' THEN Len(Code(u)') ELSE 1)
        <4> SUFFICES ASSUME NEW u \in Rank PROVE ip'[u] \in 1..(IF Running(u)' THEN Len(Code(u)') ELSE 1)
          OBVIOUS
        <4>1. CASE u = r
          <5>1. CASE Running(u)'
            <6>1. step'[r] \in 1..Len(Work)
              BY <1>1, <2>1, <4>1, <5>1 DEF Running
            <6>2. Work[step'[r]] \in CollectiveName
              BY <6>1 DEF ProgInv
            <6>3. Len(Code(r)') \in Nat /\ ResetAt(Code(r)') \in 3..(Len(Code(r)') - 1)
              BY <6>2, Programs DEF Code, Layout
            <6> QED BY <2>1, <4>1, <5>1, <6>3
          <5> QED BY <2>1, <4>1, <5>1
        <4>2. CASE u # r
          BY <1>4, <1>5, <4>2 DEF ProgInv
        <4> QED BY <4>1, <4>2
      <3> QED BY <1>4, <3>1 DEF ProgInv
    <2>3. Phase(r)' = 0
      BY <2>1 DEF Phase
    <2> HIDE DEF c, at, i, s
    <2>4. 5 = Phase(r) + (IF Instr(r).op = "barrier" THEN 1 ELSE IF Instr(r).op = "reset" THEN 2 ELSE 0)
      BY <1>1, <1>2, <1>3, <2>0
    <2>5. Position(r)' = 5 * (s + 1 - 1) + 0 /\ Position(r) = 5 * (s - 1) + Phase(r)
      BY <1>1, <2>1, <2>3 DEF Position, s
    <2>6. Phase(r) \in Nat
      BY <1>3
    <2> QED BY <1>1, <1>4, <2>2, <2>4, <2>5, <2>6
  <1> QED BY <1>6, <1>7
-----------------------------------------------------------------------------
(* How many barriers a rank has entered *)

LifeState == {"start", "compare", "open", "clean", "lookup", "built", "init", "leave", "left", "enter",
              "running", "drop", "remove", "release", "switched", "gone"}

\* Where in the store a rank can be, by where it is in the life of its store.
PcOf(state) ==
    CASE state \in {"start", "compare", "open", "built"} -> {"new"}
      [] state \in {"clean", "lookup"} -> {"new", "clear"}
      [] state = "init" -> {"ctor", "wait", "wake", "idle"}
      [] state = "leave" -> {"wait", "wake", "idle"}
      [] state = "running" -> PcState \ {"new", "ctor"}
      [] state \in {"drop", "remove", "release"} -> {"clear", "idle"}
      [] state = "switched" -> {"clear"}
      [] state \in {"left", "enter", "gone"} -> {"idle"}

\* Between the entry of Reset's first barrier and that of its second.
InReset(r) == pc[r] \in {"waitFirst", "wakeFirst", "clear", "second"}

\* The rank has not run a program yet.
Early(r) == pc[r] \in {"new", "ctor"} \/ life[r] \in {"init", "leave", "left", "enter"}

RankShape(r) ==
    /\ pc[r] \in PcOf(life[r])
    /\ life[r] \in {"drop", "remove", "release", "gone"} /\ pc[r] = "idle" => ~Running(r)
    /\ InReset(r) => Running(r) /\ ip[r] = ResetAt(Code(r)) + 1
    /\ Early(r) => step[r] = 1 /\ ip[r] = 1

\* The barriers on the way of a rank: the constructor's, InitTensorStore's and
\* GetThreadGroup's, then those of the programs.
Stage(r) ==
    IF pc[r] \in {"new", "ctor"} THEN 0
    ELSE IF life[r] = "init" THEN 1
    ELSE IF life[r] \in {"leave", "left", "enter"} THEN 2
    ELSE 3 + Position(r) - (IF InReset(r) THEN 1 ELSE 0)

\* All that follows rests on this: a rank has entered as many barriers as the
\* place in its code says, so that ranks are at most one barrier apart.
StageInv ==
    /\ BarrierInv /\ ProgInv
    /\ life \in [Rank -> LifeState] /\ \A r \in Rank : RankShape(r) /\ Arrived[r] = Stage(r)

\* What every step of a rank does to its place and to the barrier.
Forward(r) ==
    /\ ProgInv' /\ UNCHANGED <<Work, pid>>
    /\ \A u \in Rank \ {r} : UNCHANGED <<pc[u], life[u], step[u], ip[u]>>
    /\ life' \in [Rank -> LifeState]
    /\ RankShape(r)'
    /\ \/ EntersBarrier(r) /\ pc[r] # "clear" /\ Stage(r)' = Stage(r) + 1
       \/ LeavesBarrier(r) /\ Stage(r)' = Stage(r)
       \/ AvoidsBarrier(r) /\ Stage(r)' = Stage(r)
       \/ UNCHANGED <<barrierVars, pc>> /\ Stage(r)' = Stage(r)

LEMMA Entering ==
    ASSUME BarrierInv, NEW r \in Rank, ~InBarrier(r), pc[r] # "new",
           NEW waiting \in WaitStates, NEW waking \in WakeStates, EnterBarrier(r, waiting, waking)
    PROVE  /\ EntersBarrier(r)
           /\ Goto(r, waiting) \/ Goto(r, waking)
           /\ UNCHANGED <<dataVars, arg, got, aborted>>
  <1>1. worldSize = WorldSize /\ barrierCounts < WorldSize /\ barrierCounts \in Nat /\ WorldSize \in Nat
    BY WaitersFinite DEF BarrierInv, BarrierCountsExact
  <1>2. ~(barrierCounts >= worldSize)
    BY <1>1
  <1>3. /\ barrierCounts < worldSize /\ currentRound' = [currentRound EXCEPT ![r] = barrierRound]
        /\ UNCHANGED <<dataVars, worldSize, arg, got, aborted>>
        /\ \/ /\ barrierCounts + 1 = worldSize /\ barrierCounts' = 0 /\ barrierRound' = barrierRound + 1
              /\ Goto(r, waking)
           \/ /\ barrierCounts + 1 # worldSize /\ barrierCounts' = barrierCounts + 1 /\ UNCHANGED barrierRound
              /\ Goto(r, waiting)
    BY <1>2, Zenon DEF EnterBarrier, Sleep
  <1>4. EntersBarrier(r)
    BY <1>3, Zenon DEF EntersBarrier
  <1> QED BY <1>3, <1>4

LEMMA StageFacts ==
    ASSUME StageInv, NEW r \in Rank
    PROVE  /\ pc \in [Rank -> PcState] /\ life \in [Rank -> LifeState] /\ ProgInv /\ RankShape(r)
           /\ step[r] \in Nat /\ Phase(r) \in Nat /\ Position(r) \in Nat
           /\ Early(r) => Position(r) = 0
           /\ InReset(r) => Phase(r) = 4
  <1>1. pc \in [Rank -> PcState] /\ life \in [Rank -> LifeState] /\ ProgInv /\ RankShape(r)
    BY DEF StageInv, BarrierInv, BarrierTypeOK
  <1>2. step[r] \in Nat /\ step[r] >= 1 /\ Phase(r) \in Nat
    BY <1>1 DEF ProgInv, Phase
  <1>3. Early(r) => step[r] = 1 /\ Phase(r) = 0
    BY <1>1 DEF RankShape, Phase
  <1>4. InReset(r) => Phase(r) = 4
    <2>1. SUFFICES ASSUME InReset(r) PROVE Phase(r) = 4
      OBVIOUS
    <2>2. Running(r) /\ ip[r] = ResetAt(Code(r)) + 1
      BY <1>1, <2>1 DEF RankShape
    <2>3. ResetAt(Code(r)) \in Nat /\ ResetAt(Code(r)) >= 3
      BY <1>1, <2>2, Coded
    <2> QED BY <2>2, <2>3 DEF Phase
  <1> QED BY <1>1, <1>2, <1>3, <1>4 DEF Position

\* Position and shape depend on little.
LEMMA StillThere ==
    ASSUME ProgInv, NEW r \in Rank, UNCHANGED <<Work, pid, step, ip, DOMAIN reg>>
    PROVE  ProgInv' /\ UNCHANGED <<Running(r), Code(r), Phase(r), Position(r)>>
  <1>1. \A u \in Rank : UNCHANGED <<Running(u), Code(u)>>
    BY DEF Running, Code
  <1>2. ProgInv'
    BY <1>1 DEF ProgInv
  <1>3. UNCHANGED <<Phase(r), Position(r)>>
    BY <1>1 DEF Phase, Position
  <1> QED BY <1>1, <1>2, <1>3

LEMMA ForwardKeepsStage ==
    ASSUME StageInv, NEW r \in Rank, Forward(r)
    PROVE  StageInv'
  <1> USE DEF Forward
  <1>1. BarrierInv' /\ Arrived' = IF EntersBarrier(r) THEN [Arrived EXCEPT ![r] = @ + 1] ELSE Arrived
    <2>1. CASE EntersBarrier(r)
      <3>1. R!Arrive(r) /\ Arrived[r] = Left[r]
        BY <2>1, EntersIsArrive DEF StageInv, R!Arrive
      <3> QED BY <2>1, <3>1, EntersKeepsInv DEF StageInv, R!Arrive
    <2>2. CASE LeavesBarrier(r)
      <3>1. Arrived' = Arrived /\ ~EntersBarrier(r)
        BY <2>2, LeavesIsLeave DEF StageInv, R!Leave, LeavesBarrier, EntersBarrier
      <3> QED BY <2>2, <3>1, OtherKindsKeepInv DEF StageInv
    <2>3. CASE AvoidsBarrier(r)
      <3>1. Arrived' = Arrived
        BY <2>3, AvoidsIsStutter DEF StageInv
      <3>2. ~EntersBarrier(r)
        BY <2>3 DEF AvoidsBarrier, EntersBarrier, StageInv, BarrierInv, BarrierTypeOK
      <3> QED BY <2>3, <3>1, <3>2, OtherKindsKeepInv DEF StageInv
    <2>4. CASE UNCHANGED <<barrierVars, pc>>
      <3>1. BarrierInv'
        BY <2>4 DEF StageInv, BarrierInv, BarrierTypeOK, BarrierCountsExact, CurrentWaiters, InBarrier, barrierVars
      <3>2. Arrived' = Arrived
        BY <2>4 DEF Arrived, InBarrier, barrierVars
      <3>3. ~EntersBarrier(r)
        BY <2>4 DEF EntersBarrier, barrierVars, StageInv, BarrierInv, BarrierTypeOK
      <3> QED BY <3>1, <3>2, <3>3
    <2> QED BY <2>1, <2>2, <2>3, <2>4
  <1>2. ASSUME NEW u \in Rank \ {r} PROVE RankShape(u)' /\ Stage(u)' = Stage(u) /\ Arrived'[u] = Arrived[u]
    <2>1. UNCHANGED <<pc[u], life[u], step[u], ip[u], Work>>
      OBVIOUS
    <2>2. UNCHANGED <<Running(u), Code(u)>>
      BY <2>1 DEF Running, Code
    <2>3. UNCHANGED <<InReset(u), Early(u), Position(u)>>
      BY <2>1, <2>2 DEF InReset, Early, Position, Phase
    <2>4. RankShape(u)' /\ Stage(u)' = Stage(u)
      BY <2>1, <2>2, <2>3 DEF RankShape, Stage, StageInv
    <2>5. Arrived'[u] = Arrived[u]
      BY <1>1 DEF Arrived
    <2> QED BY <2>4, <2>5
  <1>3. Arrived'[r] = Stage(r)'
    <2>1. Arrived[r] = Stage(r)
      BY DEF StageInv
    <2>2. CASE EntersBarrier(r)
      <3>1. Stage(r)' = Stage(r) + 1
        BY <2>2 DEF EntersBarrier, LeavesBarrier, AvoidsBarrier, barrierVars, StageInv, BarrierInv, BarrierTypeOK
      <3> QED BY <1>1, <2>1, <2>2, <3>1 DEF Arrived
    <2>3. CASE ~EntersBarrier(r)
      BY <1>1, <2>1, <2>3
    <2> QED BY <2>2, <2>3
  <1>4. \A u \in Rank : RankShape(u)' /\ Arrived'[u] = Stage(u)'
    BY <1>2, <1>3 DEF StageInv
  <1> QED BY <1>1, <1>4 DEF StageInv

\* Steps inside the store's operations, made by threads, promises and futures of
\* the store alone.
LEMMA StoreStepForward ==
    ASSUME StageInv, NEW r \in Rank, StoreStep(r), UNCHANGED <<lifeVars, progVars>>
    PROVE  Forward(r)
  <1>1. /\ pc \in [Rank -> PcState] /\ life \in [Rank -> LifeState] /\ ProgInv /\ RankShape(r)
        /\ BarrierInv /\ Position(r) \in Nat /\ (Early(r) => Position(r) = 0) /\ pc[r] \in PcOf(life[r])
    BY StageFacts DEF StageInv, RankShape
  <1>2. ProgInv' /\ UNCHANGED <<Running(r), Code(r), Position(r), Work, pid, life, step, ip>>
    BY <1>1, StillThere DEF progVars, lifeVars
  <1>3. life[r] \in LifeState
    BY <1>1
  <1>4. ASSUME NEW state \in PcState, Goto(r, state), state \in PcOf(life[r]),
               life[r] \in {"drop", "remove", "release", "gone"} => state # "idle",
               state \in {"waitFirst", "wakeFirst", "clear", "second"} => InReset(r),
               state \notin {"new", "ctor"},
               \/ EntersBarrier(r) /\ (pc[r] = "ctor" \/ pc[r] = "second") /\ state \in {"wait", "wake"}
               \/ /\ LeavesBarrier(r) \/ AvoidsBarrier(r) \/ UNCHANGED <<barrierVars, pc>>
                  /\ state \in {"waitFirst", "wakeFirst", "clear", "second"} <=> InReset(r)
                  /\ pc[r] \notin {"new", "ctor"}
        PROVE  Forward(r)
    <2>1. pc'[r] = state /\ \A u \in Rank \ {r} : pc'[u] = pc[u]
      BY <1>1, <1>4 DEF Goto
    <2>2. RankShape(r)'
      BY <1>1, <1>2, <1>4, <2>1 DEF RankShape, InReset, Early
    <2>3. CASE EntersBarrier(r) /\ (pc[r] = "ctor" \/ pc[r] = "second") /\ state \in {"wait", "wake"}
      <3>1. pc[r] = "ctor" => life[r] = "init"
        BY <1>1, <1>3, <2>3 DEF PcOf, LifeState
      <3>2. pc[r] = "second" => life[r] = "running"
        BY <1>1, <1>3, <2>3 DEF PcOf, LifeState
      <3>3. Stage(r)' = Stage(r) + 1
        BY <1>1, <1>2, <1>4, <2>1, <2>3, <3>1, <3>2 DEF Stage, InReset
      <3> QED BY <1>1, <1>2, <2>1, <2>2, <2>3, <3>3 DEF Forward
    <2>4. CASE /\ LeavesBarrier(r) \/ AvoidsBarrier(r) \/ UNCHANGED <<barrierVars, pc>>
               /\ state \in {"waitFirst", "wakeFirst", "clear", "second"} <=> InReset(r)
               /\ pc[r] \notin {"new", "ctor"}
      <3>1. Stage(r)' = Stage(r)
        BY <1>2, <1>4, <2>1, <2>4 DEF Stage, InReset
      <3> QED BY <1>1, <1>2, <2>1, <2>2, <2>4, <3>1 DEF Forward
    <2> QED BY <1>4, <2>3, <2>4
  <1>5. ASSUME UNCHANGED <<pc, barrierVars>> PROVE Forward(r)
    BY <1>1, <1>2, <1>5 DEF Forward, RankShape, InReset, Early, Stage
  <1>6. /\ {"idle", "wait", "wake", "clear", "srcWait", "destGet"} \subseteq PcState
        /\ {"idle", "clear", "srcWait", "destGet"} \subseteq PcState \ (BarrierState \cup {"new"})
    BY DEF PcState, BarrierState, WaitStates, WakeStates
  <1>7. ASSUME ConstructBarrier(r) PROVE Forward(r)
    <2>1. pc[r] = "ctor" /\ EnterBarrier(r, "wait", "wake")
      BY <1>7 DEF ConstructBarrier, At
    <2>2. PICK state \in {"wait", "wake"} : EntersBarrier(r) /\ Goto(r, state)
      BY <1>1, <2>1, Entering DEF InBarrier, BarrierState, WaitStates, WakeStates
    <2>3. life[r] = "init"
      BY <1>1, <1>3, <2>1 DEF PcOf, LifeState
    <2> QED BY <1>4, <1>6, <2>1, <2>2, <2>3 DEF PcOf
  <1>8. ASSUME ResetSecondBarrier(r) PROVE Forward(r)
    <2>1. pc[r] = "second" /\ EnterBarrier(r, "wait", "wake")
      BY <1>8 DEF ResetSecondBarrier, At
    <2>2. PICK state \in {"wait", "wake"} : EntersBarrier(r) /\ Goto(r, state)
      BY <1>1, <2>1, Entering DEF InBarrier, BarrierState, WaitStates, WakeStates
    <2>3. life[r] = "running"
      BY <1>1, <1>3, <2>1 DEF PcOf, LifeState
    <2> QED BY <1>4, <1>6, <2>1, <2>2, <2>3 DEF PcOf
  <1>9. ASSUME pc[r] \in BarrierState, currentRound[r] # barrierRound, Goto(r, AfterBarrier(pc[r])), UNCHANGED barrierVars
        PROVE  Forward(r)
    <2>1. AfterBarrier(pc[r]) \in {"idle", "clear"} /\ (AfterBarrier(pc[r]) = "clear" <=> InReset(r))
      BY <1>9 DEF AfterBarrier, InReset, BarrierState, WaitStates, WakeStates
    <2>2. LeavesBarrier(r)
      BY <1>6, <1>9, <2>1 DEF LeavesBarrier, InBarrier
    <2>3. life[r] \in {"init", "leave", "running"} /\ (InReset(r) => life[r] = "running")
      BY <1>1, <1>3, <1>9 DEF PcOf, LifeState, InReset, BarrierState, WaitStates, WakeStates
    <2>4. AfterBarrier(pc[r]) \in PcOf(life[r])
      BY <1>6, <2>1, <2>3 DEF PcOf
    <2>5. pc[r] \notin {"new", "ctor"}
      BY <1>9 DEF BarrierState, WaitStates, WakeStates
    <2> HIDE DEF LeavesBarrier
    <2> QED BY <1>4, <1>6, <1>9, <2>1, <2>2, <2>3, <2>4, <2>5
  <1>10. ASSUME ResumeBarrier(r) PROVE Forward(r)
    <2>1. CASE Sleep(r, pc[r]) /\ UNCHANGED barrierVars
      <3>1. pc' = pc
        BY <1>1, <2>1 DEF Sleep, Goto
      <3> QED BY <1>5, <2>1, <3>1
    <2>2. CASE currentRound[r] # barrierRound /\ Goto(r, AfterBarrier(pc[r])) /\ UNCHANGED barrierVars
      BY <1>9, <1>10, <2>2 DEF ResumeBarrier, BarrierState
    <2> QED BY <1>10, <2>1, <2>2 DEF ResumeBarrier
  <1>11. ASSUME NotifyBarrier(r) PROVE Forward(r)
    BY <1>1, <1>9, <1>11 DEF NotifyBarrier, BarrierState, BarrierInv
  <1>12. ASSUME pc[r] \in {"notify", "srcWait", "destGet"}, NEW state \in {"idle", "srcWait", "destGet"}, Goto(r, state),
                UNCHANGED barrierVars
         PROVE  Forward(r)
    <2>1. life[r] = "running"
      BY <1>1, <1>3, <1>12 DEF PcOf, LifeState
    <2>2. AvoidsBarrier(r)
      BY <1>6, <1>12 DEF AvoidsBarrier, barrierVars, InBarrier, BarrierState, WaitStates, WakeStates
    <2>3. ~InReset(r)
      BY <1>12 DEF InReset
    <2> HIDE DEF AvoidsBarrier
    <2>4. state \in PcOf(life[r])
      BY <1>6, <2>1 DEF PcOf
    <2> QED BY <1>4, <1>6, <1>12, <2>1, <2>2, <2>3, <2>4
  <1>13. ASSUME NotifyAll(r) \/ ResumeSrcWait(r) \/ ResumeDestGet(r) PROVE Forward(r)
    <2>1. CASE NotifyAll(r)
      BY <1>12, <2>1 DEF NotifyAll, At
    <2>2. CASE ResumeSrcWait(r)
      BY <1>5, <1>12, <2>2 DEF ResumeSrcWait, At, Abort, Sleep
    <2>3. CASE ResumeDestGet(r)
      BY <1>12, <2>3 DEF ResumeDestGet, At, Sleep
    <2> QED BY <1>13, <2>1, <2>2, <2>3
  <1> QED BY <1>7, <1>8, <1>10, <1>11, <1>13 DEF StoreStep

\* The instructions of the collectives, of which two enter a barrier.
LEMMA ExecForward ==
    ASSUME StageInv, NEW r \in Rank, Live(r, "running"), Exec(r), UNCHANGED <<Work, lifeVars>>
    PROVE  Forward(r) /\ Running(r) /\ pc[r] = "idle"
  <1>1. /\ pc \in [Rank -> PcState] /\ life \in [Rank -> LifeState] /\ ProgInv /\ RankShape(r)
        /\ BarrierInv /\ Position(r) \in Nat
    BY StageFacts DEF StageInv
  <1>2. /\ pc[r] = "idle" /\ Running(r) /\ life[r] = "running" /\ life' = life
        /\ UNCHANGED <<Work, pid>>
    BY DEF Exec, ExecSet, ExecGet, ExecFinish, ExecWait, ExecBarrier, ExecReset, ExecBind, ExecAppend,
           ExecAdd, ExecClone, ExecChunk, AtInstr, Live, lifeVars
  <1>3. PICK regs : Advance(r, regs)
    BY DEF Exec, ExecSet, ExecGet, ExecFinish, ExecWait, ExecBarrier, ExecReset, ExecBind, ExecAppend,
           ExecAdd, ExecClone, ExecChunk, Keep, Assign
  <1>4. /\ ProgInv'
        /\ \A u \in Rank \ {r} : UNCHANGED <<step[u], ip[u]>>
        /\ Position(r)' = Position(r) + (IF Instr(r).op = "barrier" THEN 1
                                         ELSE IF Instr(r).op = "reset" THEN 2 ELSE 0)
    BY <1>1, <1>2, <1>3, Advanced
  <1>5. ~Early(r) /\ ~InReset(r) /\ ~InBarrier(r)
    BY <1>2 DEF Early, InReset, InBarrier, BarrierState, WaitStates, WakeStates
  <1>6. ASSUME NEW state \in PcState, Goto(r, state), state \notin {"new", "ctor"},
               state \in {"waitFirst", "wakeFirst", "clear", "second"} => Running(r)' /\ ip'[r] = ResetAt(Code(r))' + 1
        PROVE  /\ RankShape(r)' /\ \A u \in Rank \ {r} : UNCHANGED <<pc[u], life[u], step[u], ip[u]>>
               /\ Stage(r) = 3 + Position(r)
               /\ Stage(r)' = 3 + Position(r)' - (IF state \in {"waitFirst", "wakeFirst", "clear", "second"} THEN 1 ELSE 0)
    <2>1. pc'[r] = state /\ \A u \in Rank \ {r} : pc'[u] = pc[u]
      BY <1>1, <1>6 DEF Goto
    <2>2. pc'[r] \in PcOf(life'[r])
      BY <1>2, <1>6, <2>1 DEF PcOf
    <2>3. RankShape(r)'
      BY <1>2, <1>6, <2>1, <2>2 DEF RankShape, InReset, Early
    <2>4. Stage(r) = 3 + Position(r)
      BY <1>1, <1>2, <1>5 DEF Stage
    <2>5. Stage(r)' = 3 + Position(r)' - (IF state \in {"waitFirst", "wakeFirst", "clear", "second"} THEN 1 ELSE 0)
      BY <1>2, <1>6, <2>1 DEF Stage, InReset
    <2> QED BY <1>2, <1>4, <2>1, <2>3, <2>4, <2>5
  <1>7. CASE ExecBarrier(r)
    <2>1. Instr(r).op = "barrier" /\ EnterBarrier(r, "wait", "wake")
      BY <1>7 DEF ExecBarrier, AtInstr, Barrier
    <2>2. PICK state \in {"wait", "wake"} : EntersBarrier(r) /\ Goto(r, state)
      BY <1>1, <1>2, <1>5, <2>1, Entering DEF WaitStates, WakeStates
    <2>3. state \in PcState
      BY DEF PcState, BarrierState, WaitStates, WakeStates
    <2>4. Stage(r)' = Stage(r) + 1
      BY <1>1, <1>4, <1>6, <2>1, <2>2, <2>3
    <2> QED BY <1>1, <1>2, <1>4, <1>6, <2>2, <2>3, <2>4 DEF Forward
  <1>8. CASE ExecReset(r)
    <2>1. Instr(r).op = "reset" /\ EnterBarrier(r, "waitFirst", "wakeFirst")
      BY <1>8 DEF ExecReset, AtInstr, Reset
    <2>2. PICK state \in {"waitFirst", "wakeFirst"} : EntersBarrier(r) /\ Goto(r, state)
      BY <1>1, <1>2, <1>5, <2>1, Entering DEF WaitStates, WakeStates
    <2>3. state \in PcState
      BY DEF PcState, BarrierState, WaitStates, WakeStates
    <2>4. Running(r)' /\ ip'[r] = ResetAt(Code(r))' + 1
      <3>1. ip[r] = ResetAt(Code(r)) /\ ResetAt(Code(r)) \in 3..(Len(Code(r)) - 1) /\ Len(Code(r)) \in Nat
        BY <1>1, <1>2, <2>1, Placed, Coded
      <3>2. ip[r] < Len(Code(r))
        BY <3>1
      <3>3. ip'[r] = ip[r] + 1 /\ UNCHANGED step
        BY <1>1, <1>3, <3>2 DEF Advance, ProgInv
      <3>4. UNCHANGED <<Running(r), Code(r)>>
        BY <1>2, <3>3 DEF Running, Code
      <3> QED BY <1>2, <3>1, <3>3, <3>4
    <2>5. Stage(r)' = Stage(r) + 1
      BY <1>1, <1>4, <1>6, <2>1, <2>2, <2>3, <2>4
    <2> QED BY <1>1, <1>2, <1>4, <1>6, <2>2, <2>3, <2>4, <2>5 DEF Forward
  <1>9. ASSUME NEW state \in {"idle", "notify", "srcWait", "destGet"}, Goto(r, state), UNCHANGED barrierVars,
               Instr(r).op \notin {"barrier", "reset"}
        PROVE  Forward(r)
    <2>1. state \in PcState /\ state \in PcState \ (BarrierState \cup {"new"})
      BY DEF PcState, BarrierState, WaitStates, WakeStates
    <2>2. AvoidsBarrier(r)
      BY <1>2, <1>5, <1>9, <2>1 DEF AvoidsBarrier, barrierVars
    <2>3. Stage(r)' = Stage(r)
      BY <1>1, <1>4, <1>6, <1>9, <2>1
    <2> HIDE DEF AvoidsBarrier
    <2> QED BY <1>1, <1>2, <1>4, <1>6, <1>9, <2>1, <2>2, <2>3 DEF Forward
  <1>10. ASSUME UNCHANGED <<barrierVars, pc>>, Instr(r).op \notin {"barrier", "reset"}
         PROVE  Forward(r)
    <2>1. Goto(r, "idle")
      BY <1>1, <1>2, <1>10 DEF Goto
    <2> QED BY <1>9, <1>10, <2>1
  <1>11. CASE ExecSet(r)
    BY <1>9, <1>10, <1>11 DEF ExecSet, AtInstr, SrcSet, Abort
  <1>12. CASE ExecGet(r)
    BY <1>9, <1>10, <1>12 DEF ExecGet, AtInstr, DestGet, Sleep
  <1>13. CASE ExecFinish(r)
    BY <1>9, <1>10, <1>13 DEF ExecFinish, AtInstr, DestFinishGet, Abort
  <1>14. CASE ExecWait(r)
    BY <1>9, <1>10, <1>14 DEF ExecWait, AtInstr, SrcWaitUntilGetFinished, Abort, Sleep
  <1>15. CASE ExecBind(r) \/ ExecAppend(r) \/ ExecAdd(r) \/ ExecClone(r) \/ ExecChunk(r)
    BY <1>10, <1>15 DEF ExecBind, ExecAppend, ExecAdd, ExecClone, ExecChunk, AtInstr, storeVars
  <1> QED BY <1>2, <1>7, <1>8, <1>11, <1>12, <1>13, <1>14, <1>15 DEF Exec

-----------------------------------------------------------------------------
(* Which store a rank has *)

\* How many of its Resets have brought the rank to a store of the next number.
Done(r) ==
    IF \/ Phase(r) < 4
       \/ pc[r] \in {"waitFirst", "wakeFirst"}
       \/ pc[r] = "clear" /\ life[r] = "running"
    THEN step[r] - 1 ELSE step[r]

LifeTypeOK ==
    /\ DOMAIN storeType = Rank
    /\ mResetCount \in [Rank -> StoreName]
    /\ DOMAIN file = StoreName \cup {Checker} /\ \A n \in DOMAIN file : file[n] \in Object(n) \cup {None}
    /\ checker \in [Rank -> Object(Checker) \cup {None}]
    /\ DOMAIN mImplPtr = Rank /\ DOMAIN spare = Rank /\ DOMAIN holds = Rank
    /\ DOMAIN mImplMap = Rank /\ \A p \in Rank : DOMAIN mImplMap[p] = StoreName
    /\ \A p \in Rank : \A n \in StoreName : mImplMap[p][n] \in Object(n) \cup {None}

Decided(r) == life[r] \notin {"start", "compare"}
File(r)    == Decided(r) /\ storeType[r] = "kFile"

\* A rank decides by the processes alone, so all decide alike.
TypeInv(r) ==
    IF ~Decided(r) THEN mResetCount[r] = 0
    ELSE \/ storeType[r] = "kFile" /\ (\E u \in Rank : pid[u] # pid[r]) /\ mResetCount[r] = Done(r)
         \/ storeType[r] = "kMemory" /\ (\A u \in Rank : pid[u] = pid[r]) /\ mResetCount[r] = 0

\* The segments a file store has open, by where it is in its life: its own, the
\* next one's, or the one it is about to give up.
ImplInv(r) ==
    IF ~File(r)
    THEN /\ mImplPtr[r] = None /\ spare[r] = None
         /\ life[r] \notin {"open", "drop", "remove", "switched"}
         /\ life[r] \in {"clean", "lookup"} => pc[r] = "new"
         /\ life[r] = "release" => pc[r] = "idle"
    ELSE CASE life[r] = "open" -> mImplPtr[r] = None /\ spare[r] = None
           [] life[r] = "gone" -> mImplPtr[r] = None /\ spare[r] = None
           [] life[r] \in {"clean", "lookup"} ->
                /\ spare[r] \in Object(mResetCount[r])
                /\ IF pc[r] = "new" THEN mImplPtr[r] = None ELSE mImplPtr[r] \in Object(mResetCount[r] - 1)
           [] life[r] \in {"drop", "remove", "release"} ->
                IF pc[r] = "idle"
                THEN mImplPtr[r] = None /\ spare[r] \in Object(mResetCount[r])
                ELSE mImplPtr[r] \in Object(mResetCount[r]) /\ spare[r] \in Object(mResetCount[r] - 1)
           [] OTHER -> mImplPtr[r] \in Object(mResetCount[r]) /\ spare[r] = None

Opened(u, n) == life[u] \notin {"start", "compare", "open"} /\ n <= mResetCount[u]
Held(r) == {mImplPtr[r], spare[r]} \ {None}

\* Segments of one name are one segment for everyone who has it open, and as
\* long as somebody has yet to open it the name leads there.
SegmentInv ==
    \A r, u \in Rank : \A x \in Held(r) :
        /\ \A y \in Held(u) : x.name = y.name => x = y
        /\ ~Opened(u, x.name) => file[x.name] = x

CheckerInv ==
    \A r, u \in Rank : /\ life[r] = "start" => checker[r] = None
                       /\ life[u] = "start" /\ checker[r] # None => file[Checker] = checker[r]

Keeping(r) == Built(r) \/ (life[r] \in {"drop", "remove", "release"} /\ mImplPtr[r] # None)

\* What a rank holds is what the manager of its process has under that name, and
\* it holds an object of its store's number as long as it has a store.
HoldInv(r) ==
    /\ \A o \in holds[r] : o # None /\ o.name \in StoreName /\ mImplMap[pid[r]][o.name] = o
    /\ Keeping(r)
         => \E o \in holds[r] : o.name = mResetCount[r]

LifeInv ==
    /\ LifeTypeOK /\ SegmentInv /\ CheckerInv
    /\ \A r \in Rank : TypeInv(r) /\ ImplInv(r) /\ HoldInv(r)

\* What the invariant says of the place of a rank that has, or lacks, a store.
LEMMA ImplPlace ==
    ASSUME StageInv, LifeInv, NEW r \in Rank
    PROVE  /\ life[r] = "lookup" => (mImplPtr[r] = None <=> pc[r] = "new")
           /\ life[r] \in {"drop", "remove", "release"} => (mImplPtr[r] = None <=> pc[r] = "idle")
           /\ life[r] \in {"clean", "lookup"} => pc[r] \in {"new", "clear"}
           /\ life[r] \in {"drop", "remove", "release"} => pc[r] \in {"idle", "clear"}
           /\ mResetCount[r] \in Nat /\ mResetCount[r] \in StoreName
           /\ File(r) /\ pc[r] = "clear" /\ life[r] # "running" =>
                mResetCount[r] - 1 \in StoreName /\ None \notin Object(mResetCount[r] - 1)
           /\ None \notin Object(mResetCount[r])
  <1>1. /\ RankShape(r) /\ ImplInv(r) /\ TypeInv(r) /\ mResetCount[r] \in StoreName
        /\ life[r] \in LifeState /\ step[r] \in Nat /\ step[r] >= 1 /\ (InReset(r) => Phase(r) = 4)
    BY StageFacts DEF LifeInv, LifeTypeOK, ProgInv
  <1>2. mResetCount[r] \in Nat /\ None \notin Object(mResetCount[r])
    BY <1>1, NoneAssumption, LifetimeAssumption DEF StoreName
  <1>3. /\ life[r] \in {"clean", "lookup"} => pc[r] \in {"new", "clear"}
        /\ life[r] \in {"drop", "remove", "release"} => pc[r] \in {"idle", "clear"}
    BY <1>1 DEF RankShape, PcOf
  <1>4. ASSUME File(r), pc[r] = "clear", life[r] # "running"
        PROVE  mResetCount[r] - 1 \in StoreName /\ None \notin Object(mResetCount[r] - 1)
    <2>1. mResetCount[r] = step[r]
      BY <1>1, <1>4 DEF TypeInv, Done, InReset, File
    <2>2. mResetCount[r] - 1 \in StoreName
      BY <1>1, <2>1, LifetimeAssumption DEF StoreName
    <2> QED BY <2>2, NoneAssumption
  <1>5. ~File(r) =>
            /\ mImplPtr[r] = None
            /\ life[r] \in {"clean", "lookup"} => pc[r] = "new"
            /\ life[r] \notin {"drop", "remove"} /\ (life[r] = "release" => pc[r] = "idle")
    BY <1>1 DEF ImplInv
  <1>6. File(r) =>
          /\ life[r] = "lookup" =>
                IF pc[r] = "new" THEN mImplPtr[r] = None ELSE mImplPtr[r] \in Object(mResetCount[r] - 1)
          /\ life[r] \in {"drop", "remove", "release"} =>
                IF pc[r] = "idle" THEN mImplPtr[r] = None ELSE mImplPtr[r] \in Object(mResetCount[r])
    BY <1>1 DEF ImplInv
  <1>7. life[r] = "lookup" => (mImplPtr[r] = None <=> pc[r] = "new")
    BY <1>3, <1>4, <1>5, <1>6
  <1>8. life[r] \in {"drop", "remove", "release"} => (mImplPtr[r] = None <=> pc[r] = "idle")
    BY <1>2, <1>3, <1>5, <1>6
  <1> QED BY <1>1, <1>2, <1>3, <1>4, <1>7, <1>8

\* The steps that find, change and leave the store.
LEMMA LifeForward ==
    ASSUME StageInv, LifeInv, NEW r \in Rank, UNCHANGED progVars,
           LifeStep(r) \/ (~Running(r) /\ DestroyStore(r))
    PROVE  Forward(r)
  <1>1. /\ pc \in [Rank -> PcState] /\ life \in [Rank -> LifeState] /\ ProgInv /\ RankShape(r)
        /\ BarrierInv /\ Position(r) \in Nat /\ (Early(r) => Position(r) = 0) /\ pc[r] \in PcOf(life[r])
    BY StageFacts DEF StageInv, RankShape
  <1>p. /\ life[r] = "lookup" => (mImplPtr[r] = None <=> pc[r] = "new")
        /\ life[r] \in {"drop", "remove", "release"} => (mImplPtr[r] = None <=> pc[r] = "idle")
        /\ life[r] \in {"clean", "lookup"} => pc[r] \in {"new", "clear"}
        /\ life[r] \in {"drop", "remove", "release"} => pc[r] \in {"idle", "clear"}
        /\ life[r] \in LifeState
    BY <1>1, ImplPlace
  <1>u. UNCHANGED pid
    BY DEF LifeStep, OpenChecker, Decide, LeaveChecker, RemoveChecker, OpenSegment, CleanExpiredEntries, GetImpl,
           ConstructStore, LifeBarrier, NextFile, ResetContents, DropUser, FinishImpl, DestroyStore, OpenNamed, lifeVars
  <1>2. ProgInv' /\ UNCHANGED <<Running(r), Code(r), Position(r), Work, pid, step, ip>>
    BY <1>1, <1>u, StillThere DEF progVars
  <1>3. ASSUME UNCHANGED <<pc, barrierVars, life>> PROVE Forward(r)
    BY <1>1, <1>2, <1>3 DEF Forward, RankShape, InReset, Early, Stage
  <1>4. ASSUME NEW state \in LifeState, Become(r, state), UNCHANGED <<pc, barrierVars>>, pc[r] \in PcOf(state),
               state \in {"drop", "remove", "release", "gone"} /\ pc[r] = "idle" => ~Running(r),
               pc[r] \in {"new", "ctor"} \/ (state \notin {"init", "leave", "left", "enter"}
                                             /\ life[r] \notin {"init", "leave", "left", "enter"})
                   \/ (state \in {"leave", "left", "enter"} /\ life[r] \in {"leave", "left", "enter"})
        PROVE  Forward(r)
    <2>1. life'[r] = state /\ life' \in [Rank -> LifeState] /\ \A u \in Rank \ {r} : life'[u] = life[u]
      BY <1>1, <1>4 DEF Become
    <2>2. RankShape(r)'
      BY <1>1, <1>2, <1>4, <2>1 DEF RankShape, InReset, Early
    <2>3. Stage(r)' = Stage(r)
      BY <1>1, <1>2, <1>4, <2>1 DEF Stage, InReset
    <2> QED BY <1>2, <1>4, <2>1, <2>2, <2>3 DEF Forward
  <1>5. CASE OpenChecker(r)
    BY <1>1, <1>4, <1>5 DEF OpenChecker, Live, LifeState, PcOf, storeVars
  <1>6. ASSUME NEW type \in {"kMemory", "kFile"}, Decide(r, type) PROVE Forward(r)
    BY <1>1, <1>4, <1>6 DEF Decide, Live, LifeState, PcOf, storeVars
  <1>7. CASE LeaveChecker(r)
    BY <1>1, <1>4, <1>7 DEF LeaveChecker, Live, LifeState, PcOf, storeVars
  <1>8. CASE RemoveChecker(r)
    BY <1>1, <1>4, <1>8 DEF RemoveChecker, Live, LifeState, PcOf, storeVars
  <1>9. CASE OpenSegment(r)
    BY <1>1, <1>4, <1>9 DEF OpenSegment, OpenNamed, Live, LifeState, PcOf, storeVars
  <1>10. CASE NextFile(r)
    BY <1>1, <1>4, <1>10 DEF NextFile, OpenNamed, Live, LifeState, PcOf, storeVars
  <1>11. CASE CleanExpiredEntries(r)
    BY <1>1, <1>4, <1>11 DEF CleanExpiredEntries, Live, LifeState, PcOf, storeVars
  <1>12. CASE GetImpl(r)
    <2>1. CASE Abort /\ UNCHANGED lifeVars
      BY <1>3, <2>1 DEF Abort, lifeVars
    <2>2. CASE Become(r, IF mImplPtr[r] = None THEN "built" ELSE "drop") /\ UNCHANGED storeVars
      BY <1>1, <1>p, <1>4, <1>12, <2>2 DEF GetImpl, Live, LifeState, PcOf, storeVars
    <2> QED BY <1>12, <2>1, <2>2 DEF GetImpl
  <1>13. CASE DropUser(r)
    <2>1. life[r] = "drop"
      BY <1>13 DEF DropUser, Live
    <2> QED BY <1>1, <1>p, <1>4, <1>13, <2>1 DEF DropUser, LifeState, PcOf, storeVars, RankShape
  <1>14. CASE FinishImpl(r)
    <2>1. life[r] \in {"remove", "release"}
      BY <1>14 DEF FinishImpl, Live
    <2> QED BY <1>1, <1>p, <1>4, <1>14, <2>1 DEF FinishImpl, LifeState, PcOf, storeVars, RankShape
  <1>15. CASE ~Running(r) /\ DestroyStore(r)
    BY <1>1, <1>4, <1>15 DEF DestroyStore, Live, LifeState, PcOf, storeVars
  <1>16. CASE ConstructStore(r)
    <2>1. /\ life[r] = "built" /\ pc[r] = "new" /\ Become(r, "init") /\ Goto(r, "ctor")
          /\ worldSize' = WorldSize /\ UNCHANGED <<barrierCounts, barrierRound, currentRound>>
      BY <1>16 DEF ConstructStore, Construct, At, Live
    <2>2. /\ life'[r] = "init" /\ life' \in [Rank -> LifeState] /\ \A u \in Rank \ {r} : life'[u] = life[u]
          /\ pc'[r] = "ctor" /\ \A u \in Rank \ {r} : pc'[u] = pc[u]
      BY <1>1, <2>1 DEF Become, Goto, LifeState
    <2>3. RankShape(r)'
      BY <1>1, <1>2, <2>1, <2>2 DEF RankShape, InReset, Early, PcOf
    <2>4. Stage(r)' = Stage(r)
      BY <2>1, <2>2 DEF Stage
    <2>5. AvoidsBarrier(r)
      BY <2>1 DEF AvoidsBarrier, InBarrier, BarrierState, WaitStates, WakeStates, PcState
    <2> HIDE DEF AvoidsBarrier
    <2> QED BY <1>2, <2>2, <2>3, <2>4, <2>5 DEF Forward
  <1>17. CASE LifeBarrier(r)
    <2>1. PICK next \in {"leave", "running"} :
             /\ Become(r, next) /\ life[r] = IF next = "leave" THEN "init" ELSE "enter"
      BY <1>17 DEF LifeBarrier
    <2>2. pc[r] = "idle" /\ EnterBarrier(r, "wait", "wake")
      BY <1>17 DEF LifeBarrier, Barrier, At
    <2>3. PICK state \in {"wait", "wake"} : EntersBarrier(r) /\ Goto(r, state)
      BY <1>1, <2>2, Entering DEF InBarrier, BarrierState, WaitStates, WakeStates
    <2>4. /\ life'[r] = next /\ life' \in [Rank -> LifeState] /\ \A u \in Rank \ {r} : life'[u] = life[u]
          /\ pc'[r] = state /\ \A u \in Rank \ {r} : pc'[u] = pc[u]
      BY <1>1, <2>1, <2>3 DEF Become, Goto, LifeState
    <2>5. state \in PcOf(next)
      BY DEF PcOf, PcState, BarrierState, WaitStates, WakeStates
    <2>6. RankShape(r)'
      BY <1>1, <1>2, <2>1, <2>2, <2>4, <2>5 DEF RankShape, InReset, Early
    <2>7. Stage(r)' = Stage(r) + 1
      <3>1. Early(r)
        BY <2>1 DEF Early
      <3> QED BY <1>1, <1>2, <2>1, <2>2, <2>4, <3>1 DEF Stage, InReset
    <2> QED BY <1>2, <2>2, <2>3, <2>4, <2>6, <2>7 DEF Forward
  <1>18. CASE ResetContents(r)
    <2>1. /\ life[r] \in {"switched", "running"} /\ pc[r] = "clear" /\ Become(r, "running") /\ Goto(r, "second")
          /\ UNCHANGED barrierVars
      BY <1>18 DEF ResetContents, ResetClear, At, Live
    <2>2. /\ life'[r] = "running" /\ life' \in [Rank -> LifeState] /\ \A u \in Rank \ {r} : life'[u] = life[u]
          /\ pc'[r] = "second" /\ \A u \in Rank \ {r} : pc'[u] = pc[u]
      BY <1>1, <2>1 DEF Become, Goto, LifeState
    <2>3. RankShape(r)'
      BY <1>1, <1>2, <2>1, <2>2 DEF RankShape, InReset, Early, PcOf, PcState
    <2>4. Stage(r)' = Stage(r)
      BY <1>2, <2>1, <2>2 DEF Stage, InReset
    <2>5. AvoidsBarrier(r)
      BY <2>1 DEF AvoidsBarrier, InBarrier, BarrierState, WaitStates, WakeStates, PcState, barrierVars
    <2> HIDE DEF AvoidsBarrier
    <2> QED BY <1>2, <2>2, <2>3, <2>4, <2>5 DEF Forward
  <1> QED BY <1>5, <1>6, <1>7, <1>8, <1>9, <1>10, <1>11, <1>12, <1>13, <1>14, <1>15, <1>16, <1>17, <1>18 DEF LifeStep

\* A segment a rank has open is of a file store, and the rank has been there.
LEMMA HeldFacts ==
    ASSUME StageInv, LifeInv, NEW r \in Rank, NEW x \in Held(r)
    PROVE  File(r) /\ x.name \in StoreName /\ x \in Object(x.name) /\ Opened(r, x.name)
  <1>1. /\ ImplInv(r) /\ x \in {mImplPtr[r], spare[r]} /\ x # None /\ life[r] \in LifeState
    BY StageFacts DEF LifeInv, Held
  <1>2. /\ mResetCount[r] \in Nat /\ mResetCount[r] \in StoreName
        /\ File(r) /\ pc[r] = "clear" /\ life[r] # "running" => mResetCount[r] - 1 \in StoreName
        /\ life[r] \in {"clean", "lookup"} => pc[r] \in {"new", "clear"}
        /\ life[r] \in {"drop", "remove", "release"} => pc[r] \in {"idle", "clear"}
    BY ImplPlace
  <1>3. File(r) /\ life[r] # "open"
    BY <1>1 DEF ImplInv
  <1>4. \/ x \in Object(mResetCount[r])
        \/ x \in Object(mResetCount[r] - 1) /\ mResetCount[r] - 1 \in StoreName
    BY <1>1, <1>2, <1>3 DEF ImplInv
  <1>5. PICK n \in {mResetCount[r], mResetCount[r] - 1} : x \in Object(n) /\ n \in StoreName
    BY <1>2, <1>4
  <1>6. x.name = n
    BY <1>5 DEF Object
  <1> QED BY <1>2, <1>3, <1>5, <1>6 DEF Opened, File, Decided

\* Ranks are one barrier apart at most, and no rank is ahead of one outside.
LEMMA Close ==
    ASSUME StageInv, NEW r \in Rank, NEW u \in Rank, ~InBarrier(r)
    PROVE  Stage(u) \in {Stage(r), Stage(r) + 1}
  <1>1. /\ Arrived[r] = Stage(r) /\ Arrived[u] = Stage(u)
        /\ barrierRound \in Nat /\ currentRound \in [Rank -> Nat]
        /\ InBarrier(u) => currentRound[u] <= barrierRound /\ barrierRound <= currentRound[u] + 1
    BY DEF StageInv, BarrierInv, BarrierTypeOK, BarrierCountsExact
  <1>2. Arrived[r] = barrierRound
    BY DEF Arrived
  <1>3. Arrived[u] = IF InBarrier(u) THEN currentRound[u] + 1 ELSE barrierRound
    BY DEF Arrived
  <1> QED BY <1>1, <1>2, <1>3

\* Nobody has yet to open a file that is about to be removed.
LEMMA RemovesLast ==
    ASSUME StageInv, LifeInv, NEW r \in Rank, life[r] = "remove", NEW u \in Rank
    PROVE  spare[r] # None /\ spare[r].name \in StoreName /\ Opened(u, spare[r].name)
  <1>1. File(r) /\ spare[r] # None /\ pc[r] \in {"idle", "clear"} /\ (pc[r] = "idle" => ~Running(r))
        /\ \E n \in StoreName : spare[r] \in Object(n) /\ n = mResetCount[r] - (IF pc[r] = "idle" THEN 0 ELSE 1)
    <2>1. File(r) /\ ImplInv(r) /\ pc[r] \in {"idle", "clear"}
      BY ImplPlace DEF LifeInv, ImplInv
    <2>2. /\ mResetCount[r] \in Nat /\ mResetCount[r] \in StoreName /\ None \notin Object(mResetCount[r])
          /\ pc[r] = "clear" => mResetCount[r] - 1 \in StoreName /\ None \notin Object(mResetCount[r] - 1)
      BY <2>1, ImplPlace
    <2>3. pc[r] = "idle" => ~Running(r)
      BY StageFacts DEF RankShape
    <2>4. spare[r] \in Object(mResetCount[r] - (IF pc[r] = "idle" THEN 0 ELSE 1))
      <3>1. IF pc[r] = "idle" THEN spare[r] \in Object(mResetCount[r]) ELSE spare[r] \in Object(mResetCount[r] - 1)
        BY <2>1 DEF ImplInv
      <3>2. mResetCount[r] - 0 = mResetCount[r]
        BY <2>2
      <3> QED BY <3>1, <3>2
    <2> QED BY <2>1, <2>2, <2>3, <2>4
  <1>2. PICK n \in StoreName : spare[r] \in Object(n) /\ n = mResetCount[r] - (IF pc[r] = "idle" THEN 0 ELSE 1)
    BY <1>1
  <1>3. spare[r].name = n
    BY <1>2 DEF Object
  <1>4. ~InBarrier(r) /\ ~Early(r) /\ (InReset(r) <=> pc[r] = "clear")
    BY <1>1 DEF InBarrier, BarrierState, WaitStates, WakeStates, Early, InReset
  <1>5. \A v \in Rank : /\ step[v] \in Nat /\ step[v] >= 1 /\ step[v] <= Len(Work) + 1 /\ Len(Work) \in Nat
                        /\ Phase(v) \in {0, 1, 2, 4, 5} /\ (InReset(v) => Phase(v) = 4)
                        /\ Position(v) = 5 * (step[v] - 1) + Phase(v)
                        /\ mResetCount[v] \in Nat
    <2> SUFFICES ASSUME NEW v \in Rank
                 PROVE  /\ step[v] \in Nat /\ step[v] >= 1 /\ step[v] <= Len(Work) + 1 /\ Len(Work) \in Nat
                        /\ Phase(v) \in {0, 1, 2, 4, 5} /\ (InReset(v) => Phase(v) = 4)
                        /\ Position(v) = 5 * (step[v] - 1) + Phase(v)
                        /\ mResetCount[v] \in Nat
      OBVIOUS
    <2>1. (InReset(v) => Phase(v) = 4) /\ mResetCount[v] \in Nat
      BY StageFacts, ImplPlace
    <2>2. step \in [Rank -> 1..(Len(Work) + 1)] /\ Len(Work) \in Nat
      BY DEF StageInv, ProgInv
    <2>3. step[v] \in 1..(Len(Work) + 1)
      BY <2>2
    <2>4. Phase(v) \in {0, 1, 2, 4, 5}
      BY DEF Phase
    <2> QED BY <2>1, <2>2, <2>3, <2>4 DEF Position
  <1>r. /\ step[r] \in Nat /\ step[r] >= 1 /\ step[r] <= Len(Work) + 1 /\ Len(Work) \in Nat
        /\ InReset(r) => Phase(r) = 4
        /\ Position(r) = 5 * (step[r] - 1) + Phase(r)
    BY <1>5
  <1>u. /\ step[u] \in Nat /\ step[u] >= 1 /\ step[u] <= Len(Work) + 1
        /\ Phase(u) \in {0, 1, 2, 4, 5} /\ (InReset(u) => Phase(u) = 4)
        /\ Position(u) = 5 * (step[u] - 1) + Phase(u)
    BY <1>5
  <1>6. /\ Stage(r) = 3 + Position(r) - (IF InReset(r) THEN 1 ELSE 0)
        /\ mResetCount[r] = IF pc[r] = "idle" THEN Len(Work) ELSE step[r]
        /\ Stage(r) = IF pc[r] = "idle" THEN 3 + 5 * Len(Work) ELSE 5 * step[r] + 1
    <2>1. Stage(r) = 3 + Position(r) - (IF InReset(r) THEN 1 ELSE 0)
      BY <1>1, <1>4 DEF Stage
    <2>2. mResetCount[r] = Done(r)
      BY <1>1 DEF LifeInv, TypeInv, File
    <2>3. CASE pc[r] = "idle"
      <3>1. ~Running(r) /\ Phase(r) = 0
        BY <1>1, <2>3 DEF Phase
      <3>2. step[r] = Len(Work) + 1
        BY <1>r, <3>1 DEF Running
      <3>3. ~InReset(r) /\ step[r] - 1 = Len(Work) /\ 5 * (step[r] - 1) = 5 * Len(Work) /\ 5 * Len(Work) \in Nat
        BY <1>4, <1>r, <2>3, <3>2
      <3> QED BY <1>r, <2>1, <2>2, <2>3, <3>1, <3>3 DEF Done, InReset
    <2>4. CASE pc[r] = "clear"
      BY <1>4, <1>r, <2>1, <2>2, <2>4 DEF Done
    <2> QED BY <1>1, <2>1, <2>3, <2>4
  <1>7. Stage(u) \in {Stage(r), Stage(r) + 1}
    BY <1>4, Close
  <1>8. Stage(u) >= 3
    <2>1. 5 * step[r] \in Nat /\ 5 * Len(Work) \in Nat /\ 5 * step[r] >= 5
      BY <1>5
    <2> QED BY <1>1, <1>6, <1>7, <2>1
  <1>9. Decided(u) /\ life[u] # "open" /\ Stage(u) = 3 + Position(u) - (IF InReset(u) THEN 1 ELSE 0)
    <2>1. RankShape(u) /\ life[u] \in LifeState
      BY StageFacts
    <2>2. pc[u] \notin {"new", "ctor"} /\ life[u] \notin {"init", "leave", "left", "enter"}
      BY <1>8 DEF Stage
    <2>3. pc[u] \in PcOf(life[u])
      BY <2>1 DEF RankShape
    <2>4. Decided(u) /\ life[u] # "open"
      BY <2>1, <2>2, <2>3 DEF Decided, LifeState, PcOf
    <2> QED BY <2>2, <2>4 DEF Stage
  <1>10. mResetCount[u] = Done(u)
    <2>1. TypeInv(r) /\ TypeInv(u)
      BY DEF LifeInv
    <2> QED BY <1>1, <1>9, <2>1 DEF TypeInv, File
  <1>11. Done(u) \in {step[u] - 1, step[u]} /\ (Phase(u) = 5 => Done(u) = step[u])
    <2>1. Phase(u) = 5 => ~InReset(u)
      BY <1>u
    <2> QED BY <2>1 DEF Done, InReset
  <1>12. n <= mResetCount[u]
    <2> DEFINE k == IF pc[r] = "idle" THEN Len(Work) ELSE step[r] - 1
    <2>1. n = k /\ k \in Nat /\ Stage(r) >= 5 * k + (IF pc[r] = "idle" THEN 3 ELSE 6)
      <3>1. 5 * step[r] \in Nat /\ 5 * Len(Work) \in Nat /\ 5 * (step[r] - 1) = 5 * step[r] - 5
        BY <1>r
      <3>2. n = k /\ k \in Nat
        BY <1>2, <1>r, <1>6
      <3>3. CASE pc[r] = "idle"
        BY <1>6, <3>1, <3>2, <3>3
      <3>4. CASE pc[r] # "idle"
        <4>1. k = step[r] - 1 /\ 5 * k = 5 * step[r] - 5
          BY <3>1, <3>4
        <4>2. Stage(r) = 5 * step[r] + 1
          BY <1>6, <3>4
        <4> HIDE DEF k
        <4> QED BY <3>1, <3>2, <3>4, <4>1, <4>2
      <3> QED BY <3>3, <3>4
    <2> HIDE DEF k
    <2>2. Position(u) + 3 >= 5 * k + (IF pc[r] = "idle" THEN 3 ELSE 6) + (IF InReset(u) THEN 1 ELSE 0)
      <3>1. Stage(r) \in Nat /\ Position(u) \in Int
        <4>1. 5 * Len(Work) \in Nat /\ 5 * step[r] \in Nat
          BY <1>r
        <4>2. Stage(r) \in Nat
          BY <1>6, <4>1
        <4>3. 5 * (step[u] - 1) \in Int
          BY <1>u
        <4> QED BY <1>u, <4>2, <4>3
      <3>2. Stage(u) >= Stage(r)
        BY <1>7, <3>1
      <3>3. 5 * k \in Nat
        BY <2>1
      <3> QED BY <1>9, <2>1, <3>1, <3>2, <3>3
    <2>3. CASE pc[r] = "idle"
      <3>1. k >= step[u] - 1
        BY <1>r, <1>u, <2>3 DEF k
      <3>2. 5 * (step[u] - 1) + Phase(u) >= 5 * k + (IF InReset(u) THEN 1 ELSE 0)
        BY <1>u, <2>1, <2>2, <2>3
      <3>3. CASE step[u] - 1 = k
        BY <1>u, <1>10, <1>11, <2>1, <3>3
      <3>4. CASE step[u] - 1 # k
        <4>1. Phase(u) = 5 /\ step[u] = k
          BY <1>u, <2>1, <3>1, <3>2, <3>4
        <4> QED BY <1>10, <1>11, <2>1, <4>1
      <3> QED BY <3>3, <3>4
    <2>4. CASE pc[r] # "idle"
      <3>1. Position(u) >= 5 * k + 3
        <4>1. Position(u) \in Int /\ 5 * k \in Nat
          BY <1>5, <2>1
        <4> QED BY <2>2, <2>4, <4>1
      <3>2. Position(u) = 5 * (step[u] - 1) + Phase(u) /\ step[u] \in Nat /\ Phase(u) \in 0..5
        BY <1>5
      <3>3. step[u] - 1 >= k
        BY <2>1, <3>1, <3>2
      <3> QED BY <1>10, <1>11, <2>1, <3>2, <3>3
    <2> QED BY <2>3, <2>4
  <1> QED BY <1>1, <1>2, <1>3, <1>9, <1>12 DEF Opened, Decided

\* A rank whose own store is left alone keeps what is said of it.
LEMMA OthersKept ==
    ASSUME StageInv, LifeInv, NEW r \in Rank, Forward(r), NEW u \in Rank \ {r},
           UNCHANGED <<storeType[u], mResetCount[u], mImplPtr[u], spare[u]>>
    PROVE  /\ TypeInv(u)' /\ ImplInv(u)' /\ Held(u)' = Held(u)
           /\ Keeping(u)' = Keeping(u) /\ \A n : Opened(u, n)' = Opened(u, n)
  <1>1. TypeInv(u) /\ ImplInv(u)
    BY DEF LifeInv
  <1>2. UNCHANGED <<pc[u], life[u], step[u], ip[u], Work, pid>>
    BY DEF Forward
  <1>3. UNCHANGED <<Phase(u), Running(u), Code(u)>>
    BY <1>2 DEF Phase, Running, Code
  <1>4. UNCHANGED <<Done(u), Decided(u), File(u), Built(u), Keeping(u), Held(u)>>
    BY <1>2, <1>3 DEF Done, Decided, File, Built, Keeping, Held
  <1>5. TypeInv(u)'
    BY <1>1, <1>2, <1>4 DEF TypeInv
  <1>6. ImplInv(u)'
    BY <1>1, <1>2, <1>4 DEF ImplInv
  <1> QED BY <1>2, <1>4, <1>5, <1>6 DEF Opened

\* Segments are closed, files are opened, and a file goes when all have opened it.
LEMMA SegmentKept ==
    ASSUME StageInv, LifeInv, \A u \in Rank : Held(u)' \subseteq Held(u),
           \A u \in Rank : \A n \in StoreName : Opened(u, n) => Opened(u, n)',
           \A n \in StoreName : file'[n] = file[n] \/ \A u \in Rank : Opened(u, n)
    PROVE  SegmentInv'
  <1> SUFFICES ASSUME NEW r \in Rank, NEW u \in Rank, NEW x \in Held(r)'
               PROVE  /\ \A y \in Held(u)' : x.name = y.name => x = y
                      /\ ~Opened(u, x.name)' => file'[x.name] = x
    BY DEF SegmentInv
  <1>1. x \in Held(r) /\ x.name \in StoreName
    BY HeldFacts
  <1>2. /\ \A y \in Held(u) : x.name = y.name => x = y
        /\ ~Opened(u, x.name) => file[x.name] = x
    BY <1>1 DEF LifeInv, SegmentInv
  <1> QED BY <1>1, <1>2

\* Steps that leave the life of the store alone.
LEMMA InnerKeepsLife ==
    ASSUME StageInv, LifeInv, NEW r \in Rank, Forward(r), UNCHANGED lifeVars, Done(r)' = Done(r),
           life[r] \in {"init", "leave", "running"} \/ UNCHANGED pc
    PROVE  LifeInv'
  <1>1. UNCHANGED <<pid, life, file, checker, storeType, mResetCount, mImplPtr, spare, mImplMap, holds>>
    BY DEF lifeVars
  <1>2. LifeTypeOK' /\ CheckerInv' /\ SegmentInv'
    BY <1>1 DEF LifeInv, LifeTypeOK, CheckerInv, SegmentInv, Held, Opened
  <1>3. \A u \in Rank : HoldInv(u)'
    BY <1>1 DEF LifeInv, HoldInv, Keeping, Built
  <1>4. TypeInv(r)' /\ ImplInv(r)'
    <2>1. TypeInv(r) /\ ImplInv(r)
      BY DEF LifeInv
    <2>2. UNCHANGED <<Decided(r), File(r)>>
      BY <1>1 DEF Decided, File
    <2> QED BY <1>1, <2>1, <2>2 DEF TypeInv, ImplInv
  <1>5. \A u \in Rank : TypeInv(u)' /\ ImplInv(u)'
    BY <1>1, <1>4, OthersKept
  <1> QED BY <1>2, <1>3, <1>5 DEF LifeInv

LEMMA StoreStepKeepsLife ==
    ASSUME StageInv, LifeInv, NEW r \in Rank, StoreStep(r), UNCHANGED <<lifeVars, progVars>>
    PROVE  LifeInv'
  <1>1. /\ Forward(r) /\ pc \in [Rank -> PcState] /\ life[r] \in LifeState /\ pc[r] \in PcOf(life[r])
        /\ ProgInv
    BY StoreStepForward, StageFacts DEF RankShape
  <1>2. UNCHANGED <<Phase(r), life, step>>
    BY <1>1, StillThere DEF progVars, lifeVars
  <1>3. /\ pc[r] \in {"ctor", "second", "notify", "srcWait", "destGet"} \cup BarrierState
        /\ pc'[r] \in {"waitFirst", "wakeFirst", "clear"} <=> pc[r] \in {"waitFirst", "wakeFirst", "clear"}
    <2>1. CASE ConstructBarrier(r) \/ ResetSecondBarrier(r)
      BY <1>1, <2>1 DEF ConstructBarrier, ResetSecondBarrier, At, EnterBarrier, Abort, Sleep, Goto
    <2>2. CASE ResumeBarrier(r) \/ NotifyBarrier(r)
      BY <1>1, <2>2 DEF ResumeBarrier, NotifyBarrier, Sleep, Goto, AfterBarrier, BarrierState, WaitStates, WakeStates
    <2>3. CASE NotifyAll(r) \/ ResumeSrcWait(r) \/ ResumeDestGet(r)
      BY <1>1, <2>3 DEF NotifyAll, ResumeSrcWait, ResumeDestGet, At, Abort, Sleep, Goto
    <2> QED BY <2>1, <2>2, <2>3 DEF StoreStep
  <1>4. life[r] \in {"init", "leave", "running"} /\ (pc[r] \in {"waitFirst", "wakeFirst"} => life[r] = "running")
    BY <1>1, <1>3 DEF PcOf, LifeState, BarrierState, WaitStates, WakeStates
  <1>5. Done(r)' = Done(r)
    <2>1. pc[r] # "clear"
      BY <1>3 DEF BarrierState, WaitStates, WakeStates
    <2> QED BY <1>2, <1>3, <1>4, <2>1 DEF Done
  <1> QED BY <1>1, <1>4, <1>5, InnerKeepsLife

LEMMA ExecKeepsLife ==
    ASSUME StageInv, LifeInv, NEW r \in Rank, Live(r, "running"), Exec(r), UNCHANGED <<Work, lifeVars>>
    PROVE  LifeInv'
  <1>1. /\ Forward(r) /\ pc[r] = "idle" /\ life[r] = "running" /\ life' = life
        /\ pc \in [Rank -> PcState]
    BY ExecForward, StageFacts DEF Live, lifeVars
  <1>2. StageInv'
    BY <1>1, ForwardKeepsStage
  <1>3. pc'[r] \in {"idle", "notify", "srcWait", "destGet", "wait", "wake", "waitFirst", "wakeFirst"}
    BY <1>1 DEF Exec, ExecSet, ExecGet, ExecFinish, ExecWait, ExecBarrier, ExecReset, ExecBind, ExecAppend,
           ExecAdd, ExecClone, ExecChunk, SrcSet, DestGet, DestFinishGet, SrcWaitUntilGetFinished, Barrier, Reset,
           EnterBarrier, Abort, Sleep, Goto, storeVars
  <1>4. /\ Stage(r) = 3 + Position(r)
        /\ Stage(r)' = 3 + Position(r)' - (IF InReset(r)' THEN 1 ELSE 0)
        /\ Stage(r)' \in {Stage(r), Stage(r) + 1}
        /\ InReset(r)' <=> pc'[r] \in {"waitFirst", "wakeFirst"}
    <2>1. Stage(r) = 3 + Position(r)
      <3>1. Position(r) \in Nat
        BY StageFacts
      <3> QED BY <1>1, <3>1 DEF Stage, InReset
    <2>2. Stage(r)' = 3 + Position(r)' - (IF InReset(r)' THEN 1 ELSE 0)
      BY <1>1, <1>3 DEF Stage
    <2> QED BY <1>1, <1>3, <2>1, <2>2 DEF Forward, InReset
  <1>5. /\ step[r] \in Nat /\ step'[r] \in Nat
        /\ Phase(r) \in {0, 1, 2, 4, 5} /\ Phase(r)' \in {0, 1, 2, 4, 5}
        /\ Position(r) = 5 * (step[r] - 1) + Phase(r) /\ Position(r)' = 5 * (step'[r] - 1) + Phase(r)'
        /\ InReset(r)' => Phase(r)' = 4
    <2>1. step \in [Rank -> 1..(Len(Work) + 1)] /\ step' \in [Rank -> 1..(Len(Work) + 1)]' /\ Len(Work)' \in Nat /\ Len(Work) \in Nat
      BY <1>2 DEF StageInv, ProgInv
    <2>2. step[r] \in Nat /\ step'[r] \in Nat
      BY <2>1
    <2>3. InReset(r)' => Phase(r)' = 4
      <3>1. InReset(r)' => Running(r)' /\ ip'[r] = ResetAt(Code(r))' + 1
        BY <1>2 DEF StageInv, RankShape
      <3>2. ASSUME Running(r)' PROVE ResetAt(Code(r))' \in Nat /\ ResetAt(Code(r))' >= 3
        <4>1. Work'[step'[r]] \in CollectiveName
          BY <1>2, <3>2 DEF StageInv, ProgInv, Running
        <4>2. Layout(Code(r)', Work'[step'[r]])
          BY <4>1, Programs DEF Code
        <4> QED BY <4>2 DEF Layout
      <3> QED BY <3>1, <3>2 DEF Phase
    <2> QED BY <2>2, <2>3 DEF Phase, Position
  <1>6. /\ Done(r) = IF Phase(r) < 4 THEN step[r] - 1 ELSE step[r]
        /\ Done(r)' = IF Phase(r)' < 4 \/ InReset(r)' THEN step'[r] - 1 ELSE step'[r]
    BY <1>1, <1>3, <1>4 DEF Done
  <1>7. Done(r)' = Done(r)
    <2> DEFINE p == Phase(r)
               q == Phase(r)'
               s == step[r]
               t == step'[r]
               x == IF InReset(r)' THEN 1 ELSE 0
    <2>0. Position(r) \in Int /\ Position(r)' \in Int
      BY <1>5
    <2> HIDE DEF p, q, s, t
    <2>a. PICK d \in {0, 1} : Position(r)' = Position(r) + d + x
      BY <1>4, <2>0
    <2>1. 5 * (t - 1) + q = 5 * (s - 1) + p + d + x /\ x \in {0, 1}
      BY <1>5, <2>a DEF p, q, s, t
    <2>2. s \in Nat /\ t \in Nat /\ p \in {0, 1, 2, 4, 5} /\ q \in {0, 1, 2, 4, 5} /\ (InReset(r)' => q = 4)
      BY <1>5 DEF p, q, s, t
    <2>3. (IF q < 4 \/ InReset(r)' THEN t - 1 ELSE t) = (IF p < 4 THEN s - 1 ELSE s)
      <3>0. 5 * (t - s) = p - q + d + x
        BY <2>1, <2>2
      <3>2. p - q + d + x \in -5..7
        BY <2>1, <2>2
      <3>1. t = s \/ t = s + 1 \/ (t = s - 1 /\ p - q + d + x = -5)
        BY <2>2, <3>0, <3>2
      <3> QED BY <2>1, <2>2, <3>1
    <2> QED BY <1>6, <2>3 DEF p, q, s, t
  <1> QED BY <1>1, <1>7, InnerKeepsLife

\* The segment of a name the rank has yet to open is the one the others have.
LEMMA OpensTheSame ==
    ASSUME StageInv, LifeInv, NEW r \in Rank, NEW n \in StoreName, ~Opened(r, n)
    PROVE  OpenOrCreate(n) \in Object(n) /\ \A u \in Rank : \A y \in Held(u) : y.name = n => y = OpenOrCreate(n)
  <1>1. file[n] \in Object(n) \cup {None} /\ \A u \in Rank : checker[u] \in Object(Checker) \cup {None}
    BY DEF LifeInv, LifeTypeOK
  <1>2. \A u \in Rank : \A y \in Held(u) : y.name = n => file[n] = y /\ y # None
    BY DEF LifeInv, SegmentInv, Held
  <1>3. CASE file[n] = None
    <2>1. \A u \in Rank : \A y \in Held(u) : y.name # n
      BY <1>2, <1>3
    <2> DEFINE o == [name |-> n, nth |-> 0]
    <2>2. o \in Object(n) /\ o # None /\ o.name = n
      BY RankFacts, NoneAssumption DEF Object
    <2>3. \A u \in Rank : o # mImplPtr[u] /\ o # spare[u]
      BY <2>1, <2>2 DEF Held
    <2>4. ASSUME NEW u \in Rank PROVE o # checker[u]
      <3>1. n # Checker
        BY LifetimeAssumption DEF StoreName, Checker
      <3>2. \A c \in Object(Checker) : c.name = Checker
        BY DEF Object
      <3> QED BY <1>1, <2>2, <3>1, <3>2
    <2>5. o \notin OpenSegments
      BY <2>3, <2>4 DEF OpenSegments
    <2>6. (CHOOSE p \in Object(n) : p \notin OpenSegments) \in Object(n)
      BY <2>2, <2>5
    <2> QED BY <1>3, <2>1, <2>6 DEF OpenOrCreate
  <1>4. CASE file[n] # None
    BY <1>1, <1>2, <1>4 DEF OpenOrCreate
  <1> QED BY <1>3, <1>4

LEMMA OpensTheChecker ==
    ASSUME StageInv, LifeInv, NEW r \in Rank, life[r] = "start"
    PROVE  /\ OpenOrCreate(Checker) \in Object(Checker)
           /\ \A u \in Rank : checker[u] # None => checker[u] = OpenOrCreate(Checker)
  <1>0. Checker \in StoreName \cup {Checker} /\ Checker \notin StoreName
    BY LifetimeAssumption DEF StoreName, Checker
  <1>1. file[Checker] \in Object(Checker) \cup {None} /\ \A u \in Rank : checker[u] \in Object(Checker) \cup {None}
    BY <1>0 DEF LifeInv, LifeTypeOK
  <1>2. \A u \in Rank : checker[u] # None => file[Checker] = checker[u]
    BY DEF LifeInv, CheckerInv
  <1>3. CASE file[Checker] = None
    <2> DEFINE o == [name |-> Checker, nth |-> 0]
    <2>2. o \in Object(Checker) /\ o # None /\ o.name = Checker
      BY RankFacts, NoneAssumption DEF Object
    <2>3. \A u \in Rank : o # mImplPtr[u] /\ o # spare[u]
      <3>1. \A u \in Rank : \A y \in Held(u) : y.name \in StoreName
        BY HeldFacts
      <3> QED BY <1>0, <2>2, <3>1 DEF Held
    <2>4. \A u \in Rank : o # checker[u]
      BY <1>2, <1>3, <2>2
    <2>5. o \notin OpenSegments
      BY <2>3, <2>4 DEF OpenSegments
    <2>6. (CHOOSE p \in Object(Checker) : p \notin OpenSegments) \in Object(Checker)
      BY <2>2, <2>5
    <2> QED BY <1>2, <1>3, <2>6 DEF OpenOrCreate
  <1>4. CASE file[Checker] # None
    BY <1>1, <1>2, <1>4 DEF OpenOrCreate
  <1> QED BY <1>3, <1>4

\* Another segment of the name n is opened.
LEMMA SegmentOpened ==
    ASSUME StageInv, LifeInv, NEW r \in Rank, NEW n \in StoreName, OpenNamed(r, n), ~Opened(r, n),
           \A m \in StoreName : Opened(r, m) => Opened(r, m)',
           Forward(r)
    PROVE  SegmentInv' /\ OpenOrCreate(n) \in Object(n)
  <1> DEFINE o == OpenOrCreate(n)
  <1>1. o \in Object(n) /\ o.name = n /\ \A u \in Rank : \A y \in Held(u) : y.name = n => y = o
    BY OpensTheSame DEF Object
  <1>2. /\ spare' = [spare EXCEPT ![r] = o] /\ file' = [file EXCEPT ![n] = o]
        /\ mResetCount' = [mResetCount EXCEPT ![r] = n] /\ UNCHANGED <<mImplPtr, storeType>>
    BY DEF OpenNamed
  <1>3. DOMAIN spare = Rank /\ DOMAIN mImplPtr = Rank /\ DOMAIN mResetCount = Rank /\ n \in DOMAIN file
    BY DEF LifeInv, LifeTypeOK
  <1> HIDE DEF o
  <1>4. Held(r)' \subseteq Held(r) \cup {o}
    BY <1>2, <1>3 DEF Held
  <1>5. \A u \in Rank \ {r} : Held(u)' = Held(u) /\ \A m : Opened(u, m)' = Opened(u, m)
    <2>1. \A u \in Rank \ {r} : UNCHANGED <<storeType[u], mResetCount[u], mImplPtr[u], spare[u]>>
      BY <1>2, <1>3
    <2> QED BY <2>1, OthersKept
  <1>6. \A u \in Rank : \A y \in Held(u)' :
            \/ y \in Held(u) /\ y.name \in StoreName /\ y.name # n
            \/ y = o
    <2> SUFFICES ASSUME NEW u \in Rank, NEW y \in Held(u)', y # o
                 PROVE  y \in Held(u) /\ y.name \in StoreName /\ y.name # n
      OBVIOUS
    <2>1. y \in Held(u)
      BY <1>4, <1>5
    <2> QED BY <1>1, <2>1, HeldFacts
  <1>7. \A u \in Rank : \A m \in StoreName : Opened(u, m) => Opened(u, m)'
    BY <1>5
  <1>8. \A a, b \in Rank : \A x \in Held(a)' :
            /\ \A y \in Held(b)' : x.name = y.name => x = y
            /\ ~Opened(b, x.name)' => file'[x.name] = x
    <2> SUFFICES ASSUME NEW a \in Rank, NEW b \in Rank, NEW x \in Held(a)'
                 PROVE  /\ \A y \in Held(b)' : x.name = y.name => x = y
                        /\ ~Opened(b, x.name)' => file'[x.name] = x
      OBVIOUS
    <2>1. CASE x = o
      BY <1>1, <1>2, <1>3, <1>6, <2>1
    <2>2. CASE x # o
      <3>1. x \in Held(a) /\ x.name \in StoreName /\ x.name # n
        BY <1>6, <2>2
      <3>2. /\ \A y \in Held(b) : x.name = y.name => x = y
            /\ ~Opened(b, x.name) => file[x.name] = x
        BY <3>1 DEF LifeInv, SegmentInv
      <3>3. file'[x.name] = file[x.name]
        BY <1>2, <3>1
      <3> QED BY <1>1, <1>6, <1>7, <3>1, <3>2, <3>3
    <2> QED BY <2>1, <2>2
  <1> QED BY <1>1, <1>8 DEF SegmentInv, o

\* What a step says of one rank's store is enough: OthersKept sees to the rest.
LEMMA OwnStep ==
    ASSUME StageInv, LifeInv, NEW r \in Rank, Forward(r),
           \A u \in Rank \ {r} : UNCHANGED <<storeType[u], mResetCount[u], mImplPtr[u], spare[u]>>,
           LifeTypeOK', SegmentInv', CheckerInv', TypeInv(r)', ImplInv(r)', \A u \in Rank : HoldInv(u)'
    PROVE  LifeInv'
  <1>1. \A u \in Rank \ {r} : TypeInv(u)' /\ ImplInv(u)'
    BY OthersKept
  <1> QED BY <1>1 DEF LifeInv

\* Steps that open and close no segment and let go of no object.
LEMMA StoreKept ==
    ASSUME StageInv, LifeInv, NEW r \in Rank, Forward(r),
           UNCHANGED <<pid, mResetCount, mImplPtr, spare, mImplMap, holds>>,
           \A u \in Rank \ {r} : UNCHANGED storeType[u],
           Decided(r) => Decided(r)' /\ (life[r] # "open" => life'[r] # "open"),
           \A n \in StoreName : file'[n] = file[n],
           Keeping(r)' => Keeping(r)
    PROVE  SegmentInv' /\ \A u \in Rank : HoldInv(u)'
  <1>1. \A u \in Rank \ {r} : /\ UNCHANGED <<storeType[u], mResetCount[u], mImplPtr[u], spare[u]>>
    OBVIOUS
  <1>2. \A u \in Rank \ {r} : Held(u)' = Held(u) /\ Keeping(u)' = Keeping(u) /\ \A n : Opened(u, n)' = Opened(u, n)
    BY <1>1, OthersKept
  <1>3. Held(r)' = Held(r) /\ \A n : Opened(r, n) => Opened(r, n)'
    BY DEF Held, Opened, Decided
  <1>4. SegmentInv'
    <2>1. \A u \in Rank : Held(u)' \subseteq Held(u)
      BY <1>2, <1>3
    <2>2. \A u \in Rank : \A n \in StoreName : Opened(u, n) => Opened(u, n)'
      BY <1>2, <1>3
    <2> QED BY <2>1, <2>2, SegmentKept
  <1>5. ASSUME NEW u \in Rank PROVE HoldInv(u)'
    <2>1. HoldInv(u) /\ (Keeping(u)' => Keeping(u))
      BY <1>2 DEF LifeInv
    <2> QED BY <2>1 DEF HoldInv
  <1> QED BY <1>4, <1>5

LEMMA StartKeepsLife ==
    ASSUME StageInv, LifeInv, NEW r \in Rank, UNCHANGED progVars,
           \/ OpenChecker(r) \/ LeaveChecker(r) \/ RemoveChecker(r)
           \/ \E type \in {"kMemory", "kFile"} : Decide(r, type)
    PROVE  LifeInv'
  <1>1. /\ Forward(r) /\ life \in [Rank -> LifeState] /\ ProgInv /\ TypeInv(r) /\ ImplInv(r)
        /\ pc[r] \in PcOf(life[r]) /\ (Early(r) => step[r] = 1 /\ ip[r] = 1)
        /\ LifeTypeOK /\ CheckerInv /\ \A u \in Rank : HoldInv(u)
    BY LifeForward, StageFacts DEF LifeStep, LifeInv, RankShape
  <1>2. UNCHANGED <<pc, mResetCount, mImplPtr, spare, mImplMap, holds, pid>>
    BY DEF OpenChecker, LeaveChecker, RemoveChecker, Decide, storeVars
  <1>3. UNCHANGED <<Phase(r), step>>
    BY <1>1, <1>2, StillThere DEF progVars
  <1>c. Checker \notin StoreName /\ Checker \in DOMAIN file
    BY <1>1, LifetimeAssumption DEF StoreName, Checker, LifeTypeOK
  <1>4. CASE OpenChecker(r)
    <2> DEFINE o == OpenOrCreate(Checker)
    <2>1. /\ life[r] = "start" /\ life' = [life EXCEPT ![r] = "compare"]
          /\ checker' = [checker EXCEPT ![r] = o] /\ file' = [file EXCEPT ![Checker] = o] /\ UNCHANGED storeType
      BY <1>4 DEF OpenChecker, Live, Become
    <2>2. o \in Object(Checker) /\ \A u \in Rank : checker[u] # None => checker[u] = o
      BY <2>1, OpensTheChecker
    <2> HIDE DEF o
    <2>3. life'[r] = "compare" /\ checker'[r] = o /\ file'[Checker] = o
          /\ \A u \in Rank \ {r} : life'[u] = life[u] /\ checker'[u] = checker[u]
      BY <1>1, <1>c, <2>1 DEF LifeTypeOK
    <2>4. LifeTypeOK'
      BY <1>1, <1>2, <2>1, <2>2 DEF LifeTypeOK
    <2>5. CheckerInv'
      BY <1>1, <2>2, <2>3 DEF CheckerInv
    <2>6. SegmentInv' /\ \A u \in Rank : HoldInv(u)'
      <3>1. ~Decided(r) /\ ~Keeping(r)' /\ \A n \in StoreName : file'[n] = file[n]
        BY <1>c, <2>1, <2>3 DEF Decided, Keeping, Built
      <3> QED BY <1>1, <1>2, <2>1, <3>1, StoreKept
    <2>7. TypeInv(r)' /\ ImplInv(r)'
      <3>1. ~Decided(r) /\ ~Decided(r)'
        BY <2>1, <2>3 DEF Decided
      <3> QED BY <1>1, <1>2, <2>3, <3>1 DEF TypeInv, ImplInv, File
    <2> QED BY <1>1, <1>2, <2>1, <2>4, <2>5, <2>6, <2>7, OwnStep
  <1>5. ASSUME NEW type \in {"kMemory", "kFile"}, Decide(r, type) PROVE LifeInv'
    <2>1. /\ life[r] = "compare" /\ life' = [life EXCEPT ![r] = IF type = "kFile" THEN "open" ELSE "clean"]
          /\ storeType' = [storeType EXCEPT ![r] = type] /\ UNCHANGED <<file, checker>>
      BY <1>5 DEF Decide, Live, Become
    <2>2. /\ life'[r] = (IF type = "kFile" THEN "open" ELSE "clean") /\ storeType'[r] = type
          /\ \A u \in Rank \ {r} : life'[u] = life[u] /\ storeType'[u] = storeType[u]
      BY <1>1, <2>1 DEF LifeTypeOK
    <2>3. LifeTypeOK' /\ CheckerInv'
      BY <1>1, <1>2, <2>1, <2>2 DEF LifeTypeOK, CheckerInv
    <2>4. SegmentInv' /\ \A u \in Rank : HoldInv(u)'
      <3>1. ~Decided(r) /\ ~Keeping(r)'
        BY <2>1, <2>2 DEF Decided, Keeping, Built
      <3> QED BY <1>1, <1>2, <2>1, <2>2, <3>1, StoreKept
    <2>5. TypeInv(r)'
      <3>1. pc[r] = "new" /\ mResetCount[r] = 0
        BY <1>1, <2>1 DEF TypeInv, Decided, PcOf
      <3>2. Done(r)' = 0
        BY <1>1, <1>2, <1>3, <3>1 DEF Done, Early, Phase
      <3>3. IF type = "kFile" THEN \E u \in Rank : pid[u] # pid[r] ELSE \A u \in Rank : pid[u] = pid[r]
        BY <1>5 DEF Decide, Differs
      <3> QED BY <1>2, <2>2, <3>1, <3>2, <3>3 DEF TypeInv, Decided
    <2>6. ImplInv(r)'
      <3>1. pc[r] = "new" /\ mImplPtr[r] = None /\ spare[r] = None
        BY <1>1, <2>1 DEF ImplInv, File, Decided, PcOf
      <3>2. /\ mImplPtr'[r] = None /\ spare'[r] = None /\ pc'[r] = "new"
            /\ File(r)' <=> type = "kFile"
        BY <1>2, <2>2, <3>1 DEF File, Decided
      <3>3. CASE type = "kFile"
        BY <2>2, <3>2, <3>3 DEF ImplInv
      <3>4. CASE type = "kMemory"
        BY <2>2, <3>2, <3>4 DEF ImplInv
      <3> QED BY <3>3, <3>4
    <2> QED BY <1>1, <1>2, <2>2, <2>3, <2>4, <2>5, <2>6, OwnStep
  <1>6. CASE LeaveChecker(r) \/ RemoveChecker(r)
    <2>1. PICK from \in {"leave", "left"} : life[r] = from /\ life' = [life EXCEPT ![r] = IF from = "leave" THEN "left" ELSE "enter"]
      BY <1>6 DEF LeaveChecker, RemoveChecker, Live, Become
    <2>2. /\ life'[r] \in {"left", "enter"} /\ \A u \in Rank \ {r} : life'[u] = life[u]
      BY <1>1, <2>1
    <2>3. UNCHANGED storeType /\ \A n \in StoreName : file'[n] = file[n]
      BY <1>1, <1>c, <1>6 DEF LeaveChecker, RemoveChecker, LifeTypeOK
    <2>4. LifeTypeOK'
      <3>1. CASE LeaveChecker(r)
        BY <1>1, <1>2, <3>1 DEF LeaveChecker, LifeTypeOK
      <3>2. CASE RemoveChecker(r)
        <4>1. file' = [file EXCEPT ![Checker] = None] /\ checker' = [checker EXCEPT ![r] = None] /\ UNCHANGED storeType
          BY <3>2 DEF RemoveChecker
        <4> QED BY <1>1, <1>2, <4>1 DEF LifeTypeOK
      <3> QED BY <1>6, <3>1, <3>2
    <2>5. CheckerInv'
      <3>1. CASE LeaveChecker(r)
        BY <1>1, <2>2, <3>1 DEF LeaveChecker, CheckerInv
      <3>2. CASE RemoveChecker(r)
        <4>1. life[r] = "left" /\ checker' = [checker EXCEPT ![r] = None]
          BY <3>2 DEF RemoveChecker, Live
        <4>2. pc[r] = "idle" /\ Stage(r) = 2 /\ ~InBarrier(r)
          BY <1>1, <4>1 DEF PcOf, Stage, InBarrier, BarrierState, WaitStates, WakeStates
        <4>3. ASSUME NEW u \in Rank PROVE life[u] # "start"
          <5>1. Stage(u) \in {2, 3}
            BY <4>2, Close
          <5>2. RankShape(u)
            BY StageFacts
          <5> QED BY <5>1, <5>2 DEF RankShape, PcOf, Stage
        <4>4. \A u \in Rank : life'[u] # "start"
          BY <2>2, <4>3
        <4> QED BY <4>4 DEF CheckerInv
      <3> QED BY <1>6, <3>1, <3>2
    <2>6. SegmentInv' /\ \A u \in Rank : HoldInv(u)'
      <3>1. Decided(r)' /\ life'[r] # "open" /\ Keeping(r)
        BY <2>1, <2>2 DEF Decided, Keeping, Built
      <3> QED BY <1>1, <1>2, <2>3, <3>1, StoreKept
    <2>7. TypeInv(r)' /\ ImplInv(r)'
      <3>1. pc[r] = "idle" \/ pc[r] \in {"wait", "wake"}
        BY <1>1, <2>1 DEF PcOf
      <3>2. Done(r)' = Done(r)
        BY <1>2, <1>3, <3>1 DEF Done
      <3>3. Decided(r) /\ Decided(r)' /\ File(r)' = File(r)
        BY <2>1, <2>2, <2>3 DEF Decided, File
      <3> QED BY <1>1, <1>2, <2>1, <2>2, <2>3, <3>2, <3>3 DEF TypeInv, ImplInv
    <2> QED BY <1>1, <1>2, <2>3, <2>4, <2>5, <2>6, <2>7, OwnStep
  <1> QED BY <1>4, <1>5, <1>6

LEMMA StoreStaysKeepsLife ==
    ASSUME StageInv, LifeInv, NEW r \in Rank, UNCHANGED progVars,
           ConstructStore(r) \/ LifeBarrier(r) \/ ResetContents(r) \/ DropUser(r)
    PROVE  LifeInv'
  <1>1. /\ Forward(r) /\ life \in [Rank -> LifeState] /\ pc \in [Rank -> PcState] /\ ProgInv /\ TypeInv(r) /\ ImplInv(r)
        /\ pc[r] \in PcOf(life[r]) /\ (InReset(r) => Phase(r) = 4)
        /\ LifeTypeOK /\ CheckerInv
    BY LifeForward, StageFacts DEF LifeStep, LifeInv, RankShape
  <1>2. UNCHANGED <<file, checker, storeType, mResetCount, mImplPtr, spare, mImplMap, holds, pid>>
    BY DEF ConstructStore, LifeBarrier, ResetContents, DropUser
  <1>3. UNCHANGED <<Phase(r), step>>
    BY <1>1, <1>2, StillThere DEF progVars
  <1>4. /\ \A u \in Rank \ {r} : life'[u] = life[u]
        /\ \/ life[r] = "built" /\ life'[r] = "init"
           \/ life[r] = "init" /\ life'[r] = "leave"
           \/ life[r] = "enter" /\ life'[r] = "running"
           \/ life[r] = "switched" /\ life'[r] = "running" /\ pc[r] = "clear" /\ pc'[r] = "second"
           \/ life[r] = "running" /\ life'[r] = "running" /\ storeType[r] = "kMemory"
           \/ life[r] = "drop" /\ life'[r] \in {"remove", "release"} /\ pc'[r] = pc[r]
    <2>1. CASE ConstructStore(r)
      BY <1>1, <2>1 DEF ConstructStore, Live, Become
    <2>2. CASE LifeBarrier(r)
      BY <1>1, <2>2 DEF LifeBarrier, Become
    <2>3. CASE ResetContents(r)
      BY <1>1, <2>3 DEF ResetContents, Live, Become, ResetClear, At, Goto
    <2>4. CASE DropUser(r)
      BY <1>1, <2>4 DEF DropUser, Live, Become, storeVars
    <2> QED BY <2>1, <2>2, <2>3, <2>4
  <1>5. LifeTypeOK' /\ CheckerInv'
    BY <1>1, <1>2, <1>4 DEF LifeTypeOK, CheckerInv
  <1>6. Decided(r) /\ Decided(r)' /\ File(r)' = File(r) /\ life'[r] # "open" /\ (Keeping(r)' => Keeping(r))
    BY <1>2, <1>4 DEF Decided, File, Keeping, Built
  <1>7. SegmentInv' /\ \A u \in Rank : HoldInv(u)'
    BY <1>1, <1>2, <1>6, StoreKept
  <1>8. TypeInv(r)'
    <2>1. CASE storeType[r] = "kMemory"
      BY <1>1, <1>2, <1>6, <2>1 DEF TypeInv
    <2>2. CASE storeType[r] # "kMemory"
      <3>1. pc[r] \in {"waitFirst", "wakeFirst"} => life[r] = "running"
        BY <1>1, <1>4 DEF PcOf
      <3>2. pc'[r] \in PcOf(life'[r])
        BY <1>1 DEF Forward, RankShape
      <3>3. Done(r)' = Done(r)
        <4>1. CASE life[r] = "switched"
          BY <1>1, <1>3, <1>4, <4>1 DEF Done, InReset
        <4>2. CASE life[r] = "drop"
          BY <1>3, <1>4, <4>2 DEF Done
        <4>3. CASE life[r] \in {"built", "init", "enter"}
          <5>1. pc[r] \notin {"waitFirst", "wakeFirst", "clear"}
            BY <1>1, <4>3 DEF PcOf
          <5>2. pc'[r] \notin {"waitFirst", "wakeFirst", "clear"}
            <6>1. CASE life[r] = "enter"
              <7>1. LifeBarrier(r)
                BY <6>1 DEF ConstructStore, ResetContents, DropUser, Live
              <7> QED BY <1>1, <5>1, <7>1 DEF LifeBarrier, Barrier, EnterBarrier, Abort, Sleep, Goto
            <6>2. CASE life[r] # "enter"
              BY <1>4, <3>2, <4>3, <6>2 DEF PcOf
            <6> QED BY <6>1, <6>2
          <5> QED BY <1>3, <5>1, <5>2 DEF Done
        <4> QED BY <1>4, <2>2, <4>1, <4>2, <4>3
      <3> QED BY <1>1, <1>2, <1>6, <2>2, <3>3 DEF TypeInv
    <2> QED BY <2>1, <2>2
  <1>9. ImplInv(r)'
    BY <1>1, <1>2, <1>4, <1>6 DEF ImplInv, File
  <1> QED BY <1>1, <1>2, <1>5, <1>7, <1>8, <1>9, OwnStep

\* A new segment: the first one, and in Reset that of the next number.
LEMMA NewFileKeepsLife ==
    ASSUME StageInv, LifeInv, NEW r \in Rank, UNCHANGED progVars, OpenSegment(r) \/ NextFile(r)
    PROVE  LifeInv'
  <1>1. /\ Forward(r) /\ life \in [Rank -> LifeState] /\ ProgInv /\ TypeInv(r) /\ ImplInv(r)
        /\ pc[r] \in PcOf(life[r]) /\ (InReset(r) => Phase(r) = 4) /\ (Early(r) => step[r] = 1 /\ ip[r] = 1)
        /\ step[r] \in Nat /\ LifeTypeOK /\ CheckerInv /\ \A u \in Rank : HoldInv(u)
    BY LifeForward, StageFacts DEF LifeStep, LifeInv, RankShape
  <1>m. mResetCount[r] \in Nat /\ mResetCount[r] \in StoreName
    BY ImplPlace
  <1>2. PICK n \in StoreName :
            /\ OpenNamed(r, n)
            /\ \/ life[r] = "open" /\ n = 0
               \/ life[r] = "running" /\ pc[r] = "clear" /\ storeType[r] = "kFile" /\ n = mResetCount[r] + 1
    <2>1. CASE OpenSegment(r)
      BY <2>1, LifetimeAssumption DEF OpenSegment, Live, StoreName
    <2>2. CASE NextFile(r)
      <3>1. mResetCount[r] + 1 \in StoreName
        BY <1>m, <2>2, LifetimeAssumption DEF NextFile, StoreName
      <3> QED BY <2>2, <3>1 DEF NextFile, Live
    <2> QED BY <2>1, <2>2
  <1>3. /\ spare' = [spare EXCEPT ![r] = OpenOrCreate(n)] /\ file' = [file EXCEPT ![n] = OpenOrCreate(n)]
        /\ mResetCount' = [mResetCount EXCEPT ![r] = n] /\ life' = [life EXCEPT ![r] = "clean"]
        /\ UNCHANGED <<pc, pid, checker, storeType, mImplPtr, mImplMap, holds>>
    BY <1>2 DEF OpenNamed, Become, storeVars
  <1>4. /\ spare'[r] = OpenOrCreate(n) /\ mResetCount'[r] = n /\ life'[r] = "clean"
        /\ \A u \in Rank \ {r} : UNCHANGED <<storeType[u], mResetCount[u], mImplPtr[u], spare[u], life[u]>>
    BY <1>1, <1>3 DEF LifeTypeOK
  <1>5. UNCHANGED <<Phase(r), step>>
    BY <1>1, <1>3, StillThere DEF progVars
  <1>6. Decided(r) /\ Decided(r)' /\ File(r) /\ File(r)'
    <2>1. Decided(r) /\ Decided(r)'
      BY <1>2, <1>4 DEF Decided
    <2>2. File(r)
      BY <1>1, <1>2, <2>1 DEF ImplInv, File
    <2> QED BY <1>3, <2>1, <2>2 DEF File
  <1>7. ~Opened(r, n) /\ \A m \in StoreName : Opened(r, m) => Opened(r, m)'
    <2>1. CASE life[r] = "open"
      BY <2>1 DEF Opened
    <2>2. CASE n = mResetCount[r] + 1
      <3>1. ~(n <= mResetCount[r]) /\ \A m \in StoreName : m <= mResetCount[r] => m <= n
        BY <1>m, <2>2, LifetimeAssumption DEF StoreName
      <3> QED BY <1>4, <3>1 DEF Opened
    <2> QED BY <1>2, <2>1, <2>2
  <1>8. SegmentInv' /\ OpenOrCreate(n) \in Object(n)
    BY <1>1, <1>2, <1>7, SegmentOpened
  <1>9. LifeTypeOK'
    BY <1>1, <1>3, <1>8 DEF LifeTypeOK
  <1>10. CheckerInv'
    <2>1. n # Checker
      BY LifetimeAssumption DEF StoreName, Checker
    <2>2. file'[Checker] = file[Checker]
      BY <1>1, <1>3, <2>1 DEF LifeTypeOK
    <2> QED BY <1>1, <1>3, <1>4, <2>2 DEF CheckerInv
  <1>11. ASSUME NEW u \in Rank PROVE HoldInv(u)'
    <2>1. Keeping(u)' => u # r /\ Keeping(u) /\ mResetCount'[u] = mResetCount[u]
      BY <1>3, <1>4 DEF Keeping, Built
    <2> QED BY <1>1, <1>3, <2>1 DEF HoldInv
  <1>12. TypeInv(r)'
    <2>1. (\E u \in Rank : pid[u] # pid[r]) /\ mResetCount[r] = Done(r)
      BY <1>1, <1>6 DEF TypeInv, File
    <2>2. Done(r)' = n
      <3>1. CASE life[r] = "open"
        <4>1. pc[r] = "new"
          BY <1>1, <3>1 DEF PcOf
        <4>2. Phase(r) = 0 /\ step[r] = 1
          BY <1>1, <4>1 DEF Early, Phase
        <4> QED BY <1>2, <1>3, <1>4, <1>5, <3>1, <4>1, <4>2 DEF Done
      <3>2. CASE life[r] = "running"
        BY <1>1, <1>2, <1>3, <1>4, <1>5, <2>1, <3>2 DEF Done, InReset
      <3> QED BY <1>2, <3>1, <3>2
    <2> QED BY <1>3, <1>4, <1>6, <2>1, <2>2 DEF TypeInv, File
  <1>13. ImplInv(r)'
    <2>1. CASE life[r] = "open"
      BY <1>1, <1>2, <1>3, <1>4, <1>6, <1>8, <2>1 DEF ImplInv, PcOf
    <2>2. CASE life[r] = "running"
      <3>1. mImplPtr[r] \in Object(mResetCount[r]) /\ n - 1 = mResetCount[r] /\ pc[r] = "clear"
        BY <1>1, <1>2, <1>6, <1>m, <2>2 DEF ImplInv
      <3>2. mImplPtr'[r] \in Object(mResetCount'[r] - 1)
        BY <1>3, <1>4, <3>1
      <3> QED BY <1>3, <1>4, <1>6, <1>8, <3>1, <3>2 DEF ImplInv
    <2> QED BY <1>2, <2>1, <2>2
  <1> QED BY <1>1, <1>4, <1>8, <1>9, <1>10, <1>11, <1>12, <1>13, OwnStep

\* The managers of the processes.
LEMMA ManagerKeepsLife ==
    ASSUME StageInv, LifeInv, NEW r \in Rank, UNCHANGED progVars, CleanExpiredEntries(r) \/ GetImpl(r)
    PROVE  LifeInv'
  <1>1. /\ Forward(r) /\ life \in [Rank -> LifeState] /\ ProgInv /\ TypeInv(r) /\ ImplInv(r)
        /\ pc[r] \in PcOf(life[r]) /\ LifeTypeOK /\ CheckerInv /\ \A u \in Rank : HoldInv(u)
        /\ pid \in [Rank -> Rank]
    BY LifeForward, StageFacts DEF LifeStep, LifeInv, RankShape, ProgInv
  <1>m. mResetCount[r] \in Nat /\ mResetCount[r] \in StoreName /\ None \notin Object(mResetCount[r])
    BY ImplPlace
  <1>2. CASE CleanExpiredEntries(r)
    <2>1. /\ life[r] = "clean" /\ life' = [life EXCEPT ![r] = "lookup"]
          /\ UNCHANGED <<pc, pid, file, checker, storeType, mResetCount, mImplPtr, spare, holds>>
          /\ mImplMap' = [mImplMap EXCEPT ![pid[r]] =
                [n \in StoreName |-> IF mImplMap[pid[r]][n] # None /\ Expired(r, mImplMap[pid[r]][n])
                                     THEN None ELSE mImplMap[pid[r]][n]]]
      BY <1>2 DEF CleanExpiredEntries, Live, Become, storeVars
    <2>2. life'[r] = "lookup" /\ \A u \in Rank \ {r} : life'[u] = life[u]
      BY <1>1, <2>1
    <2>3. UNCHANGED <<Phase(r), step>>
      BY <1>1, <2>1, StillThere DEF progVars
    <2>4. \A p \in Rank : /\ DOMAIN mImplMap'[p] = StoreName
                          /\ \A n \in StoreName : mImplMap'[p][n] =
                               IF p = pid[r] /\ mImplMap[p][n] # None /\ Expired(r, mImplMap[p][n])
                               THEN None ELSE mImplMap[p][n]
      BY <1>1, <2>1 DEF LifeTypeOK
    <2>5. LifeTypeOK'
      BY <1>1, <2>1, <2>4 DEF LifeTypeOK
    <2>6. ASSUME NEW u \in Rank PROVE HoldInv(u)'
      <3>1. \A o \in holds[u] : o # None /\ o.name \in StoreName /\ mImplMap[pid[u]][o.name] = o
        BY <1>1 DEF HoldInv
      <3>2. ASSUME NEW o \in holds[u] PROVE mImplMap'[pid[u]][o.name] = o
        <4>1. pid[u] = pid[r] => ~Expired(r, o)
          BY DEF Expired, SameProcess
        <4> QED BY <1>1, <2>4, <3>1, <4>1
      <3>3. Keeping(u)' => Keeping(u)
        BY <2>1, <2>2 DEF Keeping, Built
      <3> QED BY <1>1, <2>1, <3>1, <3>2, <3>3 DEF HoldInv
    <2>7. CheckerInv'
      BY <1>1, <2>1, <2>2 DEF CheckerInv
    <2>8. SegmentInv'
      <3>1. \A u \in Rank : Held(u)' = Held(u) /\ \A n : Opened(u, n) => Opened(u, n)'
        BY <2>1, <2>2 DEF Held, Opened
      <3> QED BY <2>1, <3>1, SegmentKept
    <2>9. TypeInv(r)' /\ ImplInv(r)'
      <3>1. Decided(r) /\ Decided(r)' /\ File(r)' = File(r)
        BY <2>1, <2>2 DEF Decided, File
      <3>2. Done(r)' = Done(r)
        BY <2>1, <2>2, <2>3 DEF Done
      <3> QED BY <1>1, <2>1, <2>2, <3>1, <3>2 DEF TypeInv, ImplInv
    <2> QED BY <1>1, <2>1, <2>5, <2>6, <2>7, <2>8, <2>9, OwnStep
  <1>3. CASE GetImpl(r)
    <2>1. CASE Abort /\ UNCHANGED lifeVars
      <3>1. UNCHANGED <<pc, life>>
        BY <2>1 DEF Abort, lifeVars
      <3>2. Done(r)' = Done(r)
        <4>1. UNCHANGED <<Phase(r), step>>
          BY <1>1, <2>1, StillThere DEF progVars, lifeVars
        <4> QED BY <3>1, <4>1 DEF Done
      <3> QED BY <1>1, <2>1, <3>1, <3>2, InnerKeepsLife
    <2> DEFINE name == mResetCount[r]
               found == mImplMap[pid[r]][name]
               impl == IF found # None THEN found ELSE CHOOSE o \in Object(name) : Expired(r, o)
    <2>2. CASE ~(Abort /\ UNCHANGED lifeVars)
      <3>1. /\ life[r] = "lookup" /\ mImplMap' = [mImplMap EXCEPT ![pid[r]][name] = impl]
            /\ holds' = [holds EXCEPT ![r] = @ \cup {impl}]
            /\ mImplPtr' = [mImplPtr EXCEPT ![r] = spare[r]] /\ spare' = [spare EXCEPT ![r] = mImplPtr[r]]
            /\ life' = [life EXCEPT ![r] = IF mImplPtr[r] = None THEN "built" ELSE "drop"]
            /\ UNCHANGED <<pc, pid, file, checker, storeType, mResetCount>>
        BY <1>3, <2>2 DEF GetImpl, Live, Become, storeVars
      <3>2. /\ holds'[r] = holds[r] \cup {impl} /\ mImplPtr'[r] = spare[r] /\ spare'[r] = mImplPtr[r]
            /\ life'[r] = (IF mImplPtr[r] = None THEN "built" ELSE "drop")
            /\ \A u \in Rank \ {r} : UNCHANGED <<holds[u], mImplPtr[u], spare[u], life[u], storeType[u], mResetCount[u]>>
        BY <1>1, <3>1 DEF LifeTypeOK
      <3>3. found \in Object(name) \cup {None}
        BY <1>1, <1>m DEF LifeTypeOK
      <3>4. \A u \in Rank : \A o \in holds[u] : o # None /\ o.name \in StoreName /\ mImplMap[pid[u]][o.name] = o
        BY <1>1 DEF HoldInv
      <3>5. found = None => \A u \in SameProcess(r) : \A o \in holds[u] : o.name # name
        BY <3>4 DEF SameProcess
      <3>6. impl \in Object(name)
        <4>1. CASE found = None
          <5>1. [name |-> name, nth |-> 0] \in Object(name)
            BY RankFacts DEF Object
          <5>2. Expired(r, [name |-> name, nth |-> 0])
            BY <1>m, <3>5, <4>1, <5>1 DEF Expired
          <5> QED BY <4>1, <5>1, <5>2
        <4> QED BY <3>3, <4>1
      <3>7. impl.name = name /\ impl # None
        <4>1. \A o \in Object(name) : o.name = name
          BY DEF Object
        <4> HIDE DEF impl
        <4> QED BY <1>m, <3>6, <4>1
      <3>8. \A p \in Rank : /\ DOMAIN mImplMap'[p] = StoreName
                            /\ \A n \in StoreName : mImplMap'[p][n] =
                                 IF p = pid[r] /\ n = name THEN impl ELSE mImplMap[p][n]
        <4> HIDE DEF impl
        <4> QED BY <1>1, <1>m, <3>1 DEF LifeTypeOK
      <3>9. found # None => impl = found
        OBVIOUS
      <3>a. UNCHANGED <<Phase(r), step>>
        BY <1>1, <3>1, StillThere DEF progVars
      <3> HIDE DEF impl
      <3>10. LifeTypeOK'
        <4>1. DOMAIN mImplMap' = Rank /\ DOMAIN holds' = Rank /\ DOMAIN mImplPtr' = Rank /\ DOMAIN spare' = Rank
          BY <1>1, <3>1 DEF LifeTypeOK
        <4>2. \A p \in Rank : \A n \in StoreName : mImplMap'[p][n] \in Object(n) \cup {None}
          BY <1>1, <3>6, <3>8 DEF LifeTypeOK
        <4> QED BY <1>1, <3>1, <3>8, <4>1, <4>2 DEF LifeTypeOK
      <3>11. ASSUME NEW u \in Rank PROVE HoldInv(u)'
        <4>1. ASSUME NEW o \in holds'[u] PROVE o # None /\ o.name \in StoreName /\ mImplMap'[pid[u]][o.name] = o
          <5>1. CASE u = r /\ o = impl
            BY <1>1, <1>m, <3>7, <3>8, <5>1
          <5>2. CASE o \in holds[u]
            <6>1. o # None /\ o.name \in StoreName /\ mImplMap[pid[u]][o.name] = o
              BY <3>4, <5>2
            <6>2. CASE pid[u] = pid[r] /\ o.name = name
              <7>1. found = o
                BY <6>1, <6>2
              <7>2. found # None
                BY <6>1, <7>1
              <7> QED BY <1>1, <3>8, <3>9, <6>1, <6>2, <7>1, <7>2
            <6>3. CASE ~(pid[u] = pid[r] /\ o.name = name)
              BY <1>1, <3>8, <6>1, <6>3
            <6> QED BY <6>1, <6>2, <6>3
          <5> QED BY <3>2, <5>1, <5>2
        <4>2. ASSUME Keeping(u)' PROVE \E o \in holds'[u] : o.name = mResetCount'[u]
          <5>1. CASE u = r
            BY <3>1, <3>2, <3>7, <5>1
          <5>2. CASE u # r
            <6>1. Keeping(u)
              BY <3>2, <4>2, <5>2 DEF Keeping, Built
            <6> QED BY <1>1, <3>2, <5>2, <6>1 DEF HoldInv
          <5> QED BY <5>1, <5>2
        <4> QED BY <3>1, <4>1, <4>2 DEF HoldInv
      <3>12. CheckerInv'
        BY <1>1, <3>1, <3>2 DEF CheckerInv
      <3>13. SegmentInv'
        <4>1. \A u \in Rank : Held(u)' \subseteq Held(u) /\ \A n : Opened(u, n) => Opened(u, n)'
          BY <3>1, <3>2 DEF Held, Opened
        <4> QED BY <3>1, <4>1, SegmentKept
      <3>14. Decided(r) /\ Decided(r)' /\ File(r)' = File(r)
        BY <3>1, <3>2 DEF Decided, File
      <3>15. TypeInv(r)'
        <4>1. Done(r)' = Done(r)
          BY <3>1, <3>2, <3>a DEF Done
        <4> QED BY <1>1, <3>1, <3>2, <3>14, <4>1 DEF TypeInv
      <3>16. ImplInv(r)'
        <4>1. /\ mImplPtr[r] = None <=> pc[r] = "new"
              /\ pc[r] \in {"new", "clear"}
          BY <3>1, ImplPlace
        <4>2. CASE File(r)
          BY <1>1, <3>1, <3>2, <3>14, <4>1, <4>2 DEF ImplInv
        <4>3. CASE ~File(r)
          BY <1>1, <3>1, <3>2, <3>14, <4>1, <4>3 DEF ImplInv
        <4> QED BY <4>2, <4>3
      <3> QED BY <1>1, <3>2, <3>10, <3>11, <3>12, <3>13, <3>15, <3>16, OwnStep
    <2> QED BY <2>1, <2>2
  <1> QED BY <1>2, <1>3

\* The end of a store, or of the one Reset replaces.
LEMMA EndKeepsLife ==
    ASSUME StageInv, LifeInv, NEW r \in Rank, UNCHANGED progVars, FinishImpl(r) \/ (~Running(r) /\ DestroyStore(r))
    PROVE  LifeInv'
  <1>1. /\ Forward(r) /\ life \in [Rank -> LifeState] /\ ProgInv /\ TypeInv(r) /\ ImplInv(r)
        /\ pc[r] \in PcOf(life[r]) /\ LifeTypeOK /\ CheckerInv /\ \A u \in Rank : HoldInv(u)
    BY LifeForward, StageFacts DEF LifeStep, LifeInv, RankShape
  <1>m. mResetCount[r] \in Nat /\ mResetCount[r] \in StoreName /\ None \notin Object(mResetCount[r])
    BY ImplPlace
  <1>2. CASE FinishImpl(r)
    <2>1. /\ life[r] \in {"remove", "release"} /\ spare' = [spare EXCEPT ![r] = None]
          /\ life' = [life EXCEPT ![r] = IF mImplPtr[r] = None THEN "gone" ELSE "switched"]
          /\ holds' = [holds EXCEPT ![r] =
                IF mImplPtr[r] = None THEN {} ELSE {o \in holds[r] : o.name = mResetCount[r]}]
          /\ file' = IF life[r] = "remove" THEN [file EXCEPT ![spare[r].name] = None] ELSE file
          /\ UNCHANGED <<pc, pid, checker, storeType, mResetCount, mImplPtr, mImplMap>>
      BY <1>2 DEF FinishImpl, Live, Become, storeVars
    <2>2. /\ spare'[r] = None /\ life'[r] = (IF mImplPtr[r] = None THEN "gone" ELSE "switched")
          /\ holds'[r] = (IF mImplPtr[r] = None THEN {} ELSE {o \in holds[r] : o.name = mResetCount[r]})
          /\ \A u \in Rank \ {r} : UNCHANGED <<holds[u], mImplPtr[u], spare[u], life[u], storeType[u], mResetCount[u]>>
      BY <1>1, <2>1 DEF LifeTypeOK
    <2>3. UNCHANGED <<Phase(r), step>>
      BY <1>1, <2>1, StillThere DEF progVars
    <2>4. \A n \in StoreName : file'[n] = file[n] \/ \A u \in Rank : Opened(u, n)
      <3>1. CASE life[r] = "remove"
        <4>1. \A u \in Rank : Opened(u, spare[r].name)
          BY <3>1, RemovesLast
        <4> QED BY <1>1, <2>1, <3>1, <4>1 DEF LifeTypeOK
      <3> QED BY <2>1, <3>1
    <2>5. LifeTypeOK' /\ CheckerInv'
      <3>1. file' = file \/ \E n \in StoreName : file' = [file EXCEPT ![n] = None]
        BY <2>1, RemovesLast
      <3>2. LifeTypeOK'
        BY <1>1, <2>1, <3>1 DEF LifeTypeOK
      <3>3. file'[Checker] = file[Checker]
        <4>1. Checker \notin StoreName /\ DOMAIN file = StoreName \cup {Checker}
          BY <1>1, LifetimeAssumption DEF StoreName, Checker, LifeTypeOK
        <4> QED BY <3>1, <4>1
      <3>4. life'[r] # "start"
        BY <2>2
      <3> QED BY <1>1, <2>1, <2>2, <3>2, <3>3, <3>4 DEF CheckerInv
    <2>6. SegmentInv'
      <3>1. \A u \in Rank : Held(u)' \subseteq Held(u) /\ \A n : Opened(u, n) => Opened(u, n)'
        BY <2>1, <2>2 DEF Held, Opened
      <3> QED BY <2>4, <3>1, SegmentKept
    <2>7. ASSUME NEW u \in Rank PROVE HoldInv(u)'
      <3>1. \A o \in holds'[u] : o # None /\ o.name \in StoreName /\ mImplMap'[pid'[u]][o.name] = o
        BY <1>1, <2>1, <2>2 DEF HoldInv
      <3>2. ASSUME Keeping(u)' PROVE \E o \in holds'[u] : o.name = mResetCount'[u]
        <4>1. CASE u = r
          <5>1. mImplPtr[r] # None
            BY <2>1, <2>2, <3>2, <4>1 DEF Keeping, Built
          <5>2. Keeping(r)
            BY <2>1, <5>1 DEF Keeping
          <5> QED BY <1>1, <2>1, <2>2, <4>1, <5>1, <5>2 DEF HoldInv
        <4>2. CASE u # r
          <5>1. Keeping(u)
            BY <2>2, <3>2, <4>2 DEF Keeping, Built
          <5> QED BY <1>1, <2>2, <4>2, <5>1 DEF HoldInv
        <4> QED BY <4>1, <4>2
      <3> QED BY <3>1, <3>2 DEF HoldInv
    <2>8. Decided(r) /\ Decided(r)' /\ File(r)' = File(r)
      BY <2>1, <2>2 DEF Decided, File
    <2>9. TypeInv(r)' /\ ImplInv(r)'
      <3>1. Done(r)' = Done(r)
        BY <2>1, <2>2, <2>3 DEF Done
      <3>2. TypeInv(r)'
        BY <1>1, <2>1, <2>8, <3>1 DEF TypeInv
      <3>3. (mImplPtr[r] = None <=> pc[r] = "idle") /\ pc[r] \in {"idle", "clear"}
        BY <2>1, ImplPlace
      <3>4. ImplInv(r)'
        BY <1>1, <2>1, <2>2, <2>8, <3>3 DEF ImplInv
      <3> QED BY <3>2, <3>4
    <2> QED BY <1>1, <2>2, <2>5, <2>6, <2>7, <2>9, OwnStep
  <1>3. CASE ~Running(r) /\ DestroyStore(r)
    <2>1. /\ life[r] = "running" /\ pc[r] = "idle"
          /\ mImplPtr' = [mImplPtr EXCEPT ![r] = None] /\ spare' = [spare EXCEPT ![r] = mImplPtr[r]]
          /\ life' = [life EXCEPT ![r] = IF storeType[r] = "kFile" THEN "drop" ELSE "release"]
          /\ UNCHANGED <<pc, pid, file, checker, storeType, mResetCount, mImplMap, holds>>
      BY <1>3 DEF DestroyStore, Live, Become, storeVars
    <2>2. /\ mImplPtr'[r] = None /\ spare'[r] = mImplPtr[r]
          /\ life'[r] = (IF storeType[r] = "kFile" THEN "drop" ELSE "release")
          /\ \A u \in Rank \ {r} : UNCHANGED <<holds[u], mImplPtr[u], spare[u], life[u], storeType[u], mResetCount[u]>>
      BY <1>1, <2>1 DEF LifeTypeOK
    <2>3. UNCHANGED <<Phase(r), step>>
      BY <1>1, <2>1, StillThere DEF progVars
    <2>4. LifeTypeOK' /\ CheckerInv'
      <3>1. life'[r] # "start"
        BY <2>2
      <3> QED BY <1>1, <2>1, <2>2, <3>1 DEF LifeTypeOK, CheckerInv
    <2>5. SegmentInv'
      <3>1. \A u \in Rank : Held(u)' \subseteq Held(u) /\ \A n : Opened(u, n) => Opened(u, n)'
        BY <2>1, <2>2 DEF Held, Opened
      <3> QED BY <2>1, <3>1, SegmentKept
    <2>6. ASSUME NEW u \in Rank PROVE HoldInv(u)'
      <3>1. Keeping(u)' => u # r /\ Keeping(u)
        BY <2>2 DEF Keeping, Built
      <3> QED BY <1>1, <2>1, <2>2, <3>1 DEF HoldInv
    <2>7. Decided(r) /\ Decided(r)' /\ File(r)' = File(r) /\ (File(r) <=> storeType[r] = "kFile")
      BY <2>1, <2>2 DEF Decided, File
    <2>8. TypeInv(r)'
      <3>1. Done(r)' = Done(r)
        BY <2>1, <2>2, <2>3 DEF Done
      <3> QED BY <1>1, <2>1, <2>7, <3>1 DEF TypeInv
    <2>9. ImplInv(r)'
      <3>1. File(r) => mImplPtr[r] \in Object(mResetCount[r])
        BY <1>1, <2>1 DEF ImplInv
      <3>2. ~File(r) => mImplPtr[r] = None
        BY <1>1 DEF ImplInv
      <3>3. CASE File(r)
        BY <2>1, <2>2, <2>7, <3>1, <3>3 DEF ImplInv
      <3>4. CASE ~File(r)
        BY <2>1, <2>2, <2>7, <3>2, <3>4 DEF ImplInv
      <3> QED BY <3>3, <3>4
    <2> QED BY <1>1, <2>2, <2>4, <2>5, <2>6, <2>8, <2>9, OwnStep
  <1> QED BY <1>2, <1>3

-----------------------------------------------------------------------------
(* The collectives' life as a whole *)

\* Every step goes forward, and keeps what the two invariants say.
LEMMA RankStepKeeps ==
    ASSUME StageInv, LifeInv, NEW r \in Rank, RankStep(r)
    PROVE  Forward(r) /\ StageInv' /\ LifeInv'
  <1>1. CASE Live(r, "running") /\ Exec(r) /\ UNCHANGED <<Work, lifeVars>>
    BY <1>1, ExecForward, ExecKeepsLife, ForwardKeepsStage
  <1>2. CASE StoreStep(r) /\ UNCHANGED <<lifeVars, progVars>>
    BY <1>2, StoreStepForward, StoreStepKeepsLife, ForwardKeepsStage
  <1>3. CASE LifeStep(r) /\ UNCHANGED progVars
    <2>1. LifeInv'
      BY <1>3, StartKeepsLife, StoreStaysKeepsLife, NewFileKeepsLife, ManagerKeepsLife, EndKeepsLife DEF LifeStep
    <2> QED BY <1>3, <2>1, LifeForward, ForwardKeepsStage
  <1>4. CASE ~Running(r) /\ DestroyStore(r) /\ UNCHANGED progVars
    BY <1>4, LifeForward, EndKeepsLife, ForwardKeepsStage
  <1> QED BY <1>1, <1>2, <1>3, <1>4 DEF RankStep

LEMMA CollInitInv == CollInit => StageInv /\ LifeInv
  <1> SUFFICES ASSUME CollInit PROVE StageInv /\ LifeInv
    OBVIOUS
  <1>1. /\ StoreInit /\ LifeInit /\ step = [r \in Rank |-> 1] /\ ip = [r \in Rank |-> 1]
        /\ Work \in Seq(CollectiveName) /\ Len(Work) <= MaxReset /\ pid \in [Rank -> Rank] /\ DOMAIN reg = Rank
    BY CollectiveAssumption DEF CollInit
  <1>2. BarrierInv
    BY <1>1, BarrierInvInit
  <1>3. ProgInv
    <2>1. Len(Work) \in Nat
      BY <1>1
    <2>2. ASSUME NEW r \in Rank PROVE ip[r] \in 1..(IF Running(r) THEN Len(Code(r)) ELSE 1)
      <3>1. CASE Running(r)
        <4>1. Work[1] \in CollectiveName
          BY <1>1, <2>1, <3>1 DEF Running
        <4>2. Layout(Code(r), Work[1])
          BY <1>1, <4>1, Programs DEF Code
        <4>3. Len(Code(r)) \in Nat /\ Len(Code(r)) >= 1
          BY <4>2 DEF Layout
        <4> QED BY <1>1, <3>1, <4>3
      <3> QED BY <1>1, <3>1
    <2> QED BY <1>1, <2>1, <2>2 DEF ProgInv
  <1>4. \A r \in Rank : pc[r] = "new" /\ life[r] = "start"
    BY <1>1 DEF StoreInit, LifeInit
  <1>5. life \in [Rank -> LifeState]
    BY <1>1 DEF LifeInit, LifeState
  <1>6. \A r \in Rank : RankShape(r)
    BY <1>1, <1>4 DEF RankShape, PcOf, InReset, Early
  <1>7. \A r \in Rank : Arrived[r] = Stage(r)
    BY <1>1, <1>4 DEF StoreInit, Arrived, InBarrier, BarrierState, WaitStates, WakeStates, Stage
  <1>8. StageInv
    BY <1>2, <1>3, <1>5, <1>6, <1>7 DEF StageInv
  <1>9. LifeTypeOK
    BY <1>1, LifetimeAssumption DEF LifeInit, LifeTypeOK, StoreName
  <1>10. \A r \in Rank : /\ ~Decided(r) /\ ~File(r) /\ ~Keeping(r) /\ Held(r) = {} /\ holds[r] = {}
                         /\ mResetCount[r] = 0 /\ mImplPtr[r] = None /\ spare[r] = None /\ checker[r] = None
    BY <1>1, <1>4 DEF LifeInit, Decided, File, Keeping, Built, Held
  <1>11. SegmentInv /\ CheckerInv
    BY <1>10 DEF SegmentInv, CheckerInv
  <1>12. \A r \in Rank : TypeInv(r) /\ ImplInv(r) /\ HoldInv(r)
    BY <1>4, <1>10 DEF TypeInv, ImplInv, HoldInv
  <1> QED BY <1>8, <1>9, <1>11, <1>12 DEF LifeInv

LEMMA CollNextInv == StageInv /\ LifeInv /\ [CollNext]_collVars => (StageInv /\ LifeInv)'
  <1> SUFFICES ASSUME StageInv, LifeInv, [CollNext]_collVars PROVE (StageInv /\ LifeInv)'
    OBVIOUS
  <1>1. CASE CollNext
    BY <1>1, RankStepKeeps DEF CollNext
  <1>2. CASE UNCHANGED collVars
    <2>1. UNCHANGED <<storeVars, barrierVars, pc, lifeVars, progVars>>
      BY <1>2 DEF collVars, storeVars
    <2>2. \A r \in Rank : UNCHANGED <<Running(r), Code(r), Phase(r), Position(r)>> /\ ProgInv'
      BY <2>1, StillThere DEF progVars, lifeVars, StageInv
    <2>3. ProgInv'
      BY <2>2, RankFacts
    <2>4. BarrierInv' /\ Arrived' = Arrived
      BY <2>1 DEF StageInv, BarrierInv, BarrierTypeOK, BarrierCountsExact, CurrentWaiters, InBarrier, barrierVars, Arrived
    <2>5. \A r \in Rank : RankShape(r)' /\ Stage(r)' = Stage(r)
      BY <2>1, <2>2 DEF StageInv, RankShape, Stage, InReset, Early, progVars, lifeVars
    <2>6. StageInv'
      BY <2>1, <2>3, <2>4, <2>5 DEF StageInv, lifeVars
    <2>7. LifeTypeOK' /\ SegmentInv' /\ CheckerInv'
      BY <2>1 DEF lifeVars, LifeInv, LifeTypeOK, SegmentInv, CheckerInv, Held, Opened
    <2>8. \A r \in Rank : TypeInv(r)' /\ ImplInv(r)' /\ HoldInv(r)'
      BY <2>1, <2>2 DEF lifeVars, progVars, LifeInv, TypeInv, ImplInv, HoldInv, Decided, File, Done, Keeping, Built
    <2> QED BY <2>6, <2>7, <2>8 DEF LifeInv
  <1> QED BY <1>1, <1>2

LEMMA CollInv == CollSpec => [](StageInv /\ LifeInv)
  BY CollInitInv, CollNextInv, PTL DEF CollSpec

\* Ranks at the same Reset have the same store, though each found it by name or
\* through its process's manager at a time of its own (file_tensor_store.cc:143,
\* memory_tensor_store.cc:73): for any number of ranks, processes and Resets.
THEOREM CollectivesOneStore == CollSpec => []OneStore
  <1>1. StageInv /\ LifeInv => OneStore
    <2> SUFFICES ASSUME StageInv, LifeInv, NEW r \in Rank, NEW u \in Rank, Built(r), Built(u),
                        mResetCount[r] = mResetCount[u]
                 PROVE  /\ storeType[r] = storeType[u] /\ mImplPtr[r] = mImplPtr[u]
                        /\ pid[r] = pid[u] => {o \in holds[r] : o.name = mResetCount[r]}
                                                = {o \in holds[u] : o.name = mResetCount[u]}
      BY DEF OneStore
    <2>1. /\ Decided(r) /\ Decided(u) /\ TypeInv(r) /\ TypeInv(u) /\ ImplInv(r) /\ ImplInv(u) /\ HoldInv(r) /\ HoldInv(u)
          /\ life[r] \in LifeState /\ life[u] \in LifeState /\ Keeping(r) /\ Keeping(u)
      BY StageFacts DEF LifeInv, Built, Decided, Keeping
    <2>2. storeType[r] = storeType[u]
      BY <2>1 DEF TypeInv
    <2>3. mImplPtr[r] = mImplPtr[u]
      <3>1. CASE File(r)
        <4>1. mImplPtr[r] \in Object(mResetCount[r]) /\ mImplPtr[u] \in Object(mResetCount[r])
          BY <2>1, <2>2, <3>1 DEF ImplInv, File, Built
        <4>2. mImplPtr[r] \in Held(r) /\ mImplPtr[u] \in Held(u)
          BY <4>1, ImplPlace DEF Held
        <4>3. mImplPtr[r].name = mImplPtr[u].name
          BY <4>1 DEF Object
        <4> QED BY <4>2, <4>3 DEF LifeInv, SegmentInv
      <3>2. CASE ~File(r)
        BY <2>1, <2>2, <3>2 DEF ImplInv, File
      <3> QED BY <3>1, <3>2
    <2>4. ASSUME pid[r] = pid[u]
          PROVE  {o \in holds[r] : o.name = mResetCount[r]} = {o \in holds[u] : o.name = mResetCount[u]}
      BY <2>1, <2>4 DEF HoldInv
    <2> QED BY <2>2, <2>3, <2>4
  <1> QED BY <1>1, CollInv, PTL

-----------------------------------------------------------------------------
(* The operands' tensors *)

\* The operands of ReduceScatterTensor and of reduce are added into; the others
\* are to stay as they are.
Guarded(n) == Work[n] \notin {"ReduceScatterTensor", "reduce"}

\* A cell that may be added into: no guarded operand's.
Spare(cell) == \A n \in 1..Len(Work), u \in Rank : Guarded(n) => cell # InputCell(n, u)

\* All ranks are between the first barrier of collective n and the first clearing
\* of its Reset.
Exchanging(n) == \A u \in Rank : Stage(u) \in (5 * n - 1)..(5 * n + 1) /\ pc[u] # "second"

\* Tensors that may not be added into are in the store only while all ranks run
\* a collective that does not add: Reset has cleared the store of them before
\* any rank goes on.
PresentInv ==
    \A k \in Key : Present(k) => \/ Spare(tensorMap[k].cell)
                                 \/ \E n \in 1..Len(Work) : Work[n] \notin Adding /\ Exchanging(n)

\* The program has provided rank r with v.
Provided(r, v) ==
    v \in Given(Work[step[r]]) \/ \E j \in 2..(ip[r] - 1) : v \in Give(Code(r)[j])

\* What an adding collective has at hand may be added into.
OperandInv(r) ==
    /\ DOMAIN reg[r] = Var
    /\ pc[r] = "destGet" => Running(r) /\ ip[r] \in 2..(ResetAt(Code(r)) - 1)
    /\ Running(r) /\ Work[step[r]] \in Adding =>
         /\ \A v \in Var : Provided(r, v) => Spare(reg[r][v][1].cell)
         /\ Provided(r, "got") /\ pc[r] # "destGet" => Spare(got[r].cell)

DataInv ==
    /\ DOMAIN tensorMap = Key /\ arg \in [Rank -> Key] /\ DOMAIN got = Rank
    /\ PresentInv /\ \A r \in Rank : OperandInv(r)
    /\ \A n \in 1..Len(Work), u \in Rank :
            Guarded(n) => InputCell(n, u) \in DOMAIN heap /\ heap[InputCell(n, u)] = InputValue(u)

\* Between the two barriers of a Reset, and nowhere else, is this number of barriers.
LEMMA StageWindow ==
    ASSUME StageInv, NEW r \in Rank
    PROVE  /\ Stage(r) \in Nat
           /\ \A n \in Nat : n >= 1 /\ Stage(r) = 5 * n + 1 => InReset(r)
           /\ Running(r) /\ Phase(r) = 1 /\ ~InReset(r) => Stage(r) = 5 * step[r] - 1
           /\ \A n \in Nat : n >= 1 /\ InReset(r) => Stage(r) \notin {5 * n - 1, 5 * n}
  <1>1. /\ step[r] \in Nat /\ step[r] >= 1 /\ Phase(r) \in {0, 1, 2, 4, 5} /\ (InReset(r) => Phase(r) = 4)
        /\ Position(r) = 5 * (step[r] - 1) + Phase(r) /\ (Early(r) => Position(r) = 0)
    <2>1. step[r] \in 1..(Len(Work) + 1) /\ Len(Work) \in Nat
      BY DEF StageInv, ProgInv
    <2> QED BY <2>1, StageFacts DEF Phase, Position
  <1>2. /\ Early(r) => Stage(r) \in {0, 1, 2} /\ Phase(r) # 1
        /\ ~Early(r) => Stage(r) = 3 + Position(r) - (IF InReset(r) THEN 1 ELSE 0)
    <2>1. Early(r) => Phase(r) # 1
      BY <1>1
    <2> QED BY <2>1 DEF Early, Stage
  <1>3. InReset(r) => ~Early(r)
    BY StageFacts DEF Early, InReset, RankShape, PcOf
  <1>4. CASE Early(r)
    BY <1>2, <1>3, <1>4
  <1>5. CASE ~Early(r)
    <2> DEFINE p == Phase(r)
               s == step[r]
    <2>1. Stage(r) = 3 + 5 * (s - 1) + p - (IF InReset(r) THEN 1 ELSE 0) /\ s \in Nat /\ s >= 1 /\ p \in {0, 1, 2, 4, 5}
          /\ (InReset(r) => p = 4)
      BY <1>1, <1>2, <1>5
    <2> HIDE DEF p, s
    <2>2. Stage(r) \in Nat
      BY <2>1
    <2>3. ASSUME NEW n \in Nat, Stage(r) = 5 * n + 1, ~InReset(r) PROVE FALSE
      BY <2>1, <2>3
    <2>4. p = 1 /\ ~InReset(r) => Stage(r) = 5 * s - 1
      BY <2>1
    <2>5. ASSUME NEW n \in Nat, InReset(r), Stage(r) \in {5 * n - 1, 5 * n} PROVE FALSE
      BY <2>1, <2>5
    <2> QED BY <2>2, <2>3, <2>4, <2>5 DEF p, s
  <1> QED BY <1>4, <1>5

\* Nobody leaves the exchange but by clearing the store.
LEMMA ExchangingKept ==
    ASSUME StageInv, NEW r \in Rank, Forward(r), NEW n \in 1..Len(Work), Exchanging(n), pc'[r] # "second"
    PROVE  Exchanging(n)'
  <1>1. n \in Nat /\ n >= 1 /\ Len(Work) \in Nat
    BY DEF StageInv, ProgInv
  <1>2. ASSUME NEW u \in Rank \ {r} PROVE Stage(u)' = Stage(u) /\ pc'[u] = pc[u]
    <2>1. UNCHANGED <<pc[u], life[u], step[u], ip[u], Work>>
      BY DEF Forward
    <2>2. UNCHANGED <<InReset(u), Position(u)>>
      BY <2>1 DEF InReset, Position, Phase, Running, Code
    <2> QED BY <2>1, <2>2 DEF Stage
  <1>3. Stage(r)' \in (5 * n - 1)..(5 * n + 1)
    <2>1. Stage(r) \in (5 * n - 1)..(5 * n + 1) /\ Stage(r) \in Nat
      BY StageWindow DEF Exchanging
    <2>2. CASE Stage(r)' = Stage(r)
      BY <2>1, <2>2
    <2>3. CASE EntersBarrier(r) /\ pc[r] # "clear" /\ Stage(r)' = Stage(r) + 1
      <3>1. ~InReset(r)
        <4>1. pc[r] # "second" /\ ~InBarrier(r)
          BY <2>3 DEF Exchanging, EntersBarrier
        <4> QED BY <2>3, <4>1 DEF InReset, InBarrier, BarrierState, WaitStates, WakeStates
      <3>2. Stage(r) # 5 * n + 1
        BY <1>1, <3>1, StageWindow
      <3> QED BY <1>1, <2>1, <2>3, <3>2
    <2> QED BY <2>2, <2>3 DEF Forward
  <1> QED BY <1>2, <1>3 DEF Exchanging

LEMMA PresentKept ==
    ASSUME StageInv, DataInv, NEW r \in Rank, Forward(r),
           \/ UNCHANGED tensorMap /\ pc'[r] # "second"
           \/ \A k \in Key : ~Present(k)'
    PROVE  PresentInv'
  <1>1. UNCHANGED Work
    BY DEF Forward
  <1>2. CASE UNCHANGED tensorMap /\ pc'[r] # "second"
    BY <1>1, <1>2, ExchangingKept DEF DataInv, PresentInv, Present, Spare, Guarded
  <1>3. CASE \A k \in Key : ~Present(k)'
    BY <1>3 DEF PresentInv
  <1> QED BY <1>2, <1>3

LEMMA OperandOther ==
    ASSUME StageInv, DataInv, NEW r \in Rank, Forward(r), NEW u \in Rank, UNCHANGED <<reg[u], got[u], step[u], ip[u]>>,
           pc'[u] = "destGet" <=> pc[u] = "destGet"
    PROVE  OperandInv(u)'
  <1>1. OperandInv(u) /\ UNCHANGED Work
    BY DEF DataInv, Forward
  <1>2. UNCHANGED <<Running(u), Code(u)>>
    BY <1>1 DEF Running, Code
  <1>3. \A v : Provided(u, v)' = Provided(u, v)
    BY <1>1, <1>2 DEF Provided
  <1>4. \A cell : Spare(cell)' = Spare(cell)
    BY <1>1 DEF Spare, Guarded
  <1> QED BY <1>1, <1>2, <1>3, <1>4 DEF OperandInv

\* A tensor found in the store during a collective that adds may be added into.
LEMMA FoundIsSpare ==
    ASSUME StageInv, DataInv, NEW r \in Rank, Running(r), Phase(r) = 1, ~InReset(r), Work[step[r]] \in Adding,
           NEW k \in Key, Present(k)
    PROVE  Spare(tensorMap[k].cell)
  <1>1. Stage(r) = 5 * step[r] - 1 /\ step[r] \in Nat
    BY StageWindow, StageFacts
  <1>2. ASSUME NEW n \in 1..Len(Work), Work[n] \notin Adding, Exchanging(n) PROVE FALSE
    <2>1. Stage(r) \in (5 * n - 1)..(5 * n + 1) /\ n \in Nat
      BY <1>2 DEF Exchanging, StageInv, ProgInv
    <2>2. n = step[r]
      BY <1>1, <2>1
    <2> QED BY <1>2, <2>2
  <1> QED BY <1>2 DEF DataInv, PresentInv

LEMMA StoreStepKeepsData ==
    ASSUME StageInv, DataInv, NEW r \in Rank, StoreStep(r), UNCHANGED <<lifeVars, progVars>>
    PROVE  DataInv'
  <1>1. /\ Forward(r) /\ pc \in [Rank -> PcState] /\ life[r] \in LifeState /\ pc[r] \in PcOf(life[r])
    BY StoreStepForward, StageFacts DEF RankShape
  <1>2. UNCHANGED <<Work, heap, reg, step, ip>>
    BY DEF progVars
  <1>3. \/ UNCHANGED <<tensorMap, arg>> /\ pc'[r] # "second"
        \/ pc' = pc /\ UNCHANGED <<tensorMap, arg>>
    <2>1. CASE ConstructBarrier(r) \/ ResetSecondBarrier(r)
      BY <1>1, <2>1 DEF ConstructBarrier, ResetSecondBarrier, At, EnterBarrier, Abort, Sleep, Goto, dataVars
    <2>2. CASE ResumeBarrier(r) \/ NotifyBarrier(r)
      BY <1>1, <2>2 DEF ResumeBarrier, NotifyBarrier, Sleep, Goto, AfterBarrier, WaitStates, WakeStates, dataVars
    <2>3. CASE NotifyAll(r) \/ ResumeSrcWait(r) \/ ResumeDestGet(r)
      BY <1>1, <2>3 DEF NotifyAll, ResumeSrcWait, ResumeDestGet, At, Abort, Sleep, Goto, dataVars
    <2> QED BY <2>1, <2>2, <2>3 DEF StoreStep
  <1>4. PresentInv'
    <2>1. CASE pc' = pc /\ UNCHANGED <<tensorMap, arg>>
      <3>1. \A n \in 1..Len(Work) : Exchanging(n)' = Exchanging(n)
        BY <1>2, <2>1 DEF Exchanging, Stage, Position, Phase, InReset, Running, Code, lifeVars
      <3> QED BY <1>2, <2>1, <3>1 DEF DataInv, PresentInv, Present, Spare, Guarded
    <2> QED BY <1>1, <1>3, <2>1, PresentKept
  <1>5. \A u \in Rank \ {r} : OperandInv(u)'
    <2>1. \A u \in Rank \ {r} : UNCHANGED got[u]
      BY DEF StoreStep, ConstructBarrier, ResetSecondBarrier, ResumeBarrier, NotifyBarrier, NotifyAll, ResumeSrcWait,
             ResumeDestGet, EnterBarrier, Abort, DataInv
    <2>2. \A u \in Rank \ {r} : pc'[u] = pc[u]
      BY <1>1 DEF Forward
    <2> QED BY <1>1, <1>2, <2>1, <2>2, OperandOther
  <1>6. OperandInv(r)' /\ DOMAIN got' = Rank
    <2>1. CASE ResumeDestGet(r) /\ Present(arg[r])
      <3>1. pc[r] = "destGet" /\ got' = [got EXCEPT ![r] = tensorMap[arg[r]]] /\ pc' = [pc EXCEPT ![r] = "idle"]
        BY <2>1 DEF ResumeDestGet, At, Goto
      <3>2. got'[r] = tensorMap[arg[r]] /\ pc'[r] = "idle" /\ DOMAIN got' = Rank /\ arg[r] \in Key
        BY <1>1, <3>1 DEF DataInv
      <3>3. OperandInv(r) /\ Running(r) /\ ip[r] \in 2..(ResetAt(Code(r)) - 1) /\ ResetAt(Code(r)) \in Nat /\ ~InReset(r)
        <4>1. OperandInv(r) /\ Running(r) /\ ip[r] \in 2..(ResetAt(Code(r)) - 1)
          BY <3>1 DEF DataInv, OperandInv
        <4> QED BY <3>1, <4>1, Coded DEF InReset, StageInv
      <3>4. Phase(r) = 1
        BY <3>3 DEF Phase
      <3>5. Work[step[r]] \in Adding => Spare(got'[r].cell)
        BY <2>1, <3>2, <3>3, <3>4, FoundIsSpare
      <3>6. UNCHANGED <<Running(r), Code(r)>> /\ \A v : Provided(r, v)' = Provided(r, v)
        BY <1>2 DEF Running, Code, Provided
      <3>7. \A cell : Spare(cell)' = Spare(cell)
        BY <1>2 DEF Spare, Guarded
      <3> QED BY <1>2, <3>2, <3>3, <3>5, <3>6, <3>7 DEF OperandInv
    <2>2. CASE ~(ResumeDestGet(r) /\ Present(arg[r]))
      <3>1. UNCHANGED got
        BY <2>2 DEF StoreStep, ConstructBarrier, ResetSecondBarrier, ResumeBarrier, NotifyBarrier, NotifyAll, ResumeSrcWait,
             ResumeDestGet, EnterBarrier, Abort
      <3>2. pc'[r] = "destGet" <=> pc[r] = "destGet"
        <4>1. CASE ConstructBarrier(r) \/ ResetSecondBarrier(r)
          BY <1>1, <4>1 DEF ConstructBarrier, ResetSecondBarrier, At, EnterBarrier, Abort, Sleep, Goto
        <4>2. CASE ResumeBarrier(r) \/ NotifyBarrier(r)
          BY <1>1, <4>2 DEF ResumeBarrier, NotifyBarrier, Sleep, Goto, AfterBarrier, WaitStates, WakeStates
        <4>3. CASE NotifyAll(r) \/ ResumeSrcWait(r) \/ ResumeDestGet(r)
          BY <1>1, <2>2, <4>3 DEF NotifyAll, ResumeSrcWait, ResumeDestGet, At, Abort, Sleep, Goto
        <4> QED BY <4>1, <4>2, <4>3 DEF StoreStep
      <3> QED BY <1>1, <1>2, <3>1, <3>2, OperandOther DEF DataInv
    <2> QED BY <2>1, <2>2
  <1> QED BY <1>2, <1>3, <1>4, <1>5, <1>6 DEF DataInv, Guarded

LEMMA LifeStepKeepsData ==
    ASSUME StageInv, LifeInv, DataInv, NEW r \in Rank, UNCHANGED progVars,
           LifeStep(r) \/ (~Running(r) /\ DestroyStore(r))
    PROVE  DataInv'
  <1>1. /\ Forward(r) /\ pc \in [Rank -> PcState] /\ life[r] \in LifeState /\ pc[r] \in PcOf(life[r])
    BY LifeForward, StageFacts DEF RankShape
  <1>2. UNCHANGED <<Work, heap, reg, step, ip>>
    BY DEF progVars
  <1>3. /\ UNCHANGED <<arg, got>> /\ (pc'[r] = "destGet" <=> pc[r] = "destGet")
        /\ \/ UNCHANGED tensorMap /\ pc'[r] # "second"
           \/ UNCHANGED <<tensorMap, pc, life>>
           \/ tensorMap' = [k \in Key |-> NoTensor]
    <2>1. CASE /\ pc[r] \notin {"second", "destGet"} /\ UNCHANGED storeVars
      BY <2>1 DEF storeVars, dataVars
    <2>2. CASE ConstructStore(r) \/ LifeBarrier(r)
      BY <1>1, <2>2 DEF ConstructStore, Construct, LifeBarrier, Barrier, EnterBarrier, At, Abort, Sleep, Goto, dataVars
    <2>3. CASE ResetContents(r)
      BY <1>1, <2>3 DEF ResetContents, ResetClear, At, Goto
    <2>4. CASE GetImpl(r)
      BY <1>1, <2>1, <2>4 DEF GetImpl, Abort, lifeVars, Live, PcOf, dataVars
    <2>5. CASE OpenChecker(r) \/ (\E type \in {"kMemory", "kFile"} : Decide(r, type)) \/ LeaveChecker(r)
               \/ RemoveChecker(r) \/ OpenSegment(r) \/ CleanExpiredEntries(r) \/ NextFile(r) \/ DropUser(r)
               \/ FinishImpl(r) \/ DestroyStore(r)
      <3>1. UNCHANGED storeVars
        BY <2>5 DEF OpenChecker, Decide, LeaveChecker, RemoveChecker, OpenSegment, CleanExpiredEntries, NextFile,
                    DropUser, FinishImpl, DestroyStore, OpenNamed
      <3>2. pc[r] \notin {"second", "destGet"}
        BY <1>1, <2>5 DEF OpenChecker, Decide, LeaveChecker, RemoveChecker, OpenSegment, CleanExpiredEntries, NextFile,
                    DropUser, FinishImpl, DestroyStore, Live, PcOf
      <3> QED BY <2>1, <3>1, <3>2
    <2> QED BY <2>2, <2>3, <2>4, <2>5 DEF LifeStep
  <1>4. PresentInv'
    <2>1. CASE UNCHANGED <<tensorMap, pc, life>>
      <3>1. \A n \in 1..Len(Work) : Exchanging(n)' = Exchanging(n)
        BY <1>2, <2>1 DEF Exchanging, Stage, Position, Phase, InReset, Running, Code
      <3> QED BY <1>2, <2>1, <3>1 DEF DataInv, PresentInv, Present, Spare, Guarded
    <2>2. CASE tensorMap' = [k \in Key |-> NoTensor]
      BY <1>1, <2>2, PresentKept DEF Present
    <2> QED BY <1>1, <1>3, <2>1, <2>2, PresentKept
  <1>5. \A u \in Rank : OperandInv(u)'
    <2>1. \A u \in Rank \ {r} : pc'[u] = pc[u]
      BY <1>1 DEF Forward
    <2> QED BY <1>1, <1>2, <1>3, <2>1, OperandOther
  <1> QED BY <1>2, <1>3, <1>4, <1>5 DEF DataInv, Guarded


\* A cell written during a collective is nobody's operand.
LEMMA NewIsSpare ==
    ASSUME NEW r PROVE Spare(Here(r)) /\ \A n, u : InputCell(n, u) # Here(r)
  <1>1. \A n, u : InputCell(n, u) # Here(r)
    <2> SUFFICES ASSUME NEW n, NEW u PROVE InputCell(n, u) # Here(r)
      OBVIOUS
    <2>1. InputCell(n, u)[1] = "input" /\ Here(r)[1] = "new"
      BY DEF InputCell, Here, NewCell
    <2> QED BY <2>1
  <1> QED BY <1>1 DEF Spare

LEMMA HeapGrown ==
    ASSUME NEW r, NEW value, heap' = Allocated(Here(r), value), NEW n, NEW u, InputCell(n, u) \in DOMAIN heap
    PROVE  InputCell(n, u) \in DOMAIN heap' /\ heap'[InputCell(n, u)] = heap[InputCell(n, u)]
  <1>1. InputCell(n, u) # Here(r)
    BY NewIsSpare
  <1> DEFINE cell == InputCell(n, u)
             here == Here(r)
  <1>2. heap' = Allocated(here, value) /\ cell # here /\ cell \in DOMAIN heap
    BY <1>1
  <1> HIDE DEF cell, here
  <1>3. cell \in DOMAIN heap' /\ heap'[cell] = heap[cell]
    BY <1>2 DEF Allocated
  <1> QED BY <1>3 DEF cell

\* Inside the exchange of an adding collective, what an instruction needs is there.
LEMMA Found ==
    ASSUME ProgInv, NEW r \in Rank, Running(r), Work[step[r]] \in Adding, ip[r] \in 2..(ResetAt(Code(r)) - 2),
           NEW v \in Need(Instr(r))
    PROVE  Provided(r, v)
  BY Coded DEF Layout, Provided, Instr

\* What an adding collective may have provided.
LEMMA ProvidedKinds ==
    ASSUME ProgInv, NEW r \in Rank, Running(r), Work[step[r]] \in Adding
    PROVE  /\ Give(Instr(r)) \subseteq {"result", "tensor", "got"}
           /\ \A v : Provided(r, v) => v \in {"input", "result", "tensor", "got"}
  <1> DEFINE c == Code(r)
             at == ResetAt(c)
             i == ip[r]
             name == Work[step[r]]
  <1>1. /\ Layout(c, name) /\ i \in 1..Len(c) /\ Len(c) \in Nat /\ at \in 3..(Len(c) - 1) /\ Instr(r) = c[i] /\ name \in Adding
    BY Coded DEF Instr
  <1>3. \A v : Provided(r, v) => v \in Given(name) \/ \E j \in 2..(i - 1) : v \in Give(c[j])
    BY DEF Provided
  <1> HIDE DEF c, at, i, name
  <1>4. /\ c[1] = BarrierOp /\ c[at - 1] = BarrierOp /\ c[at] = ResetOp /\ c[at + 1] = BarrierOp
        /\ \A k \in 2..(at - 2) : c[k] \in AddingInstr
        /\ \A k \in (at + 2)..Len(c) : c[k] \in Returning
    BY <1>1 DEF Layout, at
  <1>5. /\ Give(BarrierOp) = {} /\ Give(ResetOp) = {}
        /\ \A instr \in AddingInstr \cup Returning : Give(instr) \subseteq {"result", "tensor", "got"}
    BY DEF BarrierOp, ResetOp, AddingInstr, Returning, Handshake, Publishing, Taking, Give
  <1>6. ASSUME NEW k \in 1..Len(c) PROVE Give(c[k]) \subseteq {"result", "tensor", "got"}
    <2>1. k = 1 \/ k = at - 1 \/ k = at \/ k = at + 1 \/ k \in 2..(at - 2) \/ k \in (at + 2)..Len(c)
      BY <1>1
    <2> QED BY <1>4, <1>5, <2>1
  <1>7. \A k \in 2..(i - 1) : k \in 1..Len(c)
    BY <1>1
  <1>8. Given(name) \subseteq {"input"}
    BY DEF Given
  <1> QED BY <1>1, <1>3, <1>6, <1>7, <1>8

\* The locals after an instruction: those it made are to be such that they may
\* be added into, and at the end of the program they are fresh.
LEMMA OperandAdvanced ==
    ASSUME ProgInv, NEW r \in Rank, Running(r), NEW regs, Advance(r, regs), UNCHANGED <<Work, pid>>, DOMAIN regs = Var,
           pc'[r] = "destGet" => ip[r] \in 2..(ResetAt(Code(r)) - 2),
           Work[step[r]] \in Adding =>
             /\ \A v \in Var : Provided(r, v) \/ v \in Give(Instr(r)) => Spare(regs[v][1].cell)
             /\ (Provided(r, "got") \/ "got" \in Give(Instr(r))) /\ pc'[r] # "destGet" => Spare(got'[r].cell)
    PROVE  OperandInv(r)'
  <1>1. /\ ip[r] \in 1..Len(Code(r)) /\ Len(Code(r)) \in Nat /\ ResetAt(Code(r)) \in 3..(Len(Code(r)) - 1)
        /\ step[r] \in 1..Len(Work) /\ Len(Work) \in Nat
    BY Coded
  <1>2. /\ step \in [Rank -> 1..(Len(Work) + 1)] /\ ip \in [Rank -> Nat] /\ DOMAIN reg = Rank
    BY DEF ProgInv
  <1>3. \A cell : Spare(cell)' = Spare(cell)
    BY DEF Spare, Guarded
  <1>4. CASE ip[r] < Len(Code(r))
    <2>1. ip'[r] = ip[r] + 1 /\ reg'[r] = regs /\ step' = step
      BY <1>2, <1>4 DEF Advance
    <2>2. UNCHANGED <<Running(r), Code(r)>>
      BY <2>1 DEF Running, Code
    <2>3. ASSUME NEW v, Provided(r, v)', Work[step[r]] \in Adding PROVE Provided(r, v) \/ v \in Give(Instr(r))
      <3>1. v \in Given(Work[step[r]]) \/ \E j \in 2..(ip[r] + 1 - 1) : v \in Give(Code(r)[j])
        <4>1. ip[r] + 1 - 1 = ip'[r] - 1
          BY <1>1, <2>1
        <4>2. v \in Given(Work'[step'[r]]) \/ \E j \in 2..(ip'[r] - 1) : v \in Give(Code(r)'[j])
          BY <2>3 DEF Provided
        <4> QED BY <2>1, <2>2, <4>1, <4>2
      <3>2. \A j \in 2..(ip[r] + 1 - 1) : j \in 2..(ip[r] - 1) \/ j = ip[r]
        BY <1>1
      <3> QED BY <3>1, <3>2 DEF Provided, Instr
    <2>4. pc'[r] = "destGet" => ip'[r] \in 2..(ResetAt(Code(r)) - 1)
      BY <1>1, <2>1
    <2> QED BY <1>3, <2>1, <2>2, <2>3, <2>4 DEF OperandInv
  <1>5. CASE ~(ip[r] < Len(Code(r)))
    <2>1. ip'[r] = 1 /\ step'[r] = step[r] + 1 /\ reg'[r] = FreshRegs(step[r] + 1, r)
      BY <1>2, <1>5 DEF Advance
    <2>2. pc'[r] # "destGet"
      BY <1>1, <1>5
    <2>3. DOMAIN reg'[r] = Var
      BY <2>1 DEF FreshRegs, Var
    <2>4. ASSUME NEW v, Provided(r, v)', Work[step[r] + 1] \in Adding
          PROVE  v = "input" /\ ~Guarded(step[r] + 1)
      <3>1. v \in Given(Work[step[r] + 1]) \/ \E j \in 2..(1 - 1) : v \in Give(Code(r)'[j])
        BY <2>1, <2>4 DEF Provided
      <3>2. v \in Given(Work[step[r] + 1])
        BY <3>1
      <3> QED BY <2>4, <3>2 DEF Given, Guarded, Adding
    <2>5. reg'[r]["input"][1].cell = InputCell(step[r] + 1, r)
      BY <2>1 DEF FreshRegs, Handle
    <2>6. ~Guarded(step[r] + 1) => Spare(InputCell(step[r] + 1, r))
      <3> SUFFICES ASSUME ~Guarded(step[r] + 1), NEW n \in 1..Len(Work), NEW u \in Rank, Guarded(n)
                   PROVE  InputCell(step[r] + 1, r) # InputCell(n, u)
        BY DEF Spare
      <3>1. InputCell(n, u)[2] = n /\ InputCell(step[r] + 1, r)[2] = step[r] + 1
        BY DEF InputCell
      <3> QED BY <3>1
    <2>7. Work'[step'[r]] = Work[step[r] + 1]
      BY <2>1
    <2>8. ASSUME Work'[step'[r]] \in Adding
          PROVE  /\ \A v \in Var : Provided(r, v)' => Spare(reg[r][v][1].cell)'
                 /\ ~Provided(r, "got")'
      <3>1. \A v : Provided(r, v)' => v = "input" /\ ~Guarded(step[r] + 1)
        BY <2>4, <2>7, <2>8
      <3>2. Spare(reg[r]["input"][1].cell)' = Spare(reg'[r]["input"][1].cell)
        BY DEF Spare, Guarded
      <3>3. Spare(reg[r]["input"][1].cell)' = Spare(InputCell(step[r] + 1, r))
        BY <2>5, <3>2
      <3>4. ~Provided(r, "got")'
        BY <3>1
      <3> QED BY <2>6, <3>1, <3>3, <3>4
    <2> QED BY <2>2, <2>3, <2>8 DEF OperandInv
  <1> QED BY <1>4, <1>5

\* What an instruction of rank r leaves to others.
LEMMA ExecData ==
    ASSUME StageInv, DataInv, NEW r \in Rank, Forward(r), Running(r), NEW regs, Advance(r, regs),
           PresentInv', OperandInv(r)', DOMAIN tensorMap' = Key,
           arg' = arg \/ \E k \in Key : arg' = [arg EXCEPT ![r] = k],
           got' = got \/ \E handle : got' = [got EXCEPT ![r] = handle],
           \A n \in 1..Len(Work), u \in Rank :
              Guarded(n) => InputCell(n, u) \in DOMAIN heap' /\ heap'[InputCell(n, u)] = heap[InputCell(n, u)]
    PROVE  DataInv'
  <1>1. arg' \in [Rank -> Key] /\ DOMAIN got' = Rank /\ \A u \in Rank \ {r} : got'[u] = got[u]
    BY DEF DataInv
  <1>2. \A u \in Rank \ {r} : UNCHANGED <<step[u], ip[u], reg[u]>> /\ pc'[u] = pc[u]
    <2>1. ProgInv /\ UNCHANGED <<Work, pid>> /\ \A u \in Rank \ {r} : pc'[u] = pc[u]
      BY DEF StageInv, Forward
    <2> QED BY <2>1, Advanced
  <1>3. \A u \in Rank : OperandInv(u)'
    BY <1>1, <1>2, OperandOther
  <1>4. \A n \in 1..Len(Work), u \in Rank :
            Guarded(n) => InputCell(n, u) \in DOMAIN heap' /\ heap'[InputCell(n, u)] = InputValue(u)
    BY DEF DataInv
  <1> QED BY <1>1, <1>3, <1>4 DEF DataInv, Guarded, Forward

\* A tensor that may not be added into is published while all ranks exchange.
LEMMA SetKeepsData ==
    ASSUME StageInv, DataInv, NEW r \in Rank, Forward(r), Running(r), pc[r] = "idle", ExecSet(r)
    PROVE  DataInv'
  <1> DEFINE k == Instr(r).key
             value == reg[r][Instr(r).src][1]
  <1>1. ProgInv /\ pc \in [Rank -> PcState] /\ UNCHANGED <<Work, pid>>
    <2>1. UNCHANGED <<Work, pid>>
      BY DEF Forward
    <2> QED BY <2>1, StageFacts
  <1>2. /\ Instr(r).op = "set" /\ SrcSet(r, k, value, Instr(r).count) /\ Advance(r, reg[r]) /\ UNCHANGED heap
    BY DEF ExecSet, AtInstr, Keep
  <1>3. ip[r] \in 2..(ResetAt(Code(r)) - 2) /\ ResetAt(Code(r)) \in Nat
    BY <1>1, <1>2, Placed, Coded, SMTT(20)
  <1>4. k \in Key /\ Instr(r).src \in Var
    <2>1. Instr(r) \in AddingInstr \/ Instr(r) \in PlainInstr
      BY <1>1, <1>3, Placed
    <2>2. Instr(r) \in Publishing(Var)
      BY <1>2, <2>1 DEF AddingInstr, PlainInstr, Handshake, Publishing, Taking, Moves, Returning, Var
    <2> QED BY <2>2 DEF Publishing
  <1>5. Instr(r).src \in Need(Instr(r)) /\ Give(Instr(r)) = {}
    BY <1>2 DEF Need, Give
  <1>6. OperandInv(r) /\ PresentInv /\ DOMAIN tensorMap = Key
    BY DEF DataInv
  <1>7. ASSUME Work[step[r]] \in Adding PROVE Spare(value.cell)
    BY <1>1, <1>3, <1>4, <1>5, <1>6, <1>7, Found DEF OperandInv
  <1>8. Exchanging(step[r])
    <2>1. Phase(r) = 1 /\ ~InReset(r) /\ ~InBarrier(r)
      BY <1>3 DEF Phase, InReset, InBarrier, BarrierState, WaitStates, WakeStates
    <2>2. step[r] \in Nat /\ step[r] >= 1 /\ Stage(r) = 5 * step[r] - 1
      BY <1>1, <2>1, StageWindow, Coded
    <2>3. ASSUME NEW u \in Rank PROVE Stage(u) \in (5 * step[r] - 1)..(5 * step[r] + 1) /\ pc[u] # "second"
      <3>1. Stage(u) \in {5 * step[r] - 1, 5 * step[r]}
        <4>1. Stage(u) \in {Stage(r), Stage(r) + 1}
          BY <2>1, Close
        <4> QED BY <2>2, <4>1
      <3>2. ~InReset(u)
        BY <2>2, <3>1, StageWindow
      <3> QED BY <2>2, <3>1, <3>2 DEF InReset
    <2> QED BY <2>3 DEF Exchanging
  <1>9. /\ pc'[r] \notin {"second", "destGet"} /\ UNCHANGED <<arg, got>> /\ DOMAIN tensorMap' = Key
        /\ tensorMap' = tensorMap \/ tensorMap' = [tensorMap EXCEPT ![k] = value]
    <2> HIDE DEF k, value
    <2> QED BY <1>1, <1>2, <1>6 DEF SrcSet, Abort, Goto, dataVars
  <1>10. PresentInv'
    <2>1. CASE tensorMap' = tensorMap
      BY <1>9, <2>1, PresentKept
    <2>2. CASE tensorMap' = [tensorMap EXCEPT ![k] = value]
      <3>1. tensorMap'[k] = value /\ \A key \in Key \ {k} : tensorMap'[key] = tensorMap[key]
        BY <1>4, <1>6, <2>2
      <3>2. \A n \in 1..Len(Work) : Exchanging(n) => Exchanging(n)'
        BY <1>9, ExchangingKept
      <3>3. \A cell : Spare(cell) => Spare(cell)'
        BY <1>1 DEF Spare, Guarded
      <3>4. step[r] \in 1..Len(Work)
        BY <1>1, Coded
      <3>5. ASSUME NEW key \in Key, tensorMap'[key] # NoTensor
            PROVE  \/ Spare(tensorMap'[key].cell)
                   \/ \E n \in 1..Len(Work) : Work[n] \notin Adding /\ Exchanging(n)
        <4>1. CASE key = k
          BY <1>7, <1>8, <3>1, <3>4, <4>1
        <4>2. CASE key # k
          BY <1>6, <3>1, <3>5, <4>2 DEF PresentInv, Present
        <4> QED BY <4>1, <4>2
      <3>6. ASSUME NEW key \in Key, Present(key)' PROVE (Spare(tensorMap[key].cell))' \/ \E n \in 1..Len(Work) : Work[n] \notin Adding /\ Exchanging(n)'
        <4>1. tensorMap'[key] # NoTensor
          BY <3>6 DEF Present
        <4>2. Spare(tensorMap'[key].cell) => (Spare(tensorMap[key].cell))'
          BY <1>1 DEF Spare, Guarded
        <4> QED BY <3>2, <3>5, <4>1, <4>2
      <3> QED BY <1>1, <3>6 DEF PresentInv
    <2> QED BY <1>9, <2>1, <2>2
  <1>11. OperandInv(r)'
    <2>1. DOMAIN reg[r] = Var
      BY <1>6 DEF OperandInv
    <2>2. ASSUME Work[step[r]] \in Adding
          PROVE  /\ \A v \in Var : Provided(r, v) \/ v \in Give(Instr(r)) => Spare(reg[r][v][1].cell)
                 /\ Provided(r, "got") \/ "got" \in Give(Instr(r)) => Spare(got'[r].cell)
      BY <1>5, <1>6, <1>9, <2>2 DEF OperandInv
    <2> QED BY <1>1, <1>2, <1>9, <2>1, <2>2, OperandAdvanced
  <1> QED BY <1>2, <1>9, <1>10, <1>11, ExecData DEF DataInv

\* Calls that publish nothing; a tensor got in an adding collective may be added into.
LEMMA CallKeepsData ==
    ASSUME StageInv, DataInv, NEW r \in Rank, Forward(r), Running(r), pc[r] = "idle",
           ExecGet(r) \/ ExecFinish(r) \/ ExecWait(r) \/ ExecBarrier(r) \/ ExecReset(r)
    PROVE  DataInv'
  <1>1. ProgInv /\ pc \in [Rank -> PcState] /\ UNCHANGED <<Work, pid>> /\ OperandInv(r) /\ DOMAIN got = Rank
        /\ DOMAIN tensorMap = Key
    <2>1. UNCHANGED <<Work, pid>>
      BY DEF Forward
    <2>2. OperandInv(r) /\ DOMAIN got = Rank /\ DOMAIN tensorMap = Key
      BY DEF DataInv
    <2> QED BY <2>1, <2>2, StageFacts
  <1>2. Advance(r, reg[r]) /\ UNCHANGED heap /\ Instr(r).op \in {"get", "finish", "wait", "barrier", "reset"}
    BY DEF ExecGet, ExecFinish, ExecWait, ExecBarrier, ExecReset, AtInstr, Keep
  <1>3. ASSUME Instr(r).op \in {"get", "wait"}
        PROVE  /\ Instr(r).key \in Key /\ Phase(r) = 1 /\ ~InReset(r)
               /\ ip[r] \in 2..(ResetAt(Code(r)) - 2)
    <2>1. ip[r] \in 2..(ResetAt(Code(r)) - 2) /\ ResetAt(Code(r)) \in Nat
      BY <1>1, <1>3, Placed, Coded, SMTT(20)
    <2>2. Instr(r) \in AddingInstr \/ Instr(r) \in PlainInstr
      BY <1>1, <2>1, Placed
    <2>3. Instr(r) \in Handshake
      BY <1>3, <2>2 DEF AddingInstr, PlainInstr, Handshake, Publishing, Taking, Moves, Returning
    <2>4. Phase(r) = 1 /\ ~InReset(r)
      BY <2>1 DEF Phase, InReset
    <2> QED BY <2>1, <2>3, <2>4 DEF Handshake
  <1>4. UNCHANGED tensorMap /\ pc'[r] # "second"
    BY <1>1, Entering
       DEF ExecGet, ExecFinish, ExecWait, ExecBarrier, ExecReset, DestGet, DestFinishGet, SrcWaitUntilGetFinished,
           Barrier, Reset, EnterBarrier, At, Abort, Sleep, Goto, dataVars
  <1>5. /\ arg' = arg \/ \E k \in Key : arg' = [arg EXCEPT ![r] = k]
        /\ got' = got \/ \E handle : got' = [got EXCEPT ![r] = handle]
        /\ pc'[r] = "destGet" => Instr(r).op = "get"
        /\ Instr(r).op = "get" /\ pc'[r] # "destGet" =>
              Present(Instr(r).key) /\ got' = [got EXCEPT ![r] = tensorMap[Instr(r).key]]
        /\ Instr(r).op # "get" => got' = got
    <2>1. CASE ExecGet(r)
      <3>1. Instr(r).op = "get" /\ DestGet(r, Instr(r).key)
        BY <2>1 DEF ExecGet, AtInstr
      <3>2. Instr(r).key \in Key
        BY <1>3, <3>1
      <3> QED BY <1>1, <3>1, <3>2 DEF DestGet, Sleep, Goto
    <2>2. CASE ExecWait(r)
      <3>1. Instr(r).op = "wait" /\ SrcWaitUntilGetFinished(r, Instr(r).key)
        BY <2>2 DEF ExecWait, AtInstr
      <3>2. Instr(r).key \in Key
        BY <1>3, <3>1
      <3> QED BY <1>1, <3>1, <3>2 DEF SrcWaitUntilGetFinished, Abort, Sleep, Goto
    <2>3. CASE ExecFinish(r)
      BY <1>1, <2>3 DEF ExecFinish, AtInstr, DestFinishGet, Abort, Goto
    <2>4. CASE ExecBarrier(r) \/ ExecReset(r)
      BY <1>1, <2>4 DEF ExecBarrier, ExecReset, AtInstr, Barrier, Reset, EnterBarrier, Abort, Sleep, Goto
    <2> QED BY <2>1, <2>2, <2>3, <2>4
  <1>6. PresentInv'
    BY <1>4, PresentKept
  <1>7. OperandInv(r)'
    <2>1. Give(Instr(r)) = IF Instr(r).op = "get" THEN {"got"} ELSE {}
      BY <1>2 DEF Give
    <2>2. DOMAIN reg[r] = Var /\ "got" \notin Var
      BY <1>1 DEF OperandInv, Var
    <2>3. ASSUME Work[step[r]] \in Adding
          PROVE  /\ \A v \in Var : Provided(r, v) \/ v \in Give(Instr(r)) => Spare(reg[r][v][1].cell)
                 /\ (Provided(r, "got") \/ "got" \in Give(Instr(r))) /\ pc'[r] # "destGet" => Spare(got'[r].cell)
      <3>1. \A v \in Var : Provided(r, v) => Spare(reg[r][v][1].cell)
        BY <1>1, <2>3 DEF OperandInv
      <3>2. ASSUME Instr(r).op = "get", pc'[r] # "destGet" PROVE Spare(got'[r].cell)
        <4>1. Spare(tensorMap[Instr(r).key].cell)
          BY <1>3, <1>5, <2>3, <3>2, FoundIsSpare
        <4>2. got'[r] = tensorMap[Instr(r).key]
          BY <1>1, <1>5, <3>2
        <4> QED BY <4>1, <4>2
      <3>3. Instr(r).op # "get" /\ Provided(r, "got") => Spare(got'[r].cell)
        BY <1>1, <1>5, <2>3 DEF OperandInv
      <3> QED BY <2>1, <2>2, <3>1, <3>2, <3>3
    <2> QED BY <1>1, <1>2, <1>3, <1>5, <2>2, <2>3, OperandAdvanced
  <1> QED BY <1>1, <1>2, <1>4, <1>5, <1>6, <1>7, ExecData DEF DataInv

\* The instructions that only move tensors between the locals of the rank.
LEMMA MoveKeepsData ==
    ASSUME StageInv, DataInv, NEW r \in Rank, Forward(r), Running(r), pc[r] = "idle",
           ExecBind(r) \/ ExecAppend(r) \/ ExecClone(r) \/ ExecChunk(r) \/ ExecAdd(r)
    PROVE  DataInv'
  <1>1. ProgInv /\ pc \in [Rank -> PcState] /\ UNCHANGED <<Work, pid>> /\ OperandInv(r) /\ DOMAIN reg[r] = Var
    <2>1. UNCHANGED <<Work, pid>>
      BY DEF Forward
    <2>2. OperandInv(r)
      BY DEF DataInv
    <2> QED BY <2>1, <2>2, StageFacts DEF OperandInv
  <1>2. UNCHANGED storeVars /\ UNCHANGED <<tensorMap, arg, got, pc>> /\ pc'[r] = "idle"
    BY DEF ExecBind, ExecAppend, ExecClone, ExecChunk, ExecAdd, storeVars, dataVars
  <1>3. PresentInv' /\ DOMAIN tensorMap' = Key
    BY <1>2, PresentKept DEF DataInv
  <1>4. ASSUME NEW value, heap' = heap \/ heap' = Allocated(Here(r), value), NEW n \in 1..Len(Work), NEW u \in Rank, Guarded(n)
        PROVE  InputCell(n, u) \in DOMAIN heap' /\ heap'[InputCell(n, u)] = heap[InputCell(n, u)]
    BY <1>4, HeapGrown DEF DataInv
  <1>5. Spare(Here(r))
    BY NewIsSpare
  <1>6. Work[step[r]] \in Adding => (Instr(r) \in AddingInstr /\ ip[r] \in 2..(ResetAt(Code(r)) - 2))
                                    \/ Instr(r) \in Returning \/ Instr(r).op \in {"barrier", "reset"}
    <2>1. ip[r] \in 2..(ResetAt(Code(r)) - 2) \/ ip[r] > ResetAt(Code(r)) + 1
             \/ ip[r] \in {1, ResetAt(Code(r)) - 1, ResetAt(Code(r)), ResetAt(Code(r)) + 1}
      BY <1>1, Coded
    <2> QED BY <1>1, <2>1, Placed
  <1>7. Work[step[r]] \in Adding =>
           /\ \A v \in Var : Provided(r, v) => Spare(reg[r][v][1].cell)
           /\ Provided(r, "got") => Spare(got[r].cell)
           /\ \A v : Provided(r, v) => v # "output"
    BY <1>1, ProvidedKinds DEF OperandInv
  <1>8. ASSUME NEW handles, Assign(r, Instr(r).dst, handles),
               Work[step[r]] \in Adding =>
                 \/ Give(Instr(r)) = {} /\ Instr(r).dst = "output"
                 \/ Give(Instr(r)) = {Instr(r).dst} /\ Instr(r).dst \in Var /\ Spare(handles[1].cell)
        PROVE  OperandInv(r)'
    <2> DEFINE d == Instr(r).dst
               regs == [reg[r] EXCEPT ![d] = handles]
    <2>1. Advance(r, regs)
      BY <1>8 DEF Assign
    <2>2. DOMAIN regs = Var /\ \A v \in Var : regs[v] = IF v = d THEN handles ELSE reg[r][v]
      BY <1>1
    <2> HIDE DEF regs
    <2>3. ASSUME Work[step[r]] \in Adding
          PROVE  /\ \A v \in Var : Provided(r, v) \/ v \in Give(Instr(r)) => Spare(regs[v][1].cell)
                 /\ Provided(r, "got") \/ "got" \in Give(Instr(r)) => Spare(got'[r].cell)
      <3>1. "got" \notin Var
        BY DEF Var
      <3> QED BY <1>2, <1>7, <1>8, <2>2, <2>3, <3>1
    <2> QED BY <1>1, <1>2, <2>1, <2>2, <2>3, OperandAdvanced
  <1>9. CASE ExecBind(r)
    <2>1. Instr(r).op = "bind" /\ heap' = HeapWithReceived(r) /\ Assign(r, Instr(r).dst, <<Received(r)>>)
      BY <1>9 DEF ExecBind, AtInstr
    <2>2. ASSUME Work[step[r]] \in Adding
          PROVE  Give(Instr(r)) = {Instr(r).dst} /\ Instr(r).dst \in Var /\ Spare(Received(r).cell)
      <3>1. Instr(r) \in AddingInstr /\ ip[r] \in 2..(ResetAt(Code(r)) - 2)
        BY <1>6, <2>1, <2>2 DEF Returning
      <3>2. Instr(r).dst = "result" /\ "got" \in Need(Instr(r)) /\ Give(Instr(r)) = {Instr(r).dst}
        BY <2>1, <3>1 DEF AddingInstr, Handshake, Publishing, Taking, Returning, Need, Give
      <3>3. Spare(got[r].cell)
        BY <1>1, <1>7, <2>2, <3>1, <3>2, Found
      <3>4. Received(r).cell = got[r].cell \/ Received(r).cell = Here(r)
        BY DEF Received, Handle
      <3> QED BY <1>5, <3>2, <3>3, <3>4 DEF Var
    <2>3. OperandInv(r)'
      BY <1>8, <2>1, <2>2
    <2>4. heap' = heap \/ heap' = Allocated(Here(r), Contents(got[r]))
      BY <2>1 DEF HeapWithReceived
    <2> QED BY <1>2, <1>3, <1>4, <2>1, <2>3, <2>4, ExecData DEF Assign
  <1>10. CASE ExecAppend(r)
    <2>1. Instr(r).op = "append" /\ heap' = HeapWithReceived(r)
          /\ Assign(r, Instr(r).dst, Append(reg[r][Instr(r).dst], Received(r)))
      BY <1>10 DEF ExecAppend, AtInstr
    <2>2. Work[step[r]] \notin Adding
      BY <1>6, <2>1 DEF AddingInstr, Handshake, Publishing, Taking, Returning
    <2>3. OperandInv(r)'
      BY <1>8, <2>1, <2>2
    <2>4. heap' = heap \/ heap' = Allocated(Here(r), Contents(got[r]))
      BY <2>1 DEF HeapWithReceived
    <2> QED BY <1>2, <1>3, <1>4, <2>1, <2>3, <2>4, ExecData DEF Assign
  <1>11. CASE ExecClone(r)
    <2>1. Instr(r).op = "clone" /\ heap' = Allocated(Here(r), ContentsOf(reg[r][Instr(r).src]))
          /\ Assign(r, Instr(r).dst, <<Handle(Here(r), Whole, pid[r])>>)
      BY <1>11 DEF ExecClone, AtInstr
    <2>2. ASSUME Work[step[r]] \in Adding
          PROVE  Give(Instr(r)) = {Instr(r).dst} /\ Instr(r).dst \in Var
      BY <1>6, <2>1, <2>2 DEF AddingInstr, Handshake, Publishing, Taking, Returning, Give, Var
    <2>3. OperandInv(r)'
      BY <1>5, <1>8, <2>1, <2>2 DEF Handle
    <2> QED BY <1>2, <1>3, <1>4, <2>1, <2>3, ExecData DEF Assign
  <1>12. CASE ExecChunk(r)
    <2>1. Instr(r).op = "chunk" /\ heap' = heap
          /\ Assign(r, Instr(r).dst, <<[reg[r][Instr(r).src][1] EXCEPT !.part = Instr(r).part]>>)
      BY <1>12 DEF ExecChunk, AtInstr
    <2>2. ASSUME Work[step[r]] \in Adding
          PROVE  Give(Instr(r)) = {} /\ Instr(r).dst = "output"
      BY <1>6, <2>1, <2>2 DEF AddingInstr, Handshake, Publishing, Taking, Returning, Give
    <2>3. OperandInv(r)'
      BY <1>8, <2>1, <2>2
    <2> QED BY <1>2, <1>3, <1>4, <2>1, <2>3, ExecData DEF Assign
  <1>13. CASE ExecAdd(r)
    <2> DEFINE cell == reg[r][Instr(r).dst][1].cell
    <2>1. Instr(r).op = "add" /\ Advance(r, reg[r])
          /\ \E value : heap' = [heap EXCEPT ![cell] = value]
      BY <1>13 DEF ExecAdd, AtInstr, Keep
    <2>2. /\ Work[step[r]] \in Adding => Instr(r) \in AddingInstr /\ ip[r] \in 2..(ResetAt(Code(r)) - 2)
          /\ Work[step[r]] \in Adding
      <3>1. Work[step[r]] \in Adding
        <4> SUFFICES ASSUME Work[step[r]] \notin Adding PROVE FALSE
          OBVIOUS
        <4>1. ip[r] \in 2..(ResetAt(Code(r)) - 2) /\ Instr(r) \in PlainInstr
          BY <1>1, <2>1, Placed
        <4> QED BY <2>1, <4>1 DEF PlainInstr, Handshake, Publishing, Taking, Moves
      <3> QED BY <1>6, <2>1, <3>1 DEF Returning
    <2>3. Instr(r).dst = "result" /\ "result" \in Need(Instr(r)) /\ Give(Instr(r)) = {}
      BY <2>1, <2>2 DEF AddingInstr, Handshake, Publishing, Taking, Returning, Need, Give
    <2>4. Spare(cell)
      <3>1. Provided(r, "result") /\ "result" \in Var
        BY <1>1, <2>2, <2>3, Found DEF Var
      <3> QED BY <1>7, <2>2, <2>3, <3>1
    <2> HIDE DEF cell
    <2>5. ASSUME NEW n \in 1..Len(Work), NEW u \in Rank, Guarded(n)
          PROVE  InputCell(n, u) \in DOMAIN heap' /\ heap'[InputCell(n, u)] = heap[InputCell(n, u)]
      <3>1. InputCell(n, u) # cell /\ InputCell(n, u) \in DOMAIN heap
        BY <2>4, <2>5 DEF Spare, DataInv
      <3> QED BY <2>1, <3>1
    <2>6. OperandInv(r)'
      BY <1>1, <1>2, <1>7, <2>1, <2>3, OperandAdvanced
    <2> QED BY <1>2, <1>3, <2>1, <2>5, <2>6, ExecData
  <1> QED BY <1>9, <1>10, <1>11, <1>12, <1>13

LEMMA RankStepKeepsData ==
    ASSUME StageInv, LifeInv, DataInv, NEW r \in Rank, RankStep(r)
    PROVE  DataInv'
  <1>1. CASE Live(r, "running") /\ Exec(r) /\ UNCHANGED <<Work, lifeVars>>
    <2>1. Forward(r) /\ Running(r) /\ pc[r] = "idle"
      BY <1>1, ExecForward
    <2> QED BY <1>1, <2>1, SetKeepsData, CallKeepsData, MoveKeepsData DEF Exec
  <1>2. CASE StoreStep(r) /\ UNCHANGED <<lifeVars, progVars>>
    BY <1>2, StoreStepKeepsData
  <1>3. CASE (LifeStep(r) \/ (~Running(r) /\ DestroyStore(r))) /\ UNCHANGED progVars
    BY <1>3, LifeStepKeepsData
  <1> QED BY <1>1, <1>2, <1>3 DEF RankStep

LEMMA DataInitInv == CollInit => DataInv
  <1> SUFFICES ASSUME CollInit PROVE DataInv
    OBVIOUS
  <1>1. /\ StoreInit /\ step = [r \in Rank |-> 1] /\ ip = [r \in Rank |-> 1] /\ reg = [r \in Rank |-> FreshRegs(1, r)]
        /\ heap = [c \in {InputCell(n, r) : n \in 1..Len(Work), r \in Rank} |-> InputValue(c[3])]
    BY DEF CollInit
  <1>2. DOMAIN tensorMap = Key /\ arg \in [Rank -> Key] /\ DOMAIN got = Rank /\ \A k \in Key : ~Present(k)
    BY <1>1, StoreAssumption DEF StoreInit, Present
  <1>3. ASSUME NEW r \in Rank PROVE OperandInv(r)
    <2>1. DOMAIN reg[r] = Var /\ pc[r] # "destGet" /\ ip[r] = 1 /\ step[r] = 1
      BY <1>1 DEF FreshRegs, Var, StoreInit
    <2>2. ASSUME NEW v, Provided(r, v), Work[step[r]] \in Adding PROVE v = "input" /\ ~Guarded(1)
      <3>1. v \in Given(Work[1]) \/ \E j \in 2..(1 - 1) : v \in Give(Code(r)[j])
        BY <2>1, <2>2 DEF Provided
      <3> QED BY <2>1, <2>2, <3>1 DEF Given, Guarded, Adding
    <2>3. reg[r]["input"][1].cell = InputCell(1, r)
      BY <1>1 DEF FreshRegs, Handle
    <2>4. ~Guarded(1) => Spare(InputCell(1, r))
      <3> SUFFICES ASSUME ~Guarded(1), NEW n \in 1..Len(Work), NEW u \in Rank, Guarded(n)
                   PROVE  InputCell(1, r) # InputCell(n, u)
        BY DEF Spare
      <3>1. InputCell(n, u)[2] = n /\ InputCell(1, r)[2] = 1
        BY DEF InputCell
      <3> QED BY <3>1
    <2> QED BY <2>1, <2>2, <2>3, <2>4 DEF OperandInv
  <1>4. ASSUME NEW n \in 1..Len(Work), NEW u \in Rank
        PROVE  InputCell(n, u) \in DOMAIN heap /\ heap[InputCell(n, u)] = InputValue(u)
    <2>1. InputCell(n, u)[3] = u
      BY DEF InputCell
    <2> QED BY <1>1, <2>1
  <1> QED BY <1>2, <1>3, <1>4 DEF DataInv, PresentInv

LEMMA DataNextInv == StageInv /\ LifeInv /\ DataInv /\ [CollNext]_collVars => DataInv'
  <1> SUFFICES ASSUME StageInv, LifeInv, DataInv, [CollNext]_collVars PROVE DataInv'
    OBVIOUS
  <1>1. CASE CollNext
    BY <1>1, RankStepKeepsData DEF CollNext
  <1>2. CASE UNCHANGED collVars
    <2>1. UNCHANGED <<tensorMap, arg, got, pc, life, Work, heap, reg, step, ip>>
      BY <1>2 DEF collVars, storeVars, dataVars, lifeVars, progVars
    <2>2. \A u \in Rank : UNCHANGED <<Running(u), Code(u)>>
      BY <2>1 DEF Running, Code
    <2>3. \A u \in Rank : Stage(u)' = Stage(u)
      BY <2>1, <2>2 DEF Stage, Position, Phase, InReset
    <2>4. \A n \in 1..Len(Work) : Exchanging(n)' = Exchanging(n)
      BY <2>1, <2>3 DEF Exchanging
    <2>5. \A cell : Spare(cell)' = Spare(cell)
      BY <2>1 DEF Spare, Guarded
    <2>6. PresentInv'
      BY <2>1, <2>4 DEF DataInv, PresentInv, Present, Spare, Guarded
    <2>7. ASSUME NEW u \in Rank PROVE OperandInv(u)'
      <3>1. \A v : Provided(u, v)' = Provided(u, v)
        BY <2>1, <2>2 DEF Provided
      <3> QED BY <2>1, <2>2, <2>5, <3>1 DEF DataInv, OperandInv
    <2> QED BY <2>1, <2>6, <2>7 DEF DataInv, Guarded
  <1> QED BY <1>1, <1>2

\* The backend adds in place into the tensor rank 0 published
\* (thread_group_same_device_backend.cc:128); nobody's operand but those of
\* reduce-scatter and reduce is ever such a tensor, because ThreadGroup clones
\* AllReduce's (thread_group.cc:134) and Reset takes the others out of the store
\* before any rank starts to add: for any number of ranks, processes and
\* collectives, and any assignment of ranks to processes.
THEOREM CollectivesOperandsNotAccumulated == CollSpec => []OperandsNotAccumulated
  <1>1. CollSpec => [](StageInv /\ LifeInv /\ DataInv)
    BY CollInitInv, CollNextInv, DataInitInv, DataNextInv, PTL DEF CollSpec
  <1>2. DataInv => OperandsNotAccumulated
    BY DEF DataInv, OperandsNotAccumulated, OperandPreserved, Guarded
  <1> QED BY <1>1, <1>2, PTL

-----------------------------------------------------------------------------
(* The collectives' barriers *)

\* No Barrier() of a collective, of a Reset or of the set-up returns before all
\* ranks have made the call with the same number (tensor_store.h, Barrier),
\* although a Reset moves the store to another segment or object between its
\* two: the collectives are a client the store's own theorem does not cover,
\* for they also construct, move and drop the store.
THEOREM CollectivesRefineRendezvous == CollSpec => RefinesRendezvous
  <1>1. ASSUME StageInv, LifeInv, [CollNext]_collVars PROVE [R!RNext]_(R!rvars)
    <2>1. CASE CollNext
      <3>1. PICK r \in Rank : RankStep(r)
        BY <2>1 DEF CollNext
      <3>2. Forward(r) /\ BarrierInv
        BY <1>1, <3>1, RankStepKeeps DEF StageInv
      <3>3. EntersBarrier(r) \/ LeavesBarrier(r) \/ AvoidsBarrier(r) \/ UNCHANGED <<barrierVars, pc>>
        BY <3>2 DEF Forward
      <3>4. UNCHANGED <<barrierVars, pc>> => UNCHANGED <<Arrived, Left>>
        BY DEF Arrived, Left, InBarrier, barrierVars
      <3> QED BY <3>2, <3>3, <3>4, EntersIsArrive, LeavesIsLeave, AvoidsIsStutter DEF R!RNext, R!rvars
    <2>2. CASE UNCHANGED collVars
      BY <2>2 DEF collVars, storeVars, barrierVars, Arrived, Left, InBarrier, R!rvars
    <2> QED BY <1>1, <2>1, <2>2
  <1>2. CollInit => R!RInit
    BY RendezvousInit DEF CollInit
  <1>3. StageInv /\ LifeInv /\ [CollNext]_collVars => [R!RNext]_(R!rvars)
    BY <1>1
  <1> QED BY <1>2, <1>3, CollInv, PTL DEF CollSpec, RefinesRendezvous, R!RSpec

=============================================================================
