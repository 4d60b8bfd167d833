------------------------- MODULE PlacementSignature -------------------------
(***************************************************************************)
(* Which placements of its inputs an operator accepts and what becomes of  *)
(* them.  A signature is the sequence of the rules a Builder has built, in *)
(* that order: in and out give the placement of every input and output     *)
(* along one dimension of the mesh, optional the inputs that may be        *)
(* absent.  Match treats the dimensions of the mesh one by one.            *)
(***************************************************************************)
EXTENDS Distribution

\* Placement of an operand that is absent (Placement::Optional).
Optional == [kind |-> "O", axis |-> -1, sub |-> -1]

\* Builder::Build after AddInput.., AddOutput..; or with AddOptionalInput.
Build(in, out) == [in |-> in, out |-> out, optional |-> {}]
BuildOptional(in, optional, out) == [in |-> in, out |-> out, optional |-> optional]

S(dim) == Shard(dim, -1)

\* One rule for every axis of a set, in the order of the axes.
ForAxes(axes, Rule(_)) == LET order == SetToSortSeq(axes, <) IN [n \in DOMAIN order |-> Rule(order[n])]

\* Builder::Finish: everything replicated is accepted as well, and every input
\* some rule lets be absent may be.
Finish(rules, inputs, outputs) ==
    Append(rules, BuildOptional([i \in 1..inputs |-> Replicate],
                                UNION {rules[n].optional : n \in DOMAIN rules},
                                [i \in 1..outputs |-> Replicate]))

\* Placement::ToHashKey: sub-splits are not looked at.
ToHashKey(p) == [p EXCEPT !.sub = -1]

\* Builder::Build adds one pair per combination of absent optional inputs.
Accepts(rule, key) ==
    \A i \in DOMAIN key : key[i] = ToHashKey(rule.in[i]) \/ (i \in rule.optional /\ key[i] = Optional)

\* GetInputPlacementSignature, GetHashKey
InputSignature(ins, k) == [i \in DOMAIN ins |-> ins[i][k]]
GetHashKey(ps) == [i \in DOMAIN ps |-> ToHashKey(ps[i])]

Candidates(signature, ps) == {n \in DOMAIN signature : Accepts(signature[n], GetHashKey(ps))}

\* Of two pairs with one key the later replaces the earlier
\* (AddPlacementSignaturePair).
Found(signature, ps) == signature[Max(Candidates(signature, ps))].out

\* The first sub-split among the inputs becomes that of every shard among the
\* outputs.
KeepSubSplit(ps, out) ==
    LET split == {i \in DOMAIN ps : ps[i].sub # -1}
    IN  IF split = {} THEN out
        ELSE [j \in DOMAIN out |-> IF out[j].kind = "S" THEN [out[j] EXCEPT !.sub = ps[Min(split)].sub]
                                                        ELSE out[j]]

Matches(signature, ins) ==
    \A k \in DOMAIN ins[1] : Candidates(signature, InputSignature(ins, k)) # {}

\* Placements of every output.
Match(signature, ins, keepSubSplitCoordinates) ==
    LET At(k) == LET ps == InputSignature(ins, k)
                 IN  IF keepSubSplitCoordinates THEN KeepSubSplit(ps, Found(signature, ps))
                                                ELSE Found(signature, ps)
    IN  [j \in DOMAIN signature[1].out |-> [k \in DOMAIN ins[1] |-> At(k)[j]]]
=============================================================================
