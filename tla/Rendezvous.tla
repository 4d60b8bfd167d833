----------------------------- MODULE Rendezvous -----------------------------
(***************************************************************************)
(* What a barrier promises, independently of how one is implemented: every *)
(* participant numbers its own calls, and call n of any participant may    *)
(* return only after every participant has made its call n.                *)
(*                                                                         *)
(* arrived[r] is the number of calls participant r has made, left[r] the   *)
(* number of its calls that have returned.                                 *)
(***************************************************************************)
EXTENDS Naturals

CONSTANT Rank          \* the participants

VARIABLES arrived, left

rvars == <<arrived, left>>

RTypeOK ==
    /\ arrived \in [Rank -> Nat]
    /\ left \in [Rank -> Nat]

RInit ==
    /\ arrived = [r \in Rank |-> 0]
    /\ left = [r \in Rank |-> 0]

\* A participant that is outside the barrier calls it.
Arrive(r) ==
    /\ arrived[r] = left[r]
    /\ arrived' = [arrived EXCEPT ![r] = left[r] + 1]
    /\ UNCHANGED left

\* A call returns once every participant has made the call with its number.
Leave(r) ==
    /\ left[r] < arrived[r]
    /\ \A q \in Rank : left[r] < arrived[q]
    /\ left' = [left EXCEPT ![r] = left[r] + 1]
    /\ UNCHANGED arrived

RNext == \E r \in Rank : Arrive(r) \/ Leave(r)

RSpec == RInit /\ [][RNext]_rvars

=============================================================================
