------------------------------- MODULE Lists -------------------------------
(***************************************************************************)
(* Array.prototype.sort and Array.prototype.filter as the web client uses  *)
(* them.  Each element's place is the number of those that go before it,   *)
(* which says what the result is without saying how it is computed, in     *)
(* terms the provers know (of SortSeq and SelectSeq they know nothing).    *)
(***************************************************************************)
EXTENDS Integers, Sequences, FiniteSets

(* The members of S in the order of Before, a strict total order on S. *)
InOrder(S, Before(_, _)) ==
    [k \in 1 .. Cardinality(S) |->
        CHOOSE x \in S : Cardinality({y \in S : Before(y, x)}) = k - 1]

(* The elements of s at the positions I, in their order. *)
At(s, I) ==
    LET order == InOrder(I, LAMBDA i, j : i < j) IN [k \in 1 .. Cardinality(I) |-> s[order[k]]]

(* The elements of s that pass Test, in their order. *)
Keep(s, Test(_)) == At(s, {i \in DOMAIN s : Test(s[i])})
=============================================================================
