------------------------------ MODULE Ordering ------------------------------
(***************************************************************************)
(* The members of a finite set one after the other, as sorted() or ORDER   *)
(* BY give them.  (SetToSortSeq does the same; these are defined by ranks, *)
(* which the proofs can reason about.)                                     *)
(***************************************************************************)
EXTENDS Naturals, FiniteSets

(* `before' is a set of pairs, a strict total order on S.                  *)
InOrder(S, before) ==
    [k \in 1..Cardinality(S) |->
        CHOOSE x \in S : Cardinality({y \in S : <<y, x>> \in before}) = k - 1]

Ascending(S) == InOrder(S, {p \in S \X S : p[1] < p[2]})

(***************************************************************************)
(* The items of a sequence at some of its places, and those that pass a    *)
(* test.  (SelectSeq, by places instead of a recursion.)                   *)
(***************************************************************************)
ItemsAt(s, places) == [k \in 1..Cardinality(places) |-> s[Ascending(places)[k]]]
Select(s, Test(_)) == ItemsAt(s, {i \in DOMAIN s : Test(s[i])})
=============================================================================
