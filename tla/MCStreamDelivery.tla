--------------------------- MODULE MCStreamDelivery ---------------------------
(* A small broker for TLC: two logical messages, one of which the consumer    *)
(* cannot decode, and a stream short enough for XADD to trim.                 *)
EXTENDS StreamDelivery, TLC

CONSTANTS m1, m2, c1, c2

MCMessages == {m1, m2}
MCUndecodable == {m2}
MCConsumers == {c1, c2}

Symmetry == Permutations(MCConsumers)
===============================================================================
