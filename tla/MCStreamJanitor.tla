---------------------------- MODULE MCStreamJanitor ----------------------------
(* Two consumers beside the janitor, one of which may lose touch with Redis;   *)
(* two entries of one message.                                                 *)
EXTENDS StreamJanitor

CONSTANTS m1, c1, c2

MCMessages == {m1}
MCUndecodable == {}
MCConsumers == {c1, c2}
MCStalling == {c1}
===============================================================================
