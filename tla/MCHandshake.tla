---------------------------- MODULE MCHandshake ----------------------------
(* Two peers whose address and socket orders disagree, so that either tie-  *)
(* breaker may let either of them dial.                                     *)
EXTENDS Handshake

CONSTANTS a, b

MCNodes == {a, b}
MCAddrRank == [n \in MCNodes |-> IF n = a THEN 1 ELSE 2]
MCSockRank == [n \in MCNodes |-> IF n = a THEN 2 ELSE 1]
=============================================================================
