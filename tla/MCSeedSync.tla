----------------------------- MODULE MCSeedSync -----------------------------
(* Each node knows an address of its own; b also a loopback address and one  *)
(* with port 0, and c has b's address under its own id, as a connect command *)
(* leaves it.  Only a runs a cycle, with b and c.                             *)
EXTENDS SeedSync

CONSTANTS a, b, c

MCNodes == {a, b, c}
MCAddrs == {"addr_a", "addr_b", "addr_c", "local", "port0"}
MCStart == [n \in MCNodes |->
  CASE n = a -> {<<"addr_a", a>>}
    [] n = b -> {<<"addr_b", b>>, <<"local", b>>, <<"port0", b>>}
    [] OTHER -> {<<"addr_c", c>>, <<"addr_b", c>>}]
FanTargets == [n \in MCNodes |-> IF n = a THEN {b, c} ELSE {}]
=============================================================================
