---------------------------- MODULE MCSeedGossip ----------------------------
(* Star: a is started with b and c as its seeds.                            *)
(* Pair: two nodes with two interfaces each; a dials b, and a user of b     *)
(* connects to a.                                                           *)
EXTENDS SeedGossip

CONSTANTS a, b, c

Star == {a, b, c}
StarRank == [n \in Star |-> IF n = a THEN 1 ELSE IF n = b THEN 2 ELSE 3]
StarBoot == {<<a, b>>, <<a, c>>}

Pair == {a, b}
PairRank == [n \in Pair |-> IF n = a THEN 1 ELSE 2]
PairBoot == {<<a, b>>}
PairCli == {<<b, a>>}

\* MeshedAtRest expects as much of the first dials.
ASSUME StartsConnected == BootConnects
=============================================================================
