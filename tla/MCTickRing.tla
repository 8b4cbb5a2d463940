----------------------------- MODULE MCTickRing -----------------------------
(* The node starts with its own seed; peers tick with a ring that adds another *)
(* node, or with one that lists that node on two interfaces.                  *)
EXTENDS TickRing

CONSTANTS g, h, a, b

MCConns == {g, h}
MCAddrs == {"a1", "b1", "b2"}
MCIds == {a, b}
MCStart == {<<"a1", a>>}
MCRings == {{<<"a1", a>>, <<"b1", b>>}, {<<"a1", a>>, <<"b1", b>>, <<"b2", b>>}}
=============================================================================
