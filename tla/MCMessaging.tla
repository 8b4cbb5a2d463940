---------------------------- MODULE MCMessaging ----------------------------
(* Triangle: a and b are connected both ways, c only has connections it     *)
(* accepted and does not know where to reach a, b has no session key for c. *)
EXTENDS Messaging

CONSTANTS a, b, c

Triangle == {a, b, c}
TriangleLinks == {<<a, b>>, <<b, a>>, <<a, c>>, <<b, c>>}
TriangleKnows == [n \in Triangle |-> Triangle \ (IF n = c THEN {a} ELSE {})]
TriangleKeyed == [n \in Triangle |-> Triangle \ (IF n = b THEN {c} ELSE {})]
=============================================================================
