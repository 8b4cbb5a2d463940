----------------------------- MODULE MCNodeSync -----------------------------
(* Two nodes with two connections, one dialled by each: the loops of both     *)
(* compete for the channels of the node.                                     *)
EXTENDS NodeSync

CONSTANTS a, b

MCNodes == {a, b}
MCConns == {"dialled", "returned"}
MCEnds == [c \in MCConns |-> MCNodes]
=============================================================================
