---------------------------- MODULE MCUserStore ----------------------------
(* Two tasks, and a profile that says something or nothing.                 *)
EXTENDS UserStore

CONSTANTS p1, p2
MCProcs == {p1, p2}
MCNames == {"", "name"}
=============================================================================
