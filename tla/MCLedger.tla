------------------------------ MODULE MCLedger ------------------------------
(* Two accounts, one with a balance and one without a row.                   *)
EXTENDS Ledger

CONSTANTS p, q, x, y

MCTasks == {p, q}
MCAccounts == {x, y}
MCOpening == [a \in MCAccounts |-> IF a = x THEN 2 ELSE -1]
=============================================================================
