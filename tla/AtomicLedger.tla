---------------------------- MODULE AtomicLedger ----------------------------
(***************************************************************************)
(* What the ledger stores promise their callers, whatever calls overlap:    *)
(* every step is one whole call, named by `last`, and changes what that      *)
(* call is to change and nothing else: the single write of a balance is a    *)
(* step of a call of set, never a part of a transfer.  Only a row that was   *)
(* inserted outside a transaction may continue something else than the last *)
(* row of the chain.                                                        *)
(***************************************************************************)
EXTENDS Integers, Sequences

CONSTANTS Accounts, Amounts, Networks, Bodies, Limit, Opening

VARIABLES
  bal,      \* account -> balance, 0 for an account without a row
  network,  \* the network this ledger belongs to, or "none"
  chain,    \* rows of the transaction table, each with its own and its predecessor's hash
  last      \* the call that took effect last

vars == <<bal, network, chain, last>>

Init == bal = Opening /\ network = "none" /\ chain = <<>> /\ last = [op |-> "none"]

\* An account pays another one it can afford to pay.
Transfer(f, t, n) ==
  /\ f # t /\ n > 0 /\ bal[f] >= n
  /\ bal' = [bal EXCEPT ![f] = @ - n, ![t] = (@ + n) % Limit]
  /\ last' = [op |-> "transfer", from |-> f, to |-> t, n |-> n]
  /\ UNCHANGED <<network, chain>>

\* An account pays itself: BalanceStore::transfer writes the credit last.
PayItself(a, n) ==
  /\ n > 0 /\ bal[a] >= n
  /\ bal' = [bal EXCEPT ![a] = (@ + n) % Limit]
  /\ last' = [op |-> "transfer", from |-> a, to |-> a, n |-> n]
  /\ UNCHANGED <<network, chain>>

SetBalance(a, n) ==
  /\ bal' = [bal EXCEPT ![a] = n]
  /\ last' = [op |-> "set", to |-> a, n |-> n]
  /\ UNCHANGED <<network, chain>>

\* The network is chosen once.
ChooseNetwork(v) ==
  /\ network = "none"
  /\ network' = v
  /\ last' = [op |-> "set_network", value |-> v]
  /\ UNCHANGED <<bal, chain>>

\* A row follows the last one.
Link(b) ==
  /\ LET h == IF chain = <<>> THEN <<>> ELSE chain[Len(chain)].hash
     IN \E tx \in BOOLEAN : chain' = Append(chain, [pre |-> h, hash |-> Append(h, b), tx |-> tx])
  /\ last' = [op |-> "insert", body |-> b]
  /\ UNCHANGED <<bal, network>>

\* A row inserted outside a transaction may follow anything.
LinkBare(b) ==
  /\ Len(chain') = Len(chain) + 1
  /\ LET h == chain'[Len(chain')].pre
     IN chain' = Append(chain, [pre |-> h, hash |-> Append(h, b), tx |-> FALSE])
  /\ last' = [op |-> "insert", body |-> b]
  /\ UNCHANGED <<bal, network>>

Clear ==
  /\ chain' = <<>>
  /\ last' = [op |-> "reset"]
  /\ UNCHANGED <<bal, network>>

\* Ticks and epochs are not part of this ledger.
Other ==
  /\ last'.op \in {"tick", "epoch", "finalize"}
  /\ UNCHANGED <<bal, network, chain>>

Next ==
  \/ \E f, t \in Accounts, n \in Amounts : Transfer(f, t, n)
  \/ \E a \in Accounts, n \in Amounts : PayItself(a, n) \/ SetBalance(a, n)
  \/ \E v \in Networks : ChooseNetwork(v)
  \/ \E b \in Bodies : Link(b) \/ LinkBare(b)
  \/ Clear \/ Other

Spec == Init /\ [][Next]_vars
=============================================================================
