------------------------------- MODULE Ledger -------------------------------
(***************************************************************************)
(* The stores of db/entity over one SQLite file, called by several tasks.   *)
(*                                                                         *)
(* A store call is a few statements: it finds rows, decides, and then        *)
(* updates or inserts what it computed from what it found.  Called on the   *)
(* connection, every statement is a transaction of its own and others run   *)
(* between them; called on a transaction (transfer opens one itself, other  *)
(* callers use with_transaction), all statements see one snapshot and take  *)
(* effect together.  SQLite (external) lets one transaction write at a time  *)
(* and refuses to let one write whose snapshot is out of date.               *)
(*                                                                         *)
(* A hash stands for everything it was computed from: the bodies of the row  *)
(* and of its predecessors, in order.                                       *)
(***************************************************************************)
EXTENDS Integers, Sequences, FiniteSets

CONSTANTS
  Tasks,      \* concurrent callers
  Accounts,   \* addresses with a balance
  Amounts,    \* amounts of transfers and new balances
  Networks,   \* values of MetaKey::NetworkType
  Bodies,     \* contents of transactions
  Days,       \* days that finalize is called for
  Limit,      \* 2^64: balances are u64
  TickLimit,  \* 2^8: tick counts are u8
  Opening,    \* the balances at the start; -1: no row
  MaxCalls    \* bound on the number of calls

ASSUME LedgerConstants ==
  /\ Limit \in Nat \ {0}
  /\ TickLimit \in Nat \ {0}
  /\ Amounts \subseteq 0..(Limit - 1)
  /\ Opening \in [Accounts -> (-1)..(Limit - 1)]
  /\ "none" \notin Networks
  /\ Days \subseteq Nat
  /\ MaxCalls \in Nat

VARIABLES
  tables,   \* the committed rows
  call,     \* call[p]: the store call task p runs
  intx,     \* intx[p]: it runs in a transaction
  step,     \* step[p]: its next statement
  seen,     \* seen[p]: the tables as the call's queries found them
  view,     \* view[p]: the tables as p's transaction sees and leaves them
  stale,    \* stale[p]: something was committed since p's snapshot
  writer,   \* tasks whose transaction holds SQLite's write lock (at most one)
  calls,    \* calls made so far
  counted,  \* history: increment_tick calls that returned Ok
  lost,     \* history: one of them overwrote a count it had not seen
  last      \* history: the call that took effect last

vars == <<tables, call, intx, step, seen, view, stale, writer, calls, counted, lost, last>>

Rows == [pre : Seq(Bodies), hash : Seq(Bodies), tx : BOOLEAN]
Epochs == [day : Nat, settled : BOOLEAN, tx : BOOLEAN]
Tables == [bal : [Accounts -> (-1)..(Limit - 1)], network : Networks \cup {"none"},
           chain : Seq(Rows), ticks : Seq(0..(TickLimit - 1)), epochs : Seq(Epochs)]

Transfers == [op : {"transfer"}, from : Accounts, to : Accounts, n : Amounts]
Calls == Transfers
  \cup [op : {"set"}, to : Accounts, n : Amounts]
  \cup [op : {"set_network"}, value : Networks]
  \cup [op : {"insert"}, body : Bodies]
  \cup [op : {"finalize"}, day : Days]
  \cup [op : {"reset", "tick", "epoch"}]

NoCall == [op |-> "none"]
NoTables == [bal |-> Opening, network |-> "none", chain |-> <<>>, ticks |-> <<>>, epochs |-> <<>>]

Init ==
  /\ tables = NoTables
  /\ call = [p \in Tasks |-> NoCall]
  /\ intx = [p \in Tasks |-> FALSE]
  /\ step = [p \in Tasks |-> "idle"]
  /\ seen = [p \in Tasks |-> NoTables]
  /\ view = [p \in Tasks |-> NoTables]
  /\ stale = [p \in Tasks |-> FALSE]
  /\ writer = {}
  /\ calls = 0
  /\ counted = 0
  /\ lost = FALSE
  /\ last = NoCall

-----------------------------------------------------------------------------
(* What the queries and statements of the stores do.                        *)

\* BalanceStore::get: no row reads as 0.
Get(bal, a) == IF bal[a] = -1 THEN 0 ELSE bal[a]

\* The hash the next row has to continue: that of the newest row, or PRE_HASH.
LastHash(chain) == IF chain = <<>> THEN <<>> ELSE chain[Len(chain)].hash

\* The newest of the epochs with the greatest day.
Latest(epochs) ==
  CHOOSE i \in DOMAIN epochs : \A j \in DOMAIN epochs :
    epochs[j].day < epochs[i].day \/ (epochs[j].day = epochs[i].day /\ j <= i)

\* The first epoch of that day, which get_by_index finds.
First(epochs, d) ==
  CHOOSE i \in DOMAIN epochs : epochs[i].day = d /\ \A j \in 1..(i - 1) : epochs[j].day # d

\* Mutant of Rejected: the balance of the payer is not checked.
RejectedUnlessTransfer(c, t) ==
  \/ c.op = "set_network" /\ t.network # "none"
  \/ c.op = "finalize" /\ \A i \in DOMAIN t.epochs : t.epochs[i].day # c.day

\* The call returns an error after its queries.
Rejected(c, t) ==
  \/ c.op = "transfer" /\ Get(t.bal, c.from) < c.n
  \/ c.op = "set_network" /\ t.network # "none"
  \/ c.op = "finalize" /\ \A i \in DOMAIN t.epochs : t.epochs[i].day # c.day

\* get_current_or_create returns the current epoch and writes nothing.
NothingToDo(c, t) ==
  c.op = "epoch" /\ t.epochs # <<>> /\ ~t.epochs[Latest(t.epochs)].settled

\* An insert meets a row with its unique address or key.
Duplicate(c, s, t) ==
  \/ c.op = "set" /\ s.bal[c.to] = -1 /\ t.bal[c.to] # -1
  \/ c.op = "set_network" /\ t.network # "none"

\* transfer: the first of the two balances it sets.
Debit(c, s, t) == [t EXCEPT !.bal[c.from] = Get(s.bal, c.from) - c.n]

\* transfer: the second; what was read before the first was written counts.
Credit(c, s, t) == [t EXCEPT !.bal[c.to] = (Get(s.bal, c.to) + c.n) % Limit]

\* insert_with_next_hash; transaction sets and the allocations of an epoch are
\* chained in the same way.
InsertRow(c, s, t, tx) ==
  [t EXCEPT !.chain = Append(@, [pre |-> LastHash(s.chain),
                                 hash |-> Append(LastHash(s.chain), c.body), tx |-> tx])]

\* Mutant of IncrementTick: the first tick inserts a row that counts nothing.
IncrementFromZero(s, t) ==
  IF s.ticks = <<>> THEN [t EXCEPT !.ticks = Append(@, 0)]
  ELSE [t EXCEPT !.ticks[1] = (s.ticks[1] + 1) % TickLimit]

\* increment_tick for one epoch and address.
IncrementTick(s, t) ==
  IF s.ticks = <<>> THEN [t EXCEPT !.ticks = Append(@, 1 % TickLimit)]
  ELSE [t EXCEPT !.ticks[1] = (s.ticks[1] + 1) % TickLimit]

\* Mutant of CreateEpoch: the day after the latest epoch is not the next one.
CreateSameDay(s, t, tx) ==
  [t EXCEPT !.epochs = Append(@, [settled |-> FALSE, tx |-> tx,
     day |-> IF s.epochs = <<>> THEN 0 ELSE s.epochs[Latest(s.epochs)].day])]

\* get_current_or_create: the day after the latest one, or day 0.
CreateEpoch(s, t, tx) ==
  [t EXCEPT !.epochs = Append(@, [settled |-> FALSE, tx |-> tx,
     day |-> IF s.epochs = <<>> THEN 0 ELSE s.epochs[Latest(s.epochs)].day + 1])]

\* The tables t after the (first) writing statement of c, which found s.
Written(c, s, t, tx) ==
  CASE c.op = "transfer"    -> Debit(c, s, t)
    [] c.op = "set"         -> [t EXCEPT !.bal[c.to] = c.n]
    [] c.op = "set_network" -> [t EXCEPT !.network = c.value]
    [] c.op = "insert"      -> InsertRow(c, s, t, tx)
    [] c.op = "reset"       -> [t EXCEPT !.chain = <<>>]
    [] c.op = "tick"        -> IncrementTick(s, t)
    [] c.op = "epoch"       -> CreateEpoch(s, t, tx)
    [] c.op = "finalize"    -> [t EXCEPT !.epochs[First(s.epochs, c.day)].settled = TRUE]

-----------------------------------------------------------------------------
(* The calls, statement by statement.                                       *)

\* Everyone else's open snapshot is out of date.
Outdate(p) == stale' = [q \in Tasks |-> q # p /\ step[q] \in {"write", "credit", "commit"}]

\* The call returns, its local variables are gone.
Return(p) ==
  /\ step' = [step EXCEPT ![p] = "idle"]
  /\ call' = [call EXCEPT ![p] = NoCall]
  /\ seen' = [seen EXCEPT ![p] = NoTables]
  /\ view' = [view EXCEPT ![p] = NoTables]

\* Mutant of Call: transfer runs on the connection.
CallBare(p) ==
  /\ step[p] = "idle" /\ calls < MaxCalls
  /\ \E c \in Calls, tx \in BOOLEAN :
       /\ c.op = "transfer" => ~tx /\ c.n > 0
       /\ call' = [call EXCEPT ![p] = c]
       /\ intx' = [intx EXCEPT ![p] = tx]
  /\ step' = [step EXCEPT ![p] = "read"]
  /\ calls' = calls + 1
  /\ UNCHANGED <<tables, seen, view, stale, writer, counted, lost, last>>

\* A call, on the connection or inside with_transaction.  transfer refuses
\* the amount 0 and begins its own transaction.
Call(p) ==
  /\ step[p] = "idle" /\ calls < MaxCalls
  /\ \E c \in Calls, tx \in BOOLEAN :
       /\ c.op = "transfer" => tx /\ c.n > 0
       /\ call' = [call EXCEPT ![p] = c]
       /\ intx' = [intx EXCEPT ![p] = tx]
  /\ step' = [step EXCEPT ![p] = "read"]
  /\ calls' = calls + 1
  /\ UNCHANGED <<tables, seen, view, stale, writer, counted, lost, last>>

\* The queries of the call; the first one takes the transaction's snapshot.
Query(p) ==
  /\ step[p] = "read"
  /\ IF Rejected(call[p], tables) \/ NothingToDo(call[p], tables) THEN Return(p)
     ELSE /\ step' = [step EXCEPT ![p] = "write"]
          /\ seen' = [seen EXCEPT ![p] = tables]
          /\ view' = [view EXCEPT ![p] = tables]
          /\ UNCHANGED call
  /\ stale' = [stale EXCEPT ![p] = FALSE]
  /\ UNCHANGED <<tables, intx, writer, calls, counted, lost, last>>

\* The statement that writes, on its own.
WriteBare(p) ==
  /\ step[p] = "write" /\ ~intx[p] /\ writer = {}
  /\ ~Duplicate(call[p], seen[p], tables)
  /\ tables' = Written(call[p], seen[p], tables, FALSE)
  /\ Outdate(p)
  /\ Return(p)
  /\ counted' = counted + (IF call[p].op = "tick" THEN 1 ELSE 0)
  /\ lost' = (lost \/ (call[p].op = "tick" /\ seen[p].ticks # tables.ticks))
  /\ last' = call[p]
  /\ UNCHANGED <<intx, writer, calls>>

\* The statement that writes, in the transaction: SQLite's lock must be free
\* and the snapshot current.
WriteTx(p) ==
  /\ step[p] = "write" /\ intx[p] /\ writer = {} /\ ~stale[p]
  /\ ~Duplicate(call[p], seen[p], view[p])
  /\ writer' = {p}
  /\ view' = [view EXCEPT ![p] = Written(call[p], seen[p], @, TRUE)]
  /\ step' = [step EXCEPT ![p] = IF call[p].op = "transfer" THEN "credit" ELSE "commit"]
  /\ UNCHANGED <<tables, call, intx, seen, stale, calls, counted, lost, last>>

\* The second balance of a transfer.
CreditTx(p) ==
  /\ step[p] = "credit"
  /\ view' = [view EXCEPT ![p] = Credit(call[p], seen[p], @)]
  /\ step' = [step EXCEPT ![p] = "commit"]
  /\ UNCHANGED <<tables, call, intx, seen, stale, writer, calls, counted, lost, last>>

Commit(p) ==
  /\ step[p] = "commit"
  /\ tables' = view[p]
  /\ writer' = {}
  /\ Outdate(p)
  /\ Return(p)
  /\ counted' = counted + (IF call[p].op = "tick" THEN 1 ELSE 0)
  /\ last' = call[p]
  /\ UNCHANGED <<intx, calls, lost>>

\* The call ends with an error: a duplicate row, a lock that stays busy, a
\* snapshot out of date, an overflow that panics, an error of the closure
\* given to with_transaction, the end of the process.  An open transaction is
\* rolled back.
Fail(p) ==
  /\ step[p] # "idle"
  /\ Return(p)
  /\ stale' = [stale EXCEPT ![p] = FALSE]
  /\ writer' = writer \ {p}
  /\ UNCHANGED <<tables, intx, calls, counted, lost, last>>

Next ==
  \E p \in Tasks : Call(p) \/ Query(p) \/ WriteBare(p) \/ WriteTx(p) \/ CreditTx(p) \/ Commit(p) \/ Fail(p)

Spec == Init /\ [][Next]_vars

-----------------------------------------------------------------------------
\* The tables and the state of every call have their types; balances and tick
\* counts stay within u64 and u8.
TypeOK ==
  /\ tables \in Tables
  /\ call \in [Tasks -> Calls \cup {NoCall}]
  /\ intx \in [Tasks -> BOOLEAN]
  /\ step \in [Tasks -> {"idle", "read", "write", "credit", "commit"}]
  /\ seen \in [Tasks -> Tables]
  /\ view \in [Tasks -> Tables]
  /\ stale \in [Tasks -> BOOLEAN]
  /\ writer \subseteq Tasks
  /\ calls \in 0..MaxCalls
  /\ counted \in Nat
  /\ lost \in BOOLEAN
  /\ last \in Calls \cup {NoCall}

\* The stores implement the ledger of whole calls: what changes when a call
\* takes effect is all that this very call is to change.  A transfer moves its
\* amount completely or not at all and on balances nobody changed since it
\* checked them, a network once chosen stays, and a chain changes row by row.
Atomic == INSTANCE AtomicLedger WITH
  bal <- [a \in Accounts |-> Get(tables.bal, a)],
  network <- tables.network,
  chain <- tables.chain,
  last <- last,
  Opening <- [a \in Accounts |-> Get(Opening, a)]
RefinesAtomic == Atomic!Spec

\* insert_with_next_hash and get_current_or_create: a row that does not continue
\* the row before it, and the second epoch of a day, were written outside a
\* transaction.
SerialInTransactions ==
  /\ \A i \in DOMAIN tables.chain :
       tables.chain[i].tx => tables.chain[i].pre = IF i = 1 THEN <<>> ELSE tables.chain[i - 1].hash
  /\ \A i, j \in DOMAIN tables.epochs :
       i < j /\ tables.epochs[j].tx => tables.epochs[i].day < tables.epochs[j].day

\* increment_tick: the count is that of the calls that succeeded, unless one of
\* them wrote outside a transaction over a count it had not seen.
TicksCounted ==
  ~lost => tables.ticks = IF counted = 0 THEN <<>> ELSE <<counted % TickLimit>>
=============================================================================
