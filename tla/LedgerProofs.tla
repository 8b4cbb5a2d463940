---------------------------- MODULE LedgerProofs ----------------------------
(***************************************************************************)
(* The stores implement AtomicLedger, for any number of tasks, accounts and  *)
(* calls.                                                                   *)
(***************************************************************************)
EXTENDS Ledger, TLAPS

\* Some epoch is the one Latest chooses.
IsLatest(epochs, i) ==
  \A j \in DOMAIN epochs :
    epochs[j].day < epochs[i].day \/ (epochs[j].day = epochs[i].day /\ j <= i)
HasLatest(epochs) == epochs # <<>> => \E i \in DOMAIN epochs : IsLatest(epochs, i)

\* All a call writes, on tables nobody else has changed.
Effect(c, s) == IF c.op = "transfer" THEN Credit(c, s, Debit(c, s, s)) ELSE Written(c, s, s, TRUE)

-----------------------------------------------------------------------------
(* What the statements do to the tables.                                    *)

LEMMA SeqFacts ==
  ASSUME NEW S, NEW q \in Seq(S)
  PROVE  /\ Len(q) \in Nat /\ DOMAIN q = 1 .. Len(q)
         /\ q # <<>> <=> Len(q) > 0
         /\ \A i \in DOMAIN q : q[i] \in S
OBVIOUS

LEMMA CallFields ==
  ASSUME NEW c \in Calls
  PROVE  /\ c.op \in {"transfer", "set", "set_network", "insert", "finalize", "reset", "tick", "epoch"}
         /\ c.op = "transfer" => c.from \in Accounts /\ c.to \in Accounts /\ c.n \in Amounts
         /\ c.op = "set" => c.to \in Accounts /\ c.n \in Amounts
         /\ c.op = "set_network" => c.value \in Networks
         /\ c.op = "insert" => c.body \in Bodies
         /\ c.op = "finalize" => c.day \in Days
<1>1. CASE c \in Transfers
  BY <1>1 DEF Transfers
<1>2. CASE c \in [op : {"set"}, to : Accounts, n : Amounts]
  BY <1>2
<1>3. CASE c \in [op : {"set_network"}, value : Networks]
  BY <1>3
<1>4. CASE c \in [op : {"insert"}, body : Bodies]
  BY <1>4
<1>5. CASE c \in [op : {"finalize"}, day : Days]
  BY <1>5
<1>6. CASE c \in [op : {"reset", "tick", "epoch"}]
  BY <1>6
<1> QED
  BY <1>1, <1>2, <1>3, <1>4, <1>5, <1>6 DEF Calls

\* The fields of a call are all there is to it.
LEMMA CallShape ==
  ASSUME NEW c \in Calls
  PROVE  /\ c.op = "transfer" => c = [op |-> "transfer", from |-> c.from, to |-> c.to, n |-> c.n]
         /\ c.op = "set" => c = [op |-> "set", to |-> c.to, n |-> c.n]
         /\ c.op = "set_network" => c = [op |-> "set_network", value |-> c.value]
         /\ c.op = "insert" => c = [op |-> "insert", body |-> c.body]
         /\ c.op = "reset" => c = [op |-> "reset"]
<1>1. CASE c \in Transfers
  BY <1>1 DEF Transfers
<1>2. CASE c \in [op : {"set"}, to : Accounts, n : Amounts]
  BY <1>2
<1>3. CASE c \in [op : {"set_network"}, value : Networks]
  BY <1>3
<1>4. CASE c \in [op : {"insert"}, body : Bodies]
  BY <1>4
<1>5. CASE c \in [op : {"finalize"}, day : Days]
  BY <1>5
<1>6. CASE c \in [op : {"reset", "tick", "epoch"}]
  BY <1>6
<1> QED
  BY <1>1, <1>2, <1>3, <1>4, <1>5, <1>6 DEF Calls

\* A balance is read as a u64.
LEMMA GetType ==
  ASSUME NEW t \in Tables, NEW a \in Accounts
  PROVE  Get(t.bal, a) \in 0 .. (Limit - 1)
BY LedgerConstants DEF Get, Tables

LEMMA DebitType ==
  ASSUME NEW c \in Calls, c.op = "transfer", NEW s \in Tables, NEW t \in Tables, ~ Rejected(c, s)
  PROVE  Debit(c, s, t) \in Tables
<1>1. c.from \in Accounts /\ c.n \in Amounts
  BY CallFields
<1>2. Get(s.bal, c.from) \in 0 .. (Limit - 1)
  BY <1>1, GetType
<1>3. ~ (Get(s.bal, c.from) < c.n)
  BY DEF Rejected
<1>4. c.n \in 0 .. (Limit - 1)
  BY <1>1, LedgerConstants
<1>5. Get(s.bal, c.from) - c.n \in (-1) .. (Limit - 1)
  BY <1>2, <1>3, <1>4, LedgerConstants
<1> QED
  BY <1>1, <1>5 DEF Debit, Tables

LEMMA CreditType ==
  ASSUME NEW c \in Calls, c.op = "transfer", NEW s \in Tables, NEW t \in Tables
  PROVE  Credit(c, s, t) \in Tables
<1>1. c.to \in Accounts /\ c.n \in Amounts
  BY CallFields
<1>4. Get(s.bal, c.to) \in 0 .. (Limit - 1)
  BY <1>1, GetType
<1>5. c.n \in 0 .. (Limit - 1)
  BY <1>1, LedgerConstants
<1>2. Get(s.bal, c.to) + c.n \in Nat
  BY <1>4, <1>5, LedgerConstants
<1>3. (Get(s.bal, c.to) + c.n) % Limit \in (-1) .. (Limit - 1)
  BY <1>2, LedgerConstants
<1> QED
  BY <1>1, <1>3 DEF Credit, Tables

LEMMA LastHashType ==
  ASSUME NEW chain \in Seq(Rows)
  PROVE  LastHash(chain) \in Seq(Bodies)
<1>1. CASE chain = <<>>
  BY <1>1 DEF LastHash
<1>2. CASE chain # <<>>
  <2>1. Len(chain) \in DOMAIN chain
    BY <1>2, SeqFacts
  <2>2. chain[Len(chain)] \in Rows
    BY <2>1, SeqFacts
  <2> QED
    BY <1>2, <2>2 DEF LastHash, Rows
<1> QED
  BY <1>1, <1>2

LEMMA InsertType ==
  ASSUME NEW c \in Calls, c.op = "insert", NEW s \in Tables, NEW t \in Tables, NEW tx \in BOOLEAN
  PROVE  InsertRow(c, s, t, tx) \in Tables
<1> DEFINE row == [pre |-> LastHash(s.chain), hash |-> Append(LastHash(s.chain), c.body), tx |-> tx]
<1>1. LastHash(s.chain) \in Seq(Bodies) /\ c.body \in Bodies
  BY CallFields, LastHashType DEF Tables
<1>2. row \in Rows
  BY <1>1 DEF Rows
<1>3. Append(t.chain, row) \in Seq(Rows)
  BY <1>2 DEF Tables
<1>4. InsertRow(c, s, t, tx) = [t EXCEPT !.chain = Append(@, row)]
  BY DEF InsertRow
<1> HIDE DEF row
<1> QED
  BY <1>3, <1>4 DEF Tables

LEMMA TickType ==
  ASSUME NEW s \in Tables, NEW t \in Tables
  PROVE  IncrementTick(s, t) \in Tables
<1>1. CASE s.ticks = <<>>
  <2>1. 1 % TickLimit \in 0 .. (TickLimit - 1)
    BY LedgerConstants
  <2>2. Append(t.ticks, 1 % TickLimit) \in Seq(0 .. (TickLimit - 1))
    BY <2>1 DEF Tables
  <2> QED
    BY <1>1, <2>2 DEF IncrementTick, Tables
<1>2. CASE s.ticks # <<>>
  <2> DEFINE e == (s.ticks[1] + 1) % TickLimit
  <2>0. s.ticks \in Seq(0 .. (TickLimit - 1))
    BY DEF Tables
  <2>1. s.ticks[1] \in 0 .. (TickLimit - 1)
    <3>1. 1 \in DOMAIN s.ticks
      BY <1>2, <2>0, SeqFacts
    <3> QED
      BY <2>0, <3>1, SeqFacts
  <2>2. e \in 0 .. (TickLimit - 1)
    BY <2>1, LedgerConstants
  <2> HIDE DEF e
  <2>3. t.ticks \in Seq(0 .. (TickLimit - 1))
    BY DEF Tables
  <2>4. [t.ticks EXCEPT ![1] = e] \in Seq(0 .. (TickLimit - 1))
    <3>1. CASE 1 \in DOMAIN t.ticks
      BY <2>2, <2>3, <3>1
    <3>2. CASE 1 \notin DOMAIN t.ticks
      <4>1. [t.ticks EXCEPT ![1] = e] = t.ticks
        BY <2>3, <3>2
      <4> QED
        BY <2>3, <4>1
    <3> QED
      BY <3>1, <3>2
  <2>5. IncrementTick(s, t) = [t EXCEPT !.ticks = [t.ticks EXCEPT ![1] = e]]
    BY <1>2 DEF IncrementTick, e, Tables
  <2> QED
    BY <2>4, <2>5 DEF Tables
<1> QED
  BY <1>1, <1>2

LEMMA LatestDay ==
  ASSUME NEW epochs \in Seq(Epochs), epochs # <<>>, HasLatest(epochs)
  PROVE  /\ Latest(epochs) \in DOMAIN epochs
         /\ \A j \in DOMAIN epochs : epochs[j].day <= epochs[Latest(epochs)].day
         /\ epochs[Latest(epochs)].day \in Nat
<1>1. \E i \in DOMAIN epochs : IsLatest(epochs, i)
  BY DEF HasLatest
<1>2. Latest(epochs) \in DOMAIN epochs /\ IsLatest(epochs, Latest(epochs))
  BY <1>1 DEF Latest, IsLatest
<1>3. \A j \in DOMAIN epochs : epochs[j].day \in Nat
  <2>1. \A j \in DOMAIN epochs : epochs[j] \in Epochs
    BY SeqFacts
  <2> QED
    BY <2>1 DEF Epochs
<1> QED
  BY <1>2, <1>3 DEF IsLatest

\* A new epoch may become the latest one.
LEMMA AppendLatest ==
  ASSUME NEW epochs \in Seq(Epochs), HasLatest(epochs), NEW e \in Epochs
  PROVE  Append(epochs, e) \in Seq(Epochs) /\ HasLatest(Append(epochs, e))
<1> DEFINE new == Append(epochs, e)
<1>1. /\ new \in Seq(Epochs) /\ Len(new) = Len(epochs) + 1 /\ Len(epochs) \in Nat
      /\ DOMAIN new = 1 .. Len(new) /\ DOMAIN epochs = 1 .. Len(epochs)
      /\ \A i \in DOMAIN epochs : new[i] = epochs[i] /\ epochs[i].day \in Nat
      /\ new[Len(new)] = e /\ e.day \in Nat
  <2>1. /\ new \in Seq(Epochs) /\ Len(new) = Len(epochs) + 1 /\ Len(epochs) \in Nat
        /\ \A i \in 1 .. Len(epochs) : new[i] = epochs[i]
        /\ new[Len(epochs) + 1] = e
    OBVIOUS
  <2>2. \A i \in DOMAIN epochs : epochs[i] \in Epochs
    BY SeqFacts
  <2>3. DOMAIN new = 1 .. Len(new) /\ DOMAIN epochs = 1 .. Len(epochs)
    BY <2>1, SeqFacts
  <2>4. e.day \in Nat /\ \A i \in DOMAIN epochs : epochs[i].day \in Nat
    BY <2>2 DEF Epochs
  <2> HIDE DEF new
  <2> QED
    BY <2>1, <2>3, <2>4
<1>2. CASE epochs = <<>>
  <2>1. IsLatest(new, 1)
    BY <1>1, <1>2 DEF IsLatest
  <2> QED
    BY <1>1, <1>2, <2>1 DEF HasLatest
<1>3. CASE epochs # <<>>
  <2>1. PICK i \in DOMAIN epochs : IsLatest(epochs, i)
    BY <1>3 DEF HasLatest
  <2> HIDE DEF new
  <2>2. CASE e.day < epochs[i].day
    <3>1. IsLatest(new, i)
      BY <1>1, <2>1, <2>2 DEF IsLatest
    <3> QED
      BY <1>1, <3>1 DEF HasLatest, new
  <2>3. CASE e.day >= epochs[i].day
    <3>1. IsLatest(new, Len(new))
      BY <1>1, <2>1, <2>3 DEF IsLatest
    <3> QED
      BY <1>1, <3>1 DEF HasLatest, new
  <2> QED
    BY <1>1, <2>2, <2>3
<1> QED
  BY <1>1, <1>2, <1>3

\* finalize changes no day.
LEMMA SettleLatest ==
  ASSUME NEW epochs \in Seq(Epochs), HasLatest(epochs), NEW k
  PROVE  /\ [epochs EXCEPT ![k].settled = TRUE] \in Seq(Epochs)
         /\ HasLatest([epochs EXCEPT ![k].settled = TRUE])
         /\ DOMAIN [epochs EXCEPT ![k].settled = TRUE] = DOMAIN epochs
         /\ \A i \in DOMAIN epochs :
              /\ [epochs EXCEPT ![k].settled = TRUE][i].day = epochs[i].day
              /\ [epochs EXCEPT ![k].settled = TRUE][i].tx = epochs[i].tx
<1> DEFINE new == [epochs EXCEPT ![k].settled = TRUE]
<1>1. CASE k \notin DOMAIN epochs
  <2>1. new = epochs
    BY <1>1
  <2> QED
    BY <2>1
<1>2. CASE k \in DOMAIN epochs
  <2> DEFINE e == [epochs[k] EXCEPT !.settled = TRUE]
  <2>0. epochs[k] \in Epochs
    BY <1>2, SeqFacts
  <2>1. e \in Epochs /\ e.day = epochs[k].day /\ e.tx = epochs[k].tx
    BY <2>0 DEF Epochs
  <2>2. new = [epochs EXCEPT ![k] = e]
    OBVIOUS
  <2> HIDE DEF e
  <2>3. /\ new \in Seq(Epochs) /\ DOMAIN new = DOMAIN epochs
        /\ \A i \in DOMAIN epochs : new[i].day = epochs[i].day /\ new[i].tx = epochs[i].tx
    <3>1. k \in 1 .. Len(epochs) /\ DOMAIN epochs = 1 .. Len(epochs)
      BY <1>2, SeqFacts
    <3>4. /\ [epochs EXCEPT ![k] = e] \in Seq(Epochs)
          /\ DOMAIN [epochs EXCEPT ![k] = e] = DOMAIN epochs
      BY <2>1, <3>1
    <3>2. new \in Seq(Epochs) /\ DOMAIN new = DOMAIN epochs
      <4> HIDE DEF new
      <4> QED
        BY <2>2, <3>4
    <3>3. \A i \in DOMAIN epochs : new[i] = IF i = k THEN e ELSE epochs[i]
      BY <2>2
    <3> HIDE DEF new
    <3> QED
      BY <2>1, <3>2, <3>3
  <2> HIDE DEF new
  <2>4. \A i \in DOMAIN epochs : IsLatest(epochs, i) => IsLatest(new, i)
    BY <2>3 DEF IsLatest
  <2>5. HasLatest(new)
    BY <2>3, <2>4 DEF HasLatest
  <2> QED
    BY <2>3, <2>5 DEF new
<1> QED
  BY <1>1, <1>2

LEMMA EpochType ==
  ASSUME NEW s \in Tables, NEW t \in Tables, NEW tx \in BOOLEAN,
         HasLatest(s.epochs), HasLatest(t.epochs)
  PROVE  CreateEpoch(s, t, tx) \in Tables /\ HasLatest(CreateEpoch(s, t, tx).epochs)
<1> DEFINE e == [settled |-> FALSE, tx |-> tx,
                 day |-> IF s.epochs = <<>> THEN 0 ELSE s.epochs[Latest(s.epochs)].day + 1]
<1>1. s.epochs \in Seq(Epochs) /\ t.epochs \in Seq(Epochs)
  BY DEF Tables
<1>2. e \in Epochs
  BY <1>1, LatestDay DEF Epochs
<1>3. CreateEpoch(s, t, tx) = [t EXCEPT !.epochs = Append(t.epochs, e)]
  BY DEF CreateEpoch
<1> HIDE DEF e
<1>4. Append(t.epochs, e) \in Seq(Epochs) /\ HasLatest(Append(t.epochs, e))
  BY <1>1, <1>2, AppendLatest
<1>5. CreateEpoch(s, t, tx) \in Tables
  BY <1>3, <1>4 DEF Tables
<1>6. CreateEpoch(s, t, tx).epochs = Append(t.epochs, e)
  BY <1>3 DEF Tables
<1> QED
  BY <1>4, <1>5, <1>6

\* Tables have their type and a latest epoch.
Sound(t) == t \in Tables /\ HasLatest(t.epochs)

LEMMA WrittenSound ==
  ASSUME NEW c \in Calls, NEW s, NEW t, Sound(s), Sound(t), NEW tx \in BOOLEAN, ~ Rejected(c, s)
  PROVE  Sound(Written(c, s, t, tx))
<1> DEFINE new == Written(c, s, t, tx)
<1>0. s \in Tables /\ t \in Tables /\ HasLatest(s.epochs) /\ HasLatest(t.epochs)
  BY DEF Sound
<1>1. CASE c.op = "transfer"
  <2>1. new = Debit(c, s, t)
    BY <1>1 DEF Written
  <2>2. new.epochs = t.epochs
    BY <1>0, <2>1 DEF Debit, Tables
  <2> QED
    BY <1>0, <1>1, <2>1, <2>2, DebitType DEF Sound
<1>2. CASE c.op = "set"
  <2>1. new = [t EXCEPT !.bal[c.to] = c.n]
    BY <1>2 DEF Written
  <2>2. c.to \in Accounts /\ c.n \in Amounts
    BY <1>2, CallFields
  <2>5. c.n \in 0 .. (Limit - 1)
    BY <2>2, LedgerConstants
  <2>3. c.n \in (-1) .. (Limit - 1)
    BY <2>5, LedgerConstants
  <2> HIDE DEF new
  <2>4. new \in Tables /\ new.epochs = t.epochs
    BY <1>0, <2>1, <2>2, <2>3 DEF Tables
  <2> QED
    BY <1>0, <2>4 DEF Sound, new
<1>3. CASE c.op = "set_network"
  <2>1. new = [t EXCEPT !.network = c.value]
    BY <1>3 DEF Written
  <2>2. c.value \in Networks
    BY <1>3, CallFields
  <2> HIDE DEF new
  <2>3. new \in Tables /\ new.epochs = t.epochs
    BY <1>0, <2>1, <2>2 DEF Tables
  <2> QED
    BY <1>0, <2>3 DEF Sound, new
<1>4. CASE c.op = "insert"
  <2>1. new = InsertRow(c, s, t, tx)
    BY <1>4 DEF Written
  <2>2. new.epochs = t.epochs
    BY <1>0, <2>1 DEF InsertRow, Tables
  <2> QED
    BY <1>0, <1>4, <2>1, <2>2, InsertType DEF Sound
<1>5. CASE c.op = "reset"
  <2>1. new = [t EXCEPT !.chain = <<>>]
    BY <1>5 DEF Written
  <2> HIDE DEF new
  <2>3. <<>> \in Seq(Rows)
    OBVIOUS
  <2>2. new \in Tables /\ new.epochs = t.epochs
    BY <1>0, <2>1, <2>3 DEF Tables
  <2> QED
    BY <1>0, <2>2 DEF Sound, new
<1>6. CASE c.op = "tick"
  <2>1. new = IncrementTick(s, t)
    BY <1>6 DEF Written
  <2>2. new.epochs = t.epochs
    BY <1>0, <2>1 DEF IncrementTick, Tables
  <2> QED
    BY <1>0, <2>1, <2>2, TickType DEF Sound
<1>7. CASE c.op = "epoch"
  <2>1. new = CreateEpoch(s, t, tx)
    BY <1>7 DEF Written
  <2> QED
    BY <1>0, <2>1, EpochType DEF Sound
<1>8. CASE c.op = "finalize"
  <2> DEFINE k == First(s.epochs, c.day)
  <2>1. new = [t EXCEPT !.epochs[k].settled = TRUE]
    BY <1>8 DEF Written
  <2> HIDE DEF k
  <2>2. new = [t EXCEPT !.epochs = [t.epochs EXCEPT ![k].settled = TRUE]]
    BY <2>1
  <2>3. t.epochs \in Seq(Epochs)
    BY <1>0 DEF Tables
  <2> DEFINE e == [t.epochs EXCEPT ![k].settled = TRUE]
  <2>4. e \in Seq(Epochs) /\ HasLatest(e)
    BY <1>0, <2>3, SettleLatest
  <2> HIDE DEF e
  <2>5. new = [t EXCEPT !.epochs = e]
    BY <2>2 DEF e
  <2>6. new \in Tables /\ new.epochs = e
    BY <1>0, <2>4, <2>5 DEF Tables
  <2> QED
    BY <2>4, <2>6 DEF Sound
<1> QED
  BY <1>1, <1>2, <1>3, <1>4, <1>5, <1>6, <1>7, <1>8, CallFields

LEMMA CreditSound ==
  ASSUME NEW c \in Calls, c.op = "transfer", NEW s, NEW t, Sound(s), Sound(t)
  PROVE  Sound(Credit(c, s, t))
<1>1. Credit(c, s, t) \in Tables
  BY CreditType DEF Sound
<1>2. Credit(c, s, t).epochs = t.epochs
  BY DEF Credit, Sound, Tables
<1> QED
  BY <1>1, <1>2 DEF Sound

-----------------------------------------------------------------------------
(* The inductive invariant.                                                 *)

\* What a call knows at each of its steps.  In a transaction, what it found is
\* what the tables hold, unless SQLite will refuse its write; once it has
\* written, it is the only writer.
CallOK(p) ==
  /\ step[p] # "idle" => call[p] \in Calls /\ (call[p].op = "transfer" => intx[p] /\ call[p].n > 0)
  /\ step[p] \in {"write", "credit", "commit"} => ~ Rejected(call[p], seen[p])
  /\ step[p] = "write" /\ intx[p] /\ ~ stale[p] => seen[p] = tables /\ view[p] = tables
  /\ step[p] \in {"credit", "commit"} => intx[p] /\ writer = {p} /\ seen[p] = tables
  /\ step[p] = "credit" => call[p].op = "transfer" /\ view[p] = Debit(call[p], tables, tables)
  /\ step[p] = "commit" => view[p] = Effect(call[p], tables)

SoundInv == Sound(tables) /\ \A p \in Tasks : Sound(seen[p]) /\ Sound(view[p])
IInv == TypeOK /\ SoundInv /\ \A p \in Tasks : CallOK(p)

LEMMA NoTablesSound == Sound(NoTables)
<1>1. NoTables \in Tables
  BY LedgerConstants DEF NoTables, Tables
<1> QED
  BY <1>1 DEF Sound, HasLatest, NoTables

LEMMA InitIInv == Init => IInv
<1> SUFFICES ASSUME Init PROVE IInv
  OBVIOUS
<1>1. Sound(NoTables) /\ NoTables \in Tables
  BY NoTablesSound DEF Sound
<1>2. TypeOK
  <2>1. 0 \in 0 .. MaxCalls
    BY LedgerConstants
  <2>2. tables \in Tables /\ seen \in [Tasks -> Tables] /\ view \in [Tasks -> Tables]
    BY <1>1 DEF Init
  <2>3. call \in [Tasks -> Calls \cup {NoCall}]
    BY DEF Init
  <2> QED
    BY <2>1, <2>2, <2>3 DEF Init, TypeOK
<1>3. SoundInv
  BY <1>1 DEF Init, SoundInv
<1>4. \A p \in Tasks : CallOK(p)
  BY DEF Init, CallOK
<1> QED
  BY <1>2, <1>3, <1>4 DEF IInv

\* A task that returns, or has just called, knows nothing.
LEMMA FreshOK ==
  ASSUME NEW p \in Tasks, step'[p] = "idle"
  PROVE  CallOK(p)'
BY DEF CallOK

\* A task that takes no step keeps what it knows, as long as the tables and the
\* writer stay the same for it.
LEMMA OthersOK ==
  ASSUME NEW q \in Tasks, CallOK(q),
         call'[q] = call[q], intx'[q] = intx[q], step'[q] = step[q],
         seen'[q] = seen[q], view'[q] = view[q],
         step[q] = "write" /\ ~ stale'[q] => ~ stale[q] /\ tables' = tables,
         step[q] \in {"credit", "commit"} => writer' = writer /\ tables' = tables
  PROVE  CallOK(q)'
BY DEF CallOK

\* Where a task writes, no other one has.
LEMMA OneWriter ==
  ASSUME IInv, NEW q \in Tasks, step[q] \in {"credit", "commit"}
  PROVE  writer = {q}
BY DEF IInv, CallOK

LEMMA CallIInv ==
  ASSUME IInv, NEW p \in Tasks, Call(p)
  PROVE  IInv'
<1>1. TypeOK'
  <2>1. calls' \in 0 .. MaxCalls
    BY LedgerConstants DEF Call, IInv, TypeOK
  <2> QED
    BY <2>1 DEF Call, IInv, TypeOK
<1>2. SoundInv'
  BY DEF Call, IInv, SoundInv
<1>3. ASSUME NEW q \in Tasks PROVE CallOK(q)'
  <2>1. CASE q = p
    BY <2>1 DEF Call, IInv, TypeOK, CallOK
  <2>2. CASE q # p
    BY <2>2, OthersOK DEF Call, IInv, TypeOK
  <2> QED
    BY <2>1, <2>2
<1> QED
  BY <1>1, <1>2, <1>3 DEF IInv

LEMMA ReturnType ==
  ASSUME IInv, NEW p \in Tasks, Return(p)
  PROVE  /\ step' \in [Tasks -> {"idle", "read", "write", "credit", "commit"}]
         /\ call' \in [Tasks -> Calls \cup {NoCall}]
         /\ seen' \in [Tasks -> Tables] /\ view' \in [Tasks -> Tables]
         /\ \A q \in Tasks : Sound(seen'[q]) /\ Sound(view'[q])
         /\ step'[p] = "idle"
         /\ \A q \in Tasks \ {p} : /\ call'[q] = call[q] /\ step'[q] = step[q]
                                   /\ seen'[q] = seen[q] /\ view'[q] = view[q]
<1>1. NoTables \in Tables /\ Sound(NoTables)
  BY NoTablesSound DEF Sound
<1> HIDE DEF NoTables
<1>2. /\ step' = [step EXCEPT ![p] = "idle"] /\ call' = [call EXCEPT ![p] = NoCall]
      /\ seen' = [seen EXCEPT ![p] = NoTables] /\ view' = [view EXCEPT ![p] = NoTables]
  BY DEF Return
<1> QED
  BY <1>1, <1>2 DEF IInv, TypeOK, SoundInv

LEMMA QueryIInv ==
  ASSUME IInv, NEW p \in Tasks, Query(p)
  PROVE  IInv'
<1>0. CASE Rejected(call[p], tables) \/ NothingToDo(call[p], tables)
  <2>1. Return(p) /\ stale' = [stale EXCEPT ![p] = FALSE]
        /\ UNCHANGED <<tables, intx, writer, calls, counted, lost, last>>
    BY <1>0 DEF Query
  <2>2. TypeOK'
    BY <2>1, ReturnType DEF IInv, TypeOK
  <2>3. SoundInv'
    BY <2>1, ReturnType DEF IInv, SoundInv
  <2>4. ASSUME NEW q \in Tasks PROVE CallOK(q)'
    <3>1. CASE q = p
      BY <2>1, <3>1, ReturnType, FreshOK
    <3>2. CASE q # p
      <4>1. stale'[q] = stale[q] /\ CallOK(q)
        BY <2>1, <3>2 DEF IInv, TypeOK
      <4> QED
        BY <2>1, <3>2, <4>1, ReturnType, OthersOK
    <3> QED
      BY <3>1, <3>2
  <2> QED
    BY <2>2, <2>3, <2>4 DEF IInv
<1>1. CASE ~ (Rejected(call[p], tables) \/ NothingToDo(call[p], tables))
  <2>1. /\ step' = [step EXCEPT ![p] = "write"]
        /\ seen' = [seen EXCEPT ![p] = tables] /\ view' = [view EXCEPT ![p] = tables]
        /\ stale' = [stale EXCEPT ![p] = FALSE]
        /\ UNCHANGED <<call, tables, intx, writer, calls, counted, lost, last>>
        /\ step[p] = "read"
    BY <1>1 DEF Query
  <2>2. TypeOK'
    BY <2>1 DEF IInv, TypeOK
  <2>3. SoundInv'
    BY <2>1 DEF IInv, SoundInv, TypeOK
  <2>4. ASSUME NEW q \in Tasks PROVE CallOK(q)'
    <3>1. CASE q = p
      BY <1>1, <2>1, <3>1 DEF IInv, TypeOK, CallOK
    <3>2. CASE q # p
      BY <2>1, <3>2, OthersOK DEF IInv, TypeOK
    <3> QED
      BY <3>1, <3>2
  <2> QED
    BY <2>2, <2>3, <2>4 DEF IInv
<1> QED
  BY <1>0, <1>1

\* When p commits, or writes on its own, nobody else has written, and every
\* other transaction that has found something is out of date.
LEMMA Publish ==
  ASSUME IInv, NEW p \in Tasks, Return(p), Outdate(p), Sound(tables'),
         writer = {} \/ writer = {p}, writer' = {},
         UNCHANGED <<intx, calls>>, counted' \in Nat, lost' \in BOOLEAN,
         last' \in Calls
  PROVE  IInv'
<1>1. stale' \in [Tasks -> BOOLEAN]
      /\ \A q \in Tasks \ {p} : step[q] = "write" => stale'[q]
  BY DEF Outdate
<1>2. TypeOK'
  BY <1>1, ReturnType DEF IInv, TypeOK, Sound
<1>3. SoundInv'
  BY ReturnType DEF SoundInv
<1>4. ASSUME NEW q \in Tasks PROVE CallOK(q)'
  <2>1. CASE q = p
    BY <2>1, ReturnType, FreshOK
  <2>2. CASE q # p
    <3>1. step[q] \notin {"credit", "commit"}
      BY <2>2, OneWriter
    <3>2. CallOK(q)
      BY DEF IInv
    <3> QED
      BY <1>1, <2>2, <3>1, <3>2, ReturnType, OthersOK
  <2> QED
    BY <2>1, <2>2
<1> QED
  BY <1>2, <1>3, <1>4 DEF IInv

LEMMA WriteBareIInv ==
  ASSUME IInv, NEW p \in Tasks, WriteBare(p)
  PROVE  IInv'
<1>1. call[p] \in Calls /\ ~ Rejected(call[p], seen[p]) /\ Sound(seen[p]) /\ Sound(tables)
  BY DEF IInv, CallOK, WriteBare, SoundInv
<1>2. Sound(tables')
  BY <1>1, WrittenSound DEF WriteBare
<1>3. counted' \in Nat /\ lost' \in BOOLEAN /\ last' \in Calls
  BY <1>1 DEF WriteBare, IInv, TypeOK
<1> QED
  BY <1>2, <1>3, Publish DEF WriteBare

LEMMA CommitIInv ==
  ASSUME IInv, NEW p \in Tasks, Commit(p)
  PROVE  IInv'
<1>1. Sound(tables') /\ writer = {p} /\ call[p] \in Calls
  BY OneWriter DEF Commit, IInv, SoundInv, CallOK
<1>2. counted' \in Nat /\ lost' \in BOOLEAN /\ last' \in Calls
  BY <1>1 DEF Commit, IInv, TypeOK
<1> QED
  BY <1>1, <1>2, Publish DEF Commit

LEMMA WriteTxIInv ==
  ASSUME IInv, NEW p \in Tasks, WriteTx(p)
  PROVE  IInv'
<1> DEFINE new == Written(call[p], seen[p], view[p], TRUE)
<1>1. /\ call[p] \in Calls /\ ~ Rejected(call[p], seen[p])
      /\ seen[p] = tables /\ view[p] = tables
      /\ Sound(tables)
  BY DEF IInv, CallOK, WriteTx, SoundInv
<1>2. Sound(new)
  BY <1>1, WrittenSound
<1>3. /\ writer = {} /\ writer' = {p} /\ intx[p]
      /\ view' = [view EXCEPT ![p] = new]
      /\ step' = [step EXCEPT ![p] = IF call[p].op = "transfer" THEN "credit" ELSE "commit"]
      /\ UNCHANGED <<tables, call, intx, seen, stale, calls, counted, lost, last>>
  BY DEF WriteTx, IInv, TypeOK
<1>4. /\ call[p].op = "transfer" => new = Debit(call[p], tables, tables)
      /\ call[p].op # "transfer" => new = Effect(call[p], tables)
  <2>1. new = Written(call[p], tables, tables, TRUE)
    BY <1>1
  <2>2. call[p].op = "transfer" => Written(call[p], tables, tables, TRUE) = Debit(call[p], tables, tables)
    BY DEF Written
  <2>3. call[p].op # "transfer" => Written(call[p], tables, tables, TRUE) = Effect(call[p], tables)
    BY DEF Effect
  <2> HIDE DEF new
  <2> QED
    BY <2>1, <2>2, <2>3
<1> HIDE DEF new
<1>5. TypeOK'
  BY <1>2, <1>3 DEF IInv, TypeOK, Sound
<1>6. SoundInv'
  BY <1>2, <1>3 DEF IInv, SoundInv, TypeOK
<1>7. ASSUME NEW q \in Tasks PROVE CallOK(q)'
  <2>1. CASE q = p
    <3>0. CallOK(p) /\ step[p] = "write"
      BY DEF IInv, WriteTx
    <3>1. CASE call[p].op = "transfer"
      <4>1. step'[p] = "credit" /\ view'[p] = Debit(call[p], tables, tables)
        BY <1>3, <1>4, <3>1 DEF IInv, TypeOK
      <4> QED
        BY <1>1, <1>3, <2>1, <3>0, <3>1, <4>1 DEF CallOK
    <3>2. CASE call[p].op # "transfer"
      <4>1. step'[p] = "commit" /\ view'[p] = Effect(call[p], tables)
        BY <1>3, <1>4, <3>2 DEF IInv, TypeOK
      <4>2. Effect(call[p], tables)' = Effect(call[p], tables)
        BY <1>3 DEF Effect, Credit, Debit, Written, InsertRow, IncrementTick, CreateEpoch
      <4> QED
        BY <1>1, <1>3, <2>1, <3>0, <3>2, <4>1, <4>2 DEF CallOK
    <3> QED
      BY <3>1, <3>2
  <2>2. CASE q # p
    <3>1. step[q] \notin {"credit", "commit"} /\ CallOK(q)
      BY <1>3, OneWriter DEF IInv
    <3> QED
      BY <1>3, <2>2, <3>1, OthersOK DEF IInv, TypeOK
  <2> QED
    BY <2>1, <2>2
<1> QED
  BY <1>5, <1>6, <1>7 DEF IInv

LEMMA CreditTxIInv ==
  ASSUME IInv, NEW p \in Tasks, CreditTx(p)
  PROVE  IInv'
<1> DEFINE new == Credit(call[p], seen[p], view[p])
<1>1. /\ call[p] \in Calls /\ call[p].op = "transfer" /\ seen[p] = tables
      /\ view[p] = Debit(call[p], tables, tables)
      /\ Sound(seen[p]) /\ Sound(view[p])
  BY DEF IInv, CallOK, CreditTx, SoundInv
<1>2. Sound(new)
  BY <1>1, CreditSound
<1>3. new = Effect(call[p], tables)
  BY <1>1 DEF Effect
<1>4. /\ step[p] = "credit"
      /\ view' = [view EXCEPT ![p] = new] /\ step' = [step EXCEPT ![p] = "commit"]
      /\ UNCHANGED <<tables, call, intx, seen, stale, writer, calls, counted, lost, last>>
  BY DEF CreditTx, IInv, TypeOK
<1> HIDE DEF new
<1>5. TypeOK'
  BY <1>2, <1>4 DEF IInv, TypeOK, Sound
<1>6. SoundInv'
  BY <1>2, <1>4 DEF IInv, SoundInv, TypeOK
<1>7. ASSUME NEW q \in Tasks PROVE CallOK(q)'
  <2>1. CASE q = p
    BY <1>3, <1>4, <2>1 DEF IInv, TypeOK, CallOK
  <2>2. CASE q # p
    BY <1>4, <2>2, OthersOK DEF IInv, TypeOK
  <2> QED
    BY <2>1, <2>2
<1> QED
  BY <1>5, <1>6, <1>7 DEF IInv

LEMMA FailIInv ==
  ASSUME IInv, NEW p \in Tasks, Fail(p)
  PROVE  IInv'
<1>1. /\ Return(p) /\ stale' = [stale EXCEPT ![p] = FALSE] /\ writer' = writer \ {p}
      /\ UNCHANGED <<tables, intx, calls, counted, lost, last>>
  BY DEF Fail
<1>2. TypeOK'
  BY <1>1, ReturnType DEF IInv, TypeOK
<1>3. SoundInv'
  BY <1>1, ReturnType DEF IInv, SoundInv
<1>4. ASSUME NEW q \in Tasks PROVE CallOK(q)'
  <2>1. CASE q = p
    BY <1>1, <2>1, ReturnType, FreshOK
  <2>2. CASE q # p
    <3>1. CallOK(q) /\ stale'[q] = stale[q]
      BY <1>1, <2>2 DEF IInv, TypeOK
    <3>2. step[q] \in {"credit", "commit"} => writer' = writer
      BY <1>1, <2>2, OneWriter
    <3> QED
      BY <1>1, <2>2, <3>1, <3>2, ReturnType, OthersOK
  <2> QED
    BY <2>1, <2>2
<1> QED
  BY <1>2, <1>3, <1>4 DEF IInv

LEMMA StepIInv == IInv /\ [Next]_vars => IInv'
<1> SUFFICES ASSUME IInv, [Next]_vars PROVE IInv'
  OBVIOUS
<1>1. CASE UNCHANGED vars
  BY <1>1 DEF IInv, TypeOK, SoundInv, CallOK, vars
<1>2. CASE Next
  BY <1>2, CallIInv, QueryIInv, WriteBareIInv, WriteTxIInv, CreditTxIInv, CommitIInv, FailIInv DEF Next
<1> QED
  BY <1>1, <1>2

LEMMA InvariantHolds == Spec => []IInv
BY InitIInv, StepIInv, PTL DEF Spec

\* The tables and the state of every call of the stores keep their types:
\* balances and tick counts stay within u64 and u8 whatever calls overlap.
THEOREM TypeCorrect == Spec => []TypeOK
<1>1. IInv => TypeOK
  BY DEF IInv
<1> QED
  BY <1>1, InvariantHolds, PTL

-----------------------------------------------------------------------------
(* Every step is a step of AtomicLedger, or none of its business.           *)

Balances(t) == [a \in Accounts |-> Get(t.bal, a)]

\* Debit and Credit together are a transfer, or an account that pays itself.
LEMMA TransferIsAtomic ==
  ASSUME NEW c \in Calls, c.op = "transfer", c.n > 0, Sound(tables), ~ Rejected(c, tables),
         tables' = Credit(c, tables, Debit(c, tables, tables)), last' = c
  PROVE  Atomic!Next
<1>1. c.from \in Accounts /\ c.to \in Accounts /\ c.n \in Amounts /\ tables \in Tables
  BY CallFields DEF Sound
<1>2. /\ Get(tables.bal, c.from) \in 0 .. (Limit - 1) /\ Get(tables.bal, c.to) \in 0 .. (Limit - 1)
      /\ c.n \in 0 .. (Limit - 1) /\ Get(tables.bal, c.from) >= c.n
  <2>1. Get(tables.bal, c.from) \in 0 .. (Limit - 1) /\ Get(tables.bal, c.to) \in 0 .. (Limit - 1)
    BY <1>1, GetType
  <2>2. c.n \in 0 .. (Limit - 1)
    BY <1>1, LedgerConstants
  <2>3. ~ (Get(tables.bal, c.from) < c.n)
    BY DEF Rejected
  <2> QED
    BY <2>1, <2>2, <2>3, LedgerConstants
<1> DEFINE less == Get(tables.bal, c.from) - c.n
           more == (Get(tables.bal, c.to) + c.n) % Limit
<1>3. less # -1 /\ more # -1
  <2>1. more \in 0 .. (Limit - 1)
    <3>1. Get(tables.bal, c.to) + c.n \in Nat
      BY <1>2, LedgerConstants
    <3> QED
      BY <3>1, LedgerConstants
  <2> QED
    BY <1>2, <2>1, LedgerConstants
<1>4. tables' = [tables EXCEPT !.bal = [[tables.bal EXCEPT ![c.from] = less] EXCEPT ![c.to] = more]]
  BY <1>1 DEF Debit, Credit, Tables
<1> HIDE DEF less, more
<1>5. UNCHANGED <<tables.network, tables.chain>>
      /\ tables'.bal = [[tables.bal EXCEPT ![c.from] = less] EXCEPT ![c.to] = more]
  BY <1>1, <1>4 DEF Tables
<1>6. Balances(tables)' = [[Balances(tables) EXCEPT ![c.from] = less] EXCEPT ![c.to] = more]
  BY <1>1, <1>3, <1>5 DEF Balances, Get, Tables
<1>7. Balances(tables)[c.from] = Get(tables.bal, c.from) /\ Balances(tables)[c.to] = Get(tables.bal, c.to)
  BY <1>1 DEF Balances
<1>10. last' = [op |-> "transfer", from |-> c.from, to |-> c.to, n |-> c.n]
  BY CallShape
<1>8. CASE c.from # c.to
  <2>1. Atomic!Transfer(c.from, c.to, c.n)
    BY <1>2, <1>5, <1>6, <1>7, <1>8, <1>10 DEF Atomic!Transfer, Balances, less, more
  <2> QED
    BY <1>1, <2>1 DEF Atomic!Next
<1>9. CASE c.from = c.to
  <2>1. Atomic!PayItself(c.from, c.n)
    BY <1>2, <1>5, <1>6, <1>7, <1>9, <1>10 DEF Atomic!PayItself, Balances, more
  <2> QED
    BY <1>1, <2>1 DEF Atomic!Next
<1> QED
  BY <1>8, <1>9

\* Any other statement is one step, in a transaction or on its own; tick counts
\* and epochs are not part of AtomicLedger.
LEMMA WrittenIsAtomic ==
  ASSUME NEW c \in Calls, c.op # "transfer", NEW s, Sound(s), Sound(tables), NEW tx \in BOOLEAN,
         ~ Duplicate(c, s, tables), tx => s = tables,
         tables' = Written(c, s, tables, tx), last' = c
  PROVE  Atomic!Next
<1>0. tables \in Tables /\ s \in Tables
  BY DEF Sound
<1>1. CASE c.op = "set"
  <2>1. c.to \in Accounts /\ c.n \in Amounts
    BY <1>1, CallFields
  <2>2. c.n # -1
    <3>1. c.n \in 0 .. (Limit - 1)
      BY <2>1, LedgerConstants
    <3> QED
      BY <3>1, LedgerConstants
  <2>3. tables' = [tables EXCEPT !.bal = [tables.bal EXCEPT ![c.to] = c.n]]
    BY <1>1 DEF Written
  <2>4. UNCHANGED <<tables.network, tables.chain>> /\ tables'.bal = [tables.bal EXCEPT ![c.to] = c.n]
    BY <1>0, <2>3 DEF Tables
  <2>5. Balances(tables)' = [Balances(tables) EXCEPT ![c.to] = c.n]
    BY <1>0, <2>1, <2>2, <2>4 DEF Balances, Get, Tables
  <2>6. Atomic!SetBalance(c.to, c.n)
    BY <1>1, <2>4, <2>5, CallShape DEF Atomic!SetBalance, Balances
  <2> QED
    BY <2>1, <2>6 DEF Atomic!Next
<1>2. CASE c.op = "set_network"
  <2>1. c.value \in Networks /\ tables.network = "none"
    BY <1>2, CallFields DEF Duplicate
  <2>2. tables' = [tables EXCEPT !.network = c.value]
    BY <1>2 DEF Written
  <2>3. UNCHANGED <<tables.bal, tables.chain>> /\ tables'.network = c.value
    BY <1>0, <2>2 DEF Tables
  <2>4. Atomic!ChooseNetwork(c.value)
    BY <1>2, <2>1, <2>3, CallShape DEF Atomic!ChooseNetwork
  <2> QED
    BY <2>1, <2>4 DEF Atomic!Next
<1>3. CASE c.op = "insert"
  <2> DEFINE h == LastHash(s.chain)
             row == [pre |-> h, hash |-> Append(h, c.body), tx |-> tx]
  <2>1. c.body \in Bodies
    BY <1>3, CallFields
  <2>2. tables' = [tables EXCEPT !.chain = Append(tables.chain, row)]
    BY <1>3 DEF Written, InsertRow
  <2> HIDE DEF row
  <2>3. UNCHANGED <<tables.bal, tables.network>> /\ tables'.chain = Append(tables.chain, row)
    BY <1>0, <2>2 DEF Tables
  <2>4. CASE tx
    <3>1. h = IF tables.chain = <<>> THEN <<>> ELSE tables.chain[Len(tables.chain)].hash
      BY <2>4 DEF LastHash
    <3> HIDE DEF h
    <3>2. tables'.chain = Append(tables.chain, [pre |-> h, hash |-> Append(h, c.body), tx |-> TRUE])
      BY <2>3, <2>4 DEF row
    <3>3. Atomic!Link(c.body)
      BY <1>3, <2>3, <3>1, <3>2, CallShape DEF Atomic!Link
    <3> QED
      BY <2>1, <3>3 DEF Atomic!Next
  <2>5. CASE ~ tx
    <3>1. row = [pre |-> h, hash |-> Append(h, c.body), tx |-> FALSE] /\ row.pre = h
      BY <2>5 DEF row
    <3>2. Len(tables'.chain) = Len(tables.chain) + 1 /\ tables'.chain[Len(tables'.chain)] = row
      <4>1. tables.chain \in Seq(Rows)
        BY <1>0 DEF Tables
      <4>2. LastHash(s.chain) \in Seq(Bodies)
        BY <1>0, LastHashType DEF Tables
      <4>3. row \in Rows
        BY <2>1, <4>2 DEF row, Rows
      <4> QED
        BY <2>3, <4>1, <4>3
    <3> HIDE DEF h
    <3>3. Atomic!LinkBare(c.body)
      BY <1>3, <2>3, <3>1, <3>2, CallShape DEF Atomic!LinkBare
    <3> QED
      BY <2>1, <3>3 DEF Atomic!Next
  <2> QED
    BY <2>4, <2>5
<1>4. CASE c.op = "reset"
  <2>1. tables' = [tables EXCEPT !.chain = <<>>]
    BY <1>4 DEF Written
  <2>2. UNCHANGED <<tables.bal, tables.network>> /\ tables'.chain = <<>>
    BY <1>0, <2>1 DEF Tables
  <2>3. Atomic!Clear
    BY <1>4, <2>2, CallShape DEF Atomic!Clear
  <2> QED
    BY <2>3 DEF Atomic!Next
<1>5. CASE c.op \in {"tick", "epoch", "finalize"}
  <2>1. UNCHANGED <<tables.bal, tables.network, tables.chain>>
    BY <1>0, <1>5 DEF Written, IncrementTick, CreateEpoch, Tables
  <2>2. Atomic!Other
    BY <1>5, <2>1 DEF Atomic!Other
  <2> QED
    BY <2>2 DEF Atomic!Next
<1> QED
  BY <1>1, <1>2, <1>3, <1>4, <1>5, CallFields

LEMMA InitIsAtomic == Init => Atomic!Init
BY DEF Init, NoTables, NoCall, Atomic!Init

LEMMA StepIsAtomic ==
  ASSUME IInv, [Next]_vars
  PROVE  [Atomic!Next]_(Atomic!vars)
<1>1. ASSUME NEW p \in Tasks, WriteBare(p)
      PROVE  Atomic!Next
  <2>1. /\ call[p] \in Calls /\ call[p].op # "transfer"
        /\ Sound(seen[p]) /\ Sound(tables)
    BY <1>1 DEF IInv, CallOK, SoundInv, WriteBare
  <2>2. /\ ~ Duplicate(call[p], seen[p], tables) /\ tables' = Written(call[p], seen[p], tables, FALSE)
        /\ last' = call[p]
    BY <1>1 DEF WriteBare
  <2> QED
    BY <2>1, <2>2, WrittenIsAtomic
<1>2. ASSUME NEW p \in Tasks, Commit(p)
      PROVE  Atomic!Next
  <2>1. /\ call[p] \in Calls /\ ~ Rejected(call[p], tables) /\ Sound(tables)
        /\ call[p].op = "transfer" => call[p].n > 0
        /\ tables' = Effect(call[p], tables) /\ last' = call[p]
    BY <1>2 DEF IInv, CallOK, SoundInv, Commit
  <2>2. CASE call[p].op = "transfer"
    BY <2>1, <2>2, TransferIsAtomic DEF Effect
  <2>3. CASE call[p].op # "transfer"
    <3>1. ~ Duplicate(call[p], tables, tables)
      BY <2>1 DEF Duplicate, Rejected
    <3>2. tables' = Written(call[p], tables, tables, TRUE)
      BY <2>1, <2>3 DEF Effect
    <3> QED
      BY <2>1, <2>3, <3>1, <3>2, WrittenIsAtomic
  <2> QED
    BY <2>2, <2>3
<1>3. ASSUME UNCHANGED <<tables, last>>
      PROVE  UNCHANGED Atomic!vars
  BY <1>3 DEF Atomic!vars, Get
<1> QED
  BY <1>1, <1>2, <1>3 DEF Next, vars, Call, Query, WriteTx, CreditTx, Fail

\* The stores implement AtomicLedger: when a call takes effect, all that this
\* call is to change changes, and nothing else.  BalanceStore::transfer moves its
\* amount completely or not at all and on balances nobody changed since it
\* checked them, MetaStore::set_network chooses once, and the transaction table changes
\* row by row, whatever calls overlap and wherever they fail.
THEOREM Implements == Spec => RefinesAtomic
<1>1. IInv /\ [Next]_vars => [Atomic!Next]_(Atomic!vars)
  BY StepIsAtomic
<1> QED
  BY <1>1, InvariantHolds, InitIsAtomic, PTL DEF Spec, RefinesAtomic, Atomic!Spec

-----------------------------------------------------------------------------
(* Rows written in transactions.                                            *)

\* The rows of a chain and the days of the epochs are in order where they were
\* written in transactions.
ChainOK(t) ==
  \A i \in DOMAIN t.chain :
    t.chain[i].tx => t.chain[i].pre = IF i = 1 THEN <<>> ELSE t.chain[i - 1].hash
DaysOK(t) ==
  \A i, j \in DOMAIN t.epochs : i < j /\ t.epochs[j].tx => t.epochs[i].day < t.epochs[j].day

LEMMA WrittenSerial ==
  ASSUME NEW c \in Calls, NEW s, NEW t, Sound(s), Sound(t), NEW tx \in BOOLEAN, tx => s = t,
         ChainOK(t), DaysOK(t)
  PROVE  ChainOK(Written(c, s, t, tx)) /\ DaysOK(Written(c, s, t, tx))
<1> DEFINE new == Written(c, s, t, tx)
<1>0. s \in Tables /\ t \in Tables /\ HasLatest(s.epochs) /\ HasLatest(t.epochs)
  BY DEF Sound
<1>1. CASE c.op = "insert"
  <2> DEFINE row == [pre |-> LastHash(s.chain), hash |-> Append(LastHash(s.chain), c.body), tx |-> tx]
  <2>1. new = [t EXCEPT !.chain = Append(t.chain, row)]
    BY <1>1 DEF Written, InsertRow
  <2>2. row \in Rows
    <3>1. LastHash(s.chain) \in Seq(Bodies)
      BY <1>0, LastHashType DEF Tables
    <3>2. c.body \in Bodies
      BY <1>1, CallFields
    <3> QED
      BY <3>1, <3>2 DEF Rows
  <2>3. t.chain \in Seq(Rows)
    BY <1>0 DEF Tables
  <2>4. row.tx => row.pre = IF t.chain = <<>> THEN <<>> ELSE t.chain[Len(t.chain)].hash
    BY DEF LastHash
  <2> HIDE DEF row, new
  <2>5. new.chain = Append(t.chain, row) /\ new.epochs = t.epochs
    BY <1>0, <2>1 DEF Tables
  <2>6. /\ DOMAIN new.chain = 1 .. (Len(t.chain) + 1) /\ DOMAIN t.chain = 1 .. Len(t.chain)
        /\ Len(t.chain) \in Nat /\ t.chain = <<>> <=> Len(t.chain) = 0
        /\ \A i \in 1 .. Len(t.chain) : new.chain[i] = t.chain[i]
        /\ new.chain[Len(t.chain) + 1] = row
    BY <2>2, <2>3, <2>5
  <2>7. ChainOK(new)
    <3> SUFFICES ASSUME NEW i \in DOMAIN new.chain, new.chain[i].tx
                 PROVE  new.chain[i].pre = IF i = 1 THEN <<>> ELSE new.chain[i - 1].hash
      BY DEF ChainOK
    <3>1. CASE i \in 1 .. Len(t.chain)
      <4>1. t.chain[i].pre = IF i = 1 THEN <<>> ELSE t.chain[i - 1].hash
        BY <2>6, <3>1 DEF ChainOK
      <4>2. i # 1 => i - 1 \in 1 .. Len(t.chain)
        BY <2>6, <3>1
      <4> QED
        BY <2>6, <3>1, <4>1, <4>2
    <3>2. CASE i = Len(t.chain) + 1
      <4>1. new.chain[i] = row /\ (i = 1 <=> t.chain = <<>>)
        BY <2>6, <3>2
      <4>2. i # 1 => new.chain[i - 1] = t.chain[Len(t.chain)]
        BY <2>6, <3>2
      <4> QED
        BY <2>4, <4>1, <4>2
    <3> QED
      BY <2>6, <3>1, <3>2
  <2>8. DaysOK(new)
    BY <2>5 DEF DaysOK
  <2> QED
    BY <2>7, <2>8 DEF new
<1>2. CASE c.op = "epoch"
  <2> DEFINE e == [settled |-> FALSE, tx |-> tx,
                   day |-> IF s.epochs = <<>> THEN 0 ELSE s.epochs[Latest(s.epochs)].day + 1]
  <2>1. new = [t EXCEPT !.epochs = Append(t.epochs, e)]
    BY <1>2 DEF Written, CreateEpoch
  <2>2. s.epochs \in Seq(Epochs) /\ t.epochs \in Seq(Epochs)
    BY <1>0 DEF Tables
  <2>3. e \in Epochs
    BY <1>0, <2>2, LatestDay DEF Epochs
  <2>4. e.tx => \A j \in DOMAIN t.epochs : t.epochs[j].day < e.day
    <3> SUFFICES ASSUME tx, NEW j \in DOMAIN t.epochs PROVE t.epochs[j].day < e.day
      OBVIOUS
    <3>1. t.epochs # <<>> /\ s = t
      BY <2>2
    <3>2. /\ t.epochs[j].day <= t.epochs[Latest(t.epochs)].day
          /\ t.epochs[Latest(t.epochs)].day \in Nat
      BY <1>0, <2>2, <3>1, LatestDay
    <3>3. t.epochs[j].day \in Nat
      <4>1. t.epochs[j] \in Epochs
        BY <2>2, SeqFacts
      <4> QED
        BY <4>1 DEF Epochs
    <3> QED
      BY <3>1, <3>2, <3>3
  <2> HIDE DEF e, new
  <2>5. new.epochs = Append(t.epochs, e) /\ new.chain = t.chain
    BY <1>0, <2>1 DEF Tables
  <2>6. /\ DOMAIN new.epochs = 1 .. (Len(t.epochs) + 1) /\ DOMAIN t.epochs = 1 .. Len(t.epochs)
        /\ Len(t.epochs) \in Nat
        /\ \A i \in 1 .. Len(t.epochs) : new.epochs[i] = t.epochs[i]
        /\ new.epochs[Len(t.epochs) + 1] = e
    BY <2>2, <2>3, <2>5
  <2>7. DaysOK(new)
    <3> SUFFICES ASSUME NEW i \in DOMAIN new.epochs, NEW j \in DOMAIN new.epochs,
                        i < j, new.epochs[j].tx
                 PROVE  new.epochs[i].day < new.epochs[j].day
      BY DEF DaysOK
    <3>1. i \in 1 .. Len(t.epochs)
      BY <2>6
    <3>2. CASE j \in 1 .. Len(t.epochs)
      BY <2>6, <3>1, <3>2 DEF DaysOK
    <3>3. CASE j = Len(t.epochs) + 1
      BY <2>4, <2>6, <3>1, <3>3
    <3> QED
      BY <2>6, <3>2, <3>3
  <2>8. ChainOK(new)
    BY <2>5 DEF ChainOK
  <2> QED
    BY <2>7, <2>8 DEF new
<1>3. CASE c.op = "finalize"
  <2> DEFINE k == First(s.epochs, c.day)
             e == [t.epochs EXCEPT ![k].settled = TRUE]
  <2>1. new = [t EXCEPT !.epochs[k].settled = TRUE]
    BY <1>3 DEF Written
  <2> HIDE DEF k
  <2>2. new = [t EXCEPT !.epochs = e]
    BY <2>1
  <2>3. t.epochs \in Seq(Epochs)
    BY <1>0 DEF Tables
  <2>4. /\ DOMAIN e = DOMAIN t.epochs
        /\ \A i \in DOMAIN t.epochs : e[i].day = t.epochs[i].day /\ e[i].tx = t.epochs[i].tx
    BY <1>0, <2>3, SettleLatest
  <2> HIDE DEF e, new
  <2>5. new.epochs = e /\ new.chain = t.chain
    BY <1>0, <2>2 DEF Tables
  <2>6. DaysOK(new)
    BY <2>4, <2>5 DEF DaysOK
  <2>7. ChainOK(new)
    BY <2>5 DEF ChainOK
  <2> QED
    BY <2>6, <2>7 DEF new
<1>4. CASE c.op = "reset"
  <2>1. new = [t EXCEPT !.chain = <<>>]
    BY <1>4 DEF Written
  <2> HIDE DEF new
  <2>2. new.chain = <<>> /\ new.epochs = t.epochs
    BY <1>0, <2>1 DEF Tables
  <2>3. ChainOK(new)
    BY <2>2 DEF ChainOK
  <2>4. DaysOK(new)
    BY <2>2 DEF DaysOK
  <2> QED
    BY <2>3, <2>4 DEF new
<1>5. CASE c.op \in {"transfer", "set", "set_network", "tick"}
  <2>1. new.chain = t.chain /\ new.epochs = t.epochs
    BY <1>0, <1>5 DEF Written, Debit, IncrementTick, Tables
  <2> HIDE DEF new
  <2> QED
    BY <2>1 DEF ChainOK, DaysOK, new
<1> QED
  BY <1>1, <1>2, <1>3, <1>4, <1>5, CallFields

LEMMA StepSerial ==
  ASSUME IInv, [Next]_vars, ChainOK(tables), DaysOK(tables)
  PROVE  ChainOK(tables') /\ DaysOK(tables')
<1>1. ASSUME NEW p \in Tasks, WriteBare(p)
      PROVE  ChainOK(tables') /\ DaysOK(tables')
  <2>1. call[p] \in Calls /\ Sound(seen[p]) /\ Sound(tables)
    BY <1>1 DEF IInv, CallOK, SoundInv, WriteBare
  <2>2. tables' = Written(call[p], seen[p], tables, FALSE)
    BY <1>1 DEF WriteBare
  <2> QED
    BY <2>1, <2>2, WrittenSerial
<1>2. ASSUME NEW p \in Tasks, Commit(p)
      PROVE  ChainOK(tables') /\ DaysOK(tables')
  <2>1. call[p] \in Calls /\ Sound(tables) /\ tables' = Effect(call[p], tables) /\ last' = call[p]
    BY <1>2 DEF IInv, CallOK, SoundInv, Commit
  <2>2. CASE call[p].op = "transfer"
    <3>1. tables' = Credit(call[p], tables, Debit(call[p], tables, tables))
      BY <2>1, <2>2 DEF Effect
    <3>2. tables'.chain = tables.chain /\ tables'.epochs = tables.epochs
      BY <2>1, <3>1 DEF Credit, Debit, Sound, Tables
    <3> QED
      BY <3>2 DEF ChainOK, DaysOK
  <2>3. CASE call[p].op # "transfer"
    <3>1. tables' = Written(call[p], tables, tables, TRUE)
      BY <2>1, <2>3 DEF Effect
    <3> QED
      BY <2>1, <3>1, WrittenSerial
  <2> QED
    BY <2>2, <2>3
<1>3. ASSUME UNCHANGED <<tables, last>>
      PROVE  ChainOK(tables') /\ DaysOK(tables')
  BY <1>3
<1> QED
  BY <1>1, <1>2, <1>3 DEF Next, vars, Call, Query, WriteTx, CreditTx, Fail

\* A fork of the chain and a second epoch of a day come only from
\* insert_with_next_hash and get_current_or_create outside a transaction.
THEOREM Serial == Spec => []SerialInTransactions
<1>1. Init => ChainOK(tables) /\ DaysOK(tables)
  BY DEF Init, NoTables, ChainOK, DaysOK
<1>2. IInv /\ [Next]_vars /\ ChainOK(tables) /\ DaysOK(tables) => (ChainOK(tables) /\ DaysOK(tables))'
  BY StepSerial DEF ChainOK, DaysOK
<1>3. ChainOK(tables) /\ DaysOK(tables) => SerialInTransactions
  BY DEF ChainOK, DaysOK, SerialInTransactions
<1> QED
  BY <1>1, <1>2, <1>3, InvariantHolds, PTL DEF Spec

-----------------------------------------------------------------------------
(* Tick records.                                                            *)

LEMMA ModUnique ==
  ASSUME NEW n \in Nat \ {0}, NEW q \in Int, NEW r \in 0 .. (n - 1)
  PROVE  (n * q + r) % n = r
OBVIOUS

\* Adding one to a u8 that has wrapped is adding one and wrapping.
LEMMA WrapStep ==
  ASSUME NEW n \in Nat \ {0}, NEW a \in Nat
  PROVE  ((a % n) + 1) % n = (a + 1) % n
<1> DEFINE q == a \div n
           r == a % n
<1>1. a = n * q + r /\ r \in 0 .. (n - 1) /\ q \in Int
  OBVIOUS
<1> HIDE DEF q, r
<1>2. CASE r < n - 1
  <2>1. a + 1 = n * q + (r + 1) /\ r + 1 = n * 0 + (r + 1)
    BY <1>1
  <2>2. (a + 1) % n = r + 1
    BY <1>1, <1>2, <2>1, ModUnique
  <2>3. (r + 1) % n = r + 1
    BY <1>1, <1>2, <2>1, ModUnique
  <2> QED
    BY <2>2, <2>3 DEF r
<1>3. CASE r = n - 1
  <2>1. a + 1 = n * (q + 1) + 0 /\ r + 1 = n * 1 + 0
    BY <1>1, <1>3
  <2>2. (a + 1) % n = 0
    BY <1>1, <2>1, ModUnique
  <2>3. (r + 1) % n = 0
    BY <1>1, <2>1, ModUnique
  <2> QED
    BY <2>2, <2>3 DEF r
<1> QED
  BY <1>1, <1>2, <1>3

\* The count of k ticks as increment_tick stores it.
Counted(k) == IF k = 0 THEN <<>> ELSE <<k % TickLimit>>

\* Every other statement leaves the tick records alone.
LEMMA TicksLeftAlone ==
  ASSUME NEW c \in Calls, c.op # "tick", NEW s \in Tables, NEW t \in Tables, NEW tx \in BOOLEAN
  PROVE  /\ Written(c, s, t, tx).ticks = t.ticks
         /\ Credit(c, s, t).ticks = t.ticks
<1>1. Credit(c, s, t).ticks = t.ticks
  BY DEF Credit, Tables
<1>2. CASE c.op = "transfer"
  BY <1>1, <1>2 DEF Written, Debit, Tables
<1>3. CASE c.op = "insert"
  BY <1>1, <1>3 DEF Written, InsertRow, Tables
<1>4. CASE c.op = "epoch"
  BY <1>1, <1>4 DEF Written, CreateEpoch, Tables
<1>5. CASE c.op \in {"set", "set_network", "reset", "finalize"}
  BY <1>1, <1>5 DEF Written, Tables
<1> QED
  BY <1>2, <1>3, <1>4, <1>5, CallFields

\* A tick that writes over the count it has seen adds one to it.
LEMMA TickAdds ==
  ASSUME NEW c \in Calls, c.op = "tick", NEW s \in Tables, NEW t \in Tables, NEW tx \in BOOLEAN,
         NEW k \in Nat, t.ticks = Counted(k), s.ticks = t.ticks
  PROVE  Written(c, s, t, tx).ticks = Counted(k + 1)
<1>1. Written(c, s, t, tx) = IncrementTick(s, t)
  BY DEF Written
<1>2. CASE k = 0
  BY <1>1, <1>2 DEF IncrementTick, Counted, Tables
<1>3. CASE k # 0
  <2>1. t.ticks = <<k % TickLimit>> /\ s.ticks # <<>>
    BY <1>3 DEF Counted
  <2>2. IncrementTick(s, t) = [t EXCEPT !.ticks[1] = (s.ticks[1] + 1) % TickLimit]
    BY <2>1 DEF IncrementTick
  <2>3. IncrementTick(s, t).ticks = [t.ticks EXCEPT ![1] = (s.ticks[1] + 1) % TickLimit]
    BY <2>2 DEF Tables
  <2>4. [t.ticks EXCEPT ![1] = (s.ticks[1] + 1) % TickLimit] = <<((k % TickLimit) + 1) % TickLimit>>
    BY <2>1
  <2>5. ((k % TickLimit) + 1) % TickLimit = (k + 1) % TickLimit
    BY WrapStep, LedgerConstants
  <2> QED
    BY <1>1, <1>3, <2>3, <2>4, <2>5 DEF Counted
<1> QED
  BY <1>2, <1>3

LEMMA StepCounts ==
  ASSUME IInv, [Next]_vars, TicksCounted
  PROVE  TicksCounted'
<1>0. /\ counted \in Nat /\ lost \in BOOLEAN
      /\ TicksCounted <=> (~ lost => tables.ticks = Counted(counted))
      /\ TicksCounted' <=> (~ lost' => tables'.ticks = Counted(counted'))
  BY DEF IInv, TypeOK, TicksCounted, Counted
<1>1. ASSUME NEW p \in Tasks, WriteBare(p)
      PROVE  TicksCounted'
  <2>1. call[p] \in Calls /\ seen[p] \in Tables /\ tables \in Tables
    BY <1>1 DEF IInv, CallOK, TypeOK, WriteBare
  <2>2. tables' = Written(call[p], seen[p], tables, FALSE)
    BY <1>1 DEF WriteBare
  <2>3. CASE call[p].op = "tick"
    <3>1. counted' = counted + 1 /\ (~ lost' => ~ lost /\ seen[p].ticks = tables.ticks)
      BY <1>1, <2>3 DEF WriteBare
    <3>2. ASSUME ~ lost' PROVE tables'.ticks = Counted(counted + 1)
      <4>1. tables.ticks = Counted(counted) /\ seen[p].ticks = tables.ticks
        BY <1>0, <3>1, <3>2
      <4>2. counted \in Nat
        BY <1>0
      <4>3. ASSUME NEW k \in Nat, k = counted
            PROVE  Written(call[p], seen[p], tables, FALSE).ticks = Counted(k + 1)
        <5>1. tables.ticks = Counted(k) /\ FALSE \in BOOLEAN
          BY <4>1, <4>3
        <5>2. seen[p].ticks = tables.ticks
          BY <4>1
        <5>3. ASSUME NEW tx \in BOOLEAN
              PROVE  Written(call[p], seen[p], tables, tx).ticks = Counted(k + 1)
          BY <2>1, <2>3, <5>1, <5>2, TickAdds
        <5> QED
          BY <5>1, <5>3
      <4> QED
        BY <2>2, <4>2, <4>3
    <3> QED
      BY <1>0, <3>1, <3>2
  <2>4. CASE call[p].op # "tick"
    <3>1. counted' = counted /\ (lost <=> lost')
      BY <1>0, <1>1, <2>4 DEF WriteBare
    <3> QED
      BY <1>0, <2>1, <2>2, <2>4, <3>1, TicksLeftAlone
  <2> QED
    BY <2>3, <2>4
<1>2. ASSUME NEW p \in Tasks, Commit(p)
      PROVE  TicksCounted'
  <2>1. call[p] \in Calls /\ tables \in Tables /\ tables' = Effect(call[p], tables)
    BY <1>2 DEF IInv, CallOK, TypeOK, Commit
  <2>2. CASE call[p].op = "tick"
    <3>1. counted' = counted + 1 /\ lost' = lost
      BY <1>2, <2>2 DEF Commit
    <3>2. tables' = Written(call[p], tables, tables, TRUE)
      BY <2>1, <2>2 DEF Effect
    <3>3. ASSUME ~ lost PROVE tables'.ticks = Counted(counted + 1)
      <4>1. tables.ticks = Counted(counted)
        BY <1>0, <3>3
      <4>2. counted \in Nat
        BY <1>0
      <4>3. ASSUME NEW k \in Nat, k = counted
            PROVE  Written(call[p], tables, tables, TRUE).ticks = Counted(k + 1)
        <5>1. tables.ticks = Counted(k) /\ TRUE \in BOOLEAN
          BY <4>1, <4>3
        <5> QED
          BY <2>1, <2>2, <5>1, TickAdds
      <4> QED
        BY <4>2, <4>3, <3>2
    <3> QED
      BY <1>0, <3>1, <3>3
  <2>3. CASE call[p].op # "tick"
    <3>1. counted' = counted /\ lost' = lost
      BY <1>0, <1>2, <2>3 DEF Commit
    <3>2. tables'.ticks = tables.ticks
      <4>1. CASE call[p].op = "transfer"
        <5>1. Debit(call[p], tables, tables) \in Tables
          <6>1. ~ Rejected(call[p], tables)
            BY <1>2 DEF IInv, CallOK, Commit
          <6> QED
            BY <2>1, <4>1, <6>1, DebitType
        <5>2. Debit(call[p], tables, tables).ticks = tables.ticks
          BY <2>1 DEF Debit, Tables
        <5> QED
          BY <2>1, <2>3, <4>1, <5>1, <5>2, TicksLeftAlone DEF Effect
      <4>2. CASE call[p].op # "transfer"
        BY <2>1, <2>3, <4>2, TicksLeftAlone DEF Effect
      <4> QED
        BY <4>1, <4>2
    <3> QED
      BY <1>0, <3>1, <3>2
  <2> QED
    BY <2>2, <2>3
<1>3. ASSUME UNCHANGED <<tables, counted, lost>>
      PROVE  TicksCounted'
  BY <1>3 DEF TicksCounted
<1> QED
  BY <1>1, <1>2, <1>3 DEF Next, vars, Call, Query, WriteTx, CreditTx, Fail

\* increment_tick loses no tick and counts none twice, for any number of tasks and
\* any limit of the counter, unless a call outside a transaction wrote over a
\* count it had not seen.
THEOREM TicksKept == Spec => []TicksCounted
<1>1. Init => TicksCounted
  BY DEF Init, NoTables, TicksCounted
<1>2. IInv /\ [Next]_vars /\ TicksCounted => TicksCounted'
  BY StepCounts
<1> QED
  BY <1>1, <1>2, InvariantHolds, PTL DEF Spec
=============================================================================
