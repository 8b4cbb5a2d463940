------------------------------ MODULE TickRing ------------------------------
(***************************************************************************)
(* The witness ring of one node: tick_handler and lock_witness_ring.        *)
(*                                                                         *)
(* Every connection runs its tick handlers one after the other, those of    *)
(* different connections run at the same time and share the slots of the    *)
(* global context: the hash of the last ring that agreed, the number of     *)
(* ticks that agreed with it, the list of witnesses and their balances.     *)
(* Each slot is read and written in separate steps.                         *)
(*                                                                         *)
(* A ring is a set of seeds; its hash covers the sorted addresses only, so   *)
(* it tells how often an address is listed and not by whom.                  *)
(***************************************************************************)
EXTENDS Integers, FiniteSets, FiniteSetsExt

CONSTANTS
  Conns,     \* connections that deliver ticks
  Addrs,     \* socket addresses
  Ids,       \* node ids
  Start,     \* the registry at the start
  Rings,     \* the rings peers send ticks with
  Rounds,    \* WITNESS_RING_STABLE_ROUNDS
  Reward,    \* 1000: what one lock distributes
  MaxTicks   \* bound: ticks received

Seeds == Addrs \X Ids
Hashes == [Addrs -> Nat]

ASSUME TickConstants ==
  /\ IsFiniteSet(Addrs) /\ IsFiniteSet(Ids)
  /\ Start \subseteq Seeds
  /\ Rings \subseteq SUBSET Seeds
  /\ Rounds \in Nat /\ Rounds > 1
  /\ Reward \in Nat
  /\ MaxTicks \in Nat

VARIABLES
  reg,        \* all seeds of the node registry
  hashSlot,   \* the slot [u8; 32], as a set of at most one hash
  countSlot,  \* the slot u32
  witnesses,  \* the slot Vec<WitnessEntry>: at most one seed per node id
  balances,   \* the slot Vec<BalanceEntry>
  pc,         \* pc[h]: where the handler of connection h is
  no,         \* no[h]: the number of its tick
  tick,       \* tick[h]: the ring hash in its tick
  local,      \* local[h]: the ring it took from the registry
  prev,       \* prev[h]: the hash slot as it found it
  count,      \* count[h]: the count as it found it
  todo,       \* todo[h]: seeds it still has to enter as witnesses
  oldWits,    \* oldWits[h]: the witnesses as it found them
  oldBals,    \* oldBals[h]: the balances as it found them
  ticks,      \* ticks received
  agreed,     \* history: <<i, hash>>, tick i agreed with the local ring
  locks,      \* history: <<i, hash>>, tick i locked the ring
  disturbed,  \* history: two handlers were locking at the same time, or one was aborted
  members,    \* history: the node ids of the rings that were locked
  due,        \* history: the shares each node id earned when its rings were locked
  paid        \* history: those of them whose lock reached the payment

slots == <<hashSlot, countSlot, witnesses, balances>>
found == <<prev, count, todo, oldWits, oldBals>>
history == <<agreed, locks, disturbed, members, due, paid>>
vars == <<reg, slots, pc, no, tick, local, found, ticks, history>>

Stages == {"idle", "ring", "compare", "decide", "read", "bump", "reset", "mark",
           "lock", "enter", "seal", "pay", "write"}
Locking == {"lock", "enter", "seal", "pay", "write"}

Init ==
  /\ reg = Start
  /\ hashSlot = {} /\ countSlot = 0
  /\ witnesses = {} /\ balances = [i \in Ids |-> 0]
  /\ pc = [h \in Conns |-> "idle"]
  /\ no = [h \in Conns |-> 0]
  /\ tick = [h \in Conns |-> [x \in Addrs |-> 0]]
  /\ local = [h \in Conns |-> {}]
  /\ prev = [h \in Conns |-> {}]
  /\ count = [h \in Conns |-> 0]
  /\ todo = [h \in Conns |-> {}]
  /\ oldWits = [h \in Conns |-> {}]
  /\ oldBals = [h \in Conns |-> [i \in Ids |-> 0]]
  /\ ticks = 0
  /\ agreed = {} /\ locks = {} /\ disturbed = FALSE /\ members = {}
  /\ due = [i \in Ids |-> 0] /\ paid = [i \in Ids |-> 0]

-----------------------------------------------------------------------------

\* compute_witness_ring_hash.
Hash(ring) == [x \in Addrs |-> Cardinality({s \in ring : s[1] = x})]

\* SeedsCommand::new keeps one record per address.
Offers(ring) ==
  {o \in SUBSET ring : /\ \A s, r \in o : s[1] = r[1] => s = r
                       /\ \A s \in ring : \E r \in o : r[1] = s[1]}

\* The seeds of the sender at addresses the registry does not have.
NewSeeds(offer) == {s \in offer : \A r \in reg : r[1] # s[1]}

Goto(h, stage) == pc' = [pc EXCEPT ![h] = stage]

\* The handler returns, its local variables are gone.
Done(h) ==
  /\ Goto(h, "idle")
  /\ no' = [no EXCEPT ![h] = 0]
  /\ tick' = [tick EXCEPT ![h] = [x \in Addrs |-> 0]]
  /\ local' = [local EXCEPT ![h] = {}]
  /\ prev' = [prev EXCEPT ![h] = {}]
  /\ count' = [count EXCEPT ![h] = 0]
  /\ todo' = [todo EXCEPT ![h] = {}]
  /\ oldWits' = [oldWits EXCEPT ![h] = {}]
  /\ oldBals' = [oldBals EXCEPT ![h] = [i \in Ids |-> 0]]

\* A tick built from one of the rings arrives; its seeds are registered, unless
\* it has none or their hash is wrong, and the handler goes on either way.
\* (The dials to nodes that are not connected are those of the seed gossip.)
Receive(h) ==
  /\ pc[h] = "idle" /\ ticks < MaxTicks
  /\ ticks' = ticks + 1
  /\ no' = [no EXCEPT ![h] = ticks + 1]
  /\ \E ring \in Rings :
       /\ tick' = [tick EXCEPT ![h] = Hash(ring)]
       /\ \/ \E offer \in Offers(ring) : reg' = reg \cup NewSeeds(offer)
          \/ UNCHANGED reg
  /\ Goto(h, "ring")
  /\ UNCHANGED <<slots, local, found, history>>

\* get_witness_ring, and the broadcast of the seeds to the peers.
TakeRing(h) ==
  /\ pc[h] = "ring"
  /\ local' = [local EXCEPT ![h] = reg]
  /\ Goto(h, "compare")
  /\ UNCHANGED <<reg, slots, no, tick, found, ticks, history>>

\* The rings differ: only the answer is left.
Differs(h) ==
  /\ pc[h] = "compare" /\ Hash(local[h]) # tick[h]
  /\ Done(h)
  /\ UNCHANGED <<reg, slots, ticks, history>>

\* The rings agree: the hash slot is read.
Agrees(h) ==
  /\ pc[h] = "compare" /\ Hash(local[h]) = tick[h]
  /\ prev' = [prev EXCEPT ![h] = hashSlot]
  /\ agreed' = agreed \cup {<<no[h], tick[h]>>}
  /\ Goto(h, "decide")
  /\ UNCHANGED <<reg, slots, no, tick, local, count, todo, oldWits, oldBals, ticks,
                 locks, disturbed, members, due, paid>>

\* Mutant of Decide: no previous ring counts as the same ring.
DecideOnNone(h) ==
  /\ pc[h] = "decide"
  /\ Goto(h, IF prev[h] \subseteq {tick[h]} THEN "read" ELSE "reset")
  /\ UNCHANGED <<reg, slots, no, tick, local, found, ticks, history>>

\* The last ring that agreed was the same one, or another one, or there was none.
Decide(h) ==
  /\ pc[h] = "decide"
  /\ Goto(h, IF prev[h] = {tick[h]} THEN "read" ELSE "reset")
  /\ UNCHANGED <<reg, slots, no, tick, local, found, ticks, history>>

\* The count starts again ...
ResetCount(h) ==
  /\ pc[h] = "reset"
  /\ countSlot' = 1
  /\ Goto(h, "mark")
  /\ UNCHANGED <<reg, hashSlot, witnesses, balances, no, tick, local, found, ticks, history>>

\* ... and the hash slot is set.
MarkHash(h) ==
  /\ pc[h] = "mark"
  /\ hashSlot' = {tick[h]}
  /\ Done(h)
  /\ UNCHANGED <<reg, countSlot, witnesses, balances, ticks, history>>

\* The same ring again: the count is read ...
ReadCount(h) ==
  /\ pc[h] = "read"
  /\ count' = [count EXCEPT ![h] = countSlot]
  /\ Goto(h, "bump")
  /\ UNCHANGED <<reg, slots, no, tick, local, prev, todo, oldWits, oldBals, ticks, history>>

\* Mutant of Share: the reward is divided by the number of nodes.
ShareOfNode(ring) == IF ring = {} THEN 0 ELSE Reward \div Cardinality({s[2] : s \in ring})

\* Whole units only, nothing for an empty ring.
Share(ring) == IF ring = {} THEN 0 ELSE Reward \div Cardinality(ring)

\* Every seed earns its node a share.
Earned(ring, i) == Share(ring) * Cardinality({s \in ring : s[2] = i})

\* A handler starts to lock the ring it took, with everything that is to follow.
StartLock(h) ==
  /\ Goto(h, "lock")
  /\ todo' = [todo EXCEPT ![h] = local[h]]
  /\ locks' = locks \cup {<<no[h], tick[h]>>}
  /\ disturbed' = (disturbed \/ \E g \in Conns \ {h} : pc[g] \in Locking)
  /\ members' = members \cup {s[2] : s \in local[h]}
  /\ due' = [i \in Ids |-> due[i] + Earned(local[h], i)]
  /\ UNCHANGED <<no, tick, local, prev, count, oldWits, oldBals>>

\* Mutant of Bump: the count grows by what was found.
BumpDouble(h) ==
  /\ pc[h] = "bump"
  /\ countSlot' = countSlot + count[h] + 1
  /\ IF count[h] + 1 >= Rounds
     THEN StartLock(h)
     ELSE Done(h) /\ UNCHANGED <<locks, disturbed, members, due>>
  /\ UNCHANGED <<reg, hashSlot, witnesses, balances, ticks, agreed, paid>>

\* ... and written; from the second agreeing tick on the ring is locked.
Bump(h) ==
  /\ pc[h] = "bump"
  /\ countSlot' = count[h] + 1
  /\ IF count[h] + 1 >= Rounds
     THEN StartLock(h)
     ELSE Done(h) /\ UNCHANGED <<locks, disturbed, members, due>>
  /\ UNCHANGED <<reg, hashSlot, witnesses, balances, ticks, agreed, paid>>

-----------------------------------------------------------------------------
(* lock_witness_ring.                                                       *)

\* For each seed the list of witnesses is read ...
ReadWitnesses(h) ==
  /\ pc[h] = "lock" /\ todo[h] # {}
  /\ oldWits' = [oldWits EXCEPT ![h] = witnesses]
  /\ Goto(h, "enter")
  /\ UNCHANGED <<reg, slots, no, tick, local, prev, count, todo, oldBals, ticks, history>>

\* ... and written with the seed's node entered, or its entry replaced.
EnterWitness(h) ==
  /\ pc[h] = "enter"
  /\ \E s \in todo[h] :
       /\ witnesses' = {w \in oldWits[h] : w[2] # s[2]} \cup {s}
       /\ todo' = [todo EXCEPT ![h] = @ \ {s}]
  /\ Goto(h, "lock")
  /\ UNCHANGED <<reg, hashSlot, countSlot, balances, no, tick, local, prev, count,
                 oldWits, oldBals, ticks, history>>

\* Mutant of Seal: a ring that is sealed already is not paid for.
SealOnce(h) ==
  /\ pc[h] = "lock" /\ todo[h] = {}
  /\ hashSlot' = {tick[h]}
  /\ IF hashSlot = {tick[h]} THEN Done(h)
     ELSE Goto(h, "pay") /\ UNCHANGED <<no, tick, local, found>>
  /\ UNCHANGED <<reg, countSlot, witnesses, balances, ticks, history>>

\* After the last one the hash slot is set again.
Seal(h) ==
  /\ pc[h] = "lock" /\ todo[h] = {}
  /\ hashSlot' = {tick[h]}
  /\ Goto(h, "pay")
  /\ UNCHANGED <<reg, countSlot, witnesses, balances, no, tick, local, found, ticks, history>>

\* The balances are read ...
ReadBalances(h) ==
  /\ pc[h] = "pay"
  /\ oldBals' = [oldBals EXCEPT ![h] = balances]
  /\ Goto(h, "write")
  /\ UNCHANGED <<reg, slots, no, tick, local, prev, count, todo, oldWits, ticks, history>>

\* ... and written with the rewards of the ring.
Distribute(h) ==
  LET ring == local[h]
  IN /\ pc[h] = "write"
     /\ balances' = [i \in Ids |-> oldBals[h][i] + Earned(ring, i)]
     /\ paid' = [i \in Ids |-> paid[i] + Earned(ring, i)]
     /\ Done(h)
     /\ UNCHANGED <<reg, hashSlot, countSlot, witnesses, ticks, agreed, locks, disturbed, members, due>>

\* The connection is lost, and its task is aborted at an await of the handler.
Abort(h) ==
  /\ pc[h] # "idle"
  /\ disturbed' = (disturbed \/ pc[h] \in Locking)
  /\ Done(h)
  /\ UNCHANGED <<reg, slots, ticks, agreed, locks, members, due, paid>>

Next ==
  \E h \in Conns :
    \/ Receive(h) \/ TakeRing(h) \/ Differs(h) \/ Agrees(h) \/ Decide(h)
    \/ ResetCount(h) \/ MarkHash(h) \/ ReadCount(h) \/ Bump(h)
    \/ ReadWitnesses(h) \/ EnterWitness(h) \/ Seal(h) \/ ReadBalances(h) \/ Distribute(h)
    \/ Abort(h)

Spec == Init /\ [][Next]_vars

-----------------------------------------------------------------------------
\* Slots, handlers and histories have their types.
TypeOK ==
  /\ reg \subseteq Seeds
  /\ hashSlot \subseteq Hashes
  /\ countSlot \in 0 .. MaxTicks
  /\ witnesses \subseteq Seeds
  /\ balances \in [Ids -> Nat]
  /\ pc \in [Conns -> Stages]
  /\ no \in [Conns -> 0 .. MaxTicks]
  /\ tick \in [Conns -> Hashes]
  /\ local \in [Conns -> SUBSET Seeds]
  /\ prev \in [Conns -> SUBSET Hashes]
  /\ count \in [Conns -> 0 .. MaxTicks]
  /\ todo \in [Conns -> SUBSET Seeds]
  /\ oldWits \in [Conns -> SUBSET Seeds]
  /\ oldBals \in [Conns -> [Ids -> Nat]]
  /\ ticks \in 0 .. MaxTicks
  /\ agreed \subseteq (1 .. MaxTicks) \X Hashes
  /\ locks \subseteq agreed
  /\ disturbed \in BOOLEAN
  /\ members \subseteq Ids
  /\ due \in [Ids -> Nat] /\ paid \in [Ids -> Nat]

\* tick_handler: however the handlers interleave on the two slots, a ring is
\* locked only after another tick had agreed on the same ring.
LockedTwice ==
  \A l \in locks : \E a \in agreed : a[1] # l[1] /\ a[2] = l[2]

\* No handler is locking, and none was disturbed.
Settled == ~ disturbed /\ \A h \in Conns : pc[h] \notin Locking

WitnessesKept ==
  /\ \A v, w \in witnesses : v[2] = w[2] => v = w
  /\ Settled => members \subseteq {w[2] : w \in witnesses}

SharesPaid ==
  /\ \A i \in Ids : balances[i] <= paid[i]
  /\ Settled => balances = due

\* lock_witness_ring: a node never has two entries, and handlers that race may
\* lose shares but pay none twice; as long as no two lock at the same time and
\* none is aborted, every lock is carried through: all nodes of its ring are
\* entered and all their shares paid.
LocksKept == WitnessesKept /\ SharesPaid

Total(b) == MapThenSumSet(LAMBDA i : b[i], Ids)

\* lock_witness_ring: neither a race nor rounding, nor a node with several seeds,
\* makes it pay more than one reward per lock.
RewardsBounded == Total(balances) <= Reward * Cardinality(locks)
=============================================================================
