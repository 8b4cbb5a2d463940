--------------------------- MODULE TickRingProofs ---------------------------
(***************************************************************************)
(* Proofs about the witness ring for any number of connections, ticks,     *)
(* nodes and addresses, whatever the rings are: types, a ring is locked    *)
(* only after two ticks agreed on it, what handlers that lock at the same  *)
(* time can and cannot lose, and that all balances together are at most    *)
(* one reward per lock.                                                    *)
(***************************************************************************)
EXTENDS TickRing, FiniteSetTheorems, WellFoundedInduction, TLAPS

\* The variables the argument is about are functions on the connections.
ShapeInv ==
  /\ DOMAIN pc = Conns /\ DOMAIN no = Conns /\ DOMAIN tick = Conns /\ DOMAIN prev = Conns
  /\ ticks \in Nat

\* The numbers of ticks are used once.
NumberInv ==
  /\ \A h \in Conns : pc[h] # "idle" => no[h] \in 1 .. ticks
  /\ \A g, h \in Conns : g # h /\ pc[g] # "idle" /\ pc[h] # "idle" => no[g] # no[h]
  /\ \A a \in agreed : a[1] \in 1 .. ticks

Early == {"ring", "compare"}
Counting == {"read", "bump"} \cup Locking

\* Some tick other than number i agreed on a ring with this hash.
AgreedBesides(i, hash) == \E a \in agreed : a[1] # i /\ a[2] = hash

\* A tick counts as agreeing from the comparison on, and what it found in the
\* hash slot was put there for an earlier one.
AgreeInv ==
  /\ \A v \in hashSlot : \E a \in agreed : a[2] = v
  /\ \A h \in Conns :
       /\ pc[h] \in Early => \A a \in agreed : a[1] # no[h]
       /\ pc[h] \notin Early \cup {"idle"} =>
            <<no[h], tick[h]>> \in agreed /\ \A v \in prev[h] : AgreedBesides(no[h], v)
       /\ pc[h] \in Counting => prev[h] = {tick[h]}

LockInv == \A l \in locks : AgreedBesides(l[1], l[2])

RingInv == ShapeInv /\ NumberInv /\ AgreeInv /\ LockInv

LEMMA InitRing == Init => RingInv
BY DEF Init, RingInv, ShapeInv, NumberInv, AgreeInv, LockInv, Early, Counting, Locking

LEMMA ReceiveRing ==
  ASSUME RingInv, NEW h \in Conns, Receive(h)
  PROVE  RingInv'
<1>1. /\ pc[h] = "idle" /\ ticks' = ticks + 1
      /\ no' = [no EXCEPT ![h] = ticks + 1] /\ pc' = [pc EXCEPT ![h] = "ring"]
      /\ DOMAIN tick' = Conns /\ \A g \in Conns \ {h} : tick'[g] = tick[g]
      /\ UNCHANGED <<hashSlot, prev, agreed, locks>>
  BY DEF Receive, Goto, slots, found, history, RingInv, ShapeInv
<1>2. ShapeInv'
  BY <1>1 DEF RingInv, ShapeInv
<1>3. NumberInv'
  BY <1>1 DEF RingInv, ShapeInv, NumberInv
<1>4. AgreeInv'
  <2>1. \A a \in agreed : a[1] # ticks + 1
    BY DEF RingInv, ShapeInv, NumberInv
  <2> QED
    BY <1>1, <2>1 DEF RingInv, ShapeInv, AgreeInv, AgreedBesides, Early, Counting, Locking
<1>5. LockInv'
  BY <1>1 DEF RingInv, LockInv, AgreedBesides
<1> QED
  BY <1>2, <1>3, <1>4, <1>5 DEF RingInv

\* A handler that goes on, without touching the hash slot or the histories.
LEMMA MoveRing ==
  ASSUME RingInv, NEW h \in Conns, NEW stage, pc' = [pc EXCEPT ![h] = stage],
         pc[h] # "idle", stage # "idle",
         pc[h] \in Early <=> stage \in Early,
         stage \in Counting => prev[h] = {tick[h]},
         UNCHANGED <<hashSlot, no, tick, prev, ticks, agreed, locks>>
  PROVE  RingInv'
<1>1. ShapeInv'
  BY DEF RingInv, ShapeInv
<1>2. NumberInv'
  BY DEF RingInv, ShapeInv, NumberInv
<1>3. AgreeInv'
  BY DEF RingInv, ShapeInv, AgreeInv, AgreedBesides
<1>4. LockInv'
  BY DEF RingInv, LockInv, AgreedBesides
<1> QED
  BY <1>1, <1>2, <1>3, <1>4 DEF RingInv

\* A handler that returns, and may have left its hash in the slot.
LEMMA DoneRing ==
  ASSUME RingInv, NEW h \in Conns, Done(h), UNCHANGED <<ticks, agreed, locks>>,
         hashSlot' = hashSlot \/ (hashSlot' = {tick[h]} /\ pc[h] \notin Early \cup {"idle"})
  PROVE  RingInv'
<1>1. /\ pc' = [pc EXCEPT ![h] = "idle"]
      /\ DOMAIN no' = Conns /\ DOMAIN tick' = Conns /\ DOMAIN prev' = Conns
      /\ \A g \in Conns \ {h} : no'[g] = no[g] /\ tick'[g] = tick[g] /\ prev'[g] = prev[g]
  BY DEF Done, Goto, RingInv, ShapeInv
<1>2. ShapeInv'
  BY <1>1 DEF RingInv, ShapeInv
<1>3. NumberInv'
  BY <1>1 DEF RingInv, ShapeInv, NumberInv
<1>4. AgreeInv'
  <2>1. \A v \in hashSlot' : \E a \in agreed : a[2] = v
    <3>1. pc[h] \notin Early \cup {"idle"} => <<no[h], tick[h]>> \in agreed
      BY DEF RingInv, AgreeInv
    <3> QED
      BY <3>1 DEF RingInv, AgreeInv
  <2> QED
    BY <1>1, <2>1 DEF RingInv, ShapeInv, AgreeInv, AgreedBesides, Early, Counting, Locking
<1>5. LockInv'
  BY DEF RingInv, LockInv, AgreedBesides
<1> QED
  BY <1>2, <1>3, <1>4, <1>5 DEF RingInv

LEMMA AgreesRing ==
  ASSUME RingInv, NEW h \in Conns, Agrees(h)
  PROVE  RingInv'
<1>1. /\ pc[h] = "compare" /\ pc' = [pc EXCEPT ![h] = "decide"]
      /\ prev' = [prev EXCEPT ![h] = hashSlot]
      /\ agreed' = agreed \cup {<<no[h], tick[h]>>}
      /\ UNCHANGED <<hashSlot, no, tick, ticks, locks>>
  BY DEF Agrees, Goto, slots
<1>2. ShapeInv'
  BY <1>1 DEF RingInv, ShapeInv
<1>3. NumberInv'
  BY <1>1 DEF RingInv, ShapeInv, NumberInv
<1>4. \A i, v : AgreedBesides(i, v) => AgreedBesides(i, v)'
  BY <1>1 DEF AgreedBesides
<1>5. \A v \in hashSlot : AgreedBesides(no[h], v)
  BY <1>1 DEF RingInv, AgreeInv, AgreedBesides, Early
<1>6. AgreeInv'
  <2>1. \A v \in hashSlot' : \E a \in agreed' : a[2] = v
    BY <1>1 DEF RingInv, AgreeInv
  <2>2. ASSUME NEW g \in Conns
        PROVE  /\ pc'[g] \in Early => \A a \in agreed' : a[1] # no'[g]
               /\ pc'[g] \notin Early \cup {"idle"} =>
                    /\ <<no'[g], tick'[g]>> \in agreed'
                    /\ \A v \in prev'[g] : AgreedBesides(no[g], v)'
               /\ pc'[g] \in Counting => prev'[g] = {tick'[g]}
    <3>1. CASE g = h
      BY <1>1, <1>4, <1>5, <3>1 DEF RingInv, ShapeInv, Early, Counting, Locking
    <3>2. CASE g # h
      <4>1. pc'[g] = pc[g] /\ prev'[g] = prev[g]
        BY <1>1, <3>2 DEF RingInv, ShapeInv
      <4>2. pc[g] \in Early => no[g] # no[h]
        BY <1>1, <3>2 DEF RingInv, NumberInv, Early
      <4> QED
        BY <1>1, <1>4, <4>1, <4>2 DEF RingInv, AgreeInv
    <3> QED
      BY <3>1, <3>2
  <2> QED
    BY <1>1, <2>1, <2>2 DEF AgreeInv, AgreedBesides
<1>7. LockInv'
  BY <1>1 DEF RingInv, LockInv, AgreedBesides
<1> QED
  BY <1>2, <1>3, <1>6, <1>7 DEF RingInv

LEMMA DecideRing ==
  ASSUME RingInv, NEW h \in Conns, Decide(h)
  PROVE  RingInv'
<1>1. CASE prev[h] = {tick[h]}
  BY <1>1, MoveRing DEF Decide, Goto, slots, found, history, Early
<1>2. CASE prev[h] # {tick[h]}
  BY <1>2, MoveRing DEF Decide, Goto, slots, found, history, Early, Counting, Locking
<1> QED
  BY <1>1, <1>2

LEMMA BumpRing ==
  ASSUME RingInv, NEW h \in Conns, Bump(h)
  PROVE  RingInv'
<1>1. CASE ~ (count[h] + 1 >= Rounds)
  BY <1>1, DoneRing DEF Bump
<1>2. CASE count[h] + 1 >= Rounds
  <2>1. /\ pc[h] = "bump" /\ pc' = [pc EXCEPT ![h] = "lock"]
        /\ locks' = locks \cup {<<no[h], tick[h]>>}
        /\ UNCHANGED <<hashSlot, no, tick, prev, ticks, agreed>>
    BY <1>2 DEF Bump, StartLock, Goto
  <2>2. prev[h] = {tick[h]} /\ AgreedBesides(no[h], tick[h])
    BY <2>1 DEF RingInv, AgreeInv, Early, Counting
  <2>3. ShapeInv'
    BY <2>1 DEF RingInv, ShapeInv
  <2>4. NumberInv'
    BY <2>1 DEF RingInv, ShapeInv, NumberInv
  <2>5. AgreeInv'
    BY <2>1, <2>2 DEF RingInv, ShapeInv, AgreeInv, AgreedBesides, Early, Counting, Locking
  <2>6. LockInv'
    BY <2>1, <2>2 DEF RingInv, LockInv, AgreedBesides
  <2> QED
    BY <2>3, <2>4, <2>5, <2>6 DEF RingInv
<1> QED
  BY <1>1, <1>2

\* The hash slot is set once more before the rewards are paid.
LEMMA SealRing ==
  ASSUME RingInv, NEW h \in Conns, Seal(h)
  PROVE  RingInv'
<1>1. /\ pc[h] = "lock" /\ pc' = [pc EXCEPT ![h] = "pay"] /\ hashSlot' = {tick[h]}
      /\ UNCHANGED <<no, tick, prev, ticks, agreed, locks>>
  BY DEF Seal, Goto, found, history
<1>2. <<no[h], tick[h]>> \in agreed /\ prev[h] = {tick[h]}
  BY <1>1 DEF RingInv, AgreeInv, Early, Counting, Locking
<1>3. ShapeInv'
  BY <1>1 DEF RingInv, ShapeInv
<1>4. NumberInv'
  BY <1>1 DEF RingInv, ShapeInv, NumberInv
<1>5. AgreeInv'
  BY <1>1, <1>2 DEF RingInv, ShapeInv, AgreeInv, AgreedBesides, Early, Counting, Locking
<1>6. LockInv'
  BY <1>1 DEF RingInv, LockInv, AgreedBesides
<1> QED
  BY <1>3, <1>4, <1>5, <1>6 DEF RingInv

\* The other steps inside a handler.
LEMMA InsideRing ==
  ASSUME RingInv, NEW h \in Conns,
         \/ TakeRing(h) \/ ReadCount(h) \/ ResetCount(h)
         \/ ReadWitnesses(h) \/ EnterWitness(h) \/ ReadBalances(h)
  PROVE  RingInv'
<1>0. pc[h] \in Counting => prev[h] = {tick[h]}
  BY DEF RingInv, AgreeInv
<1>1. CASE TakeRing(h)
  BY <1>1, MoveRing DEF TakeRing, Goto, slots, found, history, Early, Counting, Locking
<1>2. CASE ReadCount(h)
  BY <1>0, <1>2, MoveRing DEF ReadCount, Goto, slots, history, Early, Counting, Locking
<1>3. CASE ResetCount(h)
  BY <1>3, MoveRing DEF ResetCount, Goto, found, history, Early, Counting, Locking
<1>4. CASE ReadWitnesses(h)
  BY <1>0, <1>4, MoveRing DEF ReadWitnesses, Goto, slots, history, Early, Counting, Locking
<1>5. CASE EnterWitness(h)
  BY <1>0, <1>5, MoveRing DEF EnterWitness, Goto, history, Early, Counting, Locking
<1>6. CASE ReadBalances(h)
  BY <1>0, <1>6, MoveRing DEF ReadBalances, Goto, slots, history, Early, Counting, Locking
<1> QED
  BY <1>1, <1>2, <1>3, <1>4, <1>5, <1>6

\* The steps that end a handler.
LEMMA EndRing ==
  ASSUME RingInv, NEW h \in Conns, Differs(h) \/ MarkHash(h) \/ Distribute(h) \/ Abort(h)
  PROVE  RingInv'
<1>1. CASE Differs(h)
  BY <1>1, DoneRing DEF Differs, slots, history
<1>2. CASE MarkHash(h)
  BY <1>2, DoneRing DEF MarkHash, history, Early
<1>3. CASE Distribute(h)
  BY <1>3, DoneRing DEF Distribute
<1>4. CASE Abort(h)
  BY <1>4, DoneRing DEF Abort, slots
<1> QED
  BY <1>1, <1>2, <1>3, <1>4

LEMMA StepRing == RingInv /\ [Next]_vars => RingInv'
<1> SUFFICES ASSUME RingInv, [Next]_vars PROVE RingInv'
  OBVIOUS
<1>1. CASE UNCHANGED vars
  BY <1>1 DEF RingInv, ShapeInv, NumberInv, AgreeInv, LockInv, AgreedBesides, vars, slots, found, history
<1>2. CASE Next
  BY <1>2, ReceiveRing, AgreesRing, DecideRing, BumpRing, SealRing, InsideRing, EndRing DEF Next
<1> QED
  BY <1>1, <1>2

\* tick_handler locks a ring only after two ticks agreed on it, although the
\* hash and the count are read and written in separate steps.
THEOREM LockNeedsTwo == Spec => []LockedTwice
<1>1. RingInv => LockedTwice
  BY DEF RingInv, LockInv, AgreedBesides, LockedTwice
<1> QED
  BY <1>1, InitRing, StepRing, PTL DEF Spec

-----------------------------------------------------------------------------
(* Types.  The count is written without looking at it again, so that it    *)
(* stays below the number of ticks needs an argument: every handler writes  *)
(* it once, and those that have not yet are as many ticks it does not      *)
(* count.                                                                   *)

\* The handlers that may still write the count.
Pending == {h \in Conns : pc[h] \in {"ring", "compare", "decide", "read", "bump", "reset"}}

CountInv ==
  /\ IsFiniteSet(Pending)
  /\ countSlot + Cardinality(Pending) <= ticks
  /\ \A h \in Conns : pc[h] = "bump" => count[h] + Cardinality(Pending) <= ticks

TickTypes == TypeOK /\ CountInv

\* A ring hash counts the seeds at every address.
LEMMA HashType ==
  ASSUME NEW ring \in SUBSET Seeds
  PROVE  Hash(ring) \in Hashes
<1>1. IsFiniteSet(Seeds)
  BY TickConstants, FS_Product DEF Seeds
<1>2. \A x \in Addrs : Cardinality({s \in ring : s[1] = x}) \in Nat
  <2> TAKE x \in Addrs
  <2>1. {s \in ring : s[1] = x} \subseteq Seeds
    OBVIOUS
  <2> QED
    BY <1>1, <2>1, FS_Subset, FS_CardinalityType
<1> QED
  BY <1>2 DEF Hash, Hashes

\* The reward divided by the size of the ring, rounded down.
LEMMA ShareType ==
  ASSUME NEW ring \in SUBSET Seeds
  PROVE  Share(ring) \in Nat
<1>1. IsFiniteSet(ring)
  BY TickConstants, FS_Product, FS_Subset DEF Seeds
<1>2. CASE ring = {}
  BY <1>2 DEF Share
<1>3. CASE ring # {}
  <2>1. Cardinality(ring) \in Nat /\ Cardinality(ring) > 0
    BY <1>1, <1>3, FS_CardinalityType, FS_EmptySet
  <2>2. ASSUME NEW r \in Nat, NEW k \in Nat, k > 0 PROVE r \div k \in Nat
    BY <2>2
  <2>3. Reward \in Nat
    BY TickConstants
  <2>4. Reward \div Cardinality(ring) \in Nat
    BY <2>1, <2>2, <2>3
  <2> QED
    BY <1>3, <2>4 DEF Share
<1> QED
  BY <1>2, <1>3

LEMMA EarnedType ==
  ASSUME NEW ring \in SUBSET Seeds, NEW i \in Ids
  PROVE  Earned(ring, i) \in Nat
<1>1. IsFiniteSet(ring)
  BY TickConstants, FS_Product, FS_Subset DEF Seeds
<1>2. {s \in ring : s[2] = i} \subseteq ring
  OBVIOUS
<1>3. Cardinality({s \in ring : s[2] = i}) \in Nat
  BY <1>1, <1>2, FS_Subset, FS_CardinalityType
<1>4. ASSUME NEW x \in Nat, NEW y \in Nat PROVE x * y \in Nat
  OBVIOUS
<1> QED
  BY <1>3, <1>4, ShareType DEF Earned

LEMMA TypeInit == Init => TickTypes
<1> SUFFICES ASSUME Init PROVE TickTypes
  OBVIOUS
<1>1. Pending = {}
  BY DEF Init, Pending
<1>2. IsFiniteSet(Pending) /\ Cardinality(Pending) = 0
  BY <1>1, FS_EmptySet
<1>3. CountInv
  BY <1>2 DEF Init, CountInv
<1>4. disturbed \in BOOLEAN
  BY Zenon DEF Init
<1>5. reg \subseteq Seeds /\ countSlot \in 0 .. MaxTicks /\ ticks \in 0 .. MaxTicks
  BY TickConstants DEF Init
<1>6. balances \in [Ids -> Nat] /\ due \in [Ids -> Nat] /\ paid \in [Ids -> Nat]
  BY DEF Init
<1>7. /\ pc \in [Conns -> Stages] /\ no \in [Conns -> 0 .. MaxTicks] /\ count \in [Conns -> 0 .. MaxTicks]
      /\ tick \in [Conns -> Hashes] /\ oldBals \in [Conns -> [Ids -> Nat]]
  BY TickConstants DEF Init, Hashes, Stages
<1> QED
  BY <1>3, <1>4, <1>5, <1>6, <1>7 DEF TickTypes, TypeOK, Init

\* A handler joins, stays among or leaves those that may write the count.
LEMMA PendingStep ==
  ASSUME TypeOK, IsFiniteSet(Pending), NEW h \in Conns, NEW stage,
         pc' = [pc EXCEPT ![h] = stage]
  PROVE  /\ IsFiniteSet(Pending')
         /\ h \notin Pending /\ h \in Pending' => Cardinality(Pending') = Cardinality(Pending) + 1
         /\ h \in Pending /\ h \notin Pending' => Cardinality(Pending') = Cardinality(Pending) - 1
         /\ (h \in Pending <=> h \in Pending') => Cardinality(Pending') = Cardinality(Pending)
<1>1. \A g \in Conns \ {h} : g \in Pending' <=> g \in Pending
  BY DEF Pending, TypeOK
<1>2. Pending \subseteq Conns /\ Pending' \subseteq Conns
  BY DEF Pending
<1>3. CASE h \notin Pending /\ h \in Pending'
  <2>1. Pending' = Pending \cup {h}
    BY <1>1, <1>2, <1>3
  <2> QED
    BY <1>3, <2>1, FS_AddElement
<1>4. CASE h \in Pending /\ h \notin Pending'
  <2>1. Pending' = Pending \ {h}
    BY <1>1, <1>2, <1>4
  <2> QED
    BY <1>4, <2>1, FS_RemoveElement
<1>5. CASE h \in Pending <=> h \in Pending'
  <2>1. Pending' = Pending
    BY <1>1, <1>2, <1>5
  <2> QED
    BY <1>5, <2>1
<1> QED
  BY <1>3, <1>4, <1>5

\* The variables of a handler have their types again when it returns.
LEMMA DoneTypes ==
  ASSUME TypeOK, NEW h \in Conns, Done(h)
  PROVE  /\ pc' \in [Conns -> Stages]
         /\ no' \in [Conns -> 0 .. MaxTicks]
         /\ tick' \in [Conns -> Hashes]
         /\ local' \in [Conns -> SUBSET Seeds]
         /\ prev' \in [Conns -> SUBSET Hashes]
         /\ count' \in [Conns -> 0 .. MaxTicks]
         /\ todo' \in [Conns -> SUBSET Seeds]
         /\ oldWits' \in [Conns -> SUBSET Seeds]
         /\ oldBals' \in [Conns -> [Ids -> Nat]]
<1>1. 0 \in 0 .. MaxTicks /\ [x \in Addrs |-> 0] \in Hashes /\ [i \in Ids |-> 0] \in [Ids -> Nat] /\ "idle" \in Stages
  BY TickConstants DEF Hashes, Stages
<1>2. pc' \in [Conns -> Stages]
  BY <1>1 DEF Done, Goto, TypeOK
<1>3. no' \in [Conns -> 0 .. MaxTicks] /\ count' \in [Conns -> 0 .. MaxTicks]
  BY <1>1 DEF Done, TypeOK
<1>4. tick' \in [Conns -> Hashes]
  BY <1>1 DEF Done, TypeOK
<1>5. local' \in [Conns -> SUBSET Seeds] /\ prev' \in [Conns -> SUBSET Hashes]
  BY DEF Done, TypeOK
<1>6. todo' \in [Conns -> SUBSET Seeds] /\ oldWits' \in [Conns -> SUBSET Seeds]
  BY DEF Done, TypeOK
<1>7. oldBals' \in [Conns -> [Ids -> Nat]]
  BY <1>1 DEF Done, TypeOK
<1> QED
  BY <1>2, <1>3, <1>4, <1>5, <1>6, <1>7

\* The count stays in its bounds when a handler moves on without writing it.
LEMMA CountMove ==
  ASSUME TickTypes, NEW h \in Conns, NEW stage, pc' = [pc EXCEPT ![h] = stage],
         UNCHANGED <<countSlot, ticks>>,
         stage \in {"ring", "compare", "decide", "read", "bump", "reset"} => h \in Pending,
         stage # "bump", \A g \in Conns \ {h} : count'[g] = count[g]
  PROVE  CountInv'
<1>1. h \in Pending' <=> stage \in {"ring", "compare", "decide", "read", "bump", "reset"}
  BY DEF Pending, TickTypes, TypeOK
<1>2. IsFiniteSet(Pending') /\ Cardinality(Pending') \in Nat /\ Cardinality(Pending) \in Nat
  BY PendingStep, FS_CardinalityType DEF TickTypes, CountInv
<1>3. Cardinality(Pending') <= Cardinality(Pending)
  <2>1. CASE h \in Pending /\ h \notin Pending'
    <3>1. Cardinality(Pending') = Cardinality(Pending) - 1
      BY <2>1, PendingStep DEF TickTypes, CountInv
    <3> QED
      BY <1>2, <3>1
  <2>2. CASE h \in Pending <=> h \in Pending'
    <3>1. Cardinality(Pending') = Cardinality(Pending)
      BY <2>2, PendingStep DEF TickTypes, CountInv
    <3> QED
      BY <1>2, <3>1
  <2> QED
    BY <1>1, <2>1, <2>2
<1>4. countSlot \in Nat /\ ticks \in Nat
  BY DEF TickTypes, TypeOK
<1>5. countSlot' + Cardinality(Pending') <= ticks'
  BY <1>2, <1>3, <1>4 DEF TickTypes, CountInv
<1>6. ASSUME NEW g \in Conns, pc'[g] = "bump"
      PROVE  count'[g] + Cardinality(Pending') <= ticks'
  <2>1. g # h /\ pc[g] = "bump" /\ count'[g] = count[g] /\ count[g] \in Nat
    BY <1>6 DEF TickTypes, TypeOK
  <2>2. count[g] + Cardinality(Pending) <= ticks
    BY <2>1 DEF TickTypes, CountInv
  <2> QED
    BY <1>2, <1>3, <1>4, <2>1, <2>2
<1> QED
  BY <1>2, <1>5, <1>6 DEF CountInv

LEMMA ReceiveTypes ==
  ASSUME TickTypes, NEW h \in Conns, Receive(h)
  PROVE  TickTypes'
<1>1. /\ pc[h] = "idle" /\ ticks < MaxTicks /\ ticks' = ticks + 1
      /\ no' = [no EXCEPT ![h] = ticks + 1] /\ pc' = [pc EXCEPT ![h] = "ring"]
      /\ UNCHANGED <<slots, local, found, history>>
  BY DEF Receive, Goto
<1>2. PICK ring \in Rings : /\ tick' = [tick EXCEPT ![h] = Hash(ring)]
                            /\ \/ \E offer \in Offers(ring) : reg' = reg \cup NewSeeds(offer)
                               \/ reg' = reg
  BY DEF Receive
<1>3. ring \in SUBSET Seeds
  BY TickConstants
<1>4. reg' \subseteq Seeds
  BY <1>2, <1>3 DEF TickTypes, TypeOK, Offers, NewSeeds
<1>5. tick' \in [Conns -> Hashes]
  BY <1>2, <1>3, HashType DEF TickTypes, TypeOK
<1>6. MaxTicks \in Nat /\ ticks \in Nat
  BY TickConstants DEF TickTypes, TypeOK
<1>7. ticks' \in 0 .. MaxTicks /\ no' \in [Conns -> 0 .. MaxTicks]
  BY <1>1, <1>6 DEF TickTypes, TypeOK
<1>8. pc' \in [Conns -> Stages]
  BY <1>1 DEF TickTypes, TypeOK, Stages
<1>9. TypeOK'
  BY <1>1, <1>4, <1>5, <1>7, <1>8 DEF TickTypes, TypeOK, slots, found, history
<1>10. CountInv'
  <2>1. h \notin Pending /\ h \in Pending'
    BY <1>1 DEF Pending, TickTypes, TypeOK
  <2>2. IsFiniteSet(Pending') /\ Cardinality(Pending') = Cardinality(Pending) + 1
    BY <1>1, <2>1, PendingStep DEF TickTypes, CountInv
  <2>3. Cardinality(Pending) \in Nat /\ countSlot \in Nat
    BY FS_CardinalityType DEF TickTypes, CountInv, TypeOK
  <2>4. UNCHANGED <<countSlot, count>>
    BY <1>1 DEF slots, found
  <2>5. countSlot' + Cardinality(Pending') <= ticks'
    BY <1>1, <1>6, <2>2, <2>3, <2>4 DEF TickTypes, CountInv
  <2>6. ASSUME NEW g \in Conns, pc'[g] = "bump"
        PROVE  count'[g] + Cardinality(Pending') <= ticks'
    <3>1. pc[g] = "bump" /\ count'[g] = count[g] /\ count[g] \in Nat
      BY <1>1, <2>4, <2>6 DEF TickTypes, TypeOK
    <3>2. count[g] + Cardinality(Pending) <= ticks
      BY <3>1 DEF TickTypes, CountInv
    <3> QED
      BY <1>1, <1>6, <2>2, <2>3, <3>1, <3>2
  <2> QED
    BY <2>2, <2>5, <2>6 DEF CountInv
<1> QED
  BY <1>9, <1>10 DEF TickTypes

\* The steps up to the decision.
LEMMA CompareTypes ==
  ASSUME TickTypes, RingInv, NEW h \in Conns,
         TakeRing(h) \/ Differs(h) \/ Agrees(h) \/ Decide(h)
  PROVE  TickTypes'
<1>1. CASE TakeRing(h)
  <2>1. /\ pc[h] = "ring" /\ pc' = [pc EXCEPT ![h] = "compare"] /\ local' = [local EXCEPT ![h] = reg]
        /\ UNCHANGED <<reg, slots, no, tick, found, ticks, history>>
    BY <1>1 DEF TakeRing, Goto
  <2>2. pc' \in [Conns -> Stages] /\ local' \in [Conns -> SUBSET Seeds]
    BY <2>1 DEF TickTypes, TypeOK, Stages
  <2>3. TypeOK'
    BY <2>1, <2>2 DEF TickTypes, TypeOK, slots, found, history
  <2>4. h \in Pending /\ UNCHANGED <<countSlot, ticks, count>>
    BY <2>1 DEF Pending, slots, found
  <2>5. CountInv'
    BY <2>1, <2>4, CountMove
  <2> QED
    BY <2>3, <2>5 DEF TickTypes
<1>2. CASE Differs(h)
  <2>1. Done(h) /\ UNCHANGED <<reg, slots, ticks, history>>
    BY <1>2 DEF Differs
  <2>2. TypeOK'
    BY <2>1, DoneTypes DEF TickTypes, TypeOK, slots, history
  <2>3. /\ pc' = [pc EXCEPT ![h] = "idle"] /\ UNCHANGED <<countSlot, ticks>>
        /\ \A g \in Conns \ {h} : count'[g] = count[g]
    BY <2>1 DEF Done, Goto, slots, TickTypes, TypeOK
  <2>4. CountInv'
    BY <2>3, CountMove
  <2> QED
    BY <2>2, <2>4 DEF TickTypes
<1>3. CASE Agrees(h)
  <2>1. /\ pc[h] = "compare" /\ pc' = [pc EXCEPT ![h] = "decide"]
        /\ prev' = [prev EXCEPT ![h] = hashSlot]
        /\ agreed' = agreed \cup {<<no[h], tick[h]>>}
        /\ UNCHANGED <<reg, slots, no, tick, local, count, todo, oldWits, oldBals, ticks,
                       locks, disturbed, members, due, paid>>
    BY <1>3 DEF Agrees, Goto
  <2>2. pc' \in [Conns -> Stages] /\ prev' \in [Conns -> SUBSET Hashes]
    BY <2>1 DEF TickTypes, TypeOK, Stages
  <2>3. no[h] \in 1 .. MaxTicks /\ tick[h] \in Hashes
    <3>1. no[h] \in 1 .. ticks
      BY <2>1 DEF RingInv, NumberInv
    <3> QED
      BY <3>1, TickConstants DEF TickTypes, TypeOK
  <2>4. agreed' \subseteq (1 .. MaxTicks) \X Hashes /\ locks' \subseteq agreed'
    <3>1. agreed \subseteq (1 .. MaxTicks) \X Hashes /\ locks \subseteq agreed
      BY DEF TickTypes, TypeOK
    <3> QED
      BY <2>1, <2>3, <3>1
  <2>5. TypeOK'
    BY <2>1, <2>2, <2>4 DEF TickTypes, TypeOK, slots
  <2>6. h \in Pending /\ UNCHANGED <<countSlot, ticks, count>>
    BY <2>1 DEF Pending, slots
  <2>7. CountInv'
    BY <2>1, <2>6, CountMove
  <2> QED
    BY <2>5, <2>7 DEF TickTypes
<1>4. CASE Decide(h)
  <2>1. PICK stage \in {"read", "reset"} : pc' = [pc EXCEPT ![h] = stage]
    BY <1>4 DEF Decide, Goto
  <2>2. pc[h] = "decide" /\ UNCHANGED <<reg, slots, no, tick, local, found, ticks, history>>
    BY <1>4 DEF Decide
  <2>3. pc' \in [Conns -> Stages]
    BY <2>1 DEF TickTypes, TypeOK, Stages
  <2>4. TypeOK'
    BY <2>2, <2>3 DEF TickTypes, TypeOK, slots, found, history
  <2>5. h \in Pending /\ UNCHANGED <<countSlot, ticks, count>>
    BY <2>2 DEF Pending, slots, found
  <2>6. CountInv'
    BY <2>1, <2>5, CountMove
  <2> QED
    BY <2>4, <2>6 DEF TickTypes
<1> QED
  BY <1>1, <1>2, <1>3, <1>4

\* The steps on the count.
LEMMA CountTypes ==
  ASSUME TickTypes, RingInv, NEW h \in Conns,
         ResetCount(h) \/ MarkHash(h) \/ ReadCount(h) \/ Bump(h)
  PROVE  TickTypes'
<1>1. Cardinality(Pending) \in Nat /\ countSlot \in Nat /\ ticks \in Nat /\ count[h] \in Nat /\ MaxTicks \in Nat
  BY FS_CardinalityType, TickConstants DEF TickTypes, CountInv, TypeOK
<1>2. ticks <= MaxTicks
  BY TickConstants DEF TickTypes, TypeOK
\* Those that write the count leave the pending ones.
<1>3. ASSUME NEW stage, stage \notin {"ring", "compare", "decide", "read", "bump", "reset"},
             pc' = [pc EXCEPT ![h] = stage], h \in Pending, UNCHANGED ticks,
             NEW k \in Nat, countSlot' = k, k + Cardinality(Pending) <= ticks + 1,
             \A g \in Conns \ {h} : count'[g] = count[g]
      PROVE  CountInv' /\ k \in 0 .. MaxTicks
  <2>1. h \notin Pending'
    BY <1>3 DEF Pending, TickTypes, TypeOK
  <2>2. IsFiniteSet(Pending') /\ Cardinality(Pending') = Cardinality(Pending) - 1
    BY <1>3, <2>1, PendingStep DEF TickTypes, CountInv
  <2>3. Cardinality(Pending') \in Nat
    BY <2>2, FS_CardinalityType
  <2>4. countSlot' + Cardinality(Pending') <= ticks'
    BY <1>1, <1>3, <2>2
  <2>5. ASSUME NEW g \in Conns, pc'[g] = "bump"
        PROVE  count'[g] + Cardinality(Pending') <= ticks'
    <3>1. pc[g] = "bump" /\ count'[g] = count[g] /\ count[g] \in Nat
      BY <1>3, <2>5 DEF TickTypes, TypeOK
    <3>2. count[g] + Cardinality(Pending) <= ticks
      BY <3>1 DEF TickTypes, CountInv
    <3> QED
      BY <1>1, <1>3, <2>2, <3>1, <3>2
  <2>6. k <= ticks
    BY <1>1, <1>3, <2>2, <2>3
  <2>7. CountInv'
    BY <2>2, <2>4, <2>5 DEF CountInv
  <2> QED
    BY <1>1, <1>2, <2>6, <2>7
<1>4. CASE ResetCount(h)
  <2>1. /\ pc[h] = "reset" /\ countSlot' = 1 /\ pc' = [pc EXCEPT ![h] = "mark"]
        /\ UNCHANGED <<reg, hashSlot, witnesses, balances, no, tick, local, found, ticks, history>>
    BY <1>4 DEF ResetCount, Goto
  <2>2. h \in Pending /\ UNCHANGED count
    BY <2>1 DEF Pending, found
  <2>3. 1 + Cardinality(Pending) <= ticks + 1
    BY <1>1 DEF TickTypes, CountInv
  <2>4. CountInv' /\ countSlot' \in 0 .. MaxTicks
    BY <1>3, <2>1, <2>2, <2>3
  <2>5. pc' \in [Conns -> Stages]
    BY <2>1 DEF TickTypes, TypeOK, Stages
  <2> QED
    BY <2>1, <2>4, <2>5 DEF TickTypes, TypeOK, found, history
<1>5. CASE MarkHash(h)
  <2>1. /\ Done(h) /\ hashSlot' = {tick[h]} /\ UNCHANGED <<reg, countSlot, witnesses, balances, ticks, history>>
    BY <1>5 DEF MarkHash
  <2>2. hashSlot' \subseteq Hashes
    BY <2>1 DEF TickTypes, TypeOK
  <2>3. TypeOK'
    BY <2>1, <2>2, DoneTypes DEF TickTypes, TypeOK, history
  <2>4. pc' = [pc EXCEPT ![h] = "idle"] /\ \A g \in Conns \ {h} : count'[g] = count[g]
    BY <2>1 DEF Done, Goto, TickTypes, TypeOK
  <2>5. CountInv'
    BY <2>1, <2>4, CountMove
  <2> QED
    BY <2>3, <2>5 DEF TickTypes
<1>6. CASE ReadCount(h)
  <2>1. /\ pc[h] = "read" /\ count' = [count EXCEPT ![h] = countSlot] /\ pc' = [pc EXCEPT ![h] = "bump"]
        /\ UNCHANGED <<reg, slots, no, tick, local, prev, todo, oldWits, oldBals, ticks, history>>
    BY <1>6 DEF ReadCount, Goto
  <2>2. pc' \in [Conns -> Stages] /\ count' \in [Conns -> 0 .. MaxTicks]
    BY <2>1 DEF TickTypes, TypeOK, Stages
  <2>3. TypeOK'
    BY <2>1, <2>2 DEF TickTypes, TypeOK, slots, history
  <2>4. h \in Pending /\ h \in Pending' /\ UNCHANGED countSlot
    BY <2>1 DEF Pending, slots, TickTypes, TypeOK
  <2>5. IsFiniteSet(Pending') /\ Cardinality(Pending') = Cardinality(Pending)
    BY <2>1, <2>4, PendingStep DEF TickTypes, CountInv
  <2>6. ASSUME NEW g \in Conns, pc'[g] = "bump"
        PROVE  count'[g] + Cardinality(Pending') <= ticks'
    <3>1. CASE g = h
      BY <2>1, <2>5, <3>1 DEF TickTypes, TypeOK, CountInv
    <3>2. CASE g # h
      BY <2>1, <2>5, <2>6, <3>2 DEF TickTypes, TypeOK, CountInv
    <3> QED
      BY <3>1, <3>2
  <2>7. CountInv'
    BY <2>1, <2>4, <2>5, <2>6 DEF TickTypes, CountInv
  <2> QED
    BY <2>3, <2>7 DEF TickTypes
<1>7. CASE Bump(h)
  <2>1. /\ pc[h] = "bump" /\ countSlot' = count[h] + 1
        /\ UNCHANGED <<reg, hashSlot, witnesses, balances, ticks, agreed, paid>>
    BY <1>7 DEF Bump
  <2>2. h \in Pending
    BY <2>1 DEF Pending
  <2>3. count[h] + 1 \in Nat /\ (count[h] + 1) + Cardinality(Pending) <= ticks + 1
    BY <1>1, <2>1 DEF TickTypes, CountInv
  <2>4. CASE count[h] + 1 >= Rounds
    <3>1. /\ pc' = [pc EXCEPT ![h] = "lock"] /\ todo' = [todo EXCEPT ![h] = local[h]]
          /\ locks' = locks \cup {<<no[h], tick[h]>>}
          /\ UNCHANGED <<no, tick, local, prev, count, oldWits, oldBals>>
      BY <1>7, <2>4 DEF Bump, StartLock, Goto
    <3>2. pc' \in [Conns -> Stages] /\ todo' \in [Conns -> SUBSET Seeds]
      BY <3>1 DEF TickTypes, TypeOK, Stages
    <3>3. disturbed' \in BOOLEAN
      BY <1>7, <2>4 DEF Bump, StartLock
    <3>6. members' \subseteq Ids /\ due' \in [Ids -> Nat]
      <4>1. members' = members \cup {s[2] : s \in local[h]}
        BY <1>7, <2>4 DEF Bump, StartLock
      <4>2. due' = [i \in Ids |-> due[i] + Earned(local[h], i)]
        BY <1>7, <2>4 DEF Bump, StartLock
      <4>3. \A s \in local[h] : s[2] \in Ids
        BY DEF TickTypes, TypeOK, Seeds
      <4>4. \A i \in Ids : Earned(local[h], i) \in Nat /\ due[i] \in Nat
        BY EarnedType DEF TickTypes, TypeOK
      <4> QED
        BY <4>1, <4>2, <4>3, <4>4 DEF TickTypes, TypeOK
    <3>4. locks' \subseteq agreed'
      <4>1. <<no[h], tick[h]>> \in agreed
        BY <2>1 DEF RingInv, AgreeInv, Early
      <4> QED
        BY <2>1, <3>1, <4>1 DEF TickTypes, TypeOK
    <3>5. CountInv' /\ countSlot' \in 0 .. MaxTicks
      BY <1>3, <2>1, <2>2, <2>3, <3>1
    <3> QED
      BY <2>1, <3>1, <3>2, <3>3, <3>4, <3>5, <3>6 DEF TickTypes, TypeOK
  <2>5. CASE ~ (count[h] + 1 >= Rounds)
    <3>1. Done(h) /\ UNCHANGED <<locks, disturbed, members, due>>
      BY <1>7, <2>5 DEF Bump
    <3>2. pc' = [pc EXCEPT ![h] = "idle"] /\ \A g \in Conns \ {h} : count'[g] = count[g]
      BY <3>1 DEF Done, Goto, TickTypes, TypeOK
    <3>3. CountInv' /\ countSlot' \in 0 .. MaxTicks
      BY <1>3, <2>1, <2>2, <2>3, <3>2
    <3> QED
      BY <2>1, <3>1, <3>3, DoneTypes DEF TickTypes, TypeOK
  <2> QED
    BY <2>4, <2>5
<1> QED
  BY <1>4, <1>5, <1>6, <1>7

\* The steps of lock_witness_ring, and the abort of any handler.
LEMMA LockTypes ==
  ASSUME TickTypes, NEW h \in Conns,
         \/ ReadWitnesses(h) \/ EnterWitness(h) \/ Seal(h) \/ ReadBalances(h) \/ Distribute(h)
         \/ Abort(h)
  PROVE  TickTypes'
<1>1. \E stage \in {"enter", "lock", "pay", "write", "idle"} : pc' = [pc EXCEPT ![h] = stage]
  BY DEF ReadWitnesses, EnterWitness, Seal, ReadBalances, Distribute, Abort, Done, Goto
<1>2. CountInv'
  <2>1. UNCHANGED <<countSlot, ticks>>
    BY DEF ReadWitnesses, EnterWitness, Seal, ReadBalances, Distribute, Abort, slots
  <2>2. \A g \in Conns \ {h} : count'[g] = count[g]
    BY DEF ReadWitnesses, EnterWitness, Seal, ReadBalances, Distribute, Abort, Done, found, TickTypes, TypeOK
  <2> QED
    BY <1>1, <2>1, <2>2, CountMove
<1>3. pc' \in [Conns -> Stages]
  BY <1>1 DEF TickTypes, TypeOK, Stages
<1>4. CASE ReadWitnesses(h)
  <2>1. oldWits' \in [Conns -> SUBSET Seeds]
    BY <1>4 DEF ReadWitnesses, TickTypes, TypeOK
  <2> QED
    BY <1>2, <1>3, <1>4, <2>1 DEF ReadWitnesses, TickTypes, TypeOK, slots, history
<1>5. CASE EnterWitness(h)
  <2>1. PICK s \in todo[h] : /\ witnesses' = {w \in oldWits[h] : w[2] # s[2]} \cup {s}
                             /\ todo' = [todo EXCEPT ![h] = @ \ {s}]
    BY <1>5 DEF EnterWitness
  <2>2. todo[h] \subseteq Seeds /\ oldWits[h] \subseteq Seeds
    BY DEF TickTypes, TypeOK
  <2>3. witnesses' \subseteq Seeds /\ todo' \in [Conns -> SUBSET Seeds]
    BY <2>1, <2>2 DEF TickTypes, TypeOK
  <2> QED
    BY <1>2, <1>3, <1>5, <2>3 DEF EnterWitness, TickTypes, TypeOK, history
<1>6. CASE Seal(h)
  <2>1. hashSlot' \subseteq Hashes
    BY <1>6 DEF Seal, TickTypes, TypeOK
  <2> QED
    BY <1>2, <1>3, <1>6, <2>1 DEF Seal, TickTypes, TypeOK, found, history
<1>7. CASE ReadBalances(h)
  <2>1. oldBals' \in [Conns -> [Ids -> Nat]]
    BY <1>7 DEF ReadBalances, TickTypes, TypeOK
  <2> QED
    BY <1>2, <1>3, <1>7, <2>1 DEF ReadBalances, TickTypes, TypeOK, slots, history
<1>8. CASE Distribute(h)
  <2>1. \A i \in Ids : Earned(local[h], i) \in Nat /\ oldBals[h][i] \in Nat /\ paid[i] \in Nat
    BY EarnedType DEF TickTypes, TypeOK
  <2>2. balances' \in [Ids -> Nat] /\ paid' \in [Ids -> Nat]
    BY <1>8, <2>1 DEF Distribute
  <2>3. Done(h) /\ UNCHANGED <<reg, hashSlot, countSlot, witnesses, ticks, agreed, locks, disturbed, members, due>>
    BY <1>8 DEF Distribute
  <2> QED
    BY <1>2, <2>2, <2>3, DoneTypes DEF TickTypes, TypeOK
<1>9. CASE Abort(h)
  <2>1. Done(h) /\ UNCHANGED <<reg, slots, ticks, agreed, locks, members, due, paid>>
    BY <1>9 DEF Abort
  <2>2. disturbed' \in BOOLEAN
    BY <1>9 DEF Abort
  <2> QED
    BY <1>2, <2>1, <2>2, DoneTypes DEF TickTypes, TypeOK, slots
<1> QED
  BY <1>4, <1>5, <1>6, <1>7, <1>8, <1>9

LEMMA TypeStep == TickTypes /\ RingInv /\ [Next]_vars => TickTypes'
<1> SUFFICES ASSUME TickTypes, RingInv, [Next]_vars PROVE TickTypes'
  OBVIOUS
<1>1. CASE UNCHANGED vars
  BY <1>1 DEF TickTypes, TypeOK, CountInv, Pending, vars, slots, found, history
<1>2. CASE Next
  BY <1>2, ReceiveTypes, CompareTypes, CountTypes, LockTypes DEF Next
<1> QED
  BY <1>1, <1>2

\* Slots, handlers and histories keep their types; in particular tick_handler's
\* count, written from a value that may be stale, never exceeds the number of
\* ticks.
THEOREM TickTypeCorrect == Spec => []TypeOK
<1>1. TickTypes => TypeOK
  BY DEF TickTypes
<1> QED
  BY <1>1, InitRing, StepRing, TypeInit, TypeStep, PTL DEF Spec

-----------------------------------------------------------------------------
(* Witnesses and balances.  A handler writes back what it read before, and  *)
(* changes it in one place.  As long as no two handlers lock at the same    *)
(* time and none is aborted, what it read is what is there, and what is due *)
(* and not yet there is what the one handler that locks still has to enter  *)
(* and to pay.                                                              *)

NodesOf(seeds) == {s[2] : s \in seeds}
OnePerNode(seeds) == \A v, w \in seeds : v[2] = w[2] => v = w

\* At most one handler is locking.
Alone == \A g, h \in Conns : pc[g] \in Locking /\ pc[h] \in Locking => g = h

\* The nodes and the shares that are still to come from the handler that locks.
ToEnter == UNION {NodesOf(todo[h]) : h \in {g \in Conns : pc[g] \in {"lock", "enter"}}}
OnlyDue == /\ \A h \in Conns : pc[h] \in Locking => due = [i \in Ids |-> balances[i] + Earned(local[h], i)]
           /\ (\A h \in Conns : pc[h] \notin Locking) => due = balances

EntryInv ==
  /\ OnePerNode(witnesses)
  /\ \A h \in Conns : OnePerNode(oldWits[h])
  /\ disturbed \/ /\ Alone
                  /\ members \subseteq NodesOf(witnesses) \cup ToEnter
                  /\ \A h \in Conns : pc[h] = "enter" => oldWits[h] = witnesses

PaidInv ==
  /\ \A i \in Ids : balances[i] <= paid[i]
  /\ \A h \in Conns : pc[h] = "write" => \A i \in Ids : oldBals[h][i] <= paid[i]
  /\ disturbed \/ /\ Alone
                  /\ OnlyDue
                  /\ \A h \in Conns : pc[h] = "write" => oldBals[h] = balances

LEMMA EntryInit == Init => EntryInv /\ PaidInv
BY DEF Init, EntryInv, PaidInv, OnePerNode, Alone, OnlyDue, Locking

\* A handler that is not locking and does not start to.
LEMMA OutsideKeeps ==
  ASSUME TypeOK, EntryInv, PaidInv, NEW h \in Conns,
         pc[h] \notin Locking, pc'[h] \notin Locking, OnePerNode(oldWits'[h]),
         \A g \in Conns \ {h} : /\ pc'[g] = pc[g] /\ oldWits'[g] = oldWits[g]
                                /\ local'[g] = local[g] /\ todo'[g] = todo[g] /\ oldBals'[g] = oldBals[g],
         UNCHANGED <<witnesses, balances, members, due, paid>>, disturbed' <=> disturbed
  PROVE  EntryInv' /\ PaidInv'
<1>1. Alone => Alone'
  BY DEF Alone
<1>2. ToEnter' = ToEnter
  BY DEF ToEnter, NodesOf, Locking
<1>3. OnlyDue => OnlyDue'
  BY DEF OnlyDue
<1>4. EntryInv'
  BY <1>1, <1>2 DEF EntryInv, Locking, OnePerNode, NodesOf
<1>5. PaidInv'
  BY <1>1, <1>3 DEF PaidInv, Locking
<1> QED
  BY <1>4, <1>5

\* A handler outside lock_witness_ring.
LEMMA OutsideEntry ==
  ASSUME TypeOK, EntryInv, PaidInv, NEW h \in Conns,
         \/ Receive(h) \/ TakeRing(h) \/ Differs(h) \/ Agrees(h) \/ Decide(h)
         \/ ResetCount(h) \/ MarkHash(h) \/ ReadCount(h)
  PROVE  EntryInv' /\ PaidInv'
<1>1. PICK stage \in Stages \ Locking : pc' = [pc EXCEPT ![h] = stage]
  <2>1. \E stage \in {"ring", "compare", "idle", "decide", "read", "reset", "mark", "bump"} :
          pc' = [pc EXCEPT ![h] = stage]
    BY DEF Receive, TakeRing, Differs, Agrees, Decide, ResetCount, MarkHash, ReadCount, Done, Goto
  <2> QED
    BY <2>1 DEF Stages, Locking
<1>2. UNCHANGED <<witnesses, balances, disturbed, members, due, paid>>
  BY DEF Receive, TakeRing, Differs, Agrees, Decide, ResetCount, MarkHash, ReadCount, slots, history
<1>3. oldWits' = oldWits \/ oldWits' = [oldWits EXCEPT ![h] = {}]
  BY DEF Receive, TakeRing, Differs, Agrees, Decide, ResetCount, MarkHash, ReadCount, Done, found
<1>4. \A g \in Conns \ {h} : local'[g] = local[g] /\ todo'[g] = todo[g] /\ oldBals'[g] = oldBals[g]
  BY DEF Receive, TakeRing, Differs, Agrees, Decide, ResetCount, MarkHash, ReadCount, Done, found, TypeOK
<1>5. /\ pc'[h] \notin Locking
      /\ \A g \in Conns \ {h} : pc'[g] = pc[g] /\ oldWits'[g] = oldWits[g]
      /\ OnePerNode(oldWits'[h])
  BY <1>1, <1>3 DEF TypeOK, EntryInv, OnePerNode
<1>6. pc[h] \notin Locking
  BY DEF Receive, TakeRing, Differs, Agrees, Decide, ResetCount, MarkHash, ReadCount, Locking
<1> QED
  BY <1>2, <1>4, <1>5, <1>6, OutsideKeeps

\* A handler that starts to lock notes whether another one is at it.
LEMMA BumpEntry ==
  ASSUME TypeOK, EntryInv, PaidInv, NEW h \in Conns, Bump(h)
  PROVE  EntryInv' /\ PaidInv'
<1>1. pc[h] = "bump" /\ UNCHANGED <<witnesses, balances, paid>>
  BY DEF Bump
<1>2. CASE count[h] + 1 >= Rounds
  <2>1. /\ pc' = [pc EXCEPT ![h] = "lock"] /\ todo' = [todo EXCEPT ![h] = local[h]]
        /\ disturbed' <=> (disturbed \/ \E g \in Conns \ {h} : pc[g] \in Locking)
        /\ members' = members \cup NodesOf(local[h])
        /\ due' = [i \in Ids |-> due[i] + Earned(local[h], i)]
        /\ UNCHANGED <<local, oldWits, oldBals>>
    BY <1>2 DEF Bump, StartLock, Goto, NodesOf
  <2>2. /\ pc'[h] = "lock" /\ todo'[h] = local[h]
        /\ \A g \in Conns \ {h} : pc'[g] = pc[g] /\ todo'[g] = todo[g]
    BY <2>1 DEF TypeOK
  <2>3. ASSUME ~ disturbed'
        PROVE  /\ ~ disturbed /\ Alone' /\ \A g \in Conns : pc[g] \notin Locking
               /\ \A g \in Conns \ {h} : pc'[g] \notin Locking
    BY <1>1, <2>1, <2>2, <2>3 DEF Alone, Locking
  <2>4. EntryInv'
    <3>1. NodesOf(local[h]) \subseteq ToEnter'
      BY <2>2 DEF ToEnter, NodesOf
    <3>2. ~ disturbed' => ToEnter = {}
      BY <2>3 DEF ToEnter, Locking
    <3>3. ~ disturbed' => members' \subseteq NodesOf(witnesses) \cup ToEnter'
      BY <2>1, <2>3, <3>1, <3>2 DEF EntryInv
    <3>4. NodesOf(witnesses)' = NodesOf(witnesses)
      BY <1>1 DEF NodesOf
    <3> QED
      BY <1>1, <2>1, <2>2, <2>3, <3>3, <3>4 DEF EntryInv, OnePerNode
  <2>5. PaidInv'
    <3>1. ~ disturbed' => due = balances
      BY <2>3 DEF PaidInv, OnlyDue
    <3>2. ~ disturbed' => OnlyDue'
      BY <1>1, <2>1, <2>2, <2>3, <3>1 DEF OnlyDue, Locking
    <3> QED
      BY <1>1, <2>1, <2>2, <2>3, <3>2 DEF PaidInv
  <2> QED
    BY <2>4, <2>5
<1>3. CASE ~ (count[h] + 1 >= Rounds)
  <2>1. Done(h) /\ UNCHANGED <<disturbed, members, due>>
    BY <1>3 DEF Bump
  <2>2. /\ pc'[h] = "idle" /\ oldWits'[h] = {}
        /\ \A g \in Conns \ {h} : /\ pc'[g] = pc[g] /\ oldWits'[g] = oldWits[g]
                                  /\ local'[g] = local[g] /\ todo'[g] = todo[g] /\ oldBals'[g] = oldBals[g]
    BY <2>1 DEF Done, Goto, TypeOK
  <2> QED
    BY <1>1, <2>1, <2>2, OutsideKeeps DEF Locking, OnePerNode
<1> QED
  BY <1>2, <1>3

\* A handler goes on locking: what is due stays so.
LEMMA InsideKeeps ==
  ASSUME NEW h \in Conns, pc[h] \in Locking, pc'[h] \in Locking,
         \A g \in Conns \ {h} : pc'[g] = pc[g],
         UNCHANGED <<balances, local, due>>
  PROVE  (Alone => Alone') /\ (OnlyDue => OnlyDue')
<1>1. \A g \in Conns : pc'[g] \in Locking <=> pc[g] \in Locking
  OBVIOUS
<1>2. Alone => Alone'
  BY <1>1 DEF Alone
<1>3. OnlyDue => OnlyDue'
  BY <1>1 DEF OnlyDue
<1> QED
  BY <1>2, <1>3

\* The list of witnesses is read and written.
LEMMA WitnessEntry ==
  ASSUME TypeOK, EntryInv, PaidInv, NEW h \in Conns, ReadWitnesses(h) \/ EnterWitness(h)
  PROVE  EntryInv' /\ PaidInv'
<1>1. CASE ReadWitnesses(h)
  <2>1. /\ pc[h] = "lock" /\ pc' = [pc EXCEPT ![h] = "enter"] /\ oldWits' = [oldWits EXCEPT ![h] = witnesses]
        /\ UNCHANGED <<witnesses, balances, local, todo, oldBals, disturbed, members, due, paid>>
    BY <1>1 DEF ReadWitnesses, Goto, slots, history
  <2>2. /\ pc'[h] = "enter" /\ oldWits'[h] = witnesses
        /\ \A g \in Conns \ {h} : pc'[g] = pc[g] /\ oldWits'[g] = oldWits[g]
    BY <2>1 DEF TypeOK
  <2>3. (Alone => Alone') /\ (OnlyDue => OnlyDue')
    BY <2>1, <2>2, InsideKeeps DEF Locking
  <2>4. \A g \in Conns : pc'[g] \in {"lock", "enter"} <=> pc[g] \in {"lock", "enter"}
    BY <2>1, <2>2
  <2>5. ToEnter' = ToEnter
    BY <2>1, <2>4 DEF ToEnter, NodesOf
  <2>6. EntryInv'
    BY <2>1, <2>2, <2>3, <2>5 DEF EntryInv, OnePerNode, NodesOf
  <2>7. PaidInv'
    BY <2>1, <2>2, <2>3 DEF PaidInv
  <2> QED
    BY <2>6, <2>7
<1>2. CASE EnterWitness(h)
  <2>1. /\ pc[h] = "enter" /\ pc' = [pc EXCEPT ![h] = "lock"]
        /\ UNCHANGED <<balances, local, oldWits, oldBals, disturbed, members, due, paid>>
    BY <1>2 DEF EnterWitness, Goto, history
  <2>2. PICK s \in todo[h] : /\ witnesses' = {w \in oldWits[h] : w[2] # s[2]} \cup {s}
                             /\ todo' = [todo EXCEPT ![h] = @ \ {s}]
    BY <1>2 DEF EnterWitness
  <2>3. /\ pc'[h] = "lock" /\ todo'[h] = todo[h] \ {s}
        /\ \A g \in Conns \ {h} : pc'[g] = pc[g] /\ todo'[g] = todo[g]
    BY <2>1, <2>2 DEF TypeOK
  <2>4. (Alone => Alone') /\ (OnlyDue => OnlyDue')
    BY <2>1, <2>3, InsideKeeps DEF Locking
  <2>5. OnePerNode(witnesses')
    BY <2>2 DEF EntryInv, OnePerNode
  <2>6. ASSUME ~ disturbed
        PROVE  /\ NodesOf(witnesses) \cup {s[2]} \subseteq NodesOf(witnesses')
               /\ \A g \in Conns \ {h} : pc[g] # "enter"
    <3>1. oldWits[h] = witnesses
      BY <2>1, <2>6 DEF EntryInv
    <3>2. NodesOf(witnesses) \cup {s[2]} \subseteq NodesOf(witnesses')
      BY <2>2, <3>1 DEF NodesOf
    <3>3. \A g \in Conns \ {h} : pc[g] # "enter"
      BY <2>1, <2>6 DEF EntryInv, Alone, Locking
    <3> QED
      BY <3>2, <3>3
  <2>7. ToEnter \subseteq ToEnter' \cup {s[2]}
    <3> SUFFICES ASSUME NEW g \in Conns, pc[g] \in {"lock", "enter"}, NEW r \in todo[g], r[2] # s[2]
                 PROVE  r[2] \in ToEnter'
      BY DEF ToEnter, NodesOf
    <3>1. pc'[g] \in {"lock", "enter"} /\ r \in todo'[g]
      BY <2>3
    <3> QED
      BY <3>1 DEF ToEnter, NodesOf
  <2>8. EntryInv'
    <3>1. \A g \in Conns : OnePerNode(oldWits'[g])
      BY <2>1 DEF EntryInv
    <3>2. CASE disturbed
      BY <2>1, <2>5, <3>1, <3>2 DEF EntryInv
    <3>3. CASE ~ disturbed
      <4>1. Alone /\ members \subseteq NodesOf(witnesses) \cup ToEnter
        BY <3>3 DEF EntryInv
      <4>2. members' \subseteq NodesOf(witnesses') \cup ToEnter'
        BY <2>1, <2>6, <2>7, <3>3, <4>1
      <4> QED
        BY <2>1, <2>3, <2>4, <2>5, <2>6, <3>1, <3>3, <4>1, <4>2 DEF EntryInv
    <3> QED
      BY <3>2, <3>3
  <2>9. PaidInv'
    BY <2>1, <2>3, <2>4 DEF PaidInv
  <2> QED
    BY <2>8, <2>9
<1> QED
  BY <1>1, <1>2

\* The ring is sealed and the balances are read.
LEMMA SealEntry ==
  ASSUME TypeOK, EntryInv, PaidInv, NEW h \in Conns, Seal(h) \/ ReadBalances(h)
  PROVE  EntryInv' /\ PaidInv'
<1>1. CASE Seal(h)
  <2>1. /\ pc[h] = "lock" /\ todo[h] = {} /\ pc' = [pc EXCEPT ![h] = "pay"]
        /\ UNCHANGED <<witnesses, balances, local, todo, oldWits, oldBals, disturbed, members, due, paid>>
    BY <1>1 DEF Seal, Goto, found, history
  <2>2. pc'[h] = "pay" /\ \A g \in Conns \ {h} : pc'[g] = pc[g]
    BY <2>1 DEF TypeOK
  <2>3. (Alone => Alone') /\ (OnlyDue => OnlyDue')
    BY <2>1, <2>2, InsideKeeps DEF Locking
  <2>4. ToEnter \subseteq ToEnter'
    <3> SUFFICES ASSUME NEW g \in Conns, pc[g] \in {"lock", "enter"}, NEW r \in todo[g]
                 PROVE  r[2] \in ToEnter'
      BY DEF ToEnter, NodesOf
    <3>1. pc'[g] \in {"lock", "enter"} /\ r \in todo'[g]
      BY <2>1, <2>2
    <3> QED
      BY <3>1 DEF ToEnter, NodesOf
  <2>5. EntryInv'
    BY <2>1, <2>2, <2>3, <2>4 DEF EntryInv, OnePerNode, NodesOf
  <2>6. PaidInv'
    BY <2>1, <2>2, <2>3 DEF PaidInv
  <2> QED
    BY <2>5, <2>6
<1>2. CASE ReadBalances(h)
  <2>1. /\ pc[h] = "pay" /\ pc' = [pc EXCEPT ![h] = "write"] /\ oldBals' = [oldBals EXCEPT ![h] = balances]
        /\ UNCHANGED <<witnesses, balances, local, todo, oldWits, disturbed, members, due, paid>>
    BY <1>2 DEF ReadBalances, Goto, slots, history
  <2>2. /\ pc'[h] = "write" /\ oldBals'[h] = balances
        /\ \A g \in Conns \ {h} : pc'[g] = pc[g] /\ oldBals'[g] = oldBals[g]
    BY <2>1 DEF TypeOK
  <2>3. (Alone => Alone') /\ (OnlyDue => OnlyDue')
    BY <2>1, <2>2, InsideKeeps DEF Locking
  <2>4. \A g \in Conns : pc'[g] \in {"lock", "enter"} <=> pc[g] \in {"lock", "enter"}
    BY <2>1, <2>2
  <2>5. ToEnter' = ToEnter
    BY <2>1, <2>4 DEF ToEnter, NodesOf
  <2>6. EntryInv'
    BY <2>1, <2>2, <2>3, <2>5 DEF EntryInv, OnePerNode, NodesOf
  <2>7. PaidInv'
    BY <2>1, <2>2, <2>3 DEF PaidInv
  <2> QED
    BY <2>6, <2>7
<1> QED
  BY <1>1, <1>2

\* The balances are written.
LEMMA PaidEntry ==
  ASSUME TypeOK, EntryInv, PaidInv, NEW h \in Conns, Distribute(h)
  PROVE  EntryInv' /\ PaidInv'
<1>1. /\ pc[h] = "write" /\ Done(h)
      /\ balances' = [i \in Ids |-> oldBals[h][i] + Earned(local[h], i)]
      /\ paid' = [i \in Ids |-> paid[i] + Earned(local[h], i)]
      /\ UNCHANGED <<witnesses, disturbed, members, due>>
  BY DEF Distribute
<1>2. \A i \in Ids : Earned(local[h], i) \in Nat /\ oldBals[h][i] \in Nat /\ paid[i] \in Nat /\ balances[i] \in Nat
  BY EarnedType DEF TypeOK
<1>3. /\ pc'[h] = "idle" /\ oldWits'[h] = {}
      /\ \A g \in Conns \ {h} : /\ pc'[g] = pc[g] /\ oldWits'[g] = oldWits[g]
                                /\ local'[g] = local[g] /\ todo'[g] = todo[g] /\ oldBals'[g] = oldBals[g]
  BY <1>1 DEF Done, Goto, TypeOK
<1>4. Alone => Alone'
  BY <1>3 DEF Alone, Locking
<1>5. EntryInv'
  <2>1. ToEnter' = ToEnter
    BY <1>1, <1>3 DEF ToEnter, NodesOf
  <2> QED
    BY <1>1, <1>3, <1>4, <2>1 DEF EntryInv, OnePerNode, NodesOf
<1>6. \A i \in Ids : balances'[i] <= paid'[i] /\ paid[i] <= paid'[i]
  BY <1>1, <1>2 DEF PaidInv
<1>7. \A g \in Conns : pc'[g] = "write" => \A i \in Ids : oldBals'[g][i] <= paid'[i]
  <2> SUFFICES ASSUME NEW g \in Conns, pc'[g] = "write", NEW i \in Ids PROVE oldBals'[g][i] <= paid'[i]
    OBVIOUS
  <2>1. g # h /\ pc[g] = "write" /\ oldBals'[g] = oldBals[g]
    BY <1>3
  <2>2. oldBals[g][i] <= paid[i] /\ oldBals[g][i] \in Nat /\ paid[i] \in Nat /\ paid'[i] \in Nat
    BY <1>1, <1>2, <2>1 DEF PaidInv, TypeOK
  <2> QED
    BY <1>6, <2>1, <2>2
<1>8. ASSUME ~ disturbed
      PROVE  /\ Alone /\ OnlyDue'
             /\ \A g \in Conns : pc'[g] # "write"
  <2>1. Alone /\ oldBals[h] = balances /\ due = [i \in Ids |-> balances[i] + Earned(local[h], i)]
    BY <1>1, <1>8 DEF PaidInv, OnlyDue, Locking
  <2>2. \A g \in Conns : pc'[g] \notin Locking
    BY <1>1, <1>3, <2>1 DEF Alone, Locking
  <2>3. due' = balances'
    BY <1>1, <2>1
  <2> QED
    BY <2>1, <2>2, <2>3 DEF OnlyDue, Locking
<1>9. PaidInv'
  BY <1>1, <1>4, <1>6, <1>7, <1>8 DEF PaidInv
<1> QED
  BY <1>5, <1>9

\* A handler is aborted: what it wrote stays, what it had to write is lost.
LEMMA AbortEntry ==
  ASSUME TypeOK, EntryInv, PaidInv, NEW h \in Conns, Abort(h)
  PROVE  EntryInv' /\ PaidInv'
<1>1. /\ Done(h) /\ (disturbed' <=> (disturbed \/ pc[h] \in Locking))
      /\ UNCHANGED <<witnesses, balances, members, due, paid>>
  BY DEF Abort, slots
<1>2. /\ pc'[h] = "idle" /\ oldWits'[h] = {}
      /\ \A g \in Conns \ {h} : /\ pc'[g] = pc[g] /\ oldWits'[g] = oldWits[g]
                                /\ local'[g] = local[g] /\ todo'[g] = todo[g] /\ oldBals'[g] = oldBals[g]
  BY <1>1 DEF Done, Goto, TypeOK
<1>3. CASE pc[h] \notin Locking
  BY <1>1, <1>2, <1>3, OutsideKeeps DEF Locking, OnePerNode
<1>4. CASE pc[h] \in Locking
  <2>1. disturbed'
    BY <1>1, <1>4
  <2>2. EntryInv'
    BY <1>1, <1>2, <2>1 DEF EntryInv, OnePerNode
  <2>3. PaidInv'
    BY <1>1, <1>2, <2>1 DEF PaidInv
  <2> QED
    BY <2>2, <2>3
<1> QED
  BY <1>3, <1>4

LEMMA EntryStep == TypeOK /\ EntryInv /\ PaidInv /\ [Next]_vars => EntryInv' /\ PaidInv'
<1> SUFFICES ASSUME TypeOK, EntryInv, PaidInv, [Next]_vars PROVE EntryInv' /\ PaidInv'
  OBVIOUS
<1>1. CASE UNCHANGED vars
  BY <1>1 DEF EntryInv, PaidInv, OnePerNode, NodesOf, Alone, ToEnter, OnlyDue, vars, slots, found, history
<1>2. CASE Next
  BY <1>2, OutsideEntry, BumpEntry, WitnessEntry, SealEntry, PaidEntry, AbortEntry DEF Next
<1> QED
  BY <1>1, <1>2

\* lock_witness_ring: the list of witnesses never has two entries for a node,
\* even if handlers overwrite it for each other, and handlers that pay at the
\* same time never pay a share twice; without such a race, and unless one was
\* aborted, every lock that was begun is carried through: the list has every
\* node of its ring and every balance is the sum of the shares earned.
THEOREM LocksStay == Spec => []LocksKept
<1>1. EntryInv => WitnessesKept
  <2>1. Settled => ToEnter = {}
    BY DEF Settled, ToEnter, Locking
  <2> QED
    BY <2>1 DEF EntryInv, WitnessesKept, Settled, OnePerNode, NodesOf
<1>2. PaidInv => SharesPaid
  BY DEF PaidInv, SharesPaid, Settled, OnlyDue
<1>3. EntryInv /\ PaidInv => LocksKept
  BY <1>1, <1>2 DEF LocksKept
<1> QED
  BY <1>3, TickTypeCorrect, EntryInit, EntryStep, PTL DEF Spec
-----------------------------------------------------------------------------
(* Sums over the nodes.  Total is computed by taking one node after the     *)
(* other out of the set; what it yields is shown by induction over the      *)
(* subsets, in the form that a set of numbers, or of subsets, which is      *)
(* closed under the step is the whole set.                                  *)

LEMMA LeastNumber ==
  ASSUME NEW S \in SUBSET Nat, S # {}
  PROVE  \E n \in S : \A m \in S : n <= m
<1> DEFINE R == OpToRel(<, Nat)
<1>1. IsWellFoundedOn(R, Nat)
  BY NatLessThanWellFounded
<1>2. \A x, y \in Nat : <<x, y>> \in R <=> x < y
  BY DEF OpToRel
<1> HIDE DEF R
<1>3. PICK n \in S : \A m \in S : ~ (<<m, n>> \in R)
  BY <1>1, WFMin
<1>4. \A m \in S : ~ (m < n)
  BY <1>2, <1>3
<1> QED
  BY <1>4

LEMMA AllNumbers ==
  ASSUME NEW S \in SUBSET Nat, 0 \in S, \A n \in S : n + 1 \in S
  PROVE  S = Nat
<1>1. CASE Nat \ S = {}
  BY <1>1
<1>2. CASE Nat \ S # {}
  <2>1. PICK n \in Nat \ S : \A m \in Nat \ S : n <= m
    BY <1>2, LeastNumber
  <2>2. n # 0 /\ n - 1 \in Nat /\ ~ (n <= n - 1)
    BY <2>1
  <2>3. n - 1 \in S
    BY <2>1, <2>2
  <2>4. (n - 1) + 1 \in S
    BY <2>3
  <2> QED
    BY <2>1, <2>2, <2>4
<1> QED
  BY <1>1, <1>2

LEMMA AllSubsets ==
  ASSUME NEW D, IsFiniteSet(D), NEW G \in SUBSET (SUBSET D), {} \in G,
         \A T \in SUBSET D : T # {} /\ (\A x \in T : T \ {x} \in G) => T \in G
  PROVE  G = SUBSET D
<1> DEFINE N == {n \in Nat : \A T \in SUBSET D : Cardinality(T) = n => T \in G}
<1>1. \A T \in SUBSET D : IsFiniteSet(T) /\ Cardinality(T) \in Nat
  BY FS_Subset, FS_CardinalityType
<1>2. 0 \in N
  BY <1>1, FS_EmptySet
<1>3. ASSUME NEW n \in N PROVE n + 1 \in N
  <2> SUFFICES ASSUME NEW T \in SUBSET D, Cardinality(T) = n + 1 PROVE T \in G
    OBVIOUS
  <2>1. T # {}
    BY FS_EmptySet
  <2>2. ASSUME NEW x \in T PROVE T \ {x} \in G
    <3>1. Cardinality(T \ {x}) = n
      BY <1>1, FS_RemoveElement
    <3> QED
      BY <3>1
  <2> QED
    BY <2>1, <2>2
<1>4. N \in SUBSET Nat
  OBVIOUS
<1> HIDE DEF N
<1>5. N = Nat
  BY <1>2, <1>3, <1>4, AllNumbers
<1> USE DEF N
<1> QED
  BY <1>1, <1>5

Pick(T) == CHOOSE i \in T : TRUE
SumStep(b, f, T) == IF T = {} THEN 0 ELSE b[Pick(T)] + f[T \ {Pick(T)}]
SumFrom(b, f) == [T \in SUBSET Ids |-> SumStep(b, f, T)]
Sums(b) == CHOOSE f : f = SumFrom(b, f)

LEMMA TotalSums == ASSUME NEW b PROVE Total(b) = Sums(b)[Ids]
BY DEF Total, Sums, SumFrom, SumStep, Pick, MapThenSumSet, MapThenFoldSet

LEMMA IdSets ==
  ASSUME NEW T \in SUBSET Ids
  PROVE  /\ IsFiniteSet(T) /\ Cardinality(T) \in Nat /\ Cardinality(T) <= Cardinality(Ids)
         /\ Cardinality(T) = 0 <=> T = {}
         /\ T # {} => /\ Pick(T) \in T /\ T \ {Pick(T)} \in SUBSET Ids
                      /\ Cardinality(T \ {Pick(T)}) = Cardinality(T) - 1
<1>1. IsFiniteSet(Ids)
  BY TickConstants
<1>2. IsFiniteSet(T) /\ Cardinality(T) \in Nat /\ Cardinality(T) <= Cardinality(Ids)
  BY <1>1, FS_Subset, FS_CardinalityType
<1>3. T # {} => Pick(T) \in T
  BY DEF Pick
<1>4. T # {} => Cardinality(T \ {Pick(T)}) = Cardinality(T) - 1
  BY <1>2, <1>3, FS_RemoveElement
<1> QED
  BY <1>2, <1>3, <1>4, FS_EmptySet

\* The recursive definition has a solution: there is one for the subsets of
\* every size.
LEMMA SumsExist ==
  ASSUME NEW b \in [Ids -> Nat]
  PROVE  \E f : f = SumFrom(b, f)
<1> DEFINE Upto(n, f) == \A T \in SUBSET Ids : Cardinality(T) <= n => f[T] = SumStep(b, f, T)
           N == {n \in Nat : \E f \in [SUBSET Ids -> Nat] : Upto(n, f)}
<1>1. 0 \in N
  <2>1. PICK f : f = [T \in SUBSET Ids |-> 0]
    OBVIOUS
  <2>2. f \in [SUBSET Ids -> Nat]
    BY <2>1
  <2>3. Upto(0, f)
    <3> SUFFICES ASSUME NEW T \in SUBSET Ids, Cardinality(T) <= 0 PROVE f[T] = SumStep(b, f, T)
      OBVIOUS
    <3>1. Cardinality(T) = 0
      <4>1. Cardinality(T) \in Nat
        BY IdSets
      <4> QED
        BY <4>1
    <3>2. T = {}
      BY <3>1, IdSets
    <3> QED
      BY <2>1, <3>2 DEF SumStep
  <2> QED
    BY <2>2, <2>3
<1>2. ASSUME NEW n \in N PROVE n + 1 \in N
  <2>1. PICK f \in [SUBSET Ids -> Nat] : Upto(n, f)
    OBVIOUS
  <2>2. PICK g : g = [T \in SUBSET Ids |-> IF Cardinality(T) = n + 1 THEN SumStep(b, f, T) ELSE f[T]]
    OBVIOUS
  <2>3. ASSUME NEW T \in SUBSET Ids PROVE SumStep(b, f, T) \in Nat
    <3>1. CASE T = {}
      BY <3>1 DEF SumStep
    <3>2. CASE T # {}
      <4>1. Pick(T) \in Ids /\ T \ {Pick(T)} \in SUBSET Ids
        BY <3>2, IdSets
      <4>2. b[Pick(T)] \in Nat /\ f[T \ {Pick(T)}] \in Nat
        BY <4>1
      <4> QED
        BY <3>2, <4>2 DEF SumStep
    <3> QED
      BY <3>1, <3>2
  <2>4. g \in [SUBSET Ids -> Nat]
    BY <2>2, <2>3
  <2>5. Upto(n + 1, g)
    <3> SUFFICES ASSUME NEW T \in SUBSET Ids, Cardinality(T) <= n + 1 PROVE g[T] = SumStep(b, g, T)
      OBVIOUS
    <3>1. g[T] = SumStep(b, f, T)
      <4>1. CASE Cardinality(T) = n + 1
        BY <2>2, <4>1
      <4>2. CASE Cardinality(T) # n + 1
        <5>1. Cardinality(T) \in Nat /\ n \in Nat
          BY IdSets
        <5>2. Cardinality(T) <= n
          BY <4>2, <5>1
        <5> QED
          BY <2>1, <2>2, <4>2, <5>2
      <4> QED
        BY <4>1, <4>2
    <3>2. T # {} => g[T \ {Pick(T)}] = f[T \ {Pick(T)}]
      <4>1. T # {} => T \ {Pick(T)} \in SUBSET Ids /\ Cardinality(T \ {Pick(T)}) # n + 1
        BY IdSets
      <4> QED
        BY <2>2, <4>1
    <3> QED
      BY <3>1, <3>2 DEF SumStep
  <2> QED
    BY <2>4, <2>5
<1>3. N \in SUBSET Nat
  OBVIOUS
<1> HIDE DEF N
<1>4. N = Nat
  BY <1>1, <1>2, <1>3, AllNumbers
<1>5. Cardinality(Ids) \in Nat
  BY IdSets
<1> USE DEF N
<1>6. PICK f \in [SUBSET Ids -> Nat] : Upto(Cardinality(Ids), f)
  BY <1>4, <1>5
<1>7. \A T \in SUBSET Ids : f[T] = SumStep(b, f, T)
  BY <1>6, IdSets
<1>8. f = SumFrom(b, f)
  BY <1>7 DEF SumFrom
<1> QED
  BY <1>8

LEMMA SumsDef ==
  ASSUME NEW b \in [Ids -> Nat]
  PROVE  \A T \in SUBSET Ids : Sums(b)[T] \in Nat /\ Sums(b)[T] = SumStep(b, Sums(b), T)
<1>1. PICK f : f = Sums(b)
  OBVIOUS
<1>2. f = SumFrom(b, f)
  BY <1>1, SumsExist DEF Sums
<1>3. \A T \in SUBSET Ids : f[T] = SumStep(b, f, T)
  BY <1>2 DEF SumFrom
<1> DEFINE G == {T \in SUBSET Ids : f[T] \in Nat}
<1>4. {} \in G
  <2>1. {} \in SUBSET Ids /\ SumStep(b, f, {}) = 0
    BY DEF SumStep
  <2> QED
    BY <1>3, <2>1
<1>5. ASSUME NEW T \in SUBSET Ids, T # {}, \A x \in T : T \ {x} \in G PROVE T \in G
  <2>1. Pick(T) \in T /\ f[T \ {Pick(T)}] \in Nat
    BY <1>5, IdSets
  <2> QED
    BY <1>3, <1>5, <2>1 DEF SumStep
<1>6. IsFiniteSet(Ids) /\ G \in SUBSET (SUBSET Ids)
  BY TickConstants
<1> HIDE DEF G
<1>7. G = SUBSET Ids
  BY <1>4, <1>5, <1>6, AllSubsets
<1> USE DEF G
<1>8. \A T \in SUBSET Ids : f[T] \in Nat
  BY <1>7
<1> QED
  BY <1>1, <1>3, <1>8

\* The total of sums is the sum of the totals.
LEMMA TotalAdds ==
  ASSUME NEW b \in [Ids -> Nat], NEW c \in [Ids -> Nat]
  PROVE  /\ Total(b) \in Nat /\ Total(c) \in Nat
         /\ Total([i \in Ids |-> b[i] + c[i]]) = Total(b) + Total(c)
<1>1. PICK d : d = [i \in Ids |-> b[i] + c[i]]
  OBVIOUS
<1>2. d \in [Ids -> Nat]
  BY <1>1
<1> DEFINE G == {T \in SUBSET Ids : Sums(d)[T] = Sums(b)[T] + Sums(c)[T]}
<1>3. {} \in G
  <2>1. {} \in SUBSET Ids /\ \A a, f : SumStep(a, f, {}) = 0
    BY DEF SumStep
  <2>2. Sums(b)[{}] = 0 /\ Sums(c)[{}] = 0 /\ Sums(d)[{}] = 0
    BY <1>2, <2>1, SumsDef
  <2> QED
    BY <2>1, <2>2
<1>4. ASSUME NEW T \in SUBSET Ids, T # {}, \A x \in T : T \ {x} \in G PROVE T \in G
  <2>1. PICK x \in T : x = Pick(T)
    BY <1>4, IdSets
  <2>2. /\ Sums(b)[T] = b[x] + Sums(b)[T \ {x}]
        /\ Sums(c)[T] = c[x] + Sums(c)[T \ {x}]
        /\ Sums(d)[T] = d[x] + Sums(d)[T \ {x}]
    BY <1>2, <1>4, <2>1, SumsDef DEF SumStep
  <2>3. T \ {x} \in SUBSET Ids /\ Sums(d)[T \ {x}] = Sums(b)[T \ {x}] + Sums(c)[T \ {x}]
    BY <1>4
  <2>4. Sums(b)[T \ {x}] \in Nat /\ Sums(c)[T \ {x}] \in Nat
    BY <2>3, SumsDef
  <2>5. d[x] = b[x] + c[x] /\ b[x] \in Nat /\ c[x] \in Nat
    BY <1>1
  <2> QED
    BY <2>2, <2>3, <2>4, <2>5
<1>5. IsFiniteSet(Ids) /\ G \in SUBSET (SUBSET Ids)
  BY TickConstants
<1> HIDE DEF G
<1>6. G = SUBSET Ids
  BY <1>3, <1>4, <1>5, AllSubsets
<1> USE DEF G
<1>7. Sums(d)[Ids] = Sums(b)[Ids] + Sums(c)[Ids] /\ Sums(b)[Ids] \in Nat /\ Sums(c)[Ids] \in Nat
  BY <1>6, SumsDef
<1> QED
  BY <1>1, <1>7, TotalSums

\* A smaller balance of every node is a smaller total.
LEMMA TotalGrows ==
  ASSUME NEW b \in [Ids -> Nat], NEW c \in [Ids -> Nat], \A i \in Ids : b[i] <= c[i]
  PROVE  Total(b) <= Total(c)
<1>1. PICK d : d = [i \in Ids |-> c[i] - b[i]]
  OBVIOUS
<1>2. d \in [Ids -> Nat] /\ c = [i \in Ids |-> b[i] + d[i]]
  BY <1>1
<1> QED
  BY <1>2, TotalAdds

\* Share and Earned: the shares of a ring are at most the reward.
LEMMA TotalEarned ==
  ASSUME NEW ring \in SUBSET Seeds
  PROVE  Total([i \in Ids |-> Earned(ring, i)]) <= Reward
<1> DEFINE Of(T) == {s \in ring : s[2] \in T}
<1>1. PICK e : e = [i \in Ids |-> Earned(ring, i)]
  OBVIOUS
<1>2. e \in [Ids -> Nat]
  BY <1>1, EarnedType
<1>3. IsFiniteSet(ring) /\ Cardinality(ring) \in Nat
  <2>1. IsFiniteSet(Seeds)
    BY TickConstants, FS_Product DEF Seeds
  <2> QED
    BY <2>1, FS_Subset, FS_CardinalityType
<1>4. \A T : IsFiniteSet(Of(T)) /\ Cardinality(Of(T)) \in Nat
  BY <1>3, FS_Subset, FS_CardinalityType
<1>5. Share(ring) \in Nat /\ Share(ring) * Cardinality(ring) <= Reward
  <2>1. CASE ring = {}
    BY <1>3, <2>1, TickConstants, FS_EmptySet DEF Share
  <2>2. CASE ring # {}
    <3>1. Cardinality(ring) > 0
      BY <1>3, <2>2, FS_EmptySet
    <3>2. PICK n \in Nat : n = Cardinality(ring)
      BY <1>3
    <3>3. Reward \div n \in Nat /\ (Reward \div n) * n <= Reward
      BY <3>1, <3>2, TickConstants
    <3> QED
      BY <2>2, <3>2, <3>3 DEF Share
  <2> QED
    BY <2>1, <2>2
<1> DEFINE G == {T \in SUBSET Ids : Sums(e)[T] = Share(ring) * Cardinality(Of(T))}
<1>6. {} \in G
  <2>1. Of({}) = {} /\ Cardinality({}) = 0
    BY FS_EmptySet
  <2>2. {} \in SUBSET Ids /\ SumStep(e, Sums(e), {}) = 0
    BY DEF SumStep
  <2>3. Sums(e)[{}] = 0
    BY <1>2, <2>2, SumsDef
  <2>4. Share(ring) * 0 = 0
    BY <1>5
  <2> HIDE DEF Of
  <2> QED
    BY <2>1, <2>2, <2>3, <2>4
<1>7. ASSUME NEW T \in SUBSET Ids, T # {}, \A x \in T : T \ {x} \in G PROVE T \in G
  <2>1. PICK x \in T : x = Pick(T)
    BY <1>7, IdSets
  <2>2. Sums(e)[T] = e[x] + Sums(e)[T \ {x}]
    BY <1>2, <1>7, <2>1, SumsDef DEF SumStep
  <2>3. Sums(e)[T \ {x}] = Share(ring) * Cardinality(Of(T \ {x}))
    BY <1>7
  <2>4. e[x] = Share(ring) * Cardinality(Of({x}))
    <3>1. {s \in ring : s[2] = x} = Of({x})
      OBVIOUS
    <3> QED
      BY <1>1, <3>1 DEF Earned
  <2>5. Cardinality(Of(T)) = Cardinality(Of({x})) + Cardinality(Of(T \ {x}))
    <3>1. Of(T) = Of({x}) \cup Of(T \ {x}) /\ Of({x}) \cap Of(T \ {x}) = {}
      OBVIOUS
    <3>2. Cardinality({}) = 0
      BY FS_EmptySet
    <3>3. Cardinality(Of({x}) \cup Of(T \ {x})) = Cardinality(Of({x})) + Cardinality(Of(T \ {x})) - Cardinality(Of({x}) \cap Of(T \ {x}))
      BY <1>4, FS_Union
    <3>4. PICK m \in Nat, n \in Nat : m = Cardinality(Of({x})) /\ n = Cardinality(Of(T \ {x}))
      BY <1>4
    <3> HIDE DEF Of
    <3>5. Cardinality(Of(T)) = m + n - 0
      BY <3>1, <3>2, <3>3, <3>4
    <3> QED
      BY <3>4, <3>5
  <2>6. PICK m \in Nat, n \in Nat, k \in Nat :
          m = Share(ring) /\ n = Cardinality(Of({x})) /\ k = Cardinality(Of(T \ {x}))
    BY <1>4, <1>5
  <2>7. m * (n + k) = m * n + m * k
    BY <2>6
  <2> HIDE DEF Of
  <2>8. Sums(e)[T] = Share(ring) * Cardinality(Of(T))
    BY <2>2, <2>3, <2>4, <2>5, <2>6, <2>7
  <2> QED
    BY <2>8
<1>8. IsFiniteSet(Ids) /\ G \in SUBSET (SUBSET Ids)
  BY TickConstants
<1> HIDE DEF G
<1>9. G = SUBSET Ids
  BY <1>6, <1>7, <1>8, AllSubsets
<1> USE DEF G
<1>10. Sums(e)[Ids] = Share(ring) * Cardinality(Of(Ids))
  BY <1>9
<1>11. Of(Ids) = ring
  BY DEF Seeds
<1> QED
  BY <1>1, <1>5, <1>10, <1>11, TotalSums

-----------------------------------------------------------------------------
(* One reward per lock.  A lock is paid when its handler has written the    *)
(* balances; a tick is locked once, so that no other handler pays for it.   *)

LockOf(h) == <<no[h], tick[h]>>
Unpaid == {LockOf(h) : h \in {g \in Conns : pc[g] \in Locking}}

RewardInv ==
  /\ IsFiniteSet(locks)
  /\ \A h \in Conns : pc[h] \in Locking => LockOf(h) \in locks
  /\ \A h \in Conns : pc[h] \notin Locking \cup {"idle"} => \A l \in locks : l[1] # no[h]
  /\ Total(paid) <= Reward * Cardinality(locks \ Unpaid)

LEMMA RewardInit == Init => RewardInv
<1> SUFFICES ASSUME Init PROVE RewardInv
  OBVIOUS
<1>1. PICK z : z = [i \in Ids |-> 0]
  OBVIOUS
<1>2. z \in [Ids -> Nat] /\ z = [i \in Ids |-> z[i] + z[i]]
  BY <1>1
<1>3. Total(z) = 0
  BY <1>2, TotalAdds
<1>4. paid = z /\ locks = {} /\ \A h \in Conns : pc[h] = "idle"
  BY <1>1 DEF Init
<1>5. IsFiniteSet(locks) /\ Cardinality(locks \ Unpaid) = 0
  BY <1>4, FS_EmptySet
<1> QED
  BY <1>3, <1>4, <1>5, TickConstants DEF RewardInv, Locking

\* A handler that goes on without starting or ending a lock.
LEMMA MoveReward ==
  ASSUME TypeOK, RewardInv, NEW h \in Conns,
         pc'[h] \in Locking <=> pc[h] \in Locking,
         pc'[h] \in Locking => no'[h] = no[h] /\ tick'[h] = tick[h],
         pc'[h] \notin Locking \cup {"idle"} => \A l \in locks : l[1] # no'[h],
         \A g \in Conns \ {h} : pc'[g] = pc[g] /\ no'[g] = no[g] /\ tick'[g] = tick[g],
         UNCHANGED <<locks, paid>>
  PROVE  RewardInv'
<1>1. Unpaid' = Unpaid
  BY DEF Unpaid, LockOf
<1>2. \A g \in Conns : pc'[g] \in Locking => <<no'[g], tick'[g]>> \in locks'
  BY DEF RewardInv, LockOf
<1>3. \A g \in Conns : pc'[g] \notin Locking \cup {"idle"} => \A l \in locks' : l[1] # no'[g]
  BY DEF RewardInv
<1> QED
  BY <1>1, <1>2, <1>3 DEF RewardInv, LockOf

LEMMA OutsideReward ==
  ASSUME TypeOK, RingInv, RewardInv, NEW h \in Conns,
         \/ Receive(h) \/ TakeRing(h) \/ Differs(h) \/ Agrees(h) \/ Decide(h)
         \/ ResetCount(h) \/ MarkHash(h) \/ ReadCount(h)
  PROVE  RewardInv'
<1>1. UNCHANGED <<locks, paid>>
  BY DEF Receive, TakeRing, Differs, Agrees, Decide, ResetCount, MarkHash, ReadCount, history
<1>2. \A g \in Conns \ {h} : pc'[g] = pc[g] /\ no'[g] = no[g] /\ tick'[g] = tick[g]
  BY DEF Receive, TakeRing, Differs, Agrees, Decide, ResetCount, MarkHash, ReadCount, Done, Goto, TypeOK
<1>3. pc[h] \notin Locking /\ pc'[h] \notin Locking
  BY DEF Receive, TakeRing, Differs, Agrees, Decide, ResetCount, MarkHash, ReadCount, Done, Goto, TypeOK, Locking
<1>4. pc'[h] # "idle" => \A l \in locks : l[1] # no'[h]
  <2>1. CASE Receive(h)
    <3>1. no'[h] = ticks + 1 /\ ticks \in Nat
      BY <2>1 DEF Receive, TypeOK
    <3>2. \A l \in locks : l[1] \in 1 .. ticks
      BY DEF TypeOK, RingInv, NumberInv
    <3> QED
      BY <3>1, <3>2
  <2>2. CASE ~ Receive(h) /\ pc'[h] # "idle"
    <3>1. pc[h] # "idle" /\ no' = no
      BY <2>2 DEF Receive, TakeRing, Differs, Agrees, Decide, ResetCount, MarkHash, ReadCount, Done, Goto, TypeOK
    <3> QED
      BY <1>3, <3>1 DEF RewardInv
  <2> QED
    BY <2>1, <2>2
<1> QED
  BY <1>1, <1>2, <1>3, <1>4, MoveReward

\* A tick that locks the ring adds a lock that is not paid yet.
LEMMA BumpReward ==
  ASSUME TypeOK, RingInv, RewardInv, NEW h \in Conns, Bump(h)
  PROVE  RewardInv'
<1>1. pc[h] = "bump" /\ UNCHANGED paid
  BY DEF Bump
<1>2. CASE count[h] + 1 >= Rounds
  <2>1. /\ pc' = [pc EXCEPT ![h] = "lock"] /\ locks' = locks \cup {LockOf(h)}
        /\ UNCHANGED <<no, tick>>
    BY <1>2 DEF Bump, StartLock, Goto, LockOf
  <2>2. pc'[h] = "lock" /\ \A g \in Conns \ {h} : pc'[g] = pc[g]
    BY <2>1 DEF TypeOK
  <2>3. \A l \in locks : l[1] # no[h]
    BY <1>1 DEF RewardInv, Locking
  <2>4. LockOf(h) \notin locks
    BY <2>3 DEF LockOf
  <2>5. Unpaid' = Unpaid \cup {LockOf(h)}
    BY <1>1, <2>1, <2>2 DEF Unpaid, LockOf, Locking
  <2>6. locks' \ Unpaid' = locks \ Unpaid
    BY <2>1, <2>4, <2>5
  <2>7. IsFiniteSet(locks')
    BY <2>1, FS_AddElement DEF RewardInv
  <2>8. \A g \in Conns : pc'[g] \in Locking => <<no'[g], tick'[g]>> \in locks'
    BY <2>1, <2>2 DEF RewardInv, LockOf
  <2>9. ASSUME NEW g \in Conns, pc'[g] \notin Locking \cup {"idle"}, NEW l \in locks' PROVE l[1] # no'[g]
    <3>1. g # h /\ pc[g] \notin Locking \cup {"idle"}
      BY <2>2, <2>9 DEF Locking
    <3>2. no[g] # no[h]
      BY <1>1, <3>1 DEF RingInv, NumberInv
    <3> QED
      BY <2>1, <3>1, <3>2 DEF RewardInv, LockOf
  <2> QED
    BY <1>1, <2>6, <2>7, <2>8, <2>9 DEF RewardInv, LockOf
<1>3. CASE ~ (count[h] + 1 >= Rounds)
  <2>1. Done(h) /\ UNCHANGED locks
    BY <1>3 DEF Bump
  <2>2. pc'[h] = "idle" /\ \A g \in Conns \ {h} : pc'[g] = pc[g] /\ no'[g] = no[g] /\ tick'[g] = tick[g]
    BY <2>1 DEF Done, Goto, TypeOK
  <2> QED
    BY <1>1, <2>1, <2>2, MoveReward DEF Locking
<1> QED
  BY <1>2, <1>3

LEMMA LockReward ==
  ASSUME TypeOK, RewardInv, NEW h \in Conns,
         ReadWitnesses(h) \/ EnterWitness(h) \/ Seal(h) \/ ReadBalances(h)
  PROVE  RewardInv'
<1>1. UNCHANGED <<locks, paid, no, tick>>
  BY DEF ReadWitnesses, EnterWitness, Seal, ReadBalances, history
<1>2. /\ pc[h] \in Locking /\ pc'[h] \in Locking
      /\ \A g \in Conns \ {h} : pc'[g] = pc[g]
  BY DEF ReadWitnesses, EnterWitness, Seal, ReadBalances, Goto, TypeOK, Locking
<1> QED
  BY <1>1, <1>2, MoveReward

\* A handler that is aborted never pays its lock.
LEMMA AbortReward ==
  ASSUME TypeOK, RingInv, RewardInv, NEW h \in Conns, Abort(h)
  PROVE  RewardInv'
<1>1. Done(h) /\ UNCHANGED <<locks, paid>>
  BY DEF Abort
<1>2. pc'[h] = "idle" /\ \A g \in Conns \ {h} : pc'[g] = pc[g] /\ no'[g] = no[g] /\ tick'[g] = tick[g]
  BY <1>1 DEF Done, Goto, TypeOK
<1>3. Unpaid' \subseteq Unpaid
  BY <1>2 DEF Unpaid, LockOf, Locking
<1>4. locks \ Unpaid \subseteq locks' \ Unpaid' /\ IsFiniteSet(locks' \ Unpaid')
  BY <1>1, <1>3, FS_Difference DEF RewardInv
<1>5. PICK m, n \in Nat : /\ m = Cardinality(locks \ Unpaid)
                         /\ n = Cardinality(locks' \ Unpaid') /\ m <= n
  BY <1>4, FS_Subset, FS_CardinalityType
<1>6. Reward * m <= Reward * n /\ Reward * m \in Nat /\ Reward * n \in Nat
  <2>1. Reward \in Nat
    BY TickConstants
  <2>2. PICK k \in Nat : n = m + k
    <3>1. n - m \in Nat /\ n = m + (n - m)
      BY <1>5
    <3> QED
      BY <3>1
  <2>3. Reward * (m + k) = Reward * m + Reward * k /\ Reward * k \in Nat /\ Reward * m \in Nat
    BY <2>1
  <2> QED
    BY <2>1, <2>2, <2>3
<1>7. Total(paid) \in Nat
  BY TotalGrows, TotalAdds DEF TypeOK
<1>8. Total(paid') <= Reward * Cardinality(locks' \ Unpaid')
  BY <1>1, <1>5, <1>6, <1>7 DEF RewardInv
<1>9. \A g \in Conns : pc'[g] \in Locking => <<no'[g], tick'[g]>> \in locks'
  BY <1>1, <1>2 DEF RewardInv, LockOf, Locking
<1>10. \A g \in Conns : pc'[g] \notin Locking \cup {"idle"} => \A l \in locks' : l[1] # no'[g]
  BY <1>1, <1>2 DEF RewardInv
<1> QED
  BY <1>1, <1>8, <1>9, <1>10 DEF RewardInv, LockOf

\* A handler that has written the balances has paid its lock, and no more
\* than one reward.
LEMMA PayReward ==
  ASSUME TypeOK, RingInv, RewardInv, NEW h \in Conns, Distribute(h)
  PROVE  RewardInv'
<1>1. /\ pc[h] = "write" /\ Done(h) /\ UNCHANGED locks
      /\ paid' = [i \in Ids |-> paid[i] + Earned(local[h], i)]
  BY DEF Distribute
<1>2. pc'[h] = "idle" /\ \A g \in Conns \ {h} : pc'[g] = pc[g] /\ no'[g] = no[g] /\ tick'[g] = tick[g]
  BY <1>1 DEF Done, Goto, TypeOK
<1>3. \A g \in Conns \ {h} : pc[g] \in Locking => LockOf(g) # LockOf(h)
  BY <1>1 DEF RingInv, NumberInv, LockOf, Locking
<1>4. Unpaid' = Unpaid \ {LockOf(h)} /\ LockOf(h) \in Unpaid
  BY <1>1, <1>2, <1>3 DEF Unpaid, LockOf, Locking
<1>5. LockOf(h) \in locks
  BY <1>1 DEF RewardInv, Locking
<1>6. locks' \ Unpaid' = (locks \ Unpaid) \cup {LockOf(h)} /\ LockOf(h) \notin locks \ Unpaid
  BY <1>1, <1>4, <1>5
<1>7. /\ IsFiniteSet(locks \ Unpaid) /\ Cardinality(locks \ Unpaid) \in Nat
      /\ Cardinality(locks' \ Unpaid') = Cardinality(locks \ Unpaid) + 1
  BY <1>6, FS_Difference, FS_CardinalityType, FS_AddElement DEF RewardInv
<1>8. PICK e : e = [i \in Ids |-> Earned(local[h], i)]
  OBVIOUS
<1>9. local[h] \in SUBSET Seeds /\ paid \in [Ids -> Nat] /\ e \in [Ids -> Nat]
  BY <1>8, EarnedType DEF TypeOK
<1>10. Total(e) <= Reward
  BY <1>8, <1>9, TotalEarned
<1>11. paid' = [i \in Ids |-> paid[i] + e[i]]
  BY <1>1, <1>8
<1>12. Total(paid') = Total(paid) + Total(e) /\ Total(paid) \in Nat /\ Total(e) \in Nat
  BY <1>9, <1>11, TotalAdds
<1>13. PICK n \in Nat : n = Cardinality(locks \ Unpaid)
  BY <1>7
<1>14. Reward * (n + 1) = Reward * n + Reward /\ Reward * n \in Nat /\ Reward \in Nat
  BY TickConstants
<1>15. Total(paid') <= Reward * Cardinality(locks' \ Unpaid')
  BY <1>7, <1>10, <1>12, <1>13, <1>14 DEF RewardInv
<1>16. \A g \in Conns : pc'[g] \in Locking => <<no'[g], tick'[g]>> \in locks'
  BY <1>1, <1>2 DEF RewardInv, LockOf, Locking
<1>17. \A g \in Conns : pc'[g] \notin Locking \cup {"idle"} => \A l \in locks' : l[1] # no'[g]
  BY <1>1, <1>2 DEF RewardInv
<1> QED
  BY <1>1, <1>15, <1>16, <1>17 DEF RewardInv, LockOf

LEMMA RewardStep == TypeOK /\ RingInv /\ RewardInv /\ [Next]_vars => RewardInv'
<1> SUFFICES ASSUME TypeOK, RingInv, RewardInv, [Next]_vars PROVE RewardInv'
  OBVIOUS
<1>1. CASE UNCHANGED vars
  <2>1. UNCHANGED <<pc, no, tick, locks, paid>>
    BY <1>1 DEF vars, history
  <2> QED
    BY <2>1 DEF RewardInv, Unpaid, LockOf
<1>2. CASE Next
  BY <1>2, OutsideReward, BumpReward, LockReward, PayReward, AbortReward DEF Next
<1> QED
  BY <1>1, <1>2

\* lock_witness_ring: the balances of all nodes together are at most one reward
\* per locked tick, however the shares were rounded, whoever has several seeds
\* in the ring, and whatever handlers overwrite for each other.
THEOREM RewardsStayBounded == Spec => []RewardsBounded
<1>1. TypeOK /\ PaidInv /\ RewardInv => RewardsBounded
  <2> SUFFICES ASSUME TypeOK, PaidInv, RewardInv PROVE Total(balances) <= Reward * Cardinality(locks)
    BY DEF RewardsBounded
  <2>1. balances \in [Ids -> Nat] /\ paid \in [Ids -> Nat] /\ \A i \in Ids : balances[i] <= paid[i]
    BY DEF TypeOK, PaidInv
  <2>2. Total(balances) <= Total(paid) /\ Total(balances) \in Nat /\ Total(paid) \in Nat
    BY <2>1, TotalGrows, TotalAdds
  <2>3. PICK m, n \in Nat : m = Cardinality(locks \ Unpaid) /\ n = Cardinality(locks) /\ m <= n
    BY FS_Subset, FS_CardinalityType DEF RewardInv
  <2>4. Reward * m <= Reward * n /\ Reward * m \in Nat /\ Reward * n \in Nat
    <3>1. Reward \in Nat
      BY TickConstants
    <3>2. PICK k \in Nat : n = m + k
      <4>1. n - m \in Nat /\ n = m + (n - m)
        BY <2>3
      <4> QED
        BY <4>1
    <3>3. Reward * (m + k) = Reward * m + Reward * k /\ Reward * k \in Nat
      BY <3>1
    <3> QED
      BY <3>1, <3>2, <3>3
  <2> QED
    BY <2>2, <2>3, <2>4 DEF RewardInv
<1> QED
  BY <1>1, TickTypeCorrect, InitRing, StepRing, EntryInit, EntryStep, RewardInit, RewardStep, PTL DEF Spec
=============================================================================
