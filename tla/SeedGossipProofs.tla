--------------------------- MODULE SeedGossipProofs ---------------------------
(***************************************************************************)
(* Type correctness of SeedGossip, SeedIdsTruthful, MeshedAtRest and       *)
(* WorkUsedUp, for any number of nodes, dials and interfaces.              *)
(*                                                                         *)
(* SeedIdsTruthful is not inductive: a registry learns from frames.  The   *)
(* strengthening says that every frame in flight travels between the ends  *)
(* its channel names, carries truthful seeds only and, if it is a          *)
(* handshake frame, was sent over an address of the responder, and that a  *)
(* dial only collected what its registry holds.  MeshedAtRest needs two    *)
(* more invariants, on the connections behind flags, frames and dials and  *)
(* on the connections still to come.                                       *)
(***************************************************************************)
EXTENDS SeedGossip, TLAPS

Truthful(s) == Mislabelled(s) => <<IdOf(s), Host(s[1])>> \in CliDials

\* What may be in the channel of the pair l.
GoodFrames(l) ==
  {f \in Frames : /\ f.from = l[1] /\ f.to = l[2]
                  /\ \A s \in f.seeds : Truthful(s)
                  /\ f.type = "online" => Host(f.over) = f.to
                  /\ f.type = "ack" => Host(f.over) = f.from}

GoodChan(q) == /\ q = [l \in Pairs |-> q[l]]
               /\ \A l \in Pairs : q[l] \in Seq(GoodFrames(l))

\* A dial collected its seeds from the registry, which has grown since.
LoadsKnown == \A d \in dials : \A seeds \in d.load : seeds \subseteq reg[d.by]

\* The inductive invariant.
GossipInv ==
  /\ reg \in [Nodes -> SUBSET Seeds]
  /\ connected \in [Nodes -> SUBSET Nodes]
  /\ conns \subseteq Nodes \X Addrs
  /\ deaf \subseteq conns
  /\ dials \subseteq Tasks
  /\ GoodChan(chan)
  /\ SeedIdsTruthful
  /\ LoadsKnown

\* The record of a SeedsCommand only holds seeds it was built from.
LEMMA RecordsSubset ==
  ASSUME NEW seeds, NEW some \in Records(seeds)
  PROVE  some \subseteq seeds
BY DEF Records

\* What an OnLine carries is known to the node that dials.
LEMMA LoadsSubset ==
  ASSUME LoadsKnown, NEW d \in dials, NEW seeds \in Loads(d)
  PROVE  seeds \subseteq reg[d.by]
BY RecordsSubset DEF LoadsKnown, Loads

\* Registries grow, and a new dial has not collected anything.
LEMMA LoadsKept ==
  ASSUME LoadsKnown, dials \subseteq Tasks,
         \A n \in Nodes : reg[n] \subseteq reg'[n],
         \A d \in dials' \ dials : d.load = {}
  PROVE  LoadsKnown'
BY DEF LoadsKnown, Tasks

\* Writing a good frame keeps the channels good.
LEMMA SendGood ==
  ASSUME NEW q, GoodChan(q), NEW n \in Nodes, NEW p \in Nodes,
         NEW f \in GoodFrames(<<n, p>>)
  PROVE  GoodChan(Send(q, f))
<1>1. f.from = n /\ f.to = p
  BY DEF GoodFrames
<1>2. <<n, p>> \in Pairs
  BY DEF Pairs
<1>3. Append(q[<<n, p>>], f) \in Seq(GoodFrames(<<n, p>>))
  BY <1>2 DEF GoodChan
<1>4. Send(q, f) = [q EXCEPT ![<<n, p>>] = Append(@, f)]
  BY <1>1 DEF Send
<1> QED
  BY <1>2, <1>3, <1>4 DEF GoodChan

\* Taking the first frame of a channel keeps the channels good.
LEMMA ReadGood ==
  ASSUME NEW q, GoodChan(q), NEW l \in Pairs, q[l] # <<>>
  PROVE  GoodChan(Read(q, Head(q[l])))
<1> DEFINE m == Head(q[l])
<1>1. q[l] \in Seq(GoodFrames(l))
  BY DEF GoodChan
<1>2. m \in GoodFrames(l) /\ Tail(q[l]) \in Seq(GoodFrames(l))
  BY <1>1
<1>3. <<m.from, m.to>> = l
  BY <1>2 DEF GoodFrames, Pairs
<1>4. Read(q, m) = [q EXCEPT ![l] = Tail(@)]
  BY <1>3 DEF Read
<1> QED
  BY <1>2, <1>4 DEF GoodChan

\* A broadcast of truthful seeds keeps the channels good.
LEMMA BroadcastGood ==
  ASSUME NEW q, GoodChan(q), NEW n \in Nodes, NEW seeds \in SUBSET Seeds,
         \A s \in seeds : Truthful(s)
  PROVE  GoodChan(Broadcast(q, n, seeds))
<1>1. ASSUME NEW l \in Pairs, l[1] = n
      PROVE  Gossip(n, l[2], seeds) \in GoodFrames(l)
  BY <1>1 DEF Gossip, GoodFrames, Frames, Pairs, Main, Addrs
<1>2. ASSUME NEW l \in Pairs, l[1] = n
      PROVE  Append(q[l], Gossip(n, l[2], seeds)) \in Seq(GoodFrames(l))
  BY <1>1, <1>2 DEF GoodChan
<1> QED
  BY <1>2 DEF Broadcast, GoodChan

\* The dial tasks a node spawns for seeds are tasks.
LEMMA NewDialsType ==
  ASSUME NEW n \in Nodes, NEW seeds \in SUBSET Seeds, NEW flagged
  PROVE  /\ NewDials(n, seeds, flagged) \subseteq Tasks
         /\ \A d \in NewDials(n, seeds, flagged) : d.load = {}
BY DEF NewDials, DialTask, Tasks, Seeds, IdOf

\* The invariant holds at the start: nodes register themselves.
LEMMA GossipInit == Init => GossipInv
<1> SUFFICES ASSUME Init PROVE GossipInv
  OBVIOUS
<1>1. reg \in [Nodes -> SUBSET Seeds]
  BY DEF Init, Seeds, Seed, Own
<1>2. SeedIdsTruthful
  BY DEF Init, SeedIdsTruthful, Mislabelled, Seed, IdOf, Host, Own
<1>3. dials \subseteq Tasks
  BY GossipAssumption DEF Init, DialTask, Tasks, Main, Addrs
<1>4. GoodChan(chan)
  <2>1. \A l \in Pairs : <<>> \in Seq(GoodFrames(l))
    OBVIOUS
  <2> QED
    BY <2>1 DEF Init, GoodChan
<1>5. LoadsKnown
  <2>1. \A d \in dials : d.load = {}
    BY DEF Init, DialTask
  <2> QED
    BY <2>1 DEF LoadsKnown
<1> QED
  BY <1>1, <1>2, <1>3, <1>4, <1>5 DEF Init, GossipInv

\* The three handlers, on the frame a node reads next.
LEMMA GossipHandle ==
  ASSUME GossipInv, NEW l \in Pairs, Handle(l)
  PROVE  GossipInv'
<1> DEFINE m == Head(chan[l])
           n == m.to
           p == m.from
<1>1. m \in GoodFrames(l) /\ chan[l] # <<>>
  BY DEF GossipInv, GoodChan, Handle
<1>2. n \in Nodes /\ p \in Nodes /\ l = <<p, n>> /\ m.over \in Addrs
  BY <1>1 DEF GoodFrames, Frames, Pairs
<1>3. m.seeds \in SUBSET Seeds /\ \A s \in m.seeds : Truthful(s)
  BY <1>1 DEF GoodFrames, Frames
<1>4. GoodChan(Read(chan, m))
  BY <1>1, ReadGood DEF GossipInv
<1>5. reg[n] \in SUBSET Seeds /\ \A s \in reg[n] : Truthful(s)
  BY <1>2 DEF GossipInv, SeedIdsTruthful, Truthful
<1>6. ASSUME NEW after \in SUBSET Seeds, \A s \in after : Truthful(s),
             reg' = [reg EXCEPT ![n] = after]
      PROVE  /\ reg' \in [Nodes -> SUBSET Seeds]
             /\ SeedIdsTruthful'
  BY <1>2, <1>6 DEF GossipInv, SeedIdsTruthful, Truthful, Mislabelled
<1>a. ASSUME NEW after, reg[n] \subseteq after, reg' = [reg EXCEPT ![n] = after],
             \A d \in dials' \ dials : d.load = {}
      PROVE  LoadsKnown'
  <2>1. \A k \in Nodes : reg[k] \subseteq reg'[k]
    BY <1>2, <1>a DEF GossipInv
  <2> QED
    BY <1>a, <2>1, LoadsKept DEF GossipInv
<1>7. CASE HandleOnline(m)
  <2> DEFINE seeds == reg[n] \cup {Seed(Main(p), p)} \cup m.seeds
  <2>1. /\ reg' = [reg EXCEPT ![n] = seeds]
        /\ connected' = [connected EXCEPT ![n] = @ \cup {p}]
        /\ dials' = dials \/ dials' = dials \cup {DialTask(n, Main(p), p, "return")}
        /\ UNCHANGED <<conns, deaf>>
        /\ m.type = "online"
    BY <1>7 DEF HandleOnline
  <2>2. Seed(Main(p), p) \in Seeds /\ Truthful(Seed(Main(p), p))
    BY <1>2 DEF Seed, Main, Seeds, Addrs, Truthful, Mislabelled, IdOf, Host
  <2>3. seeds \in SUBSET Seeds /\ \A s \in seeds : Truthful(s)
    BY <1>3, <1>5, <2>2
  <2>4. DialTask(n, Main(p), p, "return") \in Tasks
    BY <1>2 DEF DialTask, Tasks, Main, Addrs
  <2>5. GoodChan(chan')
    <3>1. PICK records \in Records(seeds) :
            LET acked == IF <<p, m.over>> \in deaf THEN Read(chan, m)
                         ELSE Send(Read(chan, m), Ack(n, p, records, m.over))
            IN chan' = Broadcast(acked, n, records)
      BY <1>7 DEF HandleOnline
    <3>2. records \in SUBSET Seeds /\ \A s \in records : Truthful(s)
      BY <2>3, RecordsSubset
    <3>3. Ack(n, p, records, m.over) \in GoodFrames(<<n, p>>)
      <4>1. Host(m.over) = n
        BY <1>1, <2>1 DEF GoodFrames
      <4>2. Ack(n, p, records, m.over) \in Frames
        BY <1>2, <3>2 DEF Ack, Frames
      <4> QED
        BY <4>1, <4>2, <3>2 DEF Ack, GoodFrames
    <3>4. GoodChan(Send(Read(chan, m), Ack(n, p, records, m.over)))
      BY <1>2, <1>4, <3>3, SendGood
    <3>5. CASE <<p, m.over>> \in deaf
      BY <1>2, <1>4, <3>1, <3>2, <3>5, BroadcastGood
    <3>6. CASE <<p, m.over>> \notin deaf
      BY <1>2, <3>1, <3>2, <3>4, <3>6, BroadcastGood
    <3> QED
      BY <3>5, <3>6
  <2>6. connected' \in [Nodes -> SUBSET Nodes]
    BY <1>2, <2>1 DEF GossipInv
  <2>7. dials' \subseteq Tasks
    BY <2>1, <2>4 DEF GossipInv
  <2>8. LoadsKnown'
    <3>1. \A d \in dials' \ dials : d.load = {}
      BY <2>1 DEF DialTask
    <3>2. reg[n] \subseteq seeds
      OBVIOUS
    <3> QED
      BY <1>a, <2>1, <3>1, <3>2
  <2> QED
    BY <1>6, <2>1, <2>3, <2>5, <2>6, <2>7, <2>8 DEF GossipInv
<1>8. CASE HandleAck(m)
  <2> DEFINE before == reg[n] \cup {Seed(m.over, p)} \cup {Seed(addr, p) : addr \in Own(p)}
             after == before \cup m.seeds
             flagged == connected[n] \cup {p}
  <2>1. /\ reg' = [reg EXCEPT ![n] = after]
        /\ connected' = [connected EXCEPT ![n] = flagged]
        /\ dials' = dials \cup NewDials(n, m.seeds, flagged)
        /\ UNCHANGED <<conns, deaf>>
        /\ m.type = "ack"
    BY <1>8 DEF HandleAck
  <2>2. Seed(m.over, p) \in Seeds /\ Truthful(Seed(m.over, p))
    BY <1>1, <1>2, <2>1 DEF GoodFrames, Seed, Seeds, Truthful, Mislabelled, IdOf
  <2>3. \A addr \in Own(p) : Seed(addr, p) \in Seeds /\ Truthful(Seed(addr, p))
    BY <1>2 DEF Own, Seed, Seeds, Truthful, Mislabelled, IdOf
  <2>4. before \in SUBSET Seeds /\ \A s \in before : Truthful(s)
    BY <1>5, <2>2, <2>3
  <2>5. after \in SUBSET Seeds /\ \A s \in after : Truthful(s)
    BY <1>3, <2>4
  <2>6. PICK records \in Records(after) :
          \/ chan' = Broadcast(Read(chan, m), n, records)
          \/ chan' = Read(chan, m)
    BY <1>8 DEF HandleAck
  <2>7. records \in SUBSET Seeds /\ \A s \in records : Truthful(s)
    BY <2>5, RecordsSubset
  <2>8. GoodChan(chan')
    BY <1>2, <1>4, <2>6, <2>7, BroadcastGood
  <2>9. dials' \subseteq Tasks
    BY <1>2, <1>3, <2>1, NewDialsType DEF GossipInv
  <2>10. connected' \in [Nodes -> SUBSET Nodes]
    BY <1>2, <2>1 DEF GossipInv
  <2>11. LoadsKnown'
    BY <1>2, <1>3, <1>a, <2>1, NewDialsType
  <2> QED
    BY <1>6, <2>1, <2>5, <2>8, <2>9, <2>10, <2>11 DEF GossipInv
<1>9. CASE HandleGossip(m)
  <2> DEFINE before == reg[n] \cup {Seed(Zero(p), p)}
             unknown == {id \in Nodes : /\ \E s \in m.seeds : IdOf(s) = id
                                        /\ \A s \in before : IdOf(s) # id}
  <2>1. /\ dials' = dials \cup NewDials(n, m.seeds, connected[n])
        /\ UNCHANGED <<connected, conns, deaf>>
    BY <1>9 DEF HandleGossip
  <2>2. PICK first \in [unknown -> Addrs] :
          LET after == before \cup {Seed(first[id], id) : id \in unknown}
          IN /\ \A id \in unknown : Seed(first[id], id) \in m.seeds
             /\ reg' = [reg EXCEPT ![n] = after]
             /\ \E records \in Records(after) :
                  chan' = IF after # before THEN Broadcast(Read(chan, m), n, records) ELSE Read(chan, m)
    BY <1>9 DEF HandleGossip
  <2> DEFINE after == before \cup {Seed(first[id], id) : id \in unknown}
  <2>3. Seed(Zero(p), p) \in Seeds /\ Truthful(Seed(Zero(p), p))
    BY <1>2 DEF Seed, Zero, Seeds, Addrs, Truthful, Mislabelled, IdOf, Host
  <2>4. after \in SUBSET Seeds /\ \A s \in after : Truthful(s)
    BY <1>3, <1>5, <2>2, <2>3
  <2>5. PICK records \in Records(after) :
          \/ chan' = Broadcast(Read(chan, m), n, records)
          \/ chan' = Read(chan, m)
    BY <2>2
  <2>6. records \in SUBSET Seeds /\ \A s \in records : Truthful(s)
    BY <2>4, RecordsSubset
  <2>7. GoodChan(chan')
    BY <1>2, <1>4, <2>5, <2>6, BroadcastGood
  <2>8. dials' \subseteq Tasks
    BY <1>2, <1>3, <2>1, NewDialsType DEF GossipInv
  <2>9. reg' = [reg EXCEPT ![n] = after]
    BY <2>2
  <2>10. LoadsKnown'
    <3>1. \A d \in dials' \ dials : d.load = {}
      BY <1>2, <1>3, <2>1, NewDialsType
    <3>2. reg[n] \subseteq after
      OBVIOUS
    <3> HIDE DEF after
    <3> QED
      BY <1>a, <2>9, <3>1, <3>2
  <2> QED
    BY <1>6, <2>1, <2>4, <2>7, <2>8, <2>9, <2>10 DEF GossipInv
<1> QED
  BY <1>7, <1>8, <1>9 DEF Handle

\* A dial and the OnLine it sends.
LEMMA GossipDial ==
  ASSUME GossipInv, NEW d \in dials, Dial(d)
  PROVE  GossipInv'
<1> DEFINE n == d.by
           p == Host(d.addr)
<1>1. d.addr \in Addrs /\ n \in Nodes /\ p \in Nodes /\ d.id \in Nodes
  BY DEF GossipInv, Tasks, Addrs, Host
<1>2. dials' \subseteq dials /\ dials' \subseteq Tasks /\ reg' = reg
  BY DEF GossipInv, Dial
<1>5. LoadsKnown'
  BY <1>2 DEF GossipInv, LoadsKnown
<1>3. CASE <<n, d.addr>> \in conns
  <2>1. UNCHANGED <<connected, conns, deaf, chan>>
    BY <1>3 DEF Dial
  <2> QED
    BY <1>2, <1>5, <2>1 DEF GossipInv, SeedIdsTruthful
<1>4. CASE <<n, d.addr>> \notin conns
  <2>1. /\ conns' = conns \cup {<<n, d.addr>>}
        /\ deaf' = deaf \/ deaf' = deaf \cup {<<n, d.addr>>}
        /\ connected' = connected \/ connected' = [connected EXCEPT ![n] = @ \cup {d.id}]
    BY <1>4 DEF Dial
  <2>2. PICK seeds \in Loads(d) :
          chan' = Send(chan, Online(n, p, seeds, d.addr))
    BY <1>4 DEF Dial
  <2>3. seeds \in SUBSET Seeds /\ \A s \in seeds : Truthful(s)
    <3>1. reg[n] \in SUBSET Seeds /\ \A s \in reg[n] : Truthful(s)
      BY <1>1 DEF GossipInv, SeedIdsTruthful, Truthful
    <3>2. seeds \subseteq reg[n]
      BY LoadsSubset DEF GossipInv
    <3> QED
      BY <3>1, <3>2
  <2>4. Online(n, p, seeds, d.addr) \in GoodFrames(<<n, p>>)
    BY <1>1, <2>3 DEF Online, GoodFrames, Frames
  <2>5. GoodChan(chan')
    BY <1>1, <2>2, <2>4, SendGood DEF GossipInv
  <2>6. connected' \in [Nodes -> SUBSET Nodes]
    BY <1>1, <2>1 DEF GossipInv
  <2>7. conns' \subseteq Nodes \X Addrs /\ deaf' \subseteq conns'
    BY <1>1, <2>1 DEF GossipInv
  <2> QED
    BY <1>2, <1>5, <2>5, <2>6, <2>7 DEF GossipInv, SeedIdsTruthful
<1> QED
  BY <1>3, <1>4

\* The command line registers the address under the node's own id.
LEMMA GossipCli ==
  ASSUME GossipInv, NEW n \in Nodes, NEW p \in Nodes, CliConnect(n, p)
  PROVE  GossipInv'
<1>1. /\ reg' = [reg EXCEPT ![n] = @ \cup {Seed(Main(p), n)}]
      /\ dials' = dials \cup {DialTask(n, Main(p), p, "cli")}
      /\ UNCHANGED <<connected, conns, deaf, chan>>
      /\ <<n, p>> \in CliDials
  BY DEF CliConnect
<1>2. Seed(Main(p), n) \in Seeds /\ Truthful(Seed(Main(p), n))
  BY <1>1 DEF Seed, Main, Seeds, Addrs, Truthful, Mislabelled, IdOf, Host
<1>3. dials' \subseteq Tasks
  BY <1>1 DEF GossipInv, DialTask, Tasks, Main, Addrs
<1>4. reg' \in [Nodes -> SUBSET Seeds]
  BY <1>1, <1>2 DEF GossipInv
<1>5. SeedIdsTruthful'
  BY <1>1, <1>2 DEF GossipInv, SeedIdsTruthful, Truthful, Mislabelled
<1>6. LoadsKnown'
  <2>1. \A k \in Nodes : reg[k] \subseteq reg'[k]
    BY <1>1 DEF GossipInv
  <2> QED
    BY <1>1, <2>1, LoadsKept DEF GossipInv, DialTask
<1> QED
  BY <1>1, <1>3, <1>4, <1>5, <1>6 DEF GossipInv

\* Collecting seeds changes one dial, and only the seeds it will send.
LEMMA Collects ==
  ASSUME GossipInv, NEW d \in dials, Collect(d)
  PROVE  /\ UNCHANGED <<reg, connected, conns, deaf, chan>>
         /\ d.load = {}
         /\ \E e \in Tasks : /\ dials' = (dials \ {d}) \cup {e}
                             /\ e.by = d.by /\ e.addr = d.addr /\ e.id = d.id
                             /\ d.why = "seed" /\ e.why = "seed"
                             /\ e.load # {}
                             /\ \A seeds \in e.load : seeds \subseteq reg[d.by]
<1>1. PICK records \in Records(reg[d.by]) :
        dials' = (dials \ {d}) \cup {[d EXCEPT !.load = {records}]}
  BY DEF Collect
<1> DEFINE e == [d EXCEPT !.load = {records}]
<1>2. d \in Tasks /\ records \subseteq reg[d.by] /\ reg[d.by] \subseteq Seeds
  BY RecordsSubset DEF GossipInv, Tasks
<1>3. /\ e \in Tasks /\ e.load = {records}
      /\ e.by = d.by /\ e.addr = d.addr /\ e.id = d.id /\ e.why = d.why
  BY <1>2 DEF Tasks
<1>4. /\ UNCHANGED <<reg, connected, conns, deaf, chan>>
      /\ d.load = {} /\ d.why = "seed"
  BY DEF Collect
<1> QED
  BY <1>1, <1>2, <1>3, <1>4

LEMMA GossipCollect ==
  ASSUME GossipInv, NEW d \in dials, Collect(d)
  PROVE  GossipInv'
<1>1. UNCHANGED <<reg, connected, conns, deaf, chan>>
  BY Collects
<1>2. PICK e \in Tasks : /\ dials' = (dials \ {d}) \cup {e} /\ e.by = d.by
                        /\ \A seeds \in e.load : seeds \subseteq reg[d.by]
  BY Collects
<1>3. dials' \subseteq Tasks /\ LoadsKnown'
  BY <1>1, <1>2 DEF GossipInv, LoadsKnown
<1> QED
  BY <1>1, <1>3 DEF GossipInv, SeedIdsTruthful

\* Every step preserves the invariant.
LEMMA GossipStep == GossipInv /\ [Next]_vars => GossipInv'
<1> SUFFICES ASSUME GossipInv, [Next]_vars PROVE GossipInv'
  OBVIOUS
<1>1. CASE UNCHANGED vars
  BY <1>1 DEF GossipInv, SeedIdsTruthful, LoadsKnown, vars
<1>2. CASE Next
  BY <1>2, GossipCli, GossipCollect, GossipDial, GossipHandle DEF Next
<1> QED
  BY <1>1, <1>2

\* The registries, flags, connections, dials and channels keep their types.
THEOREM GossipTypeCorrect == Spec => []TypeOK
<1>1. GossipInv => TypeOK
  <2> SUFFICES ASSUME GossipInv PROVE TypeOK
    OBVIOUS
  <2>1. \A l \in Pairs : chan[l] \in Seq(Frames)
    <3> SUFFICES ASSUME NEW l \in Pairs PROVE chan[l] \in Seq(Frames)
      OBVIOUS
    <3>1. chan[l] \in Seq(GoodFrames(l)) /\ GoodFrames(l) \subseteq Frames
      BY DEF GossipInv, GoodChan, GoodFrames
    <3> QED
      BY <3>1
  <2>2. chan \in [Pairs -> Seq(Frames)]
    BY <2>1 DEF GossipInv, GoodChan
  <2> QED
    BY <2>2 DEF GossipInv, TypeOK
<1> QED
  BY <1>1, GossipInit, GossipStep, PTL DEF Spec

\* However seeds travel - in OnLine, OnLineAck or gossip, first or second
\* hand - the handlers do not attribute an address to the wrong node: of the
\* commands modelled, only a "connect <address>" typed at the node a wrong id
\* names brings one up (clis/connect.rs registers the address under the own id).
THEOREM IdsTruthful == Spec => []SeedIdsTruthful
<1>1. GossipInv => SeedIdsTruthful
  BY DEF GossipInv
<1> QED
  BY <1>1, GossipInit, GossipStep, PTL DEF Spec

-----------------------------------------------------------------------------
(* The connections behind flags, on which MeshedAtRest rests: a node does   *)
(* not dial one it has flagged.  A flag is set when a dial for a seed       *)
(* succeeds, or by a handshake frame.  While no registry has a mislabelled  *)
(* seed, the former connects to the node it flags, and the latter travels   *)
(* on a connection of its two ends: dials and frames in flight have to say  *)
(* so as well.                                                              *)

Truth == \A n \in Nodes : \A s \in reg[n] : ~ Mislabelled(s)

\* Frames that pass on rightly labelled seeds and, in a handshake, travel on
\* one of the connections c.
CleanFrames(c) ==
  {f \in Frames : /\ \A s \in f.seeds : ~ Mislabelled(s)
                  /\ f.type = "online" => <<f.from, f.over>> \in c
                  /\ f.type = "ack" => <<f.to, f.over>> \in c}

Joins(n, p) ==
  \/ \E addr \in Addrs : Host(addr) = p /\ <<n, addr>> \in conns
  \/ \E addr \in Addrs : Host(addr) = n /\ <<p, addr>> \in conns

FlagsJoined == \A n, p \in Nodes : p \in connected[n] => Joins(n, p)

CleanDials == \A d \in dials : d.why = "seed" => Host(d.addr) = d.id

FlagInv == Truth => /\ FlagsJoined
                    /\ CleanDials
                    /\ chan \in [Pairs -> Seq(CleanFrames(conns))]

\* Writing, reading and broadcasting frames of a set.
LEMMA SendIn ==
  ASSUME NEW S, NEW q \in [Pairs -> Seq(S)], NEW f \in S, <<f.from, f.to>> \in Pairs
  PROVE  Send(q, f) \in [Pairs -> Seq(S)]
<1>1. Append(q[<<f.from, f.to>>], f) \in Seq(S)
  OBVIOUS
<1> QED
  BY <1>1 DEF Send

LEMMA ReadIn ==
  ASSUME NEW S, NEW q \in [Pairs -> Seq(S)], NEW l \in Pairs, q[l] # <<>>,
         NEW f, <<f.from, f.to>> = l
  PROVE  Read(q, f) \in [Pairs -> Seq(S)]
<1>1. Tail(q[l]) \in Seq(S)
  OBVIOUS
<1>2. Read(q, f) = [q EXCEPT ![l] = Tail(@)]
  BY DEF Read
<1> QED
  BY <1>1, <1>2

LEMMA BroadcastIn ==
  ASSUME NEW S, NEW q \in [Pairs -> Seq(S)], NEW n, NEW seeds,
         \A p \in Nodes : Gossip(n, p, seeds) \in S
  PROVE  Broadcast(q, n, seeds) \in [Pairs -> Seq(S)]
<1>1. ASSUME NEW l \in Pairs
      PROVE  Append(q[l], Gossip(n, l[2], seeds)) \in Seq(S)
  <2>1. Gossip(n, l[2], seeds) \in S
    BY DEF Pairs
  <2> QED
    BY <2>1
<1> QED
  BY <1>1 DEF Broadcast

\* A gossip of rightly labelled seeds is a clean frame.
LEMMA CleanGossip ==
  ASSUME NEW c, NEW n \in Nodes, NEW p \in Nodes, NEW seeds \in SUBSET Seeds,
         \A s \in seeds : ~ Mislabelled(s)
  PROVE  Gossip(n, p, seeds) \in CleanFrames(c)
BY DEF Gossip, CleanFrames, Frames, Main, Addrs

\* Tasks for rightly labelled seeds dial the node they flag.
LEMMA CleanNewDials ==
  ASSUME NEW n, NEW seeds, NEW flagged, \A s \in seeds : ~ Mislabelled(s),
         NEW d \in NewDials(n, seeds, flagged)
  PROVE  Host(d.addr) = d.id
BY DEF NewDials, DialTask, Mislabelled

LEMMA FlagStart == Init => FlagInv
<1> SUFFICES ASSUME Init PROVE FlagInv
  OBVIOUS
<1>1. FlagsJoined
  BY DEF Init, FlagsJoined
<1>2. CleanDials
  BY DEF Init, CleanDials, DialTask
<1>3. <<>> \in Seq(CleanFrames(conns))
  OBVIOUS
<1>4. chan \in [Pairs -> Seq(CleanFrames(conns))]
  BY <1>3 DEF Init
<1> QED
  BY <1>1, <1>2, <1>4 DEF FlagInv

LEMMA FlagHandle ==
  ASSUME GossipInv, FlagInv, NEW l \in Pairs, Handle(l)
  PROVE  FlagInv'
<1> SUFFICES ASSUME Truth'
             PROVE  FlagsJoined' /\ CleanDials' /\ (chan \in [Pairs -> Seq(CleanFrames(conns))])'
  BY DEF FlagInv
<1> DEFINE m == Head(chan[l])
           n == m.to
           p == m.from
           Clean == CleanFrames(conns)
<1>1. m \in GoodFrames(l) /\ chan[l] # <<>>
  BY DEF GossipInv, GoodChan, Handle
<1>2. n \in Nodes /\ p \in Nodes /\ l = <<p, n>> /\ m.over \in Addrs
  BY <1>1 DEF GoodFrames, Frames, Pairs
<1>3. m.seeds \in SUBSET Seeds /\ reg[n] \in SUBSET Seeds
  BY <1>1, <1>2 DEF GoodFrames, Frames, GossipInv
<1>4. ASSUME NEW after, reg[n] \subseteq after, reg' = [reg EXCEPT ![n] = after]
      PROVE  /\ Truth
             /\ \A s \in after : ~ Mislabelled(s)
  <2>1. reg \in [Nodes -> SUBSET Seeds]
    BY DEF GossipInv
  <2>2. reg'[n] = after /\ \A k \in Nodes : reg[k] \subseteq reg'[k]
    BY <1>2, <1>4, <2>1
  <2>3. \A k \in Nodes : \A s \in reg'[k] : ~ Mislabelled(s)
    BY DEF Truth, Mislabelled
  <2> QED
    BY <1>2, <2>2, <2>3 DEF Truth
<1>5. ASSUME Truth
      PROVE  /\ FlagsJoined /\ CleanDials /\ chan \in [Pairs -> Seq(Clean)]
             /\ m \in Clean
             /\ Read(chan, m) \in [Pairs -> Seq(Clean)]
  <2>1. FlagsJoined /\ CleanDials /\ chan \in [Pairs -> Seq(Clean)]
    BY <1>5 DEF FlagInv
  <2>2. m \in Clean
    BY <1>1, <2>1
  <2>3. <<m.from, m.to>> = l
    BY <1>2
  <2>4. Read(chan, m) \in [Pairs -> Seq(Clean)]
    BY <1>1, <2>1, <2>3, ReadIn
  <2> QED
    BY <2>1, <2>2, <2>4
<1>6. CASE HandleOnline(m)
  <2> DEFINE seeds == reg[n] \cup {Seed(Main(p), p)} \cup m.seeds
  <2>1. /\ reg' = [reg EXCEPT ![n] = seeds]
        /\ connected' = [connected EXCEPT ![n] = @ \cup {p}]
        /\ dials' = dials \/ dials' = dials \cup {DialTask(n, Main(p), p, "return")}
        /\ UNCHANGED <<conns, deaf>>
        /\ m.type = "online"
    BY <1>6 DEF HandleOnline
  <2>2. Truth /\ \A s \in seeds : ~ Mislabelled(s)
    BY <1>4, <2>1
  <2>3. /\ FlagsJoined /\ CleanDials
        /\ m \in Clean
        /\ Read(chan, m) \in [Pairs -> Seq(Clean)]
    BY <1>5, <2>2
  <2>4. seeds \in SUBSET Seeds
    BY <1>2, <1>3 DEF Seed, Main, Seeds, Addrs
  <2>5. Host(m.over) = n /\ <<p, m.over>> \in conns
    BY <1>1, <2>1, <2>3 DEF GoodFrames, CleanFrames
  <2>6. Joins(n, p)
    BY <1>2, <2>5 DEF Joins
  <2>7. FlagsJoined'
    <3>1. \A i, j \in Nodes : j \in connected'[i] => j \in connected[i] \/ (i = n /\ j = p)
      BY <1>2, <2>1 DEF GossipInv
    <3>2. \A i, j \in Nodes : j \in connected'[i] => Joins(i, j)
      BY <2>3, <2>6, <3>1 DEF FlagsJoined
    <3> QED
      BY <2>1, <3>2 DEF FlagsJoined, Joins
  <2>8. CleanDials'
    BY <2>1, <2>3 DEF CleanDials, DialTask
  <2>9. PICK records \in Records(seeds) :
          LET acked == IF <<p, m.over>> \in deaf THEN Read(chan, m)
                       ELSE Send(Read(chan, m), Ack(n, p, records, m.over))
          IN chan' = Broadcast(acked, n, records)
    BY <1>6 DEF HandleOnline
  <2>10. records \in SUBSET Seeds /\ \A s \in records : ~ Mislabelled(s)
    BY <2>2, <2>4, RecordsSubset
  <2>11. Ack(n, p, records, m.over) \in Clean
    BY <1>2, <2>5, <2>10 DEF Ack, CleanFrames, Frames
  <2>12. <<Ack(n, p, records, m.over).from, Ack(n, p, records, m.over).to>> \in Pairs
    BY <1>2 DEF Ack, Pairs
  <2>13. Send(Read(chan, m), Ack(n, p, records, m.over)) \in [Pairs -> Seq(Clean)]
    BY <2>3, <2>11, <2>12, SendIn
  <2>14. \A k \in Nodes : Gossip(n, k, records) \in Clean
    BY <1>2, <2>10, CleanGossip
  <2>15. chan' \in [Pairs -> Seq(Clean)]
    BY <2>3, <2>9, <2>13, <2>14, BroadcastIn
  <2> QED
    BY <2>1, <2>7, <2>8, <2>15
<1>7. CASE HandleAck(m)
  <2> DEFINE before == reg[n] \cup {Seed(m.over, p)} \cup {Seed(addr, p) : addr \in Own(p)}
             after == before \cup m.seeds
             flagged == connected[n] \cup {p}
  <2>1. /\ reg' = [reg EXCEPT ![n] = after]
        /\ connected' = [connected EXCEPT ![n] = flagged]
        /\ dials' = dials \cup NewDials(n, m.seeds, flagged)
        /\ UNCHANGED <<conns, deaf>>
        /\ m.type = "ack"
    BY <1>7 DEF HandleAck
  <2>2. Truth /\ \A s \in after : ~ Mislabelled(s)
    BY <1>4, <2>1
  <2>3. /\ FlagsJoined /\ CleanDials
        /\ m \in Clean
        /\ Read(chan, m) \in [Pairs -> Seq(Clean)]
    BY <1>5, <2>2
  <2>4. after \in SUBSET Seeds
    BY <1>2, <1>3 DEF Seed, Seeds, Own
  <2>5. Host(m.over) = p /\ <<n, m.over>> \in conns
    BY <1>1, <2>1, <2>3 DEF GoodFrames, CleanFrames
  <2>6. Joins(n, p)
    BY <1>2, <2>5 DEF Joins
  <2>7. FlagsJoined'
    <3>1. \A i, j \in Nodes : j \in connected'[i] => j \in connected[i] \/ (i = n /\ j = p)
      BY <1>2, <2>1 DEF GossipInv
    <3>2. \A i, j \in Nodes : j \in connected'[i] => Joins(i, j)
      BY <2>3, <2>6, <3>1 DEF FlagsJoined
    <3> QED
      BY <2>1, <3>2 DEF FlagsJoined, Joins
  <2>8. CleanDials'
    <3>1. \A d \in NewDials(n, m.seeds, flagged) : Host(d.addr) = d.id
      BY <2>2, CleanNewDials
    <3> QED
      BY <2>1, <2>3, <3>1 DEF CleanDials
  <2>9. PICK records \in Records(after) :
          \/ chan' = Broadcast(Read(chan, m), n, records)
          \/ chan' = Read(chan, m)
    BY <1>7 DEF HandleAck
  <2>10. records \in SUBSET Seeds /\ \A s \in records : ~ Mislabelled(s)
    BY <2>2, <2>4, RecordsSubset
  <2>11. \A k \in Nodes : Gossip(n, k, records) \in Clean
    BY <1>2, <2>10, CleanGossip
  <2>12. chan' \in [Pairs -> Seq(Clean)]
    BY <2>3, <2>9, <2>11, BroadcastIn
  <2> QED
    BY <2>1, <2>7, <2>8, <2>12
<1>8. CASE HandleGossip(m)
  <2> DEFINE before == reg[n] \cup {Seed(Zero(p), p)}
             unknown == {id \in Nodes : /\ \E s \in m.seeds : IdOf(s) = id
                                        /\ \A s \in before : IdOf(s) # id}
  <2>1. /\ dials' = dials \cup NewDials(n, m.seeds, connected[n])
        /\ UNCHANGED <<connected, conns, deaf>>
    BY <1>8 DEF HandleGossip
  <2>2. PICK first \in [unknown -> Addrs] :
          LET after == before \cup {Seed(first[id], id) : id \in unknown}
          IN /\ \A id \in unknown : Seed(first[id], id) \in m.seeds
             /\ reg' = [reg EXCEPT ![n] = after]
             /\ \E records \in Records(after) :
                  chan' = IF after # before THEN Broadcast(Read(chan, m), n, records) ELSE Read(chan, m)
    BY <1>8 DEF HandleGossip
  <2> DEFINE after == before \cup {Seed(first[id], id) : id \in unknown}
  <2>3. reg' = [reg EXCEPT ![n] = after]
    BY <2>2
  <2>4. Truth /\ \A s \in after : ~ Mislabelled(s)
    BY <1>4, <2>3
  <2>5. /\ FlagsJoined /\ CleanDials
        /\ m \in Clean
        /\ Read(chan, m) \in [Pairs -> Seq(Clean)]
    BY <1>5, <2>4
  <2>6. after \in SUBSET Seeds
    <3>1. Seed(Zero(p), p) \in Seeds
      BY <1>2 DEF Seed, Zero, Seeds, Addrs
    <3>2. before \subseteq Seeds
      BY <1>2, <1>3, <3>1
    <3>3. \A id \in unknown : Seed(first[id], id) \in m.seeds
      BY <2>2
    <3> HIDE DEF before, unknown
    <3>4. {Seed(first[id], id) : id \in unknown} \subseteq m.seeds
      BY <3>3
    <3> QED BY <1>2, <1>3, <3>2, <3>4
  <2>7. FlagsJoined'
    BY <2>1, <2>5 DEF FlagsJoined, Joins
  <2>8. CleanDials'
    <3>1. \A s \in m.seeds : ~ Mislabelled(s)
      BY <2>5 DEF CleanFrames
    <3>2. \A d \in NewDials(n, m.seeds, connected[n]) : Host(d.addr) = d.id
      BY <3>1, CleanNewDials
    <3> QED
      BY <2>1, <2>5, <3>2 DEF CleanDials
  <2>9. PICK records \in Records(after) :
          \/ chan' = Broadcast(Read(chan, m), n, records)
          \/ chan' = Read(chan, m)
    BY <2>2
  <2>10. records \in SUBSET Seeds /\ \A s \in records : ~ Mislabelled(s)
    BY <2>4, <2>6, RecordsSubset
  <2>11. \A k \in Nodes : Gossip(n, k, records) \in Clean
    BY <1>2, <2>10, CleanGossip
  <2>12. chan' \in [Pairs -> Seq(Clean)]
    BY <2>5, <2>9, <2>11, BroadcastIn
  <2> QED
    BY <2>1, <2>7, <2>8, <2>12
<1> QED
  BY <1>6, <1>7, <1>8 DEF Handle

LEMMA FlagDial ==
  ASSUME GossipInv, FlagInv, NEW d \in dials, Dial(d)
  PROVE  FlagInv'
<1> SUFFICES ASSUME Truth'
             PROVE  FlagsJoined' /\ CleanDials' /\ (chan \in [Pairs -> Seq(CleanFrames(conns))])'
  BY DEF FlagInv
<1> DEFINE n == d.by
           p == Host(d.addr)
<1>1. d.addr \in Addrs /\ n \in Nodes /\ p \in Nodes /\ d.id \in Nodes
  BY DEF GossipInv, Tasks, Addrs, Host
<1>2. dials' \subseteq dials /\ reg' = reg
  BY DEF Dial
<1>3. Truth /\ FlagsJoined /\ CleanDials /\ chan \in [Pairs -> Seq(CleanFrames(conns))]
  BY <1>2 DEF FlagInv, Truth
<1>4. CleanDials'
  BY <1>2, <1>3 DEF CleanDials
<1>5. CASE <<n, d.addr>> \in conns
  <2>1. UNCHANGED <<connected, conns, deaf, chan>>
    BY <1>5 DEF Dial
  <2> QED
    BY <1>3, <1>4, <2>1 DEF FlagsJoined, Joins
<1>6. CASE <<n, d.addr>> \notin conns
  <2>1. /\ conns' = conns \cup {<<n, d.addr>>}
        /\ \/ connected' = connected
           \/ d.why = "seed" /\ connected' = [connected EXCEPT ![n] = @ \cup {d.id}]
    BY <1>6 DEF Dial
  <2>2. PICK seeds \in Loads(d) :
          chan' = Send(chan, Online(n, p, seeds, d.addr))
    BY <1>6 DEF Dial
  <2>3. seeds \in SUBSET Seeds /\ \A s \in seeds : ~ Mislabelled(s)
    <3>1. reg[n] \in SUBSET Seeds /\ \A s \in reg[n] : ~ Mislabelled(s)
      BY <1>1, <1>3 DEF GossipInv, Truth
    <3>2. seeds \subseteq reg[n]
      BY LoadsSubset DEF GossipInv
    <3> QED
      BY <3>1, <3>2
  <2>4. FlagsJoined'
    <3>1. \A i, j \in Nodes : Joins(i, j) => Joins(i, j)'
      BY <2>1 DEF Joins
    <3>2. Joins(n, p)'
      BY <1>1, <2>1 DEF Joins
    <3>3. CASE connected' = connected
      BY <1>3, <3>1, <3>3 DEF FlagsJoined
    <3>4. CASE d.why = "seed" /\ connected' = [connected EXCEPT ![n] = @ \cup {d.id}]
      <4>1. d.id = p
        BY <1>3, <3>4 DEF CleanDials
      <4>2. \A i, j \in Nodes : j \in connected'[i] => j \in connected[i] \/ (i = n /\ j = p)
        BY <1>1, <3>4, <4>1 DEF GossipInv
      <4> QED
        BY <1>3, <3>1, <3>2, <4>2 DEF FlagsJoined
    <3> QED
      BY <2>1, <3>3, <3>4
  <2>5. chan \in [Pairs -> Seq(CleanFrames(conns'))]
    <3>1. CleanFrames(conns) \subseteq CleanFrames(conns')
      BY <2>1 DEF CleanFrames
    <3>2. \A l \in Pairs : chan[l] \in Seq(CleanFrames(conns'))
      BY <1>3, <3>1
    <3> QED
      BY <1>3, <3>2
  <2>6. Online(n, p, seeds, d.addr) \in CleanFrames(conns')
    <3>1. Online(n, p, seeds, d.addr) \in Frames
      BY <1>1, <2>3 DEF Online, Frames
    <3> QED
      BY <2>1, <2>3, <3>1 DEF Online, CleanFrames
  <2>7. <<Online(n, p, seeds, d.addr).from, Online(n, p, seeds, d.addr).to>> \in Pairs
    BY <1>1 DEF Online, Pairs
  <2>8. chan' \in [Pairs -> Seq(CleanFrames(conns'))]
    BY <2>2, <2>5, <2>6, <2>7, SendIn
  <2> QED
    BY <1>4, <2>4, <2>8
<1> QED
  BY <1>5, <1>6

LEMMA FlagCli ==
  ASSUME GossipInv, FlagInv, NEW n \in Nodes, NEW p \in Nodes, CliConnect(n, p)
  PROVE  FlagInv'
<1> SUFFICES ASSUME Truth'
             PROVE  FlagsJoined' /\ CleanDials' /\ (chan \in [Pairs -> Seq(CleanFrames(conns))])'
  BY DEF FlagInv
<1>1. /\ reg' = [reg EXCEPT ![n] = @ \cup {Seed(Main(p), n)}]
      /\ dials' = dials \cup {DialTask(n, Main(p), p, "cli")}
      /\ UNCHANGED <<connected, conns, deaf, chan>>
  BY DEF CliConnect
<1>2. \A k \in Nodes : reg[k] \subseteq reg'[k]
  BY <1>1 DEF GossipInv
<1>3. Truth
  BY <1>2 DEF Truth, Mislabelled
<1>4. FlagsJoined /\ CleanDials /\ chan \in [Pairs -> Seq(CleanFrames(conns))]
  BY <1>3 DEF FlagInv
<1>5. CleanDials'
  BY <1>1, <1>4 DEF CleanDials, DialTask
<1> QED
  BY <1>1, <1>4, <1>5 DEF FlagsJoined, Joins

LEMMA FlagCollect ==
  ASSUME GossipInv, FlagInv, NEW d \in dials, Collect(d)
  PROVE  FlagInv'
<1>1. UNCHANGED <<reg, connected, conns, deaf, chan>>
  BY Collects
<1>2. PICK e \in Tasks : /\ dials' = (dials \ {d}) \cup {e}
                        /\ e.addr = d.addr /\ e.id = d.id /\ d.why = "seed"
  BY Collects
<1>3. CleanDials => CleanDials'
  BY <1>2 DEF CleanDials
<1>4. (Truth' <=> Truth) /\ (FlagsJoined' <=> FlagsJoined)
  BY <1>1 DEF Truth, FlagsJoined, Joins
<1> QED
  BY <1>1, <1>3, <1>4 DEF FlagInv

LEMMA FlagStep == GossipInv /\ FlagInv /\ [Next]_vars => FlagInv'
<1> SUFFICES ASSUME GossipInv, FlagInv, [Next]_vars PROVE FlagInv'
  OBVIOUS
<1>1. CASE UNCHANGED vars
  BY <1>1 DEF FlagInv, Truth, FlagsJoined, Joins, CleanDials, vars
<1>2. CASE Next
  BY <1>2, FlagCli, FlagCollect, FlagDial, FlagHandle DEF Next
<1> QED
  BY <1>1, <1>2

-----------------------------------------------------------------------------
(* MeshedAtRest.  Seeds need not spread far: two nodes that both sent an     *)
(* OnLine to a third are introduced to each other by it, since it broadcasts *)
(* all it knows when it handles the later one.  So at rest "is connected     *)
(* with" is transitive, and a connected graph of first dials is enough.      *)

InChan(q, l, f) == \E i \in 1 .. Len(q[l]) : q[l][i] = f

Linked(n, p) == \E addr \in Addrs : Host(addr) = p /\ <<n, addr>> \in conns

\* An OnLine from n to p is on its way.
Knocks(n, p) == \E f \in Frames : f.type = "online" /\ InChan(chan, <<n, p>>, f)

\* n has handled all OnLines p sent, and there were some.
Heard(n, p) == Linked(p, n) /\ ~ Knocks(p, n)

\* A dial between the two is due.
Due(p, q) == \E d \in dials : d.by = p /\ Host(d.addr) = q

\* n tells q of p, and q will dial p.
Tells(n, p, q) ==
  /\ AddrRank[q] <= AddrRank[p]
  /\ \E f \in Frames : /\ f.type \in {"gossip", "ack"} /\ Seed(Main(p), p) \in f.seeds
                       /\ InChan(chan, <<n, q>>, f)

Introduced(n, p, q) ==
  \/ Linked(p, q) \/ Linked(q, p) \/ Due(p, q) \/ Due(q, p)
  \/ Tells(n, p, q) \/ Tells(n, q, p)

BootsDue == \A l \in Boot : \/ <<l[1], Main(l[2])>> \in conns
                            \/ DialTask(l[1], Main(l[2]), l[2], "boot") \in dials
Returned == \A n, p \in Nodes : Linked(n, p) => Linked(p, n) \/ Knocks(n, p) \/ Due(p, n)
HeardOf == /\ \A n \in Nodes : Seed(Main(n), n) \in reg[n]
           /\ \A n, p \in Nodes : Heard(n, p) => Seed(Main(p), p) \in reg[n]

\* Without mislabelled seeds nobody typed a connect command.
NoCli == deaf = {} /\ \A d \in dials : d.why # "cli"
AllIntroduced ==
  \A n, p, q \in Nodes : n # p /\ n # q /\ p # q /\ Heard(n, p) /\ Heard(n, q) => Introduced(n, p, q)

MeshInv ==
  /\ BootsDue
  /\ Returned
  /\ HeardOf
  /\ Truth => NoCli /\ AllIntroduced

\* What is in the channels after a write, a read and a broadcast.
LEMMA SendHas ==
  ASSUME NEW q, GoodChan(q), NEW n \in Nodes, NEW p \in Nodes, NEW f \in GoodFrames(<<n, p>>),
         NEW k \in Pairs, NEW g
  PROVE  InChan(Send(q, f), k, g) <=> InChan(q, k, g) \/ (k = <<n, p>> /\ g = f)
<1>1. <<n, p>> \in Pairs /\ f.from = n /\ f.to = p
  BY DEF Pairs, GoodFrames
<1>2. Send(q, f) = [q EXCEPT ![<<n, p>>] = Append(@, f)]
  BY <1>1 DEF Send
<1>3. CASE k # <<n, p>>
  <2>1. Send(q, f)[k] = q[k]
    BY <1>2, <1>3 DEF GoodChan
  <2> QED
    BY <1>3, <2>1 DEF InChan
<1>4. CASE k = <<n, p>>
  <2>1. Send(q, f)[k] = Append(q[k], f)
    BY <1>1, <1>2, <1>4 DEF GoodChan
  <2>2. q[k] \in Seq(GoodFrames(k)) /\ f \in GoodFrames(k)
    BY <1>4 DEF GoodChan
  <2> QED
    BY <1>4, <2>1, <2>2 DEF InChan
<1> QED
  BY <1>3, <1>4

LEMMA ReadHas ==
  ASSUME NEW q, GoodChan(q), NEW l \in Pairs, q[l] # <<>>, NEW k \in Pairs, NEW g
  PROVE  /\ InChan(Read(q, Head(q[l])), k, g) => InChan(q, k, g)
         /\ InChan(q, k, g) => InChan(Read(q, Head(q[l])), k, g) \/ (k = l /\ g = Head(q[l]))
<1> DEFINE m == Head(q[l])
<1>1. q[l] \in Seq(GoodFrames(l))
  BY DEF GoodChan
<1>2. m \in GoodFrames(l)
  BY <1>1
<1>3. <<m.from, m.to>> = l
  BY <1>2 DEF GoodFrames, Pairs
<1>4. Read(q, m) = [q EXCEPT ![l] = Tail(@)]
  BY <1>3 DEF Read
<1>5. CASE k # l
  <2>1. Read(q, m)[k] = q[k]
    BY <1>4, <1>5 DEF GoodChan
  <2> QED
    BY <2>1 DEF InChan
<1>6. CASE k = l
  <2>1. Read(q, m)[k] = Tail(q[l])
    BY <1>4, <1>6 DEF GoodChan
  <2>2. Len(Tail(q[l])) = Len(q[l]) - 1 /\ Len(q[l]) \in Nat /\ Len(q[l]) > 0
    BY <1>1
  <2>3. \A i \in 1 .. Len(q[l]) - 1 : Tail(q[l])[i] = q[l][i + 1]
    BY <1>1
  <2>4. m = q[l][1]
    BY <1>1
  <2>5. ASSUME InChan(Read(q, m), k, g) PROVE InChan(q, k, g)
    <3>1. PICK i \in 1 .. Len(q[l]) - 1 : Tail(q[l])[i] = g
      BY <2>1, <2>2, <2>5 DEF InChan
    <3>2. i + 1 \in 1 .. Len(q[l]) /\ q[l][i + 1] = g
      BY <2>2, <2>3, <3>1
    <3> QED
      BY <1>6, <3>2 DEF InChan
  <2>6. ASSUME InChan(q, k, g), g # m PROVE InChan(Read(q, m), k, g)
    <3>1. PICK i \in 1 .. Len(q[l]) : q[l][i] = g
      BY <1>6, <2>6 DEF InChan
    <3>2. i # 1
      BY <2>4, <2>6, <3>1
    <3>3. i - 1 \in 1 .. Len(q[l]) - 1
      BY <2>2, <3>1, <3>2
    <3>4. Tail(q[l])[i - 1] = g
      BY <2>2, <2>3, <3>1, <3>3
    <3> QED
      BY <2>1, <2>2, <3>3, <3>4 DEF InChan
  <2> QED
    BY <1>6, <2>5, <2>6
<1> QED
  BY <1>5, <1>6

LEMMA BroadcastHas ==
  ASSUME NEW q, GoodChan(q), NEW n, NEW seeds, NEW k \in Pairs, NEW g
  PROVE  InChan(Broadcast(q, n, seeds), k, g) <=>
           \/ InChan(q, k, g)
           \/ k[1] = n /\ k[2] \in Readers(n) /\ g = Gossip(n, k[2], seeds)
<1>1. CASE k[1] = n /\ k[2] \in Readers(n)
  <2>1. Broadcast(q, n, seeds)[k] = Append(q[k], Gossip(n, k[2], seeds))
    BY <1>1 DEF Broadcast
  <2>2. q[k] \in Seq(GoodFrames(k))
    BY DEF GoodChan
  <2>3. PICK f : f = Gossip(n, k[2], seeds)
    OBVIOUS
  <2>4. /\ Len(Append(q[k], f)) = Len(q[k]) + 1 /\ Len(q[k]) \in Nat
        /\ Append(q[k], f)[Len(q[k]) + 1] = f
        /\ \A i \in 1 .. Len(q[k]) : Append(q[k], f)[i] = q[k][i]
    BY <2>2
  <2> QED
    BY <1>1, <2>1, <2>3, <2>4 DEF InChan
<1>2. CASE ~ (k[1] = n /\ k[2] \in Readers(n))
  <2>1. Broadcast(q, n, seeds)[k] = q[k]
    BY <1>2 DEF Broadcast
  <2> QED
    BY <1>2, <2>1 DEF InChan
<1> QED
  BY <1>1, <1>2

\* With all labels right, a SeedsCommand has every seed of the registry.
LEMMA RecordsAll ==
  ASSUME NEW seeds \in SUBSET Seeds, \A s \in seeds : ~ Mislabelled(s), NEW some \in Records(seeds)
  PROVE  some = seeds
<1>1. \A s, t \in seeds : s[1] = t[1] => s = t
  BY DEF Mislabelled, IdOf, Seeds
<1> QED
  BY <1>1 DEF Records

LEMMA MeshInit == Init => MeshInv
<1> SUFFICES ASSUME Init PROVE MeshInv
  OBVIOUS
<1>1. BootsDue
  BY DEF Init, BootsDue
<1>2. \A n, p \in Nodes : ~ Linked(n, p)
  BY DEF Init, Linked
<1>3. \A n \in Nodes : Seed(Main(n), n) \in reg[n]
  <2>1. \A n \in Nodes : Main(n) \in Own(n)
    BY DEF Own, Main, Addrs, Host, Listens
  <2> QED
    BY <2>1 DEF Init
<1>4. NoCli
  BY DEF Init, NoCli, DialTask
<1> QED
  BY <1>1, <1>2, <1>3, <1>4 DEF MeshInv, Returned, HeardOf, AllIntroduced, Heard

\* A connect command to another node puts its address under the wrong id.
LEMMA MeshCli ==
  ASSUME GossipInv, MeshInv, NEW n \in Nodes, NEW p \in Nodes, CliConnect(n, p)
  PROVE  MeshInv'
<1>1. /\ Seed(Main(p), n) \notin reg[n]
      /\ reg' = [reg EXCEPT ![n] = @ \cup {Seed(Main(p), n)}]
      /\ dials \subseteq dials'
      /\ UNCHANGED <<connected, conns, deaf, chan>>
  BY DEF CliConnect
<1>2. \A k \in Nodes : reg[k] \subseteq reg'[k]
  BY <1>1 DEF GossipInv
<1>3. ~ Truth'
  <2>1. n # p
    BY <1>1 DEF MeshInv, HeardOf
  <2>2. Seed(Main(p), n) \in reg'[n]
    BY <1>1 DEF GossipInv
  <2>3. Mislabelled(Seed(Main(p), n))
    BY <2>1 DEF Mislabelled, Seed, IdOf, Host, Main
  <2> QED
    BY <2>2, <2>3 DEF Truth, Mislabelled
<1>4. BootsDue'
  BY <1>1 DEF MeshInv, BootsDue
<1>5. Returned'
  BY <1>1 DEF MeshInv, Returned, Linked, Knocks, Due
<1>6. HeardOf'
  BY <1>1, <1>2 DEF MeshInv, HeardOf, Heard, Linked, Knocks
<1> QED
  BY <1>3, <1>4, <1>5, <1>6 DEF MeshInv

\* A dial, which adds a connection and its OnLine or finds the connection there.
LEMMA MeshDial ==
  ASSUME GossipInv, MeshInv, NEW d \in dials, Dial(d)
  PROVE  MeshInv'
<1> DEFINE n == d.by
           p == Host(d.addr)
<1>1. d.addr \in Addrs /\ n \in Nodes /\ p \in Nodes
  BY DEF GossipInv, Tasks, Addrs, Host
<1>2. dials' = dials \ {d} /\ reg' = reg
  BY DEF Dial
<1>3. /\ conns' = conns \cup {<<n, d.addr>>}
      /\ d.why # "cli" => deaf' = deaf
  BY DEF Dial
<1>4. /\ \A k \in Pairs, g \in Frames : InChan(chan, k, g) => InChan(chan', k, g)
      /\ <<n, d.addr>> \notin conns => Knocks(n, p)'
      /\ <<n, d.addr>> \in conns => chan' = chan
  <2>1. CASE <<n, d.addr>> \in conns
    BY <2>1 DEF Dial
  <2>2. CASE <<n, d.addr>> \notin conns
    <3>1. PICK seeds \in Loads(d) :
            chan' = Send(chan, Online(n, p, seeds, d.addr))
      BY <2>2 DEF Dial
    <3>2. seeds \in SUBSET Seeds /\ \A s \in seeds : Truthful(s)
      <4>1. reg[n] \in SUBSET Seeds /\ \A s \in reg[n] : Truthful(s)
        BY <1>1 DEF GossipInv, SeedIdsTruthful, Truthful
      <4>2. seeds \subseteq reg[n]
        BY LoadsSubset DEF GossipInv
      <4> QED
        BY <4>1, <4>2
    <3>3. PICK f : f = Online(n, p, seeds, d.addr)
      OBVIOUS
    <3>4. f \in GoodFrames(<<n, p>>) /\ f.type = "online" /\ f \in Frames
      BY <1>1, <3>2, <3>3 DEF Online, GoodFrames, Frames
    <3>5. \A k \in Pairs : \A g : InChan(chan', k, g) <=> InChan(chan, k, g) \/ (k = <<n, p>> /\ g = f)
      BY <1>1, <3>1, <3>3, <3>4, SendHas DEF GossipInv
    <3>6. <<n, p>> \in Pairs
      BY <1>1 DEF Pairs
    <3>7. Knocks(n, p)'
      BY <3>4, <3>5, <3>6 DEF Knocks
    <3> QED
      BY <2>2, <3>5, <3>7
  <2> QED
    BY <2>1, <2>2
<1>5. ASSUME NEW i \in Nodes, NEW j \in Nodes
      PROVE  /\ Linked(i, j) => Linked(i, j)'
             /\ Linked(i, j)' => Linked(i, j) \/ Knocks(i, j)'
             /\ Knocks(i, j) => Knocks(i, j)'
             /\ Due(i, j) => Due(i, j)' \/ Linked(i, j)'
  <2>1. <<i, j>> \in Pairs
    BY DEF Pairs
  <2>2. Linked(i, j) => Linked(i, j)'
    BY <1>3 DEF Linked
  <2>3. Linked(i, j)' => Linked(i, j) \/ Knocks(i, j)'
    BY <1>3, <1>4 DEF Linked
  <2>4. Knocks(i, j) => Knocks(i, j)'
    BY <1>4, <2>1 DEF Knocks
  <2>5. Due(i, j) => Due(i, j)' \/ Linked(i, j)'
    BY <1>1, <1>2, <1>3 DEF Due, Linked
  <2> QED
    BY <2>2, <2>3, <2>4, <2>5
<1>6. BootsDue'
  <2> SUFFICES ASSUME NEW l \in Boot
               PROVE  \/ <<l[1], Main(l[2])>> \in conns'
                      \/ DialTask(l[1], Main(l[2]), l[2], "boot") \in dials'
    BY DEF BootsDue
  <2>1. CASE DialTask(l[1], Main(l[2]), l[2], "boot") = d
    BY <1>3, <2>1 DEF DialTask
  <2>2. CASE DialTask(l[1], Main(l[2]), l[2], "boot") # d
    BY <1>2, <1>3, <2>2 DEF MeshInv, BootsDue
  <2> QED
    BY <2>1, <2>2
<1>7. Returned'
  BY <1>5 DEF MeshInv, Returned
<1>8. \A i, j \in Nodes : Heard(i, j)' => Heard(i, j)
  BY <1>5 DEF Heard
<1>9. HeardOf'
  BY <1>2, <1>8 DEF MeshInv, HeardOf
<1>10. ASSUME Truth' PROVE NoCli' /\ AllIntroduced'
  <2>1. NoCli /\ AllIntroduced
    BY <1>2, <1>10 DEF MeshInv, Truth
  <2>2. NoCli'
    BY <1>2, <1>3, <2>1 DEF NoCli
  <2>3. ASSUME NEW i \in Nodes, NEW j \in Nodes, NEW k \in Nodes, Tells(i, j, k)
        PROVE  Tells(i, j, k)'
    <3>1. <<i, k>> \in Pairs
      BY DEF Pairs
    <3> QED
      BY <1>4, <2>3, <3>1 DEF Tells
  <2>4. \A i, j, k \in Nodes : Introduced(i, j, k) => Introduced(i, j, k)'
    BY <1>5, <2>3 DEF Introduced
  <2>5. AllIntroduced'
    BY <1>8, <2>1, <2>4 DEF AllIntroduced
  <2> QED
    BY <2>2, <2>5
<1> QED
  BY <1>6, <1>7, <1>9, <1>10 DEF MeshInv

\* A dial that collects its seeds stays due.
LEMMA MeshCollect ==
  ASSUME GossipInv, MeshInv, NEW d \in dials, Collect(d)
  PROVE  MeshInv'
<1>1. UNCHANGED <<reg, connected, conns, deaf, chan>>
  BY Collects
<1>2. PICK e \in Tasks : /\ dials' = (dials \ {d}) \cup {e}
                        /\ e.by = d.by /\ e.addr = d.addr
                        /\ d.why = "seed" /\ e.why = "seed"
  BY Collects
<1>3. \A i, j \in Nodes : Due(i, j) => Due(i, j)'
  BY <1>2 DEF Due
<1>4. BootsDue'
  <2>1. \A l \in Boot : DialTask(l[1], Main(l[2]), l[2], "boot") # d
    BY <1>2 DEF DialTask
  <2> QED
    BY <1>1, <1>2, <2>1 DEF MeshInv, BootsDue
<1>5. \A i, j \in Nodes : /\ Linked(i, j)' <=> Linked(i, j)
                          /\ Knocks(i, j)' <=> Knocks(i, j)
                          /\ Heard(i, j)' <=> Heard(i, j)
  BY <1>1 DEF Linked, Knocks, Heard
<1>6. Returned' /\ HeardOf'
  BY <1>1, <1>3, <1>5 DEF MeshInv, Returned, HeardOf
<1>7. ASSUME Truth' PROVE NoCli' /\ AllIntroduced'
  <2>1. NoCli /\ AllIntroduced
    BY <1>1, <1>7 DEF MeshInv, Truth
  <2>2. NoCli'
    BY <1>1, <1>2, <2>1 DEF NoCli
  <2>3. \A i, j, k \in Nodes : Tells(i, j, k)' <=> Tells(i, j, k)
    BY <1>1 DEF Tells
  <2>4. \A i, j, k \in Nodes : Introduced(i, j, k) => Introduced(i, j, k)'
    BY <1>3, <1>5, <2>3 DEF Introduced
  <2>5. AllIntroduced'
    BY <1>5, <2>1, <2>4 DEF AllIntroduced
  <2> QED
    BY <2>2, <2>5
<1> QED
  BY <1>4, <1>6, <1>7 DEF MeshInv

\* What the three handlers have in common, and what each adds.
LEMMA HandleDoes ==
  ASSUME GossipInv, NEW l \in Pairs, Handle(l), NEW m, m = Head(chan[l])
  PROVE  /\ UNCHANGED <<conns, deaf>> /\ dials \subseteq dials'
         /\ \A d \in dials' \ dials : d.why # "cli"
         /\ \A k \in Nodes : reg[k] \subseteq reg'[k]
         /\ \A k \in Pairs : \A g : InChan(chan, k, g) => InChan(chan', k, g) \/ (k = l /\ g = m)
         /\ \A k \in Pairs : \A g : InChan(chan', k, g) /\ g.type = "online" => InChan(chan, k, g)
         /\ m.type = "online" =>
              /\ Seed(Main(m.from), m.from) \in reg'[m.to]
              /\ <<m.to, Main(m.from)>> \in conns \/ DialTask(m.to, Main(m.from), m.from, "return") \in dials'
              /\ \E records \in Records(reg'[m.to]) :
                   \A k \in Readers(m.to) : InChan(chan', <<m.to, k>>, Gossip(m.to, k, records))
         /\ m.type # "online" =>
              \A s \in m.seeds :
                \/ IdOf(s) \in connected[m.to] \cup {m.from, m.to}
                \/ AddrRank[m.to] > AddrRank[IdOf(s)] \/ ~ Listens(s[1])
                \/ DialTask(m.to, s[1], IdOf(s), "seed") \in dials'
<1>0. PICK n, p : n = m.to /\ p = m.from
  OBVIOUS
<1>1. m \in GoodFrames(l) /\ chan[l] # <<>>
  BY DEF GossipInv, GoodChan, Handle
<1>2. n \in Nodes /\ p \in Nodes /\ l = <<p, n>> /\ m.over \in Addrs
  BY <1>0, <1>1 DEF GoodFrames, Frames, Pairs
<1>3. m.seeds \in SUBSET Seeds /\ \A s \in m.seeds : Truthful(s)
  BY <1>1 DEF GoodFrames, Frames
<1>4. GoodChan(Read(chan, m))
  BY <1>1, ReadGood DEF GossipInv
<1>5. reg[n] \in SUBSET Seeds /\ (\A s \in reg[n] : Truthful(s)) /\ reg \in [Nodes -> SUBSET Seeds]
  BY <1>2 DEF GossipInv, SeedIdsTruthful, Truthful
<1>6. \A k \in Pairs : \A g :
        /\ InChan(Read(chan, m), k, g) => InChan(chan, k, g)
        /\ InChan(chan, k, g) => InChan(Read(chan, m), k, g) \/ (k = l /\ g = m)
  BY <1>1, ReadHas DEF GossipInv
<1>7. ASSUME NEW q, GoodChan(q), NEW seeds, NEW k \in Pairs, NEW g
      PROVE  /\ InChan(q, k, g) => InChan(Broadcast(q, n, seeds), k, g)
             /\ InChan(Broadcast(q, n, seeds), k, g) /\ g.type = "online" => InChan(q, k, g)
  <2>1. \A j : Gossip(n, j, seeds).type = "gossip"
    BY DEF Gossip
  <2>2. InChan(Broadcast(q, n, seeds), k, g) <=>
          \/ InChan(q, k, g)
          \/ k[1] = n /\ k[2] \in Readers(n) /\ g = Gossip(n, k[2], seeds)
    BY <1>7, BroadcastHas
  <2> QED
    BY <2>1, <2>2
<1>8. CASE HandleOnline(m)
  <2> DEFINE seeds == reg[n] \cup {Seed(Main(p), p)} \cup m.seeds
  <2>1. /\ reg' = [reg EXCEPT ![n] = seeds]
        /\ dials' = (IF <<n, Main(p)>> \in conns THEN dials
                     ELSE dials \cup {DialTask(n, Main(p), p, "return")})
        /\ UNCHANGED <<conns, deaf>>
        /\ m.type = "online"
    BY <1>0, <1>8 DEF HandleOnline
  <2>2. reg'[n] = seeds /\ \A k \in Nodes : reg[k] \subseteq reg'[k]
    BY <1>2, <1>5, <2>1
  <2>3. dials \subseteq dials' /\ \A d \in dials' \ dials : d.why # "cli"
    BY <2>1 DEF DialTask
  <2>4. PICK records \in Records(seeds) :
          LET acked == IF <<p, m.over>> \in deaf THEN Read(chan, m)
                       ELSE Send(Read(chan, m), Ack(n, p, records, m.over))
          IN chan' = Broadcast(acked, n, records)
    BY <1>0, <1>8 DEF HandleOnline
  <2>5. records \in SUBSET Seeds /\ \A s \in records : Truthful(s)
    <3>1. Seed(Main(p), p) \in Seeds /\ Truthful(Seed(Main(p), p))
      BY <1>2 DEF Seed, Main, Seeds, Addrs, Truthful, Mislabelled, IdOf, Host
    <3> QED
      BY <1>3, <1>5, <3>1, RecordsSubset
  <2>6. PICK f : f = Ack(n, p, records, m.over)
    OBVIOUS
  <2>7. f \in GoodFrames(<<n, p>>) /\ f.type = "ack"
    <3>1. Host(m.over) = n
      BY <1>0, <1>1, <2>1 DEF GoodFrames
    <3>2. Ack(n, p, records, m.over) \in Frames
      BY <1>2, <2>5 DEF Ack, Frames
    <3> QED
      BY <2>5, <2>6, <3>1, <3>2 DEF Ack, GoodFrames
  <2>8. PICK acked : /\ acked = (IF <<p, m.over>> \in deaf THEN Read(chan, m) ELSE Send(Read(chan, m), f))
                     /\ chan' = Broadcast(acked, n, records)
    BY <2>4, <2>6
  <2>9. /\ GoodChan(acked)
        /\ \A k \in Pairs : \A g : InChan(Read(chan, m), k, g) => InChan(acked, k, g)
        /\ \A k \in Pairs : \A g : InChan(acked, k, g) /\ g.type = "online" => InChan(Read(chan, m), k, g)
    <3>1. CASE <<p, m.over>> \in deaf
      BY <1>4, <2>8, <3>1
    <3>2. CASE <<p, m.over>> \notin deaf
      <4>1. acked = Send(Read(chan, m), f)
        BY <2>8, <3>2
      <4>2. GoodChan(acked)
        BY <1>2, <1>4, <2>7, <4>1, SendGood
      <4>3. \A k \in Pairs : \A g : InChan(acked, k, g) <=> InChan(Read(chan, m), k, g) \/ (k = <<n, p>> /\ g = f)
        <5> SUFFICES ASSUME NEW k \in Pairs, NEW g
                     PROVE  InChan(acked, k, g) <=> InChan(Read(chan, m), k, g) \/ (k = <<n, p>> /\ g = f)
          OBVIOUS
        <5>1. PICK r : r = Read(chan, m)
          OBVIOUS
        <5>2. InChan(Send(r, f), k, g) <=> InChan(r, k, g) \/ (k = <<n, p>> /\ g = f)
          BY <1>2, <1>4, <2>7, <5>1, SendHas
        <5> QED
          BY <4>1, <5>1, <5>2
      <4> QED
        BY <2>7, <4>2, <4>3
    <3> QED
      BY <3>1, <3>2
  <2>10. \A k \in Pairs : \A g : InChan(chan, k, g) => InChan(chan', k, g) \/ (k = l /\ g = m)
    BY <1>6, <1>7, <2>8, <2>9
  <2>11. \A k \in Pairs : \A g : InChan(chan', k, g) /\ g.type = "online" => InChan(chan, k, g)
    BY <1>6, <1>7, <2>8, <2>9
  <2>12. \A k \in Readers(n) : InChan(chan', <<n, k>>, Gossip(n, k, records))
    <3> SUFFICES ASSUME NEW k \in Readers(n) PROVE InChan(chan', <<n, k>>, Gossip(n, k, records))
      OBVIOUS
    <3>1. <<n, k>> \in Pairs
      BY <1>2 DEF Readers, Pairs
    <3> QED
      BY <2>8, <2>9, <3>1, BroadcastHas
  <2>13. Seed(Main(p), p) \in reg'[n] /\ records \in Records(reg'[n])
    BY <2>2
  <2>14. <<n, Main(p)>> \in conns \/ DialTask(n, Main(p), p, "return") \in dials'
    BY <2>1
  <2> QED
    BY <1>0, <2>1, <2>2, <2>3, <2>10, <2>11, <2>12, <2>13, <2>14
<1>9. ASSUME NEW records, chan' = Broadcast(Read(chan, m), n, records) \/ chan' = Read(chan, m)
      PROVE  /\ \A k \in Pairs : \A g : InChan(chan, k, g) => InChan(chan', k, g) \/ (k = l /\ g = m)
             /\ \A k \in Pairs : \A g : InChan(chan', k, g) /\ g.type = "online" => InChan(chan, k, g)
  BY <1>4, <1>6, <1>7, <1>9
<1>10. ASSUME NEW flagged, flagged \subseteq connected[n] \cup {p}, dials' = dials \cup NewDials(n, m.seeds, flagged)
       PROVE  /\ dials \subseteq dials' /\ \A d \in dials' \ dials : d.why # "cli"
              /\ \A s \in m.seeds :
                   \/ IdOf(s) \in connected[n] \cup {p, n}
                   \/ AddrRank[n] > AddrRank[IdOf(s)] \/ ~ Listens(s[1])
                   \/ DialTask(n, s[1], IdOf(s), "seed") \in dials'
  <2>1. \A d \in NewDials(n, m.seeds, flagged) : d.why # "cli"
    BY DEF NewDials, DialTask
  <2>2. ASSUME NEW s \in m.seeds
        PROVE  \/ IdOf(s) \in connected[n] \cup {p, n}
               \/ AddrRank[n] > AddrRank[IdOf(s)] \/ ~ Listens(s[1])
               \/ DialTask(n, s[1], IdOf(s), "seed") \in NewDials(n, m.seeds, flagged)
    <3>1. IdOf(s) \in Nodes
      BY <1>3 DEF IdOf, Seeds
    <3>2. AddrRank[n] \in Nat /\ AddrRank[IdOf(s)] \in Nat
      BY <1>2, <3>1, GossipAssumption
    <3> QED
      BY <1>10, <3>2 DEF NewDials
  <2> QED
    BY <1>10, <2>1, <2>2
<1>11. CASE HandleAck(m)
  <2> DEFINE before == reg[n] \cup {Seed(m.over, p)} \cup {Seed(addr, p) : addr \in Own(p)}
             after == before \cup m.seeds
             flagged == connected[n] \cup {p}
  <2>1. /\ reg' = [reg EXCEPT ![n] = after]
        /\ dials' = dials \cup NewDials(n, m.seeds, flagged)
        /\ UNCHANGED <<conns, deaf>>
        /\ m.type = "ack"
    BY <1>0, <1>11 DEF HandleAck
  <2>2. \A k \in Nodes : reg[k] \subseteq reg'[k]
    BY <1>2, <1>5, <2>1
  <2>3. \E records : chan' = Broadcast(Read(chan, m), n, records) \/ chan' = Read(chan, m)
    BY <1>0, <1>11 DEF HandleAck
  <2> QED
    BY <1>0, <1>9, <1>10, <2>1, <2>2, <2>3
<1>12. CASE HandleGossip(m)
  <2> DEFINE before == reg[n] \cup {Seed(Zero(p), p)}
  <2>1. /\ dials' = dials \cup NewDials(n, m.seeds, connected[n])
        /\ UNCHANGED <<conns, deaf>>
        /\ m.type = "gossip"
    BY <1>0, <1>12 DEF HandleGossip
  <2>2. /\ \E after : before \subseteq after /\ reg' = [reg EXCEPT ![n] = after]
        /\ \E records : chan' = Broadcast(Read(chan, m), n, records) \/ chan' = Read(chan, m)
    BY <1>0, <1>12 DEF HandleGossip
  <2>3. \A k \in Nodes : reg[k] \subseteq reg'[k]
    BY <1>2, <1>5, <2>2
  <2> QED
    BY <1>0, <1>9, <1>10, <2>1, <2>2, <2>3
<1> QED
  BY <1>0, <1>8, <1>11, <1>12 DEF Handle

\* A frame handled: what it was to bring about is there, or due.
LEMMA MeshHandle ==
  ASSUME GossipInv, FlagInv, MeshInv, NEW l \in Pairs, Handle(l)
  PROVE  MeshInv'
<1>1. PICK m, n, p : m = Head(chan[l]) /\ n = m.to /\ p = m.from
  OBVIOUS
<1>2. m \in GoodFrames(l) /\ n \in Nodes /\ p \in Nodes /\ l = <<p, n>>
  <2>1. m \in GoodFrames(l)
    BY <1>1 DEF GossipInv, GoodChan, Handle
  <2> QED
    BY <1>1, <2>1 DEF GoodFrames, Frames, Pairs
<1>3. /\ conns' = conns /\ deaf' = deaf /\ dials \subseteq dials'
      /\ \A d \in dials' \ dials : d.why # "cli"
      /\ \A k \in Nodes : reg[k] \subseteq reg'[k]
  BY <1>1, HandleDoes
<1>4. \A k \in Pairs : \A g : InChan(chan, k, g) => InChan(chan', k, g) \/ (k = l /\ g = m)
  BY <1>1, HandleDoes
<1>5. \A k \in Pairs : \A g : InChan(chan', k, g) /\ g.type = "online" => InChan(chan, k, g)
  BY <1>1, HandleDoes
<1>6. m.type = "online" =>
        /\ Seed(Main(p), p) \in reg'[n]
        /\ <<n, Main(p)>> \in conns \/ DialTask(n, Main(p), p, "return") \in dials'
        /\ \E records \in Records(reg'[n]) :
             \A k \in Readers(n) : InChan(chan', <<n, k>>, Gossip(n, k, records))
  BY <1>1, HandleDoes
<1>7. m.type # "online" =>
        \A s \in m.seeds :
          \/ IdOf(s) \in connected[n] \cup {p, n}
          \/ AddrRank[n] > AddrRank[IdOf(s)] \/ ~ Listens(s[1])
          \/ DialTask(n, s[1], IdOf(s), "seed") \in dials'
  BY <1>1, HandleDoes
<1>8. GossipInv'
  BY GossipHandle
<1>9. ASSUME NEW i \in Nodes, NEW j \in Nodes
      PROVE  /\ Linked(i, j)' <=> Linked(i, j)
             /\ Due(i, j) => Due(i, j)'
             /\ Knocks(i, j) => Knocks(i, j)' \/ (i = p /\ j = n /\ m.type = "online")
             /\ Knocks(i, j)' => Knocks(i, j)
  <2>1. <<i, j>> \in Pairs
    BY DEF Pairs
  <2>2. Linked(i, j)' <=> Linked(i, j)
    BY <1>3 DEF Linked
  <2>3. Due(i, j) => Due(i, j)'
    BY <1>3 DEF Due
  <2>4. Knocks(i, j) => Knocks(i, j)' \/ (i = p /\ j = n /\ m.type = "online")
    BY <1>2, <1>4, <2>1 DEF Knocks
  <2>5. Knocks(i, j)' => Knocks(i, j)
    BY <1>5, <2>1 DEF Knocks
  <2> QED
    BY <2>2, <2>3, <2>4, <2>5
<1>10. m.type = "online" => Linked(n, p) \/ Due(n, p)'
  <2>1. Main(p) \in Addrs /\ Host(Main(p)) = p
    BY <1>2 DEF Main, Addrs, Host
  <2> QED
    BY <1>6, <2>1 DEF Linked, Due, DialTask
<1>11. BootsDue'
  BY <1>3 DEF MeshInv, BootsDue
<1>12. Returned'
  BY <1>9, <1>10 DEF MeshInv, Returned
<1>13. ASSUME NEW i \in Nodes, NEW j \in Nodes, Heard(i, j)'
       PROVE  Heard(i, j) \/ (i = n /\ j = p /\ m.type = "online")
  BY <1>9, <1>13 DEF Heard
<1>14. HeardOf'
  BY <1>3, <1>6, <1>13 DEF MeshInv, HeardOf
<1>15. ASSUME Truth' PROVE NoCli' /\ AllIntroduced'
  <2>1. Truth /\ NoCli /\ AllIntroduced /\ FlagsJoined
    <3>1. Truth
      BY <1>3, <1>15 DEF Truth, Mislabelled
    <3> QED
      BY <3>1 DEF MeshInv, FlagInv
  <2>2. NoCli'
    BY <1>3, <2>1 DEF NoCli
  <2>3. ASSUME NEW i \in Nodes, NEW j \in Nodes, NEW k \in Nodes, i # j, j # k, Tells(i, j, k)
        PROVE  Tells(i, j, k)' \/ Linked(j, k) \/ Linked(k, j) \/ Due(k, j)'
    <3>1. <<i, k>> \in Pairs
      BY DEF Pairs
    <3>2. PICK f \in Frames : /\ f.type \in {"gossip", "ack"} /\ Seed(Main(j), j) \in f.seeds
                              /\ InChan(chan, <<i, k>>, f)
      BY <2>3 DEF Tells
    <3>3. CASE InChan(chan', <<i, k>>, f)
      BY <2>3, <3>2, <3>3 DEF Tells
    <3>4. CASE <<i, k>> = l /\ f = m
      <4>1. k = n /\ i = p /\ m.type # "online" /\ Seed(Main(j), j) \in m.seeds
        BY <1>2, <3>2, <3>4
      <4>2. /\ IdOf(Seed(Main(j), j)) = j /\ Seed(Main(j), j)[1] = Main(j)
            /\ Listens(Main(j)) /\ Main(j) \in Addrs /\ Host(Main(j)) = j
        BY DEF IdOf, Seed, Main, Listens, Addrs, Host
      <4>3. \/ j \in connected[n] \cup {p, n}
            \/ AddrRank[n] > AddrRank[j]
            \/ DialTask(n, Main(j), j, "seed") \in dials'
        BY <1>7, <4>1, <4>2
      <4>4. ~ (AddrRank[n] > AddrRank[j])
        <5>1. AddrRank[n] \in Nat /\ AddrRank[j] \in Nat
          BY <1>2, GossipAssumption
        <5> QED
          BY <2>3, <4>1, <5>1 DEF Tells
      <4>5. CASE j \in connected[n]
        BY <1>2, <2>1, <4>1, <4>5 DEF FlagsJoined, Joins, Linked
      <4>6. CASE DialTask(n, Main(j), j, "seed") \in dials'
        BY <4>1, <4>2, <4>6 DEF Due, DialTask
      <4> QED
        BY <2>3, <4>1, <4>3, <4>4, <4>5, <4>6
    <3> QED
      BY <1>4, <3>1, <3>2, <3>3, <3>4
  <2>4. ASSUME NEW i \in Nodes, NEW j \in Nodes, NEW k \in Nodes, i # j, i # k, j # k,
               Introduced(i, j, k)
        PROVE  Introduced(i, j, k)'
    <3>1. /\ Linked(j, k) => Linked(j, k)'
          /\ Linked(k, j) => Linked(k, j)'
          /\ Due(j, k) => Due(j, k)'
          /\ Due(k, j) => Due(k, j)'
      BY <1>9
    <3>2. Tells(i, j, k) => Tells(i, j, k)' \/ Linked(j, k) \/ Linked(k, j) \/ Due(k, j)'
      BY <2>3, <2>4
    <3>3. Tells(i, k, j) => Tells(i, k, j)' \/ Linked(j, k) \/ Linked(k, j) \/ Due(j, k)'
      BY <2>3, <2>4
    <3> QED
      BY <2>4, <3>1, <3>2, <3>3 DEF Introduced
  <2>5. ASSUME m.type = "online", NEW j \in Nodes, NEW k \in Nodes, n # j, n # k,
               Heard(n, j)', Heard(n, k)', AddrRank[k] <= AddrRank[j]
        PROVE  Tells(n, j, k)'
    <3>1. PICK records \in Records(reg'[n]) :
            \A i \in Readers(n) : InChan(chan', <<n, i>>, Gossip(n, i, records))
      BY <1>6, <2>5
    <3>2. reg'[n] \in SUBSET Seeds /\ \A s \in reg'[n] : ~ Mislabelled(s)
      BY <1>2, <1>8, <1>15 DEF GossipInv, Truth, Mislabelled
    <3>3. records = reg'[n]
      BY <3>1, <3>2, RecordsAll
    <3>4. Seed(Main(j), j) \in records
      BY <1>2, <1>14, <2>5, <3>3 DEF HeardOf
    <3>5. k \in Readers(n)
      <4>1. Linked(k, n)
        BY <1>2, <1>9, <2>5 DEF Heard
      <4> QED
        BY <2>1, <4>1 DEF NoCli, Linked, Readers
    <3>6. PICK f : f = Gossip(n, k, records)
      OBVIOUS
    <3>7. f \in Frames /\ f.type = "gossip" /\ f.seeds = records
      BY <1>2, <3>2, <3>3, <3>6 DEF Gossip, Frames, Main, Addrs
    <3>8. InChan(chan', <<n, k>>, f)
      BY <3>1, <3>5, <3>6
    <3> QED
      BY <2>5, <3>4, <3>7, <3>8 DEF Tells
  <2>6. ASSUME NEW i \in Nodes, NEW j \in Nodes, NEW k \in Nodes, i # j, i # k, j # k,
               Heard(i, j)', Heard(i, k)'
        PROVE  Introduced(i, j, k)'
    <3>1. CASE Heard(i, j) /\ Heard(i, k)
      BY <2>1, <2>4, <2>6, <3>1 DEF AllIntroduced
    <3>2. CASE ~ (Heard(i, j) /\ Heard(i, k))
      <4>1. i = n /\ m.type = "online"
        BY <1>13, <2>6, <3>2
      <4>2. AddrRank[j] \in Nat /\ AddrRank[k] \in Nat
        BY GossipAssumption
      <4>3. CASE AddrRank[k] <= AddrRank[j]
        BY <2>5, <2>6, <4>1, <4>3 DEF Introduced
      <4>4. CASE AddrRank[j] <= AddrRank[k]
        BY <2>5, <2>6, <4>1, <4>4 DEF Introduced
      <4> QED
        BY <4>2, <4>3, <4>4
    <3> QED
      BY <3>1, <3>2
  <2> QED
    BY <2>2, <2>6 DEF AllIntroduced
<1> QED
  BY <1>11, <1>12, <1>14, <1>15 DEF MeshInv

LEMMA MeshStep == GossipInv /\ FlagInv /\ MeshInv /\ [Next]_vars => MeshInv'
<1> SUFFICES ASSUME GossipInv, FlagInv, MeshInv, [Next]_vars PROVE MeshInv'
  OBVIOUS
<1>1. CASE UNCHANGED vars
  <2>1. UNCHANGED <<reg, connected, conns, deaf, dials, chan>>
    BY <1>1 DEF vars
  <2>2. BootsDue' /\ Returned' /\ HeardOf'
    BY <2>1 DEF MeshInv, BootsDue, Returned, HeardOf, Heard, Linked, Knocks, Due
  <2>3. Truth' => NoCli' /\ AllIntroduced'
    <3>1. (Truth' <=> Truth) /\ (NoCli' <=> NoCli)
      BY <2>1 DEF Truth, NoCli
    <3>2. \A i, j \in Nodes : Heard(i, j)' <=> Heard(i, j)
      BY <2>1 DEF Heard, Linked, Knocks
    <3>3. \A i, j, k \in Nodes : Tells(i, j, k)' <=> Tells(i, j, k)
      BY <2>1 DEF Tells
    <3>4. \A i, j \in Nodes : (Linked(i, j)' <=> Linked(i, j)) /\ (Due(i, j)' <=> Due(i, j))
      BY <2>1 DEF Linked, Due
    <3>5. \A i, j, k \in Nodes : Introduced(i, j, k) => Introduced(i, j, k)'
      BY <3>3, <3>4 DEF Introduced
    <3>6. AllIntroduced => AllIntroduced'
      BY <3>2, <3>5 DEF AllIntroduced
    <3> QED
      BY <3>1, <3>6 DEF MeshInv
  <2> QED
    BY <2>2, <2>3 DEF MeshInv
<1>2. CASE Next
  BY <1>2, MeshCli, MeshCollect, MeshDial, MeshHandle DEF Next
<1> QED
  BY <1>1, <1>2

\* At rest, what a node is connected with is closed under the first dials.
LEMMA MeshRest ==
  ASSUME BootConnects, MeshInv
  PROVE  MeshedAtRest
<1> SUFFICES ASSUME AtRest, Truth PROVE Meshed
  BY DEF MeshedAtRest, Truth
<1>1. NoCli /\ AllIntroduced
  BY DEF MeshInv
<1>2. \A k \in Pairs : \A g : ~ InChan(chan, k, g)
  BY DEF AtRest, InChan
<1>3. \A i, j \in Nodes : ~ Knocks(i, j) /\ ~ Due(i, j)
  <2>1. \A i, j \in Nodes : ~ Due(i, j)
    BY DEF AtRest, Due
  <2> QED
    BY <1>2, <2>1 DEF Knocks, Pairs
<1>4. \A i, j, k \in Nodes : ~ Tells(i, j, k)
  BY <1>2 DEF Tells, Pairs
<1>5. \A i, j \in Nodes : Linked(i, j) => Linked(j, i)
  BY <1>3 DEF MeshInv, Returned
<1>6. ASSUME NEW i \in Nodes, NEW j \in Nodes, NEW k \in Nodes, i # k, Linked(i, j), Linked(j, k)
      PROVE  Linked(i, k)
  <2>1. CASE i = j \/ j = k
    BY <1>6, <2>1
  <2>2. CASE i # j /\ j # k
    <3>1. Heard(j, i) /\ Heard(j, k)
      BY <1>3, <1>5, <1>6 DEF Heard
    <3>2. Introduced(j, i, k)
      BY <1>1, <1>6, <2>2, <3>1 DEF AllIntroduced
    <3> QED
      BY <1>3, <1>4, <1>5, <3>2 DEF Introduced
  <2> QED
    BY <2>1, <2>2
<1>7. ASSUME NEW l \in Boot
      PROVE  l[1] \in Nodes /\ l[2] \in Nodes /\ Linked(l[1], l[2])
  <2>1. l[1] \in Nodes /\ l[2] \in Nodes
    BY GossipAssumption
  <2>2. <<l[1], Main(l[2])>> \in conns
    BY DEF MeshInv, BootsDue, AtRest
  <2> QED
    BY <2>1, <2>2 DEF Linked, Main, Host, Addrs
<1>8. ASSUME NEW n \in Nodes, NEW p \in Nodes, n # p
      PROVE  Linked(n, p)
  <2> DEFINE S == {k \in Nodes : k = n \/ Linked(n, k)}
  <2>1. ASSUME NEW l \in Boot PROVE l[1] \in S <=> l[2] \in S
    <3>1. /\ l[1] \in Nodes /\ l[2] \in Nodes
          /\ Linked(l[1], l[2]) /\ Linked(l[2], l[1])
      BY <1>5, <1>7
    <3>2. l[1] \in S => l[2] \in S
      BY <1>6, <3>1
    <3>3. l[2] \in S => l[1] \in S
      BY <1>6, <3>1
    <3> QED
      BY <3>2, <3>3
  <2>2. S \in SUBSET Nodes /\ S # {}
    OBVIOUS
  <2>3. S = Nodes
    <3> HIDE DEF S
    <3> QED
      BY <2>1, <2>2 DEF BootConnects
  <2> QED
    BY <1>8, <2>3
<1> QED
  BY <1>8 DEF Meshed, Linked

\* Nodes whose Node::connect dials form a connected graph end up connected to
\* each other both ways: when no frame and no dial is left, gossip, return
\* connections and the tiebreaker have left no pair out, for any order of the
\* addresses, unless an address was registered under the wrong id.
THEOREM MeshAtRest == ASSUME BootConnects PROVE Spec => []MeshedAtRest
<1>1. MeshInv => MeshedAtRest
  BY MeshRest
<1>2. GossipInv /\ FlagInv /\ MeshInv /\ [Next]_vars => GossipInv' /\ FlagInv' /\ MeshInv'
  BY GossipStep, FlagStep, MeshStep
<1>3. Init => GossipInv /\ FlagInv /\ MeshInv
  BY GossipInit, FlagStart, MeshInit
<1> QED
  BY <1>1, <1>2, <1>3, PTL DEF Spec

-----------------------------------------------------------------------------
(* Gossip runs out.                                                        *)

Channels == [Pairs -> Seq(Frames)]
OnlyAnswered(q, r) == \A k \in Pairs : OnlyAnswers(q[k], r[k])

\* The channels of the invariant are sequences of frames.
LEMMA ChannelType ==
  ASSUME NEW q, GoodChan(q)
  PROVE  q \in Channels
<1>1. ASSUME NEW l \in Pairs PROVE q[l] \in Seq(Frames)
  <2>1. q[l] \in Seq(GoodFrames(l)) /\ GoodFrames(l) \subseteq Frames
    BY DEF GoodChan, GoodFrames
  <2> QED BY <2>1
<1>2. q = [l \in Pairs |-> q[l]]
  BY DEF GoodChan
<1> QED BY <1>1, <1>2 DEF Channels

\* Writing a frame that is no OnLine.
LEMMA AppendAnswers ==
  ASSUME NEW S, NEW old \in Seq(S), NEW f, f.type # "online"
  PROVE  OnlyAnswers(old, Append(old, f)) /\ OnlyAnswers(old, old)
BY DEF OnlyAnswers

LEMMA AnswersAdd ==
  ASSUME NEW S, NEW a \in Seq(S), NEW b \in Seq(S), NEW c \in Seq(S),
         OnlyAnswers(a, b), OnlyAnswers(b, c)
  PROVE  OnlyAnswers(a, c)
<1>1. Len(a) \in Nat /\ Len(b) \in Nat /\ Len(c) \in Nat
  OBVIOUS
<1>2. ASSUME NEW i \in Len(a) + 1 .. Len(c) PROVE c[i].type # "online"
  <2>1. CASE i <= Len(b)
    <3>1. c[i] = b[i] /\ b[i].type # "online"
      BY <1>1, <2>1 DEF OnlyAnswers
    <3> QED BY <3>1
  <2>2. CASE i > Len(b)
    BY <1>1, <2>2 DEF OnlyAnswers
  <2> QED BY <1>1, <2>1, <2>2
<1> QED BY <1>1, <1>2 DEF OnlyAnswers

\* What the handler of an OnLine writes: its ack and its broadcast.
LEMMA SendAnswers ==
  ASSUME NEW q \in Channels, NEW f \in Frames, f.type # "online"
  PROVE  OnlyAnswered(q, Send(q, f)) /\ Send(q, f) \in Channels
<1>1. <<f.from, f.to>> \in Pairs
  BY DEF Frames, Pairs
<1>2. \A k \in Pairs : q[k] \in Seq(Frames) /\ Append(q[k], f) \in Seq(Frames)
  BY DEF Channels
<1>3. \A k \in Pairs : Send(q, f)[k] = q[k] \/ Send(q, f)[k] = Append(q[k], f)
  BY <1>1 DEF Send, Channels
<1>4. Send(q, f) \in Channels
  BY <1>1, <1>2 DEF Send, Channels
<1> QED BY <1>2, <1>3, <1>4, AppendAnswers DEF OnlyAnswered

LEMMA BroadcastAnswers ==
  ASSUME NEW q \in Channels, NEW n \in Nodes, NEW seeds \in SUBSET Seeds
  PROVE  OnlyAnswered(q, Broadcast(q, n, seeds)) /\ Broadcast(q, n, seeds) \in Channels
<1>1. ASSUME NEW k \in Pairs
      PROVE  /\ q[k] \in Seq(Frames)
             /\ Gossip(n, k[2], seeds).type # "online"
             /\ Append(q[k], Gossip(n, k[2], seeds)) \in Seq(Frames)
  <2>1. Gossip(n, k[2], seeds) \in Frames
    BY DEF Gossip, Frames, Main, Addrs, Pairs
  <2> QED BY <2>1 DEF Channels, Gossip
<1>2. \A k \in Pairs : \/ Broadcast(q, n, seeds)[k] = q[k]
                       \/ Broadcast(q, n, seeds)[k] = Append(q[k], Gossip(n, k[2], seeds))
  BY DEF Broadcast
<1>3. Broadcast(q, n, seeds) \in Channels
  BY <1>1 DEF Broadcast, Channels
<1>4. ASSUME NEW k \in Pairs PROVE OnlyAnswers(q[k], Broadcast(q, n, seeds)[k])
  BY <1>1, <1>2, AppendAnswers
<1> QED BY <1>3, <1>4 DEF OnlyAnswered

LEMMA AnsweredAdd ==
  ASSUME NEW q \in Channels, NEW r \in Channels, NEW t \in Channels,
         OnlyAnswered(q, r), OnlyAnswered(r, t)
  PROVE  OnlyAnswered(q, t)
BY AnswersAdd DEF OnlyAnswered, Channels

\* The handlers.
LEMMA HandleUsesUp ==
  ASSUME GossipInv, NEW l \in Pairs, Handle(l)
  PROVE  UsesUp
<1> PICK m : m = Head(chan[l])
  OBVIOUS
<1>1. m \in GoodFrames(l) /\ chan[l] # <<>>
  BY DEF GossipInv, GoodChan, Handle
<1>2. m.to \in Nodes /\ m.from \in Nodes /\ l = <<m.from, m.to>> /\ m.over \in Addrs /\ m.seeds \in SUBSET Seeds
  BY <1>1 DEF GoodFrames, Frames, Pairs
<1>3. Read(chan, m) = [chan EXCEPT ![l] = Tail(@)]
  BY <1>2 DEF Read
<1>4. chan \in Channels /\ Read(chan, m) \in Channels
  BY <1>1, ReadGood, ChannelType DEF GossipInv
<1>5. reg \in [Nodes -> SUBSET Seeds]
  BY DEF GossipInv
<1>6. ASSUME NEW after, reg[m.to] \subseteq after, reg' = [reg EXCEPT ![m.to] = after]
      PROVE  /\ \A n \in Nodes : reg[n] \subseteq reg'[n]
             /\ reg' = reg => after = reg[m.to]
  BY <1>2, <1>5, <1>6
<1>7. CASE HandleOnline(m)
  <2> DEFINE seeds == reg[m.to] \cup {Seed(Main(m.from), m.from)} \cup m.seeds
  <2>1. /\ reg' = [reg EXCEPT ![m.to] = seeds] /\ conns' = conns /\ m.type = "online"
    BY <1>7 DEF HandleOnline
  <2>2. PICK records \in Records(seeds) :
          LET acked == IF <<m.from, m.over>> \in deaf THEN Read(chan, m)
                       ELSE Send(Read(chan, m), Ack(m.to, m.from, records, m.over))
          IN chan' = Broadcast(acked, m.to, records)
    BY <1>7 DEF HandleOnline
  <2>3. records \in SUBSET Seeds
    <3>1. Seed(Main(m.from), m.from) \in Seeds
      BY <1>2 DEF Seed, Main, Seeds, Addrs
    <3>2. seeds \in SUBSET Seeds
      BY <1>2, <1>5, <3>1
    <3> QED BY <3>2, RecordsSubset
  <2> DEFINE ack == Ack(m.to, m.from, records, m.over)
             sent == Send(Read(chan, m), ack)
  <2>4. ack \in Frames /\ ack.type # "online"
    BY <1>2, <2>3 DEF Ack, Frames
  <2>5. OnlyAnswered(Read(chan, m), sent) /\ sent \in Channels
    BY <1>4, <2>4, SendAnswers
  <2>6. OnlyAnswered(Read(chan, m), chan')
    <3>1. CASE <<m.from, m.over>> \in deaf
      <4>1. chan' = Broadcast(Read(chan, m), m.to, records)
        BY <2>2, <3>1
      <4> QED BY <1>2, <1>4, <2>3, <4>1, BroadcastAnswers
    <3>2. CASE <<m.from, m.over>> \notin deaf
      <4>1. chan' = Broadcast(sent, m.to, records)
        BY <2>2, <3>2
      <4> HIDE DEF sent
      <4>2. OnlyAnswered(sent, chan') /\ chan' \in Channels
        BY <1>2, <2>3, <2>5, <4>1, BroadcastAnswers
      <4> QED BY <1>4, <2>5, <4>2, AnsweredAdd
    <3> QED BY <3>1, <3>2
  <2>7. \A k \in Pairs : Read(chan, m)[k] = IF k = l THEN Tail(chan[k]) ELSE chan[k]
    BY <1>3, <1>4 DEF Channels
  <2>8. \A k \in Pairs : OnlyAnswers(IF k = l THEN Tail(chan[k]) ELSE chan[k], chan'[k])
    BY <2>6, <2>7 DEF OnlyAnswered
  <2>9. \A n \in Nodes : reg[n] \subseteq reg'[n]
    BY <1>6, <2>1
  <2> QED BY <1>1, <2>1, <2>8, <2>9 DEF UsesUp
<1>8. CASE HandleAck(m)
  <2> DEFINE before == reg[m.to] \cup {Seed(m.over, m.from)} \cup {Seed(addr, m.from) : addr \in Own(m.from)}
             after == before \cup m.seeds
  <2>1. /\ reg' = [reg EXCEPT ![m.to] = after] /\ conns' = conns
        /\ after = before => chan' = Read(chan, m)
    BY <1>8 DEF HandleAck
  <2>2. reg[m.to] \subseteq before /\ before \subseteq after
    OBVIOUS
  <2> HIDE DEF before, after
  <2>3. reg[m.to] \subseteq after
    BY <2>2
  <2>4. /\ \A n \in Nodes : reg[n] \subseteq reg'[n]
        /\ reg' = reg => after = reg[m.to]
    BY <1>6, <2>1, <2>3
  <2>5. after = reg[m.to] => after = before
    BY <2>2
  <2>6. reg' = reg => chan' = Read(chan, m)
    BY <2>1, <2>4, <2>5
  <2> QED BY <1>1, <1>3, <2>1, <2>4, <2>6 DEF UsesUp
<1>9. CASE HandleGossip(m)
  <2> DEFINE before == reg[m.to] \cup {Seed(Zero(m.from), m.from)}
             unknown == {id \in Nodes : /\ \E s \in m.seeds : IdOf(s) = id
                                        /\ \A s \in before : IdOf(s) # id}
  <2>1. conns' = conns
    BY <1>9 DEF HandleGossip
  <2>2. PICK first \in [unknown -> Addrs] :
          LET after == before \cup {Seed(first[id], id) : id \in unknown}
          IN /\ reg' = [reg EXCEPT ![m.to] = after]
             /\ \E records \in Records(after) :
                  chan' = IF after # before THEN Broadcast(Read(chan, m), m.to, records) ELSE Read(chan, m)
    BY <1>9 DEF HandleGossip
  <2> DEFINE after == before \cup {Seed(first[id], id) : id \in unknown}
  <2>3. reg' = [reg EXCEPT ![m.to] = after] /\ (after = before => chan' = Read(chan, m))
    BY <2>2
  <2>4. reg[m.to] \subseteq before /\ before \subseteq after
    OBVIOUS
  <2> HIDE DEF before, unknown, after
  <2>5. reg[m.to] \subseteq after
    BY <2>4
  <2>6. /\ \A n \in Nodes : reg[n] \subseteq reg'[n]
        /\ reg' = reg => after = reg[m.to]
    BY <1>6, <2>3, <2>5
  <2>7. after = reg[m.to] => after = before
    BY <2>4
  <2>8. reg' = reg => chan' = Read(chan, m)
    BY <2>3, <2>6, <2>7
  <2> QED BY <1>1, <1>3, <2>1, <2>6, <2>8 DEF UsesUp
<1> QED BY <1>7, <1>8, <1>9 DEF Handle

\* For any number of nodes, gossip answers gossip only as long as somebody
\* learns something: connections and registries never shrink, and every step
\* that adds to neither uses up an OnLine, a frame or a dial, or prepares one.
THEOREM GossipRunsOut == Spec => WorkUsedUp
<1>1. ASSUME GossipInv, Next PROVE UsesUp
  <2>1. ASSUME NEW n \in Nodes, NEW p \in Nodes, CliConnect(n, p) PROVE UsesUp
    <3>1. /\ Seed(Main(p), n) \notin reg[n] /\ conns' = conns
          /\ reg' = [reg EXCEPT ![n] = @ \cup {Seed(Main(p), n)}]
      BY <2>1 DEF CliConnect
    <3>2. reg'[n] # reg[n] /\ \A k \in Nodes : reg[k] \subseteq reg'[k]
      BY <1>1, <3>1 DEF GossipInv
    <3> QED BY <3>1, <3>2 DEF UsesUp
  <2>2. ASSUME NEW d \in dials, Dial(d) PROVE UsesUp
    <3>1. CASE <<d.by, d.addr>> \in conns
      <4>1. UNCHANGED <<conns, chan, reg>> /\ dials' = dials \ {d}
        BY <2>2, <3>1 DEF Dial
      <4> QED BY <4>1 DEF UsesUp
    <3>2. CASE <<d.by, d.addr>> \notin conns
      <4>1. conns' = conns \cup {<<d.by, d.addr>>} /\ reg' = reg
        BY <2>2, <3>2 DEF Dial
      <4> QED BY <3>2, <4>1 DEF UsesUp
    <3> QED BY <3>1, <3>2
  <2>3. ASSUME NEW d \in dials, Collect(d) PROVE UsesUp
    <3>1. UNCHANGED <<conns, chan, reg>> /\ d.load = {}
      BY <1>1, <2>3, Collects
    <3>2. PICK e \in Tasks : dials' = (dials \ {d}) \cup {e} /\ e.load # {}
      BY <1>1, <2>3, Collects
    <3>3. e \in dials'
      BY <3>2
    <3> QED BY <3>1, <3>2, <3>3 DEF UsesUp
  <2> QED BY <1>1, <2>1, <2>2, <2>3, HandleUsesUp DEF Next
<1>2. GossipInv /\ [Next]_vars => [UsesUp]_vars
  BY <1>1
<1> QED BY <1>2, GossipInit, GossipStep, PTL DEF Spec, WorkUsedUp
=============================================================================
