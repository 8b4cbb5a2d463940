----------------------------- MODULE SeedGossip -----------------------------
(***************************************************************************)
(* How nodes learn of each other: the seeds kept in the NodeRegistry, their *)
(* exchange in OnLine and OnLineAck, the seed gossip (an OnLine with an     *)
(* empty session id) and the dials it triggers until every node is          *)
(* connected to every other.                                                *)
(*                                                                         *)
(* The key exchange, failures and the steps inside a handler are the       *)
(* subject of Handshake; here a handler is one step and nothing breaks.    *)
(* Two peers share up to two connections, one per direction; what one of   *)
(* them writes to the other is taken as a single ordered stream.           *)
(***************************************************************************)
EXTENDS Naturals, Sequences

CONSTANTS
  Nodes,     \* the peers, identified by their FreeWebMovement address
  AddrRank,  \* the order of the address strings
  Multi,     \* nodes with a second network interface
  Boot,      \* <<n, p>>: Node::connect of n dials p
  CliDials   \* <<n, p>>: a user of n may type "connect <address of p>"

ASSUME GossipAssumption ==
  /\ AddrRank \in [Nodes -> Nat]
  /\ Multi \subseteq Nodes
  /\ Boot \subseteq Nodes \X Nodes
  /\ CliDials \subseteq Nodes \X Nodes

\* Socket addresses: the listener of a node on its first or second interface,
\* and its address with port 0.
Addrs == Nodes \X {"main", "alt", "zero"}
Host(addr) == addr[1]
Main(n) == <<n, "main">>
Zero(n) == <<n, "zero">>
Listens(addr) == addr[2] = "main" \/ (addr[2] = "alt" /\ Host(addr) \in Multi)
Own(n) == {addr \in Addrs : Host(addr) = n /\ Listens(addr)}

\* A seed: a socket address and the node it is registered under.
Seeds == Addrs \X Nodes
\* Mutant of Seed: the fields swapped.
SeedSwapped(addr, n) == <<n, addr>>
Seed(addr, n) == <<addr, n>>
IdOf(s) == s[2]

\* Frames in flight; "over" is the address the initiator of the connection dialled.
Online(n, p, seeds, addr) == [type |-> "online", from |-> n, to |-> p, seeds |-> seeds, over |-> addr]
Ack(n, p, seeds, addr) == [type |-> "ack", from |-> n, to |-> p, seeds |-> seeds, over |-> addr]
Gossip(n, p, seeds) == [type |-> "gossip", from |-> n, to |-> p, seeds |-> seeds, over |-> Main(p)]
Frames == [type : {"online", "ack", "gossip"}, from : Nodes, to : Nodes, seeds : SUBSET Seeds, over : Addrs]

\* Dial tasks: "seed" ones collect the seeds they will send before they dial
\* (load holds none or one set of them) and flag their node when they succeed.
DialTask(n, addr, id, why) == [by |-> n, addr |-> addr, id |-> id, why |-> why, load |-> {}]
Tasks == [by : Nodes, addr : Addrs, id : Nodes, why : {"boot", "cli", "seed", "return"},
          load : SUBSET SUBSET Seeds]

VARIABLES
  reg,        \* reg[n]: the seeds in n's NodeRegistry
  connected,  \* connected[n]: the nodes n's registry flags is_connected
  conns,      \* <<n, addr>>: outbound connections
  deaf,       \* those whose initiator runs no router loop
  dials,      \* spawned dial tasks
  chan        \* chan[<<n, p>>]: frames n wrote for p and p has not read

vars == <<reg, connected, conns, deaf, dials, chan>>

Pairs == Nodes \X Nodes

TypeOK ==
  /\ reg \in [Nodes -> SUBSET Seeds]
  /\ connected \in [Nodes -> SUBSET Nodes]
  /\ conns \subseteq Nodes \X Addrs
  /\ deaf \subseteq conns
  /\ dials \subseteq Tasks
  /\ chan \in [Pairs -> Seq(Frames)]

\* A node registers its own addresses; the dials of Node::connect are due.
Init ==
  /\ reg = [n \in Nodes |-> {Seed(addr, n) : addr \in Own(n)}]
  /\ connected = [n \in Nodes |-> {}]
  /\ conns = {}
  /\ deaf = {}
  /\ dials = {DialTask(l[1], Main(l[2]), l[2], "boot") : l \in Boot}
  /\ chan = [l \in Pairs |-> <<>>]

-----------------------------------------------------------------------------

\* SeedsCommand::new keeps one record per address, the first in the order of
\* the registry's hash map.
Records(seeds) ==
  IF \A s, t \in seeds : s[1] = t[1] => s = t
  THEN {seeds}
  ELSE {some \in SUBSET seeds : /\ \A s, t \in some : s[1] = t[1] => s = t
                                /\ \A s \in seeds : \E t \in some : s[1] = t[1]}

\* The peers that read what n writes to all its entries (manager.forward).
Readers(n) == {p \in Nodes : \/ \E addr \in Addrs : Host(addr) = p /\ <<n, addr>> \in conns
                             \/ \E addr \in Addrs : Host(addr) = n /\ <<p, addr>> \in conns \ deaf}

\* One frame written, or handled and gone.
Send(q, f) == [q EXCEPT ![<<f.from, f.to>>] = Append(@, f)]
Read(q, f) == [q EXCEPT ![<<f.from, f.to>>] = Tail(@)]

\* broadcast_seeds_to_peers.
Broadcast(q, n, seeds) ==
  [l \in Pairs |-> IF l[1] = n /\ l[2] \in Readers(n)
                   THEN Append(q[l], Gossip(n, l[2], seeds)) ELSE q[l]]

\* The dial tasks for the seeds of a gossip or an ack: nodes not flagged, not
\* this node, and only if this node's address is not the larger one.  Dials to
\* port 0 fail at once and are left out.
NewDials(n, seeds, flagged) ==
  {DialTask(n, s[1], IdOf(s), "seed") :
     s \in {t \in seeds : /\ IdOf(t) \notin flagged
                          /\ IdOf(t) # n
                          /\ AddrRank[n] <= AddrRank[IdOf(t)]
                          /\ Listens(t[1])}}

\* "connect <ip> <port>": registers the address (under the own id) and dials.
CliConnect(n, p) ==
  /\ <<n, p>> \in CliDials
  /\ Seed(Main(p), n) \notin reg[n]
  /\ reg' = [reg EXCEPT ![n] = @ \cup {Seed(Main(p), n)}]
  /\ dials' = dials \cup {DialTask(n, Main(p), p, "cli")}
  /\ UNCHANGED <<connected, conns, deaf, chan>>

\* connect_to_new_peer takes the seeds of the registry, and then dials.
Collect(d) ==
  /\ d \in dials /\ d.why = "seed" /\ d.load = {}
  /\ \E records \in Records(reg[d.by]) :
       dials' = (dials \ {d}) \cup {[d EXCEPT !.load = {records}]}
  /\ UNCHANGED <<reg, connected, conns, deaf, chan>>

\* The seeds the OnLine of a dial carries: those collected before, none on a
\* return connection, and the registry's as it is for the callbacks of
\* Node::connect and of the cli.
Loads(d) ==
  CASE d.why = "seed" -> d.load [] d.why = "return" -> {{}} [] OTHER -> Records(reg[d.by])

\* Mutant of Dial: a refused dial is tried again.
DialAgain(d) ==
  /\ d \in dials
  /\ <<d.by, d.addr>> \notin conns
  /\ dials' = dials \ {d}
  /\ conns' = conns \cup {<<d.by, d.addr>>}
  /\ connected' = IF d.why = "seed" THEN [connected EXCEPT ![d.by] = @ \cup {d.id}] ELSE connected
  /\ \E seeds \in Loads(d) : chan' = Send(chan, Online(d.by, Host(d.addr), seeds, d.addr))
  /\ UNCHANGED <<reg, deaf>>

\* manager.connect of a dial task, and the OnLine its callback sends.
Dial(d) ==
  LET n == d.by
      p == Host(d.addr)
  IN /\ d \in dials /\ Loads(d) # {}
     /\ dials' = dials \ {d}
     /\ \/ /\ <<n, d.addr>> \in conns
           /\ UNCHANGED <<connected, conns, deaf, chan>>
        \/ /\ <<n, d.addr>> \notin conns
           /\ conns' = conns \cup {<<n, d.addr>>}
           /\ deaf' = IF d.why = "cli" THEN deaf \cup {<<n, d.addr>>} ELSE deaf
           /\ connected' = IF d.why = "seed" THEN [connected EXCEPT ![n] = @ \cup {d.id}] ELSE connected
           /\ \E seeds \in Loads(d) : chan' = Send(chan, Online(n, p, seeds, d.addr))
     /\ UNCHANGED reg

\* Mutant of HandleOnline: the tiebreaker holds for return connections too.
HandleOnlineTiebreak(m) ==
  LET n == m.to
      p == m.from
      seeds == reg[n] \cup {Seed(Main(p), p)} \cup m.seeds
  IN /\ m.type = "online"
     /\ reg' = [reg EXCEPT ![n] = seeds]
     /\ connected' = [connected EXCEPT ![n] = @ \cup {p}]
     /\ dials' = IF <<n, Main(p)>> \in conns \/ AddrRank[n] > AddrRank[p]
                 THEN dials
                 ELSE dials \cup {DialTask(n, Main(p), p, "return")}
     /\ chan' = Broadcast(Send(Read(chan, m), Ack(n, p, seeds, m.over)), n, seeds)
     /\ UNCHANGED <<conns, deaf>>

\* online_handler on a handshake: register the sender and its seeds, send the
\* ack, return the connection unless there is one, broadcast.
HandleOnline(m) ==
  LET n == m.to
      p == m.from
      seeds == reg[n] \cup {Seed(Main(p), p)} \cup m.seeds
  IN /\ m.type = "online"
     /\ reg' = [reg EXCEPT ![n] = seeds]
     /\ connected' = [connected EXCEPT ![n] = @ \cup {p}]
     /\ dials' = IF <<n, Main(p)>> \in conns
                 THEN dials
                 ELSE dials \cup {DialTask(n, Main(p), p, "return")}
     /\ \E records \in Records(seeds) :
          LET read == Read(chan, m)
              acked == IF <<p, m.over>> \in deaf THEN read ELSE Send(read, Ack(n, p, records, m.over))
          IN chan' = Broadcast(acked, n, records)
     /\ UNCHANGED <<conns, deaf>>

\* onlineack_handler: register the peer, its announced addresses and the seeds,
\* broadcast if that taught it anything, dial the new nodes.  That the flag it
\* sets outlives the connection is in Handshake, where connections break.
HandleAck(m) ==
  LET n == m.to
      p == m.from
      before == reg[n] \cup {Seed(m.over, p)} \cup {Seed(addr, p) : addr \in Own(p)}
      after == before \cup m.seeds
      flagged == connected[n] \cup {p}
  IN /\ m.type = "ack"
     /\ reg' = [reg EXCEPT ![n] = after]
     /\ connected' = [connected EXCEPT ![n] = flagged]
     /\ dials' = dials \cup NewDials(n, m.seeds, flagged)
     /\ \E records \in Records(after) :
          chan' = IF after # before THEN Broadcast(Read(chan, m), n, records) ELSE Read(chan, m)
     /\ UNCHANGED <<conns, deaf>>

\* Mutant of HandleGossip: the seeds are registered under the sender.
HandleGossipSender(m) ==
  /\ m.type = "gossip"
  /\ reg' = [reg EXCEPT ![m.to] = @ \cup {Seed(s[1], m.from) : s \in m.seeds}]
  /\ chan' = Read(chan, m)
  /\ UNCHANGED <<connected, conns, deaf, dials>>

\* online_handler on a gossip: the sender is registered with the port of the
\* frame, which broadcast_seeds_to_peers sets to 0; of a node not yet known
\* the first seed is registered; all seeds are candidates for a dial.
HandleGossip(m) ==
  LET n == m.to
      before == reg[n] \cup {Seed(Zero(m.from), m.from)}
      unknown == {id \in Nodes : /\ \E s \in m.seeds : IdOf(s) = id
                                 /\ \A s \in before : IdOf(s) # id}
  IN /\ m.type = "gossip"
     /\ \E first \in [unknown -> Addrs] :
          LET after == before \cup {Seed(first[id], id) : id \in unknown}
          IN /\ \A id \in unknown : Seed(first[id], id) \in m.seeds
             /\ reg' = [reg EXCEPT ![n] = after]
             /\ \E records \in Records(after) :
                  chan' = IF after # before THEN Broadcast(Read(chan, m), n, records) ELSE Read(chan, m)
     /\ dials' = dials \cup NewDials(n, m.seeds, connected[n])
     /\ UNCHANGED <<connected, conns, deaf>>

\* The frame a node reads next from one of its peers.
Handle(l) ==
  /\ chan[l] # <<>>
  /\ LET m == Head(chan[l]) IN HandleOnline(m) \/ HandleAck(m) \/ HandleGossip(m)

Next ==
  \/ \E n, p \in Nodes : CliConnect(n, p)
  \/ \E d \in dials : Collect(d) \/ Dial(d)
  \/ \E l \in Pairs : Handle(l)

Spec == Init /\ [][Next]_vars

\* Spawned tasks run and frames are read; nobody has to type a command.
FairSpec == Spec /\ WF_vars((\E d \in dials : Collect(d) \/ Dial(d)) \/ (\E l \in Pairs : Handle(l)))

-----------------------------------------------------------------------------

\* A seed listed under a node that does not own its address.
Mislabelled(s) == IdOf(s) # Host(s[1])

\* The handlers never attribute an address to the wrong node: of the commands
\* and frames modelled here, only a "connect" typed at the node a wrong id
\* names brings one up.
SeedIdsTruthful ==
  \A n \in Nodes : \A s \in reg[n] : Mislabelled(s) => <<IdOf(s), Host(s[1])>> \in CliDials

Meshed ==
  \A n, p \in Nodes : n # p => \E addr \in Addrs : Host(addr) = p /\ <<n, addr>> \in conns

\* The graph of the dials of Node::connect is connected: no proper part of the
\* nodes is closed under it.
BootConnects ==
  \A S \in SUBSET Nodes :
    S # {} /\ (\A l \in Boot : l[1] \in S <=> l[2] \in S) => S = Nodes

\* When no frame and no dial is left, nodes that form a connected graph of
\* dials are connected to each other, both ways, unless an address was
\* registered under the wrong node.
AtRest == dials = {} /\ \A l \in Pairs : chan[l] = <<>>
MeshedAtRest ==
  AtRest => Meshed \/ \E n \in Nodes : \E s \in reg[n] : Mislabelled(s)

\* Only acks and gossip were written behind what was there.
OnlyAnswers(old, new) ==
  /\ Len(old) <= Len(new)
  /\ \A i \in 1 .. Len(old) : new[i] = old[i]
  /\ \A i \in Len(old) + 1 .. Len(new) : new[i].type # "online"

\* Why gossip comes to an end: connections and registries never shrink, and a
\* step that adds to neither uses something up: an OnLine was read and none
\* written, or else a frame was read and nothing written, or else no frame
\* was written and a dial is prepared or leads nowhere new.
UsesUp ==
  /\ conns \subseteq conns' /\ \A n \in Nodes : reg[n] \subseteq reg'[n]
  /\ \/ conns' # conns \/ reg' # reg
     \/ \E l \in Pairs :
          /\ chan[l] # <<>> /\ Head(chan[l]).type = "online"
          /\ \A k \in Pairs : OnlyAnswers(IF k = l THEN Tail(chan[k]) ELSE chan[k], chan'[k])
     \/ \E l \in Pairs : chan[l] # <<>> /\ chan' = [chan EXCEPT ![l] = Tail(@)]
     \/ /\ chan' = chan
        /\ \E d \in dials : \/ dials' = dials \ {d}
                            \/ d.load = {} /\ \E e \in dials' : e.load # {} /\ dials' = (dials \ {d}) \cup {e}
WorkUsedUp == [][UsesUp]_vars

\* Broadcasts that answer broadcasts, return connections and the dials they
\* cause come to an end.
GossipEnds == <>[]AtRest
=============================================================================
