--------------------------- MODULE SeedSyncProofs ---------------------------
(***************************************************************************)
(* Proofs about the seed synchronisation for every network, every list of  *)
(* peers, every number of rounds and attempts and any number of faults:    *)
(* types, what may spread, what a converged cycle has exchanged, and that  *)
(* cycles and the traffic they cause use themselves up.                    *)
(***************************************************************************)
EXTENDS SeedSync, FiniteSetTheorems, TLAPS

\* The number of times a set lists an address is a number.
LEMMA HashType ==
  ASSUME NEW seeds \in SUBSET Seeds
  PROVE  Hash(seeds) \in [Addrs -> Nat]
<1>1. IsFiniteSet(Seeds)
  BY SyncAssumption, FS_Product DEF Seeds
<1>2. \A addr \in Addrs : Cardinality({s \in seeds : AddrOf(s) = addr}) \in Nat
  <2> TAKE addr \in Addrs
  <2>1. {s \in seeds : AddrOf(s) = addr} \subseteq Seeds
    OBVIOUS
  <2> QED
    BY <1>1, <2>1, FS_Subset, FS_CardinalityType
<1> QED
  BY <1>2 DEF Hash

\* What is derived from a registry is a set of seeds.
LEMMA DeriveType ==
  ASSUME NEW seeds \in SUBSET Seeds
  PROVE  Derive(seeds) \in SUBSET Seeds /\ NoLoopback(Derive(seeds)) \in SUBSET Seeds
BY DEF Derive, NoLoopback

\* Frames have the fields of their type.
LEMMA FrameParts ==
  ASSUME NEW f \in Frames
  PROVE  f.from \in Nodes /\ f.to \in Nodes /\ f.seeds \in SUBSET Seeds
BY DEF Frames

\* Handling a frame keeps the types of the tables it writes.
LEMMA RegisterType ==
  ASSUME TypeOK, NEW n \in Nodes, NEW seeds \in SUBSET Seeds, Register(n, seeds)
  PROVE  reg' \in [Nodes -> SUBSET Seeds] /\ peerAddrs' \in [Nodes -> SUBSET Addrs]
<1>1. {AddrOf(s) : s \in Derive(reg[n] \cup seeds)} \in SUBSET Addrs
  BY DEF TypeOK, Derive, AddrOf, Seeds
<1> QED
  BY <1>1 DEF TypeOK, Register

\* The types hold at the start.
LEMMA SyncTypeInit == Init => TypeOK
BY SyncAssumption DEF Init, TypeOK

\* The cycle's own steps keep the types.
LEMMA SyncTypeCycle ==
  ASSUME TypeOK, NEW n \in Nodes, Begin(n) \/ CycleStep(n)
  PROVE  TypeOK'
<1>1. Derive(reg[n]) \in SUBSET Seeds /\ Hash(Derive(reg[n])) \in [Addrs -> Nat]
  BY DeriveType, HashType DEF TypeOK
<1>2. CASE Begin(n)
  <2>1. cycle' \in [Nodes -> {"idle", "loop", "sync", "agreed"} \cup Ended]
    <3>1. cycle' = [cycle EXCEPT ![n] = "alone"] \/ cycle' = [cycle EXCEPT ![n] = "loop"]
      BY <1>2, Zenon DEF Begin
    <3>2. cycle \in [Nodes -> {"idle", "loop", "sync", "agreed"} \cup Ended] /\ "alone" \in Ended
      BY Zenon DEF TypeOK, Ended
    <3> QED
      BY <3>1, <3>2
  <2>2. result' \in [Nodes -> SUBSET Seeds]
    BY <1>1, <1>2 DEF TypeOK, Begin
  <2> QED
    BY <1>2, <2>1, <2>2 DEF TypeOK, Begin
<1>3. CASE StartRound(n)
  <2>1. UNION {NoLoopback(Derive(reg[p])) : p \in Targets[n]} \in SUBSET Seeds
    <3>1. \A p \in Targets[n] : NoLoopback(Derive(reg[p])) \in SUBSET Seeds
      BY SyncAssumption, DeriveType DEF TypeOK
    <3> QED
      BY <3>1
  <2>2. round' \in [Nodes -> 0 .. MaxRounds]
    BY <1>3, SyncAssumption DEF TypeOK, StartRound
  <2>3. attempt' \in [Nodes -> [Nodes -> 0 .. Attempts]]
    BY <1>3, SyncAssumption DEF TypeOK, StartRound
  <2>4. task' \in [Nodes -> [Nodes -> {"off", "try", "sent", "done"}]]
    BY <1>3 DEF TypeOK, StartRound
  <2>5. expired' \in [Nodes -> BOOLEAN]
    <3>1. PICK b \in BOOLEAN : expired' = [expired EXCEPT ![n] = b]
      BY <1>3 DEF StartRound
    <3> QED
      BY <3>1 DEF TypeOK
  <2>6. timely' \in [Nodes -> BOOLEAN]
    <3>1. PICK b \in BOOLEAN : timely' = [timely EXCEPT ![n] = b]
      BY <1>3 DEF StartRound
    <3> QED
      BY <3>1 DEF TypeOK
  <2>7. known' \in [Nodes -> SUBSET Seeds] /\ cycle' \in [Nodes -> {"idle", "loop", "sync", "agreed"} \cup Ended]
    BY <1>3, <2>1 DEF TypeOK, StartRound
  <2> QED
    BY <1>3, <2>2, <2>3, <2>4, <2>5, <2>6, <2>7 DEF TypeOK, StartRound
<1>4. CASE TimeOut(n)
  BY <1>1, <1>4 DEF TypeOK, TimeOut, Ended
<1>5. CASE Compare(n)
  <2>1. stable' \in [Nodes -> Nat]
    BY <1>5 DEF TypeOK, Compare
  <2>2. prev' \in [Nodes -> [Addrs -> Nat] \cup {NoHash}]
    BY <1>1, <1>5 DEF TypeOK, Compare
  <2>3. cycle' \in [Nodes -> {"idle", "loop", "sync", "agreed"} \cup Ended]
    BY <1>5 DEF TypeOK, Compare
  <2>4. timely' \in [Nodes -> BOOLEAN]
    <3>1. PICK b \in BOOLEAN : timely' = [timely EXCEPT ![n] = b]
      BY <1>5 DEF Compare, TypeOK
    <3> QED
      BY <3>1 DEF TypeOK
  <2> QED
    BY <1>5, <2>1, <2>2, <2>3, <2>4 DEF TypeOK, Compare
<1>6. CASE Converge(n)
  BY <1>1, <1>6 DEF TypeOK, Converge, Ended
<1> QED
  BY <1>2, <1>3, <1>4, <1>5, <1>6 DEF CycleStep

\* The tasks of a round keep the types.
LEMMA SyncTypeTask ==
  ASSUME TypeOK, NEW n \in Nodes, NEW p \in Nodes, TaskStep(n, p) \/ AttemptFails(n, p)
  PROVE  TypeOK'
<1>1. Derive(reg[n]) \in SUBSET Seeds
  BY DeriveType DEF TypeOK
<1>2. CASE SendRequest(n, p)
  <2>1. Request(n, p, Derive(reg[n])) \in Frames
    BY <1>1 DEF Request, Frames
  <2> QED
    BY <1>2, <2>1 DEF TypeOK, SendRequest, cycleVars
<1>3. CASE Wake(n, p)
  BY <1>3 DEF TypeOK, Wake, cycleVars
<1>4. CASE AttemptFails(n, p)
  <2>1. attempt' \in [Nodes -> [Nodes -> 0 .. Attempts]]
    <3>1. attempt[n] \in [Nodes -> 0 .. Attempts] /\ attempt[n][p] \in 0 .. Attempts
      BY DEF TypeOK
    <3>2. CASE attempt[n][p] < Attempts
      <4>1. attempt[n][p] + 1 \in 0 .. Attempts
        BY <3>1, <3>2, SyncAssumption
      <4>2. attempt' = [attempt EXCEPT ![n][p] = attempt[n][p] + 1]
        BY <1>4, <3>2 DEF AttemptFails
      <4> QED
        BY <4>1, <4>2 DEF TypeOK
    <3>3. CASE ~ (attempt[n][p] < Attempts)
      BY <1>4, <3>3 DEF TypeOK, AttemptFails
    <3> QED
      BY <3>2, <3>3
  <2>2. task' \in [Nodes -> [Nodes -> {"off", "try", "sent", "done"}]]
    <3>1. \E t \in {"try", "done"} : task' = [task EXCEPT ![n][p] = t]
      BY <1>4 DEF AttemptFails
    <3> QED
      BY <3>1 DEF TypeOK
  <2> QED
    BY <1>4, <2>1, <2>2 DEF TypeOK, AttemptFails, cycleVars
<1> QED
  BY <1>2, <1>3, <1>4 DEF TaskStep

\* The handlers and the network keep the types.
LEMMA SyncTypeFrames ==
  ASSUME TypeOK,
         \/ \E f \in net : ReceiveRequest(f) \/ ReceiveResponse(f) \/ Lose(f)
         \/ \E d \in owed : Respond(d[1], d[2])
  PROVE  TypeOK'
<1>1. ASSUME NEW f \in net, ReceiveRequest(f) PROVE TypeOK'
  <2>1. f.from \in Nodes /\ f.to \in Nodes /\ f.seeds \in SUBSET Seeds
    BY FrameParts DEF TypeOK
  <2>2. reg' \in [Nodes -> SUBSET Seeds] /\ peerAddrs' \in [Nodes -> SUBSET Addrs]
    BY <1>1, <2>1, RegisterType DEF ReceiveRequest
  <2> QED
    BY <1>1, <2>1, <2>2 DEF TypeOK, ReceiveRequest, cycleVars
<1>2. ASSUME NEW f \in net, ReceiveResponse(f) PROVE TypeOK'
  <2>1. f.from \in Nodes /\ f.to \in Nodes /\ f.seeds \in SUBSET Seeds
    BY FrameParts DEF TypeOK
  <2>2. reg' \in [Nodes -> SUBSET Seeds] /\ peerAddrs' \in [Nodes -> SUBSET Addrs]
    BY <1>2, <2>1, RegisterType DEF ReceiveResponse
  <2> QED
    BY <1>2, <2>1, <2>2 DEF TypeOK, ReceiveResponse, cycleVars
<1>3. ASSUME NEW f \in net, Lose(f) PROVE TypeOK'
  <2>1. \E n \in Nodes : timely' = [timely EXCEPT ![n] = FALSE]
    BY <1>3, FrameParts DEF Lose, TypeOK
  <2>2. timely' \in [Nodes -> BOOLEAN]
    BY <2>1 DEF TypeOK
  <2> QED
    BY <1>3, <2>2 DEF TypeOK, Lose, cycleVars
<1>4. ASSUME NEW d \in owed, Respond(d[1], d[2]) PROVE TypeOK'
  <2>1. d[1] \in Nodes /\ d[2] \in Nodes
    BY DEF TypeOK
  <2>2. NoLoopback(Derive(reg[d[1]])) \in SUBSET Seeds
    BY <2>1, DeriveType DEF TypeOK
  <2>3. Response(d[1], d[2], NoLoopback(Derive(reg[d[1]]))) \in Frames
    BY <2>1, <2>2 DEF Response, Frames
  <2> QED
    BY <1>4, <2>3 DEF TypeOK, Respond, cycleVars
<1> QED
  BY <1>1, <1>2, <1>3, <1>4

\* Every step keeps the types.
LEMMA SyncTypeStep == TypeOK /\ [Next]_vars => TypeOK'
<1> SUFFICES ASSUME TypeOK, [Next]_vars PROVE TypeOK'
  OBVIOUS
<1>1. CASE UNCHANGED vars
  BY <1>1 DEF TypeOK, vars, cycleVars
<1>2. CASE Next
  BY <1>2, SyncTypeCycle, SyncTypeTask, SyncTypeFrames DEF Next
<1> QED
  BY <1>1, <1>2

\* Registries, cycles, tasks and frames keep their types whatever arrives
\* when, and for any bounds.
THEOREM SyncTypeCorrect == Spec => []TypeOK
BY SyncTypeInit, SyncTypeStep, PTL DEF Spec

-----------------------------------------------------------------------------
(* What may spread.  A seed that left its node has a port, and if it is a   *)
(* loopback address, a node that had it at the start runs a cycle.  Tasks,  *)
(* which send unfiltered requests, only exist while a cycle runs.           *)

Runs(n) == cycle[n] \notin {"idle", "alone"}
Spreads(s) ==
  /\ AddrOf(s) \notin Portless
  /\ AddrOf(s) \in Loopback => \E n \in Nodes : s \in Start[n] /\ Runs(n)

SpreadInv ==
  /\ TypeOK
  /\ \A n, p \in Nodes : task[n][p] # "off" => Runs(n)
  /\ \A m \in Nodes : \A s \in reg[m] : s \in Start[m] \/ Spreads(s)
  /\ \A m \in Nodes : peerAddrs[m] \cap Portless = {}
  /\ \A f \in net : \A s \in f.seeds : Spreads(s)

\* At the start nothing has spread.
LEMMA SpreadInit == Init => SpreadInv
BY SyncTypeInit DEF Init, SpreadInv

\* A cycle that runs goes on running; what may spread still may.
LEMMA RunsOn ==
  ASSUME TypeOK, [Next]_vars
  PROVE  (\A n \in Nodes : Runs(n) => Runs(n)') /\ (\A s \in Seeds : Spreads(s) => Spreads(s)')
<1>1. \A n \in Nodes : Runs(n) => Runs(n)'
  <2>1. CASE cycle' = cycle
    BY <2>1 DEF Runs
  <2>2. ASSUME NEW m \in Nodes, Begin(m) \/ CycleStep(m)
        PROVE  \A n \in Nodes : Runs(n) => Runs(n)'
    BY <2>2 DEF TypeOK, Begin, CycleStep, StartRound, TimeOut, Compare, Converge, Runs
  <2>3. CASE UNCHANGED vars
    BY <2>1, <2>3 DEF vars, cycleVars
  <2>4. CASE Next
    <3>1. (\E n \in Nodes : Begin(n) \/ CycleStep(n)) \/ cycle' = cycle
      BY <2>4 DEF Next, TaskStep, SendRequest, Wake, AttemptFails, ReceiveRequest, ReceiveResponse,
                  Lose, Respond, cycleVars
    <3> QED
      BY <3>1, <2>1, <2>2
  <2> QED
    BY <2>3, <2>4
<1> QED
  BY <1>1 DEF Spreads

\* Registering seeds that may spread.
LEMMA SpreadRegister ==
  ASSUME SpreadInv, NEW n \in Nodes, NEW seeds \in SUBSET Seeds, Register(n, seeds),
         \A s \in seeds : Spreads(s), UNCHANGED cycle
  PROVE  /\ \A m \in Nodes : \A s \in reg'[m] : s \in Start[m] \/ Spreads(s)'
         /\ \A m \in Nodes : peerAddrs'[m] \cap Portless = {}
<1>1. \A s : Spreads(s)' <=> Spreads(s)
  BY DEF Spreads, Runs
<1>2. {AddrOf(s) : s \in Derive(reg[n] \cup seeds)} \cap Portless = {}
  BY DEF Derive
<1>3. \A m \in Nodes : peerAddrs'[m] \cap Portless = {}
  <2> DEFINE new == {AddrOf(s) : s \in Derive(reg[n] \cup seeds)}
  <2>1. peerAddrs' = [peerAddrs EXCEPT ![n] = @ \cup new]
    BY DEF Register
  <2>2. new \cap Portless = {}
    BY <1>2
  <2>3. peerAddrs \in [Nodes -> SUBSET Addrs]
    BY DEF SpreadInv, TypeOK
  <2> HIDE DEF new
  <2> QED
    BY <2>1, <2>2, <2>3 DEF SpreadInv
<1>4. \A m \in Nodes : \A s \in reg'[m] : s \in Start[m] \/ Spreads(s)
  BY DEF SpreadInv, TypeOK, Register
<1> QED
  BY <1>1, <1>3, <1>4

\* Every step lets only such seeds spread.
LEMMA SpreadStep == SpreadInv /\ [Next]_vars => SpreadInv'
<1> SUFFICES ASSUME SpreadInv, [Next]_vars PROVE SpreadInv'
  OBVIOUS
<1> USE DEF SpreadInv
<1>1. TypeOK'
  BY SyncTypeStep
<1>2. (\A n \in Nodes : Runs(n) => Runs(n)') /\ (\A s \in Seeds : Spreads(s) => Spreads(s)')
  BY RunsOn
<1>3. \A f \in net : f \in Frames /\ f.seeds \in SUBSET Seeds
  BY FrameParts DEF TypeOK
<1>4. reg \in [Nodes -> SUBSET Seeds]
  BY DEF TypeOK
<1>5. ASSUME UNCHANGED <<reg, peerAddrs, net, task>> PROVE SpreadInv'
  BY <1>1, <1>2, <1>3, <1>4, <1>5
<1>6. ASSUME NEW n \in Nodes, StartRound(n) PROVE SpreadInv'
  <2>1. UNCHANGED <<reg, peerAddrs, net>>
    BY <1>6 DEF StartRound
  <2>2. \A m, p \in Nodes : task'[m][p] # "off" => Runs(m)'
    <3>1. Runs(n)'
      BY <1>6 DEF StartRound, Runs, TypeOK
    <3>2. \A m \in Nodes : m # n => task'[m] = task[m]
      BY <1>6 DEF StartRound, TypeOK
    <3> QED
      BY <3>1, <3>2, <1>2
  <2> QED
    BY <1>1, <1>2, <1>3, <1>4, <2>1, <2>2
<1>7. ASSUME NEW n \in Nodes, NEW p \in Nodes, SendRequest(n, p) PROVE SpreadInv'
  <2>1. Runs(n) /\ UNCHANGED <<reg, peerAddrs, cycle>>
    BY <1>7 DEF SendRequest, cycleVars
  <2>2. \A s \in Derive(reg[n]) : Spreads(s)
    BY <2>1, <1>4 DEF Derive, Spreads
  <2>3. \A f \in net' : \A s \in f.seeds : Spreads(s)
    BY <1>7, <2>2 DEF SendRequest, Request
  <2>4. \A f \in net' : f.seeds \in SUBSET Seeds
    BY <1>1, FrameParts DEF TypeOK
  <2>5. \A m, q \in Nodes : task'[m][q] # "off" => task[m][q] # "off"
    BY <1>7 DEF SendRequest, TypeOK
  <2> QED
    BY <1>1, <1>2, <1>4, <2>1, <2>3, <2>4, <2>5
<1>8. ASSUME NEW n \in Nodes, NEW p \in Nodes, Wake(n, p) \/ AttemptFails(n, p) PROVE SpreadInv'
  <2>1. UNCHANGED <<reg, peerAddrs, net>>
    BY <1>8 DEF Wake, AttemptFails
  <2>2. \A m, q \in Nodes : task'[m][q] # "off" => task[m][q] # "off"
    BY <1>8 DEF Wake, AttemptFails, TypeOK
  <2> QED
    BY <1>1, <1>2, <1>3, <1>4, <2>1, <2>2
<1>9. ASSUME NEW f \in net, ReceiveRequest(f) \/ ReceiveResponse(f) PROVE SpreadInv'
  <2>1. Register(f.to, f.seeds) /\ net' \subseteq net /\ UNCHANGED <<task, cycle>>
    BY <1>9 DEF ReceiveRequest, ReceiveResponse, cycleVars
  <2>2. f.to \in Nodes
    BY FrameParts DEF TypeOK
  <2>3. /\ \A m \in Nodes : \A s \in reg'[m] : s \in Start[m] \/ Spreads(s)'
        /\ \A m \in Nodes : peerAddrs'[m] \cap Portless = {}
    BY <1>3, <2>1, <2>2, SpreadRegister
  <2> QED
    BY <1>1, <1>2, <1>3, <2>1, <2>3
<1>10. ASSUME NEW f \in net, Lose(f) PROVE SpreadInv'
  <2>1. net' \subseteq net /\ UNCHANGED <<reg, peerAddrs, task>>
    BY <1>10 DEF Lose
  <2> QED
    BY <1>1, <1>2, <1>3, <1>4, <2>1
<1>11. ASSUME NEW d \in owed, Respond(d[1], d[2]) PROVE SpreadInv'
  <2>1. d[1] \in Nodes /\ d[2] \in Nodes
    BY DEF TypeOK
  <2>2. \A s \in NoLoopback(Derive(reg[d[1]])) : Spreads(s)
    BY <1>4, <2>1 DEF NoLoopback, Derive, Spreads
  <2>3. \A f \in net' : \A s \in f.seeds : Spreads(s)
    BY <1>11, <2>2 DEF Respond, Response
  <2>4. \A f \in net' : f.seeds \in SUBSET Seeds
    BY <1>1, FrameParts DEF TypeOK
  <2>5. UNCHANGED <<reg, peerAddrs, task>>
    BY <1>11 DEF Respond
  <2> QED
    BY <1>1, <1>2, <1>4, <2>3, <2>4, <2>5
<1>12. CASE UNCHANGED vars
  BY <1>5, <1>12 DEF vars
<1>13. ASSUME NEW n \in Nodes, Begin(n) \/ TimeOut(n) \/ Compare(n) \/ Converge(n) PROVE SpreadInv'
  BY <1>5, <1>13 DEF Begin, TimeOut, Compare, Converge
<1>14. CASE Next
  BY <1>6, <1>7, <1>8, <1>9, <1>10, <1>11, <1>13, <1>14 DEF Next, CycleStep, TaskStep
<1> QED
  BY <1>12, <1>14

\* Addresses with port 0 stay where gossip put them: no sync passes them on or
\* makes them peers, for any network and whatever is lost, late or retried.
THEOREM PortlessStay == Spec => []PortlessContained
<1>1. SpreadInv => PortlessContained
  BY DEF SpreadInv, PortlessContained, Spreads
<1> QED
  BY <1>1, SpreadInit, SpreadStep, PTL DEF Spec

\* A loopback address leaves its node only by the requests of a cycle, never
\* by an answer, though it may then travel on through the cycles of others.
THEOREM LoopbackStays == Spec => []LoopbackContained
<1>1. SpreadInv => LoopbackContained
  BY DEF SpreadInv, LoopbackContained, Spreads, Runs
<1> QED
  BY <1>1, SpreadInit, SpreadStep, PTL DEF Spec

-----------------------------------------------------------------------------
(* What convergence is worth.  In a timely round, what a peer could tell    *)
(* when the round began is on its way to the caller or has arrived, and so  *)
(* is what the caller listed when it last took the hash, on its way to the  *)
(* peer.  That set is not part of the state, its hash is: some set with     *)
(* this hash has been sent.                                                 *)

\* s, which p has, will reach n with the answer to a request of this round.
Coming(n, p, s) ==
  \/ task[n][p] = "try"
  \/ \E f \in net : f.type = "request" /\ f.from = n /\ f.to = p
  \/ <<p, n>> \in owed
  \/ \E f \in net : f.type = "response" /\ f.to = n /\ s \in f.seeds
  \/ s \in reg[n]

\* S, which n has, will reach p with a request of this round.
Going(n, p, S) ==
  \/ task[n][p] = "try"
  \/ \E f \in net : f.type = "request" /\ f.from = n /\ f.to = p /\ S \subseteq f.seeds
  \/ S \subseteq Derive(reg[p])

Told(n) ==
  /\ cycle[n] = "sync" /\ timely[n] =>
       \A s \in known[n] : \E p \in Targets[n] : s \in NoLoopback(Derive(reg[p])) /\ Coming(n, p, s)
  /\ cycle[n] = "agreed" /\ timely[n] => known[n] \subseteq Derive(reg[n])
  /\ cycle[n] = "converged" /\ timely[n] => known[n] \subseteq result[n]

\* S is the set whose hash was taken last.
Hashed(n, S) ==
  /\ S \subseteq Derive(reg[n])
  /\ prev[n] = Hash(S) \/ (prev[n] = NoHash /\ cycle[n] \notin {"agreed", "converged"})
  /\ cycle[n] = "sync" /\ timely[n] => \A p \in Targets[n] : Going(n, p, S)
  /\ cycle[n] \in {"agreed", "converged"} /\ timely[n] => \A p \in Targets[n] : S \subseteq Derive(reg[p])

ExchangeInv == \A n \in Nodes : Told(n) /\ \E S \in SUBSET Seeds : Hashed(n, S)

\* A larger set lists every address at least as often.
LEMMA HashMonotone ==
  ASSUME NEW T \in SUBSET Seeds, NEW S \in SUBSET T, NEW addr \in Addrs
  PROVE  Hash(S)[addr] <= Hash(T)[addr]
<1> DEFINE Of(U) == {s \in U : AddrOf(s) = addr}
<1>1. IsFiniteSet(Seeds)
  BY SyncAssumption, FS_Product DEF Seeds
<1>2. IsFiniteSet(Of(T))
  BY <1>1, FS_Subset
<1>3. Of(S) \subseteq Of(T)
  OBVIOUS
<1>4. Cardinality(Of(S)) <= Cardinality(Of(T))
  BY <1>2, <1>3, FS_Subset
<1> QED
  BY <1>4 DEF Hash

RegGrows == \A p \in Nodes : reg[p] \subseteq reg'[p]

\* A step that leaves n's cycle alone and, if n's round stays timely, lets
\* everything on its way arrive or travel on.
Kept(n) ==
  /\ cycle'[n] = cycle[n] /\ prev'[n] = prev[n] /\ known'[n] = known[n] /\ result'[n] = result[n]
  /\ timely'[n] => /\ timely[n]
                   /\ \A p \in Nodes : \A s \in NoLoopback(Derive(reg[p])) : Coming(n, p, s) => Coming(n, p, s)'
                   /\ \A p \in Nodes, S \in SUBSET Derive(reg[n]) : Going(n, p, S) => Going(n, p, S)'

LEMMA KeptKeeps ==
  ASSUME TypeOK, RegGrows, NEW n \in Nodes, Kept(n), Told(n),
         NEW S \in SUBSET Seeds, Hashed(n, S)
  PROVE  Told(n)' /\ Hashed(n, S)'
<1>1. /\ cycle'[n] = cycle[n] /\ prev'[n] = prev[n] /\ known'[n] = known[n] /\ result'[n] = result[n]
      /\ timely'[n] => timely[n]
  BY DEF Kept
<1>2. ASSUME timely'[n]
      PROVE  /\ \A p \in Nodes : \A s \in NoLoopback(Derive(reg[p])) : Coming(n, p, s) => Coming(n, p, s)'
             /\ \A p \in Nodes : Going(n, p, S) => Going(n, p, S)'
  <2>1. S \in SUBSET Derive(reg[n])
    BY DEF Hashed
  <2> QED
    BY <1>2, <2>1 DEF Kept
<1>3. \A p \in Nodes : /\ Derive(reg[p]) \subseteq Derive(reg'[p])
                       /\ NoLoopback(Derive(reg[p])) \subseteq NoLoopback(Derive(reg'[p]))
  BY DEF RegGrows, Derive, NoLoopback
<1>4. Targets[n] \subseteq Nodes
  BY SyncAssumption
<1>5. Told(n)'
  <2>1. ASSUME cycle'[n] = "sync", timely'[n], NEW s \in known'[n]
        PROVE  \E p \in Targets[n] : s \in NoLoopback(Derive(reg'[p])) /\ Coming(n, p, s)'
    <3>1. PICK p \in Targets[n] : s \in NoLoopback(Derive(reg[p])) /\ Coming(n, p, s)
      BY <1>1, <2>1 DEF Told
    <3>2. p \in Nodes
      BY <1>4
    <3>3. Coming(n, p, s)'
      BY <1>2, <2>1, <3>1, <3>2
    <3> QED
      BY <1>3, <3>1, <3>2, <3>3
  <2>2. ASSUME cycle'[n] = "agreed", timely'[n] PROVE known'[n] \subseteq Derive(reg'[n])
    BY <1>1, <1>3, <2>2 DEF Told
  <2>3. ASSUME cycle'[n] = "converged", timely'[n] PROVE known'[n] \subseteq result'[n]
    BY <1>1, <2>3 DEF Told
  <2> QED
    BY <2>1, <2>2, <2>3 DEF Told
<1>6. Hashed(n, S)'
  <2>1. S \subseteq Derive(reg'[n])
    BY <1>3 DEF Hashed
  <2>2. prev'[n] = Hash(S) \/ (prev'[n] = NoHash /\ cycle'[n] \notin {"agreed", "converged"})
    BY <1>1 DEF Hashed
  <2>3. ASSUME cycle'[n] = "sync", timely'[n], NEW p \in Targets[n] PROVE Going(n, p, S)'
    <3>1. Going(n, p, S)
      BY <1>1, <2>3 DEF Hashed
    <3> QED
      BY <1>2, <1>4, <2>3, <3>1
  <2>4. ASSUME cycle'[n] \in {"agreed", "converged"}, timely'[n], NEW p \in Targets[n]
        PROVE  S \subseteq Derive(reg'[p])
    BY <1>1, <1>3, <1>4, <2>4 DEF Hashed
  <2> QED
    BY <2>1, <2>2, <2>3, <2>4 DEF Hashed
<1> QED
  BY <1>5, <1>6

LEMMA ExchangeInit == Init => ExchangeInv
<1> SUFFICES ASSUME Init, NEW n \in Nodes
             PROVE  Told(n) /\ \E S \in SUBSET Seeds : Hashed(n, S)
  BY DEF ExchangeInv
<1>1. cycle[n] = "idle" /\ prev[n] = NoHash
  BY DEF Init
<1>2. Told(n)
  BY <1>1 DEF Told
<1>3. Hashed(n, {})
  BY <1>1 DEF Hashed
<1> QED
  BY <1>2, <1>3

\* A step of a task leaves all other tasks alone.
LEMMA ExchangeTask ==
  ASSUME TypeOK, NEW m \in Nodes, NEW q \in Nodes, TaskStep(m, q) \/ AttemptFails(m, q),
         NEW n \in Nodes
  PROVE  RegGrows /\ Kept(n)
<1>1. UNCHANGED <<reg, cycleVars, owed>>
  BY DEF TaskStep, SendRequest, Wake, AttemptFails
<1>2. RegGrows
  BY <1>1 DEF RegGrows
<1>3. cycle'[n] = cycle[n] /\ prev'[n] = prev[n] /\ known'[n] = known[n] /\ result'[n] = result[n]
  BY <1>1 DEF cycleVars
<1>4. CASE SendRequest(m, q)
  <2> DEFINE r == Request(m, q, Derive(reg[m]))
  <2>1. /\ net' = net \cup {r}
        /\ UNCHANGED timely
        /\ task' = [task EXCEPT ![m][q] = "sent"]
    BY <1>4 DEF SendRequest
  <2>2. r.type = "request" /\ r.from = m /\ r.to = q /\ r.seeds = Derive(reg[m])
    BY DEF Request
  <2>3. \A p \in Nodes : task[n][p] = "try" /\ task'[n][p] # "try" => n = m /\ p = q
    BY <2>1 DEF TypeOK
  <2>4. ASSUME NEW p \in Nodes, NEW s \in NoLoopback(Derive(reg[p])), Coming(n, p, s) PROVE Coming(n, p, s)'
    <3>1. r \in net' /\ net \subseteq net' /\ owed' = owed /\ reg' = reg
      BY <1>1, <2>1
    <3> HIDE DEF r
    <3> QED
      BY <2>2, <2>3, <2>4, <3>1 DEF Coming
  <2>5. ASSUME NEW p \in Nodes, NEW S \in SUBSET Derive(reg[n]), Going(n, p, S)
        PROVE  Going(n, p, S)'
    <3>1. r \in net' /\ net \subseteq net' /\ reg' = reg
      BY <1>1, <2>1
    <3> HIDE DEF r
    <3> QED
      BY <2>2, <2>3, <2>5, <3>1 DEF Going
  <2> QED
    BY <1>2, <1>3, <2>1, <2>4, <2>5 DEF Kept
<1>5. CASE Wake(m, q)
  <2>1. task' = [task EXCEPT ![m][q] = "done"] /\ task[m][q] = "sent" /\ UNCHANGED <<net, timely>>
    BY <1>5 DEF Wake
  <2>2. \A p \in Nodes : task[n][p] = "try" => task'[n][p] = "try"
    BY <2>1 DEF TypeOK
  <2>3. UNCHANGED <<net, timely, owed, reg>>
    BY <1>1, <2>1
  <2> QED
    BY <1>2, <1>3, <2>2, <2>3 DEF Kept, Coming, Going
<1>6. CASE AttemptFails(m, q)
  <2>1. timely' = [timely EXCEPT ![m] = FALSE] /\ UNCHANGED net
    BY <1>6 DEF AttemptFails
  <2>2. CASE n = m
    <3>1. ~ timely'[n]
      BY <2>1, <2>2 DEF TypeOK
    <3> QED
      BY <1>2, <1>3, <3>1 DEF Kept
  <2>3. CASE n # m
    <3>1. task'[n] = task[n]
      BY <1>6, <2>3 DEF AttemptFails, TypeOK
    <3>2. timely'[n] = timely[n]
      BY <2>1, <2>3 DEF TypeOK
    <3>3. UNCHANGED <<net, owed, reg>>
      BY <1>1, <2>1
    <3> QED
      BY <1>2, <1>3, <3>1, <3>2, <3>3 DEF Kept, Coming, Going
  <2> QED
    BY <2>2, <2>3
<1> QED
  BY <1>4, <1>5, <1>6 DEF TaskStep

\* A frame that is handled, answered or lost.
LEMMA ExchangeFrames ==
  ASSUME TypeOK, NEW n \in Nodes,
         \/ \E f \in net : ReceiveRequest(f) \/ ReceiveResponse(f) \/ Lose(f)
         \/ \E d \in owed : Respond(d[1], d[2])
  PROVE  RegGrows /\ Kept(n)
<1>1. UNCHANGED <<cycleVars, task>>
  BY DEF ReceiveRequest, ReceiveResponse, Lose, Respond
<1>2. cycle'[n] = cycle[n] /\ prev'[n] = prev[n] /\ known'[n] = known[n] /\ result'[n] = result[n]
  BY <1>1 DEF cycleVars
<1>3. reg \in [Nodes -> SUBSET Seeds] /\ \A f \in net : f.from \in Nodes /\ f.to \in Nodes
  BY FrameParts DEF TypeOK
<1>4. ASSUME NEW f \in net, ReceiveRequest(f) PROVE RegGrows /\ Kept(n)
  <2>1. /\ net' = net \ {f} /\ owed' = owed \cup {<<f.to, f.from>>} /\ UNCHANGED timely
        /\ reg' = [reg EXCEPT ![f.to] = @ \cup f.seeds]
        /\ f.type = "request"
    BY <1>4 DEF ReceiveRequest, Register
  <2>2. RegGrows /\ f.seeds \subseteq reg'[f.to]
    BY <1>3, <2>1 DEF RegGrows
  <2>3. ASSUME NEW p \in Nodes, NEW s \in NoLoopback(Derive(reg[p])), Coming(n, p, s) PROVE Coming(n, p, s)'
    <3>1. reg[n] \subseteq reg'[n] /\ UNCHANGED task
      BY <1>1, <2>2 DEF RegGrows
    <3>2. <<p, n>> \in owed => <<p, n>> \in owed'
      BY <2>1
    <3>3. ASSUME NEW g \in net, g.type = "request", g.from = n, g.to = p
          PROVE  g \in net' \/ <<p, n>> \in owed'
      BY <2>1, <3>3
    <3>4. ASSUME NEW g \in net, g.type = "response" PROVE g \in net'
      BY <2>1, <3>4
    <3> QED
      BY <2>3, <3>1, <3>2, <3>3, <3>4 DEF Coming
  <2>4. ASSUME NEW p \in Nodes, NEW S \in SUBSET Derive(reg[n]), Going(n, p, S)
        PROVE  Going(n, p, S)'
    <3>1. Derive(reg[p]) \subseteq Derive(reg'[p]) /\ UNCHANGED task
      BY <1>1, <2>2 DEF RegGrows, Derive
    <3>2. ASSUME NEW g \in net, g.to = p, S \subseteq g.seeds
          PROVE  g \in net' \/ S \subseteq Derive(reg'[p])
      <4>1. CASE g # f
        BY <2>1, <4>1
      <4>2. CASE g = f
        <5>1. S \subseteq reg'[p]
          BY <2>2, <3>2, <4>2
        <5> QED
          BY <5>1 DEF Derive
      <4> QED
        BY <4>1, <4>2
    <3> QED
      BY <2>4, <3>1, <3>2 DEF Going
  <2> QED
    BY <1>2, <2>1, <2>2, <2>3, <2>4 DEF Kept
<1>5. ASSUME NEW f \in net, ReceiveResponse(f) PROVE RegGrows /\ Kept(n)
  <2>1. /\ net' = net \ {f} /\ UNCHANGED <<owed, timely>>
        /\ reg' = [reg EXCEPT ![f.to] = @ \cup f.seeds]
        /\ f.type = "response"
    BY <1>5 DEF ReceiveResponse, Register
  <2>2. RegGrows /\ f.seeds \subseteq reg'[f.to]
    BY <1>3, <2>1 DEF RegGrows
  <2>3. ASSUME NEW p \in Nodes, NEW s \in NoLoopback(Derive(reg[p])), Coming(n, p, s) PROVE Coming(n, p, s)'
    <3>1. reg[n] \subseteq reg'[n] /\ UNCHANGED <<task, owed>>
      BY <1>1, <2>1, <2>2 DEF RegGrows
    <3>2. ASSUME NEW g \in net, g.type = "request" PROVE g \in net'
      BY <2>1, <3>2
    <3>3. ASSUME NEW g \in net, g.type = "response", g.to = n, s \in g.seeds
          PROVE  g \in net' \/ s \in reg'[n]
      BY <2>1, <2>2, <3>3
    <3> QED
      BY <2>3, <3>1, <3>2, <3>3 DEF Coming
  <2>4. ASSUME NEW p \in Nodes, NEW S \in SUBSET Derive(reg[n]), Going(n, p, S)
        PROVE  Going(n, p, S)'
    <3>1. Derive(reg[p]) \subseteq Derive(reg'[p]) /\ UNCHANGED task
      BY <1>1, <2>2 DEF RegGrows, Derive
    <3>2. ASSUME NEW g \in net, g.type = "request" PROVE g \in net'
      BY <2>1, <3>2
    <3> QED
      BY <2>4, <3>1, <3>2 DEF Going
  <2> QED
    BY <1>2, <2>1, <2>2, <2>3, <2>4 DEF Kept
<1>6. ASSUME NEW f \in net, Lose(f) PROVE RegGrows /\ Kept(n)
  <2> DEFINE k == IF f.type = "request" THEN f.from ELSE f.to
  <2>1. /\ net' = net \ {f} /\ UNCHANGED <<reg, owed>>
        /\ timely' = [timely EXCEPT ![k] = FALSE]
    BY <1>6 DEF Lose
  <2>2. RegGrows
    BY <2>1 DEF RegGrows
  <2>3. CASE n = k
    <3>1. ~ timely'[n]
      BY <2>1, <2>3 DEF TypeOK
    <3> QED
      BY <1>2, <2>2, <3>1 DEF Kept
  <2>4. CASE n # k
    <3>1. timely'[n] = timely[n]
      BY <2>1, <2>4 DEF TypeOK
    <3>2. \A g \in net : (g.type = "request" /\ g.from = n) \/ (g.type = "response" /\ g.to = n) => g \in net'
      <4>1. f.type = "request" => n # f.from
        BY <2>4
      <4>2. f.type = "response" => n # f.to
        BY <2>4
      <4> HIDE DEF k
      <4> QED
        BY <2>1, <4>1, <4>2
    <3>3. UNCHANGED <<task, reg, owed>>
      BY <1>1, <2>1
    <3> HIDE DEF k
    <3>4. \A p \in Nodes : \A s \in NoLoopback(Derive(reg[p])) : Coming(n, p, s) => Coming(n, p, s)'
      BY <3>2, <3>3 DEF Coming
    <3>5. \A p \in Nodes, S \in SUBSET Derive(reg[n]) : Going(n, p, S) => Going(n, p, S)'
      BY <3>2, <3>3 DEF Going
    <3> QED
      BY <1>2, <2>2, <3>1, <3>4, <3>5 DEF Kept
  <2> QED
    BY <2>3, <2>4
<1>7. ASSUME NEW d \in owed, Respond(d[1], d[2]) PROVE RegGrows /\ Kept(n)
  <2> DEFINE r == Response(d[1], d[2], NoLoopback(Derive(reg[d[1]])))
  <2>1. /\ net' = net \cup {r} /\ owed' = owed \ {<<d[1], d[2]>>}
        /\ UNCHANGED <<reg, timely>>
    BY <1>7 DEF Respond
  <2>2. RegGrows
    BY <2>1 DEF RegGrows
  <2>3. r.type = "response" /\ r.to = d[2] /\ r.seeds = NoLoopback(Derive(reg[d[1]]))
    BY DEF Response
  <2>4. r \in net' /\ net \subseteq net' /\ UNCHANGED <<task, reg>>
    BY <1>1, <2>1
  <2>5. ASSUME NEW p \in Nodes, NEW s \in NoLoopback(Derive(reg[p])), Coming(n, p, s)
        PROVE  Coming(n, p, s)'
    <3>1. <<p, n>> \in owed => <<p, n>> \in owed' \/ (d[1] = p /\ d[2] = n)
      BY <2>1
    <3> HIDE DEF r
    <3> QED
      BY <2>3, <2>4, <2>5, <3>1 DEF Coming
  <2>6. \A p \in Nodes, S \in SUBSET Derive(reg[n]) : Going(n, p, S) => Going(n, p, S)'
    BY <2>4 DEF Going
  <2> QED
    BY <1>2, <2>1, <2>2, <2>5, <2>6 DEF Kept
<1> QED
  BY <1>4, <1>5, <1>6, <1>7

\* The cycle of another node is of no concern.
LEMMA ExchangeOther ==
  ASSUME TypeOK, NEW m \in Nodes, NEW n \in Nodes, n # m, Begin(m) \/ CycleStep(m)
  PROVE  RegGrows /\ Kept(n)
<1> USE DEF Begin, CycleStep, StartRound, TimeOut, Compare, Converge
<1>1. UNCHANGED <<reg, owed, net>>
  OBVIOUS
<1>2. cycle'[n] = cycle[n]
  BY DEF TypeOK
<1>3. prev'[n] = prev[n] /\ known'[n] = known[n]
  BY DEF TypeOK
<1>4. result'[n] = result[n] /\ timely'[n] = timely[n] /\ task'[n] = task[n]
  BY DEF TypeOK
<1> QED
  BY <1>1, <1>2, <1>3, <1>4 DEF RegGrows, Kept, Coming, Going

\* The steps of n's own cycle.
LEMMA ExchangeCycle ==
  ASSUME TypeOK, NEW n \in Nodes, Begin(n) \/ CycleStep(n), Told(n),
         NEW S \in SUBSET Seeds, Hashed(n, S)
  PROVE  Told(n)' /\ \E T \in SUBSET Seeds : Hashed(n, T)'
<1>1. UNCHANGED <<reg, owed, net>>
  BY DEF Begin, CycleStep, StartRound, TimeOut, Compare, Converge
<1>2. CASE Begin(n) \/ TimeOut(n)
  <2>1. cycle'[n] \notin {"sync", "agreed", "converged"} /\ UNCHANGED prev
    BY <1>2 DEF Begin, TimeOut, TypeOK
  <2>2. Told(n)' /\ Hashed(n, S)'
    <3>1. cycle[n] \notin {"agreed", "converged"}
      BY <1>2 DEF Begin, TimeOut
    <3> QED
      BY <1>1, <2>1, <3>1 DEF Told, Hashed
  <2> QED
    BY <2>2
<1>3. CASE StartRound(n)
  <2>1. PICK spawned \in SUBSET Targets[n] :
          /\ task' = [task EXCEPT ![n] = [p \in Nodes |-> IF p \in spawned THEN "try" ELSE "off"]]
          /\ expired' = [expired EXCEPT ![n] = (spawned # Targets[n])]
    BY <1>3 DEF StartRound
  <2>2. /\ cycle[n] = "loop" /\ cycle'[n] = "sync"
        /\ known'[n] = UNION {NoLoopback(Derive(reg[p])) : p \in Targets[n]}
        /\ timely'[n] => ~ expired'[n]
        /\ UNCHANGED prev
    BY <1>3 DEF StartRound, TypeOK
  <2>3. timely'[n] => \A p \in Targets[n] : task'[n][p] = "try"
    <3>1. timely'[n] => spawned = Targets[n]
      BY <2>1, <2>2 DEF TypeOK
    <3> QED
      BY <2>1, <3>1, SyncAssumption DEF TypeOK
  <2>4. Told(n)'
    <3>1. ASSUME timely'[n], NEW s \in known'[n]
          PROVE  \E p \in Targets[n] : s \in NoLoopback(Derive(reg'[p])) /\ Coming(n, p, s)'
      <4>1. PICK p \in Targets[n] : s \in NoLoopback(Derive(reg[p]))
        BY <2>2, <3>1
      <4>2. Coming(n, p, s)'
        BY <2>3, <3>1 DEF Coming
      <4> QED
        BY <1>1, <4>1, <4>2
    <3> QED
      BY <2>2, <3>1 DEF Told
  <2>5. Hashed(n, S)'
    <3>1. timely'[n] => \A p \in Targets[n] : Going(n, p, S)'
      BY <2>3 DEF Going
    <3> QED
      BY <1>1, <2>2, <3>1 DEF Hashed
  <2> QED
    BY <2>4, <2>5
<1>4. CASE Compare(n)
  <2> DEFINE T == Derive(reg[n])
  <2>1. /\ cycle[n] = "sync" /\ Joined(n)
        /\ prev'[n] = Hash(T)
        /\ timely'[n] => timely[n] /\ ~ Outstanding(n)
        /\ known' = known
    BY <1>4 DEF Compare, TypeOK
  <2>2. cycle'[n] = "loop" \/ (cycle'[n] = "agreed" /\ prev[n] = Hash(T))
    BY <1>4 DEF Compare, TypeOK
  <2>3. T \in SUBSET Seeds
    BY DEF Derive, TypeOK
  <2>4. \A p \in Targets[n] : p \in Nodes /\ task[n][p] # "try"
    BY <2>1, SyncAssumption DEF Joined
  <2>5. ASSUME timely'[n] PROVE known[n] \subseteq Derive(reg[n])
    <3>1. ASSUME NEW s \in known[n] PROVE s \in Derive(reg[n])
      <4>1. PICK p \in Targets[n] : s \in NoLoopback(Derive(reg[p])) /\ Coming(n, p, s)
        BY <2>1, <2>5 DEF Told
      <4>2. s \in reg[n]
        BY <2>1, <2>4, <2>5, <4>1 DEF Coming, Outstanding
      <4> QED
        BY <4>1, <4>2 DEF Derive, NoLoopback
    <3> QED
      BY <3>1
  <2>6. ASSUME timely'[n], NEW p \in Targets[n] PROVE S \subseteq Derive(reg[p])
    <3>1. Going(n, p, S)
      BY <2>1, <2>6 DEF Hashed
    <3> QED
      BY <2>1, <2>4, <2>6, <3>1 DEF Going, Outstanding
  <2>7. Told(n)'
    BY <1>1, <2>1, <2>2, <2>5 DEF Told
  <2>8. CASE cycle'[n] = "loop"
    <3>1. PICK U \in SUBSET Seeds : U = T
      BY <2>3
    <3>2. U = Derive(reg'[n]) /\ prev'[n] = Hash(U)
      BY <1>1, <2>1, <3>1
    <3>3. Hashed(n, U)'
      BY <2>8, <3>2 DEF Hashed
    <3> QED
      BY <2>7, <3>3
  <2>9. CASE cycle'[n] = "agreed" /\ prev[n] = Hash(T)
    <3>1. prev[n] = Hash(S)
      <4>1. CASE prev[n] = NoHash
        <5>1. DOMAIN prev[n] = {} /\ DOMAIN prev[n] = Addrs
          BY <2>9, <4>1 DEF Hash, NoHash
        <5>2. Hash(S) = Hash(T)
          BY <5>1 DEF Hash
        <5> QED
          BY <2>9, <5>2
      <4> QED
        BY <4>1 DEF Hashed
    <3>2. S \subseteq Derive(reg'[n]) /\ prev'[n] = Hash(S)
      BY <1>1, <2>1, <2>9, <3>1 DEF Hashed
    <3>3. \A p \in Targets[n] : timely'[n] => S \subseteq Derive(reg'[p])
      BY <1>1, <2>6
    <3>4. Hashed(n, S)'
      BY <2>9, <3>2, <3>3 DEF Hashed
    <3> QED
      BY <2>7, <3>4
  <2> QED
    BY <2>2, <2>8, <2>9
<1>5. CASE Converge(n)
  <2>1. /\ cycle[n] = "agreed" /\ cycle'[n] = "converged" /\ result'[n] = Derive(reg[n])
        /\ UNCHANGED <<timely, known, prev>>
    BY <1>5 DEF Converge, TypeOK
  <2>2. Told(n)' /\ Hashed(n, S)'
    BY <1>1, <2>1 DEF Told, Hashed
  <2> QED
    BY <2>2
<1> QED
  BY <1>2, <1>3, <1>4, <1>5 DEF CycleStep

LEMMA ExchangeStep == TypeOK /\ ExchangeInv /\ [Next]_vars => ExchangeInv'
<1> SUFFICES ASSUME TypeOK, ExchangeInv, [Next]_vars, NEW n \in Nodes
             PROVE  Told(n)' /\ \E S \in SUBSET Seeds : Hashed(n, S)'
  BY DEF ExchangeInv
<1>1. PICK S \in SUBSET Seeds : Told(n) /\ Hashed(n, S)
  BY DEF ExchangeInv
<1>2. ASSUME RegGrows, Kept(n) PROVE Told(n)' /\ Hashed(n, S)'
  BY <1>1, <1>2, KeptKeeps
<1>3. CASE UNCHANGED vars
  <2>1. RegGrows /\ Kept(n)
    BY <1>3 DEF vars, cycleVars, RegGrows, Kept, Coming, Going
  <2> QED
    BY <1>2, <2>1
<1>4. ASSUME NEW m \in Nodes, Begin(m) \/ CycleStep(m)
      PROVE  Told(n)' /\ \E T \in SUBSET Seeds : Hashed(n, T)'
  <2>1. CASE n = m
    BY <1>1, <1>4, <2>1, ExchangeCycle
  <2>2. CASE n # m
    <3>1. RegGrows /\ Kept(n)
      BY <1>4, <2>2, ExchangeOther
    <3> QED
      BY <1>2, <3>1
  <2> QED
    BY <2>1, <2>2
<1>5. CASE Next
  <2>1. (\E m \in Nodes : Begin(m) \/ CycleStep(m)) \/ (RegGrows /\ Kept(n))
    BY <1>5, ExchangeTask, ExchangeFrames DEF Next
  <2> QED
    BY <1>2, <1>4, <2>1
<1> QED
  BY <1>3, <1>5

\* run_seed_sync_cycle does not wait for answers; yet if in the round that
\* found the set stable nothing was late or lost, the result has all a peer
\* could tell when that round began, and every peer lists the addresses that
\* went into the hash, for any number of peers, rounds, attempts and faults.
THEOREM ConvergenceExchanges == Spec => []ConvergedExchanged
<1>1. TypeOK /\ ExchangeInv => ConvergedExchanged
  <2> SUFFICES ASSUME TypeOK, ExchangeInv, NEW n \in Nodes, cycle[n] = "converged", timely[n]
               PROVE  /\ known[n] \subseteq result[n]
                      /\ \A p \in Targets[n], addr \in Addrs : prev[n][addr] <= Hash(Derive(reg[p]))[addr]
    BY DEF ConvergedExchanged
  <2>1. PICK S \in SUBSET Seeds : Told(n) /\ Hashed(n, S)
    BY DEF ExchangeInv
  <2>2. known[n] \subseteq result[n]
    BY <2>1 DEF Told
  <2>3. ASSUME NEW p \in Targets[n], NEW addr \in Addrs
        PROVE  prev[n][addr] <= Hash(Derive(reg[p]))[addr]
    <3>1. prev[n] = Hash(S) /\ S \in SUBSET Derive(reg[p])
      BY <2>1 DEF Hashed
    <3>2. Derive(reg[p]) \in SUBSET Seeds
      BY SyncAssumption, DeriveType DEF TypeOK
    <3> QED
      BY <3>1, <3>2, HashMonotone
  <2> QED
    BY <2>2, <2>3
<1> QED
  BY <1>1, SyncTypeInit, SyncTypeStep, ExchangeInit, ExchangeStep, PTL DEF Spec

-----------------------------------------------------------------------------
(* Cycles run out.                                                         *)

\* The steps of a cycle.
LEMMA CycleUsesUp ==
  ASSUME TypeOK, NEW n \in Nodes, Begin(n) \/ CycleStep(n)
  PROVE  UsesUp
<1> DEFINE On == \/ round'[n] = round[n] + 1 /\ round'[n] <= MaxRounds
                 \/ round'[n] = round[n] /\ Stage(cycle[n]) < Stage(cycle'[n])
           Others == \A m \in Nodes \ {n} : /\ round'[m] = round[m] /\ cycle'[m] = cycle[m]
                                            /\ task'[m] = task[m] /\ attempt'[m] = attempt[m]
<1>1. Others
  BY DEF TypeOK, Begin, CycleStep, StartRound, TimeOut, Compare, Converge
<1>2. ASSUME StartRound(n) PROVE On
  BY <1>2, SyncAssumption DEF StartRound, TypeOK
<1>3. ASSUME Begin(n) \/ TimeOut(n) \/ Compare(n) \/ Converge(n) PROVE On
  <2>1. round' = round
    BY <1>3 DEF Begin, TimeOut, Compare, Converge
  <2>2. \/ cycle[n] = "idle" /\ cycle'[n] \in {"alone", "loop"}
        \/ cycle[n] = "loop" /\ cycle'[n] = "timeout"
        \/ cycle[n] = "sync" /\ cycle'[n] \in {"agreed", "loop"}
        \/ cycle[n] = "agreed" /\ cycle'[n] = "converged"
    BY <1>3 DEF TypeOK, Begin, TimeOut, Compare, Converge
  <2>3. Stage(cycle[n]) < Stage(cycle'[n])
    BY <2>2 DEF Stage
  <2> QED BY <2>1, <2>3
<1>4. On
  BY <1>2, <1>3 DEF CycleStep
<1> QED BY <1>1, <1>4 DEF UsesUp

\* The steps of a task.
LEMMA TaskUsesUp ==
  ASSUME TypeOK, NEW n \in Nodes, NEW p \in Nodes, TaskStep(n, p) \/ AttemptFails(n, p)
  PROVE  UsesUp
<1>1. UNCHANGED <<round, cycle>>
  BY DEF TaskStep, SendRequest, Wake, AttemptFails, cycleVars
<1>2. \A m, q \in Nodes : <<m, q>> # <<n, p>> =>
        task'[m][q] = task[m][q] /\ attempt'[m][q] = attempt[m][q]
  <2>1. \A m \in Nodes : m # n => task'[m] = task[m] /\ attempt'[m] = attempt[m]
    BY DEF TypeOK, TaskStep, SendRequest, Wake, AttemptFails
  <2>2. \A q \in Nodes : q # p => task'[n][q] = task[n][q] /\ attempt'[n][q] = attempt[n][q]
    BY DEF TypeOK, TaskStep, SendRequest, Wake, AttemptFails
  <2> QED BY <2>1, <2>2
<1>3. \/ attempt'[n][p] = attempt[n][p] + 1 /\ attempt'[n][p] <= Attempts
      \/ attempt'[n][p] = attempt[n][p] /\ TaskStage(task[n][p]) < TaskStage(task'[n][p])
  <2>1. CASE AttemptFails(n, p) /\ attempt[n][p] < Attempts
    <3>1. attempt[n][p] \in 0 .. Attempts /\ attempt[n] \in [Nodes -> 0 .. Attempts]
      BY DEF TypeOK
    <3>2. attempt' = [attempt EXCEPT ![n][p] = @ + 1]
      BY <2>1 DEF AttemptFails
    <3>3. attempt'[n][p] = attempt[n][p] + 1
      BY <3>1, <3>2 DEF TypeOK
    <3> QED BY <2>1, <3>1, <3>3, SyncAssumption
  <2>2. CASE AttemptFails(n, p) /\ ~ (attempt[n][p] < Attempts)
    <3>1. attempt' = attempt /\ task[n][p] \in {"try", "sent"} /\ task'[n][p] = "done"
      BY <2>2 DEF AttemptFails, TypeOK
    <3> QED BY <3>1 DEF TaskStage
  <2>3. CASE TaskStep(n, p)
    <3>1. /\ attempt' = attempt
          /\ \/ task[n][p] = "try" /\ task'[n][p] = "sent"
             \/ task[n][p] = "sent" /\ task'[n][p] = "done"
      BY <2>3 DEF TaskStep, SendRequest, Wake, TypeOK
    <3> QED BY <3>1 DEF TaskStage
  <2> QED BY <2>1, <2>2, <2>3
<1> QED BY <1>1, <1>2, <1>3 DEF UsesUp

\* On every network, however late answers are, whatever is lost and however
\* often attempts fail: every step of the synchronisation uses up a round, an
\* attempt, a request or an answer.
THEOREM SyncRunsOut == Spec => WorkUsedUp
<1>1. ASSUME TypeOK, Next PROVE UsesUp
  <2>1. CASE \E f \in net : ReceiveRequest(f) \/ ReceiveResponse(f) \/ Lose(f)
    BY <2>1 DEF ReceiveRequest, ReceiveResponse, Lose, cycleVars, UsesUp
  <2>2. ASSUME NEW d \in owed, Respond(d[1], d[2]) PROVE UsesUp
    <3>1. d = <<d[1], d[2]>>
      BY <1>1 DEF TypeOK
    <3>2. owed' = owed \ {d} /\ UNCHANGED <<round, cycle, task, attempt>>
      BY <2>2, <3>1 DEF Respond, cycleVars
    <3>3. \A f \in net' \ net : f.type = "response"
      BY <2>2 DEF Respond, Response
    <3> QED BY <3>2, <3>3 DEF UsesUp
  <2> QED BY <1>1, <2>1, <2>2, CycleUsesUp, TaskUsesUp DEF Next
<1>2. TypeOK /\ [Next]_vars => [UsesUp]_vars
  BY <1>1
<1> QED BY <1>2, SyncTypeInit, SyncTypeStep, PTL DEF Spec, WorkUsedUp
=============================================================================
