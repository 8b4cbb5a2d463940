------------------------------ MODULE SeedSync ------------------------------
(***************************************************************************)
(* The rounds in which nodes exchange their seed sets until the set stays  *)
(* the same: run_seed_sync_cycle with one concurrent task per peer, the    *)
(* retries of a task, and the request and response handlers.               *)
(*                                                                         *)
(* A task takes its sync for done 500 ms after the request was written,    *)
(* whether or not a response came: responses may arrive in a later round   *)
(* or after the cycle, and are registered whenever they do.                *)
(***************************************************************************)
EXTENDS Naturals, FiniteSets

CONSTANTS
  Nodes,
  Addrs,         \* socket addresses
  Portless,      \* those with port 0
  Loopback,      \* those of the loopback interface
  Start,         \* Start[n]: the seeds in n's registry at the start
  Callers,       \* the nodes whose application runs a cycle
  Targets,       \* Targets[n]: the peers n's cycle is called with
  MaxRounds,     \* max_rounds (10 when 0 is passed)
  StableRounds,  \* STABLE_ROUNDS_REQUIRED
  Attempts,      \* requests a task tries to write in a round: 3
  MaxFaults      \* bound: lost frames, failed requests and early wake-ups

\* A seed: a socket address and the node it is registered under.
Seeds == Addrs \X Nodes
AddrOf(s) == s[1]

ASSUME SyncAssumption ==
  /\ IsFiniteSet(Nodes) /\ IsFiniteSet(Addrs)
  /\ Portless \subseteq Addrs /\ Loopback \subseteq Addrs
  /\ Start \in [Nodes -> SUBSET Seeds]
  /\ Callers \subseteq Nodes
  /\ Targets \in [Nodes -> SUBSET Nodes] /\ \A n \in Nodes : n \notin Targets[n]
  /\ MaxRounds \in Nat \ {0} /\ StableRounds \in Nat \ {0}
  /\ Attempts \in Nat \ {0} /\ MaxFaults \in Nat

\* Mutant of Derive: port 0 is not left out.
DeriveAll(seeds) == seeds
\* derive_seed_set_from_registry.
Derive(seeds) == {s \in seeds : AddrOf(s) \notin Portless}
\* filter_loopback.
NoLoopback(seeds) == {s \in seeds : AddrOf(s) \notin Loopback}

\* compute_seed_hash hashes the sorted addresses and not the node ids: sets
\* have the same hash when every address is listed equally often.
Hash(seeds) == [addr \in Addrs |-> Cardinality({s \in seeds : AddrOf(s) = addr})]
NoHash == [addr \in {} |-> 0]

Request(n, p, seeds) == [type |-> "request", from |-> n, to |-> p, seeds |-> seeds]
Response(n, p, seeds) == [type |-> "response", from |-> n, to |-> p, seeds |-> seeds]
Frames == [type : {"request", "response"}, from : Nodes, to : Nodes, seeds : SUBSET Seeds]

VARIABLES
  reg,        \* reg[n]: the seeds in n's registry
  peerAddrs,  \* peerAddrs[n]: addresses the handlers added to peer_addrs
  cycle,      \* cycle[n]: progress of run_seed_sync_cycle
  round, stable, prev, result,   \* its local state
  expired,    \* expired[n]: the deadline passed while the tasks were spawned
  task,       \* task[n][p]: the task of the current round that syncs n with p
  attempt,    \* attempt[n][p]: which attempt of the task it is
  owed,       \* <<r, n>>: r has registered a request of n and not answered it yet
  net,        \* frames in flight
  known,      \* history: what n's targets could tell it when its round began
  timely,     \* history: nothing of n's current round was late, lost or left out
  faults

cycleVars == <<cycle, round, stable, prev, expired, result, known>>
vars == <<reg, peerAddrs, cycleVars, task, attempt, owed, net, timely, faults>>

Ended == {"alone", "converged", "timeout"}

TypeOK ==
  /\ reg \in [Nodes -> SUBSET Seeds]
  /\ peerAddrs \in [Nodes -> SUBSET Addrs]
  /\ cycle \in [Nodes -> {"idle", "loop", "sync", "agreed"} \cup Ended]
  /\ round \in [Nodes -> 0 .. MaxRounds]
  /\ stable \in [Nodes -> Nat]
  /\ prev \in [Nodes -> [Addrs -> Nat] \cup {NoHash}]
  /\ expired \in [Nodes -> BOOLEAN]
  /\ result \in [Nodes -> SUBSET Seeds]
  /\ task \in [Nodes -> [Nodes -> {"off", "try", "sent", "done"}]]
  /\ attempt \in [Nodes -> [Nodes -> 0 .. Attempts]]
  /\ owed \subseteq Nodes \X Nodes
  /\ net \subseteq Frames
  /\ known \in [Nodes -> SUBSET Seeds]
  /\ timely \in [Nodes -> BOOLEAN]
  /\ faults \in Nat

Init ==
  /\ reg = Start
  /\ peerAddrs = [n \in Nodes |-> {}]
  /\ cycle = [n \in Nodes |-> "idle"]
  /\ round = [n \in Nodes |-> 0]
  /\ stable = [n \in Nodes |-> 0]
  /\ prev = [n \in Nodes |-> NoHash]
  /\ expired = [n \in Nodes |-> FALSE]
  /\ result = [n \in Nodes |-> {}]
  /\ task = [n \in Nodes |-> [p \in Nodes |-> "off"]]
  /\ attempt = [n \in Nodes |-> [p \in Nodes |-> 0]]
  /\ owed = {} /\ net = {}
  /\ known = [n \in Nodes |-> {}]
  /\ timely = [n \in Nodes |-> FALSE]
  /\ faults = 0

-----------------------------------------------------------------------------
(* run_seed_sync_cycle.                                                    *)

\* Without peers the own set is the result.
Begin(n) ==
  /\ n \in Callers /\ cycle[n] = "idle"
  /\ IF Targets[n] = {}
     THEN /\ cycle' = [cycle EXCEPT ![n] = "alone"]
          /\ result' = [result EXCEPT ![n] = Derive(reg[n])]
     ELSE cycle' = [cycle EXCEPT ![n] = "loop"] /\ UNCHANGED result
  /\ UNCHANGED <<reg, peerAddrs, round, stable, prev, expired, known, task, attempt, owed, net, timely, faults>>

\* Frames and answers that belong to a request of n are still on their way.
Outstanding(n) ==
  \/ \E f \in net : (f.type = "request" /\ f.from = n) \/ (f.type = "response" /\ f.to = n)
  \/ \E d \in owed : d[2] = n

\* Mutant of StartRound: one round too many.
StartRoundOver(n) ==
  /\ cycle[n] = "loop" /\ ~ expired[n] /\ round[n] <= MaxRounds
  /\ round' = [round EXCEPT ![n] = @ + 1]
  /\ cycle' = [cycle EXCEPT ![n] = "sync"]
  /\ task' = [task EXCEPT ![n] = [p \in Nodes |-> IF p \in Targets[n] THEN "try" ELSE "off"]]
  /\ UNCHANGED <<reg, peerAddrs, stable, prev, expired, result, known, attempt, owed, net, timely, faults>>

\* A round spawns a task per peer; when the deadline passes meanwhile, only
\* for some of them.
StartRound(n) ==
  /\ cycle[n] = "loop" /\ ~ expired[n] /\ round[n] < MaxRounds
  /\ round' = [round EXCEPT ![n] = @ + 1]
  /\ cycle' = [cycle EXCEPT ![n] = "sync"]
  /\ \E spawned \in SUBSET Targets[n] :
       /\ task' = [task EXCEPT ![n] = [p \in Nodes |-> IF p \in spawned THEN "try" ELSE "off"]]
       /\ expired' = [expired EXCEPT ![n] = (spawned # Targets[n])]
  /\ attempt' = [attempt EXCEPT ![n] = [p \in Nodes |-> 1]]
  /\ known' = [known EXCEPT ![n] = UNION {NoLoopback(Derive(reg[p])) : p \in Targets[n]}]
  /\ timely' = [timely EXCEPT ![n] = ~ Outstanding(n) /\ ~ expired'[n]]
  /\ UNCHANGED <<reg, peerAddrs, stable, prev, result, owed, net, faults>>

\* The deadline has passed, which it may at any time, or no round is left.
TimeOut(n) ==
  /\ cycle[n] = "loop"
  /\ cycle' = [cycle EXCEPT ![n] = "timeout"]
  /\ result' = [result EXCEPT ![n] = Derive(reg[n])]
  /\ UNCHANGED <<reg, peerAddrs, round, stable, prev, expired, known, task, attempt, owed, net, timely, faults>>

\* All tasks of the round are over.
Joined(n) == \A p \in Nodes : task[n][p] \in {"off", "done"}

\* Mutant of Compare: no stable round is asked for.
CompareOnce(n) ==
  /\ cycle[n] = "sync" /\ Joined(n)
  /\ prev' = [prev EXCEPT ![n] = Hash(Derive(reg[n]))]
  /\ cycle' = [cycle EXCEPT ![n] = "agreed"]
  /\ timely' = [timely EXCEPT ![n] = @ /\ ~ Outstanding(n)]
  /\ UNCHANGED <<reg, peerAddrs, round, stable, expired, result, known, task, attempt, owed, net, faults>>

\* After the tasks and a gap of 200 ms the hash is compared with the last one.
Compare(n) ==
  LET current == Hash(Derive(reg[n]))
      same == prev[n] = current
  IN /\ cycle[n] = "sync" /\ Joined(n)
     /\ stable' = [stable EXCEPT ![n] = IF same THEN @ + 1 ELSE 0]
     /\ prev' = [prev EXCEPT ![n] = current]
     /\ cycle' = [cycle EXCEPT ![n] = IF same /\ stable[n] + 1 >= StableRounds THEN "agreed" ELSE "loop"]
     /\ timely' = [timely EXCEPT ![n] = @ /\ ~ Outstanding(n)]
     /\ UNCHANGED <<reg, peerAddrs, round, expired, result, known, task, attempt, owed, net, faults>>

\* The converged set is derived once more before it is returned.
Converge(n) ==
  /\ cycle[n] = "agreed"
  /\ cycle' = [cycle EXCEPT ![n] = "converged"]
  /\ result' = [result EXCEPT ![n] = Derive(reg[n])]
  /\ UNCHANGED <<reg, peerAddrs, round, stable, prev, expired, known, task, attempt, owed, net, timely, faults>>

-----------------------------------------------------------------------------
(* A task: try_sync_with_peer_global and sync_once.                        *)

\* The request is written, over an existing connection or a new one.
SendRequest(n, p) ==
  /\ task[n][p] = "try"
  /\ net' = net \cup {Request(n, p, Derive(reg[n]))}
  /\ task' = [task EXCEPT ![n][p] = "sent"]
  /\ UNCHANGED <<reg, peerAddrs, cycleVars, attempt, owed, timely, faults>>

\* Mutant of Wake: the task waits for the response.
WakeAnswered(n, p) ==
  /\ task[n][p] = "sent" /\ ~ Outstanding(n) /\ timely[n]
  /\ task' = [task EXCEPT ![n][p] = "done"]
  /\ UNCHANGED <<reg, peerAddrs, cycleVars, attempt, owed, net, timely, faults>>

\* 500 ms later the own set, always valid, makes the sync a success.
Wake(n, p) ==
  /\ task[n][p] = "sent"
  /\ task' = [task EXCEPT ![n][p] = "done"]
  /\ UNCHANGED <<reg, peerAddrs, cycleVars, attempt, owed, net, timely, faults>>

\* The attempt fails: no connection, no session key table, a write error; or,
\* on a new connection, sync_once looks at the result before it is stored.
\* There is another attempt, and after the last the task is over.
AttemptFails(n, p) ==
  /\ faults < MaxFaults
  /\ faults' = faults + 1
  /\ task[n][p] \in {"try", "sent"}
  /\ IF attempt[n][p] < Attempts
     THEN /\ attempt' = [attempt EXCEPT ![n][p] = @ + 1]
          /\ task' = [task EXCEPT ![n][p] = "try"]
     ELSE /\ task' = [task EXCEPT ![n][p] = "done"]
          /\ UNCHANGED attempt
  /\ timely' = [timely EXCEPT ![n] = FALSE]
  /\ UNCHANGED <<reg, peerAddrs, cycleVars, owed, net>>

-----------------------------------------------------------------------------
(* The handlers.                                                           *)

\* Register the seeds, then add all known addresses to peer_addrs.
Register(n, seeds) ==
  /\ reg' = [reg EXCEPT ![n] = @ \cup seeds]
  /\ peerAddrs' = [peerAddrs EXCEPT ![n] = @ \cup {AddrOf(s) : s \in Derive(reg[n] \cup seeds)}]

\* seed_sync_request_handler, up to where it gives up the lock of the context.
ReceiveRequest(f) ==
  /\ f \in net /\ f.type = "request"
  /\ net' = net \ {f}
  /\ Register(f.to, f.seeds)
  /\ owed' = owed \cup {<<f.to, f.from>>}
  /\ UNCHANGED <<cycleVars, task, attempt, timely, faults>>

\* Mutant of Respond: loopback addresses are sent.
RespondAll(r, n) ==
  /\ <<r, n>> \in owed
  /\ owed' = owed \ {<<r, n>>}
  /\ net' = net \cup {Response(r, n, Derive(reg[r]))}
  /\ UNCHANGED <<reg, peerAddrs, cycleVars, task, attempt, timely, faults>>

\* The rest of it: what the registry holds by now, without loopback addresses.
Respond(r, n) ==
  /\ <<r, n>> \in owed
  /\ owed' = owed \ {<<r, n>>}
  /\ net' = net \cup {Response(r, n, NoLoopback(Derive(reg[r])))}
  /\ UNCHANGED <<reg, peerAddrs, cycleVars, task, attempt, timely, faults>>

\* seed_sync_response_handler.
ReceiveResponse(f) ==
  /\ f \in net /\ f.type = "response"
  /\ net' = net \ {f}
  /\ Register(f.to, f.seeds)
  /\ UNCHANGED <<cycleVars, task, attempt, owed, timely, faults>>

\* A frame is lost with its connection.
Lose(f) ==
  /\ faults < MaxFaults
  /\ faults' = faults + 1
  /\ f \in net
  /\ net' = net \ {f}
  /\ timely' = [timely EXCEPT ![IF f.type = "request" THEN f.from ELSE f.to] = FALSE]
  /\ UNCHANGED <<reg, peerAddrs, cycleVars, task, attempt, owed>>

-----------------------------------------------------------------------------

CycleStep(n) == StartRound(n) \/ TimeOut(n) \/ Compare(n) \/ Converge(n)
TaskStep(n, p) == SendRequest(n, p) \/ Wake(n, p)

Next ==
  \/ \E n \in Nodes : Begin(n) \/ CycleStep(n)
  \/ \E n, p \in Nodes : TaskStep(n, p) \/ AttemptFails(n, p)
  \/ \E f \in net : ReceiveRequest(f) \/ ReceiveResponse(f) \/ Lose(f)
  \/ \E d \in owed : Respond(d[1], d[2])

Spec == Init /\ [][Next]_vars

\* The runtime polls the cycle and its tasks, and timers fire.  Nothing is
\* assumed of the network.
FairSpec ==
  /\ Spec
  /\ \A n \in Nodes : WF_vars(CycleStep(n))
  /\ \A n, p \in Nodes : WF_vars(TaskStep(n, p))

-----------------------------------------------------------------------------

\* What convergence is worth: if all peers answered in time in the round that
\* found the set stable, every peer lists the addresses that went into the hash at
\* least as often, and the result has all a peer could tell when that round
\* began (loopback and port 0 aside).
ConvergedExchanged ==
  \A n \in Nodes : cycle[n] = "converged" /\ timely[n] =>
    /\ known[n] \subseteq result[n]
    /\ \A p \in Targets[n], addr \in Addrs : prev[n][addr] <= Hash(Derive(reg[p]))[addr]

\* A loopback address is only ever passed on by requests, which are not
\* filtered: a node that runs no cycle keeps its own to itself, whoever asks.
LoopbackContained ==
  \A m \in Nodes : \A s \in reg[m] : AddrOf(s) \in Loopback =>
    s \in Start[m] \/ \E n \in Nodes : s \in Start[n] /\ cycle[n] \notin {"idle", "alone"}

\* Addresses with port 0, which gossip registers, do not spread any further
\* and never become peers to sync with.
PortlessContained ==
  \A m \in Nodes :
    /\ \A s \in reg[m] : AddrOf(s) \in Portless => s \in Start[m]
    /\ peerAddrs[m] \cap Portless = {}

\* How far a cycle is in its current round, and a task in its attempt.
Stage(c) ==
  CASE c = "idle"   -> 0
    [] c = "sync"   -> 1
    [] c = "loop"   -> 2
    [] c = "agreed" -> 3
    [] OTHER        -> 4
TaskStage(t) == CASE t = "try" -> 0 [] t = "sent" -> 1 [] OTHER -> 2

\* Why cycles and the traffic they cause come to an end, whatever is late,
\* lost or tried again: every step uses something up.  A cycle gets to the
\* next of its rounds or on in its round, or else a task gets to the next of
\* its attempts or on in its attempt, or else a request is gone, or else an
\* answer is written and no request, or else a frame is gone and none is new.
UsesUp ==
  \/ \E n \in Nodes :
       /\ \/ round'[n] = round[n] + 1 /\ round'[n] <= MaxRounds
          \/ round'[n] = round[n] /\ Stage(cycle[n]) < Stage(cycle'[n])
       /\ \A m \in Nodes \ {n} :
            round'[m] = round[m] /\ cycle'[m] = cycle[m] /\ task'[m] = task[m] /\ attempt'[m] = attempt[m]
  \/ /\ UNCHANGED <<round, cycle>>
     /\ \E n, p \in Nodes :
          /\ \/ attempt'[n][p] = attempt[n][p] + 1 /\ attempt'[n][p] <= Attempts
             \/ attempt'[n][p] = attempt[n][p] /\ TaskStage(task[n][p]) < TaskStage(task'[n][p])
          /\ \A m, q \in Nodes : <<m, q>> # <<n, p>> =>
               task'[m][q] = task[m][q] /\ attempt'[m][q] = attempt[m][q]
  \/ /\ UNCHANGED <<round, cycle, task, attempt>>
     /\ \/ \E f \in net : f.type = "request" /\ net' = net \ {f}
        \/ /\ \E d \in owed : owed' = owed \ {d}
           /\ \A f \in net' \ net : f.type = "response"
        \/ owed' = owed /\ \E f \in net : net' = net \ {f}
WorkUsedUp == [][UsesUp]_vars

\* Whatever is lost, a cycle ends.
EveryCycleEnds == \A n \in Nodes : cycle[n] = "loop" ~> cycle[n] \in Ended
=============================================================================
