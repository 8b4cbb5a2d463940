----------------------------- MODULE Handshake -----------------------------
(***************************************************************************)
(* The connection handshake between nodes: dialling, OnLine, the session   *)
(* key exchange, OnLineAck, the return connection the responder opens, the *)
(* is_connected flags of the registry and the monitor that clears them.    *)
(*                                                                         *)
(* Every TCP connection c has an initiator From(c) and a responder To(c).  *)
(* Its two ends run their handlers concurrently, and so do the handlers of *)
(* different connections; a handler is cut where it awaits a lock or the   *)
(* network.  Seed lists carried by OnLine and OnLineAck do not influence   *)
(* the handshake except by proposing peers to dial, which is what the      *)
(* "gossip" dial stands for.                                               *)
(***************************************************************************)
EXTENDS Naturals, FiniteSets

CONSTANTS
  Nodes,        \* the peers, identified by their FreeWebMovement address
  AddrRank,     \* the order of the address strings
  SockRank,     \* the order of the listening SocketAddrs
  MaxAttempts,  \* bound: dials per ordered pair of nodes
  MaxStarts,    \* bound: dials that are not return connections
  MaxFailures   \* bound: dropped connections, failed dials, failed key
                \* exchanges and restarts

ASSUME BoundsAssumption ==
  /\ MaxAttempts \in Nat
  /\ MaxStarts \in Nat
  /\ MaxFailures \in Nat

ASSUME RanksAssumption ==
  /\ AddrRank \in [Nodes -> Nat]
  /\ SockRank \in [Nodes -> Nat]

\* A connection: who dials, whom, and which of the pair's dials it is.
Conns == {c \in Nodes \X Nodes \X (1 .. MaxAttempts) : c[1] # c[2]}
From(c) == c[1]
To(c) == c[2]

\* Session id of the key exchange on c: psk.create is called once per dial.
\* A secret is the ephemeral X25519 secret a node makes for one session, a
\* session key the pair of secrets that went into the Diffie-Hellman.
Secrets == Nodes \X Conns
NoKey == {}      \* no entry in the main table of PairedSessionKey
ZeroKey == {}    \* the all-zero public key an ack carries instead of a key
\* Mutant of Key: derived from the identities instead of the secrets.
KeyOfIdentities(c) == {From(c), To(c)}
Key(c) == {<<From(c), c>>, <<To(c), c>>}

StartKinds == {"node", "cli", "gossip"}

VARIABLES
  kind,       \* which code dialled c ("unused" before)
  link,       \* the TCP connection: "unused", "dialing", "up" or "down"
  online,     \* progress of To(c)'s online_handler
  offer,      \* ephemeral_public_key of the OnLineAck on c
  ack,        \* progress of the OnLineAck and of From(c)'s onlineack_handler
  marking,    \* the dial task of c still has to call mark_connected
  monitor,    \* disconnect monitor of To(c): "off", "on", "fired"
  temp,       \* temp[n]: sessions whose secret is in n's temp table
  main,       \* main[n][p]: n's session key for p
  connected,  \* connected[n]: the peers n's registry flags is_connected
  endsKeep,   \* does establish_ends keep a key that already exists?
  crossed,    \* history: pairs that ran a second exchange within the first
  restarted,  \* history: nodes that were restarted
  undone,     \* history: connections whose key exchange failed at one end
  failures    \* history: failures so far

linkVars == <<kind, link, marking>>
handlerVars == <<online, offer, ack, monitor>>
keyVars == <<temp, main, endsKeep>>
history == <<crossed, restarted, undone>>
vars == <<linkVars, handlerVars, keyVars, connected, history, failures>>

TypeOK ==
  /\ kind \in [Conns -> StartKinds \cup {"unused", "return"}]
  /\ link \in [Conns -> {"unused", "dialing", "up", "down"}]
  /\ online \in [Conns -> {"idle", "accepted", "keyed", "acked", "done", "dead"}]
  /\ offer \in [Conns -> SUBSET Secrets]
  /\ ack \in [Conns -> {"none", "flight", "ended", "done", "dead"}]
  /\ marking \in [Conns -> BOOLEAN]
  /\ monitor \in [Conns -> {"off", "on", "fired"}]
  /\ temp \in [Nodes -> SUBSET Conns]
  /\ main \in [Nodes -> [Nodes -> SUBSET Secrets]]
  /\ connected \in [Nodes -> SUBSET Nodes]
  /\ endsKeep \in BOOLEAN
  /\ crossed \subseteq Conns
  /\ restarted \subseteq Nodes
  /\ undone \subseteq Conns
  /\ failures \in Nat

Init ==
  /\ kind = [c \in Conns |-> "unused"]
  /\ link = [c \in Conns |-> "unused"]
  /\ online = [c \in Conns |-> "idle"]
  /\ offer = [c \in Conns |-> ZeroKey]
  /\ ack = [c \in Conns |-> "none"]
  /\ marking = [c \in Conns |-> FALSE]
  /\ monitor = [c \in Conns |-> "off"]
  /\ temp = [n \in Nodes |-> {}]
  /\ main = [n \in Nodes |-> [p \in Nodes |-> NoKey]]
  /\ connected = [n \in Nodes |-> {}]
  /\ endsKeep \in BOOLEAN
  /\ crossed = {} /\ restarted = {} /\ undone = {}
  /\ failures = 0

-----------------------------------------------------------------------------
(* Dialling.                                                               *)

\* The dials of one ordered pair are used up in order.
NextDial(c) ==
  /\ kind[c] = "unused"
  /\ \A d \in Conns : From(d) = From(c) /\ To(d) = To(c) /\ d[3] < c[3] => kind[d] # "unused"

\* An outbound connection i -> r is listed in i's manager (bi_conn.servers).
HasOutbound(i, r) == \E c \in Conns : From(c) = i /\ To(c) = r /\ link[c] = "up"

\* Node::connect dials only endpoints above its own SocketAddr; the seeds of a
\* gossip or an ack are dialled unless the node is flagged connected or has
\* the smaller address string; the cli dials whatever it is told to.
MayStart(k, i, r) ==
  CASE k = "node" -> SockRank[i] < SockRank[r]
    [] k = "gossip" -> r \notin connected[i] /\ AddrRank[i] <= AddrRank[r]
    [] OTHER -> TRUE

\* connect_to_new_peer creates its session before it dials, the callbacks of
\* Node::connect and of the cli only once they are connected.
Start(c, k) ==
  /\ Cardinality({d \in Conns : kind[d] \in StartKinds}) < MaxStarts
  /\ NextDial(c)
  /\ MayStart(k, From(c), To(c))
  /\ kind' = [kind EXCEPT ![c] = k]
  /\ link' = [link EXCEPT ![c] = "dialing"]
  /\ temp' = IF k = "gossip" THEN [temp EXCEPT ![From(c)] = @ \cup {c}] ELSE temp
  /\ UNCHANGED <<marking, handlerVars, main, endsKeep, connected, history, failures>>

\* manager.connect succeeds: the entry is in servers here and in clients at
\* the peer, the callback sends OnLine and runs the router loop.
Dialed(c) ==
  /\ link[c] = "dialing"
  /\ ~ HasOutbound(From(c), To(c))
  /\ link' = [link EXCEPT ![c] = "up"]
  /\ temp' = [temp EXCEPT ![From(c)] = @ \cup {c}]
  /\ marking' = [marking EXCEPT ![c] = (kind[c] = "gossip")]
  /\ UNCHANGED <<kind, handlerVars, main, endsKeep, connected, history, failures>>

\* manager.connect reports that an entry for the address exists already.
DialRefused(c) ==
  /\ link[c] = "dialing"
  /\ HasOutbound(From(c), To(c))
  /\ link' = [link EXCEPT ![c] = "down"]
  /\ UNCHANGED <<kind, marking, handlerVars, keyVars, connected, history, failures>>

\* The dial times out or the peer does not listen.
DialFailed(c) ==
  /\ failures < MaxFailures
  /\ link[c] = "dialing"
  /\ link' = [link EXCEPT ![c] = "down"]
  /\ failures' = failures + 1
  /\ UNCHANGED <<kind, marking, handlerVars, keyVars, connected, history>>

\* The task that dialled a gossiped seed flags the node once connect is Ok.
MarkConnected(c) ==
  /\ marking[c]
  /\ marking' = [marking EXCEPT ![c] = FALSE]
  /\ connected' = [connected EXCEPT ![From(c)] = @ \cup {To(c)}]
  /\ UNCHANGED <<kind, link, handlerVars, keyVars, history, failures>>

-----------------------------------------------------------------------------
(* online_handler of the responder, on a frame with a session id.          *)

\* try_connect; the handler goes on whether or not the peer was connected.
OnlineAccept(c) ==
  /\ link[c] = "up" /\ online[c] = "idle"
  /\ connected' = [connected EXCEPT ![To(c)] = @ \cup {From(c)}]
  /\ online' = [online EXCEPT ![c] = "accepted"]
  /\ UNCHANGED <<linkVars, offer, ack, monitor, keyVars, history, failures>>

\* The responder still waits for the answer to an OnLine of its own.
Unanswered(r, i) ==
  \E d \in Conns : /\ From(d) = r /\ To(d) = i
                   /\ link[d] \in {"dialing", "up"}
                   /\ ack[d] \in {"none", "flight"}

\* Mutant of OnlineKeys: an existing key is replaced.
OnlineKeysAlways(c) ==
  /\ online[c] = "accepted"
  /\ main' = [main EXCEPT ![To(c)][From(c)] = Key(c)]
  /\ offer' = [offer EXCEPT ![c] = {<<To(c), c>>}]
  /\ crossed' = IF Unanswered(To(c), From(c)) THEN crossed \cup {c} ELSE crossed
  /\ online' = [online EXCEPT ![c] = "keyed"]
  /\ UNCHANGED <<linkVars, ack, monitor, temp, endsKeep, connected, restarted, undone, failures>>

\* Mutant of OnlineKeys: the flag, which is already set, stands for the key.
OnlineKeysFlagged(c) ==
  LET fresh == From(c) \notin connected[To(c)]
  IN /\ online[c] = "accepted"
     /\ main' = IF fresh THEN [main EXCEPT ![To(c)][From(c)] = Key(c)] ELSE main
     /\ offer' = [offer EXCEPT ![c] = IF fresh THEN {<<To(c), c>>} ELSE ZeroKey]
     /\ online' = [online EXCEPT ![c] = "keyed"]
     /\ UNCHANGED <<linkVars, ack, monitor, temp, endsKeep, connected, history, failures>>

\* establish_begins: a fresh secret and a key for the peer, unless there is a
\* key already, in which case the ack will carry the zero key.
OnlineKeys(c) ==
  LET r == To(c)
      i == From(c)
      fresh == main[r][i] = NoKey
  IN /\ online[c] = "accepted"
     /\ main' = IF fresh THEN [main EXCEPT ![r][i] = Key(c)] ELSE main
     /\ offer' = [offer EXCEPT ![c] = IF fresh THEN {<<r, c>>} ELSE ZeroKey]
     /\ crossed' = IF fresh /\ Unanswered(r, i) THEN crossed \cup {c} ELSE crossed
     /\ online' = [online EXCEPT ![c] = "keyed"]
     /\ UNCHANGED <<linkVars, ack, monitor, temp, endsKeep, connected, restarted, undone, failures>>

\* establish_begins fails: it reports an error, which ends the handler before it
\* answers or starts its monitor, or says that nothing is to be done though
\* there is no key ("or DH failed"), and the ack will carry the zero key.
OnlineKeysFails(c) ==
  /\ failures < MaxFailures
  /\ online[c] = "accepted"
  /\ \/ /\ online' = [online EXCEPT ![c] = "dead"]
        /\ UNCHANGED undone
     \/ /\ main[To(c)][From(c)] = NoKey
        /\ online' = [online EXCEPT ![c] = "keyed"]
        /\ undone' = undone \cup {c}
  /\ failures' = failures + 1
  /\ UNCHANGED <<linkVars, offer, ack, monitor, keyVars, connected, crossed, restarted>>

\* P2PFrame::send of the ack: a write error is logged and the handler goes on.
OnlineSendAck(c) ==
  /\ online[c] = "keyed"
  /\ online' = [online EXCEPT ![c] = "acked"]
  /\ ack' = IF link[c] = "up" THEN [ack EXCEPT ![c] = "flight"] ELSE ack
  /\ UNCHANGED <<linkVars, offer, monitor, keyVars, connected, history, failures>>

\* Mutant of OnlineReturn: a connection in either direction is enough.
OnlineReturnEither(c) ==
  /\ online[c] = "acked"
  /\ HasOutbound(To(c), From(c)) \/ HasOutbound(From(c), To(c))
  /\ online' = [online EXCEPT ![c] = "done"]
  /\ monitor' = [monitor EXCEPT ![c] = "on"]
  /\ UNCHANGED <<linkVars, offer, ack, keyVars, connected, history, failures>>

\* The rest of the handler: the return connection, which is spawned unless an
\* outbound connection to the peer's listener exists, and the monitor.
OnlineReturn(c) ==
  LET r == To(c)
      i == From(c)
  IN /\ online[c] = "acked"
     /\ \/ /\ HasOutbound(r, i)
           /\ UNCHANGED <<kind, link, temp>>
        \/ /\ ~ HasOutbound(r, i)
           /\ \E d \in Conns :
                /\ From(d) = r /\ To(d) = i /\ NextDial(d)
                /\ kind' = [kind EXCEPT ![d] = "return"]
                /\ link' = [link EXCEPT ![d] = "dialing"]
                /\ temp' = [temp EXCEPT ![r] = @ \cup {d}]
     /\ online' = [online EXCEPT ![c] = "done"]
     /\ monitor' = [monitor EXCEPT ![c] = "on"]
     /\ UNCHANGED <<marking, offer, ack, main, endsKeep, connected, history, failures>>

\* Mutant of Monitor: the session key is forgotten with the flag.
MonitorForgets(c) ==
  /\ monitor[c] = "on"
  /\ link[c] # "up"
  /\ connected' = [connected EXCEPT ![To(c)] = @ \ {From(c)}]
  /\ main' = [main EXCEPT ![To(c)][From(c)] = NoKey]
  /\ monitor' = [monitor EXCEPT ![c] = "fired"]
  /\ UNCHANGED <<linkVars, online, offer, ack, temp, endsKeep, history, failures>>

\* Mutant of Monitor: an outbound connection that was there once is trusted to
\* be there still.
MonitorSpares(c) ==
  /\ monitor[c] = "on"
  /\ link[c] # "up"
  /\ connected' = IF \E d \in Conns : From(d) = To(c) /\ To(d) = From(c) /\ link[d] # "unused"
                  THEN connected
                  ELSE [connected EXCEPT ![To(c)] = @ \ {From(c)}]
  /\ monitor' = [monitor EXCEPT ![c] = "fired"]
  /\ UNCHANGED <<linkVars, online, offer, ack, keyVars, history, failures>>

\* The monitor, every 30 s: once the connection is gone from the manager it
\* clears the flag of the peer and stops.
Monitor(c) ==
  /\ monitor[c] = "on"
  /\ link[c] # "up"
  /\ connected' = [connected EXCEPT ![To(c)] = @ \ {From(c)}]
  /\ monitor' = [monitor EXCEPT ![c] = "fired"]
  /\ UNCHANGED <<linkVars, online, offer, ack, keyVars, history, failures>>

-----------------------------------------------------------------------------
(* onlineack_handler of the initiator.                                     *)

\* Mutant of AckEnds: any session started with the peer is completed.
AckEndsAnySession(c) ==
  LET i == From(c)
      r == To(c)
  IN /\ link[c] = "up" /\ ack[c] = "flight" /\ kind[c] # "cli"
     /\ offer[c] # ZeroKey
     /\ \E d \in temp[i] :
          /\ To(d) = r
          /\ main' = [main EXCEPT ![i][r] = {<<i, d>>} \cup offer[c]]
          /\ temp' = [temp EXCEPT ![i] = @ \ {d}]
     /\ ack' = [ack EXCEPT ![c] = "ended"]
     /\ UNCHANGED <<linkVars, online, offer, monitor, endsKeep, connected, history, failures>>

\* establish_ends with the session id the ack echoes, unless the ack carries
\* the zero key.  A missing session is logged and the handler goes on.
\* The cli's dial runs no router loop: its ack is never read.
AckEnds(c) ==
  LET i == From(c)
      r == To(c)
      ends == offer[c] # ZeroKey /\ c \in temp[i]
  IN /\ link[c] = "up" /\ ack[c] = "flight" /\ kind[c] # "cli"
     /\ main' = IF ends /\ ~ (endsKeep /\ main[i][r] # NoKey)
                THEN [main EXCEPT ![i][r] = {<<i, c>>} \cup offer[c]]
                ELSE main
     /\ temp' = IF ends THEN [temp EXCEPT ![i] = @ \ {c}] ELSE temp
     /\ ack' = [ack EXCEPT ![c] = "ended"]
     /\ UNCHANGED <<linkVars, online, offer, monitor, endsKeep, connected, history, failures>>

\* establish_ends reports an error or that it made no key: logged, and the
\* handler goes on.  The session is over, whether or not temp still has it.
AckEndsFails(c) ==
  /\ failures < MaxFailures
  /\ link[c] = "up" /\ ack[c] = "flight" /\ kind[c] # "cli"
  /\ offer[c] # ZeroKey
  /\ ack' = [ack EXCEPT ![c] = "ended"]
  /\ undone' = undone \cup {c}
  /\ failures' = failures + 1
  /\ UNCHANGED <<linkVars, online, offer, monitor, keyVars, connected, crossed, restarted>>

\* try_connect, whose result is ignored.
AckRegister(c) ==
  /\ ack[c] = "ended"
  /\ connected' = [connected EXCEPT ![From(c)] = @ \cup {To(c)}]
  /\ ack' = [ack EXCEPT ![c] = "done"]
  /\ UNCHANGED <<linkVars, online, offer, monitor, keyVars, history, failures>>

-----------------------------------------------------------------------------
(* Failures.                                                               *)

\* A task that is aborted when its manager entry goes away stops where it is.
Aborted(progress, running, hit) == IF hit /\ progress \in running THEN "dead" ELSE progress

\* The connection breaks.  Unread frames are lost; the router task of either
\* end may be aborted in the middle of its handler or finish it.
Drop(c) ==
  /\ failures < MaxFailures
  /\ link[c] = "up"
  /\ link' = [link EXCEPT ![c] = "down"]
  /\ \E hitTo, hitFrom \in BOOLEAN :
       /\ online' = [online EXCEPT ![c] = Aborted(@, {"accepted", "keyed", "acked"}, hitTo)]
       /\ ack' = [ack EXCEPT ![c] = Aborted(@, {"ended"}, hitFrom)]
  /\ failures' = failures + 1
  /\ UNCHANGED <<kind, marking, offer, monitor, keyVars, connected, history>>

\* offline_handler: the responder removes the inbound entry of the connection
\* and nothing else; neither flag nor keys are touched.
Offline(c) ==
  /\ failures < MaxFailures
  /\ link[c] = "up" /\ online[c] = "done"
  /\ link' = [link EXCEPT ![c] = "down"]
  /\ failures' = failures + 1
  /\ UNCHANGED <<kind, marking, handlerVars, keyVars, connected, history>>

\* A node stops and starts again: registry, session keys and tasks were only
\* in memory, its connections break.
Restart(n) ==
  LET mine == {c \in Conns : n \in {From(c), To(c)}}
  IN /\ failures < MaxFailures
     /\ failures' = failures + 1
     /\ link' = [c \in Conns |-> IF c \in mine /\ link[c] \in {"dialing", "up"} THEN "down" ELSE link[c]]
     /\ marking' = [c \in Conns |-> marking[c] /\ From(c) # n]
     /\ online' = [c \in Conns |-> Aborted(online[c], {"accepted", "keyed", "acked"}, To(c) = n)]
     /\ ack' = [c \in Conns |-> Aborted(ack[c], {"ended"}, From(c) = n)]
     /\ monitor' = [c \in Conns |-> IF To(c) = n THEN "off" ELSE monitor[c]]
     /\ temp' = [temp EXCEPT ![n] = {}]
     /\ main' = [main EXCEPT ![n] = [p \in Nodes |-> NoKey]]
     /\ connected' = [connected EXCEPT ![n] = {}]
     /\ restarted' = restarted \cup {n}
     /\ UNCHANGED <<kind, offer, endsKeep, crossed, undone>>

-----------------------------------------------------------------------------

Step(c) ==
  \/ Dialed(c) \/ DialRefused(c) \/ MarkConnected(c)
  \/ OnlineAccept(c) \/ OnlineKeys(c) \/ OnlineSendAck(c) \/ OnlineReturn(c)
  \/ AckEnds(c) \/ AckRegister(c) \/ Monitor(c)

CipherFails(c) == OnlineKeysFails(c) \/ AckEndsFails(c)

Fault(c) == DialFailed(c) \/ Drop(c) \/ Offline(c) \/ CipherFails(c)

Next ==
  \/ \E c \in Conns : Step(c) \/ Fault(c) \/ \E k \in StartKinds : Start(c, k)
  \/ \E n \in Nodes : Restart(n)

Spec == Init /\ [][Next]_vars

\* The runtime keeps polling ready tasks, timers fire and an open connection
\* delivers what was written to it.
FairSpec == Spec /\ \A c \in Conns : WF_vars(Step(c))

-----------------------------------------------------------------------------
(* Safety.                                                                 *)

\* No session key mixes sessions or peers: whatever handlers overlapped, the
\* key a node keeps for a peer was agreed on one connection between exactly
\* these two, out of one secret of each (establish_begins and establish_ends
\* index the tables by the frame's address and the echoed session id).
KeyOwnership ==
  \A n, p \in Nodes :
    main[n][p] # NoKey => \E c \in Conns : {From(c), To(c)} = {n, p} /\ main[n][p] = Key(c)

Keyed(n, p) == main[n][p] # NoKey /\ main[p][n] # NoKey

Between(n, p) == {c \in Conns : {From(c), To(c)} = {n, p}}

\* The connection broke with the responder's key on it: the initiator will
\* not get it.
Cut(c) == offer[c] # ZeroKey /\ link[c] = "down" /\ ack[c] \in {"none", "flight"}

\* Neither end was restarted and no exchange of the pair was cut or failed.
\* Dials that failed, connections that broke before or after an exchange,
\* handlers that ended early and whatever happened to other pairs do not count.
Intact(n, p) ==
  {n, p} \cap restarted = {} /\ \A c \in Between(n, p) : ~ Cut(c) /\ c \notin undone

\* What the tiebreaker and the return connection rely on: unless the pair was
\* disturbed, or one of the two answered an OnLine while its own OnLine to
\* the other was unanswered, both ends hold the same session key.  An OnLine
\* of the cli is never answered, as nobody reads its ack.
AgreeUnlessCrossed ==
  \A n, p \in Nodes :
    Intact(n, p) /\ Between(n, p) \cap crossed = {} /\ Keyed(n, p) => main[n][p] = main[p][n]

\* The zero key of an ack is a sentinel for "you have a key with me already":
\* an initiator that got it, and so skipped establish_ends, has one, unless
\* an exchange of the pair was cut or failed or the key was lost by a restart.
ZeroKeySafe ==
  \A c \in Conns :
    Intact(From(c), To(c)) /\ ack[c] = "done" /\ offer[c] = ZeroKey => main[From(c)][To(c)] # NoKey

\* Nothing of the pair is left to do: no dial, no OnLine to read, no handler,
\* and no ack but those on dials of the cli, which nobody reads.
Resting(n, p) ==
  \A c \in Between(n, p) :
    /\ link[c] # "dialing"
    /\ online[c] \in {"idle", "done", "dead"} /\ ack[c] # "ended"
    /\ link[c] = "up" => online[c] # "idle" /\ (ack[c] = "flight" => kind[c] = "cli")

\* What handshakes leave behind when nothing fails: a pair that has nothing
\* left to do and a connection has one in each direction, and both ends have a
\* session key.  A refused dial, an ack nobody reads and a key that existed
\* before leave no pair one-sided.
SymmetricAtRest ==
  failures = 0 => \A c \in Conns :
    link[c] = "up" /\ Resting(From(c), To(c)) =>
      HasOutbound(To(c), From(c)) /\ Keyed(From(c), To(c))

\* The intent of the tiebreaker comments: the two ends of a pair do not end up
\* with different session keys.  Stated for when no handler or frame of the
\* pair is left, so that no exchange is half way.
Quiet(n, p) ==
  \A c \in Conns : {From(c), To(c)} = {n, p} =>
    /\ link[c] # "dialing"
    /\ link[c] = "up" => online[c] = "done" /\ ack[c] = "done"
    /\ online[c] \in {"idle", "done", "dead"} /\ ack[c] # "ended"
KeysAgree ==
  \A n, p \in Nodes : Keyed(n, p) /\ Quiet(n, p) => main[n][p] = main[p][n]

\* The pair has parted: no connection, dial, handler or monitor is left.
Parted(n, p) ==
  \A c \in Between(n, p) :
    /\ link[c] \in {"unused", "down"} /\ ~ marking[c]
    /\ online[c] \in {"idle", "done", "dead"} /\ ack[c] # "ended" /\ monitor[c] # "on"

\* What the monitor of online_handler says it does: with the connections the
\* registry's flags go; here where no handler was aborted.
FlagsCleared ==
  \A n, p \in Nodes :
    Parted(n, p) /\ (\A c \in Between(n, p) : online[c] # "dead") => p \notin connected[n]

\* What it does: a node that flags a peer it has parted from dialled the peer
\* itself (nothing watches the flags onlineack_handler and the gossip dials
\* set), or its online_handler ended before it started the monitor.  Whoever
\* only answered, however often and in whatever order connections came and
\* went, has forgotten the peer.
OnlyDialersStale ==
  \A n, p \in Nodes :
    Parted(n, p) /\ p \in connected[n] =>
      \E c \in Between(n, p) :
        \/ From(c) = n /\ (ack[c] = "done" \/ kind[c] = "gossip")
        \/ To(c) = n /\ online[c] = "dead"

(* Action properties.                                                      *)

\* A pair that agrees on a key, with no unhandled key on its way, is settled:
\* reconnecting, return connections and broken connections run further
\* handshakes over it, but only a restart of one end can separate the pair.
Settled(n, p) ==
  /\ Keyed(n, p)
  /\ main[n][p] = main[p][n]
  /\ \A c \in Conns :
       {From(c), To(c)} = {n, p} /\ link[c] = "up" /\ offer[c] # ZeroKey =>
         online[c] # "keyed" /\ ack[c] # "flight"
SettledPairsStay ==
  [][\A n, p \in Nodes : Settled(n, p) => Settled(n, p)' \/ Restart(n) \/ Restart(p)]_vars

(* Liveness.                                                               *)

\* Every inbound connection is balanced by an outbound one to the same peer
\* (the mesh is symmetric), provided nothing fails.
MeshSymmetric ==
  \A c \in Conns : link[c] = "up" ~> HasOutbound(To(c), From(c))

\* Provided nothing fails, a connection leaves both its ends with a session
\* key for the other, whichever exchange delivered it.
BothKeyed ==
  \A c \in Conns : link[c] = "up" ~> Keyed(From(c), To(c))
=============================================================================
