----------------------------- MODULE Messaging -----------------------------
(***************************************************************************)
(* Chat messages and their delivery receipts: handle_send_chat registers a *)
(* request in PendingAcks, stores the message as "sent" and writes it to   *)
(* the receiver; the receiver delivers it and returns a MessageAck; whoever *)
(* gets an ack it does not wait for forwards it to all its peers.          *)
(*                                                                         *)
(* Text, timestamps and ciphertexts are abstracted: a message is the send  *)
(* it belongs to, and a frame that cannot be decrypted is a frame lost.    *)
(***************************************************************************)
EXTENDS Naturals, FiniteSets

CONSTANTS
  Nodes,
  Senders,      \* the nodes whose users send chat messages
  Knows,        \* Knows[n]: nodes n's registry has seeds for
  Keyed,        \* Keyed[n]: nodes n has a session key for
  Links,        \* <<n, p>>: n has an outbound connection to p at the start
  SeenMax,      \* SEEN_MESSAGES_MAX
  MaxSends,     \* bound: chat messages sent by each node
  MaxFaults     \* bound: restarts, broken connections, aborted handlers, failed writes

ASSUME MessagingAssumption ==
  /\ Senders \subseteq Nodes
  /\ Knows \in [Nodes -> SUBSET Nodes]
  /\ Keyed \in [Nodes -> SUBSET Nodes]
  /\ Links \subseteq {l \in Nodes \X Nodes : l[1] # l[2]}
  /\ SeenMax \in Nat \ {0}
  /\ MaxSends \in Nat /\ MaxFaults \in Nat

\* The k-th message node n sends.
Sends == Senders \X (1 .. MaxSends)
Owner(s) == s[1]
Rids == 1 .. MaxSends

\* Keys of the SeenMessages set: a digest per message, "ack:<id>" per receipt.
TextKey(s) == <<"msg", s>>
AckKey(id) == <<"ack", id>>
SeenKeys == {TextKey(s) : s \in Sends} \cup {AckKey(id) : id \in Rids}

\* Frames in flight.
Text(s, p) == [type |-> "text", from |-> Owner(s), to |-> p, send |-> s]
\* Mutant of Ack: a default request id.
AckDefault(id, n, p) == [type |-> "ack", from |-> n, to |-> p, id |-> 0]
Ack(id, n, p) == [type |-> "ack", from |-> n, to |-> p, id |-> id]
Frames ==
  [type : {"text"}, from : Nodes, to : Nodes, send : Sends] \cup
  [type : {"ack"}, from : Nodes, to : Nodes, id : Rids]

VARIABLES
  phase,      \* phase[s]: progress of handle_send_chat and its waiting task
  dest,       \* dest[s]: the receiver the message is sent to
  rid,        \* rid[s]: its request_id
  signal,     \* signal[s]: the oneshot of s holds true
  status,     \* status[s]: status of the stored chat message
  nextId,     \* nextId[n]: NEXT_REQUEST_ID of n's process
  pending,    \* pending[n]: sends registered in n's PendingAcks
  seen,       \* seen[n]: n's SeenMessages
  acking,     \* acks whose handler has passed the dedup and not yet gone on
  swallowed,  \* history: <<n, id>>: n's handler of an ack was aborted there
  receipts,   \* receipts[n]: messages n has delivered and still has to ack
  delivered,  \* messages handed to the receiver's application
  links,      \* live outbound connections
  net,        \* frames in flight
  faults

sendVars == <<phase, dest, rid, signal, status, nextId, pending>>
faultVars == <<links, faults>>
ackVars == <<acking, swallowed>>
vars == <<sendVars, seen, ackVars, receipts, delivered, net, faultVars>>

TypeOK ==
  /\ phase \in [Sends -> {"unused", "begun", "waiting", "expired", "failed",
                          "delivered", "timedout", "panicked", "lost"}]
  /\ dest \in [Sends -> Nodes]
  /\ rid \in [Sends -> Nat]
  /\ signal \in [Sends -> BOOLEAN]
  /\ status \in [Sends -> {"none", "sent", "delivered"}]
  /\ nextId \in [Nodes -> Nat]
  /\ pending \in [Nodes -> SUBSET Sends]
  /\ seen \in [Nodes -> SUBSET SeenKeys]
  /\ acking \subseteq {f \in Frames : f.type = "ack"}
  /\ swallowed \subseteq Nodes \X Rids
  /\ receipts \in [Nodes -> SUBSET Sends]
  /\ delivered \subseteq Sends
  /\ links \subseteq Nodes \X Nodes
  /\ net \subseteq Frames
  /\ faults \in 0 .. MaxFaults

Init ==
  /\ phase = [s \in Sends |-> "unused"]
  /\ dest = [s \in Sends |-> Owner(s)]
  /\ rid = [s \in Sends |-> 0]
  /\ signal = [s \in Sends |-> FALSE]
  /\ status = [s \in Sends |-> "none"]
  /\ nextId = [n \in Nodes |-> 1]
  /\ pending = [n \in Nodes |-> {}]
  /\ seen = [n \in Nodes |-> {}]
  /\ acking = {} /\ swallowed = {}
  /\ receipts = [n \in Nodes |-> {}]
  /\ delivered = {}
  /\ links = Links
  /\ net = {}
  /\ faults = 0

\* Something goes wrong.
Fault == faults < MaxFaults /\ faults' = faults + 1

-----------------------------------------------------------------------------
(* The connection manager, as the handlers use it.                         *)

\* manager.find_entry of a seed: seeds are listeners, so the entry is outbound.
Direct(n, p) == <<n, p>> \in links
\* manager.forward visits the entries of both directions.
Peers(n) == {p \in Nodes : <<n, p>> \in links \/ <<p, n>> \in links}

\* Where a frame for p goes: over the outbound entry of a seed of p; failing
\* that to the entries whose context names p, unless its lock is taken
\* (try_lock); to every peer when p has no seed in the registry.
Targets(n, p, busy) ==
  CASE p \notin Knows[n]                         -> Peers(n)
    [] p \in Knows[n] /\ Direct(n, p)             -> {p}
    [] p \in Knows[n] /\ ~ Direct(n, p) /\ ~ busy -> Peers(n) \cap {p}
    [] OTHER                                     -> {}

-----------------------------------------------------------------------------
(* handle_send_chat.                                                       *)

\* add_message and update_last_sent_status may fail, which is only logged.
StoreFails == Fault /\ UNCHANGED status

\* Take a request id, register in PendingAcks, store the message as "sent".
SendBegin(s, p) ==
  LET n == Owner(s)
  IN /\ phase[s] = "unused" /\ p # n
     /\ \A t \in Sends : Owner(t) = n /\ t[2] < s[2] => phase[t] # "unused"
     /\ phase' = [phase EXCEPT ![s] = "begun"]
     /\ dest' = [dest EXCEPT ![s] = p]
     /\ rid' = [rid EXCEPT ![s] = nextId[n]]
     /\ nextId' = [nextId EXCEPT ![n] = @ + 1]
     /\ pending' = [pending EXCEPT ![n] = @ \cup {s}]
     /\ \/ status' = [status EXCEPT ![s] = "sent"] /\ UNCHANGED faults
        \/ StoreFails
     /\ UNCHANGED <<signal, seen, ackVars, receipts, delivered, net, links>>

\* The preview for the browser is cut at byte 50: when that is in the middle
\* of a character the handler panics, with the request registered.
PreviewPanics(s) ==
  /\ phase[s] = "begun"
  /\ phase' = [phase EXCEPT ![s] = "panicked"]
  /\ UNCHANGED <<dest, rid, signal, status, nextId, pending, seen, ackVars, receipts, delivered, net, faultVars>>

\* Mutant of SendText: without a target the message is queued for later.
SendTextLater(s) ==
  LET p == dest[s]
      targets == IF p \in Keyed[Owner(s)] THEN Targets(Owner(s), p, FALSE) ELSE {}
  IN /\ phase[s] = "begun"
     /\ phase' = [phase EXCEPT ![s] = IF targets = {} THEN "failed" ELSE "waiting"]
     /\ pending' = [pending EXCEPT ![Owner(s)] = IF targets = {} THEN @ \ {s} ELSE @]
     /\ net' = net \cup {Text(s, p)}
     /\ UNCHANGED <<dest, rid, signal, status, nextId, seen, ackVars, receipts, delivered, faultVars>>

\* Write the message, encrypted with the receiver's session key: peers other
\* than the receiver cannot decrypt it, so only the receiver's copy matters.
\* Without a key or a target the request is taken back and an error returned.
SendText(s) ==
  LET n == Owner(s)
      p == dest[s]
  IN /\ phase[s] = "begun"
     /\ \E busy \in BOOLEAN :
          LET targets == IF p \in Keyed[n] THEN Targets(n, p, busy) ELSE {}
          IN \/ /\ targets = {}
                /\ phase' = [phase EXCEPT ![s] = "failed"]
                /\ pending' = [pending EXCEPT ![n] = @ \ {s}]
                /\ UNCHANGED net
             \/ /\ targets # {}
                /\ phase' = [phase EXCEPT ![s] = "waiting"]
                /\ net' = net \cup {Text(s, q) : q \in targets \cap {p}}
                /\ UNCHANGED pending
     /\ UNCHANGED <<dest, rid, signal, status, nextId, seen, ackVars, receipts, delivered, faultVars>>

\* update_last_sent_status: the newest message stored for the same contact.
SentTo(s) == {t \in Sends : Owner(t) = Owner(s) /\ dest[t] = dest[s] /\ status[t] # "none"}
LastSent(s) == {t \in SentTo(s) : \A u \in SentTo(s) : u[2] <= t[2]}
Marked(s) == [t \in Sends |-> IF t \in LastSent(s) THEN "delivered" ELSE status[t]]

\* The waiting task gets the oneshot in time.
Confirmed(s) ==
  /\ phase[s] = "waiting" /\ signal[s]
  /\ phase' = [phase EXCEPT ![s] = "delivered"]
  /\ pending' = [pending EXCEPT ![Owner(s)] = @ \ {s}]
  /\ \/ status' = Marked(s) /\ UNCHANGED faults
     \/ StoreFails
  /\ UNCHANGED <<dest, rid, signal, nextId, seen, ackVars, receipts, delivered, net, links>>

\* 30 s pass: the receiving half of the oneshot is gone ...
Expire(s) ==
  /\ phase[s] = "waiting" /\ ~ signal[s]
  /\ phase' = [phase EXCEPT ![s] = "expired"]
  /\ UNCHANGED <<dest, rid, signal, status, nextId, pending, seen, ackVars, receipts, delivered, net, faultVars>>

\* Mutant of GiveUp: the timeout counts as a delivery.
GiveUpDelivered(s) ==
  /\ phase[s] = "expired"
  /\ phase' = [phase EXCEPT ![s] = "timedout"]
  /\ pending' = [pending EXCEPT ![Owner(s)] = @ \ {s}]
  /\ status' = Marked(s)
  /\ UNCHANGED <<dest, rid, signal, nextId, seen, ackVars, receipts, delivered, net, faultVars>>

\* Mutant of GiveUp: only an acknowledged request leaves PendingAcks.
GiveUpAnswered(s) ==
  /\ phase[s] = "expired" /\ signal[s]
  /\ phase' = [phase EXCEPT ![s] = "timedout"]
  /\ pending' = [pending EXCEPT ![Owner(s)] = @ \ {s}]
  /\ UNCHANGED <<dest, rid, signal, status, nextId, seen, ackVars, receipts, delivered, net, faultVars>>

\* ... and then the request is removed from PendingAcks.
GiveUp(s) ==
  /\ phase[s] = "expired"
  /\ phase' = [phase EXCEPT ![s] = "timedout"]
  /\ pending' = [pending EXCEPT ![Owner(s)] = @ \ {s}]
  /\ UNCHANGED <<dest, rid, signal, status, nextId, seen, ackVars, receipts, delivered, net, faultVars>>

-----------------------------------------------------------------------------
(* message_handler and message_ack_handler.                                *)

\* HashSet insert, followed by a clear when the set has grown too large.
Remember(old, key) ==
  IF Cardinality(old \cup {key}) > SeenMax THEN {} ELSE old \cup {key}

\* A message reaches its receiver: drop duplicates, deliver it to the
\* application and spawn the task that sends the receipt.  A handler aborted
\* with its connection has remembered the message and does neither.
ReceiveText(f) ==
  LET r == f.to
      s == f.send
  IN /\ f \in net /\ f.type = "text" /\ f.from \in Keyed[r]
     /\ net' = net \ {f}
     /\ \/ /\ TextKey(s) \in seen[r]
           /\ UNCHANGED <<seen, receipts, delivered, faults>>
        \/ /\ TextKey(s) \notin seen[r]
           /\ seen' = [seen EXCEPT ![r] = Remember(@, TextKey(s))]
           /\ \/ /\ receipts' = [receipts EXCEPT ![r] = @ \cup {s}]
                 /\ delivered' = delivered \cup {s}
                 /\ UNCHANGED faults
              \/ Fault /\ UNCHANGED <<receipts, delivered>>
     /\ UNCHANGED <<sendVars, ackVars, links>>

\* The receipt, encrypted for each peer it is sent to.
SendReceipt(r, s) ==
  /\ s \in receipts[r]
  /\ receipts' = [receipts EXCEPT ![r] = @ \ {s}]
  /\ \E busy \in BOOLEAN :
       net' = net \cup {Ack(rid[s], r, q) : q \in Targets(r, Owner(s), busy) \cap Keyed[r]}
  /\ UNCHANGED <<sendVars, seen, ackVars, delivered, faultVars>>

\* The request of n an ack id refers to.
Awaiting(n, id) == {s \in pending[n] : rid[s] = id}

\* Mutant of ReceiveAck: no copy is a duplicate.
ReceiveAckFloods(f) ==
  /\ f \in net /\ f.type = "ack" /\ f.from \in Keyed[f.to]
  /\ net' = net \ {f}
  /\ acking' = acking \cup {f}
  /\ UNCHANGED <<sendVars, seen, swallowed, receipts, delivered, faultVars>>

\* An ack: drop duplicates by id ...
ReceiveAck(f) ==
  LET n == f.to
  IN /\ f \in net /\ f.type = "ack" /\ f.from \in Keyed[n]
     /\ net' = net \ {f}
     /\ \/ /\ AckKey(f.id) \in seen[n]
           /\ UNCHANGED <<seen, acking>>
        \/ /\ AckKey(f.id) \notin seen[n]
           /\ seen' = [seen EXCEPT ![n] = Remember(@, AckKey(f.id))]
           /\ acking' = acking \cup {f}
     /\ UNCHANGED <<sendVars, swallowed, receipts, delivered, faultVars>>

\* Mutant of FinishAck: the request is looked up but not removed.
FinishAckKeeps(f) ==
  LET n == f.to
      mine == Awaiting(n, f.id)
  IN /\ f \in acking
     /\ acking' = acking \ {f}
     /\ signal' = [s \in Sends |-> signal[s] \/ (s \in mine /\ phase[s] \in {"begun", "waiting"})]
     /\ net' = net \cup {Ack(f.id, n, q) : q \in IF mine = {} THEN Peers(n) \cap Keyed[n] ELSE {}}
     /\ UNCHANGED <<phase, dest, rid, status, nextId, pending, seen, swallowed, receipts, delivered, faultVars>>

\* ... then, with PendingAcks locked, complete the request waiting for the
\* id, or else forward the ack to all peers.
FinishAck(f) ==
  LET n == f.to
      mine == Awaiting(n, f.id)
  IN /\ f \in acking
     /\ acking' = acking \ {f}
     /\ pending' = [pending EXCEPT ![n] = @ \ mine]
     /\ signal' = [s \in Sends |-> signal[s] \/ (s \in mine /\ phase[s] \in {"begun", "waiting"})]
     /\ net' = net \cup {Ack(f.id, n, q) : q \in IF mine = {} THEN Peers(n) \cap Keyed[n] ELSE {}}
     /\ UNCHANGED <<phase, dest, rid, status, nextId, seen, swallowed, receipts, delivered, faultVars>>

-----------------------------------------------------------------------------
(* Failures.                                                               *)

\* A frame is lost with its connection, or cannot be decrypted or decoded.
Lose(f) ==
  /\ f \in net
  /\ net' = net \ {f}
  /\ UNCHANGED <<sendVars, seen, ackVars, receipts, delivered, faultVars>>

\* A connection breaks: the handlers running on it may be aborted, and with
\* them acks that are remembered as seen.
Break(l) ==
  /\ Fault
  /\ l \in links
  /\ links' = links \ {l}
  /\ \E hit \in SUBSET {f \in acking : {f.from, f.to} = {l[1], l[2]}} :
       /\ acking' = acking \ hit
       /\ swallowed' = swallowed \cup {<<f.to, f.id>> : f \in hit}
  /\ UNCHANGED <<sendVars, seen, receipts, delivered, net>>

\* A restart loses everything but the stored messages; the ids start again.
Restart(n) ==
  /\ Fault
  /\ phase' = [s \in Sends |-> IF Owner(s) = n /\ phase[s] \in {"begun", "waiting", "expired"}
                               THEN "lost" ELSE phase[s]]
  /\ nextId' = [nextId EXCEPT ![n] = 1]
  /\ pending' = [pending EXCEPT ![n] = {}]
  /\ seen' = [seen EXCEPT ![n] = {}]
  /\ acking' = {f \in acking : f.to # n}
  /\ receipts' = [receipts EXCEPT ![n] = {}]
  /\ UNCHANGED <<dest, rid, signal, status, swallowed, delivered, links, net>>

-----------------------------------------------------------------------------

SendStep(s) == PreviewPanics(s) \/ SendText(s) \/ Confirmed(s) \/ Expire(s) \/ GiveUp(s)
Deliver(f) == ReceiveText(f) \/ ReceiveAck(f) \/ Lose(f)

Next ==
  \/ \E s \in Sends, p \in Nodes : SendBegin(s, p)
  \/ \E s \in Sends : SendStep(s)
  \/ \E n \in Nodes : \E s \in receipts[n] : SendReceipt(n, s)
  \/ \E f \in net : Deliver(f)
  \/ \E f \in acking : FinishAck(f)
  \/ \E l \in links : Break(l)
  \/ \E n \in Nodes : Restart(n)

Spec == Init /\ [][Next]_vars

\* Timers fire, tasks and handlers run on, and frames in flight arrive or are
\* lost: some one of each kind, which the scheduler and the sockets grant.
FairSpec ==
  /\ Spec
  /\ \A s \in Sends : WF_vars(SendStep(s))
  /\ WF_vars(\E n \in Nodes : \E s \in receipts[n] : SendReceipt(n, s))
  /\ WF_vars(\E f \in net : Deliver(f))
  /\ WF_vars(\E f \in acking : FinishAck(f))

-----------------------------------------------------------------------------
(* Safety.                                                                 *)

\* Another send was given the same request id: ids start at 1 in every
\* process, so two nodes, or one node before and after a restart, share them.
Reused(s) == \E t \in Sends : t # s /\ rid[t] = rid[s]

\* Whatever is lost, forwarded, late or repeated: a request is only reported
\* as delivered ("true" in its oneshot) without having been if its id was used twice.
AckTruthfulUnlessReused == \A s \in Sends : signal[s] => s \in delivered \/ Reused(s)

\* The dedup of acks swallows no ack of a request that still waits: when a
\* pending id is already remembered as seen, so that every further copy of its
\* ack is dropped, then the handler that remembered it is still on its way to
\* the request, or was aborted on that way, or the id was used twice.
PendingNotMasked ==
  \A n \in Nodes : \A s \in pending[n] : AckKey(rid[s]) \in seen[n] =>
    \/ \E f \in acking : f.to = n /\ f.id = rid[s]
    \/ <<n, rid[s]>> \in swallowed
    \/ Reused(s)

\* The stored status "delivered" is wrong only where ids are reused or where
\* another message went to the same contact, because the newest is updated.
StatusTruthfulUnlessShared ==
  \A s \in Sends : status[s] = "delivered" =>
    \/ s \in delivered
    \/ \E t \in Sends : /\ Owner(t) = Owner(s) /\ dest[t] = dest[s]
                        /\ phase[t] = "delivered" /\ (t # s \/ Reused(t))

(* What the sender is promised.                                            *)

\* The answer of handle_send_chat and what its waiting task adds to it; a
\* panic before the message is written ends the request like an error.
Told(ph) ==
  CASE ph = "unused"                   -> "nothing"
    [] ph = "begun"                    -> "begun"
    [] ph \in {"waiting", "expired"}   -> "sent"
    [] ph \in {"failed", "panicked"}   -> "refused"
    [] ph = "delivered"                -> "confirmed"
    [] ph \in {"timedout", "lost"}     -> "unsure"

\* The handlers of all nodes together implement Delivery: a message refused
\* with an error never arrives, one that arrives was sent, one confirmed has
\* arrived or shares its id with another, and no late ack, timeout or restart
\* takes back what the sender was told.
Promise == INSTANCE Delivery WITH
  told <- [s \in Sends |-> Told(phase[s])],
  id <- rid,
  Ids <- Rids,
  arrived <- delivered
RefinesDelivery == Promise!Spec

(* Action properties.                                                      *)

\* A request completes once: after it failed, timed out or was reported, no
\* late or forwarded ack changes the outcome, and it is never pending again.
OutcomeFinal ==
  [][\A s \in Sends : phase[s] \in {"failed", "delivered", "timedout", "lost"} =>
       phase'[s] = phase[s] /\ signal'[s] = signal[s] /\ s \notin pending'[Owner(s)]]_vars

\* How far handle_send_chat and its waiting task have come.
Stage(ph) ==
  CASE ph = "unused"  -> 0
    [] ph = "begun"   -> 1
    [] ph = "waiting" -> 2
    [] ph = "expired" -> 3
    [] OTHER          -> 4

\* Why forwarding acks to all peers cannot go on for ever: a step is a fault,
\* or SeenMessages of a node overflows and is cleared, or something is used
\* up: a send gets ahead, or else a node remembers one more message or ack,
\* or else a receipt is sent, or else the handler of an ack goes on, or else a
\* frame is gone and none is new.
UsesUp ==
  \/ faults' > faults
  \/ \E n \in Nodes : seen[n] # {} /\ seen'[n] = {}
  \/ /\ seen' = seen /\ faults' = faults
     /\ \E s \in Sends : /\ Stage(phase[s]) < Stage(phase'[s])
                          /\ \A t \in Sends \ {s} : phase'[t] = phase[t]
  \/ /\ phase' = phase /\ faults' = faults
     /\ \/ \E n \in Nodes : \E key \in SeenKeys \ seen[n] :
             seen' = [seen EXCEPT ![n] = @ \cup {key}]
        \/ /\ seen' = seen
           /\ \E n \in Nodes : \E s \in receipts[n] :
                receipts' = [receipts EXCEPT ![n] = @ \ {s}]
        \/ /\ seen' = seen /\ receipts' = receipts
           /\ \E f \in acking : acking' = acking \ {f}
        \/ /\ seen' = seen /\ receipts' = receipts /\ acking' = acking
           /\ \E f \in net : net' = net \ {f}
WorkUsedUp == [][UsesUp]_vars

(* Liveness.                                                               *)

\* Every request ends, with its entry gone from PendingAcks unless its
\* handler panicked on the preview.
EverySendEnds ==
  \A s \in Sends : phase[s] = "begun" ~>
    \/ phase[s] \in {"failed", "delivered", "timedout", "lost"} /\ s \notin pending[Owner(s)]
    \/ phase[s] = "panicked"

\* Forwarding acks to all peers is no endless flood.
FloodEnds == <>[](net = {} /\ acking = {})
=============================================================================
