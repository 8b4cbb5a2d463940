--------------------------- MODULE MessagingProofs ---------------------------
(***************************************************************************)
(* Type correctness of Messaging, that acks and stored statuses are true,  *)
(* that the dedup of acks hides none, that outcomes are final, that        *)
(* Messaging implements Delivery, and that forwarding uses itself up, for  *)
(* any topology and any number of messages, restarts and broken            *)
(* connections.                                                            *)
(***************************************************************************)
EXTENDS Messaging, FiniteSetTheorems, TLAPS

-----------------------------------------------------------------------------
(* Types.  A request id is at most the number of the send it is given to:   *)
(* ids are taken in order and a restart only starts them again.             *)

IdBound ==
  /\ \A n \in Nodes : nextId[n] >= 1
  /\ \A s \in Sends : phase[s] = "unused" => nextId[Owner(s)] <= s[2]
  /\ \A s \in Sends : phase[s] # "unused" => rid[s] \in Rids

\* Receipts are only owed for messages that were sent, and frames of unsent
\* messages do not exist: their ids are ids.
SentOnly ==
  /\ \A n \in Nodes : \A s \in receipts[n] : phase[s] # "unused"
  /\ \A f \in net : f.type = "text" => phase[f.send] # "unused"

TypeInv == TypeOK /\ IdBound /\ SentOnly

\* A send: who, and the number of the send.
LEMMA SendParts ==
  ASSUME NEW s \in Sends
  PROVE  Owner(s) \in Nodes /\ s[2] \in Rids /\ s[2] \in Nat /\ s = <<Owner(s), s[2]>>
BY MessagingAssumption DEF Sends, Owner, Rids

\* Frames have the fields of their type.
LEMMA FrameParts ==
  ASSUME NEW f \in Frames
  PROVE  /\ f.from \in Nodes /\ f.to \in Nodes
         /\ f.type = "text" => f.send \in Sends
         /\ f.type = "ack" => f.id \in Rids
         /\ f.type \in {"text", "ack"}
BY DEF Frames

\* The acks a node writes are frames.
LEMMA AckFrames ==
  ASSUME NEW id \in Rids, NEW n \in Nodes, NEW S \in SUBSET Nodes
  PROVE  {Ack(id, n, q) : q \in S} \subseteq Frames
BY DEF Ack, Frames

\* Remembering a key keeps a set of keys.
LEMMA RememberType ==
  ASSUME NEW old \in SUBSET SeenKeys, NEW key \in SeenKeys
  PROVE  Remember(old, key) \in SUBSET SeenKeys
BY DEF Remember

\* Frames only ever go to nodes.
LEMMA TargetsType ==
  ASSUME NEW n \in Nodes, NEW p \in Nodes, NEW busy \in BOOLEAN
  PROVE  Targets(n, p, busy) \subseteq Nodes
BY DEF Targets, Peers

\* The count of faults keeps its bound.
LEMMA FaultType ==
  ASSUME faults \in 0 .. MaxFaults, Fault \/ faults' = faults
  PROVE  faults' \in 0 .. MaxFaults
BY MessagingAssumption DEF Fault

\* At the start nothing was sent and no id was taken.
LEMMA TypeInit == Init => TypeInv
BY MessagingAssumption, SendParts
   DEF Init, TypeInv, TypeOK, IdBound, SentOnly, Rids

\* Registering a request: its id is at most its number.
LEMMA TypeSendBegin ==
  ASSUME TypeInv, NEW s \in Sends, NEW p \in Nodes, SendBegin(s, p)
  PROVE  TypeInv'
<1> DEFINE n == Owner(s)
<1> USE DEF TypeInv
<1>1. n \in Nodes /\ s[2] \in Rids /\ s[2] \in Nat
  BY SendParts
<1>2. nextId[n] \in Nat /\ nextId[n] >= 1 /\ nextId[n] <= s[2]
  BY <1>1 DEF TypeOK, IdBound, SendBegin
<1>3. nextId[n] \in Rids
  BY <1>1, <1>2, MessagingAssumption DEF Rids
<1>4. TypeOK'
  <2>1. faults' \in 0 .. MaxFaults
    BY FaultType DEF TypeOK, SendBegin, StoreFails
  <2>2. status' \in [Sends -> {"none", "sent", "delivered"}]
    BY DEF TypeOK, SendBegin, StoreFails
  <2>3. phase' = [phase EXCEPT ![s] = "begun"] /\ dest' = [dest EXCEPT ![s] = p]
    BY DEF SendBegin
  <2>4. rid' \in [Sends -> Nat] /\ nextId' \in [Nodes -> Nat] /\ pending' \in [Nodes -> SUBSET Sends]
    BY <1>1, <1>2 DEF TypeOK, SendBegin
  <2>5. UNCHANGED <<signal, seen, acking, swallowed, receipts, delivered, net, links>>
    BY DEF SendBegin, ackVars
  <2> QED
    BY <2>1, <2>2, <2>3, <2>4, <2>5 DEF TypeOK
<1>5. IdBound'
  <2>1. \A m \in Nodes : nextId'[m] >= 1
    BY <1>1, <1>2 DEF IdBound, TypeOK, SendBegin
  <2>2. ASSUME NEW t \in Sends, phase'[t] = "unused"
        PROVE  nextId'[Owner(t)] <= t[2]
    <3>1. t # s /\ phase[t] = "unused"
      BY <2>2 DEF SendBegin, TypeOK
    <3>2. Owner(t) \in Nodes /\ t[2] \in Nat /\ t = <<Owner(t), t[2]>> /\ s = <<n, s[2]>>
      BY SendParts
    <3>3. CASE Owner(t) = n
      <4>1. t[2] # s[2]
        BY <3>1, <3>2, <3>3
      <4>2. ~ (t[2] < s[2])
        BY <3>1, <3>3 DEF SendBegin
      <4>3. nextId'[n] = nextId[n] + 1
        BY <1>1 DEF SendBegin, TypeOK
      <4>4. nextId[n] + 1 <= t[2]
        BY <1>1, <1>2, <3>2, <4>1, <4>2
      <4> QED
        BY <3>3, <4>3, <4>4
    <3>4. CASE Owner(t) # n
      BY <3>1, <3>2, <3>4 DEF SendBegin, IdBound, TypeOK
    <3> QED
      BY <3>3, <3>4
  <2>3. \A t \in Sends : phase'[t] # "unused" => rid'[t] \in Rids
    BY <1>3 DEF IdBound, TypeOK, SendBegin
  <2> QED
    BY <2>1, <2>2, <2>3 DEF IdBound
<1>6. SentOnly'
  BY FrameParts DEF SentOnly, SendBegin, TypeOK
<1> QED
  BY <1>4, <1>5, <1>6

\* Steps that take no new request.
LEMMA IdBoundStep ==
  ASSUME TypeInv, UNCHANGED <<rid, nextId>>, TypeOK',
         \A s \in Sends : phase'[s] = "unused" <=> phase[s] = "unused"
  PROVE  IdBound'
BY SendParts DEF TypeInv, IdBound

\* Writing the message, or taking the request back.
LEMMA TypeSendText ==
  ASSUME TypeInv, NEW s \in Sends, SendText(s)
  PROVE  TypeInv'
<1> DEFINE n == Owner(s)
           p == dest[s]
<1> USE DEF TypeInv
<1>1. n \in Nodes /\ p \in Nodes /\ phase[s] = "begun"
  BY SendParts DEF TypeOK, SendText
<1>2. PICK targets \in SUBSET Nodes :
        \/ /\ phase' = [phase EXCEPT ![s] = "failed"]
           /\ pending' = [pending EXCEPT ![n] = @ \ {s}]
           /\ net' = net
        \/ /\ phase' = [phase EXCEPT ![s] = "waiting"]
           /\ net' = net \cup {Text(s, q) : q \in targets \cap {p}}
           /\ pending' = pending
  <2>1. PICK busy \in BOOLEAN :
          LET targets == IF p \in Keyed[n] THEN Targets(n, p, busy) ELSE {}
          IN \/ /\ targets = {}
                /\ phase' = [phase EXCEPT ![s] = "failed"]
                /\ pending' = [pending EXCEPT ![n] = @ \ {s}]
                /\ UNCHANGED net
             \/ /\ targets # {}
                /\ phase' = [phase EXCEPT ![s] = "waiting"]
                /\ net' = net \cup {Text(s, q) : q \in targets \cap {p}}
                /\ UNCHANGED pending
    BY DEF SendText
  <2>2. Targets(n, p, busy) \subseteq Nodes
    BY <1>1, TargetsType
  <2> QED
    BY <2>1, <2>2
<1>3. {Text(s, q) : q \in targets \cap {p}} \subseteq Frames
  BY <1>1 DEF Text, Frames
<1>4. TypeOK'
  BY <1>1, <1>2, <1>3 DEF TypeOK, SendText, ackVars, faultVars
<1>5. \A t \in Sends : phase'[t] = "unused" <=> phase[t] = "unused"
  BY <1>1, <1>2 DEF TypeOK
<1>6. IdBound'
  BY <1>4, <1>5, IdBoundStep DEF SendText
<1>7. SentOnly'
  <2>1. \A f \in net' : f \in net \/ (f.type = "text" /\ f.send = s)
    BY <1>2 DEF Text
  <2> QED
    BY <1>1, <1>5, <2>1, FrameParts DEF SentOnly, SendText, TypeOK
<1> QED
  BY <1>4, <1>6, <1>7

\* A panic, and the waiting task: confirmed, timed out, removed.
LEMMA TypeWaiting ==
  ASSUME TypeInv, NEW s \in Sends, PreviewPanics(s) \/ Confirmed(s) \/ Expire(s) \/ GiveUp(s)
  PROVE  TypeInv'
<1> USE DEF TypeInv
<1>1. Owner(s) \in Nodes
  BY SendParts
<1>2. TypeOK'
  <2>1. faults' \in 0 .. MaxFaults
    BY FaultType DEF TypeOK, PreviewPanics, Confirmed, Expire, GiveUp, faultVars, StoreFails
  <2>2. status' \in [Sends -> {"none", "sent", "delivered"}]
    <3>1. Marked(s) \in [Sends -> {"none", "sent", "delivered"}]
      BY DEF TypeOK, Marked
    <3> QED
      BY <3>1 DEF TypeOK, PreviewPanics, Confirmed, Expire, GiveUp, StoreFails
  <2>3. phase' \in [Sends -> {"unused", "begun", "waiting", "expired", "failed",
                              "delivered", "timedout", "panicked", "lost"}]
    BY DEF TypeOK, PreviewPanics, Confirmed, Expire, GiveUp
  <2>4. pending' \in [Nodes -> SUBSET Sends]
    BY <1>1 DEF TypeOK, PreviewPanics, Confirmed, Expire, GiveUp
  <2>5. UNCHANGED <<dest, rid, signal, nextId, seen, acking, swallowed, receipts, delivered, net, links>>
    BY DEF PreviewPanics, Confirmed, Expire, GiveUp, ackVars, faultVars
  <2> QED
    BY <2>1, <2>2, <2>3, <2>4, <2>5 DEF TypeOK
<1>3. \A t \in Sends : phase'[t] = "unused" <=> phase[t] = "unused"
  BY DEF TypeOK, PreviewPanics, Confirmed, Expire, GiveUp
<1>4. IdBound'
  BY <1>2, <1>3, IdBoundStep DEF PreviewPanics, Confirmed, Expire, GiveUp
<1>5. net' = net /\ receipts' = receipts
  BY DEF PreviewPanics, Confirmed, Expire, GiveUp
<1>6. SentOnly'
  BY <1>3, <1>5, FrameParts DEF SentOnly, TypeOK
<1> QED
  BY <1>2, <1>4, <1>6

\* The receipt carries the id of a message that was sent.
LEMMA TypeSendReceipt ==
  ASSUME TypeInv, NEW r \in Nodes, NEW s \in receipts[r], SendReceipt(r, s)
  PROVE  TypeInv'
<1> USE DEF TypeInv
<1>1. s \in Sends /\ rid[s] \in Rids /\ Owner(s) \in Nodes
  BY SendParts DEF TypeOK, SentOnly, IdBound
<1>2. PICK busy \in BOOLEAN :
        net' = net \cup {Ack(rid[s], r, q) : q \in Targets(r, Owner(s), busy) \cap Keyed[r]}
  BY DEF SendReceipt
<1>3. {Ack(rid[s], r, q) : q \in Targets(r, Owner(s), busy) \cap Keyed[r]} \subseteq Frames
  BY <1>1, TargetsType, AckFrames
<1>4. TypeOK'
  BY <1>2, <1>3 DEF TypeOK, SendReceipt, sendVars, ackVars, faultVars
<1>5. IdBound'
  BY <1>4, IdBoundStep DEF SendReceipt, sendVars
<1>6. SentOnly'
  <2>1. \A f \in net' : f \in net \/ f.type = "ack"
    BY <1>2 DEF Ack
  <2>2. \A n \in Nodes : receipts'[n] \subseteq receipts[n]
    BY DEF SendReceipt, TypeOK
  <2> QED
    BY <2>1, <2>2 DEF SentOnly, SendReceipt, sendVars
<1> QED
  BY <1>4, <1>5, <1>6

\* Delivering a message.
LEMMA TypeReceiveText ==
  ASSUME TypeInv, NEW f \in net, ReceiveText(f)
  PROVE  TypeInv'
<1> DEFINE r == f.to
           s == f.send
<1> USE DEF TypeInv
<1>1. f.type = "text" /\ r \in Nodes /\ s \in Sends /\ phase[s] # "unused"
  BY FrameParts DEF TypeOK, SentOnly, ReceiveText
<1>2. TextKey(s) \in SeenKeys
  BY <1>1 DEF SeenKeys
<1>3. seen[r] \in SUBSET SeenKeys
  BY <1>1 DEF TypeOK
<1>4. Remember(seen[r], TextKey(s)) \in SUBSET SeenKeys
  BY <1>2, <1>3, RememberType
<1>5. /\ net' = net \ {f}
      /\ seen' = seen \/ seen' = [seen EXCEPT ![r] = Remember(seen[r], TextKey(s))]
      /\ receipts' = receipts \/ receipts' = [receipts EXCEPT ![r] = receipts[r] \cup {s}]
      /\ delivered' = delivered \/ delivered' = delivered \cup {s}
      /\ faults' = faults \/ Fault
      /\ UNCHANGED <<sendVars, ackVars, links>>
  BY DEF ReceiveText
<1>6. TypeOK'
  <2>1. faults' \in 0 .. MaxFaults
    BY <1>5, FaultType DEF TypeOK
  <2> QED
    BY <1>1, <1>4, <1>5, <2>1 DEF TypeOK, sendVars, ackVars
<1>7. IdBound'
  BY <1>5, <1>6, IdBoundStep DEF sendVars
<1>8. SentOnly'
  BY <1>1, <1>5 DEF SentOnly, sendVars, TypeOK
<1> QED
  BY <1>6, <1>7, <1>8

\* Remembering an ack.
LEMMA TypeReceiveAck ==
  ASSUME TypeInv, NEW f \in net, ReceiveAck(f)
  PROVE  TypeInv'
<1> DEFINE n == f.to
<1> USE DEF TypeInv
<1>1. f.type = "ack" /\ n \in Nodes /\ f.id \in Rids /\ f \in Frames
  BY FrameParts DEF TypeOK, ReceiveAck
<1>2. AckKey(f.id) \in SeenKeys /\ seen[n] \in SUBSET SeenKeys
  BY <1>1 DEF SeenKeys, TypeOK
<1>3. Remember(seen[n], AckKey(f.id)) \in SUBSET SeenKeys
  BY <1>2, RememberType
<1>4. /\ seen' = seen \/ seen' = [seen EXCEPT ![n] = Remember(seen[n], AckKey(f.id))]
      /\ acking' \subseteq acking \cup {f}
      /\ net' = net \ {f}
      /\ UNCHANGED <<sendVars, swallowed, receipts, delivered, faultVars>>
  BY DEF ReceiveAck
<1>5. TypeOK'
  BY <1>1, <1>3, <1>4 DEF TypeOK, sendVars, faultVars
<1>6. IdBound'
  BY <1>4, <1>5, IdBoundStep DEF sendVars
<1>7. SentOnly'
  BY <1>4 DEF SentOnly, sendVars
<1> QED
  BY <1>5, <1>6, <1>7

\* Completing a request or forwarding the ack.
LEMMA TypeFinishAck ==
  ASSUME TypeInv, NEW f \in acking, FinishAck(f)
  PROVE  TypeInv'
<1> DEFINE n == f.to
           mine == Awaiting(n, f.id)
<1> USE DEF TypeInv
<1>1. f.type = "ack" /\ n \in Nodes /\ f.id \in Rids
  BY FrameParts DEF TypeOK
<1> DEFINE forwards == {Ack(f.id, n, q) : q \in IF mine = {} THEN Peers(n) \cap Keyed[n] ELSE {}}
<1>2. forwards \subseteq Frames
  <2>1. (IF mine = {} THEN Peers(n) \cap Keyed[n] ELSE {}) \in SUBSET Nodes
    BY DEF Peers
  <2> QED
    BY <1>1, <2>1, AckFrames
<1>3. /\ acking' = acking \ {f}
      /\ pending' = [pending EXCEPT ![n] = pending[n] \ mine]
      /\ signal' = [s \in Sends |-> signal[s] \/ (s \in mine /\ phase[s] \in {"begun", "waiting"})]
      /\ net' = net \cup forwards
      /\ UNCHANGED <<phase, dest, rid, status, nextId, seen, swallowed, receipts, delivered, faultVars>>
  BY DEF FinishAck
<1>4. signal' \in [Sends -> BOOLEAN]
  BY <1>3 DEF TypeOK
<1>5. TypeOK'
  BY <1>1, <1>2, <1>3, <1>4 DEF TypeOK, faultVars
<1>6. IdBound'
  BY <1>3, <1>5, IdBoundStep
<1>7. SentOnly'
  <2>1. \A g \in net' : g \in net \/ g.type = "ack"
    BY <1>3 DEF Ack
  <2> QED
    BY <1>3, <2>1 DEF SentOnly
<1> QED
  BY <1>5, <1>6, <1>7

\* Lost frames and broken connections.
LEMMA TypeFaults ==
  ASSUME TypeInv,
         \/ \E f \in net : Lose(f)
         \/ \E l \in links : Break(l)
  PROVE  TypeInv'
<1> USE DEF TypeInv
<1>1. TypeOK'
  <2>1. CASE \E f \in net : Lose(f)
    BY <2>1 DEF TypeOK, Lose, sendVars, ackVars, faultVars
  <2>2. CASE \E l \in links : Break(l)
    <3>1. PICK l \in links : Break(l)
      BY <2>2
    <3>2. PICK hit \in SUBSET acking :
            acking' = acking \ hit /\ swallowed' = swallowed \cup {<<f.to, f.id>> : f \in hit}
      BY <3>1 DEF Break
    <3>3. \A f \in hit : f.to \in Nodes /\ f.id \in Rids
      BY FrameParts DEF TypeOK
    <3>4. swallowed' \subseteq Nodes \X Rids
      BY <3>2, <3>3 DEF TypeOK
    <3> QED
      BY <3>1, <3>2, <3>4, MessagingAssumption DEF TypeOK, Break, Fault, sendVars
  <2> QED BY <2>1, <2>2
<1>2. net' \subseteq net /\ UNCHANGED <<phase, rid, nextId, receipts>>
  BY DEF Lose, Break, sendVars
<1>3. IdBound'
  BY <1>1, <1>2, IdBoundStep
<1>4. SentOnly'
  BY <1>2 DEF SentOnly
<1> QED
  BY <1>1, <1>3, <1>4

\* A restart starts the ids again.
LEMMA TypeRestart ==
  ASSUME TypeInv, NEW n \in Nodes, Restart(n)
  PROVE  TypeInv'
<1> USE DEF TypeInv
<1>1. TypeOK'
  BY MessagingAssumption DEF TypeOK, Restart, Fault
<1>2. \A t \in Sends : phase'[t] = "unused" <=> phase[t] = "unused"
  BY DEF TypeOK, Restart
<1>3. IdBound'
  <2>1. \A m \in Nodes : nextId'[m] = 1 \/ nextId'[m] = nextId[m]
    BY DEF Restart, TypeOK
  <2>2. \A t \in Sends : t[2] >= 1 /\ Owner(t) \in Nodes
    BY SendParts, MessagingAssumption DEF Rids
  <2> QED
    BY <1>2, <2>1, <2>2 DEF IdBound, Restart
<1>4. SentOnly'
  BY <1>2, FrameParts DEF SentOnly, Restart, TypeOK
<1> QED
  BY <1>1, <1>3, <1>4

\* Every step preserves types and bounds.
LEMMA TypeStep == TypeInv /\ [Next]_vars => TypeInv'
<1> SUFFICES ASSUME TypeInv, [Next]_vars PROVE TypeInv'
  OBVIOUS
<1>1. CASE UNCHANGED vars
  BY <1>1 DEF TypeInv, TypeOK, IdBound, SentOnly, vars, sendVars, ackVars, faultVars
<1>2. CASE Next
  BY <1>2, TypeSendBegin, TypeSendText, TypeWaiting, TypeSendReceipt,
     TypeReceiveText, TypeReceiveAck, TypeFinishAck, TypeFaults, TypeRestart
     DEF Next, SendStep, Deliver
<1> QED
  BY <1>1, <1>2

\* The tables of the message handlers keep their types; in particular every
\* id on the wire was given to a request.
THEOREM MessagingTypeCorrect == Spec => []TypeOK
<1>1. TypeInv => TypeOK
  BY DEF TypeInv
<1> QED
  BY <1>1, TypeInit, TypeStep, PTL DEF Spec

-----------------------------------------------------------------------------
(* Acks.  Every ack on the wire or at a handler has the id of some delivered message; the   *)
(* request it completes has the same id, so it is that message or shares   *)
(* its id.                                                                 *)

Used(s) == phase[s] # "unused"

AckInv ==
  /\ \A s \in Sends : ~ Used(s) => rid[s] = 0 /\ ~ signal[s]
  /\ \A s \in delivered : Used(s)
  /\ \A n \in Nodes : receipts[n] \subseteq delivered
  /\ \A n \in Nodes : \A s \in pending[n] : Used(s)
  /\ \A f \in net : f.type = "ack" => \E t \in delivered : rid[t] = f.id
  /\ \A f \in acking : \E t \in delivered : rid[t] = f.id

TruthInv == TypeInv /\ AckInv /\ AckTruthfulUnlessReused

\* At the start there is no ack and no request.
LEMMA TruthInit == Init => TruthInv
BY TypeInit DEF Init, TruthInv, AckInv, AckTruthfulUnlessReused, Used

\* A new request takes an id, which no completed request loses by it.
LEMMA TruthSendBegin ==
  ASSUME TruthInv, TypeInv', NEW s \in Sends, NEW p \in Nodes, SendBegin(s, p)
  PROVE  TruthInv'
<1> USE DEF TruthInv, Used
<1>1. \A t \in Sends : t # s => phase'[t] = phase[t] /\ rid'[t] = rid[t]
  BY DEF SendBegin, TypeInv, TypeOK
<1>2. phase[s] = "unused" /\ phase'[s] = "begun" /\ UNCHANGED <<signal, delivered, net, receipts, acking>>
  BY DEF SendBegin, TypeInv, TypeOK, ackVars
<1>3. \A n \in Nodes : pending'[n] \subseteq pending[n] \cup {s}
  BY DEF SendBegin, TypeInv, TypeOK
<1>4. delivered \subseteq Sends /\ pending \in [Nodes -> SUBSET Sends]
  BY DEF TypeInv, TypeOK
<1>5. AckInv'
  BY <1>1, <1>2, <1>3, <1>4 DEF AckInv
<1>6. AckTruthfulUnlessReused'
  <2> SUFFICES ASSUME NEW t \in Sends, signal'[t], t \notin delivered'
               PROVE  Reused(t)'
    BY DEF AckTruthfulUnlessReused
  <2>1. signal[t] /\ Used(t) /\ t # s
    BY <1>2 DEF AckInv
  <2>2. PICK u \in Sends : u # t /\ rid[u] = rid[t]
    BY <1>2, <2>1 DEF AckTruthfulUnlessReused, Reused
  <2>3. rid[t] \in Rids
    BY <2>1 DEF TypeInv, IdBound
  <2>4. u # s
    BY <1>2, <2>2, <2>3, MessagingAssumption DEF AckInv, Rids
  <2> QED
    BY <1>1, <2>1, <2>2, <2>4 DEF Reused
<1> QED
  BY <1>5, <1>6

\* Steps that take no id, add no receipt but for delivered messages, and put
\* no ack on the wire but with the id of a delivered one.
LEMMA TruthOther ==
  ASSUME TruthInv, TypeInv', UNCHANGED rid,
         \A t \in Sends : Used(t)' <=> Used(t),
         \A t \in Sends : signal'[t] => signal[t] \/ t \in delivered' \/ Reused(t),
         \A t \in Sends : signal'[t] => Used(t),
         delivered \subseteq delivered', \A t \in delivered' : Used(t),
         \A n \in Nodes : receipts'[n] \subseteq delivered',
         \A n \in Nodes : pending'[n] \subseteq pending[n],
         \A f \in net' : f.type = "ack" => f \in net \/ \E t \in delivered' : rid[t] = f.id,
         \A f \in acking' : f \in acking \/ (f \in net /\ f.type = "ack")
  PROVE  TruthInv'
<1> USE DEF TruthInv
<1>1. delivered' \subseteq Sends /\ pending' \in [Nodes -> SUBSET Sends]
  BY DEF TypeInv, TypeOK
<1>2. AckInv'
  <2>1. \A t \in Sends : ~ Used(t)' => rid'[t] = 0 /\ ~ signal'[t]
    BY DEF AckInv
  <2>2. \A n \in Nodes : \A t \in pending'[n] : Used(t)'
    BY <1>1 DEF AckInv
  <2>3. \A t \in delivered' : Used(t)'
    BY <1>1
  <2>4. \A f \in net' : f.type = "ack" => \E t \in delivered' : rid'[t] = f.id
    BY DEF AckInv
  <2>5. \A f \in acking' : \E t \in delivered' : rid'[t] = f.id
    BY DEF AckInv
  <2> QED
    BY <2>1, <2>2, <2>3, <2>4, <2>5 DEF AckInv
<1>3. AckTruthfulUnlessReused'
  BY DEF AckTruthfulUnlessReused, Reused
<1> QED
  BY <1>2, <1>3

\* The steps of the sender, faults and restarts.
LEMMA TruthSender ==
  ASSUME TruthInv, TypeInv',
         \/ \E s \in Sends : SendStep(s)
         \/ \E f \in net : Lose(f)
         \/ \E l \in links : Break(l)
         \/ \E n \in Nodes : Restart(n)
  PROVE  TruthInv'
<1> USE DEF TruthInv
<1>1. UNCHANGED <<rid, signal, delivered>>
  BY DEF SendStep, SendText, PreviewPanics, Confirmed, Expire, GiveUp, Lose, Break, Restart, sendVars
<1>2. \A t \in Sends : Used(t)' <=> Used(t)
  BY DEF SendStep, SendText, PreviewPanics, Confirmed, Expire, GiveUp, Lose, Break, Restart, sendVars, Used, TypeInv, TypeOK
<1>3. \A n \in Nodes : receipts'[n] \subseteq receipts[n]
  BY DEF SendStep, SendText, PreviewPanics, Confirmed, Expire, GiveUp, Lose, Break, Restart, sendVars, TypeInv, TypeOK
<1>4. \A n \in Nodes : pending'[n] \subseteq pending[n]
  BY DEF SendStep, SendText, PreviewPanics, Confirmed, Expire, GiveUp, Lose, Break, Restart, sendVars, TypeInv, TypeOK
<1>5. \A f \in net' : f.type = "ack" => f \in net
  <2>1. \A s \in Sends : SendText(s) => \A f \in net' : f.type = "ack" => f \in net
    BY DEF SendText, Text
  <2>2. ASSUME NEW s \in Sends, PreviewPanics(s) \/ Confirmed(s) \/ Expire(s) \/ GiveUp(s) PROVE net' = net
    BY <2>2 DEF PreviewPanics, Confirmed, Expire, GiveUp
  <2>3. (\E f \in net : Lose(f)) \/ (\E l \in links : Break(l)) \/ (\E n \in Nodes : Restart(n))
          => net' \subseteq net
    BY DEF Lose, Break, Restart
  <2> QED
    BY <2>1, <2>2, <2>3 DEF SendStep
<1>6. \A t \in Sends : signal'[t] => Used(t)
  BY <1>1 DEF AckInv
<1>7. (\A t \in delivered' : Used(t)) /\ \A n \in Nodes : receipts'[n] \subseteq delivered'
  BY <1>1, <1>3 DEF AckInv
<1>8. acking' \subseteq acking
  BY DEF SendStep, SendText, PreviewPanics, Confirmed, Expire, GiveUp, Lose, Break, Restart, ackVars
<1> QED
  BY <1>1, <1>2, <1>4, <1>5, <1>6, <1>7, <1>8, TruthOther

\* The receipt of a delivered message carries its id.
LEMMA TruthSendReceipt ==
  ASSUME TruthInv, TypeInv', NEW r \in Nodes, NEW s \in receipts[r], SendReceipt(r, s)
  PROVE  TruthInv'
<1> USE DEF TruthInv
<1>1. UNCHANGED <<phase, rid, signal, pending, delivered, acking>>
  BY DEF SendReceipt, sendVars, ackVars
<1>2. s \in delivered
  BY DEF AckInv
<1>3. \A f \in net' : f.type = "ack" => f \in net \/ \E t \in delivered' : rid[t] = f.id
  <2>1. \A f \in net' : f \in net \/ f.id = rid[s]
    BY DEF SendReceipt, Ack
  <2> QED
    BY <1>1, <1>2, <2>1
<1>4. \A n \in Nodes : receipts'[n] \subseteq delivered'
  BY <1>1 DEF SendReceipt, AckInv, TypeInv, TypeOK
<1>5. \A t \in Sends : (Used(t)' <=> Used(t)) /\ (signal'[t] => Used(t))
  BY <1>1 DEF Used, AckInv
<1> QED
  BY <1>1, <1>3, <1>4, <1>5, TruthOther DEF AckInv

\* A delivery makes more acks truthful, never fewer.
LEMMA TruthReceiveText ==
  ASSUME TruthInv, TypeInv', NEW f \in net, ReceiveText(f)
  PROVE  TruthInv'
<1> DEFINE r == f.to
           s == f.send
<1> USE DEF TruthInv
<1>1. f.type = "text" /\ r \in Nodes /\ s \in Sends /\ Used(s)
  BY FrameParts DEF TypeInv, TypeOK, SentOnly, ReceiveText, Used
<1>2. UNCHANGED <<phase, rid, signal, pending, acking>> /\ net' \subseteq net
  BY DEF ReceiveText, sendVars, ackVars
<1>3. /\ delivered \subseteq delivered' /\ delivered' \subseteq delivered \cup {s}
      /\ \A n \in Nodes : receipts'[n] \subseteq delivered'
  <2>1. \/ UNCHANGED <<receipts, delivered>>
        \/ /\ receipts' = [receipts EXCEPT ![r] = receipts[r] \cup {s}]
           /\ delivered' = delivered \cup {s}
    BY DEF ReceiveText
  <2> QED
    BY <1>1, <2>1 DEF AckInv, TypeInv, TypeOK
<1>4. \A t \in Sends : (Used(t)' <=> Used(t)) /\ (signal'[t] => Used(t))
  BY <1>2 DEF Used, AckInv
<1>5. \A t \in delivered' : Used(t)
  BY <1>1, <1>3 DEF AckInv
<1> QED
  BY <1>2, <1>3, <1>4, <1>5, TruthOther

\* Remembering an ack changes no request.
LEMMA TruthReceiveAck ==
  ASSUME TruthInv, TypeInv', NEW f \in net, ReceiveAck(f)
  PROVE  TruthInv'
<1> USE DEF TruthInv
<1>1. /\ UNCHANGED <<phase, rid, signal, pending, receipts, delivered>>
      /\ net' \subseteq net /\ f.type = "ack" /\ acking' \subseteq acking \cup {f}
  BY DEF ReceiveAck, sendVars
<1>2. \A s \in Sends : (Used(s)' <=> Used(s)) /\ (signal'[s] => Used(s))
  BY <1>1 DEF Used, AckInv
<1>3. (\A s \in delivered' : Used(s)) /\ \A m \in Nodes : receipts'[m] \subseteq delivered'
  BY <1>1 DEF AckInv
<1> QED
  BY <1>1, <1>2, <1>3, TruthOther

\* An ack completes the message it is for or one with the same id.
LEMMA TruthFinishAck ==
  ASSUME TruthInv, TypeInv', NEW f \in acking, FinishAck(f)
  PROVE  TruthInv'
<1> DEFINE n == f.to
           mine == Awaiting(n, f.id)
<1> USE DEF TruthInv
<1>1. f.type = "ack" /\ n \in Nodes
  BY FrameParts DEF TypeInv, TypeOK
<1>2. PICK t \in delivered : rid[t] = f.id
  BY <1>1 DEF AckInv
<1>3. t \in Sends
  BY DEF TypeInv, TypeOK
<1>4. /\ UNCHANGED <<phase, rid, receipts, delivered>>
      /\ pending' = [pending EXCEPT ![n] = pending[n] \ mine]
      /\ signal' = [s \in Sends |-> signal[s] \/ (s \in mine /\ phase[s] \in {"begun", "waiting"})]
      /\ acking' \subseteq acking
      /\ \A g \in net' : g \in net \/ g.id = f.id
  BY DEF FinishAck, Ack
<1>5. ASSUME NEW s \in Sends, signal'[s], ~ signal[s]
      PROVE  (s \in delivered' \/ Reused(s)) /\ Used(s)
  <2>1. s \in mine /\ phase[s] \in {"begun", "waiting"}
    BY <1>4, <1>5
  <2>2. rid[s] = f.id
    BY <2>1 DEF Awaiting
  <2> QED
    BY <1>2, <1>3, <1>4, <2>1, <2>2 DEF Reused, Used
<1>6. \A s \in Sends : (Used(s)' <=> Used(s)) /\ (signal'[s] => Used(s))
  BY <1>4, <1>5 DEF Used, AckInv
<1>7. \A m \in Nodes : pending'[m] \subseteq pending[m]
  BY <1>1, <1>4 DEF TypeInv, TypeOK
<1>8. \A g \in net' : g.type = "ack" => g \in net \/ \E u \in delivered' : rid[u] = g.id
  BY <1>2, <1>4
<1>9. (\A s \in delivered' : Used(s)) /\ \A m \in Nodes : receipts'[m] \subseteq delivered'
  BY <1>4 DEF AckInv
<1> QED
  BY <1>4, <1>5, <1>6, <1>7, <1>8, <1>9, TruthOther

\* Every step preserves the truth of acks.
LEMMA TruthStep == TruthInv /\ [Next]_vars => TruthInv'
<1> SUFFICES ASSUME TruthInv, [Next]_vars PROVE TruthInv'
  OBVIOUS
<1>1. TypeInv'
  BY TypeStep DEF TruthInv
<1>2. CASE UNCHANGED vars
  BY <1>1, <1>2 DEF TruthInv, AckInv, AckTruthfulUnlessReused, Reused, Used, vars, sendVars, ackVars
<1>3. CASE Next
  BY <1>1, <1>3, TruthSendBegin, TruthSender, TruthSendReceipt, TruthReceiveText, TruthReceiveAck, TruthFinishAck
     DEF Next, Deliver
<1> QED
  BY <1>2, <1>3

\* Whatever the topology, and however often acks are forwarded, repeated or
\* late and nodes restart: PendingAcks reports a message as delivered that was
\* not only where another send was given the same request id.
THEOREM AcksTruthful == Spec => []AckTruthfulUnlessReused
<1>1. TruthInv => AckTruthfulUnlessReused
  BY DEF TruthInv
<1> QED
  BY <1>1, TruthInit, TruthStep, PTL DEF Spec

-----------------------------------------------------------------------------
(* What no step takes back.                                                *)

\* A request that was registered keeps its id and its receiver, a delivered
\* message stays delivered, and so does a confirmed request.
LEMMA Lasting ==
  ASSUME TypeInv, [Next]_vars
  PROVE  /\ \A t \in Sends : Used(t) => Used(t)' /\ rid'[t] = rid[t] /\ dest'[t] = dest[t]
         /\ delivered \subseteq delivered'
         /\ \A t \in Sends : phase[t] = "delivered" => phase'[t] = "delivered"
<1> USE DEF TypeInv, TypeOK, Used
<1>1. ASSUME NEW s \in Sends, NEW p \in Nodes, SendBegin(s, p)
      PROVE  /\ \A t \in Sends : Used(t) => Used(t)' /\ rid'[t] = rid[t] /\ dest'[t] = dest[t]
             /\ delivered \subseteq delivered'
             /\ \A t \in Sends : phase[t] = "delivered" => phase'[t] = "delivered"
  <2>1. phase[s] = "unused" /\ delivered' = delivered
    BY <1>1 DEF SendBegin
  <2>2. \A t \in Sends : t # s => phase'[t] = phase[t] /\ rid'[t] = rid[t] /\ dest'[t] = dest[t]
    BY <1>1 DEF SendBegin
  <2> QED BY <2>1, <2>2
<1>2. ASSUME NEW s \in Sends, SendStep(s)
      PROVE  /\ UNCHANGED <<rid, dest, delivered>>
             /\ \A t \in Sends : Used(t) => Used(t)'
             /\ \A t \in Sends : phase[t] = "delivered" => phase'[t] = "delivered"
  <2>1. UNCHANGED <<rid, dest, delivered>>
    BY <1>2 DEF SendStep, SendText, PreviewPanics, Confirmed, Expire, GiveUp
  <2>2. phase[s] \in {"begun", "waiting", "expired"}
        /\ \E x \in {"failed", "waiting", "panicked", "delivered", "expired", "timedout"} :
             phase' = [phase EXCEPT ![s] = x]
    BY <1>2 DEF SendStep, SendText, PreviewPanics, Confirmed, Expire, GiveUp
  <2> QED BY <2>1, <2>2
<1>3. ASSUME NEW n \in Nodes, Restart(n)
      PROVE  /\ UNCHANGED <<rid, dest, delivered>>
             /\ \A t \in Sends : Used(t) => Used(t)'
             /\ \A t \in Sends : phase[t] = "delivered" => phase'[t] = "delivered"
  BY <1>3 DEF Restart
<1>4. CASE \/ \E n \in Nodes : \E s \in receipts[n] : SendReceipt(n, s)
           \/ \E f \in net : Deliver(f)
           \/ \E f \in acking : FinishAck(f)
           \/ \E l \in links : Break(l)
           \/ UNCHANGED vars
  <2>1. UNCHANGED <<phase, rid, dest>> /\ delivered \subseteq delivered'
    BY <1>4 DEF SendReceipt, Deliver, ReceiveText, ReceiveAck, FinishAck, Lose, Break, sendVars, vars
  <2> QED BY <2>1
<1> QED BY <1>1, <1>2, <1>3, <1>4 DEF Next

\* An id that is shared stays shared.
LEMMA ReusedStays ==
  ASSUME TruthInv, [Next]_vars, NEW s \in Sends, Used(s), Reused(s)
  PROVE  Reused(s)'
<1>1. PICK u \in Sends : u # s /\ rid[u] = rid[s]
  BY DEF Reused
<1>2. rid[s] \in Rids
  BY DEF TruthInv, TypeInv, IdBound, Used
<1>3. Used(u)
  BY <1>1, <1>2, MessagingAssumption DEF TruthInv, AckInv, Rids
<1>4. rid'[u] = rid[u] /\ rid'[s] = rid[s]
  BY <1>3, Lasting DEF TruthInv
<1> QED BY <1>1, <1>4 DEF Reused

-----------------------------------------------------------------------------
(* The dedup of acks.  An id is remembered as seen only after a message    *)
(* with that id was delivered, by a handler that goes on to complete the   *)
(* request or is aborted; a request registered later shares its id with    *)
(* that message.                                                           *)

MaskInv ==
  /\ \A n \in Nodes, id \in Rids : AckKey(id) \in seen[n] => \E t \in delivered : rid[t] = id
  /\ PendingNotMasked

\* Keys of messages and of acks differ.
LEMMA Keys ==
  /\ \A s, id : TextKey(s) # AckKey(id)
  /\ \A i, j : AckKey(i) = AckKey(j) => i = j
BY DEF TextKey, AckKey

\* The ways in which a remembered id is accounted for.
Handled(n, id) ==
  \/ \E f \in acking : f.to = n /\ f.id = id
  \/ <<n, id>> \in swallowed

\* A step that registers no request.
LEMMA MaskOther ==
  ASSUME TruthInv, TruthInv', MaskInv, [Next]_vars,
         \A n \in Nodes : pending'[n] \subseteq pending[n],
         \A n \in Nodes, id \in Rids : AckKey(id) \in seen'[n] =>
            AckKey(id) \in seen[n] \/ (Handled(n, id)' /\ \E t \in delivered : rid[t] = id),
         \A n \in Nodes, id \in Rids : Handled(n, id) =>
            Handled(n, id)' \/ AckKey(id) \notin seen'[n] \/ Awaiting(n, id) \cap pending'[n] = {}
  PROVE  MaskInv'
<1>0. delivered \subseteq Sends /\ delivered \subseteq delivered'
  BY Lasting DEF TruthInv, TypeInv, TypeOK
<1>1. ASSUME NEW n \in Nodes, NEW id \in Rids, AckKey(id) \in seen'[n]
      PROVE  \E t \in delivered' : rid'[t] = id
  <2>1. PICK t \in delivered : rid[t] = id
    BY <1>1 DEF MaskInv
  <2>2. Used(t) /\ t \in Sends
    BY <1>0 DEF TruthInv, AckInv
  <2>3. rid'[t] = rid[t]
    BY <2>2, Lasting DEF TruthInv
  <2> QED BY <1>0, <2>1, <2>3
<1>2. ASSUME NEW n \in Nodes, NEW s \in pending'[n], AckKey(rid'[s]) \in seen'[n]
      PROVE  Handled(n, rid[s])' \/ Reused(s)'
  <2>1. s \in pending[n] /\ s \in Sends /\ Used(s)
    BY DEF TruthInv, TypeInv, TypeOK, AckInv
  <2>2. rid'[s] = rid[s] /\ rid[s] \in Rids
    BY <2>1, Lasting DEF TruthInv, TypeInv, IdBound, Used
  <2>3. s \in Awaiting(n, rid[s])
    BY <2>1 DEF Awaiting
  <2>4. CASE AckKey(rid[s]) \notin seen[n]
    BY <1>2, <2>2, <2>4 DEF Handled
  <2>5. CASE AckKey(rid[s]) \in seen[n]
    <3>1. Handled(n, rid[s]) \/ Reused(s)
      BY <2>1, <2>5 DEF MaskInv, PendingNotMasked, Handled
    <3>2. CASE Handled(n, rid[s])
      BY <1>2, <2>2, <2>3, <3>2 DEF Handled
    <3>3. CASE Reused(s)
      BY <2>1, <3>3, ReusedStays
    <3> QED BY <3>1, <3>2, <3>3
  <2> QED BY <2>4, <2>5
<1> QED BY <1>1, <1>2 DEF MaskInv, PendingNotMasked, Handled

\* A new request whose id was seen shares it with a delivered message.
LEMMA MaskSendBegin ==
  ASSUME TruthInv, TruthInv', MaskInv, NEW s \in Sends, NEW p \in Nodes, SendBegin(s, p)
  PROVE  MaskInv'
<1>0. [Next]_vars
  BY DEF Next
<1>1. /\ seen' = seen /\ delivered' = delivered /\ phase[s] = "unused"
      /\ UNCHANGED <<acking, swallowed>>
      /\ \A n \in Nodes : pending'[n] \subseteq pending[n] \cup {s}
  BY DEF SendBegin, TruthInv, TypeInv, TypeOK, ackVars
<1>2. delivered \subseteq Sends /\ \A t \in delivered : Used(t) /\ rid'[t] = rid[t]
  <2>1. delivered \subseteq Sends /\ \A t \in delivered : Used(t)
    BY DEF TruthInv, TypeInv, TypeOK, AckInv
  <2> QED BY <1>0, <2>1, Lasting DEF TruthInv
<1>3. ASSUME NEW n \in Nodes, NEW id \in Rids, AckKey(id) \in seen'[n]
      PROVE  \E t \in delivered' : rid'[t] = id
  BY <1>1, <1>2, <1>3 DEF MaskInv
<1>4. ASSUME NEW n \in Nodes, NEW t \in pending'[n], AckKey(rid'[t]) \in seen'[n]
      PROVE  Handled(n, rid[t])' \/ Reused(t)'
  <2>0. t \in Sends
    BY DEF TruthInv, TypeInv, TypeOK
  <2>1. CASE t = s
    <3>1. rid'[s] \in Rids
      BY <1>4, <2>1 DEF TruthInv, TypeInv, IdBound, AckInv, Used
    <3>2. PICK u \in delivered : rid'[u] = rid'[s]
      BY <1>1, <1>3, <1>4, <2>1, <3>1
    <3>3. u # s
      BY <1>1, <1>2 DEF Used
    <3> QED BY <1>2, <2>1, <3>2, <3>3 DEF Reused
  <2>2. CASE t # s
    <3>1. t \in pending[n] /\ Used(t)
      BY <1>1, <2>2 DEF TruthInv, AckInv
    <3>2. rid'[t] = rid[t]
      BY <1>0, <2>0, <3>1, Lasting DEF TruthInv
    <3>3. Handled(n, rid[t]) \/ Reused(t)
      BY <1>1, <1>4, <3>1, <3>2 DEF MaskInv, PendingNotMasked, Handled
    <3>4. CASE Handled(n, rid[t])
      BY <1>1, <3>2, <3>4 DEF Handled
    <3>5. CASE Reused(t)
      BY <1>0, <2>0, <3>1, <3>5, ReusedStays
    <3> QED BY <3>3, <3>4, <3>5
  <2> QED BY <2>1, <2>2
<1> QED BY <1>3, <1>4 DEF MaskInv, PendingNotMasked, Handled

\* The handler that remembers an ack is on its way to the request.
LEMMA MaskReceiveAck ==
  ASSUME TruthInv, TruthInv', MaskInv, NEW f \in net, ReceiveAck(f)
  PROVE  MaskInv'
<1>0. [Next]_vars
  BY DEF Next, Deliver
<1>1. f.type = "ack" /\ f.to \in Nodes /\ f.id \in Rids
  BY FrameParts DEF TruthInv, TypeInv, TypeOK, ReceiveAck
<1>2. PICK t \in delivered : rid[t] = f.id
  BY <1>1 DEF TruthInv, AckInv
<1>3. UNCHANGED <<pending, swallowed>> /\ acking \subseteq acking'
  BY DEF ReceiveAck, sendVars
<1>4. \A n \in Nodes, id \in Rids : Handled(n, id) => Handled(n, id)'
  BY <1>3 DEF Handled
<1>5. ASSUME NEW n \in Nodes, NEW id \in Rids, AckKey(id) \in seen'[n], AckKey(id) \notin seen[n]
      PROVE  Handled(n, id)' /\ \E u \in delivered : rid[u] = id
  <2>1. seen' # seen
    BY <1>5
  <2>2. seen' = [seen EXCEPT ![f.to] = Remember(@, AckKey(f.id))] /\ acking' = acking \cup {f}
    BY <2>1 DEF ReceiveAck
  <2>3. n = f.to /\ AckKey(id) \in Remember(seen[n], AckKey(f.id))
    BY <1>1, <1>5, <2>2 DEF TruthInv, TypeInv, TypeOK
  <2>4. id = f.id
    BY <1>5, <2>3, Keys DEF Remember
  <2> QED BY <1>2, <2>2, <2>3, <2>4 DEF Handled
<1> QED BY <1>0, <1>3, <1>4, <1>5, MaskOther

\* The handler goes on: no request with the id is left pending.
LEMMA MaskFinishAck ==
  ASSUME TruthInv, TruthInv', MaskInv, NEW f \in acking, FinishAck(f)
  PROVE  MaskInv'
<1>0. [Next]_vars
  BY DEF Next
<1>1. f.to \in Nodes /\ f.id \in Rids
  BY FrameParts DEF TruthInv, TypeInv, TypeOK
<1>2. /\ acking' = acking \ {f} /\ UNCHANGED <<seen, swallowed>>
      /\ pending' = [pending EXCEPT ![f.to] = @ \ Awaiting(f.to, f.id)]
  BY DEF FinishAck
<1>3. /\ \A n \in Nodes : pending'[n] \subseteq pending[n]
      /\ pending'[f.to] = pending[f.to] \ Awaiting(f.to, f.id)
  BY <1>1, <1>2 DEF TruthInv, TypeInv, TypeOK
<1>4. ASSUME NEW n \in Nodes, NEW id \in Rids, Handled(n, id)
      PROVE  Handled(n, id)' \/ Awaiting(n, id) \cap pending'[n] = {}
  <2>1. CASE n = f.to /\ id = f.id
    BY <1>3, <2>1
  <2>2. CASE ~ (n = f.to /\ id = f.id)
    BY <1>2, <1>4, <2>2 DEF Handled
  <2> QED BY <2>1, <2>2
<1> QED BY <1>0, <1>2, <1>3, <1>4, MaskOther

\* A handler that is aborted is accounted for.
LEMMA MaskBreak ==
  ASSUME TruthInv, TruthInv', MaskInv, NEW l \in links, Break(l)
  PROVE  MaskInv'
<1>0. [Next]_vars
  BY DEF Next
<1>1. PICK hit \in SUBSET acking :
        acking' = acking \ hit /\ swallowed' = swallowed \cup {<<f.to, f.id>> : f \in hit}
  BY DEF Break
<1>2. UNCHANGED <<pending, seen>>
  BY DEF Break, sendVars
<1>3. \A n \in Nodes, id \in Rids : Handled(n, id) => Handled(n, id)'
  BY <1>1 DEF Handled
<1> QED BY <1>0, <1>2, <1>3, MaskOther

\* A restart forgets what was seen, and its handlers with it.
LEMMA MaskRestart ==
  ASSUME TruthInv, TruthInv', MaskInv, NEW m \in Nodes, Restart(m)
  PROVE  MaskInv'
<1>0. [Next]_vars
  BY DEF Next
<1>1. /\ acking' = {f \in acking : f.to # m} /\ swallowed' = swallowed
      /\ seen' = [seen EXCEPT ![m] = {}] /\ pending' = [pending EXCEPT ![m] = {}]
  BY DEF Restart
<1>2. \A n \in Nodes : pending'[n] \subseteq pending[n] /\ seen'[n] \subseteq seen[n]
  BY <1>1 DEF TruthInv, TypeInv, TypeOK
<1>3. seen'[m] = {}
  BY <1>1 DEF TruthInv, TypeInv, TypeOK
<1>4. \A n \in Nodes, id \in Rids : n # m /\ Handled(n, id) => Handled(n, id)'
  BY <1>1 DEF Handled
<1> QED BY <1>0, <1>2, <1>3, <1>4, MaskOther

\* Every step keeps the invariant.
LEMMA MaskStep == TruthInv /\ TruthInv' /\ MaskInv /\ [Next]_vars => MaskInv'
<1> SUFFICES ASSUME TruthInv, TruthInv', MaskInv, [Next]_vars PROVE MaskInv'
  OBVIOUS
<1>1. CASE \E s \in Sends, p \in Nodes : SendBegin(s, p)
  BY <1>1, MaskSendBegin
<1>2. CASE \/ \E f \in net : ReceiveAck(f)
           \/ \E f \in acking : FinishAck(f)
           \/ \E l \in links : Break(l)
           \/ \E n \in Nodes : Restart(n)
  BY <1>2, MaskReceiveAck, MaskFinishAck, MaskBreak, MaskRestart
<1>3. CASE \E f \in net : ReceiveText(f)
  <2>1. PICK f \in net : ReceiveText(f)
    BY <1>3
  <2>2. f.to \in Nodes
    BY FrameParts DEF TruthInv, TypeInv, TypeOK
  <2>3. /\ UNCHANGED <<pending, acking, swallowed>>
        /\ seen' = seen \/ seen' = [seen EXCEPT ![f.to] = Remember(seen[f.to], TextKey(f.send))]
    BY <2>1 DEF ReceiveText, sendVars, ackVars
  <2>4. \A n \in Nodes, id \in Rids : AckKey(id) \in seen'[n] => AckKey(id) \in seen[n]
    BY <2>2, <2>3, Keys DEF Remember, TruthInv, TypeInv, TypeOK
  <2>5. \A n \in Nodes, id \in Rids : Handled(n, id) => Handled(n, id)'
    BY <2>3 DEF Handled
  <2> QED BY <2>3, <2>4, <2>5, MaskOther
<1>4. CASE \/ \E s \in Sends : SendStep(s)
           \/ \E n \in Nodes : \E s \in receipts[n] : SendReceipt(n, s)
           \/ \E f \in net : Lose(f)
           \/ UNCHANGED vars
  <2>1. \A n \in Nodes : pending'[n] \subseteq pending[n]
    BY <1>4 DEF SendStep, SendText, PreviewPanics, Confirmed, Expire, GiveUp, SendReceipt, Lose,
                vars, sendVars, TruthInv, TypeInv, TypeOK
  <2>2. UNCHANGED <<seen, acking, swallowed>>
    BY <1>4 DEF SendStep, SendText, PreviewPanics, Confirmed, Expire, GiveUp, SendReceipt, Lose, vars, ackVars
  <2>3. \A n \in Nodes, id \in Rids : Handled(n, id) => Handled(n, id)'
    BY <2>2 DEF Handled
  <2> QED BY <2>1, <2>2, <2>3, MaskOther
<1> QED BY <1>1, <1>2, <1>3, <1>4 DEF Next, Deliver

\* message_ack_handler's dedup drops the ack of a request that still waits only
\* while the handler of an earlier copy is on its way to that request, or was
\* aborted on it, or if another send has the same id, on any topology and
\* whatever restarts.
THEOREM AcksNotMasked == Spec => []PendingNotMasked
<1>1. Init => MaskInv
  BY DEF Init, MaskInv, PendingNotMasked
<1>2. MaskInv => PendingNotMasked
  BY DEF MaskInv
<1> QED
  BY <1>1, <1>2, TruthInit, TruthStep, MaskStep, PTL DEF Spec

-----------------------------------------------------------------------------
(* The stored status.                                                      *)

\* Only messages that were sent are stored, and where the status says
\* "delivered" a send to the same contact was confirmed.
StatusInv ==
  /\ \A s \in Sends : status[s] # "none" => Used(s)
  /\ StatusTruthfulUnlessShared

\* A witness that a status is shared stays one.
LEMMA SharedStays ==
  ASSUME TruthInv, [Next]_vars, NEW s \in Sends, Used(s),
         \/ s \in delivered
         \/ \E t \in Sends : /\ Owner(t) = Owner(s) /\ dest[t] = dest[s]
                             /\ phase[t] = "delivered" /\ (t # s \/ Reused(t))
  PROVE  \/ s \in delivered'
         \/ \E t \in Sends : /\ Owner(t) = Owner(s) /\ dest'[t] = dest'[s]
                             /\ phase'[t] = "delivered" /\ (t # s \/ Reused(t)')
<1>1. TypeInv
  BY DEF TruthInv
<1>2. CASE s \in delivered
  BY <1>1, <1>2, Lasting
<1>3. CASE s \notin delivered
  <2>1. PICK t \in Sends : /\ Owner(t) = Owner(s) /\ dest[t] = dest[s]
                           /\ phase[t] = "delivered" /\ (t # s \/ Reused(t))
    BY <1>3
  <2>2. Used(t)
    BY <2>1 DEF Used
  <2>3. dest'[t] = dest[t] /\ dest'[s] = dest[s] /\ phase'[t] = "delivered"
    BY <1>1, <2>1, <2>2, Lasting
  <2>4. Reused(t) => Reused(t)'
    BY <2>2, ReusedStays
  <2> QED BY <2>1, <2>3, <2>4
<1> QED BY <1>2, <1>3

\* A confirmation marks the newest message to the contact, if one is stored
\* and the write succeeds: that is the one confirmed, or another to the contact.
LEMMA StatusConfirmed ==
  ASSUME TruthInv, TruthInv', StatusInv, NEW s \in Sends, Confirmed(s)
  PROVE  StatusInv'
<1>0. [Next]_vars /\ TypeInv /\ TypeOK
  BY DEF Next, SendStep, TruthInv, TypeInv
<1>1. /\ phase[s] = "waiting" /\ signal[s] /\ phase' = [phase EXCEPT ![s] = "delivered"]
      /\ status' = Marked(s) \/ status' = status
      /\ UNCHANGED <<dest, rid, delivered>>
  BY DEF Confirmed, StoreFails
<1>2. /\ phase'[s] = "delivered" /\ \A t \in Sends : t # s => phase'[t] = phase[t]
      /\ \A t \in Sends : Used(t) => Used(t)'
  BY <1>0, <1>1 DEF TypeOK, Used
<1>3. \A t \in Sends : status'[t] = status[t] \/ (status'[t] = "delivered" /\ t \in SentTo(s))
  BY <1>0, <1>1 DEF TypeOK, Marked, LastSent
<1>4. \A t \in Sends : status'[t] # "none" => Used(t)'
  BY <1>2, <1>3 DEF StatusInv, SentTo
<1>5. s \in delivered' \/ Reused(s)'
  BY <1>1 DEF TruthInv, AckTruthfulUnlessReused, Reused
<1>6. ASSUME NEW t \in Sends, status'[t] = "delivered"
      PROVE  \/ t \in delivered'
             \/ \E u \in Sends : /\ Owner(u) = Owner(t) /\ dest'[u] = dest'[t]
                                 /\ phase'[u] = "delivered" /\ (u # t \/ Reused(u)')
  <2>1. CASE t \in SentTo(s)
    BY <1>1, <1>2, <1>5, <2>1 DEF SentTo
  <2>2. CASE t \notin SentTo(s)
    <3>1. status[t] = "delivered"
      BY <1>3, <1>6, <2>2
    <3>2. Used(t)
      BY <3>1 DEF StatusInv
    <3>3. \/ t \in delivered
          \/ \E u \in Sends : /\ Owner(u) = Owner(t) /\ dest[u] = dest[t]
                              /\ phase[u] = "delivered" /\ (u # t \/ Reused(u))
      BY <3>1 DEF StatusInv, StatusTruthfulUnlessShared
    <3> QED BY <1>0, <3>2, <3>3, SharedStays
  <2> QED BY <2>1, <2>2
<1> QED BY <1>4, <1>6 DEF StatusInv, StatusTruthfulUnlessShared

\* No other step marks a message.
LEMMA StatusOther ==
  ASSUME TruthInv, TruthInv', StatusInv, [Next]_vars,
         \A t \in Sends : status'[t] # "none" => Used(t)',
         \A t \in Sends : status'[t] = "delivered" => status[t] = "delivered"
  PROVE  StatusInv'
<1>1. ASSUME NEW t \in Sends, status'[t] = "delivered"
      PROVE  \/ t \in delivered'
             \/ \E u \in Sends : /\ Owner(u) = Owner(t) /\ dest'[u] = dest'[t]
                                 /\ phase'[u] = "delivered" /\ (u # t \/ Reused(u)')
  <2>1. status[t] = "delivered"
    BY <1>1
  <2>2. Used(t)
    BY <2>1 DEF StatusInv
  <2>3. \/ t \in delivered
        \/ \E u \in Sends : /\ Owner(u) = Owner(t) /\ dest[u] = dest[t]
                            /\ phase[u] = "delivered" /\ (u # t \/ Reused(u))
    BY <2>1 DEF StatusInv, StatusTruthfulUnlessShared
  <2> QED BY <2>2, <2>3, SharedStays
<1> QED BY <1>1 DEF StatusInv, StatusTruthfulUnlessShared

LEMMA StatusStep == TruthInv /\ TruthInv' /\ StatusInv /\ [Next]_vars => StatusInv'
<1> SUFFICES ASSUME TruthInv, TruthInv', StatusInv, [Next]_vars PROVE StatusInv'
  OBVIOUS
<1>1. CASE \E s \in Sends : Confirmed(s)
  BY <1>1, StatusConfirmed
<1>2. CASE \E s \in Sends, p \in Nodes : SendBegin(s, p)
  <2>1. PICK s \in Sends, p \in Nodes : SendBegin(s, p)
    BY <1>2
  <2>2. /\ phase'[s] = "begun" /\ status'[s] \in {"sent", status[s]}
        /\ \A t \in Sends : t # s => phase'[t] = phase[t] /\ status'[t] = status[t]
    BY <2>1 DEF SendBegin, StoreFails, TruthInv, TypeInv, TypeOK
  <2>3. \A t \in Sends : status'[t] # "none" => Used(t)'
    BY <2>2 DEF StatusInv, Used
  <2> QED BY <2>2, <2>3, StatusOther
<1>3. ASSUME status' = status, \A t \in Sends : Used(t)' <=> Used(t) PROVE StatusInv'
  BY <1>3, StatusOther DEF StatusInv
<1>4. CASE \/ \E s \in Sends : PreviewPanics(s) \/ SendText(s) \/ Expire(s) \/ GiveUp(s)
           \/ \E n \in Nodes : Restart(n)
  <2>1. status' = status
    BY <1>4 DEF PreviewPanics, SendText, Expire, GiveUp, Restart
  <2>2. \A t \in Sends : Used(t)' <=> Used(t)
    BY <1>4 DEF PreviewPanics, SendText, Expire, GiveUp, Restart, Used, TruthInv, TypeInv, TypeOK
  <2> QED BY <1>3, <2>1, <2>2
<1>5. CASE \/ \E n \in Nodes : \E s \in receipts[n] : SendReceipt(n, s)
           \/ \E f \in net : Deliver(f)
           \/ \E f \in acking : FinishAck(f)
           \/ \E l \in links : Break(l)
           \/ UNCHANGED vars
  <2>1. UNCHANGED <<phase, status>>
    BY <1>5 DEF SendReceipt, Deliver, ReceiveText, ReceiveAck, FinishAck, Lose, Break, vars, sendVars
  <2> QED BY <1>3, <2>1 DEF Used
<1> QED BY <1>1, <1>2, <1>4, <1>5 DEF Next, SendStep

\* chat.json says "delivered" of a message that was not only if another message
\* went to the same contact or an id is shared, however sends interleave.
THEOREM StatusTruthful == Spec => []StatusTruthfulUnlessShared
<1>1. Init => StatusInv
  BY DEF Init, StatusInv, StatusTruthfulUnlessShared, Used
<1>2. StatusInv => StatusTruthfulUnlessShared
  BY DEF StatusInv
<1> QED
  BY <1>1, <1>2, TruthInit, TruthStep, StatusStep, PTL DEF Spec

-----------------------------------------------------------------------------
(* A request completes once.                                               *)

Ended == {"failed", "delivered", "timedout", "lost"}

\* The waiting task removes its request from PendingAcks, whatever became of it.
EndInv == \A s \in Sends : phase[s] \in Ended => s \notin pending[Owner(s)]

\* What a step may do to a request that has ended, and that one that ends is
\* removed.
LEMMA EndStep ==
  ASSUME TypeInv, EndInv, [Next]_vars
  PROVE  /\ EndInv'
         /\ \A s \in Sends : phase[s] \in Ended =>
              phase'[s] = phase[s] /\ signal'[s] = signal[s] /\ s \notin pending'[Owner(s)]
<1> USE DEF TypeInv, TypeOK, Ended
<1> DEFINE Final == \A s \in Sends : phase[s] \in Ended =>
                      phase'[s] = phase[s] /\ signal'[s] = signal[s] /\ s \notin pending'[Owner(s)]
<1>0. \A t \in Sends : Owner(t) \in Nodes
  BY SendParts
<1>1. ASSUME NEW s \in Sends, NEW p \in Nodes, SendBegin(s, p) PROVE EndInv' /\ Final
  <2>1. /\ phase[s] = "unused" /\ phase'[s] = "begun" /\ signal' = signal
        /\ \A t \in Sends : t # s => phase'[t] = phase[t]
        /\ \A n \in Nodes : pending'[n] \subseteq pending[n] \cup {s}
    BY <1>1 DEF SendBegin
  <2> QED BY <1>0, <2>1 DEF EndInv
<1>2. ASSUME NEW s \in Sends, PreviewPanics(s) \/ SendText(s) \/ Expire(s) \/ Confirmed(s) \/ GiveUp(s)
      PROVE  EndInv' /\ Final
  <2>1. /\ phase[s] \notin Ended /\ signal' = signal
        /\ \A t \in Sends : t # s => phase'[t] = phase[t]
        /\ \A n \in Nodes : pending'[n] \subseteq pending[n]
    BY <1>2 DEF PreviewPanics, SendText, Expire, Confirmed, GiveUp
  <2>2. phase'[s] \in Ended => s \notin pending'[Owner(s)]
    BY <1>0, <1>2 DEF PreviewPanics, SendText, Expire, Confirmed, GiveUp
  <2> QED BY <1>0, <2>1, <2>2 DEF EndInv
<1>3. ASSUME NEW n \in Nodes, Restart(n) PROVE EndInv' /\ Final
  <2>1. /\ signal' = signal /\ pending'[n] = {} /\ \A m \in Nodes : pending'[m] \subseteq pending[m]
        /\ \A t \in Sends : (phase[t] \in Ended \/ Owner(t) # n) => phase'[t] = phase[t]
    BY <1>3 DEF Restart
  <2> QED BY <1>0, <2>1 DEF EndInv
<1>4. ASSUME NEW f \in acking, FinishAck(f) PROVE EndInv' /\ Final
  <2>1. phase' = phase /\ \A m \in Nodes : pending'[m] \subseteq pending[m]
    BY <1>4 DEF FinishAck
  <2>2. \A t \in Sends : phase[t] \in Ended => signal'[t] = signal[t]
    BY <1>4 DEF FinishAck
  <2> QED BY <1>0, <2>1, <2>2 DEF EndInv
<1>5. CASE \/ \E n \in Nodes : \E s \in receipts[n] : SendReceipt(n, s)
           \/ \E f \in net : ReceiveText(f) \/ ReceiveAck(f) \/ Lose(f)
           \/ \E l \in links : Break(l)
           \/ UNCHANGED vars
  <2>1. UNCHANGED <<phase, signal, pending>>
    BY <1>5 DEF SendReceipt, ReceiveText, ReceiveAck, Lose, Break, vars, sendVars
  <2> QED BY <2>1 DEF EndInv
<1> QED BY <1>1, <1>2, <1>3, <1>4, <1>5 DEF Next, SendStep, Deliver

\* After a request failed, timed out, was confirmed or lost, no late, repeated
\* or forwarded ack changes its outcome, and it is never pending again.
THEOREM OutcomesFinal == Spec => OutcomeFinal
<1>1. Init => EndInv
  BY DEF Init, EndInv, Ended
<1>2. TypeInv /\ EndInv /\ [Next]_vars => EndInv'
  BY EndStep
<1>3. TypeInv /\ EndInv /\ [Next]_vars =>
        [\A s \in Sends : phase[s] \in {"failed", "delivered", "timedout", "lost"} =>
           phase'[s] = phase[s] /\ signal'[s] = signal[s] /\ s \notin pending'[Owner(s)]]_vars
  BY EndStep DEF Ended
<1> QED
  BY <1>1, <1>2, <1>3, TypeInit, TypeStep, PTL DEF Spec, OutcomeFinal

-----------------------------------------------------------------------------
(* RefinesDelivery.  A message on the wire has left: its sender is waiting   *)
(* or done waiting, and phases never go back.                               *)

Left == {"waiting", "expired", "delivered", "timedout", "lost"}
LeftInv == \A f \in net : f.type = "text" => phase[f.send] \in Left

LEMMA LeftStep ==
  ASSUME TypeInv, LeftInv, [Next]_vars
  PROVE  LeftInv'
<1> USE DEF TypeInv, TypeOK, Left
<1>0. \A f \in net : f.type = "text" => f.send \in Sends
  BY FrameParts
<1>1. ASSUME \A s \in Sends : phase[s] \in Left => phase'[s] \in Left,
             \A f \in net' : f.type = "text" => f \in net
      PROVE  LeftInv'
  BY <1>0, <1>1 DEF LeftInv
<1>2. ASSUME NEW s \in Sends, NEW p \in Nodes, SendBegin(s, p) PROVE LeftInv'
  <2>1. net' = net /\ phase[s] = "unused" /\ \A t \in Sends : t # s => phase'[t] = phase[t]
    BY <1>2 DEF SendBegin
  <2> QED BY <1>1, <2>1
<1>3. ASSUME NEW s \in Sends, PreviewPanics(s) \/ Expire(s) \/ Confirmed(s) \/ GiveUp(s) PROVE LeftInv'
  <2>1. /\ net' = net /\ \A t \in Sends : t # s => phase'[t] = phase[t]
        /\ phase[s] \in Left => phase'[s] \in Left
    BY <1>3 DEF PreviewPanics, Expire, Confirmed, GiveUp
  <2> QED BY <1>1, <2>1
<1>4. ASSUME NEW s \in Sends, SendText(s) PROVE LeftInv'
  <2>1. phase[s] = "begun" /\ \A t \in Sends : t # s => phase'[t] = phase[t]
    BY <1>4 DEF SendText
  <2>2. \/ net' = net
        \/ phase'[s] = "waiting" /\ \E T : net' = net \cup {Text(s, q) : q \in T}
    BY <1>4 DEF SendText
  <2>3. \A q : Text(s, q).send = s
    BY DEF Text
  <2>4. CASE net' = net
    BY <1>1, <2>1, <2>4
  <2>5. CASE phase'[s] = "waiting" /\ \E T : net' = net \cup {Text(s, q) : q \in T}
    <3>1. \A f \in net' : f \in net \/ f.send = s
      BY <2>3, <2>5
    <3> QED
      BY <1>0, <2>1, <2>5, <3>1 DEF LeftInv
  <2> QED BY <2>2, <2>4, <2>5
<1>5. ASSUME NEW n \in Nodes, NEW s \in receipts[n], SendReceipt(n, s) PROVE LeftInv'
  <2>1. phase' = phase /\ \E T : net' = net \cup {Ack(rid[s], n, q) : q \in T}
    BY <1>5 DEF SendReceipt, sendVars
  <2>2. \A q : Ack(rid[s], n, q).type = "ack"
    BY DEF Ack
  <2> QED BY <1>1, <2>1, <2>2
<1>6. ASSUME NEW f \in net, ReceiveText(f) \/ ReceiveAck(f) \/ Lose(f) PROVE LeftInv'
  <2>1. phase' = phase /\ net' \subseteq net
    BY <1>6 DEF ReceiveText, ReceiveAck, Lose, sendVars
  <2> QED BY <1>1, <2>1
<1>7. ASSUME NEW f \in acking, FinishAck(f) PROVE LeftInv'
  <2>1. phase' = phase /\ \E T : net' = net \cup {Ack(f.id, f.to, q) : q \in T}
    BY <1>7 DEF FinishAck
  <2>2. \A q : Ack(f.id, f.to, q).type = "ack"
    BY DEF Ack
  <2> QED BY <1>1, <2>1, <2>2
<1>8. ASSUME NEW l \in links, Break(l) PROVE LeftInv'
  <2>1. phase' = phase /\ net' = net
    BY <1>8 DEF Break, sendVars
  <2> QED BY <1>1, <2>1
<1>9. ASSUME NEW n \in Nodes, Restart(n) PROVE LeftInv'
  <2>1. /\ net' = net
        /\ \A s \in Sends : phase'[s] = phase[s] \/ phase'[s] = "lost"
    BY <1>9 DEF Restart
  <2> QED BY <1>1, <2>1
<1>10. CASE UNCHANGED vars
  BY <1>1, <1>10 DEF vars, sendVars
<1> QED
  BY <1>2, <1>3, <1>4, <1>5, <1>6, <1>7, <1>8, <1>9, <1>10 DEF Next, SendStep, Deliver

\* The view of Delivery, step by step.
LEMMA BeginIsPromise ==
  ASSUME TypeInv, TypeInv', NEW s \in Sends, NEW p \in Nodes, SendBegin(s, p)
  PROVE  Promise!Next
<1> USE DEF TypeInv, TypeOK
<1>1. /\ phase[s] = "unused" /\ phase' = [phase EXCEPT ![s] = "begun"]
      /\ rid' = [rid EXCEPT ![s] = nextId[Owner(s)]] /\ delivered' = delivered
  BY DEF SendBegin
<1>2. nextId[Owner(s)] \in Rids
  <2>1. rid'[s] \in Rids
    BY <1>1 DEF IdBound
  <2> QED BY <1>1, <2>1
<1>3. Promise!Begin(s)
  BY <1>1, <1>2 DEF Promise!Begin, Told
<1> QED
  BY <1>3 DEF Promise!Next

\* A step of one send: an answer, a confirmation, a timeout.
LEMMA SendIsPromise ==
  ASSUME TruthInv, NEW s \in Sends, SendStep(s)
  PROVE  Promise!Next \/ UNCHANGED Promise!vars
<1> USE DEF TruthInv, TypeInv, TypeOK
<1>1. rid' = rid /\ delivered' = delivered
  BY DEF SendStep, PreviewPanics, SendText, Confirmed, Expire, GiveUp
<1>2. CASE PreviewPanics(s)
  <2>1. Promise!Answer(s, "refused")
    BY <1>1, <1>2 DEF PreviewPanics, Promise!Answer, Told
  <2> QED BY <2>1 DEF Promise!Next
<1>3. CASE SendText(s)
  <2>1. /\ phase[s] = "begun"
        /\ phase' = [phase EXCEPT ![s] = "failed"] \/ phase' = [phase EXCEPT ![s] = "waiting"]
    BY <1>3 DEF SendText
  <2>2. Promise!Answer(s, "refused") \/ Promise!Answer(s, "sent")
    <3>1. CASE phase' = [phase EXCEPT ![s] = "failed"]
      BY <1>1, <2>1, <3>1 DEF Promise!Answer, Told
    <3>2. CASE phase' = [phase EXCEPT ![s] = "waiting"]
      BY <1>1, <2>1, <3>2 DEF Promise!Answer, Told
    <3> QED BY <2>1, <3>1, <3>2
  <2> QED BY <2>2 DEF Promise!Next
<1>4. CASE Confirmed(s)
  <2>1. s \in delivered \/ \E t \in Sends : t # s /\ rid[t] = rid[s]
    BY <1>4 DEF Confirmed, AckTruthfulUnlessReused, Reused
  <2>2. Promise!Confirm(s)
    BY <1>1, <1>4, <2>1 DEF Confirmed, Promise!Confirm, Told
  <2> QED BY <2>2 DEF Promise!Next
<1>5. CASE Expire(s)
  BY <1>1, <1>5 DEF Expire, Promise!vars, Told
<1>6. CASE GiveUp(s)
  <2>1. Promise!GiveUp({s})
    BY <1>1, <1>6 DEF GiveUp, Promise!GiveUp, Told
  <2> QED BY <2>1 DEF Promise!Next
<1> QED
  BY <1>2, <1>3, <1>4, <1>5, <1>6 DEF SendStep

\* A message reaches its receiver, perhaps again.
LEMMA TextIsPromise ==
  ASSUME TypeInv, LeftInv, NEW f \in net, ReceiveText(f)
  PROVE  Promise!Next \/ UNCHANGED Promise!vars
<1> USE DEF TypeInv, TypeOK
<1>1. f.send \in Sends /\ f.type = "text"
  BY FrameParts DEF ReceiveText
<1>2. /\ phase' = phase /\ rid' = rid
      /\ delivered' = delivered \/ delivered' = delivered \cup {f.send}
  BY DEF ReceiveText, sendVars
<1>3. CASE delivered' = delivered
  BY <1>2, <1>3 DEF Promise!vars
<1>4. CASE delivered' # delivered
  <2>1. Told(phase[f.send]) \in {"sent", "confirmed", "unsure"}
    BY <1>1 DEF LeftInv, Left, Told
  <2>2. Promise!Arrive(f.send)
    BY <1>1, <1>2, <1>4, <2>1 DEF Promise!Arrive
  <2> QED BY <1>1, <2>2 DEF Promise!Next
<1> QED
  BY <1>3, <1>4

\* A restart ends the sends that were under way.
LEMMA RestartIsPromise ==
  ASSUME TypeInv, NEW n \in Nodes, Restart(n)
  PROVE  Promise!Next
<1> USE DEF TypeInv, TypeOK
<1> DEFINE S == {s \in Sends : Owner(s) = n /\ phase[s] \in {"begun", "waiting", "expired"}}
<1>1. /\ phase' = [s \in Sends |-> IF s \in S THEN "lost" ELSE phase[s]]
      /\ rid' = rid /\ delivered' = delivered
  BY DEF Restart
<1>2. Promise!GiveUp(S)
  <2>1. \A s \in S : Told(phase[s]) \in {"begun", "sent"}
    BY DEF Told
  <2>2. \A s \in Sends : Told(phase'[s]) = IF s \in S THEN "unsure" ELSE Told(phase[s])
    BY <1>1 DEF Told
  <2> QED
    BY <1>1, <2>1, <2>2 DEF Promise!GiveUp
<1> QED
  BY <1>2 DEF Promise!Next

LEMMA StepIsPromise ==
  ASSUME TruthInv, TruthInv', LeftInv, [Next]_vars
  PROVE  [Promise!Next]_(Promise!vars)
<1> SUFFICES Promise!Next \/ UNCHANGED Promise!vars
  OBVIOUS
<1>1. ASSUME UNCHANGED <<phase, rid, delivered>> PROVE UNCHANGED Promise!vars
  BY <1>1 DEF Promise!vars
<1>2. CASE UNCHANGED vars
  BY <1>1, <1>2 DEF vars, sendVars
<1>3. ASSUME NEW n \in Nodes, NEW s \in receipts[n], SendReceipt(n, s)
      PROVE  UNCHANGED <<phase, rid, delivered>>
  BY <1>3 DEF SendReceipt, sendVars
<1>4. ASSUME NEW f \in net, ReceiveAck(f) \/ Lose(f)
      PROVE  UNCHANGED <<phase, rid, delivered>>
  BY <1>4 DEF ReceiveAck, Lose, sendVars
<1>5. ASSUME (\E f \in acking : FinishAck(f)) \/ \E l \in links : Break(l)
      PROVE  UNCHANGED <<phase, rid, delivered>>
  BY <1>5 DEF FinishAck, Break, sendVars
<1>6. TypeInv /\ TypeInv'
  BY DEF TruthInv
<1>7. CASE Next
  BY <1>1, <1>3, <1>4, <1>5, <1>6, <1>7, BeginIsPromise, SendIsPromise, TextIsPromise, RestartIsPromise
     DEF Next, Deliver
<1> QED
  BY <1>2, <1>7

\* handle_send_chat, the two message handlers and whatever networks, timeouts
\* and restarts do to them implement Delivery: refused messages never arrive,
\* confirmed ones have or share their id with another, and nothing the sender was
\* told is taken back.
THEOREM KeepsPromise == Spec => RefinesDelivery
<1>1. Init => LeftInv /\ Promise!Init
  BY DEF Init, LeftInv, Promise!Init, Told
<1>2. TruthInv /\ LeftInv /\ [Next]_vars => LeftInv'
  BY LeftStep DEF TruthInv
<1>3. TruthInv /\ TruthInv' /\ LeftInv /\ [Next]_vars => [Promise!Next]_(Promise!vars)
  BY StepIsPromise
<1> QED
  BY <1>1, <1>2, <1>3, TruthInit, TruthStep, PTL DEF Spec, RefinesDelivery, Promise!Spec
-----------------------------------------------------------------------------
(* Forwarding runs out.                                                    *)

\* A new key is remembered, or the set was not empty and is cleared.
LEMMA RememberNew ==
  ASSUME NEW old, NEW key, key \notin old
  PROVE  \/ Remember(old, key) = old \cup {key}
         \/ old # {} /\ Remember(old, key) = {}
<1>1. old = {} => Cardinality(old \cup {key}) = 1
  <2>1. {} \cup {key} = {key}
    OBVIOUS
  <2> QED BY <2>1, FS_Singleton
<1> QED BY <1>1, MessagingAssumption DEF Remember

\* The step of one send.
LEMMA SendUsesUp ==
  ASSUME TypeInv, NEW s \in Sends, (\E p \in Nodes : SendBegin(s, p)) \/ SendStep(s)
  PROVE  /\ seen' = seen /\ (faults' = faults \/ Fault)
         /\ Stage(phase[s]) < Stage(phase'[s])
         /\ \A t \in Sends \ {s} : phase'[t] = phase[t]
<1> USE DEF TypeInv, TypeOK
<1>1. /\ seen' = seen /\ (faults' = faults \/ Fault)
      /\ \A t \in Sends \ {s} : phase'[t] = phase[t]
  BY DEF SendStep, SendBegin, PreviewPanics, SendText, Confirmed, Expire, GiveUp, StoreFails, faultVars
<1>2. \/ phase[s] = "unused" /\ phase'[s] = "begun"
      \/ phase[s] = "begun" /\ phase'[s] \in {"panicked", "failed", "waiting"}
      \/ phase[s] = "waiting" /\ phase'[s] \in {"delivered", "expired"}
      \/ phase[s] = "expired" /\ phase'[s] = "timedout"
  BY DEF SendStep, SendBegin, PreviewPanics, SendText, Confirmed, Expire, GiveUp
<1>3. Stage(phase[s]) < Stage(phase'[s])
  BY <1>2 DEF Stage
<1> QED BY <1>1, <1>3

\* On every network, what forwarding and retrying can do is bounded by the
\* sends, the memory of the nodes and the faults: a step that neither fails
\* nor clears SeenMessages uses something up that comes back with none of
\* the steps ranked after it.
THEOREM FloodRunsOut == Spec => WorkUsedUp
<1>1. ASSUME TypeInv, Next PROVE UsesUp
  <2> USE DEF TypeInv, TypeOK, UsesUp
  <2>1. ASSUME NEW s \in Sends, (\E p \in Nodes : SendBegin(s, p)) \/ SendStep(s) PROVE UsesUp
    BY <1>1, <2>1, SendUsesUp DEF Fault
  <2>2. ASSUME NEW n \in Nodes, NEW s \in receipts[n], SendReceipt(n, s) PROVE UsesUp
    BY <2>2 DEF SendReceipt, sendVars, faultVars
  <2>3. ASSUME NEW f \in net, ReceiveText(f) PROVE UsesUp
    <3>0. f \in Frames /\ f.type = "text"
      BY <1>1, <2>3 DEF ReceiveText
    <3>1. f.to \in Nodes /\ f.send \in Sends
      BY <3>0, FrameParts
    <3>2. TextKey(f.send) \in SeenKeys
      BY <3>1 DEF SeenKeys
    <3>3. phase' = phase /\ acking' = acking
      BY <2>3 DEF ReceiveText, sendVars, ackVars
    <3>4. faults' = faults \/ Fault
      BY <2>3 DEF ReceiveText
    <3>5. CASE Fault
      BY <1>1, <3>5 DEF Fault
    <3>6. CASE TextKey(f.send) \in seen[f.to]
      <4>1. UNCHANGED <<seen, receipts, faults>> /\ net' = net \ {f}
        BY <2>3, <3>6 DEF ReceiveText
      <4> QED BY <3>3, <4>1
    <3>7. CASE TextKey(f.send) \notin seen[f.to] /\ faults' = faults
      <4>1. seen' = [seen EXCEPT ![f.to] = Remember(@, TextKey(f.send))]
        BY <2>3, <3>7 DEF ReceiveText
      <4>2. CASE Remember(seen[f.to], TextKey(f.send)) = seen[f.to] \cup {TextKey(f.send)}
        BY <1>1, <3>1, <3>2, <3>3, <3>7, <4>1, <4>2
      <4>3. CASE seen[f.to] # {} /\ Remember(seen[f.to], TextKey(f.send)) = {}
        BY <1>1, <3>1, <4>1, <4>3
      <4> QED BY <3>7, <4>2, <4>3, RememberNew
    <3> QED BY <3>4, <3>5, <3>6, <3>7
  <2>4. ASSUME NEW f \in net, ReceiveAck(f) PROVE UsesUp
    <3>0. f \in Frames /\ f.type = "ack"
      BY <1>1, <2>4 DEF ReceiveAck
    <3>1. f.to \in Nodes /\ f.id \in Rids
      BY <3>0, FrameParts
    <3>2. AckKey(f.id) \in SeenKeys
      BY <3>1 DEF SeenKeys
    <3>3. phase' = phase /\ faults' = faults /\ receipts' = receipts
      BY <2>4 DEF ReceiveAck, sendVars, faultVars
    <3>4. CASE AckKey(f.id) \in seen[f.to]
      <4>1. UNCHANGED <<seen, acking>> /\ net' = net \ {f}
        BY <2>4, <3>4 DEF ReceiveAck
      <4> QED BY <3>3, <4>1
    <3>5. CASE AckKey(f.id) \notin seen[f.to]
      <4>1. seen' = [seen EXCEPT ![f.to] = Remember(@, AckKey(f.id))]
        BY <2>4, <3>5 DEF ReceiveAck
      <4>2. CASE Remember(seen[f.to], AckKey(f.id)) = seen[f.to] \cup {AckKey(f.id)}
        BY <1>1, <3>1, <3>2, <3>3, <3>5, <4>1, <4>2
      <4>3. CASE seen[f.to] # {} /\ Remember(seen[f.to], AckKey(f.id)) = {}
        BY <1>1, <3>1, <4>1, <4>3
      <4> QED BY <3>5, <4>2, <4>3, RememberNew
    <3> QED BY <3>4, <3>5
  <2>5. ASSUME NEW f \in net, Lose(f) PROVE UsesUp
    BY <2>5 DEF Lose, sendVars, ackVars, faultVars
  <2>6. ASSUME NEW f \in acking, FinishAck(f) PROVE UsesUp
    BY <2>6 DEF FinishAck, faultVars
  <2>7. CASE (\E l \in links : Break(l)) \/ \E n \in Nodes : Restart(n)
    BY <1>1, <2>7, MessagingAssumption DEF Break, Restart, Fault
  <2> QED BY <1>1, <2>1, <2>2, <2>3, <2>4, <2>5, <2>6, <2>7 DEF Next, Deliver
<1>2. TypeInv /\ [Next]_vars => [UsesUp]_vars
  BY <1>1
<1> QED BY <1>2, TypeInit, TypeStep, PTL DEF Spec, WorkUsedUp
=============================================================================
