-------------------------- MODULE HandshakeProofs --------------------------
(***************************************************************************)
(* Proofs about the handshake for every set of nodes, every order of their *)
(* addresses and every bound on dials and failures: types, whose secrets a *)
(* key is made of, when an initiator and a responder hold the same key,    *)
(* that a settled pair stays so, what connected pairs are left with once   *)
(* they rest, and who may still flag a peer once they have parted.         *)
(***************************************************************************)
EXTENDS Handshake, TLAPS

\* An ack carries the zero key or the responder's own secret of its session.
OfferShape == \A c \in Conns : offer[c] \in {ZeroKey, {<<To(c), c>>}}

\* A connection has two ends, which are different nodes.
LEMMA ConnEnds ==
  ASSUME NEW c \in Conns
  PROVE  From(c) \in Nodes /\ To(c) \in Nodes /\ From(c) # To(c)
BY DEF Conns, From, To

\* The key agreed on a connection is made of secrets of its ends.
LEMMA KeySecrets ==
  ASSUME NEW c \in Conns
  PROVE  Key(c) \in SUBSET Secrets /\ {<<To(c), c>>} \in SUBSET Secrets /\ <<From(c), c>> \in Secrets
BY ConnEnds DEF Key, Secrets

\* Every variable keeps its type in every behaviour of the handshake.
THEOREM TypeCorrect == Spec => []TypeOK
<1>1. Init => TypeOK
  BY DEF Init, TypeOK, ZeroKey, NoKey
<1>2. TypeOK /\ [Next]_vars => TypeOK'
  <2> SUFFICES ASSUME TypeOK, [Next]_vars
               PROVE  TypeOK'
    OBVIOUS
  <2> USE ConnEnds, KeySecrets DEF TypeOK, history
  <2>1. ASSUME NEW c \in Conns, NEW k \in StartKinds, Start(c, k)
        PROVE  TypeOK'
    BY <2>1 DEF Start, handlerVars
  <2>2. ASSUME NEW c \in Conns, Dialed(c)
        PROVE  TypeOK'
    BY <2>2 DEF Dialed, handlerVars
  <2>3. ASSUME NEW c \in Conns, DialRefused(c)
        PROVE  TypeOK'
    BY <2>3 DEF DialRefused, handlerVars, keyVars
  <2>4. ASSUME NEW c \in Conns, DialFailed(c)
        PROVE  TypeOK'
    BY <2>4 DEF DialFailed, handlerVars, keyVars
  <2>5. ASSUME NEW c \in Conns, MarkConnected(c)
        PROVE  TypeOK'
    BY <2>5 DEF MarkConnected, handlerVars, keyVars
  <2>6. ASSUME NEW c \in Conns, OnlineAccept(c)
        PROVE  TypeOK'
    BY <2>6 DEF OnlineAccept, linkVars, keyVars
  <2>7. ASSUME NEW c \in Conns, OnlineKeys(c)
        PROVE  TypeOK'
    BY <2>7 DEF OnlineKeys, linkVars, ZeroKey
  <2>8. ASSUME NEW c \in Conns, OnlineSendAck(c)
        PROVE  TypeOK'
    BY <2>8 DEF OnlineSendAck, linkVars, keyVars
  <2>9. ASSUME NEW c \in Conns, OnlineReturn(c)
        PROVE  TypeOK'
    <3>1. CASE UNCHANGED <<kind, link, temp>>
      BY <2>9, <3>1 DEF OnlineReturn
    <3>2. CASE \E d \in Conns : /\ kind' = [kind EXCEPT ![d] = "return"]
                                /\ link' = [link EXCEPT ![d] = "dialing"]
                                /\ temp' = [temp EXCEPT ![To(c)] = @ \cup {d}]
      <4> PICK d \in Conns : /\ kind' = [kind EXCEPT ![d] = "return"]
                             /\ link' = [link EXCEPT ![d] = "dialing"]
                             /\ temp' = [temp EXCEPT ![To(c)] = @ \cup {d}]
        BY <3>2
      <4> QED
        BY <2>9 DEF OnlineReturn
    <3> QED
      BY <2>9, <3>1, <3>2 DEF OnlineReturn
  <2>10. ASSUME NEW c \in Conns, Monitor(c)
         PROVE  TypeOK'
    BY <2>10 DEF Monitor, linkVars, keyVars
  <2>11. ASSUME NEW c \in Conns, AckEnds(c)
         PROVE  TypeOK'
    BY <2>11 DEF AckEnds, linkVars
  <2>12. ASSUME NEW c \in Conns, AckRegister(c)
         PROVE  TypeOK'
    BY <2>12 DEF AckRegister, linkVars, keyVars
  <2>13. ASSUME NEW c \in Conns, Drop(c)
         PROVE  TypeOK'
    BY <2>13 DEF Drop, Aborted, keyVars
  <2>14. ASSUME NEW c \in Conns, Offline(c)
         PROVE  TypeOK'
    BY <2>14 DEF Offline, handlerVars, keyVars
  <2>15. ASSUME NEW n \in Nodes, Restart(n)
         PROVE  TypeOK'
    BY <2>15 DEF Restart, Aborted, NoKey
  <2>16. CASE UNCHANGED vars
    BY <2>16 DEF vars, linkVars, handlerVars, keyVars
  <2>17. ASSUME NEW c \in Conns, OnlineKeysFails(c)
         PROVE  TypeOK'
    <3>1. /\ UNCHANGED <<kind, link, marking, offer, ack, monitor, temp, main, endsKeep, connected, crossed, restarted>>
          /\ failures' = failures + 1
          /\ undone' \subseteq Conns /\ \E o \in {"dead", "keyed"} : online' = [online EXCEPT ![c] = o]
      BY <2>17 DEF OnlineKeysFails, linkVars, keyVars
    <3> QED BY <3>1
  <2>18. ASSUME NEW c \in Conns, AckEndsFails(c)
         PROVE  TypeOK'
    BY <2>18 DEF AckEndsFails, linkVars, keyVars
  <2> QED
    BY <2>1, <2>2, <2>3, <2>4, <2>5, <2>6, <2>7, <2>8, <2>9, <2>10, <2>11,
       <2>12, <2>13, <2>14, <2>15, <2>16, <2>17, <2>18 DEF Next, Step, Fault, CipherFails
<1> QED
  BY <1>1, <1>2, PTL DEF Spec

\* Steps that touch neither the main tables nor the acks' keys.
LEMMA KeysUntouched ==
  ASSUME OfferShape, KeyOwnership, UNCHANGED <<main, offer>>
  PROVE  OfferShape' /\ KeyOwnership'
BY DEF OfferShape, KeyOwnership

\* Steps that give node n a key for p made on one connection between the two.
LEMMA KeyAdded ==
  ASSUME TypeOK, KeyOwnership,
         NEW n \in Nodes, NEW p \in Nodes, NEW c \in Conns,
         {From(c), To(c)} = {n, p},
         main' = [main EXCEPT ![n][p] = Key(c)]
  PROVE  KeyOwnership'
<1> SUFFICES ASSUME NEW m \in Nodes, NEW q \in Nodes, main'[m][q] # NoKey
             PROVE  \E d \in Conns : {From(d), To(d)} = {m, q} /\ main'[m][q] = Key(d)
  BY DEF KeyOwnership
<1>1. CASE m = n /\ q = p
  <2>1. main'[m][q] = Key(c)
    BY <1>1 DEF TypeOK
  <2>2. {From(c), To(c)} = {m, q}
    BY <1>1
  <2> QED
    BY <2>1, <2>2, Zenon
<1>2. CASE ~ (m = n /\ q = p)
  <2>1. main'[m][q] = main[m][q]
    BY <1>2 DEF TypeOK
  <2> QED
    BY <2>1 DEF KeyOwnership
<1> QED
  BY <1>1, <1>2

\* Every step keeps what acks may carry and whose keys are.
LEMMA OfferStep == TypeOK /\ OfferShape /\ KeyOwnership /\ [Next]_vars => OfferShape' /\ KeyOwnership'
<1> SUFFICES ASSUME TypeOK, OfferShape, KeyOwnership, [Next]_vars
             PROVE  OfferShape' /\ KeyOwnership'
  OBVIOUS
<1>1. ASSUME NEW c \in Conns, OnlineKeys(c)
      PROVE  OfferShape' /\ KeyOwnership'
  <2>1. OfferShape'
    BY <1>1 DEF OnlineKeys, OfferShape, TypeOK
  <2>2. CASE main[To(c)][From(c)] = NoKey
    <3>1. main' = [main EXCEPT ![To(c)][From(c)] = Key(c)]
      BY <1>1, <2>2 DEF OnlineKeys
    <3>2. {From(c), To(c)} = {To(c), From(c)}
      OBVIOUS
    <3>3. KeyOwnership'
      BY <3>1, <3>2, ConnEnds, KeyAdded, Zenon
    <3> QED
      BY <2>1, <3>3
  <2>3. CASE main[To(c)][From(c)] # NoKey
    <3>1. main' = main
      BY <1>1, <2>3 DEF OnlineKeys
    <3> QED
      BY <2>1, <3>1 DEF KeyOwnership
  <2> QED
    BY <2>2, <2>3
<1>2. ASSUME NEW c \in Conns, AckEnds(c)
      PROVE  OfferShape' /\ KeyOwnership'
  <2>1. offer' = offer
    BY <1>2 DEF AckEnds
  <2>2. CASE main' = main
    BY <2>1, <2>2, KeysUntouched
  <2>3. CASE /\ offer[c] # ZeroKey
             /\ main' = [main EXCEPT ![From(c)][To(c)] = {<<From(c), c>>} \cup offer[c]]
    <3>1. offer[c] = {<<To(c), c>>}
      BY <2>3 DEF OfferShape
    <3>2. {<<From(c), c>>} \cup offer[c] = Key(c)
      BY <3>1 DEF Key
    <3>3. main' = [main EXCEPT ![From(c)][To(c)] = Key(c)]
      BY <2>3, <3>2
    <3> QED
      BY <2>1, <3>3, ConnEnds, KeyAdded DEF OfferShape
  <2> QED
    BY <1>2, <2>2, <2>3 DEF AckEnds
<1>3. ASSUME NEW n \in Nodes, Restart(n)
      PROVE  OfferShape' /\ KeyOwnership'
  <2>1. OfferShape'
    BY <1>3 DEF Restart, OfferShape
  <2>2. ASSUME NEW m \in Nodes, NEW p \in Nodes, main'[m][p] # NoKey
        PROVE  main'[m][p] = main[m][p]
    BY <1>3, <2>2 DEF Restart, TypeOK, NoKey
  <2> QED
    BY <2>1, <2>2 DEF KeyOwnership
<1>4. CASE UNCHANGED <<main, offer>>
  BY <1>4, KeysUntouched
<1>5. ASSUME NEW c \in Conns, NEW k \in StartKinds, Start(c, k)
      PROVE  UNCHANGED <<main, offer>>
  BY <1>5 DEF Start, handlerVars
<1>6. ASSUME NEW c \in Conns,
             \/ Dialed(c) \/ DialRefused(c) \/ MarkConnected(c) \/ OnlineAccept(c)
             \/ OnlineSendAck(c) \/ OnlineReturn(c) \/ AckRegister(c) \/ Monitor(c)
      PROVE  UNCHANGED <<main, offer>>
  BY <1>6 DEF Dialed, DialRefused, MarkConnected, OnlineAccept, OnlineSendAck,
              OnlineReturn, AckRegister, Monitor, linkVars, handlerVars, keyVars
<1>7. ASSUME NEW c \in Conns, Fault(c)
      PROVE  UNCHANGED <<main, offer>>
  BY <1>7 DEF Fault, DialFailed, Drop, Offline, CipherFails, OnlineKeysFails, AckEndsFails, handlerVars, keyVars
<1>8. CASE UNCHANGED vars
  BY <1>8, KeysUntouched DEF vars, handlerVars, keyVars
<1> QED
  BY <1>1, <1>2, <1>3, <1>4, <1>5, <1>6, <1>7, <1>8 DEF Next, Step

\* No key in any node's main table mixes sessions or peers, however many
\* nodes shake hands, in whatever order their handlers overlap and whatever
\* fails in between.
THEOREM KeysOwned == Spec => []KeyOwnership
<1>1. Init => OfferShape /\ KeyOwnership
  BY DEF Init, OfferShape, KeyOwnership
<1> QED
  BY <1>1, OfferStep, TypeCorrect, PTL DEF Spec

-----------------------------------------------------------------------------
(* The zero key.                                                           *)

\* How far the two handlers of a connection may be.
Stages ==
  \A c \in Conns :
    /\ link[c] = "up" /\ ack[c] # "none" => online[c] # "dead"
    /\ ack[c] # "none" => online[c] \in {"acked", "done", "dead"}
    /\ offer[c] # ZeroKey => online[c] \in {"keyed", "acked", "done", "dead"}
    /\ link[c] = "up" /\ ack[c] \in {"none", "flight"} => c \in temp[From(c)]

\* The manager keeps one outbound connection per peer.
UpOnce ==
  \A c, d \in Conns :
    link[c] = "up" /\ link[d] = "up" /\ From(c) = From(d) /\ To(c) = To(d) => c = d

\* A connection that is not up yet has no handlers and no ack.
Unborn ==
  \A c \in Conns :
    /\ kind[c] = "unused" => link[c] = "unused"
    /\ link[c] \in {"unused", "dialing"} => offer[c] = ZeroKey
    /\ online[c] # "idle" => link[c] \in {"up", "down"}

LEMMA UnbornStep == TypeOK /\ Unborn /\ [Next]_vars => Unborn'
<1> SUFFICES ASSUME TypeOK, Unborn, [Next]_vars PROVE Unborn'
  OBVIOUS
<1> USE DEF TypeOK
<1>1. ASSUME NEW c \in Conns, NEW k \in StartKinds, Start(c, k) PROVE Unborn'
  BY <1>1 DEF Unborn, Start, NextDial, handlerVars, StartKinds
<1>2. ASSUME NEW c \in Conns, Dialed(c) \/ DialRefused(c) \/ DialFailed(c) PROVE Unborn'
  BY <1>2 DEF Unborn, Dialed, DialRefused, DialFailed, handlerVars
<1>3. ASSUME NEW c \in Conns, MarkConnected(c) \/ Monitor(c) \/ AckRegister(c) \/ AckEnds(c) PROVE Unborn'
  BY <1>3 DEF Unborn, MarkConnected, Monitor, AckRegister, AckEnds, linkVars, handlerVars
<1>4. ASSUME NEW c \in Conns, OnlineAccept(c) \/ OnlineKeys(c) \/ OnlineSendAck(c) PROVE Unborn'
  BY <1>4 DEF Unborn, OnlineAccept, OnlineKeys, OnlineSendAck, linkVars
<1>5. ASSUME NEW c \in Conns, OnlineReturn(c) PROVE Unborn'
  <2>1. online[c] = "acked" /\ online' = [online EXCEPT ![c] = "done"] /\ offer' = offer
    BY <1>5 DEF OnlineReturn
  <2>2. CASE UNCHANGED <<kind, link>>
    BY <2>1, <2>2 DEF Unborn
  <2>3. CASE \E d \in Conns : /\ NextDial(d) /\ kind' = [kind EXCEPT ![d] = "return"]
                              /\ link' = [link EXCEPT ![d] = "dialing"]
    <3>1. PICK d \in Conns : /\ NextDial(d) /\ kind' = [kind EXCEPT ![d] = "return"]
                             /\ link' = [link EXCEPT ![d] = "dialing"]
      BY <2>3
    <3>2. link[d] = "unused" /\ d # c
      BY <2>1, <3>1 DEF Unborn, NextDial
    <3> QED BY <2>1, <3>1, <3>2 DEF Unborn
  <2> QED BY <1>5, <2>2, <2>3 DEF OnlineReturn
<1>6. ASSUME NEW c \in Conns, Drop(c) \/ Offline(c) PROVE Unborn'
  BY <1>6 DEF Unborn, Drop, Offline, Aborted, handlerVars
<1>7. ASSUME NEW n \in Nodes, Restart(n) PROVE Unborn'
  BY <1>7 DEF Unborn, Restart, Aborted
<1>8. CASE UNCHANGED vars
  BY <1>8 DEF Unborn, vars, linkVars, handlerVars
<1>9. ASSUME NEW c \in Conns, CipherFails(c) PROVE Unborn'
  BY <1>9 DEF Unborn, CipherFails, OnlineKeysFails, AckEndsFails, linkVars
<1> QED BY <1>1, <1>2, <1>3, <1>4, <1>5, <1>6, <1>7, <1>8, <1>9 DEF Next, Step, Fault

\* The links of connections, and those a responder's dial back adds.
LEMMA LinkSteps ==
  ASSUME TypeOK, Unborn, [Next]_vars, NEW c \in Conns
  PROVE  /\ link[c] = "down" => link'[c] = "down"
         /\ link[c] = "up" => link'[c] \in {"up", "down"}
         /\ link[c] = "dialing" => link'[c] \in {"dialing", "up", "down"}
         /\ link'[c] = "up" => link[c] = "up" \/ Dialed(c)
         /\ link[c] # "down" /\ link'[c] = "down" => DialRefused(c) \/ Fault(c) \/ \E n \in Nodes : Restart(n)
<1> USE DEF TypeOK
<1>1. ASSUME NEW d \in Conns, NEW k \in StartKinds, Start(d, k)
      PROVE  link[d] = "unused" /\ link' = [link EXCEPT ![d] = "dialing"]
  BY <1>1 DEF Start, NextDial, Unborn
<1>2. ASSUME NEW d \in Conns, Dialed(d) PROVE link[d] = "dialing" /\ link' = [link EXCEPT ![d] = "up"]
  BY <1>2 DEF Dialed
<1>3. ASSUME NEW d \in Conns, DialRefused(d) \/ DialFailed(d) \/ Drop(d) \/ Offline(d)
      PROVE  link[d] \in {"dialing", "up"} /\ link' = [link EXCEPT ![d] = "down"]
  BY <1>3 DEF DialRefused, DialFailed, Drop, Offline
<1>4. ASSUME NEW d \in Conns, \/ MarkConnected(d) \/ OnlineAccept(d) \/ OnlineKeys(d) \/ OnlineSendAck(d)
                              \/ AckEnds(d) \/ AckRegister(d) \/ Monitor(d) \/ CipherFails(d)
      PROVE  link' = link
  BY <1>4 DEF MarkConnected, OnlineAccept, OnlineKeys, OnlineSendAck, AckEnds, AckRegister, Monitor,
              CipherFails, OnlineKeysFails, AckEndsFails, linkVars
<1>5. ASSUME NEW d \in Conns, OnlineReturn(d)
      PROVE  \/ link' = link
             \/ \E e \in Conns : link[e] = "unused" /\ link' = [link EXCEPT ![e] = "dialing"]
  BY <1>5 DEF OnlineReturn, NextDial, Unborn
<1>6. ASSUME NEW n \in Nodes, Restart(n)
      PROVE  link'[c] = link[c] \/ (link[c] \in {"dialing", "up"} /\ link'[c] = "down")
  BY <1>6 DEF Restart
<1>7. CASE UNCHANGED vars
  BY <1>7 DEF vars, linkVars
<1> QED BY <1>1, <1>2, <1>3, <1>4, <1>5, <1>6, <1>7 DEF Next, Step, Fault

LEMMA UpOnceStep == TypeOK /\ Unborn /\ UpOnce /\ [Next]_vars => UpOnce'
<1> SUFFICES ASSUME TypeOK, Unborn, UpOnce, [Next]_vars, NEW c \in Conns, NEW d \in Conns,
                    link'[c] = "up", link'[d] = "up", From(c) = From(d), To(c) = To(d), c # d
             PROVE  FALSE
  BY DEF UpOnce
<1>1. (link[c] = "up" \/ Dialed(c)) /\ (link[d] = "up" \/ Dialed(d))
  BY LinkSteps
<1>2. CASE Dialed(c)
  <2>1. link'[d] = link[d]
    BY <1>2 DEF Dialed, TypeOK
  <2> QED BY <1>2, <2>1 DEF Dialed, HasOutbound
<1>3. CASE Dialed(d)
  <2>1. link'[c] = link[c]
    BY <1>3 DEF Dialed, TypeOK
  <2> QED BY <1>3, <2>1 DEF Dialed, HasOutbound
<1> QED BY <1>1, <1>2, <1>3 DEF UpOnce

\* What a step does to the handlers of a connection.
LEMMA HandlerSteps ==
  ASSUME TypeOK, [Next]_vars, NEW c \in Conns
  PROVE  /\ \/ online'[c] = online[c]
            \/ OnlineAccept(c) \/ OnlineKeys(c) \/ OnlineSendAck(c) \/ OnlineReturn(c) \/ OnlineKeysFails(c)
            \/ online[c] \in {"accepted", "keyed", "acked"} /\ online'[c] = "dead" /\ link'[c] # "up"
         /\ \/ ack'[c] = ack[c]
            \/ OnlineSendAck(c) /\ link[c] = "up" /\ ack'[c] = "flight"
            \/ AckEnds(c) \/ AckRegister(c) \/ AckEndsFails(c)
            \/ ack[c] = "ended" /\ ack'[c] = "dead"
         /\ offer'[c] = offer[c] \/ OnlineKeys(c)
<1> USE DEF TypeOK
<1>1. ASSUME NEW d \in Conns, NEW k \in StartKinds, Start(d, k) PROVE UNCHANGED <<online, ack, offer>>
  BY <1>1 DEF Start, handlerVars
<1>2. ASSUME NEW d \in Conns, Dialed(d) \/ DialRefused(d) \/ MarkConnected(d) \/ Monitor(d) \/ DialFailed(d) \/ Offline(d)
      PROVE  UNCHANGED <<online, ack, offer>>
  BY <1>2 DEF Dialed, DialRefused, MarkConnected, Monitor, DialFailed, Offline, handlerVars
<1>3. ASSUME NEW d \in Conns, OnlineAccept(d) \/ OnlineReturn(d)
      PROVE  (c # d => online'[c] = online[c]) /\ UNCHANGED <<ack, offer>>
  BY <1>3 DEF OnlineAccept, OnlineReturn
<1>4. ASSUME NEW d \in Conns, OnlineKeys(d)
      PROVE  (c # d => online'[c] = online[c] /\ offer'[c] = offer[c]) /\ UNCHANGED ack
  BY <1>4 DEF OnlineKeys
<1>5. ASSUME NEW d \in Conns, OnlineSendAck(d)
      PROVE  /\ c # d => online'[c] = online[c] /\ ack'[c] = ack[c]
             /\ ack'[c] = ack[c] \/ (link[c] = "up" /\ ack'[c] = "flight")
             /\ UNCHANGED offer
  BY <1>5 DEF OnlineSendAck
<1>6. ASSUME NEW d \in Conns, AckEnds(d) \/ AckRegister(d)
      PROVE  (c # d => ack'[c] = ack[c]) /\ UNCHANGED <<online, offer>>
  BY <1>6 DEF AckEnds, AckRegister
<1>7. ASSUME NEW d \in Conns, Drop(d)
      PROVE  /\ online'[c] = online[c] \/ (online[c] \in {"accepted", "keyed", "acked"} /\ online'[c] = "dead" /\ link'[c] # "up")
             /\ ack'[c] = ack[c] \/ (ack[c] = "ended" /\ ack'[c] = "dead")
             /\ UNCHANGED offer
  BY <1>7 DEF Drop, Aborted
<1>8. ASSUME NEW n \in Nodes, Restart(n)
      PROVE  /\ online'[c] = online[c] \/ (online[c] \in {"accepted", "keyed", "acked"} /\ online'[c] = "dead" /\ link'[c] # "up")
             /\ ack'[c] = ack[c] \/ (ack[c] = "ended" /\ ack'[c] = "dead")
             /\ UNCHANGED offer
  BY <1>8 DEF Restart, Aborted
<1>9. CASE UNCHANGED vars
  BY <1>9 DEF vars, handlerVars
<1>10. CASE \E d \in Conns : Step(d)
  <2>1. PICK d \in Conns : Step(d)
    BY <1>10
  <2>2. CASE c = d
    BY <1>2, <1>3, <1>4, <1>5, <1>6, <2>1, <2>2 DEF Step
  <2>3. CASE c # d
    BY <1>2, <1>3, <1>4, <1>5, <1>6, <2>1, <2>3 DEF Step
  <2> QED BY <2>2, <2>3
<1>11. ASSUME NEW d \in Conns, OnlineKeysFails(d)
       PROVE  (c # d => online'[c] = online[c]) /\ UNCHANGED <<ack, offer>>
  BY <1>11 DEF OnlineKeysFails
<1>12. ASSUME NEW d \in Conns, AckEndsFails(d)
       PROVE  (c # d => ack'[c] = ack[c]) /\ UNCHANGED <<online, offer>>
  BY <1>12 DEF AckEndsFails
<1>13. CASE \E d \in Conns : CipherFails(d)
  <2>1. PICK d \in Conns : OnlineKeysFails(d) \/ AckEndsFails(d)
    BY <1>13 DEF CipherFails
  <2>2. CASE c = d
    BY <1>11, <1>12, <2>1, <2>2
  <2>3. CASE c # d
    BY <1>11, <1>12, <2>1, <2>3
  <2> QED BY <2>2, <2>3
<1> QED BY <1>1, <1>2, <1>7, <1>8, <1>9, <1>10, <1>13 DEF Next, Fault

\* A secret leaves the temporary table when its ack is handled, or with a restart.
LEMMA TempSteps ==
  ASSUME TypeOK, [Next]_vars, NEW c \in Conns, c \in temp[From(c)]
  PROVE  c \in temp'[From(c)] \/ AckEnds(c) \/ Restart(From(c))
<1> USE ConnEnds DEF TypeOK
<1>1. ASSUME NEW d \in Conns, NEW k \in StartKinds, Start(d, k) PROVE c \in temp'[From(c)]
  BY <1>1 DEF Start
<1>2. ASSUME NEW d \in Conns, Dialed(d) \/ OnlineReturn(d) PROVE c \in temp'[From(c)]
  <2>1. temp' = temp \/ \E m \in Nodes, e \in Conns : temp' = [temp EXCEPT ![m] = @ \cup {e}]
    BY <1>2 DEF Dialed, OnlineReturn
  <2> QED BY <2>1
<1>3. ASSUME NEW d \in Conns, \/ DialRefused(d) \/ MarkConnected(d) \/ Monitor(d) \/ OnlineAccept(d) \/ OnlineKeys(d)
                              \/ OnlineSendAck(d) \/ AckRegister(d) \/ Fault(d)
      PROVE  temp' = temp
  BY <1>3 DEF DialRefused, MarkConnected, Monitor, OnlineAccept, OnlineKeys, OnlineSendAck, AckRegister,
              Fault, DialFailed, Drop, Offline, CipherFails, OnlineKeysFails, AckEndsFails, keyVars
<1>4. ASSUME NEW d \in Conns, AckEnds(d), d # c PROVE c \in temp'[From(c)]
  BY <1>4 DEF AckEnds
<1>5. ASSUME NEW n \in Nodes, Restart(n), n # From(c) PROVE c \in temp'[From(c)]
  BY <1>5 DEF Restart
<1>6. CASE UNCHANGED vars
  BY <1>6 DEF vars, keyVars
<1> QED BY <1>1, <1>2, <1>3, <1>4, <1>5, <1>6 DEF Next, Step

LEMMA StagesStep == TypeOK /\ Unborn /\ Stages /\ [Next]_vars => Stages'
<1> SUFFICES ASSUME TypeOK, Unborn, Stages, [Next]_vars, NEW c \in Conns
             PROVE  /\ link'[c] = "up" /\ ack'[c] # "none" => online'[c] # "dead"
                    /\ ack'[c] # "none" => online'[c] \in {"acked", "done", "dead"}
                    /\ offer'[c] # ZeroKey => online'[c] \in {"keyed", "acked", "done", "dead"}
                    /\ link'[c] = "up" /\ ack'[c] \in {"none", "flight"} => c \in temp'[From(c)]
  BY DEF Stages
<1>1. OnlineAccept(c) => online[c] = "idle" /\ online'[c] = "accepted"
  BY DEF OnlineAccept, TypeOK
<1>2. OnlineKeys(c) => online[c] = "accepted" /\ online'[c] = "keyed"
  BY DEF OnlineKeys, TypeOK
<1>3. OnlineSendAck(c) => online[c] = "keyed" /\ online'[c] = "acked"
  BY DEF OnlineSendAck, TypeOK
<1>4. OnlineReturn(c) => online[c] = "acked" /\ online'[c] = "done"
  BY DEF OnlineReturn, TypeOK
<1>5. AckEnds(c) => link[c] = "up" /\ ack[c] = "flight" /\ ack'[c] = "ended" /\ online' = online
  BY DEF AckEnds, TypeOK
<1>6. AckRegister(c) => ack[c] = "ended" /\ ack'[c] = "done" /\ online' = online
  BY DEF AckRegister, TypeOK
<1>7. Dialed(c) => c \in temp'[From(c)] /\ online[c] = "idle" /\ online' = online
  <2>1. Dialed(c) => c \in temp'[From(c)]
    BY ConnEnds DEF Dialed, TypeOK
  <2>2. Dialed(c) => online[c] = "idle" /\ online' = online
    BY DEF Dialed, handlerVars, Unborn
  <2> QED BY <2>1, <2>2
<1>8. Restart(From(c)) => link'[c] # "up"
  BY ConnEnds DEF Restart, TypeOK
<1>9. OnlineKeysFails(c) => online[c] = "accepted" /\ online'[c] \in {"keyed", "dead"} /\ UNCHANGED <<ack, offer>>
  BY DEF OnlineKeysFails, TypeOK
<1>14. AckEndsFails(c) => link[c] = "up" /\ ack[c] = "flight" /\ ack'[c] = "ended" /\ online' = online
  BY DEF AckEndsFails, TypeOK
<1>10. link'[c] = "up" /\ ack'[c] # "none" => online'[c] # "dead"
  <2> SUFFICES ASSUME link'[c] = "up", ack'[c] # "none", online'[c] = "dead" PROVE FALSE
    OBVIOUS
  <2>1. link[c] = "up"
    BY <1>7, LinkSteps DEF Stages
  <2>2. online[c] = "dead" \/ OnlineKeysFails(c)
    BY <1>1, <1>2, <1>3, <1>4, HandlerSteps
  <2>3. CASE OnlineKeysFails(c)
    BY <1>9, <2>3 DEF Stages
  <2>4. CASE online[c] = "dead"
    <3>1. ack[c] = "none"
      BY <2>1, <2>4 DEF Stages
    <3> QED BY <1>3, <1>5, <1>6, <1>14, <2>4, <3>1, HandlerSteps
  <2> QED BY <2>2, <2>3, <2>4
<1>11. ack'[c] # "none" => online'[c] \in {"acked", "done", "dead"}
  BY <1>1, <1>2, <1>3, <1>4, <1>5, <1>6, <1>9, <1>14, HandlerSteps DEF Stages
<1>12. offer'[c] # ZeroKey => online'[c] \in {"keyed", "acked", "done", "dead"}
  BY <1>1, <1>2, <1>3, <1>4, <1>9, HandlerSteps DEF Stages
<1>13. link'[c] = "up" /\ ack'[c] \in {"none", "flight"} => c \in temp'[From(c)]
  <2> SUFFICES ASSUME link'[c] = "up", ack'[c] \in {"none", "flight"} PROVE c \in temp'[From(c)]
    OBVIOUS
  <2>1. CASE Dialed(c)
    BY <1>7, <2>1
  <2>2. CASE ~ Dialed(c)
    <3>1. link[c] = "up"
      BY <2>2, LinkSteps
    <3>2. ~ AckEnds(c) /\ ~ AckRegister(c) /\ ~ AckEndsFails(c) /\ ~ Restart(From(c))
      BY <1>5, <1>6, <1>8, <1>14
    <3>3. ack[c] \in {"none", "flight"}
      <4>1. OnlineSendAck(c) => ack[c] = "none"
        BY <1>3 DEF Stages
      <4> QED BY <3>2, <4>1, HandlerSteps
    <3> QED BY <3>1, <3>2, <3>3, TempSteps DEF Stages
  <2> QED BY <2>1, <2>2
<1> QED BY <1>10, <1>11, <1>12, <1>13

\* The ack of c, with a key, is still to be handled.
Unhandled(c) == link[c] = "up" /\ offer[c] # ZeroKey /\ ack[c] \in {"none", "flight"}

Dials(p, n) == {c \in Conns : From(c) = p /\ To(c) = n}

\* A key n has for p is matched by one of p's, or the secret p needs for it is
\* on its way; so an ack of n with the zero key, and any ack that was handled,
\* finds a key at p.
MatchedAt(n, p) ==
  /\ main[n][p] # NoKey => main[p][n] # NoKey \/ \E c \in Dials(p, n) : Unhandled(c)
  /\ \A c \in Dials(p, n) :
       /\ link[c] = "up" /\ offer[c] = ZeroKey /\ online[c] \in {"keyed", "acked", "done"} => main[p][n] # NoKey
       /\ ack[c] \in {"ended", "done"} => main[p][n] # NoKey
       /\ offer[c] # ZeroKey => main[n][p] # NoKey

Matched == \A n, p \in Nodes : Intact(n, p) => MatchedAt(n, p)

\* What was cut stays cut.
LEMMA IntactBack ==
  ASSUME TypeOK, Unborn, Stages, [Next]_vars, NEW n \in Nodes, NEW p \in Nodes, Intact(n, p)'
  PROVE  /\ Intact(n, p) /\ Intact(p, n) /\ n \notin restarted' /\ p \notin restarted'
         /\ ~ Restart(n) /\ ~ Restart(p)
         /\ \A c \in Dials(n, p) \cup Dials(p, n) : ~ Cut(c)' /\ c \notin undone'
<1>1. /\ restarted \subseteq restarted' /\ undone \subseteq undone'
      /\ \A m \in Nodes : Restart(m) => m \in restarted'
  <2>1. ASSUME NEW m \in Nodes, Restart(m) PROVE restarted' = restarted \cup {m} /\ undone' = undone
    BY <2>1 DEF Restart
  <2>2. ASSUME NEW c \in Conns, Step(c) \/ Fault(c) \/ \E k \in StartKinds : Start(c, k)
        PROVE  restarted' = restarted /\ undone \subseteq undone'
    <3>1. CASE CipherFails(c)
      BY <3>1 DEF CipherFails, OnlineKeysFails, AckEndsFails
    <3>2. CASE ~ CipherFails(c)
      BY <2>2, <3>2 DEF Step, Fault, Start, Dialed, DialRefused, DialFailed, MarkConnected, OnlineAccept, OnlineKeys,
                OnlineSendAck, OnlineReturn, AckEnds, AckRegister, Monitor, Drop, Offline, history
    <3> QED BY <3>1, <3>2
  <2>3. UNCHANGED vars => restarted' = restarted /\ undone' = undone
    BY DEF vars, history
  <2> QED BY <2>1, <2>2, <2>3 DEF Next
<1>2. ASSUME NEW c \in Conns, Cut(c) PROVE Cut(c)'
  <2>1. offer[c] # ZeroKey /\ link[c] = "down" /\ ack[c] \in {"none", "flight"}
    BY <1>2 DEF Cut
  <2>2. link'[c] = "down"
    BY <2>1, LinkSteps
  <2>3. online[c] \in {"keyed", "acked", "done", "dead"}
    BY <2>1 DEF Stages
  <2>4. offer'[c] = offer[c]
    BY <2>3, HandlerSteps DEF OnlineKeys
  <2>5. ack'[c] = ack[c]
    BY <2>1, HandlerSteps DEF AckEnds, AckRegister, AckEndsFails, OnlineSendAck
  <2> QED BY <2>1, <2>2, <2>4, <2>5 DEF Cut
<1>3. {n, p} \cap restarted' = {} /\ \A c \in Between(n, p) : ~ Cut(c)' /\ c \notin undone'
  BY DEF Intact, Between, From, To
<1>4. {n, p} = {p, n} /\ Between(n, p) = Between(p, n) /\ Dials(n, p) \cup Dials(p, n) \subseteq Between(n, p)
      /\ Between(n, p) \subseteq Conns
  BY DEF Between, Dials
<1>5. Intact(n, p) /\ Intact(p, n)
  BY <1>1, <1>2, <1>3, <1>4 DEF Intact
<1> QED BY <1>1, <1>3, <1>4, <1>5

\* Steps that change no key and no offer of the pair.
LEMMA MatchedFrame ==
  ASSUME TypeOK, Unborn, Stages, [Next]_vars, NEW n \in Nodes, NEW p \in Nodes, Intact(n, p)', MatchedAt(n, p),
         main'[n][p] = main[n][p], main'[p][n] = main[p][n],
         \A c \in Dials(p, n) : ~ OnlineKeys(c) /\ ~ AckEnds(c)
  PROVE  MatchedAt(n, p)'
<1>1. ASSUME NEW c \in Dials(p, n)
      PROVE  /\ offer'[c] = offer[c]
             /\ Unhandled(c) => Unhandled(c)'
             /\ link'[c] = "up" /\ online'[c] \in {"keyed", "acked", "done"} =>
                  link[c] = "up" /\ online[c] \in {"keyed", "acked", "done"}
             /\ ack'[c] \in {"ended", "done"} => ack[c] \in {"ended", "done"}
  <2>1. c \in Conns /\ ~ Cut(c)' /\ c \notin undone'
    BY IntactBack DEF Dials
  <2>8. ~ AckEndsFails(c) /\ (OnlineKeysFails(c) => online'[c] = "dead")
    BY <2>1 DEF AckEndsFails, OnlineKeysFails, TypeOK
  <2>2. offer'[c] = offer[c]
    BY <2>1, HandlerSteps
  <2>3. /\ OnlineSendAck(c) => ack[c] = "none" /\ online[c] = "keyed"
        /\ AckRegister(c) => ack[c] = "ended"
        /\ OnlineAccept(c) => online'[c] = "accepted"
        /\ OnlineReturn(c) => online[c] = "acked"
    BY <2>1 DEF OnlineSendAck, AckRegister, OnlineAccept, OnlineReturn, Stages, TypeOK
  <2>4. Unhandled(c) => Unhandled(c)'
    BY <2>1, <2>2, <2>3, <2>8, HandlerSteps, LinkSteps DEF Unhandled, Cut
  <2>5. ack'[c] \in {"ended", "done"} => ack[c] \in {"ended", "done"}
    BY <2>1, <2>3, <2>8, HandlerSteps
  <2>6. Dialed(c) => online[c] = "idle" /\ online'[c] = "idle"
    BY <2>1 DEF Dialed, Unborn, handlerVars
  <2>7. link'[c] = "up" /\ online'[c] \in {"keyed", "acked", "done"} =>
          link[c] = "up" /\ online[c] \in {"keyed", "acked", "done"}
    BY <2>1, <2>3, <2>6, <2>8, HandlerSteps, LinkSteps
  <2> QED BY <2>2, <2>4, <2>5, <2>7
<1> QED BY <1>1 DEF MatchedAt, Dials

\* The secrets of a key are not nothing.
LEMMA KeyIsKey == \A c : Key(c) # NoKey
BY DEF Key, NoKey

\* A new key comes with an offer; when there is a key already, the peer has
\* one, because the only other connection it could wait on is this one.
LEMMA MatchedKeys ==
  ASSUME TypeOK, Unborn, Stages, UpOnce, Matched, [Next]_vars, NEW c \in Conns, OnlineKeys(c),
         NEW n \in Nodes, NEW p \in Nodes, Intact(n, p)'
  PROVE  MatchedAt(n, p)'
<1>0. PICK i \in Nodes, r \in Nodes : i = From(c) /\ r = To(c) /\ i # r
  BY ConnEnds
<1>1. /\ Intact(n, p) /\ MatchedAt(n, p) /\ MatchedAt(p, n)
      /\ \A d \in Dials(n, p) \cup Dials(p, n) : ~ Cut(d)'
  BY IntactBack DEF Matched
<1>2. /\ online[c] = "accepted" /\ UNCHANGED <<link, ack>> /\ offer[c] = ZeroKey /\ ack[c] = "none"
      /\ \A d \in Conns : d # c => offer'[d] = offer[d] /\ online'[d] = online[d]
  BY DEF OnlineKeys, linkVars, Stages, TypeOK
<1>3. main'[i][r] = main[i][r]
  BY <1>0 DEF OnlineKeys, TypeOK
<1>4. CASE ~ (n = r /\ p = i)
  <2>1. main'[n][p] = main[n][p]
    BY <1>0, <1>4 DEF OnlineKeys, TypeOK
  <2>2. main[p][n] # NoKey => main'[p][n] # NoKey
    BY <1>0, KeyIsKey DEF OnlineKeys, TypeOK
  <2>3. \A d \in Dials(p, n) : d # c /\ d \in Conns
    BY <1>0, <1>4 DEF Dials
  <2>4. \A d \in Dials(p, n) : Unhandled(d) => Unhandled(d)'
    BY <1>2, <2>3 DEF Unhandled
  <2> QED BY <1>1, <1>2, <2>1, <2>2, <2>3, <2>4 DEF MatchedAt, Dials
<1>5. CASE n = r /\ p = i
  <2>1. c \in Dials(p, n)
    BY <1>0, <1>5 DEF Dials
  <2>2. \A d \in Dials(p, n) : d \in Conns
    BY DEF Dials
  <2>3. CASE main[r][i] = NoKey
    <3>1. main' = [main EXCEPT ![r][i] = Key(c)] /\ offer'[c] = {<<r, c>>}
      BY <1>0, <2>3 DEF OnlineKeys, TypeOK
    <3>2. main'[r][i] # NoKey /\ offer'[c] # ZeroKey
      BY <3>1, KeyIsKey DEF TypeOK, ZeroKey
    <3>3. link[c] = "up"
      <4>1. link[c] \in {"up", "down"}
        BY <1>2 DEF Unborn
      <4> QED BY <1>1, <1>2, <2>1, <3>2, <4>1 DEF Cut
    <3>4. Unhandled(c)'
      BY <1>2, <3>2, <3>3 DEF Unhandled
    <3> QED BY <1>1, <1>2, <1>3, <1>5, <2>1, <2>2, <3>2, <3>4 DEF MatchedAt, Dials
  <2>4. CASE main[r][i] # NoKey
    <3>1. main' = main /\ offer'[c] = ZeroKey
      BY <1>0, <2>4 DEF OnlineKeys, TypeOK
    <3>2. link[c] = "up" => main[i][r] # NoKey
      <4> SUFFICES ASSUME link[c] = "up", NEW d \in Dials(p, n), Unhandled(d) PROVE FALSE
        BY <1>1, <1>5, <2>4 DEF MatchedAt
      <4>1. d = c
        BY <2>1 DEF UpOnce, Unhandled, Dials
      <4> QED BY <1>2, <4>1 DEF Unhandled
    <3>3. \A d \in Dials(p, n) : offer'[d] = offer[d] /\ (Unhandled(d) => Unhandled(d)')
      BY <1>2, <2>2, <3>1 DEF Unhandled
    <3> QED BY <1>1, <1>2, <1>5, <2>1, <2>2, <3>1, <3>2, <3>3 DEF MatchedAt, Dials
  <2> QED BY <2>3, <2>4
<1> QED BY <1>4, <1>5

\* An ack that is handled leaves a key: its own, or the one there was.
LEMMA MatchedEnds ==
  ASSUME TypeOK, Unborn, Stages, Matched, [Next]_vars, NEW c \in Conns, AckEnds(c),
         NEW n \in Nodes, NEW p \in Nodes, Intact(n, p)'
  PROVE  MatchedAt(n, p)'
<1>0. PICK i \in Nodes, r \in Nodes : i = From(c) /\ r = To(c) /\ i # r
  BY ConnEnds
<1>1. /\ link[c] = "up" /\ ack[c] = "flight" /\ UNCHANGED <<link, online, offer>>
      /\ ack'[c] = "ended" /\ \A d \in Conns : d # c => ack'[d] = ack[d]
  BY DEF AckEnds, linkVars, TypeOK
<1>2. c \in temp[i] /\ online[c] \in {"acked", "done"}
  BY <1>0, <1>1 DEF Stages
<1>3. MatchedAt(n, p) /\ MatchedAt(p, n)
  BY IntactBack DEF Matched
<1>4. /\ \A m, q \in Nodes : ~ (m = i /\ q = r) => main'[m][q] = main[m][q]
      /\ main[i][r] # NoKey \/ offer[c] # ZeroKey => main'[i][r] # NoKey
  <2>1. CASE main' = main
    <3>1. offer[c] # ZeroKey => main[i][r] # NoKey
      <4> SUFFICES ASSUME offer[c] # ZeroKey, main[i][r] = NoKey PROVE FALSE
        OBVIOUS
      <4>1. main' = [main EXCEPT ![i][r] = {<<i, c>>} \cup offer[c]]
        BY <1>0, <1>2 DEF AckEnds
      <4>2. main'[i][r] = {<<i, c>>} \cup offer[c]
        BY <4>1 DEF TypeOK
      <4> QED BY <2>1, <4>2 DEF NoKey
    <3> QED BY <2>1, <3>1
  <2>2. CASE main' = [main EXCEPT ![i][r] = {<<i, c>>} \cup offer[c]]
    BY <2>2 DEF TypeOK, NoKey
  <2> QED BY <1>0, <2>1, <2>2 DEF AckEnds
<1>5. \A d \in Dials(p, n) : d \in Conns
  BY DEF Dials
<1>6. CASE n = r /\ p = i
  <2>1. c \in Dials(p, n)
    BY <1>0, <1>6 DEF Dials
  <2>2. main'[p][n] # NoKey
    BY <1>1, <1>2, <1>3, <1>4, <1>6, <2>1 DEF MatchedAt
  <2>3. main'[n][p] = main[n][p]
    BY <1>0, <1>4, <1>6
  <2> QED BY <1>1, <1>3, <1>5, <2>2, <2>3 DEF MatchedAt, Dials
<1>7. CASE ~ (n = r /\ p = i)
  <2>1. \A d \in Dials(p, n) : d # c
    BY <1>0, <1>7 DEF Dials
  <2>2. \A d \in Dials(p, n) : ack'[d] = ack[d] /\ (Unhandled(d) => Unhandled(d)')
    BY <1>1, <1>5, <2>1 DEF Unhandled
  <2>3. main'[p][n] = main[p][n]
    BY <1>4, <1>7
  <2>4. main'[n][p] # NoKey => main[n][p] # NoKey \/ main[p][n] # NoKey
    <3>1. CASE n = i /\ p = r
      <4>1. c \in Dials(n, p)
        BY <1>0, <3>1 DEF Dials
      <4>2. main[r][i] # NoKey \/ main[i][r] # NoKey
        BY <1>1, <1>2, <1>3, <3>1, <4>1 DEF MatchedAt
      <4> QED BY <3>1, <4>2
    <3>2. CASE ~ (n = i /\ p = r)
      BY <1>4, <3>2
    <3> QED BY <3>1, <3>2
  <2>5. main[n][p] # NoKey => main'[n][p] # NoKey
    <3>1. CASE n = i /\ p = r
      BY <1>4, <3>1
    <3>2. CASE ~ (n = i /\ p = r)
      BY <1>4, <3>2
    <3> QED BY <3>1, <3>2
  <2> QED BY <1>1, <1>3, <1>5, <2>2, <2>3, <2>4, <2>5 DEF MatchedAt, Dials
<1> QED BY <1>6, <1>7

\* Every other step leaves the keys of a pair alone, unless it restarts an end.
LEMMA KeySteps ==
  ASSUME TypeOK, [Next]_vars, NEW n \in Nodes, NEW p \in Nodes,
         ~ Restart(n), ~ Restart(p), \A c \in Conns : ~ OnlineKeys(c) /\ ~ AckEnds(c)
  PROVE  main'[n][p] = main[n][p] /\ main'[p][n] = main[p][n] /\ crossed' = crossed
<1>1. ASSUME NEW c \in Conns, Step(c) \/ Fault(c) \/ \E k \in StartKinds : Start(c, k) PROVE UNCHANGED <<main, crossed>>
  BY <1>1 DEF Step, Fault, Start, Dialed, DialRefused, DialFailed, MarkConnected, OnlineAccept,
              OnlineSendAck, OnlineReturn, AckRegister, Monitor, Drop, Offline,
              CipherFails, OnlineKeysFails, AckEndsFails, keyVars, history
<1>2. ASSUME NEW m \in Nodes, Restart(m) PROVE main'[n][p] = main[n][p] /\ main'[p][n] = main[p][n] /\ crossed' = crossed
  <2>1. m # n /\ m # p
    BY <1>2
  <2> QED BY <1>2, <2>1 DEF Restart, TypeOK
<1>3. CASE UNCHANGED vars
  BY <1>3 DEF vars, keyVars, history
<1> QED BY <1>1, <1>2, <1>3 DEF Next

LEMMA MatchedStep == TypeOK /\ Unborn /\ Stages /\ UpOnce /\ Matched /\ [Next]_vars => Matched'
<1> SUFFICES ASSUME TypeOK, Unborn, Stages, UpOnce, Matched, [Next]_vars,
                    NEW n \in Nodes, NEW p \in Nodes, Intact(n, p)'
             PROVE  MatchedAt(n, p)'
  BY DEF Matched
<1>1. CASE \E c \in Conns : OnlineKeys(c)
  BY <1>1, MatchedKeys
<1>2. CASE \E c \in Conns : AckEnds(c)
  BY <1>2, MatchedEnds
<1>3. CASE \A c \in Conns : ~ OnlineKeys(c) /\ ~ AckEnds(c)
  <2>1. MatchedAt(n, p) /\ ~ Restart(n) /\ ~ Restart(p)
    BY IntactBack DEF Matched
  <2>2. \A c \in Dials(p, n) : c \in Conns
    BY DEF Dials
  <2> QED BY <1>3, <2>1, <2>2, KeySteps, MatchedFrame
<1> QED BY <1>1, <1>2, <1>3

PairInv == Unborn /\ Stages /\ UpOnce /\ Matched

LEMMA PairInit == Init => PairInv
<1> SUFFICES ASSUME Init PROVE PairInv
  OBVIOUS
<1>1. Unborn /\ Stages /\ UpOnce
  BY DEF Init, Unborn, Stages, UpOnce
<1>2. (\A n, p \in Nodes : main[n][p] = NoKey) /\ \A c \in Conns : offer[c] = ZeroKey /\ online[c] = "idle" /\ ack[c] = "none"
  BY DEF Init
<1>3. Matched
  BY <1>2 DEF Matched, MatchedAt, Dials
<1> QED BY <1>1, <1>3 DEF PairInv

LEMMA PairStep == TypeOK /\ PairInv /\ [Next]_vars => PairInv'
BY UnbornStep, StagesStep, UpOnceStep, MatchedStep DEF PairInv

\* An initiator whose ack carried the zero key has a session key for the
\* responder, whatever handlers overlapped, dials failed or connections broke,
\* unless a broken connection took a key with it or one of the two restarted.
THEOREM ZeroKeysSafe == Spec => []ZeroKeySafe
<1>1. PairInv => ZeroKeySafe
  <2> SUFFICES ASSUME PairInv, NEW c \in Conns, Intact(From(c), To(c)), ack[c] = "done"
               PROVE  main[From(c)][To(c)] # NoKey
    BY DEF ZeroKeySafe
  <2>1. PICK i \in Nodes, r \in Nodes : i = From(c) /\ r = To(c)
    BY ConnEnds
  <2>2. Intact(r, i) /\ c \in Dials(i, r)
    <3>1. {i, r} = {r, i} /\ Between(i, r) = Between(r, i)
      BY DEF Between
    <3> QED BY <2>1, <3>1 DEF Intact, Dials
  <2> QED BY <2>1, <2>2 DEF PairInv, Matched, MatchedAt
<1> QED
  BY <1>1, TypeCorrect, PairInit, PairStep, PTL DEF Spec

-----------------------------------------------------------------------------
(* Agreement.                                                              *)

\* Without crossing, only one direction of a pair makes a key, the one who
\* offered it keeps it, and the two keys of a pair are the same.
OneOfferAt(n, p) ==
  /\ \A c \in Dials(n, p), d \in Dials(p, n) : offer[c] = ZeroKey \/ offer[d] = ZeroKey
  /\ \A c \in Dials(p, n) : offer[c] # ZeroKey => main[n][p] = Key(c)
  /\ Keyed(n, p) => main[n][p] = main[p][n]

Uncrossed(n, p) == Intact(n, p) /\ Between(n, p) \cap crossed = {}

OneOffer == \A n, p \in Nodes : Uncrossed(n, p) => OneOfferAt(n, p)

LEMMA UncrossedBack ==
  ASSUME TypeOK, PairInv, OneOffer, [Next]_vars, NEW n \in Nodes, NEW p \in Nodes, Uncrossed(n, p)'
  PROVE  /\ Intact(n, p)' /\ OneOfferAt(n, p) /\ OneOfferAt(p, n) /\ MatchedAt(n, p) /\ MatchedAt(p, n)
         /\ ~ Restart(n) /\ ~ Restart(p)
<1>1. crossed \subseteq crossed'
  <2>1. ASSUME NEW c \in Conns, OnlineKeys(c) PROVE crossed \subseteq crossed'
    BY <2>1 DEF OnlineKeys
  <2>2. ASSUME NEW c \in Conns, AckEnds(c) PROVE crossed' = crossed
    BY <2>2 DEF AckEnds, history
  <2>3. ASSUME NEW m \in Nodes, Restart(m) PROVE crossed' = crossed
    BY <2>3 DEF Restart
  <2>4. CASE \A m \in Nodes : ~ Restart(m)
    <3>1. CASE \A c \in Conns : ~ OnlineKeys(c) /\ ~ AckEnds(c)
      BY <2>4, <3>1, KeySteps
    <3> QED BY <2>1, <2>2, <3>1
  <2> QED BY <2>3, <2>4
<1>2. Intact(n, p)' /\ Between(n, p) \cap crossed' = {}
  BY DEF Uncrossed, Between, From, To
<1>3. Intact(n, p) /\ Intact(p, n) /\ ~ Restart(n) /\ ~ Restart(p)
  BY <1>2, IntactBack DEF PairInv
<1>4. Between(n, p) = Between(p, n)
  BY DEF Between
<1>5. Uncrossed(n, p) /\ Uncrossed(p, n)
  BY <1>1, <1>2, <1>3, <1>4 DEF Uncrossed
<1> QED BY <1>2, <1>3, <1>5 DEF OneOffer, PairInv, Matched

\* A responder that makes a key while it has no OnLine of its own unanswered
\* knows that the peer has none for it.
LEMMA CrossKeys ==
  ASSUME TypeOK, PairInv, OneOffer, [Next]_vars, NEW c \in Conns, OnlineKeys(c),
         NEW n \in Nodes, NEW p \in Nodes, Uncrossed(n, p)'
  PROVE  OneOfferAt(n, p)'
<1>0. PICK i \in Nodes, r \in Nodes : i = From(c) /\ r = To(c) /\ i # r
  BY ConnEnds
<1>1. /\ OneOfferAt(n, p) /\ OneOfferAt(p, n) /\ MatchedAt(n, p) /\ MatchedAt(p, n)
  BY UncrossedBack
<1>2. \A d \in Conns : d # c => offer'[d] = offer[d]
  BY DEF OnlineKeys, TypeOK
<1>3. \A d \in Dials(n, p) \cup Dials(p, n) : d \in Conns
  BY DEF Dials
<1>4. offer[c] = ZeroKey
  BY DEF OnlineKeys, PairInv, Stages
<1>5. CASE main[r][i] # NoKey \/ {n, p} # {r, i}
  <2>1. main'[n][p] = main[n][p] /\ main'[p][n] = main[p][n]
    BY <1>0, <1>5 DEF OnlineKeys, TypeOK
  <2>2. \A d \in Dials(n, p) \cup Dials(p, n) : offer'[d] = offer[d]
    <3>1. CASE main[r][i] # NoKey
      <4>1. offer'[c] = ZeroKey
        BY <1>0, <3>1 DEF OnlineKeys, TypeOK
      <4> QED BY <1>2, <1>3, <1>4, <4>1
    <3>2. CASE {n, p} # {r, i}
      <4>1. c \notin Dials(n, p) \cup Dials(p, n)
        BY <1>0, <3>2 DEF Dials
      <4> QED BY <1>2, <1>3, <4>1
    <3> QED BY <1>5, <3>1, <3>2
  <2> QED BY <1>1, <2>1, <2>2 DEF OneOfferAt, Keyed, Dials
<1>6. CASE main[r][i] = NoKey /\ {n, p} = {r, i}
  <2>1. main' = [main EXCEPT ![r][i] = Key(c)]
    BY <1>0, <1>6 DEF OnlineKeys
  <2>2. main'[r][i] = Key(c) /\ main'[i][r] = main[i][r]
    BY <1>0, <2>1 DEF TypeOK
  <2>3. c \in Between(n, p) /\ c \notin crossed'
    <3>1. c \in Between(n, p)
      BY <1>0, <1>6 DEF Between
    <3> QED BY <3>1 DEF Uncrossed, Between, From, To
  <2>4. ~ Unanswered(r, i)
    BY <1>0, <1>6, <2>3 DEF OnlineKeys
  <2>5. MatchedAt(r, i) /\ MatchedAt(i, r)
    BY <1>0, <1>1, <1>6
  <2>6. main[i][r] = NoKey
    <3> SUFFICES ASSUME main[i][r] # NoKey PROVE FALSE
      OBVIOUS
    <3>1. PICK d \in Dials(r, i) : Unhandled(d)
      BY <1>6, <2>5 DEF MatchedAt
    <3> QED BY <2>4, <3>1 DEF Unhandled, Unanswered, Dials
  <2>7. \A d \in Dials(r, i) : offer[d] = ZeroKey
    BY <2>5, <2>6 DEF MatchedAt
  <2>8. \A d \in Dials(i, r) : offer[d] = ZeroKey
    BY <1>6, <2>5 DEF MatchedAt
  <2>9. c \in Dials(i, r) /\ c \notin Dials(r, i)
    BY <1>0 DEF Dials
  <2>10. \A d \in Dials(r, i) : offer'[d] = ZeroKey
    BY <1>2, <2>7, <2>9 DEF Dials
  <2>11. \A d \in Dials(i, r) : d # c => offer'[d] = ZeroKey
    BY <1>2, <2>8 DEF Dials
  <2>12. ~ Keyed(n, p)'
    BY <1>6, <2>2, <2>6 DEF Keyed
  <2>13. (n = r /\ p = i) \/ (n = i /\ p = r)
    BY <1>0, <1>6
  <2> QED BY <2>2, <2>9, <2>10, <2>11, <2>12, <2>13 DEF OneOfferAt, Dials
<1> QED BY <1>5, <1>6

\* The initiator derives the key the responder has.
LEMMA CrossEnds ==
  ASSUME TypeOK, OfferShape, PairInv, OneOffer, [Next]_vars, NEW c \in Conns, AckEnds(c),
         NEW n \in Nodes, NEW p \in Nodes, Uncrossed(n, p)'
  PROVE  OneOfferAt(n, p)'
<1>0. PICK i \in Nodes, r \in Nodes : i = From(c) /\ r = To(c) /\ i # r
  BY ConnEnds
<1>1. offer' = offer /\ OneOfferAt(n, p) /\ OneOfferAt(p, n)
  BY UncrossedBack DEF AckEnds
<1>2. CASE main'[n][p] = main[n][p] /\ main'[p][n] = main[p][n]
  BY <1>1, <1>2 DEF OneOfferAt, Keyed, Dials
<1>3. CASE /\ offer[c] # ZeroKey /\ {n, p} = {i, r}
           /\ main' = [main EXCEPT ![i][r] = {<<i, c>>} \cup offer[c]]
  <2>1. {<<i, c>>} \cup offer[c] = Key(c)
    BY <1>0, <1>3 DEF OfferShape, Key
  <2>2. main'[i][r] = Key(c) /\ main'[r][i] = main[r][i]
    BY <1>0, <1>3, <2>1 DEF TypeOK
  <2>3. OneOfferAt(r, i) /\ OneOfferAt(i, r) /\ c \in Dials(i, r)
    BY <1>0, <1>1, <1>3 DEF Dials
  <2>4. main[r][i] = Key(c) /\ \A d \in Dials(r, i) : offer[d] = ZeroKey
    BY <1>3, <2>3 DEF OneOfferAt
  <2>5. (n = r /\ p = i) \/ (n = i /\ p = r)
    BY <1>0, <1>3
  <2> QED BY <1>1, <2>2, <2>3, <2>4, <2>5 DEF OneOfferAt, Dials
<1>4. CASE {n, p} # {i, r}
  <2>1. main'[n][p] = main[n][p] /\ main'[p][n] = main[p][n]
    BY <1>0, <1>4 DEF AckEnds, TypeOK
  <2> QED BY <1>2, <2>1
<1> QED BY <1>0, <1>2, <1>3, <1>4 DEF AckEnds

LEMMA CrossStep == TypeOK /\ OfferShape /\ PairInv /\ OneOffer /\ [Next]_vars => OneOffer'
<1> SUFFICES ASSUME TypeOK, OfferShape, PairInv, OneOffer, [Next]_vars,
                    NEW n \in Nodes, NEW p \in Nodes, Uncrossed(n, p)'
             PROVE  OneOfferAt(n, p)'
  BY DEF OneOffer
<1>1. CASE \E c \in Conns : OnlineKeys(c)
  BY <1>1, CrossKeys
<1>2. CASE \E c \in Conns : AckEnds(c)
  BY <1>2, CrossEnds
<1>3. CASE \A c \in Conns : ~ OnlineKeys(c) /\ ~ AckEnds(c)
  <2>1. OneOfferAt(n, p) /\ main'[n][p] = main[n][p] /\ main'[p][n] = main[p][n]
    BY <1>3, UncrossedBack, KeySteps
  <2>2. \A c \in Dials(n, p) \cup Dials(p, n) : offer'[c] = offer[c]
    BY <1>3, HandlerSteps DEF Dials
  <2> QED BY <2>1, <2>2 DEF OneOfferAt, Keyed, Dials
<1> QED BY <1>1, <1>2, <1>3

\* The two ends of a pair hold the same session key unless two of their
\* exchanges crossed, a broken connection took a key with it or one of the two
\* restarted; for any number of nodes, dials and failures.
THEOREM KeysAgreeUnlessCrossed == Spec => []AgreeUnlessCrossed
<1>1. Init => OfferShape /\ KeyOwnership /\ OneOffer
  <2> SUFFICES ASSUME Init PROVE OfferShape /\ KeyOwnership /\ OneOffer
    OBVIOUS
  <2>1. /\ \A n, p \in Nodes : main[n][p] = NoKey
        /\ \A c \in Conns : offer[c] = ZeroKey
    BY DEF Init
  <2> QED
    BY <2>1 DEF OfferShape, KeyOwnership, OneOffer, OneOfferAt, Keyed, Dials
<1>2. OneOffer => AgreeUnlessCrossed
  BY DEF OneOffer, OneOfferAt, Uncrossed, AgreeUnlessCrossed
<1> QED
  BY <1>1, <1>2, TypeCorrect, OfferStep, PairInit, PairStep, CrossStep, PTL DEF Spec

-----------------------------------------------------------------------------
(* Settled pairs.                                                          *)

\* Every step but a restart of one of the two leaves a settled pair settled.
LEMMA SettledStep ==
  ASSUME TypeOK, Unborn, [Next]_vars, NEW n \in Nodes, NEW p \in Nodes, Settled(n, p),
         ~ Restart(n), ~ Restart(p)
  PROVE  Settled(n, p)'
<1>0. /\ main[n][p] # NoKey /\ main[p][n] # NoKey /\ main[n][p] = main[p][n]
      /\ \A c \in Conns : {From(c), To(c)} = {n, p} /\ link[c] = "up" /\ offer[c] # ZeroKey =>
           online[c] # "keyed" /\ ack[c] # "flight"
  BY DEF Settled, Keyed
<1> DEFINE Mine(c) == {From(c), To(c)} = {n, p}
           Calm == \A c \in Conns : Mine(c) /\ link'[c] = "up" /\ offer'[c] # ZeroKey =>
                     online'[c] # "keyed" /\ ack'[c] # "flight"
<1>1. ASSUME main'[n][p] = main[n][p], main'[p][n] = main[p][n], Calm PROVE Settled(n, p)'
  BY <1>0, <1>1 DEF Settled, Keyed
<1>2. ASSUME main' = main, UNCHANGED <<offer, online, ack>>,
             \A c \in Conns : link'[c] = "up" => link[c] = "up" \/ offer[c] = ZeroKey
      PROVE  Settled(n, p)'
  BY <1>0, <1>1, <1>2
<1>3. ASSUME NEW c \in Conns, NEW k \in StartKinds, Start(c, k) PROVE Settled(n, p)'
  BY <1>2, <1>3 DEF Start, handlerVars, TypeOK
<1>4. ASSUME NEW c \in Conns,
             Dialed(c) \/ DialRefused(c) \/ DialFailed(c) \/ MarkConnected(c) \/ Monitor(c) \/ Offline(c)
      PROVE  Settled(n, p)'
  <2>1. main' = main /\ UNCHANGED <<offer, online, ack>>
    BY <1>4 DEF Dialed, DialRefused, DialFailed, MarkConnected, Monitor, Offline, handlerVars, keyVars
  <2>2. \A d \in Conns : link'[d] = "up" => link[d] = "up" \/ offer[d] = ZeroKey
    BY <1>4 DEF Dialed, DialRefused, DialFailed, MarkConnected, Monitor, Offline, linkVars, TypeOK, Unborn
  <2> QED BY <1>2, <2>1, <2>2
<1>5. ASSUME NEW c \in Conns, OnlineAccept(c) \/ OnlineReturn(c) \/ AckRegister(c) \/ Drop(c) PROVE Settled(n, p)'
  <2>1. main' = main /\ UNCHANGED offer
    BY <1>5 DEF OnlineAccept, OnlineReturn, AckRegister, Drop, keyVars
  <2>2. \A d \in Conns : link'[d] = "up" => link[d] = "up"
    BY <1>5 DEF OnlineAccept, OnlineReturn, AckRegister, Drop, linkVars, TypeOK
  <2>3. \A d \in Conns : /\ online'[d] = "keyed" => online[d] = "keyed"
                         /\ ack'[d] = "flight" => ack[d] = "flight"
    BY <1>5 DEF OnlineAccept, OnlineReturn, AckRegister, Drop, Aborted, TypeOK
  <2> QED BY <1>0, <1>1, <2>1, <2>2, <2>3
<1>6. ASSUME NEW c \in Conns, OnlineSendAck(c) PROVE Settled(n, p)'
  <2>1. /\ main' = main /\ UNCHANGED <<offer, link>> /\ online[c] = "keyed"
        /\ online' = [online EXCEPT ![c] = "acked"]
        /\ ack' = IF link[c] = "up" THEN [ack EXCEPT ![c] = "flight"] ELSE ack
    BY <1>6 DEF OnlineSendAck, linkVars, keyVars
  <2>2. \A d \in Conns : d # c => online'[d] = online[d] /\ ack'[d] = ack[d]
    BY <2>1 DEF TypeOK
  <2>3. Calm
    BY <1>0, <2>1, <2>2
  <2> QED BY <1>1, <2>1, <2>3
<1>7. ASSUME NEW c \in Conns, OnlineKeys(c) PROVE Settled(n, p)'
  <2>1. /\ UNCHANGED <<link, ack>> /\ online[c] = "accepted"
        /\ \A d \in Conns : d # c => online'[d] = online[d] /\ offer'[d] = offer[d]
    BY <1>7 DEF OnlineKeys, linkVars, TypeOK
  <2>2. CASE Mine(c)
    <3>1. main[To(c)][From(c)] # NoKey
      BY <1>0, <2>2, ConnEnds
    <3>2. main' = main /\ offer'[c] = ZeroKey
      BY <1>7, <3>1 DEF OnlineKeys, TypeOK
    <3> QED BY <1>0, <1>1, <2>1, <3>2
  <2>3. CASE ~ Mine(c)
    <3>1. /\ ~ (To(c) = n /\ From(c) = p) /\ ~ (To(c) = p /\ From(c) = n)
      BY <2>3
    <3>2. main'[n][p] = main[n][p] /\ main'[p][n] = main[p][n]
      BY <1>7, <3>1 DEF OnlineKeys, TypeOK
    <3>3. Calm
      BY <1>0, <2>1, <2>3
    <3> QED BY <1>1, <3>2, <3>3
  <2> QED BY <2>2, <2>3
<1>8. ASSUME NEW c \in Conns, AckEnds(c) PROVE Settled(n, p)'
  <2>1. /\ UNCHANGED <<link, online, offer>> /\ link[c] = "up" /\ ack[c] = "flight"
        /\ ack'[c] = "ended" /\ \A d \in Conns : d # c => ack'[d] = ack[d]
    BY <1>8 DEF AckEnds, linkVars, TypeOK
  <2>2. Calm
    BY <1>0, <2>1
  <2>3. CASE Mine(c)
    <3>1. offer[c] = ZeroKey
      BY <1>0, <2>1, <2>3
    <3>2. main' = main
      BY <1>8, <3>1 DEF AckEnds
    <3> QED BY <1>1, <2>2, <3>2
  <2>4. CASE ~ Mine(c)
    <3>1. ~ (To(c) = n /\ From(c) = p) /\ ~ (To(c) = p /\ From(c) = n)
      BY <2>4
    <3>2. main'[n][p] = main[n][p] /\ main'[p][n] = main[p][n]
      BY <1>8, <3>1 DEF AckEnds, TypeOK
    <3> QED BY <1>1, <2>2, <3>2
  <2> QED BY <2>3, <2>4
<1>9. ASSUME NEW m \in Nodes, Restart(m) PROVE Settled(n, p)'
  <2>1. m # n /\ m # p
    BY <1>9
  <2>2. main'[n][p] = main[n][p] /\ main'[p][n] = main[p][n] /\ offer' = offer
    BY <1>9, <2>1 DEF Restart, TypeOK
  <2>3. \A d \in Conns : /\ link'[d] = "up" => link[d] = "up"
                         /\ online'[d] = "keyed" => online[d] = "keyed"
                         /\ ack'[d] = "flight" => ack[d] = "flight"
    BY <1>9 DEF Restart, Aborted
  <2> QED BY <1>0, <1>1, <2>2, <2>3
<1>10. CASE UNCHANGED vars
  BY <1>2, <1>10 DEF vars, linkVars, handlerVars, keyVars
<1>11. ASSUME NEW c \in Conns, OnlineKeysFails(c) PROVE Settled(n, p)'
  <2>1. main' = main /\ UNCHANGED <<offer, link, ack>> /\ \A d \in Conns : d # c => online'[d] = online[d]
    BY <1>11 DEF OnlineKeysFails, linkVars, keyVars, TypeOK
  <2>2. CASE online'[c] = "dead"
    BY <1>0, <1>1, <2>1, <2>2
  <2>3. CASE main[To(c)][From(c)] = NoKey
    <3>1. ~ Mine(c)
      BY <1>0, <2>3, ConnEnds
    <3> QED BY <1>0, <1>1, <2>1, <3>1
  <2> QED BY <1>11, <2>2, <2>3 DEF OnlineKeysFails, TypeOK
<1>12. ASSUME NEW c \in Conns, AckEndsFails(c) PROVE Settled(n, p)'
  <2>1. main' = main /\ UNCHANGED <<offer, link, online>>
    BY <1>12 DEF AckEndsFails, linkVars, keyVars
  <2>2. \A d \in Conns : ack'[d] = "flight" => ack[d] = "flight"
    BY <1>12 DEF AckEndsFails, TypeOK
  <2> QED BY <1>0, <1>1, <2>1, <2>2
<1> QED BY <1>3, <1>4, <1>5, <1>6, <1>7, <1>8, <1>9, <1>10, <1>11, <1>12 DEF Next, Step, Fault, CipherFails

\* Reconnecting, return connections, crossing exchanges and broken connections
\* never separate a pair that agrees on its key; only a restart does.
THEOREM SettledStays == Spec => SettledPairsStay
<1>1. Init => Unborn
  BY DEF Init, Unborn
<1>2. TypeOK /\ Unborn /\ [Next]_vars =>
        [\A n, p \in Nodes : Settled(n, p) => Settled(n, p)' \/ Restart(n) \/ Restart(p)]_vars
  BY SettledStep
<1> QED
  BY <1>1, <1>2, TypeCorrect, UnbornStep, PTL DEF Spec, SettledPairsStay

-----------------------------------------------------------------------------
(* What handshakes leave behind.                                           *)

\* Without failures, a responder that is done with an OnLine has an outbound
\* connection to the initiator or is dialling one, and has a key for it; no
\* handler ends early.
Returned ==
  \A c \in Conns : online[c] = "done" =>
    \E d \in Conns : From(d) = To(c) /\ To(d) = From(c) /\ link[d] \in {"dialing", "up"}
Answered ==
  \A c \in Conns : online[c] \in {"keyed", "acked", "done"} => main[To(c)][From(c)] # NoKey
RestInv == failures = 0 => Returned /\ Answered /\ \A c \in Conns : online[c] # "dead"

\* Only failures count as such.
LEMMA FailureSteps ==
  ASSUME TypeOK, [Next]_vars
  PROVE  \/ failures' = failures + 1
         \/ /\ failures' = failures
            /\ \A c \in Conns : ~ Fault(c)
            /\ \A n \in Nodes : ~ Restart(n)
<1>1. ASSUME NEW c \in Conns, Fault(c) PROVE failures' = failures + 1
  BY <1>1 DEF Fault, DialFailed, Drop, Offline, CipherFails, OnlineKeysFails, AckEndsFails
<1>2. ASSUME NEW n \in Nodes, Restart(n) PROVE failures' = failures + 1
  BY <1>2 DEF Restart
<1>3. ASSUME NEW c \in Conns, Step(c) \/ \E k \in StartKinds : Start(c, k) PROVE failures' = failures
  BY <1>3 DEF Step, Start, Dialed, DialRefused, MarkConnected, OnlineAccept, OnlineKeys,
              OnlineSendAck, OnlineReturn, AckEnds, AckRegister, Monitor
<1>4. failures' = failures \/ failures' = failures + 1
  BY <1>1, <1>2, <1>3 DEF Next, vars
<1>5. failures # failures + 1
  BY DEF TypeOK
<1> QED BY <1>1, <1>2, <1>4, <1>5

\* A connection that is dialled or up stays so, or is refused in favour of one
\* that is up.
LEMMA ReturnedStep ==
  ASSUME TypeOK, Unborn, Returned, [Next]_vars,
         \A c \in Conns : ~ Fault(c), \A n \in Nodes : ~ Restart(n)
  PROVE  Returned'
<1> SUFFICES ASSUME NEW c \in Conns, online'[c] = "done"
             PROVE  \E d \in Conns : From(d) = To(c) /\ To(d) = From(c) /\ link'[d] \in {"dialing", "up"}
  BY DEF Returned
<1>1. ASSUME NEW d \in Conns, From(d) = To(c), To(d) = From(c), link[d] \in {"dialing", "up"}
      PROVE  \E e \in Conns : From(e) = To(c) /\ To(e) = From(c) /\ link'[e] \in {"dialing", "up"}
  <2>1. CASE link'[d] \in {"dialing", "up"}
    BY <1>1, <2>1
  <2>2. CASE link'[d] = "down"
    <3>1. DialRefused(d)
      BY <1>1, <2>2, LinkSteps
    <3>2. PICK e \in Conns : From(e) = From(d) /\ To(e) = To(d) /\ link[e] = "up"
      BY <3>1 DEF DialRefused, HasOutbound
    <3>3. e # d /\ link'[e] = link[e]
      BY <3>1, <3>2 DEF DialRefused, TypeOK
    <3> QED BY <1>1, <3>2, <3>3
  <2>3. link'[d] \in {"dialing", "up", "down"}
    BY <1>1, LinkSteps
  <2> QED BY <2>1, <2>2, <2>3
<1>2. CASE online[c] = "done"
  BY <1>1, <1>2 DEF Returned
<1>3. CASE OnlineReturn(c)
  <2>1. CASE HasOutbound(To(c), From(c))
    BY <1>1, <2>1 DEF HasOutbound
  <2>2. CASE \E d \in Conns : From(d) = To(c) /\ To(d) = From(c) /\ link' = [link EXCEPT ![d] = "dialing"]
    BY <2>2 DEF TypeOK
  <2> QED BY <1>3, <2>1, <2>2 DEF OnlineReturn
<1>4. online[c] = "done" \/ OnlineReturn(c)
  <2>1. OnlineAccept(c) \/ OnlineKeys(c) \/ OnlineSendAck(c) => online'[c] # "done"
    BY DEF OnlineAccept, OnlineKeys, OnlineSendAck, TypeOK
  <2> QED BY <2>1, HandlerSteps DEF Fault, CipherFails
<1> QED BY <1>2, <1>3, <1>4

\* Only a restart takes keys away.
LEMMA AnsweredStep ==
  ASSUME TypeOK, Answered, [Next]_vars,
         \A c \in Conns : ~ Fault(c), \A n \in Nodes : ~ Restart(n)
  PROVE  Answered'
<1> SUFFICES ASSUME NEW c \in Conns, online'[c] \in {"keyed", "acked", "done"}
             PROVE  main'[To(c)][From(c)] # NoKey
  BY DEF Answered
<1>0. PICK r \in Nodes, i \in Nodes : r = To(c) /\ i = From(c)
  BY ConnEnds
<1>1. ASSUME main[r][i] # NoKey PROVE main'[r][i] # NoKey
  <2>1. ASSUME NEW d \in Conns, OnlineKeys(d) PROVE main'[r][i] # NoKey
    <3>0. PICK m \in Nodes, p \in Nodes : m = To(d) /\ p = From(d)
      BY ConnEnds
    <3>1. main' = main \/ main' = [main EXCEPT ![m][p] = Key(d)]
      BY <2>1, <3>0 DEF OnlineKeys
    <3>2. main'[r][i] = main[r][i] \/ main'[r][i] = Key(d)
      <4>1. main \in [Nodes -> [Nodes -> SUBSET Secrets]]
        BY DEF TypeOK
      <4> QED BY <3>1, <4>1
    <3> QED BY <1>1, <3>2, KeyIsKey
  <2>2. ASSUME NEW d \in Conns, AckEnds(d) PROVE main'[r][i] # NoKey
    <3>0. PICK m \in Nodes, p \in Nodes : m = From(d) /\ p = To(d)
      BY ConnEnds
    <3>4. PICK k : k = {<<m, d>>} \cup offer[d]
      OBVIOUS
    <3>1. main' = main \/ main' = [main EXCEPT ![m][p] = k]
      BY <2>2, <3>0, <3>4 DEF AckEnds
    <3>2. main'[r][i] = main[r][i] \/ main'[r][i] = k
      <4>1. main \in [Nodes -> [Nodes -> SUBSET Secrets]]
        BY DEF TypeOK
      <4> QED BY <3>1, <4>1
    <3>3. k # NoKey
      BY <3>4 DEF NoKey
    <3> QED BY <1>1, <3>2, <3>3
  <2>3. CASE \A d \in Conns : ~ OnlineKeys(d) /\ ~ AckEnds(d)
    BY <1>1, <2>3, KeySteps
  <2> QED BY <2>1, <2>2, <2>3
<1>2. CASE online[c] \in {"keyed", "acked", "done"}
  BY <1>0, <1>1, <1>2 DEF Answered
<1>3. CASE OnlineKeys(c)
  <2>1. main[r][i] = NoKey => main' = [main EXCEPT ![r][i] = Key(c)]
    BY <1>0, <1>3 DEF OnlineKeys
  <2>2. main[r][i] = NoKey => main'[r][i] = Key(c)
    BY <2>1 DEF TypeOK
  <2> QED BY <1>0, <1>1, <2>2, KeyIsKey
<1>4. online[c] \in {"keyed", "acked", "done"} \/ OnlineKeys(c)
  <2>1. OnlineAccept(c) => online'[c] = "accepted"
    BY DEF OnlineAccept, TypeOK
  <2>2. OnlineSendAck(c) \/ OnlineReturn(c) => online[c] \in {"keyed", "acked"}
    BY DEF OnlineSendAck, OnlineReturn
  <2> QED BY <2>1, <2>2, HandlerSteps DEF Fault, CipherFails
<1> QED BY <1>2, <1>3, <1>4

\* Only an abort or an error ends a handler early.
LEMMA AliveStep ==
  ASSUME TypeOK, [Next]_vars, NEW c \in Conns, online[c] # "dead",
         \A d \in Conns : ~ Fault(d), \A n \in Nodes : ~ Restart(n)
  PROVE  online'[c] # "dead"
<1> USE DEF TypeOK
<1>1. ASSUME NEW d \in Conns, Step(d) PROVE online'[c] # "dead"
  BY <1>1 DEF Step, Dialed, DialRefused, MarkConnected, OnlineAccept, OnlineKeys, OnlineSendAck, OnlineReturn,
              AckEnds, AckRegister, Monitor, handlerVars
<1>2. ASSUME NEW d \in Conns, NEW k \in StartKinds, Start(d, k) PROVE online' = online
  BY <1>2 DEF Start, handlerVars
<1>3. CASE UNCHANGED vars
  BY <1>3 DEF vars, handlerVars
<1> QED BY <1>1, <1>2, <1>3 DEF Next

LEMMA RestStep == TypeOK /\ Unborn /\ RestInv /\ [Next]_vars => RestInv'
<1> SUFFICES ASSUME TypeOK, Unborn, RestInv, [Next]_vars, failures' = 0
             PROVE  Returned' /\ Answered' /\ \A c \in Conns : online'[c] # "dead"
  BY DEF RestInv
<1>1. failures \in Nat
  BY DEF TypeOK
<1>2. failures = 0 /\ (\A c \in Conns : ~ Fault(c)) /\ \A n \in Nodes : ~ Restart(n)
  BY <1>1, FailureSteps
<1>3. Returned' /\ Answered'
  BY <1>2, ReturnedStep, AnsweredStep DEF RestInv
<1>4. \A c \in Conns : online'[c] # "dead"
  BY <1>2, AliveStep DEF RestInv
<1> QED BY <1>3, <1>4

\* When nothing fails, online_handler, onlineack_handler and the return
\* connection leave every connected pair with a connection in each direction
\* and a session key at each end, once the pair has nothing left to do.
THEOREM PairsSymmetric == Spec => []SymmetricAtRest
<1>1. Init => RestInv
  BY DEF Init, RestInv, Returned, Answered
<1>2. TypeOK /\ PairInv /\ RestInv => SymmetricAtRest
  <2> SUFFICES ASSUME TypeOK, PairInv, RestInv, failures = 0,
                      NEW c \in Conns, link[c] = "up", Resting(From(c), To(c))
               PROVE  HasOutbound(To(c), From(c)) /\ Keyed(From(c), To(c))
    BY DEF SymmetricAtRest
  <2>1. ASSUME NEW d \in Between(From(c), To(c)), link[d] = "up" PROVE online[d] = "done"
    BY <2>1 DEF Resting, Between, RestInv
  <2>2. c \in Between(From(c), To(c))
    BY DEF Between
  <2>3. online[c] = "done"
    BY <2>1, <2>2
  <2>4. PICK d \in Conns : From(d) = To(c) /\ To(d) = From(c) /\ link[d] \in {"dialing", "up"}
    BY <2>3 DEF RestInv, Returned
  <2>5. d \in Between(From(c), To(c))
    BY <2>4 DEF Between
  <2>6. link[d] = "up"
    BY <2>4, <2>5 DEF Resting
  <2>7. online[d] = "done"
    BY <2>1, <2>5, <2>6
  <2>8. main[To(c)][From(c)] # NoKey /\ main[From(c)][To(c)] # NoKey
    BY <2>3, <2>4, <2>7 DEF RestInv, Answered
  <2> QED BY <2>4, <2>6, <2>8 DEF HasOutbound, Keyed
<1>3. PairInv => Unborn
  BY DEF PairInv
<1> QED
  BY <1>1, <1>2, <1>3, TypeCorrect, PairInit, PairStep, RestStep, PTL DEF Spec

-----------------------------------------------------------------------------
(* Flags.                                                                  *)

\* Why n may flag p on account of c: n dialled c and was answered or marked the
\* peer itself, or n answered on c and its handler has not come to starting
\* the monitor, never will, or the monitor runs.
FlagReason(n, c) ==
  \/ From(c) = n /\ (ack[c] = "done" \/ kind[c] = "gossip")
  \/ To(c) = n /\ (online[c] \in {"accepted", "keyed", "acked", "dead"} \/ monitor[c] = "on")

FlagInv ==
  /\ \A c \in Conns : marking[c] => kind[c] = "gossip"
  /\ \A n, p \in Nodes : p \in connected[n] => \E c \in Between(n, p) : FlagReason(n, c)

\* Only gossip dials are marked, and the kind of a dial is for good.
LEMMA MarkStep == TypeOK /\ FlagInv /\ [Next]_vars =>
  \A c \in Conns : (marking'[c] => kind'[c] = "gossip") /\ (kind[c] = "gossip" => kind'[c] = "gossip")
<1> SUFFICES ASSUME TypeOK, FlagInv, [Next]_vars, NEW c \in Conns
             PROVE  (marking'[c] => kind'[c] = "gossip") /\ (kind[c] = "gossip" => kind'[c] = "gossip")
  OBVIOUS
<1> USE DEF TypeOK
<1>0. marking[c] => kind[c] = "gossip"
  BY DEF FlagInv
<1>1. ASSUME NEW d \in Conns, NEW k \in StartKinds, Start(d, k)
      PROVE  marking' = marking /\ kind[d] = "unused" /\ kind' = [kind EXCEPT ![d] = k]
  BY <1>1 DEF Start, NextDial
<1>2. ASSUME NEW d \in Conns, Dialed(d)
      PROVE  kind' = kind /\ marking' = [marking EXCEPT ![d] = (kind[d] = "gossip")]
  BY <1>2 DEF Dialed
<1>3. ASSUME NEW d \in Conns, \/ DialRefused(d) \/ OnlineAccept(d) \/ OnlineKeys(d) \/ OnlineSendAck(d)
                              \/ AckEnds(d) \/ AckRegister(d) \/ Monitor(d) \/ Fault(d)
      PROVE  UNCHANGED <<kind, marking>>
  BY <1>3 DEF DialRefused, OnlineAccept, OnlineKeys, OnlineSendAck, AckEnds, AckRegister, Monitor, Fault,
              DialFailed, Drop, Offline, CipherFails, OnlineKeysFails, AckEndsFails, linkVars
<1>4. ASSUME NEW d \in Conns, MarkConnected(d) PROVE kind' = kind /\ marking' = [marking EXCEPT ![d] = FALSE]
  BY <1>4 DEF MarkConnected
<1>5. ASSUME NEW d \in Conns, OnlineReturn(d)
      PROVE  /\ marking' = marking
             /\ kind' = kind \/ \E e \in Conns : kind[e] = "unused" /\ kind' = [kind EXCEPT ![e] = "return"]
  BY <1>5 DEF OnlineReturn, NextDial
<1>6. ASSUME NEW n \in Nodes, Restart(n) PROVE kind' = kind /\ (marking'[c] => marking[c])
  BY <1>6 DEF Restart
<1>7. CASE UNCHANGED vars
  BY <1>0, <1>7 DEF vars, linkVars
<1>8. ASSUME NEW d \in Conns, NEW k \in StartKinds, Start(d, k)
      PROVE  (marking'[c] => kind'[c] = "gossip") /\ (kind[c] = "gossip" => kind'[c] = "gossip")
  BY <1>0, <1>1, <1>8
<1>9. ASSUME NEW d \in Conns, Dialed(d)
      PROVE  (marking'[c] => kind'[c] = "gossip") /\ (kind[c] = "gossip" => kind'[c] = "gossip")
  BY <1>0, <1>2, <1>9
<1>10. ASSUME NEW d \in Conns, OnlineReturn(d) \/ MarkConnected(d)
       PROVE  (marking'[c] => kind'[c] = "gossip") /\ (kind[c] = "gossip" => kind'[c] = "gossip")
  BY <1>0, <1>4, <1>5, <1>10
<1> QED BY <1>0, <1>3, <1>6, <1>7, <1>8, <1>9, <1>10 DEF Next, Step

\* A flag is set by a step that gives a reason, and a reason ends with the step
\* of the monitor that clears the flag.
LEMMA FlagSteps ==
  ASSUME TypeOK, Stages, FlagInv, [Next]_vars, NEW n \in Nodes, NEW p \in Nodes, p \in connected'[n]
  PROVE  \E c \in Between(n, p) : FlagReason(n, c)'
<1> USE DEF TypeOK
<1>1. \A c \in Conns : kind[c] = "gossip" => kind'[c] = "gossip"
  BY MarkStep
<1>2. CASE \E c \in Conns : OnlineAccept(c) /\ n = To(c) /\ p = From(c)
  <2>1. PICK c \in Conns : OnlineAccept(c) /\ n = To(c) /\ p = From(c)
    BY <1>2
  <2>2. online'[c] = "accepted" /\ c \in Between(n, p)
    BY <2>1 DEF OnlineAccept, Between
  <2> QED BY <2>1, <2>2 DEF FlagReason
<1>3. CASE \E c \in Conns : AckRegister(c) /\ n = From(c) /\ p = To(c)
  <2>1. PICK c \in Conns : AckRegister(c) /\ n = From(c) /\ p = To(c)
    BY <1>3
  <2>2. ack'[c] = "done" /\ c \in Between(n, p)
    BY <2>1 DEF AckRegister, Between
  <2> QED BY <2>1, <2>2 DEF FlagReason
<1>4. CASE \E c \in Conns : MarkConnected(c) /\ n = From(c) /\ p = To(c)
  <2>1. PICK c \in Conns : MarkConnected(c) /\ n = From(c) /\ p = To(c)
    BY <1>4
  <2>2. kind[c] = "gossip" /\ kind' = kind /\ c \in Between(n, p)
    BY <2>1 DEF MarkConnected, FlagInv, Between
  <2> QED BY <2>1, <2>2 DEF FlagReason
<1>5. ASSUME p \in connected[n],
             \A c \in Between(n, p) : FlagReason(n, c) => FlagReason(n, c)'
      PROVE  \E c \in Between(n, p) : FlagReason(n, c)'
  BY <1>5 DEF FlagInv
<1>6. CASE /\ ~ (\E c \in Conns : OnlineAccept(c) /\ n = To(c) /\ p = From(c))
           /\ ~ (\E c \in Conns : AckRegister(c) /\ n = From(c) /\ p = To(c))
           /\ ~ (\E c \in Conns : MarkConnected(c) /\ n = From(c) /\ p = To(c))
  <2>1. p \in connected[n]
    <3>1. ASSUME NEW c \in Conns, OnlineAccept(c) PROVE p \in connected[n]
      <4>1. connected' = [connected EXCEPT ![To(c)] = @ \cup {From(c)}] /\ To(c) \in Nodes
        BY <3>1, ConnEnds DEF OnlineAccept
      <4> QED BY <1>6, <3>1, <4>1
    <3>2. ASSUME NEW c \in Conns, AckRegister(c) \/ MarkConnected(c) PROVE p \in connected[n]
      <4>1. connected' = [connected EXCEPT ![From(c)] = @ \cup {To(c)}] /\ From(c) \in Nodes
        BY <3>2, ConnEnds DEF AckRegister, MarkConnected
      <4> QED BY <1>6, <3>2, <4>1
    <3>3. ASSUME NEW c \in Conns, Monitor(c) PROVE p \in connected[n]
      <4>1. connected' = [connected EXCEPT ![To(c)] = @ \ {From(c)}] /\ To(c) \in Nodes
        BY <3>3, ConnEnds DEF Monitor
      <4> QED BY <4>1
    <3>4. ASSUME NEW m \in Nodes, Restart(m) PROVE p \in connected[n]
      BY <3>4 DEF Restart
    <3>5. ASSUME NEW c \in Conns, NEW k \in StartKinds, Start(c, k) PROVE connected' = connected
      BY <3>5 DEF Start
    <3>6. ASSUME NEW c \in Conns, \/ Dialed(c) \/ DialRefused(c) \/ OnlineKeys(c) \/ OnlineSendAck(c)
                                  \/ OnlineReturn(c) \/ AckEnds(c) \/ Fault(c)
          PROVE  connected' = connected
      BY <3>6 DEF Dialed, DialRefused, OnlineKeys, OnlineSendAck, OnlineReturn, AckEnds, Fault,
                  DialFailed, Drop, Offline, CipherFails, OnlineKeysFails, AckEndsFails
    <3>7. CASE UNCHANGED vars
      BY <3>7 DEF vars
    <3> QED BY <3>1, <3>2, <3>3, <3>4, <3>5, <3>6, <3>7 DEF Next, Step
  <2>2. ASSUME NEW c \in Between(n, p), FlagReason(n, c) PROVE FlagReason(n, c)'
    <3>0. c \in Conns /\ {From(c), To(c)} = {n, p}
      BY DEF Between
    <3>1. CASE From(c) = n /\ ack[c] = "done"
      <4>1. ack'[c] = "done"
        BY <3>0, <3>1, HandlerSteps DEF Stages, OnlineSendAck, AckEnds, AckRegister, AckEndsFails
      <4> QED BY <3>1, <4>1 DEF FlagReason
    <3>2. CASE From(c) = n /\ kind[c] = "gossip"
      BY <1>1, <3>0, <3>2 DEF FlagReason
    <3>3. CASE To(c) = n /\ online[c] \in {"accepted", "keyed", "acked", "dead"}
      <4>1. \/ online'[c] \in {"accepted", "keyed", "acked", "dead"}
            \/ OnlineReturn(c)
        BY <3>0, <3>3, HandlerSteps DEF OnlineAccept, OnlineKeys, OnlineSendAck, OnlineKeysFails
      <4>2. OnlineReturn(c) => monitor'[c] = "on"
        BY <3>0 DEF OnlineReturn
      <4> QED BY <3>3, <4>1, <4>2 DEF FlagReason
    <3>4. CASE To(c) = n /\ monitor[c] = "on"
      <4>1. CASE monitor'[c] = "on"
        BY <3>4, <4>1 DEF FlagReason
      <4>2. ASSUME NEW d \in Conns, Monitor(d) PROVE monitor'[c] = "on"
        <5>1. d # c
          <6>1. From(c) = p
            BY <3>0, <3>4, ConnEnds
          <6>2. connected' = [connected EXCEPT ![To(d)] = @ \ {From(d)}]
            BY <4>2 DEF Monitor
          <6> QED BY <3>4, <6>1, <6>2
        <5> QED BY <3>0, <3>4, <4>2, <5>1 DEF Monitor
      <4>3. ASSUME NEW m \in Nodes, Restart(m) PROVE monitor'[c] = "on"
        <5>1. m # n
          BY <4>3 DEF Restart
        <5> QED BY <3>0, <3>4, <4>3, <5>1 DEF Restart
      <4>4. ASSUME NEW d \in Conns, NEW k \in StartKinds, Start(d, k) PROVE monitor' = monitor
        BY <4>4 DEF Start, handlerVars
      <4>5. ASSUME NEW d \in Conns, \/ Dialed(d) \/ DialRefused(d) \/ MarkConnected(d) \/ OnlineAccept(d) \/ OnlineKeys(d)
                                    \/ OnlineSendAck(d) \/ AckEnds(d) \/ AckRegister(d) \/ Fault(d)
            PROVE  monitor' = monitor
        BY <4>5 DEF Dialed, DialRefused, MarkConnected, OnlineAccept, OnlineKeys, OnlineSendAck, AckEnds, AckRegister,
                    Fault, DialFailed, Drop, Offline, CipherFails, OnlineKeysFails, AckEndsFails, handlerVars
      <4>6. ASSUME NEW d \in Conns, OnlineReturn(d) PROVE monitor'[c] = "on"
        BY <3>0, <3>4, <4>6 DEF OnlineReturn
      <4>7. ASSUME UNCHANGED vars PROVE monitor' = monitor
        BY <4>7 DEF vars, handlerVars
      <4>8. monitor'[c] = "on"
        BY <3>4, <4>2, <4>3, <4>4, <4>5, <4>6, <4>7 DEF Next, Step
      <4> QED BY <4>1, <4>8
    <3> QED BY <2>2, <3>1, <3>2, <3>3, <3>4 DEF FlagReason
  <2> QED BY <1>5, <2>1, <2>2
<1> QED BY <1>2, <1>3, <1>4, <1>6

\* A node that flags a peer once all their connections, handlers and monitors
\* are gone dialled it itself or was cut short in online_handler, for any
\* number of connections, in any order and with any failures.
THEOREM StaleFlagsAreDialers == Spec => []OnlyDialersStale
<1>1. Init => FlagInv
  BY DEF Init, FlagInv
<1>2. TypeOK /\ PairInv /\ FlagInv /\ [Next]_vars => FlagInv'
  <2> SUFFICES ASSUME TypeOK, Stages, FlagInv, [Next]_vars PROVE FlagInv'
    BY DEF PairInv
  <2>1. \A c \in Conns : marking'[c] => kind'[c] = "gossip"
    BY MarkStep
  <2>2. \A n, p \in Nodes : p \in connected'[n] => \E c \in Between(n, p) : FlagReason(n, c)'
    BY FlagSteps
  <2> QED BY <2>1, <2>2 DEF FlagInv, Between
<1>3. FlagInv => OnlyDialersStale
  <2> SUFFICES ASSUME FlagInv, NEW n \in Nodes, NEW p \in Nodes, Parted(n, p), p \in connected[n]
               PROVE  \E c \in Between(n, p) : \/ From(c) = n /\ (ack[c] = "done" \/ kind[c] = "gossip")
                                               \/ To(c) = n /\ online[c] = "dead"
    BY DEF OnlyDialersStale
  <2>1. PICK c \in Between(n, p) : FlagReason(n, c)
    BY DEF FlagInv
  <2>2. online[c] \in {"idle", "done", "dead"} /\ monitor[c] # "on"
    BY DEF Parted
  <2> QED BY <2>1, <2>2 DEF FlagReason
<1> QED
  BY <1>1, <1>2, <1>3, TypeCorrect, PairInit, PairStep, PTL DEF Spec
=============================================================================
