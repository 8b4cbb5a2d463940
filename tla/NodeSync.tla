------------------------------ MODULE NodeSync ------------------------------
(***************************************************************************)
(* Node synchronisation and witness validation: the handlers that talk to   *)
(* the embedding application over channels.                                 *)
(*                                                                         *)
(* A connection has one router loop at each end, which runs the handler of   *)
(* one frame at a time: while node_sync_handler waits for the application,   *)
(* nothing else of that connection is read.  It hands the request over in a  *)
(* channel with one slot and waits for a oneshot; the handler of the         *)
(* response waits for a free slot in another channel.  Neither waits with a  *)
(* timeout.  Validation events are dropped when their channel is full.       *)
(*                                                                         *)
(* The application is external: it may register its channels late, replace   *)
(* them, answer in any order, or drop a request.                             *)
(***************************************************************************)
EXTENDS Integers, Sequences, FiniteSets

CONSTANTS
  Nodes,
  Conns,        \* connections; both ends may send on each
  Ends,         \* Ends[c]: the two nodes of c
  EventSlots,   \* capacity of the channel for validation events
  MaxRequests,  \* bound: requests made
  MaxFaults     \* bound: connections lost, channels closed

ASSUME NodeSyncConstants ==
  /\ Ends \in [Conns -> SUBSET Nodes]
  /\ \A c \in Conns : \E n, m \in Nodes : n # m /\ Ends[c] = {n, m}
  /\ EventSlots \in Nat /\ MaxRequests \in Nat /\ MaxFaults \in Nat

Reqs == 1 .. MaxRequests
Channels == {"request", "response", "event"}

Frames == [type : {"sync", "data", "failed", "validate", "validated"}, id : Reqs]
Frame(t, i) == [type |-> t, id |-> i]

VARIABLES
  wire,     \* wire[c][n]: frames for n on c
  open,     \* open connections
  loop,     \* loop[c][n]: what n's router loop on c is doing
  cur,      \* cur[c][n]: the request it is doing it for
  request,  \* request[n]: the channel of SyncRequests
  held,     \* held[n]: SyncRequests the application has taken
  oneshot,  \* oneshot[i]: the answer to request i
  replies,  \* replies[n]: the channel of responses
  events,   \* events[n]: the channel of validation events, each told by the request
            \* that led to it, which is history: the event itself holds the address
            \* of the node that asked, and no nonce
  sender,   \* sender[n][ch]: a sender of that channel is "none", "set" or "closed"
  by,       \* by[i]: who made request i and its type, as a set of at most one
  got,      \* history: got[n]: requests whose answer the application of n received
  failed,   \* history: requests that ended without an answer
  made, faults

appVars == <<request, held, oneshot, replies, events, sender>>
vars == <<wire, open, loop, cur, appVars, by, got, failed, made, faults>>

Other(c, n) == CHOOSE m \in Ends[c] : m # n

Init ==
  /\ wire = [c \in Conns |-> [n \in Nodes |-> <<>>]]
  /\ open = Conns
  /\ loop = [c \in Conns |-> [n \in Nodes |-> "read"]]
  /\ cur = [c \in Conns |-> [n \in Nodes |-> 0]]
  /\ request = [n \in Nodes |-> {}]
  /\ held = [n \in Nodes |-> {}]
  /\ oneshot = [i \in Reqs |-> "empty"]
  /\ replies = [n \in Nodes |-> {}]
  /\ events = [n \in Nodes |-> {}]
  /\ sender = [n \in Nodes |-> [ch \in Channels |-> "none"]]
  /\ by = [i \in Reqs |-> {}]
  /\ got = [n \in Nodes |-> {}]
  /\ failed = {}
  /\ made = 0 /\ faults = 0

-----------------------------------------------------------------------------
(* Requests.                                                                *)

Goto(c, n, stage, i) ==
  /\ loop' = [loop EXCEPT ![c][n] = stage]
  /\ cur' = [cur EXCEPT ![c][n] = i]

\* request_node_sync, which online_handler calls after a handshake, and
\* send_validate_request.  Nobody waits for the answer.
Ask(c, n, type) ==
  /\ c \in open /\ n \in Ends[c] /\ made < MaxRequests
  /\ made' = made + 1
  /\ by' = [by EXCEPT ![made + 1] = {<<n, type>>}]
  /\ wire' = [wire EXCEPT ![c][Other(c, n)] = Append(@, Frame(type, made + 1))]
  /\ UNCHANGED <<open, loop, cur, appVars, got, failed, faults>>

\* The router loop takes the next frame, of one of these types.
Reads(c, n, types) ==
  /\ loop[c][n] = "read" /\ wire[c][n] # <<>>
  /\ Head(wire[c][n]).type \in types

\* node_sync_handler: without a channel that is registered and open the answer
\* is a failure.
HandleSync(c, n) ==
  /\ Reads(c, n, {"sync"})
  /\ wire' = [wire EXCEPT ![c][n] = Tail(@)]
  /\ Goto(c, n, IF sender[n]["request"] = "set" THEN "offer" ELSE "refuse", Head(wire[c][n]).id)
  /\ UNCHANGED <<open, appVars, by, got, failed, made, faults>>

\* Mutant of Offer: the request does not wait for the slot.
OfferAtOnce(c, n) ==
  /\ loop[c][n] = "offer"
  /\ request' = [request EXCEPT ![n] = @ \cup {cur[c][n]}]
  /\ Goto(c, n, "await", cur[c][n])
  /\ UNCHANGED <<wire, open, held, oneshot, replies, events, sender, by, got, failed, made, faults>>

\* The request waits for the slot of the channel.
Offer(c, n) ==
  /\ loop[c][n] = "offer" /\ request[n] = {}
  /\ request' = [request EXCEPT ![n] = {cur[c][n]}]
  /\ Goto(c, n, "await", cur[c][n])
  /\ UNCHANGED <<wire, open, held, oneshot, replies, events, sender, by, got, failed, made, faults>>

\* Only what the application answered is data.
Response(c, n) == IF loop[c][n] = "await" /\ oneshot[cur[c][n]] = "data" THEN "data" ELSE "failed"

\* Mutant of Reply: a oneshot that was dropped is not noticed.
ReplyToData(c, n) ==
  /\ loop[c][n] = "refuse" \/ (loop[c][n] = "await" /\ oneshot[cur[c][n]] = "data")
  /\ IF c \in open
     THEN /\ wire' = [wire EXCEPT ![c][Other(c, n)] = Append(@, Frame(Response(c, n), cur[c][n]))]
          /\ UNCHANGED failed
     ELSE failed' = failed \cup {cur[c][n]} /\ UNCHANGED wire
  /\ Goto(c, n, "read", 0)
  /\ UNCHANGED <<open, appVars, by, got, made, faults>>

\* The response is written once the oneshot is answered or dropped; there may be
\* no connection any more to write it to.
Reply(c, n) ==
  /\ loop[c][n] = "refuse" \/ (loop[c][n] = "await" /\ oneshot[cur[c][n]] # "empty")
  /\ IF c \in open
     THEN /\ wire' = [wire EXCEPT ![c][Other(c, n)] = Append(@, Frame(Response(c, n), cur[c][n]))]
          /\ UNCHANGED failed
     ELSE failed' = failed \cup {cur[c][n]} /\ UNCHANGED wire
  /\ Goto(c, n, "read", 0)
  /\ UNCHANGED <<open, appVars, by, got, made, faults>>

\* witness_validate_handler answers at once, with the nonce and the address of the
\* frame it answers, which is the requester's own.
HandleValidate(c, n) ==
  /\ Reads(c, n, {"validate"})
  /\ wire' = [wire EXCEPT ![c][n] = Tail(@),
                          ![c][Other(c, n)] = Append(@, Frame("validated", Head(wire[c][n]).id))]
  /\ UNCHANGED <<open, loop, cur, appVars, by, got, failed, made, faults>>

-----------------------------------------------------------------------------
(* Responses.                                                               *)

\* Mutant of HandleData: the success flag of the response is not looked at.
HandleDataAny(c, n) ==
  LET f == Head(wire[c][n])
  IN /\ Reads(c, n, {"data", "failed"})
     /\ wire' = [wire EXCEPT ![c][n] = Tail(@)]
     /\ IF sender[n]["response"] = "set"
        THEN Goto(c, n, "forward", f.id) /\ UNCHANGED failed
        ELSE failed' = failed \cup {f.id} /\ UNCHANGED <<loop, cur>>
     /\ UNCHANGED <<open, appVars, by, got, made, faults>>

\* node_sync_response_handler: a failure goes no further, nor does data without
\* a channel that is registered and open.
HandleData(c, n) ==
  LET f == Head(wire[c][n])
  IN /\ Reads(c, n, {"data", "failed"})
     /\ wire' = [wire EXCEPT ![c][n] = Tail(@)]
     /\ IF f.type = "data" /\ sender[n]["response"] = "set"
        THEN Goto(c, n, "forward", f.id) /\ UNCHANGED failed
        ELSE failed' = failed \cup {f.id} /\ UNCHANGED <<loop, cur>>
     /\ UNCHANGED <<open, appVars, by, got, made, faults>>

\* The data waits for the slot of the channel.
Forward(c, n) ==
  /\ loop[c][n] = "forward" /\ replies[n] = {}
  /\ replies' = [replies EXCEPT ![n] = {cur[c][n]}]
  /\ Goto(c, n, "read", 0)
  /\ UNCHANGED <<wire, open, request, held, oneshot, events, sender, by, got, failed, made, faults>>

\* witness_validate_ack_handler: an event with the address in the response, and
\* without the nonce, unless the channel is full, closed or missing.
HandleValidated(c, n) ==
  LET i == Head(wire[c][n]).id
      room == sender[n]["event"] = "set" /\ Cardinality(events[n]) < EventSlots
  IN /\ Reads(c, n, {"validated"})
     /\ wire' = [wire EXCEPT ![c][n] = Tail(@)]
     /\ events' = [events EXCEPT ![n] = IF room THEN @ \cup {i} ELSE @]
     /\ failed' = IF room THEN failed ELSE failed \cup {i}
     /\ UNCHANGED <<open, loop, cur, request, held, oneshot, replies, sender, by, got, made, faults>>

-----------------------------------------------------------------------------
(* The application, and failures.                                           *)

\* The application registers the channels that it has not or has closed; that of
\* the events is set only once.
Register(n) ==
  LET kept == IF sender[n]["event"] = "closed" THEN {"event"} ELSE {}
  IN /\ \E ch \in Channels \ kept : sender[n][ch] # "set"
     /\ sender' = [sender EXCEPT ![n] = [ch \in Channels |-> IF ch \in kept THEN "closed" ELSE "set"]]
     /\ UNCHANGED <<wire, open, loop, cur, request, held, oneshot, replies, events, by, got, failed, made, faults>>

Take(n) ==
  /\ request[n] # {}
  /\ held' = [held EXCEPT ![n] = @ \cup request[n]]
  /\ request' = [request EXCEPT ![n] = {}]
  /\ UNCHANGED <<wire, open, loop, cur, oneshot, replies, events, sender, by, got, failed, made, faults>>

\* Some request is answered, or dropped.
Answer(n) ==
  /\ \E i \in held[n], a \in {"data", "dropped"} :
       /\ oneshot' = [oneshot EXCEPT ![i] = a]
       /\ held' = [held EXCEPT ![n] = @ \ {i}]
  /\ UNCHANGED <<wire, open, loop, cur, request, replies, events, sender, by, got, failed, made, faults>>

Receive(n) ==
  /\ replies[n] # {}
  /\ got' = [got EXCEPT ![n] = @ \cup replies[n]]
  /\ replies' = [replies EXCEPT ![n] = {}]
  /\ UNCHANGED <<wire, open, loop, cur, request, held, oneshot, events, sender, by, failed, made, faults>>

ReceiveEvent(n) ==
  /\ \E i \in events[n] : /\ got' = [got EXCEPT ![n] = @ \cup {i}]
                          /\ events' = [events EXCEPT ![n] = @ \ {i}]
  /\ UNCHANGED <<wire, open, loop, cur, request, held, oneshot, replies, sender, by, failed, made, faults>>

\* The application ends a channel, or set_request_sender or set_response_sender
\* puts another in the place of an open one and its receiver goes.  What is in
\* it is dropped, and with a SyncRequest its oneshot; a handler that waits for
\* the slot gets an error.
Close(n, ch) ==
  LET waiting(stage) == {c \in Conns : loop[c][n] = stage}
      dropped == IF ch = "request" THEN waiting("offer") ELSE
                 IF ch = "response" THEN waiting("forward") ELSE {}
  IN /\ faults < MaxFaults /\ sender[n][ch] = "set"
     /\ faults' = faults + 1
     /\ \E left \in IF ch = "event" THEN {"closed"} ELSE {"closed", "set"} :
          sender' = [sender EXCEPT ![n][ch] = left]
     /\ loop' = [c \in Conns |-> IF c \notin dropped THEN loop[c] ELSE
                   [loop[c] EXCEPT ![n] = IF ch = "request" THEN "refuse" ELSE "read"]]
     /\ cur' = [c \in Conns |-> IF c \notin dropped \/ ch = "request" THEN cur[c]
                                 ELSE [cur[c] EXCEPT ![n] = 0]]
     /\ CASE ch = "request" ->
               /\ oneshot' = [i \in Reqs |-> IF i \in request[n] THEN "dropped" ELSE oneshot[i]]
               /\ request' = [request EXCEPT ![n] = {}]
               /\ UNCHANGED <<replies, events, failed>>
          [] ch = "response" ->
               /\ failed' = failed \cup replies[n] \cup {cur[c][n] : c \in dropped}
               /\ replies' = [replies EXCEPT ![n] = {}]
               /\ UNCHANGED <<request, oneshot, events>>
          [] ch = "event" ->
               /\ failed' = failed \cup events[n]
               /\ events' = [events EXCEPT ![n] = {}]
               /\ UNCHANGED <<request, oneshot, replies>>
     /\ UNCHANGED <<wire, open, held, by, got, made>>

\* A connection is lost with its frames.  The handlers of its loops go on, or
\* the connection manager has aborted them.
Lose(c) ==
  \E aborted \in SUBSET Ends[c] :
    /\ faults < MaxFaults /\ c \in open
    /\ faults' = faults + 1
    /\ open' = open \ {c}
    /\ failed' = failed \cup (UNION {{wire[c][n][k].id : k \in DOMAIN wire[c][n]} : n \in Nodes})
                        \cup ({cur[c][n] : n \in aborted} \ {0})
    /\ wire' = [wire EXCEPT ![c] = [n \in Nodes |-> <<>>]]
    /\ loop' = [loop EXCEPT ![c] = [n \in Nodes |-> IF n \in aborted THEN "read" ELSE @[n]]]
    /\ cur' = [cur EXCEPT ![c] = [n \in Nodes |-> IF n \in aborted THEN 0 ELSE @[n]]]
    /\ UNCHANGED <<appVars, by, got, made>>

Loops(c, n) ==
  \/ HandleSync(c, n) \/ Offer(c, n) \/ Reply(c, n) \/ HandleValidate(c, n)
  \/ HandleData(c, n) \/ Forward(c, n) \/ HandleValidated(c, n)

Next ==
  \/ \E c \in Conns, n \in Nodes : Loops(c, n) \/ \E t \in {"sync", "validate"} : Ask(c, n, t)
  \/ \E n \in Nodes, ch \in Channels : Close(n, ch)
  \/ \E n \in Nodes : Register(n) \/ Take(n) \/ Answer(n) \/ Receive(n) \/ ReceiveEvent(n)
  \/ \E c \in Conns : Lose(c)

Spec == Init /\ [][Next]_vars

\* Router loops run, and an application that registered a channel reads it and
\* answers or drops what it took.
FairSpec ==
  /\ Spec
  /\ \A c \in Conns, n \in Nodes : WF_vars(Loops(c, n))
  /\ \A n \in Nodes : /\ WF_vars(Take(n)) /\ WF_vars(Answer(n))
                       /\ WF_vars(Receive(n)) /\ WF_vars(ReceiveEvent(n))

-----------------------------------------------------------------------------
\* Frames, loops, channels and histories have their types; the channels keep
\* their capacity.
TypeOK ==
  /\ wire \in [Conns -> [Nodes -> Seq(Frames)]]
  /\ open \subseteq Conns
  /\ loop \in [Conns -> [Nodes -> {"read", "offer", "await", "refuse", "forward"}]]
  /\ cur \in [Conns -> [Nodes -> 0 .. MaxRequests]]
  /\ request \in [Nodes -> SUBSET Reqs] /\ \A n \in Nodes : Cardinality(request[n]) <= 1
  /\ held \in [Nodes -> SUBSET Reqs]
  /\ oneshot \in [Reqs -> {"empty", "data", "dropped"}]
  /\ replies \in [Nodes -> SUBSET Reqs] /\ \A n \in Nodes : Cardinality(replies[n]) <= 1
  /\ events \in [Nodes -> SUBSET Reqs] /\ \A n \in Nodes : Cardinality(events[n]) <= EventSlots
  /\ sender \in [Nodes -> [Channels -> {"none", "set", "closed"}]]
  /\ by \in [Reqs -> SUBSET (Nodes \X {"sync", "validate"})]
  /\ got \in [Nodes -> SUBSET Reqs]
  /\ failed \subseteq Reqs
  /\ made \in 0 .. MaxRequests
  /\ faults \in 0 .. MaxFaults

\* What an application receives answers a request its own node made, and is how
\* that request ended: no answer goes to the wrong connection, none arrives for
\* a request that failed, and a failure is never taken for data.  (A validation
\* event does not say which request it answers, only that one of this node was.)
AnswersOwn ==
  \A n \in Nodes : \A i \in got[n] \cup replies[n] \cup events[n] :
    /\ i \notin failed
    /\ by[i] = {<<n, "validate">>} \/ (by[i] = {<<n, "sync">>} /\ oneshot[i] = "data")

\* No request is forgotten, and none of the waits without a timeout is for
\* nothing: a request that was made failed or is known to the application that
\* asked, travels on an open connection or occupies a router loop; and a loop
\* that waits for a oneshot waits for a request that its application can still
\* answer or drop.
NoneForgotten ==
  /\ \A i \in Reqs : by[i] # {} =>
       \/ i \in failed
       \/ \E n \in Nodes : i \in got[n] \cup replies[n] \cup events[n]
       \/ \E c \in open : \E n \in Ends[c] : \E k \in DOMAIN wire[c][n] : wire[c][n][k].id = i
       \/ \E c \in Conns : \E n \in Ends[c] : loop[c][n] # "read" /\ cur[c][n] = i
  /\ \A c \in Conns, n \in Nodes :
       loop[c][n] = "await" /\ oneshot[cur[c][n]] = "empty" => cur[c][n] \in request[n] \cup held[n]

\* Every request ends: its answer reaches the application that asked, or it
\* fails on the way.  No loop waits for ever, although none of the waits of
\* node_sync_handler and node_sync_response_handler has a timeout.
EveryRequestEnds ==
  \A i \in Reqs : [](by[i] # {} => <>(i \in failed \/ \E n \in Nodes : i \in got[n]))
=============================================================================
