------------------------------ MODULE Delivery ------------------------------
(***************************************************************************)
(* What the chat of a node promises the user who sends a message, whatever  *)
(* is lost, late, forwarded or restarted: a message that was refused never  *)
(* arrives, one that is confirmed has arrived unless another one was given  *)
(* the same request id, and what the user was told is never taken back.     *)
(***************************************************************************)
CONSTANTS Sends, Ids

VARIABLES
  told,     \* told[s]: what the sender knows of the message
  id,       \* id[s]: its request id, 0 before it is sent
  arrived   \* messages handed to the receiver's application

vars == <<told, id, arrived>>

Init ==
  /\ told = [s \in Sends |-> "nothing"]
  /\ id = [s \in Sends |-> 0]
  /\ arrived = {}

\* The user sends a message.
Begin(s) ==
  /\ told[s] = "nothing"
  /\ told' = [told EXCEPT ![s] = "begun"]
  /\ \E i \in Ids : id' = [id EXCEPT ![s] = i]
  /\ UNCHANGED arrived

\* The user gets an error, or "Message sent".
Answer(s, answer) ==
  /\ told[s] = "begun"
  /\ told' = [told EXCEPT ![s] = answer]
  /\ UNCHANGED <<id, arrived>>

\* The message arrives, at any time after it has left.
Arrive(s) ==
  /\ told[s] \in {"sent", "confirmed", "unsure"} /\ s \notin arrived
  /\ arrived' = arrived \cup {s}
  /\ UNCHANGED <<told, id>>

\* The message is marked as delivered.
Confirm(s) ==
  /\ told[s] = "sent"
  /\ s \in arrived \/ \E t \in Sends : t # s /\ id[t] = id[s]
  /\ told' = [told EXCEPT ![s] = "confirmed"]
  /\ UNCHANGED <<id, arrived>>

\* Nobody will tell any more: the wait timed out, or the sender restarted.
GiveUp(S) ==
  /\ \A s \in S : told[s] \in {"begun", "sent"}
  /\ told' = [s \in Sends |-> IF s \in S THEN "unsure" ELSE told[s]]
  /\ UNCHANGED <<id, arrived>>

Next ==
  \/ \E s \in Sends : \/ Begin(s) \/ Arrive(s) \/ Confirm(s)
                      \/ Answer(s, "refused") \/ Answer(s, "sent")
  \/ \E S \in SUBSET Sends : GiveUp(S)

Spec == Init /\ [][Next]_vars
=============================================================================
