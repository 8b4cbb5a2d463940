--------------------------- MODULE NodeSyncProofs ---------------------------
(***************************************************************************)
(* Type correctness of node synchronisation, that an application only      *)
(* receives answers to the requests of its own node, and that no request   *)
(* is forgotten and no loop waits for nothing, for any nodes, connections  *)
(* and bounds.                                                             *)
(***************************************************************************)
EXTENDS NodeSync, FiniteSetTheorems, TLAPS

\* Where a request that has not ended, or has, may be: in a frame, with a
\* router loop, with the application that asked.
Ids(s) == {s[k].id : k \in DOMAIN s}
Wired(c, n) == Ids(wire[c][n])
Busy(c, n) == {cur[c][n]} \ {0}
Known(n) == got[n] \cup replies[n] \cup events[n]

NoDup(s) == \A j, k \in DOMAIN s : s[j].id = s[k].id => j = k

\* A request is in one place.
OnePlace ==
  /\ \A c, d \in Conns, n, m \in Nodes :
       /\ Wired(c, n) \cap Wired(d, m) # {} => c = d /\ n = m
       /\ Busy(c, n) \cap Busy(d, m) # {} => c = d /\ n = m
       /\ Wired(c, n) \cap Busy(d, m) = {}
  /\ \A c \in Conns, n, m \in Nodes : (Wired(c, n) \cup Busy(c, n)) \cap (Known(m) \cup failed) = {}
  /\ \A m \in Nodes : Known(m) \cap failed = {}
  /\ \A c \in Conns, n \in Nodes : NoDup(wire[c][n])

\* No application has seen the SyncRequest i.
Unseen(i) == oneshot[i] = "empty" /\ \A m \in Nodes : i \notin request[m] \cup held[m]

\* What a frame f for n on c says of its request.
FrameOK(c, n, f) ==
  /\ n \in Ends[c]
  /\ f.type \in {"sync", "validate"} => by[f.id] = {<<Other(c, n), f.type>>}
  /\ f.type = "sync" => Unseen(f.id)
  /\ f.type \in {"data", "failed"} => by[f.id] = {<<n, "sync">>}
  /\ f.type = "data" => oneshot[f.id] = "data"
  /\ f.type = "validated" => by[f.id] = {<<n, "validate">>}
WireOK == \A c \in Conns, n \in Nodes : \A k \in DOMAIN wire[c][n] : FrameOK(c, n, wire[c][n][k])

\* What a router loop says of the request it works on.
StageOK(c, n) ==
  /\ loop[c][n] = "read" <=> cur[c][n] = 0
  /\ loop[c][n] # "read" => n \in Ends[c]
  /\ loop[c][n] \in {"offer", "await", "refuse"} => by[cur[c][n]] = {<<Other(c, n), "sync">>}
  /\ loop[c][n] = "offer" => Unseen(cur[c][n])
  /\ loop[c][n] = "forward" => by[cur[c][n]] = {<<n, "sync">>} /\ oneshot[cur[c][n]] = "data"
LoopOK == \A c \in Conns, n \in Nodes : StageOK(c, n)

\* An application holds a SyncRequest once, and has not answered it.
SeenOK ==
  \A n \in Nodes :
    /\ request[n] \cap held[n] = {}
    /\ \A m \in Nodes : (request[n] \cup held[n]) \cap (request[m] \cup held[m]) # {} => n = m
    /\ \A i \in request[n] \cup held[n] : oneshot[i] = "empty" /\ by[i] # {}

\* Requests that have not been made are nowhere.
MadeOK ==
  /\ \A i \in Reqs : i > made => by[i] = {} /\ Unseen(i)
  /\ \A i \in failed : by[i] # {}

\* What an application knows of is a request of its node, and a SyncRequest among
\* them was answered.
Answered(n, i) == by[i] = {<<n, "validate">>} \/ (by[i] = {<<n, "sync">>} /\ oneshot[i] = "data")
KnownOK == \A n \in Nodes : \A i \in Known(n) : Answered(n, i)

\* What waits in a channel has not been received.
ChannelsOK == \A n \in Nodes : /\ replies[n] \cap got[n] = {} /\ events[n] \cap got[n] = {}
                               /\ replies[n] \cap events[n] = {}

IInv == TypeOK /\ OnePlace /\ WireOK /\ LoopOK /\ SeenOK /\ MadeOK /\ KnownOK /\ ChannelsOK

-----------------------------------------------------------------------------
(* Queues of frames.                                                       *)

\* A frame goes to the end of a queue.
LEMMA Appended ==
  ASSUME NEW s \in Seq(Frames), NEW f \in Frames
  PROVE  /\ Append(s, f) \in Seq(Frames)
         /\ Ids(Append(s, f)) = Ids(s) \cup {f.id}
         /\ NoDup(s) /\ f.id \notin Ids(s) => NoDup(Append(s, f))
         /\ \A k \in DOMAIN Append(s, f) :
              Append(s, f)[k] = f \/ \E j \in DOMAIN s : Append(s, f)[k] = s[j]
<1> DEFINE t == Append(s, f)
<1>1. /\ t \in Seq(Frames) /\ Len(s) \in Nat
      /\ DOMAIN s = 1 .. Len(s) /\ DOMAIN t = 1 .. Len(s) + 1
      /\ \A k \in DOMAIN s : t[k] = s[k]
      /\ t[Len(s) + 1] = f
  OBVIOUS
<1> HIDE DEF t
<1>2. \A k \in DOMAIN t : k \in DOMAIN s \/ k = Len(s) + 1
  BY <1>1
<1>3. \A k \in DOMAIN s : k \in DOMAIN t
  BY <1>1
<1>4. Len(s) + 1 \in DOMAIN t
  BY <1>1
<1>5. Ids(t) = Ids(s) \cup {f.id}
  BY <1>1, <1>2, <1>3, <1>4, Zenon DEF Ids
<1>6. ASSUME NoDup(s), f.id \notin Ids(s)
      PROVE  NoDup(t)
  <2> SUFFICES ASSUME NEW j \in DOMAIN t, NEW k \in DOMAIN t, t[j].id = t[k].id
               PROVE  j = k
    BY DEF NoDup
  <2> QED
    BY <1>1, <1>2, <1>6 DEF NoDup, Ids
<1>7. \A k \in DOMAIN t : t[k] = f \/ \E j \in DOMAIN s : t[k] = s[j]
  BY <1>1, <1>2
<1> QED
  BY <1>1, <1>5, <1>6, <1>7 DEF t

\* The first frame is taken from a queue.
LEMMA Taken ==
  ASSUME NEW s \in Seq(Frames), s # <<>>, NoDup(s)
  PROVE  /\ Tail(s) \in Seq(Frames)
         /\ Head(s) \in Frames /\ \E k \in DOMAIN s : Head(s) = s[k]
         /\ Ids(Tail(s)) = Ids(s) \ {Head(s).id}
         /\ Head(s).id \in Ids(s)
         /\ NoDup(Tail(s))
         /\ \A k \in DOMAIN Tail(s) : \E j \in DOMAIN s : Tail(s)[k] = s[j]
<1> DEFINE t == Tail(s)
<1>1. /\ t \in Seq(Frames) /\ Len(s) \in Nat \ {0}
      /\ DOMAIN s = 1 .. Len(s) /\ DOMAIN t = 1 .. Len(s) - 1
      /\ \A k \in DOMAIN t : t[k] = s[k + 1]
      /\ Head(s) = s[1]
  OBVIOUS
<1> HIDE DEF t
<1>2. 1 \in DOMAIN s /\ Head(s) \in Frames
  BY <1>1
<1>3. \A k \in DOMAIN t : k + 1 \in DOMAIN s /\ k + 1 # 1 /\ k \in Nat
  BY <1>1
<1>4. \A k \in DOMAIN s : k # 1 => k - 1 \in DOMAIN t /\ (k - 1) + 1 = k
  BY <1>1
<1>5. \A k \in DOMAIN s : s[k].id = Head(s).id => k = 1
  BY <1>1, <1>2 DEF NoDup
<1>6. Ids(t) = Ids(s) \ {Head(s).id}
  <2>1. ASSUME NEW i \in Ids(t) PROVE i \in Ids(s) \ {Head(s).id}
    BY <1>1, <1>3, <1>5 DEF Ids
  <2>2. ASSUME NEW i \in Ids(s), i # Head(s).id PROVE i \in Ids(t)
    <3>1. PICK k \in DOMAIN s : i = s[k].id
      BY DEF Ids
    <3>2. k # 1
      BY <1>1, <2>2, <3>1
    <3>3. k - 1 \in DOMAIN t /\ t[k - 1] = s[k]
      BY <1>1, <1>4, <3>2
    <3> QED
      BY <3>1, <3>3 DEF Ids
  <2> QED
    BY <2>1, <2>2
<1>7. NoDup(t)
  <2> SUFFICES ASSUME NEW j \in DOMAIN t, NEW k \in DOMAIN t, t[j].id = t[k].id
               PROVE  j = k
    BY DEF NoDup
  <2>1. j + 1 = k + 1
    BY <1>1, <1>3 DEF NoDup
  <2> QED
    BY <1>3, <2>1
<1>8. Head(s).id \in Ids(s)
  BY <1>1, <1>2 DEF Ids
<1> QED
  BY <1>1, <1>2, <1>3, <1>6, <1>7, <1>8 DEF t

\* An empty queue.
LEMMA NoFrames == <<>> \in Seq(Frames) /\ DOMAIN <<>> = {} /\ Ids(<<>>) = {} /\ NoDup(<<>>)
<1>1. <<>> \in Seq(Frames) /\ DOMAIN <<>> = {}
  OBVIOUS
<1> QED
  BY <1>1, Zenon DEF Ids, NoDup

\* The other end of a connection is one of its ends, and n is the other of that.
LEMMA TwoEnds ==
  ASSUME NEW c \in Conns, NEW n \in Ends[c]
  PROVE  /\ n \in Nodes /\ Other(c, n) \in Nodes /\ Other(c, n) \in Ends[c]
         /\ Other(c, n) # n /\ Other(c, Other(c, n)) = n
<1>1. PICK x, y \in Nodes : x # y /\ Ends[c] = {x, y}
  BY NodeSyncConstants
<1>2. \E m \in Ends[c] : m # n
  BY <1>1
<1>3. Other(c, n) \in Ends[c] /\ Other(c, n) # n
  BY <1>2 DEF Other
<1>4. \E m \in Ends[c] : m # Other(c, n)
  BY <1>3
<1>5. Other(c, Other(c, n)) \in Ends[c] /\ Other(c, Other(c, n)) # Other(c, n)
  BY <1>4 DEF Other
<1> QED
  BY <1>1, <1>3, <1>5

Wires == [Conns -> [Nodes -> Seq(Frames)]]
Push(w, c, n, f) == [w EXCEPT ![c][n] = Append(@, f)]
Pop(w, c, n) == [w EXCEPT ![c][n] = Tail(@)]

\* The queues v are the queues w, but that of n on c has got the frame f.
Pushed(v, w, c, n, f) ==
  /\ v \in Wires
  /\ \A d \in Conns, m \in Nodes :
       /\ NoDup(v[d][m])
       /\ Ids(v[d][m]) = IF d = c /\ m = n THEN Ids(w[d][m]) \cup {f.id} ELSE Ids(w[d][m])
       /\ \A k \in DOMAIN v[d][m] : \/ d = c /\ m = n /\ v[d][m][k] = f
                                    \/ \E j \in DOMAIN w[d][m] : v[d][m][k] = w[d][m][j]
LEMMA PushEffect ==
  ASSUME NEW w \in Wires, NEW c \in Conns, NEW n \in Nodes, NEW f \in Frames,
         \A d \in Conns, m \in Nodes : NoDup(w[d][m]),
         f.id \notin Ids(w[c][n])
  PROVE  Pushed(Push(w, c, n, f), w, c, n, f)
<1> DEFINE v == Push(w, c, n, f)
<1>1. w[c][n] \in Seq(Frames) /\ NoDup(w[c][n])
  BY DEF Wires
<1>2. /\ v \in Wires /\ v[c][n] = Append(w[c][n], f)
      /\ \A d \in Conns, m \in Nodes : ~ (d = c /\ m = n) => v[d][m] = w[d][m]
  BY <1>1, Appended DEF Wires, Push
<1> HIDE DEF v
<1>3. /\ Ids(v[c][n]) = Ids(w[c][n]) \cup {f.id} /\ NoDup(v[c][n])
      /\ \A k \in DOMAIN v[c][n] : v[c][n][k] = f \/ \E j \in DOMAIN w[c][n] : v[c][n][k] = w[c][n][j]
  BY <1>1, <1>2, Appended
<1>4. Pushed(v, w, c, n, f)
  BY <1>2, <1>3 DEF Pushed
<1> QED
  BY <1>4 DEF v

\* The queues v are the queues w, but that of n on c has lost its first frame.
Popped(v, w, c, n) ==
  /\ v \in Wires
  /\ \A d \in Conns, m \in Nodes :
       /\ NoDup(v[d][m])
       /\ Ids(v[d][m]) = IF d = c /\ m = n THEN Ids(w[d][m]) \ {Head(w[c][n]).id} ELSE Ids(w[d][m])
       /\ \A k \in DOMAIN v[d][m] : \E j \in DOMAIN w[d][m] : v[d][m][k] = w[d][m][j]
LEMMA PopEffect ==
  ASSUME NEW w \in Wires, NEW c \in Conns, NEW n \in Nodes, w[c][n] # <<>>,
         \A d \in Conns, m \in Nodes : NoDup(w[d][m])
  PROVE  Popped(Pop(w, c, n), w, c, n)
<1> DEFINE v == Pop(w, c, n)
<1>1. w[c][n] \in Seq(Frames) /\ NoDup(w[c][n])
  BY DEF Wires
<1>2. /\ v \in Wires /\ v[c][n] = Tail(w[c][n])
      /\ \A d \in Conns, m \in Nodes : ~ (d = c /\ m = n) => v[d][m] = w[d][m]
  BY <1>1, Taken DEF Wires, Pop
<1> HIDE DEF v
<1>3. /\ Ids(v[c][n]) = Ids(w[c][n]) \ {Head(w[c][n]).id} /\ NoDup(v[c][n])
      /\ \A k \in DOMAIN v[c][n] : \E j \in DOMAIN w[c][n] : v[c][n][k] = w[c][n][j]
  BY <1>1, <1>2, Taken
<1>4. Popped(v, w, c, n)
  BY <1>2, <1>3 DEF Popped
<1> QED
  BY <1>4 DEF v

-----------------------------------------------------------------------------
(* Steps that leave SyncRequests and their answers alone.                  *)

\* What such a step has to show.
LEMMA QuietStep ==
  ASSUME IInv, UNCHANGED <<by, oneshot, request, held, made>>,
         TypeOK', OnePlace',
         \A c \in Conns, n \in Nodes : \A k \in DOMAIN wire'[c][n] : FrameOK(c, n, wire'[c][n][k]),
         \A c \in Conns, n \in Nodes :
           (loop'[c][n] = loop[c][n] /\ cur'[c][n] = cur[c][n]) \/ StageOK(c, n)',
         \A n \in Nodes : \A i \in Known(n)' : Answered(n, i),
         \A i \in failed' : by[i] # {},
         UNCHANGED <<got, replies, events>> \/ ChannelsOK'
  PROVE  IInv'
<1>1. /\ \A i : Unseen(i)' <=> Unseen(i)
      /\ \A n, i : Answered(n, i)' <=> Answered(n, i)
      /\ SeenOK' <=> SeenOK
  BY DEF Unseen, Answered, SeenOK
<1>3. WireOK'
  <2> SUFFICES ASSUME NEW c \in Conns, NEW n \in Nodes, NEW k \in DOMAIN wire'[c][n]
               PROVE  FrameOK(c, n, wire[c][n][k])'
    BY DEF WireOK
  <2>1. FrameOK(c, n, wire'[c][n][k])
    OBVIOUS
  <2> QED
    BY <1>1, <2>1 DEF FrameOK
<1>4. LoopOK'
  <2> SUFFICES ASSUME NEW c \in Conns, NEW n \in Nodes, loop'[c][n] = loop[c][n], cur'[c][n] = cur[c][n]
               PROVE  StageOK(c, n)'
    BY DEF LoopOK
  <2>1. StageOK(c, n)
    BY DEF IInv, LoopOK
  <2> QED
    BY <1>1, <2>1 DEF StageOK
<1>5. MadeOK'
  BY <1>1 DEF IInv, MadeOK
<1>6. KnownOK'
  BY <1>1 DEF KnownOK
<1>7. ChannelsOK'
  BY DEF IInv, ChannelsOK
<1> QED
  BY <1>1, <1>3, <1>4, <1>5, <1>6, <1>7 DEF IInv

\* What every step may use of the invariant.
LEMMA Parts ==
  ASSUME IInv
  PROVE  /\ wire \in Wires /\ \A c \in Conns, n \in Nodes : NoDup(wire[c][n])
         /\ \A c \in Conns, n \in Nodes : Wired(c, n) \subseteq Reqs
         /\ \A c \in Conns, n \in Nodes : \A k \in DOMAIN wire[c][n] : FrameOK(c, n, wire[c][n][k])
         /\ \A c \in Conns, n \in Nodes : StageOK(c, n)
         /\ \A c \in Conns, n \in Nodes : cur[c][n] \in 0 .. MaxRequests
         /\ \A n \in Nodes : \A i \in Known(n) : Answered(n, i)
         /\ \A i \in failed : by[i] # {}
         /\ MaxRequests \in Nat /\ MaxFaults \in Nat /\ 0 \notin Reqs
<1>1. wire \in Wires
  BY DEF IInv, TypeOK, Wires
<1>2. \A c \in Conns, n \in Nodes : Wired(c, n) \subseteq Reqs
  <2> SUFFICES ASSUME NEW c \in Conns, NEW n \in Nodes, NEW k \in DOMAIN wire[c][n]
               PROVE  wire[c][n][k].id \in Reqs
    BY DEF Wired, Ids
  <2>1. wire[c][n] \in Seq(Frames)
    BY <1>1 DEF Wires
  <2>2. wire[c][n][k] \in Frames
    BY <2>1
  <2> QED
    BY <2>2 DEF Frames
<1>3. MaxRequests \in Nat /\ MaxFaults \in Nat /\ 0 \notin Reqs
  BY NodeSyncConstants DEF Reqs
<1>4. \A c \in Conns, n \in Nodes : cur[c][n] \in 0 .. MaxRequests
  BY DEF IInv, TypeOK
<1> QED
  BY <1>1, <1>2, <1>3, <1>4 DEF IInv, OnePlace, WireOK, LoopOK, KnownOK, MadeOK

\* The router loop of n has read its next frame.
LEMMA FrameRead ==
  ASSUME IInv, NEW c \in Conns, NEW n \in Nodes, loop[c][n] = "read", wire[c][n] # <<>>
  PROVE  LET f == Head(wire[c][n])
         IN /\ f \in Frames /\ FrameOK(c, n, f) /\ f.id \in Wired(c, n) /\ f.id \in Reqs
            /\ by[f.id] # {} /\ f.id # 0
            /\ cur[c][n] = 0
            /\ \A d \in Conns, m \in Nodes :
                 f.id \in Wired(d, m) => d = c /\ m = n
            /\ \A d \in Conns, m \in Nodes : f.id \notin Busy(d, m)
            /\ \A m \in Nodes : f.id \notin Known(m)
            /\ f.id \notin failed
<1> DEFINE f == Head(wire[c][n])
<1>1. f \in Frames /\ f.id \in Wired(c, n) /\ \E k \in DOMAIN wire[c][n] : f = wire[c][n][k]
  BY Parts, Taken DEF Wired, Wires
<1>2. FrameOK(c, n, f)
  BY <1>1, Parts
<1>3. f.id \in Reqs /\ f.id # 0
  BY <1>1, Parts
<1>4. by[f.id] # {}
  BY <1>1, <1>2 DEF FrameOK, Frames
<1>5. cur[c][n] = 0
  BY Parts DEF StageOK
<1> HIDE DEF f
<1>6. /\ \A d \in Conns, m \in Nodes : f.id \in Wired(d, m) => d = c /\ m = n
      /\ \A d \in Conns, m \in Nodes : f.id \notin Busy(d, m)
      /\ \A m \in Nodes : f.id \notin Known(m)
      /\ f.id \notin failed
  BY <1>1 DEF IInv, OnePlace
<1> QED
  BY <1>1, <1>2, <1>3, <1>4, <1>5, <1>6 DEF f

\* A loop that reads a sync frame, whichever way it goes on.
LEMMA HandleSyncKeeps ==
  ASSUME IInv, NEW c \in Conns, NEW n \in Nodes, HandleSync(c, n)
  PROVE  IInv'
<1>1. loop[c][n] = "read" /\ wire[c][n] # <<>> /\ Head(wire[c][n]).type = "sync"
  BY DEF HandleSync, Reads
<1>0. PICK f : f = Head(wire[c][n])
  OBVIOUS
<1> DEFINE i == f.id
<1>2. /\ wire' = [wire EXCEPT ![c][n] = Tail(@)]
      /\ UNCHANGED <<open, appVars, by, got, failed, made, faults>>
      /\ cur' = [cur EXCEPT ![c][n] = i]
      /\ \E s \in {"offer", "refuse"} : loop' = [loop EXCEPT ![c][n] = s]
  BY <1>0 DEF HandleSync, Goto
<1>3. /\ FrameOK(c, n, f) /\ i \in Wired(c, n) /\ i \in Reqs /\ i # 0 /\ cur[c][n] = 0
      /\ \A d \in Conns, m \in Nodes : i \in Wired(d, m) => d = c /\ m = n
      /\ \A d \in Conns, m \in Nodes : i \notin Busy(d, m)
      /\ \A m \in Nodes : i \notin Known(m)
      /\ i \notin failed
  BY <1>0, <1>1, FrameRead
<1>4. /\ wire' \in Wires
      /\ \A d \in Conns, m \in Nodes :
           /\ NoDup(wire'[d][m])
           /\ Wired(d, m)' = IF d = c /\ m = n THEN Wired(d, m) \ {i} ELSE Wired(d, m)
           /\ \A k \in DOMAIN wire'[d][m] : \E j \in DOMAIN wire[d][m] : wire'[d][m][k] = wire[d][m][j]
  <2>1. Popped(wire', wire, c, n)
    BY <1>1, <1>2, Parts, PopEffect DEF Pop
  <2> QED
    BY <1>0, <2>1 DEF Popped, Wired
<1>5. cur \in [Conns -> [Nodes -> 0 .. MaxRequests]] /\ i \in 0 .. MaxRequests
  BY <1>3 DEF IInv, TypeOK, Reqs
<1> HIDE DEF i
<1>6. TypeOK'
  BY <1>2, <1>4, <1>5 DEF IInv, TypeOK, appVars, Wires
<1>7. \A d \in Conns, m \in Nodes : Busy(d, m)' = IF d = c /\ m = n THEN {i} ELSE Busy(d, m)
  BY <1>2, <1>3, <1>5 DEF Busy
<1>8. (\A m \in Nodes : Known(m)' = Known(m)) /\ failed' = failed
  BY <1>2 DEF Known, appVars
<1>9. OnePlace'
  <2>1. /\ \A d, e \in Conns, l, m \in Nodes : Wired(d, l)' \cap Wired(e, m)' # {} => d = e /\ l = m
        /\ \A d, e \in Conns, l, m \in Nodes : Wired(d, l)' \cap Busy(e, m)' = {}
    BY <1>3, <1>4, <1>7 DEF IInv, OnePlace
  <2>2. \A d, e \in Conns, l, m \in Nodes : Busy(d, l)' \cap Busy(e, m)' # {} => d = e /\ l = m
    BY <1>3, <1>7 DEF IInv, OnePlace
  <2>3. \A d \in Conns, l, m \in Nodes : (Wired(d, l)' \cup Busy(d, l)') \cap (Known(m)' \cup failed') = {}
    BY <1>3, <1>4, <1>7, <1>8 DEF IInv, OnePlace
  <2>4. \A m \in Nodes : Known(m)' \cap failed' = {}
    BY <1>8 DEF IInv, OnePlace
  <2> QED
    BY <1>4, <2>1, <2>2, <2>3, <2>4 DEF OnePlace
<1>10. \A d \in Conns, m \in Nodes : \A k \in DOMAIN wire'[d][m] : FrameOK(d, m, wire'[d][m][k])
  BY <1>4, Parts
<1>11. ASSUME NEW d \in Conns, NEW m \in Nodes
       PROVE  (loop'[d][m] = loop[d][m] /\ cur'[d][m] = cur[d][m]) \/ StageOK(d, m)'
  <2>1. CASE d = c /\ m = n
    <3>1. cur'[c][n] = i /\ loop'[c][n] \in {"offer", "refuse"}
      BY <1>2, <1>5 DEF IInv, TypeOK
    <3>2. n \in Ends[c] /\ by'[i] = {<<Other(c, n), "sync">>} /\ Unseen(i)'
      BY <1>0, <1>1, <1>2, <1>3 DEF FrameOK, Unseen, appVars, i
    <3> QED
      BY <1>3, <2>1, <3>1, <3>2 DEF StageOK
  <2>2. CASE ~ (d = c /\ m = n)
    BY <1>2, <1>5, <2>2 DEF IInv, TypeOK
  <2> QED
    BY <2>1, <2>2
<1> QED
  BY <1>2, <1>6, <1>8, <1>9, <1>10, <1>11, Parts, QuietStep DEF appVars

\* A response: data goes on to the channel, a failure ends the request.
LEMMA HandleDataKeeps ==
  ASSUME IInv, NEW c \in Conns, NEW n \in Nodes, HandleData(c, n)
  PROVE  IInv'
<1>1. loop[c][n] = "read" /\ wire[c][n] # <<>> /\ Head(wire[c][n]).type \in {"data", "failed"}
  BY DEF HandleData, Reads
<1>0. PICK f : f = Head(wire[c][n])
  OBVIOUS
<1> DEFINE i == f.id
<1>2. /\ wire' = [wire EXCEPT ![c][n] = Tail(@)]
      /\ UNCHANGED <<open, appVars, by, got, made, faults>>
      /\ \/ /\ f.type = "data"
            /\ cur' = [cur EXCEPT ![c][n] = i] /\ loop' = [loop EXCEPT ![c][n] = "forward"]
            /\ failed' = failed
         \/ failed' = failed \cup {i} /\ UNCHANGED <<loop, cur>>
  BY <1>0 DEF HandleData, Goto
<1>3. /\ FrameOK(c, n, f) /\ i \in Wired(c, n) /\ i \in Reqs /\ i # 0 /\ cur[c][n] = 0 /\ by[i] # {}
      /\ \A d \in Conns, m \in Nodes : i \in Wired(d, m) => d = c /\ m = n
      /\ \A d \in Conns, m \in Nodes : i \notin Busy(d, m)
      /\ \A m \in Nodes : i \notin Known(m)
      /\ i \notin failed
  BY <1>0, <1>1, FrameRead
<1>4. /\ wire' \in Wires
      /\ \A d \in Conns, m \in Nodes :
           /\ NoDup(wire'[d][m])
           /\ Wired(d, m)' = IF d = c /\ m = n THEN Wired(d, m) \ {i} ELSE Wired(d, m)
           /\ \A k \in DOMAIN wire'[d][m] : \E j \in DOMAIN wire[d][m] : wire'[d][m][k] = wire[d][m][j]
  <2>1. Popped(wire', wire, c, n)
    BY <1>1, <1>2, Parts, PopEffect DEF Pop
  <2> QED
    BY <1>0, <2>1 DEF Popped, Wired
<1>5. cur \in [Conns -> [Nodes -> 0 .. MaxRequests]] /\ i \in 0 .. MaxRequests
  BY <1>3 DEF IInv, TypeOK, Reqs
<1> HIDE DEF i
<1>6. TypeOK'
  <2>1. loop' \in [Conns -> [Nodes -> {"read", "offer", "await", "refuse", "forward"}]]
    <3>1. loop' = [loop EXCEPT ![c][n] = "forward"] \/ loop' = loop
      BY <1>2
    <3>2. loop \in [Conns -> [Nodes -> {"read", "offer", "await", "refuse", "forward"}]]
      BY DEF IInv, TypeOK
    <3> QED
      BY <3>1, <3>2
  <2>2. cur' \in [Conns -> [Nodes -> 0 .. MaxRequests]] /\ failed' \subseteq Reqs
    <3>1. cur' = [cur EXCEPT ![c][n] = i] \/ cur' = cur
      BY <1>2
    <3>2. failed' = failed \/ failed' = failed \cup {i}
      BY <1>2
    <3>3. failed \subseteq Reqs
      BY DEF IInv, TypeOK
    <3>4. cur' \in [Conns -> [Nodes -> 0 .. MaxRequests]]
      BY <1>5, <3>1
    <3> QED
      BY <1>3, <3>2, <3>3, <3>4, Zenon
  <2> QED
    BY <1>2, <1>4, <2>1, <2>2 DEF IInv, TypeOK, appVars, Wires
<1>8. \A m \in Nodes : Known(m)' = Known(m)
  BY <1>2 DEF Known, appVars
<1>9. OnePlace'
  <2>0. \/ /\ failed' = failed
           /\ \A d \in Conns, m \in Nodes : Busy(d, m)' = IF d = c /\ m = n THEN {i} ELSE Busy(d, m)
        \/ /\ failed' = failed \cup {i}
           /\ \A d \in Conns, m \in Nodes : Busy(d, m)' = Busy(d, m)
    BY <1>2, <1>3, <1>5 DEF Busy
  <2>1. /\ \A d, e \in Conns, l, m \in Nodes : Wired(d, l)' \cap Wired(e, m)' # {} => d = e /\ l = m
        /\ \A d, e \in Conns, l, m \in Nodes : Wired(d, l)' \cap Busy(e, m)' = {}
    BY <1>3, <1>4, <2>0 DEF IInv, OnePlace
  <2>2. \A d, e \in Conns, l, m \in Nodes : Busy(d, l)' \cap Busy(e, m)' # {} => d = e /\ l = m
    BY <1>3, <2>0 DEF IInv, OnePlace
  <2>3. \A d \in Conns, l, m \in Nodes : (Wired(d, l)' \cup Busy(d, l)') \cap (Known(m)' \cup failed') = {}
    BY <1>3, <1>4, <1>8, <2>0 DEF IInv, OnePlace
  <2>4. \A m \in Nodes : Known(m)' \cap failed' = {}
    BY <1>3, <1>8, <2>0 DEF IInv, OnePlace
  <2> QED
    BY <1>4, <2>1, <2>2, <2>3, <2>4 DEF OnePlace
<1>10. \A d \in Conns, m \in Nodes : \A k \in DOMAIN wire'[d][m] : FrameOK(d, m, wire'[d][m][k])
  BY <1>4, Parts
<1>11. ASSUME NEW d \in Conns, NEW m \in Nodes
       PROVE  (loop'[d][m] = loop[d][m] /\ cur'[d][m] = cur[d][m]) \/ StageOK(d, m)'
  <2>1. CASE d = c /\ m = n /\ failed' = failed
    <3>1. cur'[c][n] = i /\ loop'[c][n] = "forward" /\ f.type = "data"
      BY <1>2, <1>3, <1>5, <2>1 DEF IInv, TypeOK
    <3>2. n \in Ends[c] /\ by'[i] = {<<n, "sync">>} /\ oneshot'[i] = "data"
      BY <1>2, <1>3, <3>1 DEF FrameOK, appVars, i
    <3> QED
      BY <1>3, <2>1, <3>1, <3>2 DEF StageOK
  <2>2. CASE ~ (d = c /\ m = n) \/ failed' # failed
    BY <1>2, <1>5, <2>2 DEF IInv, TypeOK
  <2> QED
    BY <2>1, <2>2
<1>12. \A j \in failed' : by[j] # {}
  BY <1>2, <1>3, Parts
<1> QED
  BY <1>2, <1>6, <1>8, <1>9, <1>10, <1>11, <1>12, Parts, QuietStep DEF appVars

\* The queues after a validation is answered on the connection it came from.
LEMMA ValidateWires ==
  ASSUME IInv, NEW c \in Conns, NEW n \in Nodes, HandleValidate(c, n)
  PROVE  LET i == Head(wire[c][n]).id
             o == Other(c, n)
             g == Frame("validated", i)
         IN /\ wire' \in Wires
            /\ \A d \in Conns, m \in Nodes :
                 /\ NoDup(wire'[d][m])
                 /\ Wired(d, m)' = IF d = c /\ m = n THEN Wired(d, m) \ {i} ELSE
                                   IF d = c /\ m = o THEN Wired(d, m) \cup {i} ELSE Wired(d, m)
                 /\ \A k \in DOMAIN wire'[d][m] :
                      \/ d = c /\ m = o /\ wire'[d][m][k] = g
                      \/ \E j \in DOMAIN wire[d][m] : wire'[d][m][k] = wire[d][m][j]
<1>1. loop[c][n] = "read" /\ wire[c][n] # <<>> /\ Head(wire[c][n]).type = "validate"
  BY DEF HandleValidate, Reads
<1>0. PICK f : f = Head(wire[c][n])
  OBVIOUS
<1> DEFINE i == f.id
           o == Other(c, n)
           g == Frame("validated", i)
<1>2. /\ wire' = [wire EXCEPT ![c][n] = Tail(@), ![c][o] = Append(@, g)]
      /\ UNCHANGED <<open, loop, cur, appVars, by, got, failed, made, faults>>
  BY <1>0 DEF HandleValidate
<1>3. /\ FrameOK(c, n, f) /\ i \in Wired(c, n) /\ i \in Reqs /\ i # 0
      /\ \A d \in Conns, m \in Nodes : i \in Wired(d, m) => d = c /\ m = n
      /\ \A d \in Conns, m \in Nodes : i \notin Busy(d, m)
      /\ \A m \in Nodes : i \notin Known(m)
      /\ i \notin failed
  BY <1>0, <1>1, FrameRead
<1>4. n \in Ends[c] /\ o \in Nodes /\ o # n /\ o \in Ends[c] /\ Other(c, o) = n
  BY <1>3, TwoEnds DEF FrameOK
<1>5. g \in Frames /\ g.id = i /\ FrameOK(c, o, g)
  BY <1>0, <1>1, <1>3, <1>4 DEF Frame, Frames, FrameOK
<1> HIDE DEF i, o, g
<1>6. /\ wire' \in Wires
      /\ \A d \in Conns, m \in Nodes :
           /\ NoDup(wire'[d][m])
           /\ Wired(d, m)' = IF d = c /\ m = n THEN Wired(d, m) \ {i} ELSE
                             IF d = c /\ m = o THEN Wired(d, m) \cup {i} ELSE Wired(d, m)
           /\ \A k \in DOMAIN wire'[d][m] :
                \/ d = c /\ m = o /\ wire'[d][m][k] = g
                \/ \E j \in DOMAIN wire[d][m] : wire'[d][m][k] = wire[d][m][j]
  <2>0. PICK w : w = Pop(wire, c, n)
    OBVIOUS
  <2>1. Popped(w, wire, c, n)
    BY <1>1, <2>0, Parts, PopEffect
  <2>2. wire' = Push(w, c, o, g)
    <3>1. wire \in Wires
      BY Parts
    <3>2. \A d \in Conns : wire[d] \in [Nodes -> Seq(Frames)]
      BY <3>1 DEF Wires
    <3>3. wire'[c] = [wire[c] EXCEPT ![n] = Tail(@), ![o] = Append(@, g)]
      BY <1>2, <3>1 DEF Wires
    <3>4. w = [wire EXCEPT ![c] = [wire[c] EXCEPT ![n] = Tail(@)]]
      BY <2>0 DEF Pop
    <3>5. Push(w, c, o, g) = [wire EXCEPT ![c] = [wire[c] EXCEPT ![n] = Tail(@), ![o] = Append(@, g)]]
      BY <1>4, <3>1, <3>2, <3>4 DEF Push, Wires
    <3> QED
      BY <1>2, <3>1, <3>3, <3>5 DEF Wires
  <2>3. w \in Wires /\ \A d \in Conns, m \in Nodes : NoDup(w[d][m])
    BY <2>1 DEF Popped
  <2>4. g.id \notin Ids(w[c][o])
    BY <1>3, <1>4, <1>5, <2>1 DEF Popped, Wired
  <2>5. Pushed(wire', w, c, o, g)
    BY <1>4, <1>5, <2>2, <2>3, <2>4, PushEffect
  <2>6. Head(wire[c][n]).id = i
    BY <1>0 DEF i
  <2>7. ASSUME NEW d \in Conns, NEW m \in Nodes
        PROVE  /\ NoDup(wire'[d][m])
               /\ Ids(wire'[d][m]) = IF d = c /\ m = n THEN Ids(wire[d][m]) \ {i} ELSE
                                     IF d = c /\ m = o THEN Ids(wire[d][m]) \cup {i} ELSE Ids(wire[d][m])
    <3>1. Ids(w[d][m]) = IF d = c /\ m = n THEN Ids(wire[d][m]) \ {i} ELSE Ids(wire[d][m])
      BY <2>1, <2>6 DEF Popped
    <3>2. /\ NoDup(wire'[d][m])
          /\ Ids(wire'[d][m]) = IF d = c /\ m = o THEN Ids(w[d][m]) \cup {i} ELSE Ids(w[d][m])
      BY <1>5, <2>5 DEF Pushed
    <3> QED
      BY <1>4, <3>1, <3>2
  <2>8. ASSUME NEW d \in Conns, NEW m \in Nodes, NEW k \in DOMAIN wire'[d][m]
        PROVE  \/ d = c /\ m = o /\ wire'[d][m][k] = g
               \/ \E j \in DOMAIN wire[d][m] : wire'[d][m][k] = wire[d][m][j]
    <3>1. \/ d = c /\ m = o /\ wire'[d][m][k] = g
          \/ \E j \in DOMAIN w[d][m] : wire'[d][m][k] = w[d][m][j]
      BY <2>5 DEF Pushed
    <3>2. \A j \in DOMAIN w[d][m] : \E l \in DOMAIN wire[d][m] : w[d][m][j] = wire[d][m][l]
      BY <2>1 DEF Popped
    <3> QED
      BY <3>1, <3>2
  <2> QED
    BY <2>5, <2>7, <2>8 DEF Pushed, Wired
<1> QED
  BY <1>0, <1>6 DEF i, o, g

\* A validation is answered on the same connection.
LEMMA HandleValidateKeeps ==
  ASSUME IInv, NEW c \in Conns, NEW n \in Nodes, HandleValidate(c, n)
  PROVE  IInv'
<1>1. loop[c][n] = "read" /\ wire[c][n] # <<>> /\ Head(wire[c][n]).type = "validate"
  BY DEF HandleValidate, Reads
<1>0. PICK f : f = Head(wire[c][n])
  OBVIOUS
<1> DEFINE i == f.id
           o == Other(c, n)
           g == Frame("validated", i)
<1>2. /\ wire' = [wire EXCEPT ![c][n] = Tail(@), ![c][o] = Append(@, g)]
      /\ UNCHANGED <<open, loop, cur, appVars, by, got, failed, made, faults>>
  BY <1>0 DEF HandleValidate
<1>3. /\ FrameOK(c, n, f) /\ i \in Wired(c, n) /\ i \in Reqs /\ i # 0
      /\ \A d \in Conns, m \in Nodes : i \in Wired(d, m) => d = c /\ m = n
      /\ \A d \in Conns, m \in Nodes : i \notin Busy(d, m)
      /\ \A m \in Nodes : i \notin Known(m)
      /\ i \notin failed
  BY <1>0, <1>1, FrameRead
<1>4. n \in Ends[c] /\ o \in Nodes /\ o # n /\ o \in Ends[c] /\ Other(c, o) = n
  BY <1>3, TwoEnds DEF FrameOK
<1>5. g \in Frames /\ g.id = i /\ FrameOK(c, o, g)
  BY <1>0, <1>1, <1>3, <1>4 DEF Frame, Frames, FrameOK
<1> HIDE DEF i, o, g
<1>6. /\ wire' \in Wires
      /\ \A d \in Conns, m \in Nodes :
           /\ NoDup(wire'[d][m])
           /\ Wired(d, m)' = IF d = c /\ m = n THEN Wired(d, m) \ {i} ELSE
                             IF d = c /\ m = o THEN Wired(d, m) \cup {i} ELSE Wired(d, m)
           /\ \A k \in DOMAIN wire'[d][m] :
                \/ d = c /\ m = o /\ wire'[d][m][k] = g
                \/ \E j \in DOMAIN wire[d][m] : wire'[d][m][k] = wire[d][m][j]
  BY <1>0, ValidateWires DEF i, o, g
<1>7. TypeOK'
  BY <1>2, <1>6 DEF IInv, TypeOK, appVars, Wires
<1>8. /\ \A m \in Nodes : Known(m)' = Known(m)
      /\ \A d \in Conns, m \in Nodes : Busy(d, m)' = Busy(d, m)
      /\ failed' = failed
  BY <1>2 DEF Known, Busy, appVars
<1>9. OnePlace'
  <2>1. /\ \A d, e \in Conns, l, m \in Nodes : Wired(d, l)' \cap Wired(e, m)' # {} => d = e /\ l = m
        /\ \A d, e \in Conns, l, m \in Nodes : Wired(d, l)' \cap Busy(e, m)' = {}
    BY <1>3, <1>6, <1>8 DEF IInv, OnePlace
  <2>2. \A d, e \in Conns, l, m \in Nodes : Busy(d, l)' \cap Busy(e, m)' # {} => d = e /\ l = m
    BY <1>8 DEF IInv, OnePlace
  <2>3. \A d \in Conns, l, m \in Nodes : (Wired(d, l)' \cup Busy(d, l)') \cap (Known(m)' \cup failed') = {}
    BY <1>3, <1>6, <1>8 DEF IInv, OnePlace
  <2>4. \A m \in Nodes : Known(m)' \cap failed' = {}
    BY <1>8 DEF IInv, OnePlace
  <2> QED
    BY <1>6, <2>1, <2>2, <2>3, <2>4 DEF OnePlace
<1>10. \A d \in Conns, m \in Nodes : \A k \in DOMAIN wire'[d][m] : FrameOK(d, m, wire'[d][m][k])
  BY <1>5, <1>6, Parts
<1> QED
  BY <1>2, <1>7, <1>8, <1>9, <1>10, Parts, QuietStep DEF appVars

\* Sets of requests are finite, so that one can count what a channel holds.
LEMMA FewRequests == ASSUME NEW S \in SUBSET Reqs PROVE IsFiniteSet(S) /\ Cardinality(S) \in Nat
<1>1. IsFiniteSet(Reqs)
  BY NodeSyncConstants, FS_Interval DEF Reqs
<1>2. IsFiniteSet(S)
  BY <1>1, FS_Subset
<1> QED
  BY <1>2, FS_CardinalityType

\* A validation result becomes an event, or is lost.
LEMMA HandleValidatedKeeps ==
  ASSUME IInv, NEW c \in Conns, NEW n \in Nodes, HandleValidated(c, n)
  PROVE  IInv'
<1>1. loop[c][n] = "read" /\ wire[c][n] # <<>> /\ Head(wire[c][n]).type = "validated"
  BY DEF HandleValidated, Reads
<1>0. PICK f : f = Head(wire[c][n])
  OBVIOUS
<1> DEFINE i == f.id
<1>2. /\ wire' = [wire EXCEPT ![c][n] = Tail(@)]
      /\ UNCHANGED <<open, loop, cur, request, held, oneshot, replies, sender, by, got, made, faults>>
      /\ \/ /\ Cardinality(events[n]) < EventSlots
            /\ events' = [events EXCEPT ![n] = @ \cup {i}] /\ failed' = failed
         \/ failed' = failed \cup {i} /\ events' = [events EXCEPT ![n] = @]
  BY <1>0 DEF HandleValidated
<1>3. /\ FrameOK(c, n, f) /\ i \in Wired(c, n) /\ i \in Reqs /\ i # 0 /\ by[i] # {}
      /\ \A d \in Conns, m \in Nodes : i \in Wired(d, m) => d = c /\ m = n
      /\ \A d \in Conns, m \in Nodes : i \notin Busy(d, m)
      /\ \A m \in Nodes : i \notin Known(m)
      /\ i \notin failed
  BY <1>0, <1>1, FrameRead
<1>13. Answered(n, i)
  BY <1>0, <1>1, <1>3 DEF FrameOK, Answered
<1>4. /\ wire' \in Wires
      /\ \A d \in Conns, m \in Nodes :
           /\ NoDup(wire'[d][m])
           /\ Wired(d, m)' = IF d = c /\ m = n THEN Wired(d, m) \ {i} ELSE Wired(d, m)
           /\ \A k \in DOMAIN wire'[d][m] : \E j \in DOMAIN wire[d][m] : wire'[d][m][k] = wire[d][m][j]
  <2>1. Popped(wire', wire, c, n)
    BY <1>1, <1>2, Parts, PopEffect DEF Pop
  <2> QED
    BY <1>0, <2>1 DEF Popped, Wired
<1> HIDE DEF i
<1>5. \/ /\ failed' = failed
         /\ \A m \in Nodes : events'[m] = IF m = n THEN events[m] \cup {i} ELSE events[m]
         /\ Cardinality(events[n]) < EventSlots
      \/ /\ failed' = failed \cup {i}
         /\ \A m \in Nodes : events'[m] = events[m]
  <2>1. events \in [Nodes -> SUBSET Reqs]
    BY DEF IInv, TypeOK
  <2> QED
    BY <1>2, <2>1
<1>6. TypeOK'
  <2>0. /\ events \in [Nodes -> SUBSET Reqs] /\ failed \subseteq Reqs
        /\ EventSlots \in Nat /\ \A m \in Nodes : Cardinality(events[m]) <= EventSlots
    BY NodeSyncConstants DEF IInv, TypeOK
  <2>1. events' \in [Nodes -> SUBSET Reqs]
    <3>1. events' = [events EXCEPT ![n] = @ \cup {i}] \/ events' = [events EXCEPT ![n] = @]
      BY <1>2
    <3> QED
      BY <1>3, <2>0, <3>1
  <2>2. failed' \subseteq Reqs
    BY <1>3, <1>5, <2>0
  <2>3. ASSUME NEW m \in Nodes PROVE Cardinality(events'[m]) <= EventSlots
    <3>1. CASE events'[m] = events[m]
      BY <2>0, <3>1
    <3>2. CASE m = n /\ events'[m] = events[m] \cup {i} /\ Cardinality(events[n]) < EventSlots
      <4>1. IsFiniteSet(events[m]) /\ Cardinality(events[m]) \in Nat
        BY <2>0, FewRequests
      <4>2. Cardinality(events[m] \cup {i}) = IF i \in events[m] THEN Cardinality(events[m]) ELSE Cardinality(events[m]) + 1
        BY <4>1, FS_AddElement
      <4> QED
        BY <2>0, <3>2, <4>1, <4>2
    <3> QED
      BY <1>5, <3>1, <3>2
  <2> QED
    BY <1>2, <1>4, <2>1, <2>2, <2>3 DEF IInv, TypeOK, Wires
<1>8. /\ \A d \in Conns, m \in Nodes : Busy(d, m)' = Busy(d, m)
      /\ \/ failed' = failed /\ \A m \in Nodes : Known(m)' = IF m = n THEN Known(m) \cup {i} ELSE Known(m)
         \/ failed' = failed \cup {i} /\ \A m \in Nodes : Known(m)' = Known(m)
  BY <1>2, <1>5 DEF Known, Busy
<1>9. OnePlace'
  <2>1. /\ \A d, e \in Conns, l, m \in Nodes : Wired(d, l)' \cap Wired(e, m)' # {} => d = e /\ l = m
        /\ \A d, e \in Conns, l, m \in Nodes : Wired(d, l)' \cap Busy(e, m)' = {}
    BY <1>3, <1>4, <1>8 DEF IInv, OnePlace
  <2>2. \A d, e \in Conns, l, m \in Nodes : Busy(d, l)' \cap Busy(e, m)' # {} => d = e /\ l = m
    BY <1>8 DEF IInv, OnePlace
  <2>3. \A d \in Conns, l, m \in Nodes : (Wired(d, l)' \cup Busy(d, l)') \cap (Known(m)' \cup failed') = {}
    BY <1>3, <1>4, <1>8 DEF IInv, OnePlace
  <2>4. \A m \in Nodes : Known(m)' \cap failed' = {}
    BY <1>3, <1>8 DEF IInv, OnePlace
  <2> QED
    BY <1>4, <2>1, <2>2, <2>3, <2>4 DEF OnePlace
<1>10. \A d \in Conns, m \in Nodes : \A k \in DOMAIN wire'[d][m] : FrameOK(d, m, wire'[d][m][k])
  BY <1>4, Parts
<1>11. \A m \in Nodes : \A j \in Known(m)' : Answered(m, j)
  BY <1>8, <1>13, Parts
<1>12. \A j \in failed' : by[j] # {}
  BY <1>3, <1>8, Parts
<1>14. ChannelsOK'
  <2> SUFFICES ASSUME NEW m \in Nodes
               PROVE  /\ replies'[m] \cap got'[m] = {} /\ events'[m] \cap got'[m] = {}
                      /\ replies'[m] \cap events'[m] = {}
    BY DEF ChannelsOK
  <2>1. i \notin got[m] /\ i \notin replies[m]
    BY <1>3 DEF Known
  <2>2. events'[m] = events[m] \/ events'[m] = events[m] \cup {i}
    BY <1>5
  <2>3. /\ replies[m] \cap got[m] = {} /\ events[m] \cap got[m] = {} /\ replies[m] \cap events[m] = {}
    BY DEF IInv, ChannelsOK
  <2> QED
    BY <1>2, <2>1, <2>2, <2>3
<1> QED
  BY <1>2, <1>6, <1>9, <1>10, <1>11, <1>12, <1>14, QuietStep

\* The loop of n has dealt with its request.
LEMMA LoopDone ==
  ASSUME IInv, NEW c \in Conns, NEW n \in Nodes, loop[c][n] # "read"
  PROVE  LET i == cur[c][n]
         IN /\ i \in Reqs /\ i # 0 /\ n \in Ends[c] /\ by[i] # {} /\ StageOK(c, n)
            /\ \A d \in Conns, m \in Nodes : i \in Busy(d, m) => d = c /\ m = n
            /\ \A d \in Conns, m \in Nodes : i \notin Wired(d, m)
            /\ \A m \in Nodes : i \notin Known(m)
            /\ i \notin failed
<1> DEFINE i == cur[c][n]
<1>1. StageOK(c, n) /\ i \in 0 .. MaxRequests /\ MaxRequests \in Nat
  BY Parts
<1>2. i # 0 /\ n \in Ends[c] /\ i \in Reqs
  BY <1>1 DEF StageOK, Reqs
<1>3. by[i] # {}
  <2>1. loop[c][n] \in {"read", "offer", "await", "refuse", "forward"}
    BY DEF IInv, TypeOK
  <2> QED
    BY <1>1, <2>1 DEF StageOK
<1>4. i \in Busy(c, n)
  BY <1>2 DEF Busy
<1> HIDE DEF i
<1>5. /\ \A d \in Conns, m \in Nodes : i \in Busy(d, m) => d = c /\ m = n
      /\ \A d \in Conns, m \in Nodes : i \notin Wired(d, m)
      /\ \A m \in Nodes : i \notin Known(m)
      /\ i \notin failed
  BY <1>4 DEF IInv, OnePlace
<1> QED
  BY <1>1, <1>2, <1>3, <1>5 DEF i

\* A loop that goes back to reading.
LEMMA LoopFree ==
  ASSUME IInv, NEW c \in Conns, NEW n \in Nodes, Goto(c, n, "read", 0)
  PROVE  /\ loop' \in [Conns -> [Nodes -> {"read", "offer", "await", "refuse", "forward"}]]
         /\ cur' \in [Conns -> [Nodes -> 0 .. MaxRequests]]
         /\ \A d \in Conns, m \in Nodes : Busy(d, m)' = IF d = c /\ m = n THEN {} ELSE Busy(d, m)
         /\ \A d \in Conns, m \in Nodes :
              (loop'[d][m] = loop[d][m] /\ cur'[d][m] = cur[d][m]) \/ StageOK(d, m)'
<1>1. /\ loop \in [Conns -> [Nodes -> {"read", "offer", "await", "refuse", "forward"}]]
      /\ cur \in [Conns -> [Nodes -> 0 .. MaxRequests]]
      /\ 0 \in 0 .. MaxRequests
  BY Parts DEF IInv, TypeOK
<1>2. loop' = [loop EXCEPT ![c][n] = "read"] /\ cur' = [cur EXCEPT ![c][n] = 0]
  BY DEF Goto
<1>3. /\ loop' \in [Conns -> [Nodes -> {"read", "offer", "await", "refuse", "forward"}]]
      /\ cur' \in [Conns -> [Nodes -> 0 .. MaxRequests]]
      /\ loop'[c][n] = "read" /\ cur'[c][n] = 0
      /\ \A d \in Conns, m \in Nodes : ~ (d = c /\ m = n) =>
           loop'[d][m] = loop[d][m] /\ cur'[d][m] = cur[d][m]
  BY <1>1, <1>2
<1>4. \A d \in Conns, m \in Nodes : Busy(d, m)' = IF d = c /\ m = n THEN {} ELSE Busy(d, m)
  BY <1>3 DEF Busy
<1>5. StageOK(c, n)'
  BY <1>3 DEF StageOK
<1> QED
  BY <1>3, <1>4, <1>5

\* The answer of the application, or a failure, is written to the connection if
\* there is one.
LEMMA ReplyKeeps ==
  ASSUME IInv, NEW c \in Conns, NEW n \in Nodes, Reply(c, n)
  PROVE  IInv'
<1>0. PICK i : i = cur[c][n]
  OBVIOUS
<1>1. loop[c][n] \in {"refuse", "await"} /\ loop[c][n] # "read"
  BY DEF Reply
<1>2. /\ i \in Reqs /\ i # 0 /\ n \in Ends[c] /\ by[i] # {} /\ StageOK(c, n)
      /\ \A d \in Conns, m \in Nodes : i \in Busy(d, m) => d = c /\ m = n
      /\ \A d \in Conns, m \in Nodes : i \notin Wired(d, m)
      /\ \A m \in Nodes : i \notin Known(m)
      /\ i \notin failed
  BY <1>0, <1>1, LoopDone
<1>3. PICK g, o : g = Frame(Response(c, n), i) /\ o = Other(c, n)
  OBVIOUS
<1>4. o \in Nodes /\ o # n /\ o \in Ends[c] /\ Other(c, o) = n
  BY <1>2, <1>3, TwoEnds
<1>5. g \in Frames /\ g.id = i /\ FrameOK(c, o, g)
  BY <1>0, <1>1, <1>2, <1>3, <1>4 DEF Frame, Frames, FrameOK, Response, StageOK
<1>6. /\ Goto(c, n, "read", 0)
      /\ UNCHANGED <<open, appVars, by, got, made, faults>>
      /\ \/ wire' = Push(wire, c, o, g) /\ failed' = failed
         \/ wire' = wire /\ failed' = failed \cup {i}
  BY <1>0, <1>3 DEF Reply, Push
<1>7. \/ Pushed(wire', wire, c, o, g) /\ failed' = failed
      \/ wire' = wire /\ failed' = failed \cup {i}
  BY <1>2, <1>4, <1>5, <1>6, Parts, PushEffect DEF Wired
<1>8. /\ wire' \in Wires
      /\ \A d \in Conns, m \in Nodes :
           /\ NoDup(wire'[d][m])
           /\ \A k \in DOMAIN wire'[d][m] :
                \/ d = c /\ m = o /\ wire'[d][m][k] = g
                \/ \E j \in DOMAIN wire[d][m] : wire'[d][m][k] = wire[d][m][j]
  <2>1. CASE wire' = wire
    BY <2>1, Parts
  <2>2. CASE Pushed(wire', wire, c, o, g)
    BY <2>2 DEF Pushed
  <2> QED
    BY <1>7, <2>1, <2>2
<1>9. \/ /\ failed' = failed
         /\ \A d \in Conns, m \in Nodes : Wired(d, m)' = IF d = c /\ m = o THEN Wired(d, m) \cup {i} ELSE Wired(d, m)
      \/ /\ failed' = failed \cup {i}
         /\ \A d \in Conns, m \in Nodes : Wired(d, m)' = Wired(d, m)
  BY <1>5, <1>7 DEF Wired, Pushed
<1>10. /\ loop' \in [Conns -> [Nodes -> {"read", "offer", "await", "refuse", "forward"}]]
       /\ cur' \in [Conns -> [Nodes -> 0 .. MaxRequests]]
       /\ \A d \in Conns, m \in Nodes : Busy(d, m)' = IF d = c /\ m = n THEN {} ELSE Busy(d, m)
       /\ \A d \in Conns, m \in Nodes :
            (loop'[d][m] = loop[d][m] /\ cur'[d][m] = cur[d][m]) \/ StageOK(d, m)'
  BY <1>6, LoopFree
<1>11. TypeOK'
  <2>1. failed' \subseteq Reqs
    BY <1>2, <1>9 DEF IInv, TypeOK
  <2> QED
    BY <1>6, <1>8, <1>10, <2>1 DEF IInv, TypeOK, appVars, Wires
<1>12. \A m \in Nodes : Known(m)' = Known(m)
  BY <1>6 DEF Known, appVars
<1>13. OnePlace'
  <2>0. \A d \in Conns, m \in Nodes : i \notin Busy(d, m)' /\ Busy(d, m)' \subseteq Busy(d, m)
    BY <1>2, <1>10
  <2>5. \A d, e \in Conns, l, m \in Nodes : Wired(d, l)' \cap Wired(e, m)' # {} => d = e /\ l = m
    BY <1>2, <1>9 DEF IInv, OnePlace
  <2>6. \A d, e \in Conns, l, m \in Nodes : Wired(d, l)' \cap Busy(e, m)' = {}
    BY <1>9, <2>0 DEF IInv, OnePlace
  <2>1. /\ \A d, e \in Conns, l, m \in Nodes : Wired(d, l)' \cap Wired(e, m)' # {} => d = e /\ l = m
        /\ \A d, e \in Conns, l, m \in Nodes : Wired(d, l)' \cap Busy(e, m)' = {}
    BY <2>5, <2>6
  <2>2. \A d, e \in Conns, l, m \in Nodes : Busy(d, l)' \cap Busy(e, m)' # {} => d = e /\ l = m
    BY <1>10 DEF IInv, OnePlace
  <2>3. \A d \in Conns, l, m \in Nodes : (Wired(d, l)' \cup Busy(d, l)') \cap (Known(m)' \cup failed') = {}
    BY <1>2, <1>9, <1>10, <1>12 DEF IInv, OnePlace
  <2>4. \A m \in Nodes : Known(m)' \cap failed' = {}
    BY <1>2, <1>9, <1>12 DEF IInv, OnePlace
  <2> QED
    BY <1>8, <2>1, <2>2, <2>3, <2>4 DEF OnePlace
<1>14. \A d \in Conns, m \in Nodes : \A k \in DOMAIN wire'[d][m] : FrameOK(d, m, wire'[d][m][k])
  BY <1>5, <1>8, Parts
<1>15. \A j \in failed' : by[j] # {}
  BY <1>2, <1>9, Parts
<1> QED
  BY <1>6, <1>10, <1>11, <1>12, <1>13, <1>14, <1>15, Parts, QuietStep DEF appVars

\* The data reaches the channel of responses.
LEMMA ForwardKeeps ==
  ASSUME IInv, NEW c \in Conns, NEW n \in Nodes, Forward(c, n)
  PROVE  IInv'
<1>0. PICK i : i = cur[c][n]
  OBVIOUS
<1>1. loop[c][n] = "forward" /\ loop[c][n] # "read" /\ replies[n] = {}
  BY DEF Forward
<1>2. /\ i \in Reqs /\ StageOK(c, n)
      /\ \A d \in Conns, m \in Nodes : i \in Busy(d, m) => d = c /\ m = n
      /\ \A d \in Conns, m \in Nodes : i \notin Wired(d, m)
      /\ \A m \in Nodes : i \notin Known(m)
      /\ i \notin failed
  BY <1>0, <1>1, LoopDone
<1>3. Answered(n, i)
  BY <1>0, <1>1, <1>2 DEF StageOK, Answered
<1>4. /\ Goto(c, n, "read", 0)
      /\ replies' = [replies EXCEPT ![n] = {i}]
      /\ UNCHANGED <<wire, open, request, held, oneshot, events, sender, by, got, failed, made, faults>>
  BY <1>0 DEF Forward
<1>10. /\ loop' \in [Conns -> [Nodes -> {"read", "offer", "await", "refuse", "forward"}]]
       /\ cur' \in [Conns -> [Nodes -> 0 .. MaxRequests]]
       /\ \A d \in Conns, m \in Nodes : Busy(d, m)' = IF d = c /\ m = n THEN {} ELSE Busy(d, m)
       /\ \A d \in Conns, m \in Nodes :
            (loop'[d][m] = loop[d][m] /\ cur'[d][m] = cur[d][m]) \/ StageOK(d, m)'
  BY <1>4, LoopFree
<1>5. /\ replies' \in [Nodes -> SUBSET Reqs]
      /\ replies'[n] = {i} /\ \A m \in Nodes : m # n => replies'[m] = replies[m]
  BY <1>2, <1>4 DEF IInv, TypeOK
<1>6. TypeOK'
  <2>1. ASSUME NEW m \in Nodes PROVE Cardinality(replies'[m]) <= 1
    <3>1. Cardinality({i}) = 1
      BY FS_Singleton
    <3>2. Cardinality(replies[m]) <= 1
      BY DEF IInv, TypeOK
    <3> QED
      BY <1>5, <3>1, <3>2
  <2> QED
    BY <1>4, <1>5, <1>10, <2>1 DEF IInv, TypeOK
<1>7. \A m \in Nodes : Known(m)' = IF m = n THEN Known(m) \cup {i} ELSE Known(m)
  BY <1>1, <1>4, <1>5 DEF Known
<1>8. (\A d \in Conns, m \in Nodes : Wired(d, m)' = Wired(d, m)) /\ failed' = failed
  BY <1>4 DEF Wired
<1>9. OnePlace'
  <2>1. /\ \A d, e \in Conns, l, m \in Nodes : Wired(d, l)' \cap Wired(e, m)' # {} => d = e /\ l = m
        /\ \A d, e \in Conns, l, m \in Nodes : Wired(d, l)' \cap Busy(e, m)' = {}
    BY <1>8, <1>10 DEF IInv, OnePlace
  <2>2. \A d, e \in Conns, l, m \in Nodes : Busy(d, l)' \cap Busy(e, m)' # {} => d = e /\ l = m
    BY <1>10 DEF IInv, OnePlace
  <2>3. \A d \in Conns, l, m \in Nodes : (Wired(d, l)' \cup Busy(d, l)') \cap (Known(m)' \cup failed') = {}
    <3>1. \A d \in Conns, m \in Nodes : i \notin Busy(d, m)' /\ Busy(d, m)' \subseteq Busy(d, m)
      BY <1>2, <1>10
    <3> QED
      BY <1>2, <1>7, <1>8, <3>1 DEF IInv, OnePlace
  <2>4. \A m \in Nodes : Known(m)' \cap failed' = {}
    BY <1>2, <1>7, <1>8 DEF IInv, OnePlace
  <2> QED
    BY <1>4, <2>1, <2>2, <2>3, <2>4 DEF IInv, OnePlace
<1>11. \A m \in Nodes : \A j \in Known(m)' : Answered(m, j)
  BY <1>3, <1>7, Parts
<1>12. ChannelsOK'
  BY <1>2, <1>4, <1>5 DEF IInv, ChannelsOK, Known
<1> QED
  BY <1>4, <1>6, <1>8, <1>9, <1>10, <1>11, <1>12, Parts, QuietStep

\* Steps between a channel and its application that move no request elsewhere.
LEMMA AppSteps ==
  ASSUME IInv, NEW n \in Nodes, Register(n) \/ Receive(n) \/ ReceiveEvent(n)
  PROVE  IInv'
<1>1. UNCHANGED <<wire, open, loop, cur, request, held, oneshot, by, failed, made, faults>>
  BY DEF Register, Receive, ReceiveEvent
<1>2. /\ got \in [Nodes -> SUBSET Reqs] /\ replies \in [Nodes -> SUBSET Reqs]
      /\ events \in [Nodes -> SUBSET Reqs] /\ EventSlots \in Nat
      /\ sender \in [Nodes -> [Channels -> {"none", "set", "closed"}]]
      /\ \A m \in Nodes : Cardinality(replies[m]) <= 1 /\ Cardinality(events[m]) <= EventSlots
  BY NodeSyncConstants DEF IInv, TypeOK
<1>3. /\ got' \in [Nodes -> SUBSET Reqs] /\ replies' \in [Nodes -> SUBSET Reqs]
      /\ events' \in [Nodes -> SUBSET Reqs]
      /\ sender' \in [Nodes -> [Channels -> {"none", "set", "closed"}]]
      /\ \A m \in Nodes : Cardinality(replies'[m]) <= 1 /\ Cardinality(events'[m]) <= EventSlots
      /\ \A m \in Nodes : Known(m)' = Known(m)
      /\ ChannelsOK'
  <2>1. CASE Register(n)
    <3>1. UNCHANGED <<got, replies, events>>
      BY <2>1 DEF Register
    <3>2. sender' \in [Nodes -> [Channels -> {"none", "set", "closed"}]]
      BY <1>2, <2>1 DEF Register
    <3> QED
      BY <1>2, <3>1, <3>2 DEF Known, IInv, ChannelsOK
  <2>2. CASE Receive(n)
    <3>1. /\ got' = [got EXCEPT ![n] = @ \cup replies[n]]
          /\ replies' = [replies EXCEPT ![n] = {}]
          /\ UNCHANGED <<events, sender>>
      BY <2>2 DEF Receive
    <3>2. got' \in [Nodes -> SUBSET Reqs] /\ replies' \in [Nodes -> SUBSET Reqs]
      BY <1>2, <3>1
    <3>3. Cardinality({}) = 0
      BY FS_EmptySet
    <3>4. \A m \in Nodes : Cardinality(replies'[m]) <= 1
      BY <1>2, <3>1, <3>3
    <3>5. \A m \in Nodes : Known(m)' = Known(m)
      BY <1>2, <3>1 DEF Known
    <3>6. ChannelsOK'
      BY <1>2, <3>1 DEF IInv, ChannelsOK
    <3> QED
      BY <1>2, <3>1, <3>2, <3>4, <3>5, <3>6
  <2>3. CASE ReceiveEvent(n)
    <3>1. PICK i \in events[n] : /\ got' = [got EXCEPT ![n] = @ \cup {i}]
                                 /\ events' = [events EXCEPT ![n] = @ \ {i}]
      BY <2>3 DEF ReceiveEvent
    <3>2. UNCHANGED <<replies, sender>>
      BY <2>3 DEF ReceiveEvent
    <3>3. got' \in [Nodes -> SUBSET Reqs] /\ events' \in [Nodes -> SUBSET Reqs]
      BY <1>2, <3>1
    <3>4. ASSUME NEW m \in Nodes PROVE Cardinality(events'[m]) <= EventSlots
      <4>1. IsFiniteSet(events[m]) /\ Cardinality(events[m]) \in Nat
        BY <1>2, FewRequests
      <4>2. events'[m] = events[m] \/ events'[m] = events[m] \ {i}
        BY <1>2, <3>1
      <4>3. Cardinality(events[m] \ {i}) = IF i \in events[m] THEN Cardinality(events[m]) - 1 ELSE Cardinality(events[m])
        BY <4>1, FS_RemoveElement
      <4>4. Cardinality(events[m] \ {i}) <= Cardinality(events[m]) /\ Cardinality(events[m] \ {i}) \in Int
        BY <4>1, <4>3
      <4>5. Cardinality(events[m]) <= EventSlots /\ EventSlots \in Nat
        BY <1>2
      <4>6. CASE events'[m] = events[m]
        BY <4>5, <4>6
      <4>7. CASE events'[m] = events[m] \ {i}
        BY <4>1, <4>4, <4>5, <4>7
      <4> QED
        BY <4>2, <4>6, <4>7
    <3>5. \A m \in Nodes : Known(m)' = Known(m)
      BY <1>2, <3>1, <3>2 DEF Known
    <3>6. ChannelsOK'
      BY <1>2, <3>1, <3>2 DEF IInv, ChannelsOK
    <3> QED
      BY <1>2, <3>2, <3>3, <3>4, <3>5, <3>6
  <2> QED
    BY <2>1, <2>2, <2>3
<1>4. TypeOK'
  BY <1>1, <1>3 DEF IInv, TypeOK
<1>5. OnePlace'
  <2>1. \A c \in Conns, m \in Nodes : Wired(c, m)' = Wired(c, m) /\ Busy(c, m)' = Busy(c, m)
    BY <1>1 DEF Wired, Busy
  <2> QED
    BY <1>1, <1>3, <2>1 DEF IInv, OnePlace
<1> QED
  BY <1>1, <1>3, <1>4, <1>5, Parts, QuietStep

\* A request with a frame, a loop or an application has been made.
LEMMA Used ==
  ASSUME IInv
  PROVE  /\ \A c \in Conns, n \in Nodes :
              /\ Busy(c, n) \subseteq Reqs /\ \A i \in Busy(c, n) : by[i] # {}
              /\ Wired(c, n) \subseteq Reqs /\ \A i \in Wired(c, n) : by[i] # {}
         /\ \A n \in Nodes : Known(n) \subseteq Reqs /\ \A i \in Known(n) : by[i] # {}
<1>1. ASSUME NEW c \in Conns, NEW n \in Nodes, cur[c][n] # 0
      PROVE  cur[c][n] \in Reqs /\ by[cur[c][n]] # {}
  <2>1. loop[c][n] # "read"
    BY <1>1, Parts DEF StageOK
  <2> QED
    BY <2>1, LoopDone
<1>2. ASSUME NEW c \in Conns, NEW n \in Nodes, NEW k \in DOMAIN wire[c][n]
      PROVE  by[wire[c][n][k].id] # {}
  <2>1. wire[c][n][k] \in Frames
    <3>1. wire[c][n] \in Seq(Frames)
      BY Parts DEF Wires
    <3> QED
      BY <3>1
  <2>2. FrameOK(c, n, wire[c][n][k])
    BY Parts
  <2> QED
    BY <2>1, <2>2 DEF FrameOK, Frames
<1>3. ASSUME NEW n \in Nodes, NEW i \in Known(n)
      PROVE  i \in Reqs /\ by[i] # {}
  <2>1. Answered(n, i)
    BY Parts
  <2>2. i \in Reqs
    BY DEF IInv, TypeOK, Known
  <2> QED
    BY <2>1, <2>2 DEF Answered
<1>4. \A c \in Conns, n \in Nodes : Busy(c, n) \subseteq Reqs /\ \A i \in Busy(c, n) : by[i] # {}
  BY <1>1 DEF Busy
<1>5. \A c \in Conns, n \in Nodes : Wired(c, n) \subseteq Reqs /\ \A i \in Wired(c, n) : by[i] # {}
  BY <1>2, Parts DEF Wired, Ids
<1> QED
  BY <1>3, <1>4, <1>5

\* A connection is lost: its frames, and what its aborted handlers work on, fail.
LEMMA LoseKeeps ==
  ASSUME IInv, NEW c \in Conns, Lose(c)
  PROVE  IInv'
<1>1. PICK aborted \in SUBSET Ends[c] :
        /\ faults < MaxFaults
        /\ faults' = faults + 1
        /\ open' = open \ {c}
        /\ failed' = failed \cup (UNION {{wire[c][n][k].id : k \in DOMAIN wire[c][n]} : n \in Nodes})
                            \cup ({cur[c][n] : n \in aborted} \ {0})
        /\ wire' = [wire EXCEPT ![c] = [n \in Nodes |-> <<>>]]
        /\ loop' = [loop EXCEPT ![c] = [n \in Nodes |-> IF n \in aborted THEN "read" ELSE @[n]]]
        /\ cur' = [cur EXCEPT ![c] = [n \in Nodes |-> IF n \in aborted THEN 0 ELSE @[n]]]
        /\ UNCHANGED <<appVars, by, got, made>>
  BY DEF Lose
<1>2. /\ loop \in [Conns -> [Nodes -> {"read", "offer", "await", "refuse", "forward"}]]
      /\ cur \in [Conns -> [Nodes -> 0 .. MaxRequests]]
      /\ wire \in Wires /\ Ends[c] \subseteq Nodes
      /\ failed \subseteq Reqs /\ faults \in 0 .. MaxFaults /\ MaxFaults \in Nat /\ 0 \in 0 .. MaxRequests
  BY NodeSyncConstants DEF IInv, TypeOK, Wires
<1>3. /\ wire' \in Wires
      /\ \A d \in Conns, m \in Nodes : wire'[d][m] = IF d = c THEN <<>> ELSE wire[d][m]
  BY <1>1, <1>2, NoFrames DEF Wires
<1>4. /\ loop' \in [Conns -> [Nodes -> {"read", "offer", "await", "refuse", "forward"}]]
      /\ \A d \in Conns, m \in Nodes : loop'[d][m] = IF d = c /\ m \in aborted THEN "read" ELSE loop[d][m]
  BY <1>1, <1>2
<1>5. /\ cur' \in [Conns -> [Nodes -> 0 .. MaxRequests]]
      /\ \A d \in Conns, m \in Nodes : cur'[d][m] = IF d = c /\ m \in aborted THEN 0 ELSE cur[d][m]
  BY <1>1, <1>2
<1>6. \A d \in Conns, m \in Nodes : NoDup(wire'[d][m]) /\ Wired(d, m)' = IF d = c THEN {} ELSE Wired(d, m)
  BY <1>3, Parts, NoFrames DEF Wired
<1>7. \A d \in Conns, m \in Nodes : Busy(d, m)' = IF d = c /\ m \in aborted THEN {} ELSE Busy(d, m)
  BY <1>5 DEF Busy
<1>8. \A i : i \in failed' <=> i \in failed \/ (\E m \in Nodes : i \in Wired(c, m)) \/ (\E m \in aborted : i \in Busy(c, m))
  <2> DEFINE A == UNION {Wired(c, n) : n \in Nodes}
             B == {cur[c][n] : n \in aborted} \ {0}
  <2>1. failed' = failed \cup A \cup B
    BY <1>1 DEF Wired, Ids
  <2>2. \A i : i \in A <=> \E m \in Nodes : i \in Wired(c, m)
    OBVIOUS
  <2>3. \A i : i \in B <=> \E m \in aborted : i \in Busy(c, m)
    BY DEF Busy
  <2> HIDE DEF A, B
  <2> QED
    BY <2>1, <2>2, <2>3
<1>9. \A m \in Nodes : Known(m)' = Known(m)
  BY <1>1 DEF Known, appVars
<1>10. aborted \subseteq Nodes
  BY <1>2
<1>13. failed' \subseteq Reqs /\ \A i \in failed' : by[i] # {}
  BY <1>2, <1>8, <1>10, Used, Parts
<1>14. TypeOK'
  <2>1. faults' \in 0 .. MaxFaults /\ open' \subseteq Conns
    BY <1>1, <1>2 DEF IInv, TypeOK
  <2> QED
    BY <1>1, <1>3, <1>4, <1>5, <1>13, <2>1 DEF IInv, TypeOK, appVars, Wires
<1>15. OnePlace'
  <2>1. /\ \A d, e \in Conns, l, m \in Nodes : Wired(d, l)' \cap Wired(e, m)' # {} => d = e /\ l = m
        /\ \A d, e \in Conns, l, m \in Nodes : Busy(d, l)' \cap Busy(e, m)' # {} => d = e /\ l = m
        /\ \A d, e \in Conns, l, m \in Nodes : Wired(d, l)' \cap Busy(e, m)' = {}
    BY <1>6, <1>7 DEF IInv, OnePlace
  <2>2. ASSUME NEW d \in Conns, NEW l \in Nodes, NEW i \in Wired(d, l)' \cup Busy(d, l)'
        PROVE  i \notin failed' /\ \A m \in Nodes : i \notin Known(m)'
    <3>1. i \in Wired(d, l) \cup Busy(d, l)
      BY <1>6, <1>7
    <3>2. i \notin failed /\ \A m \in Nodes : i \notin Known(m)
      BY <3>1 DEF IInv, OnePlace
    <3>3. ASSUME NEW m \in Nodes PROVE i \notin Wired(c, m)
      BY <1>6, <1>7, <2>2 DEF IInv, OnePlace
    <3>4. ASSUME NEW m \in aborted PROVE i \notin Busy(c, m)
      BY <1>6, <1>7, <1>10, <2>2 DEF IInv, OnePlace
    <3> QED
      BY <1>8, <1>9, <3>2, <3>3, <3>4
  <2>3. ASSUME NEW m \in Nodes, NEW i \in Known(m)' PROVE i \notin failed'
    <3>1. i \in Known(m)
      BY <1>9
    <3>2. i \notin failed /\ \A l \in Nodes : i \notin Wired(c, l) /\ i \notin Busy(c, l)
      BY <3>1 DEF IInv, OnePlace
    <3> QED
      BY <1>8, <1>10, <3>2
  <2> QED
    BY <1>6, <2>1, <2>2, <2>3 DEF OnePlace
<1>16. \A d \in Conns, m \in Nodes : \A k \in DOMAIN wire'[d][m] : FrameOK(d, m, wire'[d][m][k])
  BY <1>3, Parts, NoFrames
<1>17. ASSUME NEW d \in Conns, NEW m \in Nodes
       PROVE  (loop'[d][m] = loop[d][m] /\ cur'[d][m] = cur[d][m]) \/ StageOK(d, m)'
  BY <1>4, <1>5 DEF StageOK
<1>18. UNCHANGED <<by, oneshot, request, held, made>>
  BY <1>1 DEF appVars
<1>19. \A m \in Nodes : \A i \in Known(m)' : Answered(m, i)
  BY <1>9, Parts
<1> QED
  BY <1>1, <1>13, <1>14, <1>15, <1>16, <1>17, <1>18, <1>19, QuietStep DEF appVars

-----------------------------------------------------------------------------
(* Steps that make, hand over or answer requests.                          *)

\* What such a step has to show.  Only x may become known to an application.
LEMMA LoudStep ==
  ASSUME IInv, NEW x,
         \A i \in Reqs : by[i] # {} => by'[i] = by[i],
         \A i \in Reqs : oneshot[i] = "data" => oneshot'[i] = "data",
         \A i \in Reqs : i # x /\ Unseen(i) => Unseen(i)',
         TypeOK', OnePlace', SeenOK', MadeOK', UNCHANGED <<got, replies, events>>,
         \A c \in Conns, n \in Nodes : x \notin Wired(c, n),
         \A c \in Conns, n \in Nodes : \A k \in DOMAIN wire'[c][n] :
           \/ FrameOK(c, n, wire[c][n][k])'
           \/ \E j \in DOMAIN wire[c][n] : wire'[c][n][k] = wire[c][n][j],
         \A c \in Conns, n \in Nodes :
           (loop'[c][n] = loop[c][n] /\ cur'[c][n] = cur[c][n] /\ cur[c][n] # x) \/ StageOK(c, n)'
  PROVE  IInv'
<1>1. ASSUME NEW c \in Conns, NEW n \in Nodes, NEW f \in Frames, FrameOK(c, n, f), f.id # x
      PROVE  FrameOK(c, n, f)'
  <2>1. f.id \in Reqs /\ by[f.id] # {}
    BY <1>1 DEF FrameOK, Frames
  <2>2. by'[f.id] = by[f.id] /\ (oneshot[f.id] = "data" => oneshot'[f.id] = "data")
    BY <2>1
  <2>3. Unseen(f.id) => Unseen(f.id)'
    BY <1>1, <2>1
  <2> QED
    BY <1>1, <2>2, <2>3 DEF FrameOK
<1>2. WireOK'
  <2> SUFFICES ASSUME NEW c \in Conns, NEW n \in Nodes, NEW k \in DOMAIN wire'[c][n],
                      NEW j \in DOMAIN wire[c][n], wire'[c][n][k] = wire[c][n][j]
               PROVE  FrameOK(c, n, wire[c][n][k])'
    BY DEF WireOK
  <2>1. PICK f : f = wire[c][n][j]
    OBVIOUS
  <2>2. f \in Frames
    <3>1. wire[c][n] \in Seq(Frames)
      BY Parts DEF Wires
    <3> QED
      BY <2>1, <3>1
  <2>3. f.id # x
    BY <2>1 DEF Wired, Ids
  <2>4. FrameOK(c, n, f)
    BY <2>1, Parts
  <2>5. FrameOK(c, n, f)'
    BY <1>1, <2>2, <2>3, <2>4
  <2> QED
    BY <2>1, <2>5 DEF FrameOK
<1>3. LoopOK'
  <2> SUFFICES ASSUME NEW c \in Conns, NEW n \in Nodes,
                      loop'[c][n] = loop[c][n], cur'[c][n] = cur[c][n], cur[c][n] # x
               PROVE  StageOK(c, n)'
    BY DEF LoopOK
  <2>1. StageOK(c, n)
    BY Parts
  <2>2. CASE loop[c][n] = "read"
    BY <2>1, <2>2 DEF StageOK
  <2>3. CASE loop[c][n] # "read"
    <3>0. PICK i : i = cur[c][n]
      OBVIOUS
    <3>1. i \in Reqs /\ by[i] # {}
      BY <2>3, <3>0, LoopDone
    <3>2. by'[i] = by[i] /\ (oneshot[i] = "data" => oneshot'[i] = "data") /\ (Unseen(i) => Unseen(i)')
      BY <3>0, <3>1
    <3> QED
      BY <2>1, <2>3, <3>0, <3>2 DEF StageOK, Unseen
  <2> QED
    BY <2>2, <2>3
<1>4. KnownOK'
  <2> SUFFICES ASSUME NEW n \in Nodes, NEW i \in Known(n)
               PROVE  Answered(n, i)'
    BY DEF KnownOK, Known
  <2>1. i \in Reqs /\ by[i] # {} /\ Answered(n, i)
    BY Used, Parts
  <2> QED
    BY <2>1 DEF Answered
<1>5. ChannelsOK'
  BY DEF IInv, ChannelsOK
<1> QED
  BY <1>2, <1>3, <1>4, <1>5 DEF IInv

\* A request is made, under a number nobody has used.
LEMMA AskKeeps ==
  ASSUME IInv, NEW c \in Conns, NEW n \in Nodes, NEW t \in {"sync", "validate"}, Ask(c, n, t)
  PROVE  IInv'
<1>0. PICK i, o, g : i = made + 1 /\ o = Other(c, n) /\ g = Frame(t, i)
  OBVIOUS
<1>1. /\ n \in Ends[c] /\ made < MaxRequests /\ made' = i
      /\ by' = [by EXCEPT ![i] = {<<n, t>>}]
      /\ wire' = Push(wire, c, o, g)
      /\ UNCHANGED <<open, loop, cur, appVars, got, failed, faults>>
  BY <1>0 DEF Ask, Push
<1>2. /\ made \in 0 .. MaxRequests /\ MaxRequests \in Nat /\ i \in Reqs /\ i > made /\ i \in 0 .. MaxRequests
      /\ by \in [Reqs -> SUBSET (Nodes \X {"sync", "validate"})]
  BY <1>0, <1>1, NodeSyncConstants DEF IInv, TypeOK, Reqs
<1>3. by[i] = {} /\ Unseen(i)
  BY <1>2 DEF IInv, MadeOK
<1>4. /\ \A d \in Conns, m \in Nodes : i \notin Busy(d, m) /\ i \notin Wired(d, m)
      /\ i \notin failed /\ \A m \in Nodes : i \notin Known(m)
  BY <1>3, Used, Parts
<1>5. o \in Nodes /\ o \in Ends[c] /\ Other(c, o) = n
  BY <1>0, <1>1, TwoEnds
<1>6. g \in Frames /\ g.id = i /\ g.type = t
  BY <1>0, <1>2 DEF Frame, Frames
<1>7. Pushed(wire', wire, c, o, g)
  BY <1>1, <1>4, <1>5, <1>6, Parts, PushEffect DEF Wired
<1>8. /\ wire' \in Wires
      /\ \A d \in Conns, m \in Nodes :
           /\ NoDup(wire'[d][m])
           /\ Wired(d, m)' = IF d = c /\ m = o THEN Wired(d, m) \cup {i} ELSE Wired(d, m)
           /\ \A k \in DOMAIN wire'[d][m] :
                \/ d = c /\ m = o /\ wire'[d][m][k] = g
                \/ \E j \in DOMAIN wire[d][m] : wire'[d][m][k] = wire[d][m][j]
  BY <1>6, <1>7 DEF Pushed, Wired
<1>9. /\ by' \in [Reqs -> SUBSET (Nodes \X {"sync", "validate"})]
      /\ by'[i] = {<<n, t>>} /\ \A j \in Reqs : j # i => by'[j] = by[j]
  BY <1>1, <1>2
<1>10. \A j : Unseen(j)' <=> Unseen(j)
  BY <1>1 DEF Unseen, appVars
<1>11. TypeOK'
  BY <1>1, <1>2, <1>8, <1>9 DEF IInv, TypeOK, appVars, Wires
<1>12. /\ \A d \in Conns, m \in Nodes : Busy(d, m)' = Busy(d, m)
       /\ \A m \in Nodes : Known(m)' = Known(m)
       /\ failed' = failed
  BY <1>1 DEF Busy, Known, appVars
<1>13. OnePlace'
  <2>1. \A d, e \in Conns, l, m \in Nodes : Wired(d, l)' \cap Wired(e, m)' # {} => d = e /\ l = m
    BY <1>4, <1>8 DEF IInv, OnePlace
  <2>2. \A d, e \in Conns, l, m \in Nodes : Wired(d, l)' \cap Busy(e, m)' = {}
    BY <1>4, <1>8, <1>12 DEF IInv, OnePlace
  <2>3. \A d \in Conns, l, m \in Nodes : (Wired(d, l)' \cup Busy(d, l)') \cap (Known(m)' \cup failed') = {}
    BY <1>4, <1>8, <1>12 DEF IInv, OnePlace
  <2> QED
    BY <1>8, <1>12, <2>1, <2>2, <2>3 DEF IInv, OnePlace
<1>14. SeenOK'
  <2>1. \A m \in Nodes : \A j \in request[m] \cup held[m] : j \in Reqs /\ j # i
    BY <1>3 DEF IInv, TypeOK, Unseen
  <2> QED
    BY <1>1, <1>9, <2>1 DEF IInv, SeenOK, appVars
<1>15. MadeOK'
  <2>1. \A j \in Reqs : j > made' => j > made /\ j # i
    BY <1>0, <1>1, <1>2 DEF Reqs
  <2>2. failed \subseteq Reqs
    BY DEF IInv, TypeOK
  <2> QED
    BY <1>4, <1>9, <1>10, <1>12, <2>1, <2>2 DEF IInv, MadeOK
<1>16. FrameOK(c, o, g)'
  <2>1. by'[g.id] = {<<Other(c, o), g.type>>} /\ Unseen(g.id)'
    BY <1>3, <1>5, <1>6, <1>9, <1>10
  <2> QED
    BY <1>5, <1>6, <2>1 DEF FrameOK
<1>17. ASSUME NEW d \in Conns, NEW m \in Nodes, NEW k \in DOMAIN wire'[d][m]
       PROVE  \/ FrameOK(d, m, wire[d][m][k])'
              \/ \E j \in DOMAIN wire[d][m] : wire'[d][m][k] = wire[d][m][j]
  <2> SUFFICES ASSUME d = c, m = o, wire'[d][m][k] = g PROVE FrameOK(d, m, wire[d][m][k])'
    BY <1>8
  <2> QED
    BY <1>16 DEF FrameOK
<1>18. /\ \A j \in Reqs : by[j] # {} => by'[j] = by[j]
       /\ oneshot' = oneshot /\ loop' = loop /\ cur' = cur /\ UNCHANGED <<got, replies, events>>
  BY <1>1, <1>3, <1>9 DEF appVars
<1>19. PICK x : x = MaxRequests + 1
  OBVIOUS
<1>20. /\ \A d \in Conns, m \in Nodes : x \notin Wired(d, m)
       /\ \A d \in Conns, m \in Nodes : cur[d][m] # x
  BY <1>2, <1>19, Parts DEF Reqs
<1> QED
  BY <1>10, <1>11, <1>13, <1>14, <1>15, <1>17, <1>18, <1>20, LoudStep

\* The request is put into the slot of the channel; no other can be.
LEMMA OfferKeeps ==
  ASSUME IInv, NEW c \in Conns, NEW n \in Nodes, Offer(c, n)
  PROVE  IInv'
<1>0. PICK i : i = cur[c][n]
  OBVIOUS
<1>1. /\ loop[c][n] = "offer" /\ loop[c][n] # "read" /\ request[n] = {}
      /\ request' = [request EXCEPT ![n] = {i}]
      /\ loop' = [loop EXCEPT ![c][n] = "await"] /\ cur' = [cur EXCEPT ![c][n] = i]
      /\ UNCHANGED <<wire, open, held, oneshot, replies, events, sender, by, got, failed, made, faults>>
  BY <1>0 DEF Offer, Goto
<1>2. /\ i \in Reqs /\ i # 0 /\ n \in Ends[c] /\ by[i] # {} /\ StageOK(c, n)
      /\ \A d \in Conns, m \in Nodes : i \in Busy(d, m) => d = c /\ m = n
      /\ \A d \in Conns, m \in Nodes : i \notin Wired(d, m)
  BY <1>0, <1>1, LoopDone
<1>3. Unseen(i) /\ by[i] = {<<Other(c, n), "sync">>}
  BY <1>0, <1>1, <1>2 DEF StageOK
<1>4. /\ loop \in [Conns -> [Nodes -> {"read", "offer", "await", "refuse", "forward"}]]
      /\ cur \in [Conns -> [Nodes -> 0 .. MaxRequests]]
      /\ request \in [Nodes -> SUBSET Reqs]
      /\ \A m \in Nodes : Cardinality(request[m]) <= 1
  BY DEF IInv, TypeOK
<1>5. /\ loop' \in [Conns -> [Nodes -> {"read", "offer", "await", "refuse", "forward"}]]
      /\ loop'[c][n] = "await"
      /\ \A d \in Conns, m \in Nodes : ~ (d = c /\ m = n) => loop'[d][m] = loop[d][m]
  BY <1>1, <1>4
<1>6. cur' = cur
  BY <1>0, <1>1, <1>4
<1>7. /\ request' \in [Nodes -> SUBSET Reqs] /\ request'[n] = {i}
      /\ \A m \in Nodes : m # n => request'[m] = request[m]
  BY <1>1, <1>2, <1>4
<1>8. TypeOK'
  <2>1. ASSUME NEW m \in Nodes PROVE Cardinality(request'[m]) <= 1
    <3>1. Cardinality({i}) = 1
      BY FS_Singleton
    <3>2. CASE m = n
      BY <1>7, <3>1, <3>2
    <3>3. CASE m # n
      BY <1>4, <1>7, <3>3
    <3> QED
      BY <3>2, <3>3
  <2> QED
    BY <1>1, <1>5, <1>6, <1>7, <2>1 DEF IInv, TypeOK
<1>9. OnePlace'
  <2>1. /\ \A d \in Conns, m \in Nodes : Wired(d, m)' = Wired(d, m) /\ Busy(d, m)' = Busy(d, m)
        /\ \A m \in Nodes : Known(m)' = Known(m)
    BY <1>1, <1>6 DEF Wired, Busy, Known
  <2> QED
    BY <1>1, <2>1 DEF IInv, OnePlace
<1>10. ASSUME NEW j \in Reqs, j # i, Unseen(j) PROVE Unseen(j)'
  BY <1>1, <1>7, <1>10 DEF Unseen
<1>11. SeenOK'
  <2> SUFFICES ASSUME NEW l \in Nodes
               PROVE  /\ request'[l] \cap held'[l] = {}
                      /\ \A m \in Nodes : (request'[l] \cup held'[l]) \cap (request'[m] \cup held'[m]) # {} => l = m
                      /\ \A j \in request'[l] \cup held'[l] : oneshot'[j] = "empty" /\ by'[j] # {}
    BY DEF SeenOK
  <2>1. \A m \in Nodes : request'[m] \subseteq request[m] \cup {i} /\ (m # n => request'[m] = request[m]) /\ held'[m] = held[m]
    BY <1>1, <1>7
  <2>2. oneshot[i] = "empty" /\ \A m \in Nodes : i \notin request[m] /\ i \notin held[m]
    BY <1>3 DEF Unseen
  <2> QED
    BY <1>1, <1>2, <2>1, <2>2 DEF IInv, SeenOK
<1>12. MadeOK'
  <2>1. \A j \in Reqs : j > made => j # i
    BY <1>2 DEF IInv, MadeOK
  <2> QED
    BY <1>1, <1>10, <2>1 DEF IInv, MadeOK
<1>13. ASSUME NEW d \in Conns, NEW m \in Nodes
       PROVE  (loop'[d][m] = loop[d][m] /\ cur'[d][m] = cur[d][m] /\ cur[d][m] # i) \/ StageOK(d, m)'
  <2>1. CASE d = c /\ m = n
    BY <1>0, <1>1, <1>2, <1>3, <1>5, <1>6, <2>1 DEF StageOK
  <2>2. CASE ~ (d = c /\ m = n)
    <3>1. cur[d][m] # i
      BY <1>2, <2>2 DEF Busy
    <3> QED
      BY <1>5, <1>6, <2>2, <3>1
  <2> QED
    BY <2>1, <2>2
<1> QED
  BY <1>1, <1>2, <1>8, <1>9, <1>10, <1>11, <1>12, <1>13, LoudStep

\* The application takes a request from the channel, and later answers it.
LEMMA TakeAnswerKeep ==
  ASSUME IInv, NEW n \in Nodes, Take(n) \/ Answer(n)
  PROVE  IInv'
<1>1. UNCHANGED <<wire, open, loop, cur, replies, events, sender, by, got, failed, made, faults>>
  BY DEF Take, Answer
<1>2. /\ request \in [Nodes -> SUBSET Reqs] /\ held \in [Nodes -> SUBSET Reqs]
      /\ oneshot \in [Reqs -> {"empty", "data", "dropped"}]
      /\ \A m \in Nodes : Cardinality(request[m]) <= 1
  BY DEF IInv, TypeOK
<1>3. /\ request' \in [Nodes -> SUBSET Reqs] /\ held' \in [Nodes -> SUBSET Reqs]
      /\ oneshot' \in [Reqs -> {"empty", "data", "dropped"}]
      /\ \A m \in Nodes : Cardinality(request'[m]) <= 1
      /\ \A j \in Reqs : oneshot[j] = "data" => oneshot'[j] = "data"
      /\ \A j \in Reqs : Unseen(j) => Unseen(j)'
      /\ SeenOK'
  <2>1. CASE Take(n)
    <3>1. /\ held' = [held EXCEPT ![n] = @ \cup request[n]] /\ request' = [request EXCEPT ![n] = {}]
          /\ oneshot' = oneshot
      BY <2>1 DEF Take
    <3>2. /\ request' \in [Nodes -> SUBSET Reqs] /\ held' \in [Nodes -> SUBSET Reqs]
          /\ \A m \in Nodes : request'[m] = IF m = n THEN {} ELSE request[m]
          /\ \A m \in Nodes : held'[m] = IF m = n THEN held[m] \cup request[m] ELSE held[m]
      BY <1>2, <3>1
    <3>3. Cardinality({}) = 0
      BY FS_EmptySet
    <3>4. \A m \in Nodes : Cardinality(request'[m]) <= 1
      BY <1>2, <3>2, <3>3
    <3>5. \A j \in Reqs : Unseen(j) => Unseen(j)'
      BY <3>1, <3>2 DEF Unseen
    <3>6. SeenOK'
      BY <1>1, <3>1, <3>2 DEF IInv, SeenOK
    <3> QED
      BY <1>2, <3>1, <3>2, <3>4, <3>5, <3>6
  <2>2. CASE Answer(n)
    <3>1. PICK i \in held[n], a \in {"data", "dropped"} :
            oneshot' = [oneshot EXCEPT ![i] = a] /\ held' = [held EXCEPT ![n] = @ \ {i}]
      BY <2>2 DEF Answer
    <3>2. request' = request /\ i \in Reqs
      BY <1>2, <2>2, <3>1 DEF Answer
    <3>3. /\ held' \in [Nodes -> SUBSET Reqs] /\ oneshot' \in [Reqs -> {"empty", "data", "dropped"}]
          /\ \A j \in Reqs : j # i => oneshot'[j] = oneshot[j]
          /\ \A m \in Nodes : held'[m] = IF m = n THEN held[m] \ {i} ELSE held[m]
      BY <1>2, <3>1, <3>2
    <3>4. /\ oneshot[i] = "empty" /\ i \notin request[n]
          /\ \A m \in Nodes : m # n => i \notin request[m] /\ i \notin held[m]
      BY <3>1 DEF IInv, SeenOK
    <3>5. \A j \in Reqs : oneshot[j] = "data" => oneshot'[j] = "data"
      BY <3>3, <3>4
    <3>6. \A j \in Reqs : Unseen(j) => Unseen(j)'
      BY <3>1, <3>2, <3>3 DEF Unseen
    <3>7. SeenOK'
      <4>1. \A m \in Nodes : \A j \in request'[m] \cup held'[m] : j \in Reqs /\ j # i /\ j \in request[m] \cup held[m]
        BY <1>2, <3>2, <3>3, <3>4
      <4>2. \A m \in Nodes : \A j \in request'[m] \cup held'[m] : oneshot'[j] = "empty" /\ by'[j] # {}
        BY <1>1, <3>3, <4>1 DEF IInv, SeenOK
      <4>3. \A m \in Nodes : request'[m] \cap held'[m] = {}
        BY <3>2, <3>3 DEF IInv, SeenOK
      <4>4. \A l, m \in Nodes : (request'[l] \cup held'[l]) \cap (request'[m] \cup held'[m]) # {} => l = m
        BY <4>1 DEF IInv, SeenOK
      <4> QED
        BY <4>2, <4>3, <4>4 DEF SeenOK
    <3> QED
      BY <1>2, <3>2, <3>3, <3>5, <3>6, <3>7
  <2> QED
    BY <2>1, <2>2
<1>4. TypeOK'
  BY <1>1, <1>3 DEF IInv, TypeOK
<1>5. OnePlace'
  BY <1>1 DEF IInv, OnePlace, Wired, Busy, Known
<1>6. MadeOK'
  BY <1>1, <1>3 DEF IInv, MadeOK
<1>7. PICK x : x = MaxRequests + 1
  OBVIOUS
<1>8. /\ \A d \in Conns, m \in Nodes : x \notin Wired(d, m)
      /\ \A d \in Conns, m \in Nodes : cur[d][m] # x
  BY <1>7, Parts DEF Reqs
<1> QED
  BY <1>1, <1>3, <1>4, <1>5, <1>6, <1>8, LoudStep

\* A request has one asker.
LEMMA OneAsker ==
  ASSUME NEW n, NEW m, NEW i, Answered(n, i), Answered(m, i)
  PROVE  m = n
<1>1. PICK t : by[i] = {<<n, t>>}
  BY DEF Answered
<1>2. PICK u : by[i] = {<<m, u>>}
  BY DEF Answered
<1>3. <<m, u>> \in {<<n, t>>}
  BY <1>1, <1>2
<1>4. <<m, u>> = <<n, t>>
  BY <1>3
<1> QED
  BY <1>4

\* What a closed channel does to the loops that wait for it.
LEMMA CloseLoops ==
  ASSUME IInv, NEW n \in Nodes, NEW ch \in Channels, Close(n, ch)
  PROVE  /\ loop' \in [Conns -> [Nodes -> {"read", "offer", "await", "refuse", "forward"}]]
         /\ cur' \in [Conns -> [Nodes -> 0 .. MaxRequests]]
         /\ \A c \in Conns, m \in Nodes :
              \/ loop'[c][m] = loop[c][m] /\ cur'[c][m] = cur[c][m]
                 /\ ~ (m = n /\ ch = "response" /\ loop[c][m] = "forward")
              \/ /\ m = n /\ ch = "request" /\ loop[c][m] = "offer"
                 /\ loop'[c][m] = "refuse" /\ cur'[c][m] = cur[c][m]
              \/ /\ m = n /\ ch = "response" /\ loop[c][m] = "forward"
                 /\ loop'[c][m] = "read" /\ cur'[c][m] = 0
<1> DEFINE waiting(stage) == {c \in Conns : loop[c][n] = stage}
           dropped == IF ch = "request" THEN waiting("offer") ELSE
                      IF ch = "response" THEN waiting("forward") ELSE {}
<1>1. /\ loop' = [c \in Conns |-> IF c \notin dropped THEN loop[c] ELSE
                    [loop[c] EXCEPT ![n] = IF ch = "request" THEN "refuse" ELSE "read"]]
      /\ cur' = [c \in Conns |-> IF c \notin dropped \/ ch = "request" THEN cur[c]
                                  ELSE [cur[c] EXCEPT ![n] = 0]]
  BY DEF Close
<1>2. /\ loop \in [Conns -> [Nodes -> {"read", "offer", "await", "refuse", "forward"}]]
      /\ cur \in [Conns -> [Nodes -> 0 .. MaxRequests]] /\ 0 \in 0 .. MaxRequests
  BY NodeSyncConstants DEF IInv, TypeOK
<1>3. \A c \in Conns : c \in dropped <=> \/ ch = "request" /\ loop[c][n] = "offer"
                                         \/ ch = "response" /\ loop[c][n] = "forward"
  BY DEF Channels
<1> HIDE DEF waiting, dropped
<1>4. ASSUME NEW c \in Conns
      PROVE  /\ loop'[c] \in [Nodes -> {"read", "offer", "await", "refuse", "forward"}]
             /\ cur'[c] \in [Nodes -> 0 .. MaxRequests]
             /\ \A m \in Nodes :
                  \/ loop'[c][m] = loop[c][m] /\ cur'[c][m] = cur[c][m] /\ ~ (m = n /\ c \in dropped)
                  \/ /\ m = n /\ c \in dropped
                     /\ loop'[c][m] = IF ch = "request" THEN "refuse" ELSE "read"
                     /\ cur'[c][m] = IF ch = "request" THEN cur[c][m] ELSE 0
  <2>1. loop[c] \in [Nodes -> {"read", "offer", "await", "refuse", "forward"}] /\ cur[c] \in [Nodes -> 0 .. MaxRequests]
    BY <1>2
  <2>2. CASE c \notin dropped
    BY <1>1, <2>1, <2>2
  <2>3. CASE c \in dropped
    <3>1. /\ loop'[c] = [loop[c] EXCEPT ![n] = IF ch = "request" THEN "refuse" ELSE "read"]
          /\ cur'[c] = IF ch = "request" THEN cur[c] ELSE [cur[c] EXCEPT ![n] = 0]
      BY <1>1, <2>3
    <3> QED
      BY <1>2, <2>1, <2>3, <3>1
  <2> QED
    BY <2>2, <2>3
<1>5. /\ loop' = [c \in Conns |-> loop'[c]] /\ cur' = [c \in Conns |-> cur'[c]]
  BY <1>1
<1>6. /\ loop' \in [Conns -> [Nodes -> {"read", "offer", "await", "refuse", "forward"}]]
      /\ cur' \in [Conns -> [Nodes -> 0 .. MaxRequests]]
  BY <1>4, <1>5
<1> QED
  BY <1>3, <1>4, <1>6

\* The channel of requests is closed: its request is dropped unanswered, and the
\* loops that wait for the slot refuse theirs.
LEMMA CloseRequestKeeps ==
  ASSUME IInv, NEW n \in Nodes, Close(n, "request")
  PROVE  IInv'
<1>0. "request" \in Channels
  BY DEF Channels
<1>1. /\ faults < MaxFaults /\ faults' = faults + 1
      /\ \E left \in {"closed", "set"} : sender' = [sender EXCEPT ![n]["request"] = left]
      /\ oneshot' = [i \in Reqs |-> IF i \in request[n] THEN "dropped" ELSE oneshot[i]]
      /\ request' = [request EXCEPT ![n] = {}]
      /\ UNCHANGED <<wire, open, held, by, got, made, replies, events, failed>>
  BY DEF Close
<1>2. /\ loop' \in [Conns -> [Nodes -> {"read", "offer", "await", "refuse", "forward"}]]
      /\ cur' \in [Conns -> [Nodes -> 0 .. MaxRequests]]
      /\ \A c \in Conns, m \in Nodes :
           /\ cur'[c][m] = cur[c][m]
           /\ loop'[c][m] = loop[c][m] \/ (loop[c][m] = "offer" /\ loop'[c][m] = "refuse")
  BY <1>0, CloseLoops
<1>3. /\ request \in [Nodes -> SUBSET Reqs] /\ oneshot \in [Reqs -> {"empty", "data", "dropped"}]
      /\ held \in [Nodes -> SUBSET Reqs]
      /\ sender \in [Nodes -> [Channels -> {"none", "set", "closed"}]]
      /\ faults \in 0 .. MaxFaults /\ MaxFaults \in Nat
      /\ \A m \in Nodes : Cardinality(request[m]) <= 1
  BY NodeSyncConstants DEF IInv, TypeOK
<1>4. /\ request' \in [Nodes -> SUBSET Reqs]
      /\ \A m \in Nodes : request'[m] = IF m = n THEN {} ELSE request[m]
  BY <1>1, <1>3
<1>5. /\ oneshot' \in [Reqs -> {"empty", "data", "dropped"}]
      /\ \A j \in Reqs : oneshot'[j] = IF j \in request[n] THEN "dropped" ELSE oneshot[j]
  BY <1>1, <1>3
<1>6. TypeOK'
  <2>1. ASSUME NEW m \in Nodes PROVE Cardinality(request'[m]) <= 1
    <3>1. Cardinality({}) = 0
      BY FS_EmptySet
    <3>2. CASE m = n
      <4>1. request'[m] = {}
        BY <1>4, <3>2
      <4>2. Cardinality(request'[m]) = 0
        BY <3>1, <4>1
      <4> QED
        BY <1>3, <4>2
    <3>3. CASE m # n
      BY <1>3, <1>4, <3>3
    <3> QED
      BY <3>2, <3>3
  <2>2. sender' \in [Nodes -> [Channels -> {"none", "set", "closed"}]] /\ faults' \in 0 .. MaxFaults
    BY <1>0, <1>1, <1>3
  <2> QED
    BY <1>1, <1>2, <1>4, <1>5, <2>1, <2>2 DEF IInv, TypeOK
<1>7. OnePlace'
  <2>1. /\ \A d \in Conns, m \in Nodes : Wired(d, m)' = Wired(d, m) /\ Busy(d, m)' = Busy(d, m)
        /\ \A m \in Nodes : Known(m)' = Known(m)
    BY <1>1, <1>2 DEF Wired, Busy, Known
  <2> QED
    BY <1>1, <2>1 DEF IInv, OnePlace
<1>8. \A j \in Reqs : oneshot[j] = "data" => oneshot'[j] = "data"
  <2>1. \A j \in request[n] : oneshot[j] = "empty"
    BY DEF IInv, SeenOK
  <2> QED
    BY <1>5, <2>1
<1>9. \A j \in Reqs : Unseen(j) => Unseen(j)'
  BY <1>1, <1>4, <1>5 DEF Unseen
<1>10. SeenOK'
  <2>1. \A m \in Nodes : \A j \in request'[m] \cup held'[m] : j \in Reqs /\ j \in request[m] \cup held[m] /\ j \notin request[n]
    <3> SUFFICES ASSUME NEW m \in Nodes, NEW j \in request'[m] \cup held'[m], j \in request[n]
                 PROVE  FALSE
      BY <1>1, <1>3, <1>4
    <3>1. j \in request[m] \cup held[m]
      BY <1>1, <1>4
    <3>2. m = n
      BY <3>1 DEF IInv, SeenOK
    <3>3. j \in held[n]
      BY <1>1, <1>4, <3>2
    <3> QED
      BY <3>3 DEF IInv, SeenOK
  <2>2. \A m \in Nodes : \A j \in request'[m] \cup held'[m] : oneshot'[j] = "empty" /\ by'[j] # {}
    BY <1>1, <1>5, <2>1 DEF IInv, SeenOK
  <2>3. \A m \in Nodes : request'[m] \cap held'[m] = {}
    BY <1>1, <1>4 DEF IInv, SeenOK
  <2>4. \A l, m \in Nodes : (request'[l] \cup held'[l]) \cap (request'[m] \cup held'[m]) # {} => l = m
    BY <2>1 DEF IInv, SeenOK
  <2> QED
    BY <2>2, <2>3, <2>4 DEF SeenOK
<1>11. MadeOK'
  BY <1>1, <1>9 DEF IInv, MadeOK
<1>12. ASSUME NEW d \in Conns, NEW m \in Nodes, loop'[d][m] # loop[d][m]
       PROVE  StageOK(d, m)'
  <2>1. loop[d][m] = "offer" /\ loop'[d][m] = "refuse" /\ cur'[d][m] = cur[d][m] /\ StageOK(d, m)
    BY <1>2, <1>12, Parts
  <2> QED
    BY <1>1, <2>1 DEF StageOK
<1>13. PICK x : x = MaxRequests + 1
  OBVIOUS
<1>14. /\ \A d \in Conns, m \in Nodes : x \notin Wired(d, m)
       /\ \A d \in Conns, m \in Nodes : cur[d][m] # x
  BY <1>13, Parts DEF Reqs
<1>15. \A d \in Conns, m \in Nodes :
         (loop'[d][m] = loop[d][m] /\ cur'[d][m] = cur[d][m] /\ cur[d][m] # x) \/ StageOK(d, m)'
  BY <1>2, <1>12, <1>14
<1>16. /\ \A j \in Reqs : by[j] # {} => by'[j] = by[j]
       /\ UNCHANGED <<got, replies, events>>
       /\ \A d \in Conns, m \in Nodes : \A k \in DOMAIN wire'[d][m] :
            \E j \in DOMAIN wire[d][m] : wire'[d][m][k] = wire[d][m][j]
  BY <1>1
<1> QED
  BY <1>6, <1>7, <1>8, <1>9, <1>10, <1>11, <1>14, <1>15, <1>16, LoudStep

\* The channel of responses is closed, with what is in it and waits for it.
LEMMA CloseResponseKeeps ==
  ASSUME IInv, NEW n \in Nodes, Close(n, "response")
  PROVE  IInv'
<1>0. "response" \in Channels
  BY DEF Channels
<1> DEFINE dropped == {c \in Conns : loop[c][n] = "forward"}
<1>1. /\ faults < MaxFaults /\ faults' = faults + 1
      /\ \E left \in {"closed", "set"} : sender' = [sender EXCEPT ![n]["response"] = left]
      /\ failed' = failed \cup replies[n] \cup {cur[c][n] : c \in dropped}
      /\ replies' = [replies EXCEPT ![n] = {}]
      /\ UNCHANGED <<wire, open, held, by, got, made, request, oneshot, events>>
  BY DEF Close
<1>2. /\ loop' \in [Conns -> [Nodes -> {"read", "offer", "await", "refuse", "forward"}]]
      /\ cur' \in [Conns -> [Nodes -> 0 .. MaxRequests]]
      /\ \A c \in Conns, m \in Nodes :
           \/ loop'[c][m] = loop[c][m] /\ cur'[c][m] = cur[c][m] /\ ~ (m = n /\ c \in dropped)
           \/ m = n /\ c \in dropped /\ loop'[c][m] = "read" /\ cur'[c][m] = 0
  BY <1>0, CloseLoops
<1>3. /\ replies \in [Nodes -> SUBSET Reqs] /\ failed \subseteq Reqs
      /\ sender \in [Nodes -> [Channels -> {"none", "set", "closed"}]]
      /\ faults \in 0 .. MaxFaults /\ MaxFaults \in Nat
      /\ \A m \in Nodes : Cardinality(replies[m]) <= 1
  BY NodeSyncConstants DEF IInv, TypeOK
<1>4. /\ replies' \in [Nodes -> SUBSET Reqs]
      /\ \A m \in Nodes : replies'[m] = IF m = n THEN {} ELSE replies[m]
  BY <1>1, <1>3
<1>5. \A c \in dropped : c \in Conns /\ cur[c][n] \in Busy(c, n) /\ cur[c][n] # 0
  <2> SUFFICES ASSUME NEW c \in Conns, loop[c][n] = "forward" PROVE cur[c][n] # 0
    BY DEF Busy
  <2> QED
    BY Parts DEF StageOK
<1>6. \A i : i \in failed' <=> i \in failed \/ i \in replies[n] \/ \E c \in dropped : i = cur[c][n]
  BY <1>1
<1> HIDE DEF dropped
<1>7. \A d \in Conns, m \in Nodes : Busy(d, m)' = IF m = n /\ d \in dropped THEN {} ELSE Busy(d, m)
  BY <1>2 DEF Busy
<1>8. /\ \A d \in Conns, m \in Nodes : Wired(d, m)' = Wired(d, m)
      /\ \A m \in Nodes : Known(m)' \subseteq Known(m) /\ (m = n => Known(m)' \cap replies[n] = {})
  <2>1. \A m \in Nodes : replies[m] \cap got[m] = {} /\ replies[m] \cap events[m] = {}
    BY DEF IInv, ChannelsOK
  <2> QED
    BY <1>1, <1>4, <2>1 DEF Wired, Known
<1>9. failed' \subseteq Reqs /\ \A i \in failed' : by[i] # {}
  <2>1. replies[n] \subseteq Known(n)
    BY DEF Known
  <2>2. \A c \in dropped : cur[c][n] \in Reqs /\ by[cur[c][n]] # {}
    BY <1>5, Used
  <2>3. \A i \in replies[n] : i \in Reqs /\ by[i] # {}
    BY <2>1, Used
  <2>4. \A i \in failed : i \in Reqs /\ by[i] # {}
    BY <1>3, Parts
  <2> QED
    BY <1>6, <2>2, <2>3, <2>4
<1>10. TypeOK'
  <2>1. ASSUME NEW m \in Nodes PROVE Cardinality(replies'[m]) <= 1
    <3>1. Cardinality({}) = 0
      BY FS_EmptySet
    <3>2. CASE m = n
      <4>1. replies'[m] = {}
        BY <1>4, <3>2
      <4>2. Cardinality(replies'[m]) = 0
        BY <3>1, <4>1
      <4> QED
        BY <1>3, <4>2
    <3>3. CASE m # n
      BY <1>3, <1>4, <3>3
    <3> QED
      BY <3>2, <3>3
  <2>2. sender' \in [Nodes -> [Channels -> {"none", "set", "closed"}]] /\ faults' \in 0 .. MaxFaults
    BY <1>0, <1>1, <1>3
  <2> QED
    BY <1>1, <1>2, <1>4, <1>9, <2>1, <2>2 DEF IInv, TypeOK
<1>11. OnePlace'
  <2>1. /\ \A d, e \in Conns, l, m \in Nodes : Wired(d, l)' \cap Wired(e, m)' # {} => d = e /\ l = m
        /\ \A d, e \in Conns, l, m \in Nodes : Wired(d, l)' \cap Busy(e, m)' = {}
        /\ \A d, e \in Conns, l, m \in Nodes : Busy(d, l)' \cap Busy(e, m)' # {} => d = e /\ l = m
    BY <1>7, <1>8 DEF IInv, OnePlace
  <2>2. ASSUME NEW d \in Conns, NEW l \in Nodes, NEW i \in Wired(d, l)' \cup Busy(d, l)'
        PROVE  i \notin failed' /\ \A m \in Nodes : i \notin Known(m)'
    <3>1. i \in Wired(d, l) \cup Busy(d, l)
      BY <1>7, <1>8
    <3>2. i \notin failed /\ \A m \in Nodes : i \notin Known(m)
      BY <3>1 DEF IInv, OnePlace
    <3>3. i \notin replies[n]
      BY <3>2 DEF Known
    <3>4. ASSUME NEW c \in dropped PROVE i # cur[c][n]
      <4>1. CASE i \in Wired(d, l)
        BY <1>5, <4>1 DEF IInv, OnePlace
      <4>2. CASE i \in Busy(d, l)' /\ i \in Busy(d, l)
        BY <1>5, <1>7, <4>2 DEF IInv, OnePlace
      <4> QED
        BY <1>7, <1>8, <2>2, <4>1, <4>2
    <3> QED
      BY <1>6, <1>8, <3>2, <3>3, <3>4
  <2>3. ASSUME NEW m \in Nodes, NEW i \in Known(m)' PROVE i \notin failed'
    <3>1. i \in Known(m)
      BY <1>8
    <3>2. i \notin failed /\ \A d \in Conns : i \notin Busy(d, n)
      BY <3>1 DEF IInv, OnePlace
    <3>3. i \notin replies[n]
      <4>1. SUFFICES ASSUME i \in replies[n] PROVE FALSE
        OBVIOUS
      <4>2. Answered(n, i) /\ Answered(m, i)
        BY <3>1, <4>1, Parts DEF Known
      <4>3. m = n
        BY <4>2, OneAsker
      <4> QED
        BY <1>8, <4>1, <4>3
    <3> QED
      BY <1>5, <1>6, <3>2, <3>3
  <2> QED
    BY <1>1, <2>1, <2>2, <2>3 DEF IInv, OnePlace
<1>12. ASSUME NEW d \in Conns, NEW m \in Nodes
       PROVE  (loop'[d][m] = loop[d][m] /\ cur'[d][m] = cur[d][m]) \/ StageOK(d, m)'
  BY <1>2 DEF StageOK
<1>13. ChannelsOK'
  BY <1>1, <1>4 DEF IInv, ChannelsOK
<1>14. \A m \in Nodes : \A i \in Known(m)' : Answered(m, i)
  BY <1>8, Parts
<1> QED
  BY <1>1, <1>9, <1>10, <1>11, <1>12, <1>13, <1>14, Parts, QuietStep

\* The channel of events is closed, with what is in it.
LEMMA CloseEventKeeps ==
  ASSUME IInv, NEW n \in Nodes, Close(n, "event")
  PROVE  IInv'
<1>0. "event" \in Channels
  BY DEF Channels
<1>1. /\ faults < MaxFaults /\ faults' = faults + 1
      /\ sender' = [sender EXCEPT ![n]["event"] = "closed"]
      /\ failed' = failed \cup events[n]
      /\ events' = [events EXCEPT ![n] = {}]
      /\ UNCHANGED <<wire, open, held, by, got, made, request, oneshot, replies>>
  BY DEF Close
<1>2. /\ loop' \in [Conns -> [Nodes -> {"read", "offer", "await", "refuse", "forward"}]]
      /\ cur' \in [Conns -> [Nodes -> 0 .. MaxRequests]]
      /\ \A c \in Conns, m \in Nodes : loop'[c][m] = loop[c][m] /\ cur'[c][m] = cur[c][m]
  BY <1>0, CloseLoops
<1>3. /\ events \in [Nodes -> SUBSET Reqs] /\ failed \subseteq Reqs
      /\ sender \in [Nodes -> [Channels -> {"none", "set", "closed"}]]
      /\ faults \in 0 .. MaxFaults /\ MaxFaults \in Nat /\ EventSlots \in Nat
      /\ \A m \in Nodes : Cardinality(events[m]) <= EventSlots
  BY NodeSyncConstants DEF IInv, TypeOK
<1>4. /\ events' \in [Nodes -> SUBSET Reqs]
      /\ \A m \in Nodes : events'[m] = IF m = n THEN {} ELSE events[m]
  BY <1>1, <1>3
<1>8. /\ \A d \in Conns, m \in Nodes : Wired(d, m)' = Wired(d, m) /\ Busy(d, m)' = Busy(d, m)
      /\ \A m \in Nodes : Known(m)' \subseteq Known(m) /\ (m = n => Known(m)' \cap events[n] = {})
  <2>1. \A m \in Nodes : events[m] \cap got[m] = {} /\ replies[m] \cap events[m] = {}
    BY DEF IInv, ChannelsOK
  <2> QED
    BY <1>1, <1>2, <1>4, <2>1 DEF Wired, Busy, Known
<1>9. failed' \subseteq Reqs /\ \A i \in failed' : by[i] # {}
  <2>1. \A i \in events[n] : i \in Reqs /\ by[i] # {}
    BY Used DEF Known
  <2> QED
    BY <1>1, <1>3, <2>1, Parts
<1>10. TypeOK'
  <2>1. ASSUME NEW m \in Nodes PROVE Cardinality(events'[m]) <= EventSlots
    <3>1. Cardinality({}) = 0
      BY FS_EmptySet
    <3>2. CASE m = n
      <4>1. events'[m] = {}
        BY <1>4, <3>2
      <4>2. Cardinality(events'[m]) = 0
        BY <3>1, <4>1
      <4> QED
        BY <1>3, <4>2
    <3>3. CASE m # n
      BY <1>3, <1>4, <3>3
    <3> QED
      BY <3>2, <3>3
  <2>2. sender' \in [Nodes -> [Channels -> {"none", "set", "closed"}]] /\ faults' \in 0 .. MaxFaults
    BY <1>0, <1>1, <1>3
  <2> QED
    BY <1>1, <1>2, <1>4, <1>9, <2>1, <2>2 DEF IInv, TypeOK
<1>11. OnePlace'
  <2>1. \A c \in Conns, l, m \in Nodes : (Wired(c, l)' \cup Busy(c, l)') \cap (Known(m)' \cup failed') = {}
    <3>1. events[n] \subseteq Known(n)
      BY DEF Known
    <3> QED
      BY <1>1, <1>8, <3>1 DEF IInv, OnePlace
  <2>2. ASSUME NEW m \in Nodes, NEW i \in Known(m)' PROVE i \notin failed'
    <3>1. i \in Known(m) /\ i \notin failed
      BY <1>8 DEF IInv, OnePlace
    <3>3. i \notin events[n]
      <4>1. SUFFICES ASSUME i \in events[n] PROVE FALSE
        OBVIOUS
      <4>2. Answered(n, i) /\ Answered(m, i)
        BY <3>1, <4>1, Parts DEF Known
      <4>3. m = n
        BY <4>2, OneAsker
      <4> QED
        BY <1>8, <4>1, <4>3
    <3> QED
      BY <1>1, <3>1, <3>3
  <2> QED
    BY <1>1, <1>8, <2>1, <2>2 DEF IInv, OnePlace
<1>13. ChannelsOK'
  BY <1>1, <1>4 DEF IInv, ChannelsOK
<1>14. \A m \in Nodes : \A i \in Known(m)' : Answered(m, i)
  BY <1>8, Parts
<1> QED
  BY <1>1, <1>2, <1>9, <1>10, <1>11, <1>13, <1>14, Parts, QuietStep

-----------------------------------------------------------------------------
(* The invariant holds.                                                    *)

LEMMA InitHolds == Init => IInv
<1> SUFFICES ASSUME Init PROVE IInv
  OBVIOUS
<1>1. MaxRequests \in Nat /\ MaxFaults \in Nat /\ EventSlots \in Nat
  BY NodeSyncConstants
<1>2. <<>> \in Seq(Frames) /\ Cardinality({}) = 0
  BY FS_EmptySet
<1>3. TypeOK
  BY <1>1, <1>2 DEF Init, TypeOK
<1>4. /\ \A c \in Conns, n \in Nodes : wire[c][n] = <<>> /\ Wired(c, n) = {} /\ Busy(c, n) = {}
      /\ \A n \in Nodes : Known(n) = {}
      /\ \A c \in Conns, n \in Nodes : NoDup(wire[c][n]) /\ DOMAIN wire[c][n] = {}
  BY NoFrames DEF Init, Wired, Busy, Known
<1>5. OnePlace /\ WireOK /\ KnownOK
  BY <1>4 DEF OnePlace, WireOK, KnownOK, Init
<1>6. LoopOK
  BY DEF Init, LoopOK, StageOK
<1>7. SeenOK /\ MadeOK /\ ChannelsOK
  BY DEF Init, SeenOK, MadeOK, Unseen, ChannelsOK
<1> QED
  BY <1>3, <1>5, <1>6, <1>7 DEF IInv

LEMMA NextHolds == IInv /\ [Next]_vars => IInv'
<1> SUFFICES ASSUME IInv, [Next]_vars PROVE IInv'
  OBVIOUS
<1>1. ASSUME NEW c \in Conns, NEW n \in Nodes, Loops(c, n) PROVE IInv'
  BY <1>1, HandleSyncKeeps, OfferKeeps, ReplyKeeps, HandleValidateKeeps, HandleDataKeeps,
     ForwardKeeps, HandleValidatedKeeps DEF Loops
<1>2. ASSUME NEW c \in Conns, NEW n \in Nodes, NEW t \in {"sync", "validate"}, Ask(c, n, t) PROVE IInv'
  BY <1>2, AskKeeps
<1>3. ASSUME NEW n \in Nodes, NEW ch \in Channels, Close(n, ch) PROVE IInv'
  BY <1>3, CloseRequestKeeps, CloseResponseKeeps, CloseEventKeeps DEF Channels
<1>4. ASSUME NEW n \in Nodes, Register(n) \/ Take(n) \/ Answer(n) \/ Receive(n) \/ ReceiveEvent(n) PROVE IInv'
  BY <1>4, AppSteps, TakeAnswerKeep
<1>5. ASSUME NEW c \in Conns, Lose(c) PROVE IInv'
  BY <1>5, LoseKeeps
<1>6. CASE UNCHANGED vars
  <2>1. UNCHANGED <<by, oneshot, request, held, made, wire, loop, cur, failed, got, replies, events>>
    BY <1>6 DEF vars, appVars
  <2>2. TypeOK'
    BY <1>6 DEF IInv, TypeOK, vars, appVars
  <2>3. OnePlace'
    BY <2>1 DEF IInv, OnePlace, Wired, Busy, Known
  <2>4. \A n \in Nodes : Known(n)' = Known(n)
    BY <2>1 DEF Known
  <2> QED
    BY <2>1, <2>2, <2>3, <2>4, Parts, QuietStep
<1> QED
  BY <1>1, <1>2, <1>3, <1>4, <1>5, <1>6 DEF Next

\* Frames, loops, channels and histories of node synchronisation keep their
\* types, and the channels of SyncRequests, responses and validation events
\* their capacity, whatever is asked, answered, closed or lost.
THEOREM TypeCorrect == Spec => []TypeOK
<1>1. IInv => TypeOK
  BY DEF IInv
<1> QED
  BY <1>1, InitHolds, NextHolds, PTL DEF Spec

\* What node_sync_response_handler and witness_validate_ack_handler hand to an
\* application answers a request of its own node, data is never a failure, and
\* nothing arrives for a request that failed.
THEOREM OnlyOwnAnswers == Spec => []AnswersOwn
<1>1. IInv => AnswersOwn
  <2> SUFFICES ASSUME IInv, NEW n \in Nodes, NEW i \in got[n] \cup replies[n] \cup events[n]
               PROVE  /\ i \notin failed
                      /\ by[i] = {<<n, "validate">>} \/ (by[i] = {<<n, "sync">>} /\ oneshot[i] = "data")
    BY DEF AnswersOwn
  <2>1. i \in Known(n)
    BY DEF Known
  <2>2. i \notin failed /\ Answered(n, i)
    BY <2>1, Parts DEF IInv, OnePlace
  <2> QED
    BY <2>2 DEF Answered
<1> QED
  BY <1>1, InitHolds, NextHolds, PTL DEF Spec

-----------------------------------------------------------------------------
(* No request is forgotten.                                                *)

\* Where a request that was made is.
Home(i) ==
  \/ i \in failed
  \/ \E n \in Nodes : i \in Known(n)
  \/ \E c \in Conns, n \in Nodes : i \in Wired(c, n) \cup Busy(c, n)

Homed == \A i \in Reqs : by[i] # {} => Home(i)
WiresOpen == \A c \in Conns, n \in Nodes : Wired(c, n) # {} => c \in open
Served ==
  \A c \in Conns, n \in Nodes :
    loop[c][n] = "await" /\ oneshot[cur[c][n]] = "empty" => cur[c][n] \in request[n] \cup held[n]

HomeInv == Homed /\ WiresOpen /\ Served

\* What a step has to show that moves only the request x.
LEMMA HomeStep ==
  ASSUME HomeInv, NEW x,
         x \in Reqs => Home(x)',
         \A i \in Reqs : i # x /\ by'[i] # {} => by[i] # {},
         failed \subseteq failed',
         \A n \in Nodes : \A i \in Known(n) : i # x => i \in Known(n)' \cup failed',
         \A c \in Conns, n \in Nodes : \A i \in Wired(c, n) \cup Busy(c, n) :
           i # x => i \in Wired(c, n)' \cup Busy(c, n)' \cup failed',
         \A c \in Conns, n \in Nodes : Wired(c, n)' # {} => c \in open',
         Served'
  PROVE  HomeInv'
<1>1. ASSUME NEW i \in Reqs, by'[i] # {}, i # x
      PROVE  Home(i)'
  <2>1. Home(i)
    BY <1>1 DEF HomeInv, Homed
  <2>2. CASE i \in failed
    BY <2>2 DEF Home
  <2>3. ASSUME NEW n \in Nodes, i \in Known(n) PROVE Home(i)'
    BY <1>1, <2>3 DEF Home
  <2>4. ASSUME NEW c \in Conns, NEW n \in Nodes, i \in Wired(c, n) \cup Busy(c, n) PROVE Home(i)'
    BY <1>1, <2>4 DEF Home
  <2> QED
    BY <2>1, <2>2, <2>3, <2>4 DEF Home
<1>2. Homed'
  BY <1>1 DEF Homed
<1>3. WiresOpen'
  BY DEF WiresOpen
<1> QED
  BY <1>2, <1>3 DEF HomeInv

\* Steps that hand nothing over to the applications leave no loop unserved.
LEMMA StillServed ==
  ASSUME Served, UNCHANGED <<request, held, oneshot>>,
         \A c \in Conns, n \in Nodes :
           (loop'[c][n] = loop[c][n] /\ cur'[c][n] = cur[c][n]) \/ loop'[c][n] # "await"
  PROVE  Served'
<1> SUFFICES ASSUME NEW c \in Conns, NEW n \in Nodes, loop'[c][n] = "await", oneshot'[cur'[c][n]] = "empty"
             PROVE  cur'[c][n] \in request'[n] \cup held'[n]
  BY DEF Served
<1>1. loop[c][n] = "await" /\ cur'[c][n] = cur[c][n]
  OBVIOUS
<1>2. oneshot[cur[c][n]] = "empty"
  BY <1>1
<1> QED
  BY <1>1, <1>2 DEF Served

\* A loop that takes a request from its queue keeps it.
LEMMA GotoHome ==
  ASSUME IInv, HomeInv, NEW c \in Conns, NEW n \in Nodes, loop[c][n] = "read", wire[c][n] # <<>>,
         Popped(wire', wire, c, n),
         NEW s \in {"offer", "refuse", "forward"}, Goto(c, n, s, Head(wire[c][n]).id),
         UNCHANGED <<open, appVars, by, got, failed>>
  PROVE  HomeInv'
<1>0. PICK i : i = Head(wire[c][n]).id
  OBVIOUS
<1>1. i \in Reqs /\ i # 0 /\ cur[c][n] = 0
  BY <1>0, FrameRead
<1>2. \A d \in Conns, m \in Nodes : Wired(d, m)' = IF d = c /\ m = n THEN Wired(d, m) \ {i} ELSE Wired(d, m)
  BY <1>0 DEF Popped, Wired
<1>3. /\ loop \in [Conns -> [Nodes -> {"read", "offer", "await", "refuse", "forward"}]]
      /\ cur \in [Conns -> [Nodes -> 0 .. MaxRequests]]
      /\ loop' = [loop EXCEPT ![c][n] = s] /\ cur' = [cur EXCEPT ![c][n] = i]
  BY <1>0 DEF IInv, TypeOK, Goto
<1>4. /\ \A d \in Conns, m \in Nodes : ~ (d = c /\ m = n) => loop'[d][m] = loop[d][m] /\ cur'[d][m] = cur[d][m]
      /\ loop'[c][n] = s /\ cur'[c][n] = i
  BY <1>3
<1>5. \A d \in Conns, m \in Nodes : Busy(d, m) \subseteq Busy(d, m)'
  BY <1>1, <1>4 DEF Busy
<1>6. Home(i)'
  BY <1>1, <1>4 DEF Home, Busy
<1>7. Served'
  BY <1>4, StillServed DEF HomeInv, appVars
<1>8. \A m \in Nodes : Known(m)' = Known(m)
  BY DEF Known, appVars
<1>9. \A d \in Conns, m \in Nodes : Wired(d, m)' # {} => d \in open'
  BY <1>2 DEF HomeInv, WiresOpen
<1>10. /\ \A d \in Conns, m \in Nodes : \A j \in Wired(d, m) \cup Busy(d, m) :
            j # i => j \in Wired(d, m)' \cup Busy(d, m)' \cup failed'
  BY <1>2, <1>5
<1> QED
  BY <1>6, <1>7, <1>8, <1>9, <1>10, HomeStep

\* A loop takes a request from its queue, which ends with it or becomes known.
LEMMA EndHome ==
  ASSUME IInv, HomeInv, NEW c \in Conns, NEW n \in Nodes, loop[c][n] = "read", wire[c][n] # <<>>,
         Popped(wire', wire, c, n),
         UNCHANGED <<open, loop, cur, request, held, oneshot, by>>,
         failed \subseteq failed', \A m \in Nodes : Known(m) \subseteq Known(m)',
         Head(wire[c][n]).id \in failed' \cup Known(n)'
  PROVE  HomeInv'
<1>0. PICK i : i = Head(wire[c][n]).id
  OBVIOUS
<1>1. \A d \in Conns, m \in Nodes : Wired(d, m)' = IF d = c /\ m = n THEN Wired(d, m) \ {i} ELSE Wired(d, m)
  BY <1>0 DEF Popped, Wired
<1>2. \A d \in Conns, m \in Nodes : Busy(d, m)' = Busy(d, m)
  BY DEF Busy
<1>3. Home(i)'
  BY <1>0 DEF Home
<1>4. Served'
  BY StillServed DEF HomeInv
<1>5. \A d \in Conns, m \in Nodes : Wired(d, m)' # {} => d \in open'
  BY <1>1 DEF HomeInv, WiresOpen
<1>6. /\ \A d \in Conns, m \in Nodes : \A j \in Wired(d, m) \cup Busy(d, m) :
            j # i => j \in Wired(d, m)' \cup Busy(d, m)' \cup failed'
  BY <1>1, <1>2
<1> QED
  BY <1>3, <1>4, <1>5, <1>6, HomeStep

\* node_sync_handler, node_sync_response_handler and witness_validate_ack_handler
\* take a request from their queue.
LEMMA ReadsHome ==
  ASSUME IInv, HomeInv, NEW c \in Conns, NEW n \in Nodes,
         HandleSync(c, n) \/ HandleData(c, n) \/ HandleValidated(c, n)
  PROVE  HomeInv'
<1>0. /\ loop[c][n] = "read" /\ wire[c][n] # <<>> /\ wire' = [wire EXCEPT ![c][n] = Tail(@)]
      /\ UNCHANGED <<open, request, held, oneshot, replies, sender, by, got>>
  BY DEF HandleSync, HandleData, HandleValidated, Reads, appVars
<1>1. /\ loop[c][n] = "read" /\ wire[c][n] # <<>> /\ Popped(wire', wire, c, n)
      /\ UNCHANGED <<open, request, held, oneshot, replies, sender, by, got>>
  BY <1>0, Parts, PopEffect DEF Pop
<1>2. CASE HandleSync(c, n)
  <2>1. PICK s \in {"offer", "refuse", "forward"} : Goto(c, n, s, Head(wire[c][n]).id)
    BY <1>2 DEF HandleSync
  <2>2. UNCHANGED <<open, appVars, by, got, failed>>
    BY <1>2 DEF HandleSync
  <2> QED
    BY <1>1, <2>1, <2>2, GotoHome
<1>3. CASE HandleData(c, n)
  <2>0. UNCHANGED <<open, appVars, by, got>>
    BY <1>3 DEF HandleData
  <2>1. CASE Goto(c, n, "forward", Head(wire[c][n]).id) /\ UNCHANGED failed
    BY <1>1, <2>0, <2>1, GotoHome
  <2>2. CASE failed' = failed \cup {Head(wire[c][n]).id} /\ UNCHANGED <<loop, cur>>
    <3>1. \A m \in Nodes : Known(m)' = Known(m)
      BY <2>0 DEF Known, appVars
    <3> QED
      BY <1>1, <2>2, <3>1, EndHome
  <2> QED
    BY <1>3, <2>1, <2>2 DEF HandleData
<1>4. CASE HandleValidated(c, n)
  <2>0. PICK i : i = Head(wire[c][n]).id
    OBVIOUS
  <2>1. /\ UNCHANGED <<loop, cur>> /\ events \in [Nodes -> SUBSET Reqs]
        /\ \/ events' = [events EXCEPT ![n] = @ \cup {i}] /\ failed' = failed
           \/ failed' = failed \cup {i} /\ events' = [events EXCEPT ![n] = @]
    BY <1>4, <2>0 DEF HandleValidated, IInv, TypeOK
  <2>2. /\ failed \subseteq failed' /\ \A m \in Nodes : events[m] \subseteq events'[m]
        /\ i \in failed' \cup events'[n]
    BY <2>1
  <2>3. /\ \A m \in Nodes : Known(m) \subseteq Known(m)'
        /\ i \in failed' \cup Known(n)'
    BY <1>1, <2>2 DEF Known
  <2> QED
    BY <1>1, <2>0, <2>1, <2>2, <2>3, EndHome
<1> QED
  BY <1>2, <1>3, <1>4

\* request_node_sync and send_validate_request put a new request on an open
\* connection; witness_validate_handler and node_sync_handler send it back there.
LEMMA SentHome ==
  ASSUME IInv, HomeInv, NEW c \in Conns, NEW o \in Nodes, NEW i \in Reqs,
         c \in open, UNCHANGED <<open, failed, request, held, oneshot>>,
         \A j \in Reqs : j # i => by'[j] = by[j],
         \A m \in Nodes : Known(m)' = Known(m),
         \A d \in Conns, m \in Nodes : Wired(d, m) \ {i} \subseteq Wired(d, m)',
         \A d \in Conns, m \in Nodes : d # c => Wired(d, m)' = Wired(d, m),
         i \in Wired(c, o)',
         \A d \in Conns, m \in Nodes : Busy(d, m) \ {i} \subseteq Busy(d, m)',
         \A d \in Conns, m \in Nodes :
           (loop'[d][m] = loop[d][m] /\ cur'[d][m] = cur[d][m]) \/ loop'[d][m] # "await"
  PROVE  HomeInv'
<1>1. Home(i)'
  BY DEF Home
<1>2. Served'
  BY StillServed DEF HomeInv
<1>3. \A d \in Conns, m \in Nodes : Wired(d, m)' # {} => d \in open'
  BY DEF HomeInv, WiresOpen
<1>4. \A d \in Conns, m \in Nodes : \A j \in Wired(d, m) \cup Busy(d, m) :
        j # i => j \in Wired(d, m)' \cup Busy(d, m)' \cup failed'
  OBVIOUS
<1> QED
  BY <1>1, <1>2, <1>3, <1>4, HomeStep

LEMMA AskHome ==
  ASSUME IInv, HomeInv, NEW c \in Conns, NEW n \in Nodes, NEW t \in {"sync", "validate"}, Ask(c, n, t)
  PROVE  HomeInv'
<1>0. PICK i, o, g : i = made + 1 /\ o = Other(c, n) /\ g = Frame(t, i)
  OBVIOUS
<1>1. /\ c \in open /\ n \in Ends[c] /\ made < MaxRequests
      /\ by' = [by EXCEPT ![i] = {<<n, t>>}]
      /\ wire' = Push(wire, c, o, g)
      /\ UNCHANGED <<open, loop, cur, appVars, got, failed, faults>>
  BY <1>0 DEF Ask, Push
<1>2. /\ made \in 0 .. MaxRequests /\ MaxRequests \in Nat /\ i \in Reqs /\ i > made
      /\ by \in [Reqs -> SUBSET (Nodes \X {"sync", "validate"})]
  BY <1>0, <1>1, NodeSyncConstants DEF IInv, TypeOK, Reqs
<1>3. i \notin Wired(c, o) /\ o \in Nodes
  <2>1. by[i] = {}
    BY <1>2 DEF IInv, MadeOK
  <2>2. o \in Nodes
    BY <1>0, <1>1, TwoEnds
  <2> QED
    BY <2>1, <2>2, Used
<1>4. g \in Frames /\ g.id = i
  BY <1>0, <1>2 DEF Frame, Frames
<1>5. Pushed(wire', wire, c, o, g)
  BY <1>1, <1>3, <1>4, Parts, PushEffect DEF Wired
<1>6. \A d \in Conns, m \in Nodes : Wired(d, m)' = IF d = c /\ m = o THEN Wired(d, m) \cup {i} ELSE Wired(d, m)
  BY <1>4, <1>5 DEF Pushed, Wired
<1>7. /\ \A j \in Reqs : j # i => by'[j] = by[j]
      /\ \A m \in Nodes : Known(m)' = Known(m)
      /\ \A d \in Conns, m \in Nodes : Busy(d, m)' = Busy(d, m)
      /\ UNCHANGED <<open, failed, request, held, oneshot, loop, cur>>
  BY <1>1, <1>2 DEF Known, Busy, appVars
<1>8. /\ \A d \in Conns, m \in Nodes : Wired(d, m) \ {i} \subseteq Wired(d, m)'
      /\ \A d \in Conns, m \in Nodes : d # c => Wired(d, m)' = Wired(d, m)
      /\ i \in Wired(c, o)'
  BY <1>3, <1>6
<1> QED
  BY <1>1, <1>2, <1>3, <1>7, <1>8, SentHome

LEMMA ValidateHome ==
  ASSUME IInv, HomeInv, NEW c \in Conns, NEW n \in Nodes, HandleValidate(c, n)
  PROVE  HomeInv'
<1>0. PICK i, o : i = Head(wire[c][n]).id /\ o = Other(c, n)
  OBVIOUS
<1>1. /\ loop[c][n] = "read" /\ wire[c][n] # <<>>
      /\ UNCHANGED <<open, loop, cur, appVars, by, got, failed>>
  BY DEF HandleValidate, Reads
<1>2. i \in Reqs /\ i \in Wired(c, n) /\ n \in Ends[c]
  BY <1>0, <1>1, FrameRead DEF FrameOK
<1>3. o \in Nodes /\ o # n
  BY <1>0, <1>2, TwoEnds
<1>4. \A d \in Conns, m \in Nodes :
        Wired(d, m)' = IF d = c /\ m = n THEN Wired(d, m) \ {i} ELSE
                       IF d = c /\ m = o THEN Wired(d, m) \cup {i} ELSE Wired(d, m)
  BY <1>0, ValidateWires
<1>5. c \in open
  BY <1>2 DEF HomeInv, WiresOpen
<1>6. /\ \A m \in Nodes : Known(m)' = Known(m)
      /\ \A d \in Conns, m \in Nodes : Busy(d, m)' = Busy(d, m)
      /\ UNCHANGED <<open, failed, request, held, oneshot, loop, cur, by>>
  BY <1>1 DEF Known, Busy, appVars
<1>7. /\ \A d \in Conns, m \in Nodes : Wired(d, m) \ {i} \subseteq Wired(d, m)'
      /\ \A d \in Conns, m \in Nodes : d # c => Wired(d, m)' = Wired(d, m)
      /\ i \in Wired(c, o)'
  BY <1>3, <1>4
<1> QED
  BY <1>2, <1>3, <1>5, <1>6, <1>7, SentHome

\* The response of node_sync_handler, or the end of its request.
LEMMA ReplyHome ==
  ASSUME IInv, HomeInv, NEW c \in Conns, NEW n \in Nodes, Reply(c, n)
  PROVE  HomeInv'
<1>0. PICK i, g, o : i = cur[c][n] /\ g = Frame(Response(c, n), i) /\ o = Other(c, n)
  OBVIOUS
<1>1. /\ loop[c][n] # "read" /\ Goto(c, n, "read", 0)
      /\ UNCHANGED <<open, appVars, by, got, made, faults>>
      /\ \/ c \in open /\ wire' = Push(wire, c, o, g) /\ failed' = failed
         \/ wire' = wire /\ failed' = failed \cup {i}
  BY <1>0 DEF Reply, Push
<1>2. /\ i \in Reqs /\ i # 0 /\ n \in Ends[c] /\ \A d \in Conns, m \in Nodes : i \notin Wired(d, m)
  BY <1>0, <1>1, LoopDone
<1>3. o \in Nodes
  BY <1>0, <1>2, TwoEnds
<1>4. g \in Frames /\ g.id = i
  BY <1>0, <1>2 DEF Frame, Frames, Response
<1>5. \A d \in Conns, m \in Nodes : Busy(d, m) \ {i} \subseteq Busy(d, m)'
  <2>1. \A d \in Conns, m \in Nodes : Busy(d, m)' = IF d = c /\ m = n THEN {} ELSE Busy(d, m)
    BY <1>1, LoopFree
  <2>2. Busy(c, n) \subseteq {i}
    BY <1>0 DEF Busy
  <2> QED
    BY <2>1, <2>2
<1>6. \A d \in Conns, m \in Nodes : (loop'[d][m] = loop[d][m] /\ cur'[d][m] = cur[d][m]) \/ loop'[d][m] # "await"
  BY <1>1 DEF Goto, IInv, TypeOK
<1>7. /\ \A m \in Nodes : Known(m)' = Known(m)
      /\ UNCHANGED <<open, request, held, oneshot, by>>
  BY <1>1 DEF Known, appVars
<1>8. CASE c \in open /\ wire' = Push(wire, c, o, g) /\ failed' = failed
  <2>1. Pushed(wire', wire, c, o, g)
    BY <1>2, <1>3, <1>4, <1>8, Parts, PushEffect DEF Wired
  <2>2. \A d \in Conns, m \in Nodes : Wired(d, m)' = IF d = c /\ m = o THEN Wired(d, m) \cup {i} ELSE Wired(d, m)
    BY <1>4, <2>1 DEF Pushed, Wired
  <2>3. /\ \A d \in Conns, m \in Nodes : Wired(d, m) \ {i} \subseteq Wired(d, m)'
        /\ \A d \in Conns, m \in Nodes : d # c => Wired(d, m)' = Wired(d, m)
        /\ i \in Wired(c, o)'
    BY <1>3, <2>2
  <2> QED
    BY <1>2, <1>3, <1>5, <1>6, <1>7, <1>8, <2>3, SentHome
<1>9. CASE wire' = wire /\ failed' = failed \cup {i}
  <2>1. \A d \in Conns, m \in Nodes : Wired(d, m)' = Wired(d, m)
    BY <1>9 DEF Wired
  <2>2. Home(i)'
    BY <1>9 DEF Home
  <2>3. Served'
    BY <1>6, <1>7, StillServed DEF HomeInv
  <2>4. \A d \in Conns, m \in Nodes : Wired(d, m)' # {} => d \in open'
    BY <1>7, <2>1 DEF HomeInv, WiresOpen
  <2>5. \A d \in Conns, m \in Nodes : \A j \in Wired(d, m) \cup Busy(d, m) :
          j # i => j \in Wired(d, m)' \cup Busy(d, m)' \cup failed'
    BY <1>5, <2>1
  <2> QED
    BY <1>7, <1>9, <2>2, <2>3, <2>4, <2>5, HomeStep
<1> QED
  BY <1>1, <1>8, <1>9

\* What node_sync_response_handler puts into its channel is known.
LEMMA ForwardHome ==
  ASSUME IInv, HomeInv, NEW c \in Conns, NEW n \in Nodes, Forward(c, n)
  PROVE  HomeInv'
<1>0. PICK i : i = cur[c][n]
  OBVIOUS
<1>1. /\ replies[n] = {} /\ Goto(c, n, "read", 0) /\ replies' = [replies EXCEPT ![n] = {i}]
      /\ UNCHANGED <<wire, open, request, held, oneshot, events, sender, by, got, failed, made, faults>>
  BY <1>0 DEF Forward
<1>2. /\ i \in Known(n)' /\ \A m \in Nodes : Known(m) \subseteq Known(m)'
  <2>1. replies'[n] = {i} /\ \A m \in Nodes : replies[m] \subseteq replies'[m]
    BY <1>1 DEF IInv, TypeOK
  <2> QED
    BY <1>1, <2>1 DEF Known
<1>3. \A d \in Conns, m \in Nodes : Wired(d, m)' = Wired(d, m)
  BY <1>1 DEF Wired
<1>4. \A d \in Conns, m \in Nodes : Busy(d, m) \ {i} \subseteq Busy(d, m)'
  <2>1. \A d \in Conns, m \in Nodes : Busy(d, m)' = IF d = c /\ m = n THEN {} ELSE Busy(d, m)
    BY <1>1, LoopFree
  <2>2. Busy(c, n) \subseteq {i}
    BY <1>0 DEF Busy
  <2> QED
    BY <2>1, <2>2
<1>5. \A d \in Conns, m \in Nodes : (loop'[d][m] = loop[d][m] /\ cur'[d][m] = cur[d][m]) \/ loop'[d][m] # "await"
  BY <1>1 DEF Goto, IInv, TypeOK
<1>6. Served'
  BY <1>1, <1>5, StillServed DEF HomeInv
<1>7. Home(i)'
  BY <1>2 DEF Home
<1>8. \A d \in Conns, m \in Nodes : Wired(d, m)' # {} => d \in open'
  BY <1>1, <1>3 DEF HomeInv, WiresOpen
<1>9. \A d \in Conns, m \in Nodes : \A j \in Wired(d, m) \cup Busy(d, m) :
        j # i => j \in Wired(d, m)' \cup Busy(d, m)' \cup failed'
  BY <1>3, <1>4
<1> QED
  BY <1>1, <1>2, <1>6, <1>7, <1>8, <1>9, HomeStep

\* Steps that move no request and touch no connection.
LEMMA StayHome ==
  ASSUME IInv, HomeInv, UNCHANGED <<wire, open, by>>, failed \subseteq failed',
         \A m \in Nodes : Known(m) \subseteq Known(m)' \cup failed',
         \A d \in Conns, m \in Nodes : Busy(d, m) \subseteq Busy(d, m)' \cup failed',
         Served'
  PROVE  HomeInv'
<1>1. \A d \in Conns, m \in Nodes : Wired(d, m)' = Wired(d, m)
  BY DEF Wired
<1>2. PICK x : x = 0
  OBVIOUS
<1>3. x \notin Reqs
  BY <1>2, Parts
<1>4. \A d \in Conns, m \in Nodes : Wired(d, m)' # {} => d \in open'
  BY <1>1 DEF HomeInv, WiresOpen
<1>5. \A d \in Conns, m \in Nodes : \A j \in Wired(d, m) \cup Busy(d, m) :
        j # x => j \in Wired(d, m)' \cup Busy(d, m)' \cup failed'
  BY <1>1
<1> QED
  BY <1>3, <1>4, <1>5, HomeStep

\* The request that node_sync_handler waits for is in the channel.
LEMMA OfferHome ==
  ASSUME IInv, HomeInv, NEW c \in Conns, NEW n \in Nodes, Offer(c, n)
  PROVE  HomeInv'
<1>0. PICK i : i = cur[c][n]
  OBVIOUS
<1>1. /\ request[n] = {} /\ request' = [request EXCEPT ![n] = {i}]
      /\ loop' = [loop EXCEPT ![c][n] = "await"] /\ cur' = [cur EXCEPT ![c][n] = i]
      /\ UNCHANGED <<wire, open, held, oneshot, replies, events, sender, by, got, failed, made, faults>>
  BY <1>0 DEF Offer, Goto
<1>2. /\ loop \in [Conns -> [Nodes -> {"read", "offer", "await", "refuse", "forward"}]]
      /\ cur \in [Conns -> [Nodes -> 0 .. MaxRequests]] /\ request \in [Nodes -> SUBSET Reqs]
  BY DEF IInv, TypeOK
<1>3. /\ cur' = cur
      /\ \A d \in Conns, m \in Nodes : ~ (d = c /\ m = n) => loop'[d][m] = loop[d][m]
      /\ request'[n] = {i} /\ \A m \in Nodes : request[m] \subseteq request'[m]
  BY <1>0, <1>1, <1>2
<1>4. Served'
  <2> SUFFICES ASSUME NEW d \in Conns, NEW m \in Nodes, loop'[d][m] = "await", oneshot'[cur'[d][m]] = "empty"
               PROVE  cur'[d][m] \in request'[m] \cup held'[m]
    BY DEF Served
  <2>1. CASE d = c /\ m = n
    BY <1>0, <1>3, <2>1
  <2>2. CASE ~ (d = c /\ m = n)
    <3>1. loop[d][m] = "await" /\ oneshot[cur[d][m]] = "empty"
      BY <1>1, <1>3, <2>2
    <3>2. cur[d][m] \in request[m] \cup held[m]
      BY <3>1 DEF HomeInv, Served
    <3> QED
      BY <1>1, <1>3, <3>2
  <2> QED
    BY <2>1, <2>2
<1>5. /\ \A m \in Nodes : Known(m)' = Known(m)
      /\ \A d \in Conns, m \in Nodes : Busy(d, m)' = Busy(d, m)
  BY <1>1, <1>3 DEF Known, Busy
<1> QED
  BY <1>1, <1>4, <1>5, StayHome

\* The application takes or answers what a loop waits for, and receives what it
\* knows of.
LEMMA AppHome ==
  ASSUME IInv, HomeInv, NEW n \in Nodes,
         Register(n) \/ Take(n) \/ Answer(n) \/ Receive(n) \/ ReceiveEvent(n)
  PROVE  HomeInv'
<1>1. UNCHANGED <<wire, open, loop, cur, by, failed>>
  BY DEF Register, Take, Answer, Receive, ReceiveEvent
<1>2. \A d \in Conns, m \in Nodes : Busy(d, m)' = Busy(d, m)
  BY <1>1 DEF Busy
<1>3. /\ got \in [Nodes -> SUBSET Reqs] /\ replies \in [Nodes -> SUBSET Reqs] /\ events \in [Nodes -> SUBSET Reqs]
      /\ request \in [Nodes -> SUBSET Reqs] /\ held \in [Nodes -> SUBSET Reqs]
      /\ oneshot \in [Reqs -> {"empty", "data", "dropped"}]
  BY DEF IInv, TypeOK
<1>4. \A m \in Nodes : Known(m)' = Known(m)
  <2>1. CASE UNCHANGED <<got, replies, events>>
    BY <2>1 DEF Known
  <2>2. CASE Receive(n)
    BY <1>3, <2>2 DEF Receive, Known
  <2>3. CASE ReceiveEvent(n)
    <3>1. PICK i \in events[n] : /\ got' = [got EXCEPT ![n] = @ \cup {i}]
                                 /\ events' = [events EXCEPT ![n] = @ \ {i}]
      BY <2>3 DEF ReceiveEvent
    <3>2. UNCHANGED replies
      BY <2>3 DEF ReceiveEvent
    <3> QED
      BY <1>3, <3>1, <3>2 DEF Known
  <2> QED
    BY <2>1, <2>2, <2>3 DEF Register, Take, Answer
<1>5. Served'
  <2>1. CASE UNCHANGED <<request, held, oneshot>>
    BY <1>1, <2>1, StillServed DEF HomeInv
  <2>2. ASSUME oneshot' = oneshot, \A m \in Nodes : request'[m] \cup held'[m] = request[m] \cup held[m]
        PROVE  Served'
    BY <1>1, <2>2 DEF HomeInv, Served
  <2>3. CASE Take(n)
    <3>1. oneshot' = oneshot /\ \A m \in Nodes : request'[m] \cup held'[m] = request[m] \cup held[m]
      BY <1>3, <2>3 DEF Take
    <3> QED
      BY <2>2, <3>1
  <2>4. CASE Answer(n)
    <3>1. PICK i \in held[n], a \in {"data", "dropped"} :
            oneshot' = [oneshot EXCEPT ![i] = a] /\ held' = [held EXCEPT ![n] = @ \ {i}]
      BY <2>4 DEF Answer
    <3>2. request' = request /\ i \in Reqs
      BY <1>3, <2>4, <3>1 DEF Answer
    <3>3. /\ oneshot'[i] # "empty" /\ \A j \in Reqs : j # i => oneshot'[j] = oneshot[j]
          /\ \A m \in Nodes : held[m] \ {i} \subseteq held'[m]
      BY <1>3, <3>1, <3>2
    <3> SUFFICES ASSUME NEW d \in Conns, NEW m \in Nodes, NEW j, j = cur[d][m],
                        loop[d][m] = "await", oneshot'[j] = "empty"
                 PROVE  j \in request'[m] \cup held'[m]
      BY <1>1 DEF Served
    <3>4. j \in Reqs
      BY LoopDone
    <3>5. j # i /\ oneshot[j] = "empty"
      BY <3>3, <3>4
    <3>6. j \in request[m] \cup held[m]
      BY <3>5 DEF HomeInv, Served
    <3> QED
      BY <3>2, <3>3, <3>5, <3>6
  <2> QED
    BY <2>1, <2>3, <2>4 DEF Register, Receive, ReceiveEvent
<1> QED
  BY <1>1, <1>2, <1>4, <1>5, StayHome

\* A closed channel drops its requests and fails what waited in it.
LEMMA CloseHome ==
  ASSUME IInv, HomeInv, NEW n \in Nodes, NEW ch \in Channels, Close(n, ch)
  PROVE  HomeInv'
<1>1. \A c \in Conns, m \in Nodes :
        \/ loop'[c][m] = loop[c][m] /\ cur'[c][m] = cur[c][m]
        \/ loop'[c][m] # "await" /\ cur'[c][m] = cur[c][m]
        \/ /\ ch = "response" /\ m = n /\ loop[c][m] = "forward"
           /\ loop'[c][m] # "await" /\ cur'[c][m] = 0
  BY CloseLoops
<1>2. UNCHANGED <<wire, open, held, by, got>>
  BY DEF Close
<1>3. CASE ch = "request"
  <2>1. /\ oneshot' = [i \in Reqs |-> IF i \in request[n] THEN "dropped" ELSE oneshot[i]]
        /\ request' = [request EXCEPT ![n] = {}]
        /\ UNCHANGED <<replies, events, failed>>
    BY <1>3 DEF Close
  <2>2. \A m \in Nodes : request'[m] = IF m = n THEN {} ELSE request[m]
    BY <2>1 DEF IInv, TypeOK
  <2>3. Served'
    <3> SUFFICES ASSUME NEW d \in Conns, NEW m \in Nodes, NEW j, j = cur'[d][m],
                        loop'[d][m] = "await", oneshot'[j] = "empty"
                 PROVE  j \in request'[m] \cup held'[m]
      BY DEF Served
    <3>1. loop[d][m] = "await" /\ j = cur[d][m]
      BY <1>1
    <3>2. j \in Reqs
      BY <3>1, LoopDone
    <3>3. j \notin request[n] /\ oneshot[j] = "empty"
      BY <2>1, <3>2
    <3>4. j \in request[m] \cup held[m]
      BY <3>1, <3>3 DEF HomeInv, Served
    <3> QED
      BY <1>2, <2>2, <3>3, <3>4
  <2>4. /\ \A m \in Nodes : Known(m)' = Known(m)
        /\ \A d \in Conns, m \in Nodes : Busy(d, m)' = Busy(d, m)
    BY <1>1, <1>2, <1>3, <2>1 DEF Known, Busy
  <2> QED
    BY <1>2, <2>1, <2>3, <2>4, StayHome
<1>4. CASE ch = "response"
  <2> DEFINE dropped == {c \in Conns : loop[c][n] = "forward"}
  <2>1. /\ failed' = failed \cup replies[n] \cup {cur[c][n] : c \in dropped}
        /\ replies' = [replies EXCEPT ![n] = {}]
        /\ UNCHANGED <<request, oneshot, events>>
    BY <1>4 DEF Close
  <2>2. failed \subseteq failed' /\ replies[n] \subseteq failed' /\ \A c \in dropped : cur[c][n] \in failed'
    BY <2>1
  <2>3. \A m \in Nodes : Known(m) \subseteq Known(m)' \cup failed'
    <3>1. \A m \in Nodes : m # n => replies'[m] = replies[m]
      BY <2>1 DEF IInv, TypeOK
    <3> QED
      BY <1>2, <2>1, <2>2, <3>1 DEF Known
  <2>4. \A d \in Conns, m \in Nodes : Busy(d, m) \subseteq Busy(d, m)' \cup failed'
    <3> SUFFICES ASSUME NEW d \in Conns, NEW m \in Nodes, cur'[d][m] # cur[d][m]
                 PROVE  cur[d][m] \in failed'
      BY DEF Busy
    <3>1. m = n /\ d \in dropped
      BY <1>1
    <3> QED
      BY <2>2, <3>1
  <2>5. Served'
    BY <1>1, <1>2, <2>1, StillServed DEF HomeInv
  <2> QED
    BY <1>2, <2>2, <2>3, <2>4, <2>5, StayHome
<1>5. CASE ch = "event"
  <2>1. /\ failed' = failed \cup events[n]
        /\ events' = [events EXCEPT ![n] = {}]
        /\ UNCHANGED <<request, oneshot, replies>>
    BY <1>5 DEF Close
  <2>2. \A m \in Nodes : Known(m) \subseteq Known(m)' \cup failed'
    <3>1. \A m \in Nodes : m # n => events'[m] = events[m]
      BY <2>1 DEF IInv, TypeOK
    <3> QED
      BY <1>2, <2>1, <3>1 DEF Known
  <2>3. \A d \in Conns, m \in Nodes : Busy(d, m)' = Busy(d, m)
    BY <1>1, <1>5 DEF Busy
  <2>4. Served'
    BY <1>1, <1>2, <2>1, StillServed DEF HomeInv
  <2> QED
    BY <1>2, <2>1, <2>2, <2>3, <2>4, StayHome
<1> QED
  BY <1>3, <1>4, <1>5 DEF Channels

\* A lost connection fails its frames, and the requests of aborted loops.
LEMMA LoseHome ==
  ASSUME IInv, HomeInv, NEW c \in Conns, Lose(c)
  PROVE  HomeInv'
<1>1. PICK aborted \in SUBSET Ends[c] :
        /\ open' = open \ {c}
        /\ failed' = failed \cup (UNION {{wire[c][n][k].id : k \in DOMAIN wire[c][n]} : n \in Nodes})
                            \cup ({cur[c][n] : n \in aborted} \ {0})
        /\ wire' = [wire EXCEPT ![c] = [n \in Nodes |-> <<>>]]
        /\ loop' = [loop EXCEPT ![c] = [n \in Nodes |-> IF n \in aborted THEN "read" ELSE @[n]]]
        /\ cur' = [cur EXCEPT ![c] = [n \in Nodes |-> IF n \in aborted THEN 0 ELSE @[n]]]
        /\ UNCHANGED <<appVars, by, got, made>>
  BY DEF Lose
<1>2. /\ loop \in [Conns -> [Nodes -> {"read", "offer", "await", "refuse", "forward"}]]
      /\ cur \in [Conns -> [Nodes -> 0 .. MaxRequests]] /\ wire \in Wires
  BY DEF IInv, TypeOK, Wires
<1>3. \A d \in Conns, m \in Nodes : wire'[d][m] = IF d = c THEN <<>> ELSE wire[d][m]
  BY <1>1, <1>2 DEF Wires
<1>4. \A d \in Conns, m \in Nodes :
        /\ loop'[d][m] = IF d = c /\ m \in aborted THEN "read" ELSE loop[d][m]
        /\ cur'[d][m] = IF d = c /\ m \in aborted THEN 0 ELSE cur[d][m]
  BY <1>1, <1>2
<1>5. \A d \in Conns, m \in Nodes : Wired(d, m)' = IF d = c THEN {} ELSE Wired(d, m)
  BY <1>3, NoFrames DEF Wired
<1>6. /\ failed \subseteq failed'
      /\ \A m \in Nodes : Wired(c, m) \subseteq failed'
      /\ \A m \in aborted : Busy(c, m) \subseteq failed'
  <2> DEFINE A == UNION {Wired(c, n) : n \in Nodes}
             B == {cur[c][n] : n \in aborted} \ {0}
  <2>1. failed' = failed \cup A \cup B
    BY <1>1 DEF Wired, Ids
  <2>2. \A m \in Nodes : Wired(c, m) \subseteq A
    OBVIOUS
  <2>3. \A m \in aborted : Busy(c, m) \subseteq B
    BY DEF Busy
  <2> HIDE DEF A, B
  <2> QED
    BY <2>1, <2>2, <2>3
<1>7. \A d \in Conns, m \in Nodes : Busy(d, m) \subseteq Busy(d, m)' \cup failed'
  <2>1. \A d \in Conns, m \in Nodes : ~ (d = c /\ m \in aborted) => Busy(d, m)' = Busy(d, m)
    BY <1>4 DEF Busy
  <2> QED
    BY <1>6, <2>1
<1>8. \A m \in Nodes : Known(m)' = Known(m)
  BY <1>1 DEF Known, appVars
<1>9. Served'
  BY <1>1, <1>4, StillServed DEF HomeInv, appVars
<1>10. \A d \in Conns, m \in Nodes : Wired(d, m)' # {} => d \in open'
  BY <1>1, <1>5 DEF HomeInv, WiresOpen
<1>11. PICK x : x = 0
  OBVIOUS
<1>12. x \notin Reqs
  BY <1>11, Parts
<1>13. \A d \in Conns, m \in Nodes : \A j \in Wired(d, m) \cup Busy(d, m) :
         j # x => j \in Wired(d, m)' \cup Busy(d, m)' \cup failed'
  BY <1>5, <1>6, <1>7
<1>14. by' = by
  BY <1>1
<1> QED
  BY <1>6, <1>8, <1>9, <1>10, <1>12, <1>13, <1>14, HomeStep

LEMMA HomeHolds == IInv /\ HomeInv /\ [Next]_vars => HomeInv'
<1> SUFFICES ASSUME IInv, HomeInv, [Next]_vars PROVE HomeInv'
  OBVIOUS
<1>1. ASSUME NEW c \in Conns, NEW n \in Nodes, Loops(c, n) PROVE HomeInv'
  BY <1>1, ReadsHome, OfferHome, ReplyHome, ValidateHome, ForwardHome DEF Loops
<1>2. ASSUME NEW c \in Conns, NEW n \in Nodes, NEW t \in {"sync", "validate"}, Ask(c, n, t) PROVE HomeInv'
  BY <1>2, AskHome
<1>3. ASSUME NEW n \in Nodes, NEW ch \in Channels, Close(n, ch) PROVE HomeInv'
  BY <1>3, CloseHome
<1>4. ASSUME NEW n \in Nodes, Register(n) \/ Take(n) \/ Answer(n) \/ Receive(n) \/ ReceiveEvent(n) PROVE HomeInv'
  BY <1>4, AppHome
<1>5. ASSUME NEW c \in Conns, Lose(c) PROVE HomeInv'
  BY <1>5, LoseHome
<1>6. CASE UNCHANGED vars
  BY <1>6 DEF HomeInv, Homed, Home, WiresOpen, Served, Known, Wired, Busy, vars, appVars
<1> QED
  BY <1>1, <1>2, <1>3, <1>4, <1>5, <1>6 DEF Next

\* No request of request_node_sync or send_validate_request is forgotten: it
\* failed, its asker's application can know of it, or an open connection or a
\* router loop has it; and a loop of node_sync_handler that waits for a oneshot,
\* without a timeout, waits for what its application can still answer or drop.
THEOREM NothingForgotten == Spec => []NoneForgotten
<1>1. Init => HomeInv
  <2> SUFFICES ASSUME Init PROVE HomeInv
    OBVIOUS
  <2>1. \A c \in Conns, n \in Nodes : Wired(c, n) = {}
    BY NoFrames DEF Init, Wired
  <2> QED
    BY <2>1 DEF Init, HomeInv, Homed, WiresOpen, Served
<1>2. IInv /\ HomeInv => NoneForgotten
  <2> SUFFICES ASSUME IInv, HomeInv PROVE NoneForgotten
    OBVIOUS
  <2>1. ASSUME NEW i \in Reqs, by[i] # {}
        PROVE  \/ i \in failed
               \/ \E n \in Nodes : i \in got[n] \cup replies[n] \cup events[n]
               \/ \E c \in open : \E n \in Ends[c] : \E k \in DOMAIN wire[c][n] : wire[c][n][k].id = i
               \/ \E c \in Conns : \E n \in Ends[c] : loop[c][n] # "read" /\ cur[c][n] = i
    <3>1. Home(i)
      BY <2>1 DEF HomeInv, Homed
    <3>2. ASSUME NEW c \in Conns, NEW n \in Nodes, i \in Wired(c, n)
          PROVE  \E d \in open : \E m \in Ends[d] : \E k \in DOMAIN wire[d][m] : wire[d][m][k].id = i
      <4>1. PICK k \in DOMAIN wire[c][n] : wire[c][n][k].id = i
        BY <3>2 DEF Wired, Ids
      <4>2. n \in Ends[c]
        BY Parts DEF FrameOK
      <4>3. c \in open
        BY <3>2 DEF HomeInv, WiresOpen
      <4> QED
        BY <4>1, <4>2, <4>3
    <3>3. ASSUME NEW c \in Conns, NEW n \in Nodes, i \in Busy(c, n)
          PROVE  n \in Ends[c] /\ loop[c][n] # "read" /\ cur[c][n] = i
      <4>1. cur[c][n] = i /\ i # 0
        BY <3>3 DEF Busy
      <4>2. StageOK(c, n)
        BY Parts
      <4> QED
        BY <4>1, <4>2 DEF StageOK
    <3> QED
      BY <3>1, <3>2, <3>3 DEF Home, Known
  <2> QED
    BY <2>1 DEF HomeInv, Served, NoneForgotten
<1> QED
  BY <1>1, <1>2, InitHolds, NextHolds, HomeHolds, PTL DEF Spec
=============================================================================
