-------------------------- MODULE UserStoreProofs --------------------------
(***************************************************************************)
(* Type correctness, the safety of stored messages, that the profile cache *)
(* is current, that an avatar is kept, that only messages a view listed or *)
(* missed are marked as read, that nobody waits for a task that waits, and *)
(* that calls only go forward, for any number of tasks and calls.          *)
(***************************************************************************)
EXTENDS UserStore, TLAPS

\* The lock belongs to the task that rewrites or lists files.
LockInv == \A p \in Procs : at[p] \in {"write", "writing", "listing"} => lock = p

\* Which file a call rewrites.
FileAt(p) ==
  /\ op[p] \in Edits => file[p] = "chat"
  /\ op[p] \in ProfileCalls /\ at[p] \in {"lock", "write", "writing"} => file[p] \in {"profile", "image"}
  /\ at[p] \in {"write", "writing"} => op[p] \in Edits \cup ProfileCalls
  /\ op[p] = "save" => file[p] = "profile"
  /\ op[p] = "upload" => file[p] \in {"profile", "image"}
  /\ op[p] = None => at[p] = "idle"
  /\ op[p] # None => num[p] # 0
  /\ at[p] = "get" => op[p] = "view"
FileInv == \A p \in Procs : FileAt(p)

\* What was stored is in the file or in the list that is about to replace it.
ListInv ==
  /\ IdsAscend(chat)
  /\ \A p \in Procs : IdsAscend(list[p])
  /\ "chat" \notin torn =>
       /\ ChatAtRest => \A s \in stored : Holds(chat, s)
       /\ \A p \in Procs : at[p] \in {"write", "writing"} /\ file[p] = "chat" =>
            \A s \in stored : Holds(list[p], s)

KeepInv == TypeOK /\ LockInv /\ FileInv /\ ListInv

\* mark_as_read and update_last_sent_status change neither tokens nor ids, and
\* add_message appends one message with a larger id.
LEMMA EditKeeps ==
  ASSUME NEW msgs \in Seq(Messages), IdsAscend(msgs), NEW o \in Edits, NEW tok \in 1 .. MaxCalls
  PROVE  /\ Edited(msgs, o, tok) \in Seq(Messages)
         /\ IdsAscend(Edited(msgs, o, tok))
         /\ \A s : Holds(msgs, s) => Holds(Edited(msgs, o, tok), s)
<1> DEFINE new == Edited(msgs, o, tok)
<1>0. /\ Len(msgs) \in Nat /\ DOMAIN msgs = 1 .. Len(msgs)
      /\ \A i \in DOMAIN msgs : msgs[i] \in Messages
  OBVIOUS
<1>1. CASE o \in {"delivered", "view"}
  <2>1. /\ new = [i \in DOMAIN msgs |-> new[i]] /\ DOMAIN new = DOMAIN msgs
        /\ \A i \in DOMAIN msgs : new[i] \in Messages /\ new[i].tok = msgs[i].tok /\ new[i].id = msgs[i].id
    BY <1>0, <1>1 DEF Edited, Delivered, MarkedRead, Messages
  <2>2. new \in Seq(Messages)
    <3>1. new \in [1 .. Len(msgs) -> Messages]
      BY <1>0, <2>1
    <3> QED BY <1>0, <3>1
  <2>3. IdsAscend(new)
    BY <2>1 DEF IdsAscend
  <2>4. \A s : Holds(msgs, s) => Holds(new, s)
    BY <2>1 DEF Holds
  <2> QED BY <2>2, <2>3, <2>4
<1>2. CASE o \in {"sent", "received"}
  <2> DEFINE m == [tok |-> tok, id |-> NextId(msgs), out |-> o = "sent", status |-> o]
  <2>1. NextId(msgs) \in Nat \ {0} /\ \A i \in DOMAIN msgs : msgs[i].id < NextId(msgs)
    <3>1. CASE msgs = <<>>
      BY <3>1 DEF NextId
    <3>2. CASE msgs # <<>>
      <4>1. Len(msgs) \in DOMAIN msgs
        BY <1>0, <3>2
      <4>2. \A i \in DOMAIN msgs : msgs[i].id \in Nat \ {0} /\ msgs[i].id <= msgs[Len(msgs)].id
        <5> SUFFICES ASSUME NEW i \in DOMAIN msgs
                     PROVE  msgs[i].id \in Nat \ {0} /\ msgs[i].id <= msgs[Len(msgs)].id
          OBVIOUS
        <5>1. msgs[i].id \in Nat \ {0} /\ msgs[Len(msgs)].id \in Nat \ {0}
          BY <1>0, <4>1, Zenon DEF Messages
        <5>2. CASE i = Len(msgs)
          BY <5>1, <5>2
        <5>3. CASE i # Len(msgs)
          <6>1. i < Len(msgs)
            BY <1>0, <5>3
          <6>2. msgs[i].id < msgs[Len(msgs)].id
            BY <4>1, <6>1, Zenon DEF IdsAscend
          <6> QED BY <5>1, <6>2
        <5> QED BY <5>2, <5>3
      <4> QED BY <3>2, <4>1, <4>2 DEF NextId
    <3> QED BY <3>1, <3>2
  <2>2. m \in Messages
    BY <1>2, <2>1 DEF Messages
  <2>3. new = Append(msgs, m)
    BY <1>2 DEF Edited, Added
  <2> HIDE DEF m, new
  <2>4. /\ new \in Seq(Messages) /\ DOMAIN new = 1 .. Len(msgs) + 1
        /\ \A i \in DOMAIN msgs : new[i] = msgs[i]
        /\ new[Len(msgs) + 1] = m
    BY <1>0, <2>2, <2>3
  <2>5. m.id = NextId(msgs)
    BY DEF m
  <2>6. IdsAscend(new)
    <3> SUFFICES ASSUME NEW i \in DOMAIN new, NEW j \in DOMAIN new, i < j
                 PROVE  new[i].id < new[j].id
      BY DEF IdsAscend
    <3>1. i \in DOMAIN msgs /\ new[i] = msgs[i]
      BY <1>0, <2>4
    <3>2. CASE j \in DOMAIN msgs
      BY <2>4, <3>1, <3>2 DEF IdsAscend
    <3>3. CASE j = Len(msgs) + 1
      BY <2>1, <2>4, <2>5, <3>1, <3>3
    <3> QED BY <1>0, <2>4, <3>2, <3>3
  <2>7. \A s : Holds(msgs, s) => Holds(new, s)
    BY <1>0, <2>4 DEF Holds
  <2> QED BY <2>4, <2>6, <2>7 DEF new
<1> QED BY <1>1, <1>2 DEF Edits

-----------------------------------------------------------------------------
(* Every action keeps the invariant.                                       *)

\* The values local variables start with have their types.
LEMMA Defaults == 0 \in 0 .. MaxCalls /\ DefaultProfile \in Profiles /\ <<>> \in Seq(Messages)
<1>1. MaxCalls \in Nat => 0 \in 0 .. MaxCalls
  OBVIOUS
<1>2. DefaultProfile \in Profiles
  BY StoreAssumption DEF Profiles, DefaultProfile
<1>3. <<>> \in Seq(Messages)
  OBVIOUS
<1> QED BY <1>1, <1>2, <1>3, StoreAssumption

\* Giving up the local state of one task keeps the types of all of it.
LEMMA EndTypes ==
  ASSUME LocalOK, NEW p \in Procs, End(p)
  PROVE  LocalOK'
<1>1. op' \in [Procs -> Calls \cup {None}] /\ at' \in [Procs -> Places]
  BY DEF LocalOK, End, Go, Places
<1>2. num' \in [Procs -> 0 .. MaxCalls]
  BY Defaults, Zenon DEF LocalOK, End
<1>3. file' \in [Procs -> {"chat", "profile", "image", None}]
  BY DEF LocalOK, End
<1>4. list' \in [Procs -> Seq(Messages)]
  BY Defaults DEF LocalOK, End
<1>5. prof' \in [Procs -> Profiles] /\ found' \in [Procs -> Profiles]
  BY Defaults DEF LocalOK, End
<1> QED BY <1>1, <1>2, <1>3, <1>4, <1>5 DEF LocalOK

\* A task that ends no longer rewrites anything; the others are as before.
LEMMA EndFrame ==
  ASSUME LocalOK, NEW p \in Procs, End(p)
  PROVE  /\ at'[p] = "idle" /\ op'[p] = None /\ list'[p] = <<>> /\ file'[p] = None
         /\ \A q \in Procs \ {p} : /\ at'[q] = at[q] /\ op'[q] = op[q] /\ num'[q] = num[q]
                                   /\ list'[q] = list[q] /\ file'[q] = file[q]
BY DEF LocalOK, End, Go

\* The other tasks are left alone.
Others(p) ==
  \A q \in Procs \ {p} : /\ at'[q] = at[q] /\ op'[q] = op[q] /\ num'[q] = num[q]
                         /\ file'[q] = file[q] /\ list'[q] = list[q]

\* A step of p that does not touch the messages keeps the invariant if p's own
\* part of it holds afterwards.
LEMMA StepFrame ==
  ASSUME KeepInv, TypeOK', NEW p \in Procs, Others(p),
         chat' = chat, stored' = stored, torn \subseteq torn',
         lock' = lock \/ lock = p \/ (lock = None /\ lock' = p),
         at'[p] \in {"write", "writing", "listing"} => lock' = p,
         FileAt(p)', IdsAscend(list'[p]),
         "chat" \notin torn' /\ at'[p] \in {"write", "writing"} /\ file'[p] = "chat" =>
           \A s \in stored : Holds(list'[p], s),
         "chat" \notin torn' /\ at[p] = "writing" /\ file[p] = "chat" =>
           at'[p] = "writing" /\ file'[p] = "chat"
  PROVE  KeepInv'
<1>1. LockInv'
  <2> SUFFICES ASSUME NEW q \in Procs, at'[q] \in {"write", "writing", "listing"}
               PROVE  lock' = q
    BY DEF LockInv
  <2>1. CASE q = p
    BY <2>1
  <2>2. CASE q # p
    <3>1. lock = q
      BY <2>2 DEF Others, KeepInv, LockInv
    <3> QED BY <2>2, <3>1, StoreAssumption
  <2> QED BY <2>1, <2>2
<1>2. FileInv'
  <2> SUFFICES ASSUME NEW q \in Procs PROVE FileAt(q)'
    BY DEF FileInv
  <2>1. CASE q = p
    BY <2>1
  <2>2. CASE q # p
    BY <2>2 DEF KeepInv, FileInv, FileAt, Others
  <2> QED BY <2>1, <2>2
<1>3. ListInv'
  <2>1. IdsAscend(chat)'
    BY DEF KeepInv, ListInv, IdsAscend
  <2>2. ASSUME NEW q \in Procs PROVE IdsAscend(list[q])'
    <3>1. CASE q = p
      BY <3>1 DEF IdsAscend
    <3>2. CASE q # p
      BY <3>2 DEF KeepInv, ListInv, IdsAscend, Others
    <3> QED BY <3>1, <3>2
  <2>3. ASSUME "chat" \notin torn', ChatAtRest' PROVE \A s \in stored' : Holds(chat', s)
    <3>1. ChatAtRest
      BY <2>3 DEF ChatAtRest, Others
    <3> QED BY <2>3, <3>1 DEF KeepInv, ListInv
  <2>4. ASSUME "chat" \notin torn', NEW q \in Procs, at'[q] \in {"write", "writing"}, file'[q] = "chat"
        PROVE  \A s \in stored' : Holds(list'[q], s)
    <3>1. CASE q = p
      BY <2>4, <3>1
    <3>2. CASE q # p
      BY <2>4, <3>2 DEF KeepInv, ListInv, Others
    <3> QED BY <3>1, <3>2
  <2> QED BY <2>1, <2>2, <2>3, <2>4 DEF ListInv, Holds
<1> QED BY <1>1, <1>2, <1>3 DEF KeepInv

\* The ids of no messages ascend.
LEMMA EmptyAscends == IdsAscend(<<>>)
BY DEF IdsAscend

\* The store starts without files, calls or a lock.
LEMMA InitKeep == Init => KeepInv
<1> SUFFICES ASSUME Init PROVE KeepInv
  OBVIOUS
<1>1. TypeOK
  <2>1. FilesOK
    BY Defaults DEF Init, FilesOK, FileStates
  <2>2. LocalOK
    BY Defaults DEF Init, LocalOK, Places
  <2>3. HistoryOK
    BY Defaults DEF Init, HistoryOK
  <2> QED BY <2>1, <2>2, <2>3 DEF TypeOK
<1>2. LockInv /\ FileInv
  BY DEF Init, LockInv, FileInv, FileAt, Edits, ProfileCalls, None
<1>3. ListInv
  BY EmptyAscends DEF Init, ListInv
<1> QED BY <1>1, <1>2, <1>3 DEF KeepInv

\* A task that ends keeps the invariant, unless it leaves chat.json cut.
LEMMA EndKeeps ==
  ASSUME KeepInv, TypeOK', NEW p \in Procs, End(p),
         chat' = chat, stored' = stored, torn \subseteq torn', lock' = lock \/ lock = p,
         "chat" \notin torn' => ~ (at[p] = "writing" /\ file[p] = "chat")
  PROVE  KeepInv'
<1>1. LocalOK
  BY DEF KeepInv, TypeOK
<1>2. Others(p) /\ at'[p] = "idle" /\ op'[p] = None /\ list'[p] = <<>>
  BY <1>1, EndFrame DEF Others
<1>3. FileAt(p)'
  BY <1>2 DEF FileAt, Edits, ProfileCalls, None
<1>4. IdsAscend(list'[p])
  BY <1>2, EmptyAscends
<1> QED BY <1>2, <1>3, <1>4, StepFrame

\* A call starts without the lock and without messages to write.
LEMMA CallKeeps ==
  ASSUME KeepInv, NEW p \in Procs, NEW o \in Calls, NEW new \in Profiles, Call(p, o, new)
  PROVE  KeepInv'
<1>1. TypeOK'
  <2>1. FilesOK'
    BY DEF KeepInv, TypeOK, FilesOK, Call, fileVars
  <2>0. calls + 1 \in 0 .. MaxCalls
    <3>1. calls \in 0 .. MaxCalls /\ calls < MaxCalls
      BY Zenon DEF KeepInv, TypeOK, HistoryOK, Call
    <3>2. MaxCalls \in Nat
      BY StoreAssumption
    <3> QED BY <3>1, <3>2
  <2>2. LocalOK'
    <3>1. op' \in [Procs -> Calls \cup {None}]
      BY DEF KeepInv, TypeOK, LocalOK, Call
    <3>2. at' \in [Procs -> Places]
      BY DEF KeepInv, TypeOK, LocalOK, Call, Entry, Places
    <3>3. num' \in [Procs -> 0 .. MaxCalls]
      BY <2>0, Zenon DEF KeepInv, TypeOK, LocalOK, Call
    <3>4. file' \in [Procs -> {"chat", "profile", "image", None}]
      BY DEF KeepInv, TypeOK, LocalOK, Call, FirstFile
    <3>5. list' \in [Procs -> Seq(Messages)] /\ found' \in [Procs -> Profiles]
      BY Zenon DEF KeepInv, TypeOK, LocalOK, Call
    <3>6. prof' \in [Procs -> Profiles]
      BY DEF KeepInv, TypeOK, LocalOK, Call
    <3> QED BY <3>1, <3>2, <3>3, <3>4, <3>5, <3>6 DEF LocalOK
  <2>3. HistoryOK'
    BY <2>0, Zenon DEF KeepInv, TypeOK, HistoryOK, Call, history
  <2> QED BY <2>1, <2>2, <2>3 DEF TypeOK
<1>2. Others(p) /\ at'[p] \in {"lock", "get", "load"} /\ list'[p] = list[p] /\ op'[p] = o
  BY DEF KeepInv, TypeOK, LocalOK, Call, Others, Entry
<1>3. FileAt(p)'
  <2>1. num'[p] = calls + 1 /\ calls + 1 # 0
    <3>1. calls \in 0 .. MaxCalls
      BY Zenon DEF KeepInv, TypeOK, HistoryOK
    <3>2. num'[p] = calls + 1
      BY DEF KeepInv, TypeOK, LocalOK, Call
    <3> QED BY <3>1, <3>2
  <2> QED BY <1>2, <2>1 DEF KeepInv, TypeOK, LocalOK, Call, FileAt, FirstFile, Entry, Calls, Edits, ProfileCalls, None
<1>4. chat' = chat /\ stored' = stored /\ torn' = torn /\ lock' = lock /\ at[p] = "idle"
  BY DEF Call, fileVars, history
<1>5. IdsAscend(list'[p])
  BY <1>2 DEF KeepInv, ListInv
<1> QED BY <1>1, <1>2, <1>3, <1>4, <1>5, StepFrame

\* The messages of a list were made by calls.
LEMMA ToksType == \A msgs \in Seq(Messages) : Toks(msgs) \subseteq 1 .. MaxCalls
<1> SUFFICES ASSUME NEW msgs \in Seq(Messages), NEW i \in DOMAIN msgs
             PROVE  msgs[i].tok \in 1 .. MaxCalls
  BY DEF Toks
<1>1. msgs[i] \in Messages
  OBVIOUS
<1> QED BY <1>1 DEF Messages

\* Moving on to another place of a call keeps the types.
LEMMA GoTypes ==
  ASSUME LocalOK, NEW p \in Procs, NEW s \in Places, Go(p, s), UNCHANGED <<op, num, file, list, prof, found>>
  PROVE  LocalOK' /\ at'[p] = s /\ Others(p)
<1>1. at' \in [Procs -> Places] /\ at'[p] = s
  BY DEF LocalOK, Go
<1>2. Others(p)
  BY DEF LocalOK, Go, Others
<1> QED BY <1>1, <1>2, Zenon DEF LocalOK

\* get_messages changes no file.
LEMMA GetKeeps ==
  ASSUME KeepInv, NEW p \in Procs, Get(p)
  PROVE  KeepInv'
<1>1. LocalOK' /\ at'[p] = "lock" /\ Others(p)
  BY GoTypes DEF KeepInv, TypeOK, Get, Places
<1>2. FilesOK' /\ chat' = chat /\ stored' = stored /\ torn' = torn /\ lock' = lock
  BY Zenon DEF KeepInv, TypeOK, FilesOK, Get, fileVars
<1>3. shown' \subseteq 1 .. MaxCalls /\ missed' \subseteq 1 .. MaxCalls
  <2>1. Toks(chat) \subseteq 1 .. MaxCalls /\ \A q \in Procs : Toks(list[q]) \subseteq 1 .. MaxCalls
    BY ToksType, Zenon DEF KeepInv, TypeOK, FilesOK, LocalOK
  <2>2. shown \subseteq 1 .. MaxCalls /\ missed \subseteq 1 .. MaxCalls
    BY Zenon DEF KeepInv, TypeOK, HistoryOK
  <2> QED BY <2>1, <2>2, Zenon DEF Get, Rewriting
<1>4. HistoryOK'
  BY <1>3, Zenon DEF KeepInv, TypeOK, HistoryOK, Get
<1>5. FileAt(p)' /\ list'[p] = list[p]
  BY <1>1 DEF KeepInv, FileInv, FileAt, Get, Edits, ProfileCalls, None
<1>6. IdsAscend(list'[p])
  BY <1>5 DEF KeepInv, ListInv
<1>7. at[p] = "get"
  BY DEF Get
<1> QED BY <1>1, <1>2, <1>4, <1>5, <1>6, <1>7, StepFrame DEF TypeOK

\* Whoever takes the lock finds chat.json at rest, and edits what is in it.
LEMMA LockKeeps ==
  ASSUME KeepInv, NEW p \in Procs, Lock(p)
  PROVE  KeepInv'
<1>1. /\ at[p] = "lock" /\ lock = None
      /\ UNCHANGED <<disk, chat, onDisk, cache, calls, faults, torn, stored, shown, missed, raced, blind, uploaded>>
  BY DEF Lock, fileVars, history
<1>2. HistoryOK'
  BY <1>1, Zenon DEF KeepInv, TypeOK, HistoryOK
<1>3. lock' \in Procs \cup {None} => FilesOK'
  BY <1>1, Zenon DEF KeepInv, TypeOK, FilesOK
<1>4. LocalOK
  BY DEF KeepInv, TypeOK
<1>5. CASE op[p] = "list" /\ lock' = p /\ Go(p, "listing") /\ UNCHANGED <<op, num, file, list, prof, found>>
  <2>1. LocalOK' /\ at'[p] = "listing" /\ Others(p)
    BY <1>4, <1>5, GoTypes DEF Places
  <2>2. FileAt(p)' /\ list'[p] = list[p]
    BY <1>5, <2>1 DEF KeepInv, FileInv, FileAt, Edits, ProfileCalls, None
  <2>3. IdsAscend(list'[p])
    BY <2>2 DEF KeepInv, ListInv
  <2> QED BY <1>1, <1>2, <1>3, <1>5, <2>1, <2>2, <2>3, StepFrame DEF TypeOK
<1>6. CASE End(p) /\ lock' = lock
  <2>1. LocalOK'
    BY <1>4, <1>6, EndTypes
  <2>2. TypeOK'
    BY <1>1, <1>2, <1>3, <1>6, <2>1 DEF TypeOK
  <2> QED BY <1>1, <1>6, <2>2, EndKeeps
<1>7. CASE /\ op[p] \in Edits /\ lock' = p
           /\ list' = [list EXCEPT ![p] = Edited(chat, op[p], num[p])]
           /\ Go(p, "write") /\ UNCHANGED <<op, num, file, prof, found>>
  <2>0. num[p] \in 1 .. MaxCalls
    BY <1>4, <1>7 DEF KeepInv, FileInv, FileAt, LocalOK, Edits, None
  <2>1. /\ Edited(chat, op[p], num[p]) \in Seq(Messages)
        /\ IdsAscend(Edited(chat, op[p], num[p]))
        /\ \A s : Holds(chat, s) => Holds(Edited(chat, op[p], num[p]), s)
    BY <1>7, <2>0, EditKeeps DEF KeepInv, TypeOK, FilesOK, ListInv
  <2>2. /\ list' \in [Procs -> Seq(Messages)] /\ list'[p] = Edited(chat, op[p], num[p])
        /\ at' \in [Procs -> Places] /\ at'[p] = "write"
        /\ Others(p)
    BY <1>4, <1>7, <2>1 DEF LocalOK, Go, Places, Others
  <2>3. LocalOK'
    BY <1>4, <1>7, <2>2, Zenon DEF LocalOK
  <2>4. FileAt(p)'
    BY <1>1, <1>7, <2>2 DEF KeepInv, FileInv, FileAt, Edits, ProfileCalls, None
  <2>5. ChatAtRest
    BY <1>1, StoreAssumption DEF KeepInv, LockInv, ChatAtRest
  <2>6. "chat" \notin torn' => \A s \in stored : Holds(list'[p], s)
    BY <1>1, <2>1, <2>2, <2>5 DEF KeepInv, ListInv
  <2> QED BY <1>1, <1>2, <1>3, <1>7, <2>1, <2>2, <2>3, <2>4, <2>6, StepFrame DEF TypeOK
<1>8. CASE op[p] \in ProfileCalls /\ lock' = p /\ Go(p, "write") /\ UNCHANGED <<op, num, file, list, prof, found>>
  <2>1. LocalOK' /\ at'[p] = "write" /\ Others(p)
    BY <1>4, <1>8, GoTypes DEF Places
  <2>2. FileAt(p)' /\ list'[p] = list[p] /\ file'[p] # "chat"
    BY <1>1, <1>8, <2>1 DEF KeepInv, FileInv, FileAt, Edits, ProfileCalls, None
  <2>3. IdsAscend(list'[p])
    BY <2>2 DEF KeepInv, ListInv
  <2> QED BY <1>1, <1>2, <1>3, <1>8, <2>1, <2>2, <2>3, StepFrame DEF TypeOK
<1> QED BY <1>5, <1>6, <1>7, <1>8, Zenon DEF Lock

\* A list of contacts gives the lock back and has written nothing.
LEMMA ListedKeeps ==
  ASSUME KeepInv, NEW p \in Procs, Listed(p)
  PROVE  KeepInv'
<1>1. /\ at[p] = "listing" /\ lock' = None /\ End(p)
      /\ UNCHANGED <<disk, chat, onDisk, cache, calls, faults, torn, stored, shown, missed, raced, blind, uploaded>>
  BY DEF Listed, fileVars, history
<1>2. TypeOK'
  <2>1. LocalOK'
    BY <1>1, EndTypes DEF KeepInv, TypeOK
  <2>2. FilesOK' /\ HistoryOK'
    BY <1>1, Zenon DEF KeepInv, TypeOK, FilesOK, HistoryOK
  <2> QED BY <2>1, <2>2 DEF TypeOK
<1>3. lock = p
  BY <1>1 DEF KeepInv, LockInv
<1> QED BY <1>1, <1>2, <1>3, EndKeeps

\* While p rewrites chat.json nobody else has a list to write.
LEMMA OneWriter ==
  ASSUME KeepInv, NEW p \in Procs, at[p] \in {"write", "writing"}
  PROVE  lock = p /\ \A q \in Procs : at[q] \in {"write", "writing", "listing"} => q = p
BY DEF KeepInv, LockInv

\* While chat.json is open, the list of the task that holds the lock has all
\* that was stored.
LEMMA TruncateKeeps ==
  ASSUME KeepInv, NEW p \in Procs, Truncate(p)
  PROVE  KeepInv'
<1>1. /\ at[p] = "write" /\ Go(p, "writing")
      /\ UNCHANGED <<cache, lock, op, num, file, list, prof, found, calls, faults, torn, stored, shown, missed, raced, blind, uploaded>>
  BY DEF Truncate, history
<1>2. LocalOK' /\ at'[p] = "writing" /\ Others(p)
  BY <1>1, GoTypes DEF KeepInv, TypeOK, Places
<1>3. HistoryOK'
  BY <1>1, Zenon DEF KeepInv, TypeOK, HistoryOK
<1>4. FilesOK'
  <2>1. disk' \in [{"chat", "profile", "image"} -> FileStates]
    BY DEF KeepInv, TypeOK, FilesOK, Truncate, FileStates
  <2>2. chat' \in Seq(Messages) /\ onDisk' \in Profiles
    BY Defaults, Zenon DEF KeepInv, TypeOK, FilesOK, Truncate
  <2> QED BY <1>1, <2>1, <2>2, Zenon DEF KeepInv, TypeOK, FilesOK
<1>5. lock = p /\ \A q \in Procs : at[q] \in {"write", "writing", "listing"} => q = p
  BY <1>1, OneWriter
<1>6. FileAt(p)' /\ list'[p] = list[p] /\ file'[p] = file[p]
  BY <1>1, <1>2 DEF KeepInv, FileInv, FileAt, Edits, ProfileCalls, None
<1>7. CASE file[p] # "chat"
  <2>1. chat' = chat
    BY <1>7 DEF Truncate
  <2>2. IdsAscend(list'[p])
    BY <1>6 DEF KeepInv, ListInv
  <2> QED BY <1>1, <1>2, <1>3, <1>4, <1>5, <1>6, <1>7, <2>1, <2>2, StepFrame DEF TypeOK
<1>8. CASE file[p] = "chat"
  <2>1. chat' = <<>>
    BY <1>8 DEF Truncate
  <2>2. LockInv'
    BY <1>1, <1>2, <1>5 DEF LockInv, Others
  <2>3. FileInv'
    BY <1>2, <1>6 DEF KeepInv, FileInv, FileAt, Others
  <2>4. ListInv'
    <3>1. IdsAscend(chat')
      BY <2>1, EmptyAscends
    <3>2. \A q \in Procs : IdsAscend(list'[q])
      BY <1>1 DEF KeepInv, ListInv
    <3>3. ~ ChatAtRest'
      BY <1>2, <1>6, <1>8 DEF ChatAtRest
    <3>4. ASSUME "chat" \notin torn', NEW q \in Procs, at'[q] \in {"write", "writing"}, file'[q] = "chat"
          PROVE  \A s \in stored' : Holds(list'[q], s)
      <4>1. at[q] \in {"write", "writing"} /\ file[q] = "chat"
        BY <1>1, <1>2, <3>4 DEF Others
      <4> QED BY <1>1, <3>4, <4>1 DEF KeepInv, ListInv
    <3> QED BY <3>1, <3>2, <3>3, <3>4 DEF ListInv, IdsAscend, Holds
  <2> QED BY <1>2, <1>3, <1>4, <2>2, <2>3, <2>4 DEF KeepInv, TypeOK
<1> QED BY <1>7, <1>8

\* The list that replaces the file has what was stored before, and the message
\* this call has added.
LEMMA WriteChatKeeps ==
  ASSUME KeepInv, NEW p \in Procs, WriteChat(p)
  PROVE  KeepInv'
<1>1. /\ at[p] = "writing" /\ file[p] = "chat" /\ lock' = None /\ End(p) /\ chat' = list[p]
      /\ UNCHANGED <<onDisk, cache, calls, faults, torn, shown, raced, blind, uploaded>>
  BY DEF WriteChat
<1>2. list[p] \in Seq(Messages) /\ \A i \in DOMAIN list[p] : list[p][i] \in Messages
  BY DEF KeepInv, TypeOK, LocalOK
<1>3. LocalOK'
  BY <1>1, EndTypes DEF KeepInv, TypeOK
<1>4. FilesOK'
  <2>1. disk' \in [{"chat", "profile", "image"} -> FileStates]
    BY DEF KeepInv, TypeOK, FilesOK, WriteChat, FileStates
  <2> QED BY <1>1, <1>2, <2>1, Zenon DEF KeepInv, TypeOK, FilesOK
<1>5. stored' \subseteq (1 .. MaxCalls) \X (Nat \ {0})
  <2>1. \A i \in DOMAIN list[p] : list[p][i].tok \in 1 .. MaxCalls /\ list[p][i].id \in Nat \ {0}
    BY <1>2 DEF Messages
  <2>2. stored \subseteq (1 .. MaxCalls) \X (Nat \ {0})
    BY Zenon DEF KeepInv, TypeOK, HistoryOK
  <2> QED BY <2>1, <2>2 DEF WriteChat
<1>6. missed' \subseteq 1 .. MaxCalls
  <2>1. Toks(list[p]) \subseteq 1 .. MaxCalls
    BY <1>2, ToksType
  <2>2. missed \subseteq 1 .. MaxCalls
    BY Zenon DEF KeepInv, TypeOK, HistoryOK
  <2> QED BY <2>1, <2>2 DEF WriteChat
<1>7. HistoryOK'
  BY <1>1, <1>5, <1>6, Zenon DEF KeepInv, TypeOK, HistoryOK
<1>8. /\ at'[p] = "idle" /\ op'[p] = None /\ list'[p] = <<>> /\ Others(p)
  BY <1>1, EndFrame DEF KeepInv, TypeOK, Others
<1>9. lock = p /\ \A q \in Procs : at[q] \in {"write", "writing", "listing"} => q = p
  BY <1>1, OneWriter
<1>10. \A q \in Procs : at'[q] \notin {"write", "writing", "listing"}
  BY <1>8, <1>9 DEF Others
<1>11. LockInv'
  BY <1>10 DEF LockInv
<1>12. FileInv'
  <2> SUFFICES ASSUME NEW q \in Procs PROVE FileAt(q)'
    BY DEF FileInv
  <2>1. CASE q = p
    BY <1>8, <2>1 DEF FileAt, Edits, ProfileCalls, None
  <2>2. CASE q # p
    BY <1>8, <2>2 DEF KeepInv, FileInv, FileAt, Others
  <2> QED BY <2>1, <2>2
<1>13. ListInv'
  <2>1. IdsAscend(chat')
    BY <1>1 DEF KeepInv, ListInv
  <2>2. ASSUME NEW q \in Procs PROVE IdsAscend(list'[q])
    <3>1. CASE q = p
      BY <1>8, <3>1, EmptyAscends
    <3>2. CASE q # p
      BY <1>8, <3>2 DEF KeepInv, ListInv, Others
    <3> QED BY <3>1, <3>2
  <2>3. ASSUME "chat" \notin torn', NEW s \in stored' PROVE Holds(chat', s)
    <3>1. CASE s \in stored
      BY <1>1, <2>3, <3>1 DEF KeepInv, ListInv
    <3>2. CASE s \notin stored
      <4>1. PICK i \in DOMAIN list[p] : s = <<list[p][i].tok, list[p][i].id>>
        BY <2>3, <3>2 DEF WriteChat
      <4> QED BY <1>1, <4>1 DEF Holds
    <3> QED BY <3>1, <3>2
  <2> QED BY <1>10, <2>1, <2>2, <2>3 DEF ListInv, IdsAscend, Holds
<1> QED BY <1>3, <1>4, <1>7, <1>11, <1>12, <1>13 DEF KeepInv, TypeOK

\* profile.json is written by the one task that holds the lock and has no
\* list of messages.
LEMMA WriteProfileKeeps ==
  ASSUME KeepInv, NEW p \in Procs, WriteProfile(p)
  PROVE  KeepInv'
<1>1. /\ at[p] = "writing" /\ file[p] = "profile" /\ lock' = None /\ onDisk' = prof[p] /\ Go(p, "insert")
      /\ UNCHANGED <<chat, cache, op, num, file, list, prof, found, calls, faults, torn, stored, shown, missed>>
  BY DEF WriteProfile
<1>2. LocalOK' /\ at'[p] = "insert" /\ Others(p)
  BY <1>1, GoTypes DEF KeepInv, TypeOK, Places
<1>3. FilesOK'
  <2>1. disk' \in [{"chat", "profile", "image"} -> FileStates]
    BY DEF KeepInv, TypeOK, FilesOK, WriteProfile, FileStates
  <2>2. prof[p] \in Profiles
    BY DEF KeepInv, TypeOK, LocalOK
  <2> QED BY <1>1, <2>1, <2>2, Zenon DEF KeepInv, TypeOK, FilesOK
<1>4. HistoryOK'
  <2>1. raced' \in BOOLEAN /\ blind' \in BOOLEAN /\ uploaded' \in BOOLEAN
    BY Zenon DEF KeepInv, TypeOK, HistoryOK, WriteProfile
  <2> QED BY <1>1, <2>1, Zenon DEF KeepInv, TypeOK, HistoryOK
<1>5. lock = p
  BY <1>1, OneWriter
<1>6. FileAt(p)' /\ list'[p] = list[p]
  BY <1>1, <1>2 DEF KeepInv, FileInv, FileAt, Edits, ProfileCalls, None
<1>7. IdsAscend(list'[p])
  BY <1>6 DEF KeepInv, ListInv
<1> QED BY <1>1, <1>2, <1>3, <1>4, <1>5, <1>6, <1>7, StepFrame DEF TypeOK

\* The image of an upload is written the same way.
LEMMA WriteImageKeeps ==
  ASSUME KeepInv, NEW p \in Procs, WriteImage(p)
  PROVE  KeepInv'
<1>1. /\ at[p] = "writing" /\ file[p] = "image" /\ lock' = None /\ Go(p, "load")
      /\ file' = [file EXCEPT ![p] = "profile"]
      /\ UNCHANGED <<chat, onDisk, cache, op, num, list, prof, found, calls, faults, torn>>
      /\ UNCHANGED <<stored, shown, missed, raced, blind, uploaded>>
  BY DEF WriteImage, history
<1>2. /\ at' \in [Procs -> Places] /\ at'[p] = "load"
      /\ file' \in [Procs -> {"chat", "profile", "image", None}] /\ file'[p] = "profile"
      /\ Others(p)
  BY <1>1 DEF KeepInv, TypeOK, LocalOK, Go, Places, Others
<1>3. LocalOK'
  BY <1>1, <1>2, Zenon DEF KeepInv, TypeOK, LocalOK
<1>4. FilesOK'
  <2>1. disk' \in [{"chat", "profile", "image"} -> FileStates]
    BY DEF KeepInv, TypeOK, FilesOK, WriteImage, FileStates
  <2> QED BY <1>1, <2>1, Zenon DEF KeepInv, TypeOK, FilesOK
<1>5. HistoryOK'
  BY <1>1, Zenon DEF KeepInv, TypeOK, HistoryOK
<1>6. lock = p
  BY <1>1, OneWriter
<1>7. FileAt(p)' /\ list'[p] = list[p]
  BY <1>1, <1>2 DEF KeepInv, FileInv, FileAt, Edits, ProfileCalls, None
<1>8. IdsAscend(list'[p])
  BY <1>7 DEF KeepInv, ListInv
<1> QED BY <1>1, <1>2, <1>3, <1>4, <1>5, <1>6, <1>7, <1>8, StepFrame DEF TypeOK

\* A write that fails after the file was opened leaves it cut, which torn
\* remembers.
LEMMA WriteFailsKeeps ==
  ASSUME KeepInv, NEW p \in Procs, WriteFails(p)
  PROVE  KeepInv'
<1>1. /\ at[p] \in {"write", "writing"} /\ lock' = None /\ End(p)
      /\ torn' = IF at[p] = "writing" THEN torn \cup {file[p]} ELSE torn
      /\ faults' = faults + 1
      /\ UNCHANGED <<disk, chat, onDisk, cache, calls, stored, shown, missed, raced, blind, uploaded>>
  BY DEF WriteFails, fileVars, history
<1>2. LocalOK'
  BY <1>1, EndTypes DEF KeepInv, TypeOK
<1>3. FilesOK'
  BY <1>1, Zenon DEF KeepInv, TypeOK, FilesOK
<1>4. HistoryOK'
  <2>1. faults' \in Nat
    <3>1. faults \in Nat
      BY Zenon DEF KeepInv, TypeOK, HistoryOK
    <3> QED BY <1>1, <3>1
  <2>2. torn' \subseteq {"chat", "profile", "image"}
    <3>1. file[p] \in {"chat", "profile", "image"}
      BY <1>1 DEF KeepInv, FileInv, FileAt
    <3>2. torn \subseteq {"chat", "profile", "image"}
      BY Zenon DEF KeepInv, TypeOK, HistoryOK
    <3> QED BY <1>1, <3>1, <3>2, Zenon
  <2> QED BY <1>1, <2>1, <2>2, Zenon DEF KeepInv, TypeOK, HistoryOK
<1>5. lock = p
  BY <1>1, OneWriter
<1>6. torn \subseteq torn' /\ ("chat" \notin torn' => ~ (at[p] = "writing" /\ file[p] = "chat"))
  BY <1>1
<1> QED BY <1>1, <1>2, <1>3, <1>4, <1>5, <1>6, EndKeeps DEF TypeOK

\* When load_profile has returned, a reader ends and the others go on to save
\* a profile: no message is touched.
LEMMA LoadedKeeps ==
  ASSUME KeepInv, FilesOK', HistoryOK', NEW p \in Procs, NEW old \in Profiles,
         at[p] \in {"load", "fill"}, Loaded(p, old), UNCHANGED <<chat, stored, torn, lock>>
  PROVE  KeepInv'
<1>1. LocalOK
  BY DEF KeepInv, TypeOK
<1>2. CASE End(p)
  <2>1. LocalOK'
    BY <1>1, <1>2, EndTypes
  <2> QED BY <1>2, <2>1, EndKeeps DEF TypeOK
<1>3. CASE /\ op[p] # "profile"
           /\ prof' = [prof EXCEPT ![p] = Merge(op[p], @, old)] /\ Go(p, "lock")
           /\ UNCHANGED <<op, num, file, list, found>>
  <2>1. Merge(op[p], prof[p], old) \in Profiles
    BY <1>1 DEF LocalOK, Merge, Profiles
  <2>2. prof' \in [Procs -> Profiles]
    BY <1>1, <1>3, <2>1 DEF LocalOK
  <2>3. at' \in [Procs -> Places] /\ at'[p] = "lock" /\ Others(p)
    BY <1>1, <1>3 DEF LocalOK, Go, Places, Others
  <2>4. LocalOK'
    BY <1>1, <1>3, <2>2, <2>3, Zenon DEF LocalOK
  <2>5. FileAt(p)' /\ list'[p] = list[p]
    BY <1>3, <2>3 DEF KeepInv, FileInv, FileAt, Edits, ProfileCalls, None
  <2>6. IdsAscend(list'[p])
    BY <2>5 DEF KeepInv, ListInv
  <2> QED BY <2>3, <2>4, <2>5, <2>6, StepFrame DEF TypeOK
<1> QED BY <1>2, <1>3, Zenon DEF Loaded

\* Looking into the cache touches no message.
LEMMA LoadKeeps ==
  ASSUME KeepInv, NEW p \in Procs, Load(p)
  PROVE  KeepInv'
<1>1. /\ at[p] = "load"
      /\ UNCHANGED <<disk, chat, onDisk, cache, lock, calls, faults, torn, stored, shown, missed, raced, uploaded>>
  BY DEF Load, fileVars
<1>2. FilesOK'
  BY <1>1, Zenon DEF KeepInv, TypeOK, FilesOK
<1>3. HistoryOK'
  <2>1. blind' \in BOOLEAN
    BY Zenon DEF KeepInv, TypeOK, HistoryOK, Load
  <2> QED BY <1>1, <2>1, Zenon DEF KeepInv, TypeOK, HistoryOK
<1>4. CASE Go(p, "read") /\ UNCHANGED <<op, num, file, list, prof, found>>
  <2>1. LocalOK' /\ at'[p] = "read" /\ Others(p)
    BY <1>4, GoTypes DEF KeepInv, TypeOK, Places
  <2>2. FileAt(p)' /\ list'[p] = list[p]
    BY <1>1, <1>4, <2>1 DEF KeepInv, FileInv, FileAt, Edits, ProfileCalls, None
  <2>3. IdsAscend(list'[p])
    BY <2>2 DEF KeepInv, ListInv
  <2> QED BY <1>1, <1>2, <1>3, <2>1, <2>2, <2>3, StepFrame DEF TypeOK
<1>5. CASE \E old \in cache : Loaded(p, old)
  <2>1. PICK old \in cache : Loaded(p, old)
    BY <1>5
  <2>2. old \in Profiles
    BY Zenon DEF KeepInv, TypeOK, FilesOK
  <2> QED BY <1>1, <1>2, <1>3, <2>1, <2>2, LoadedKeeps
<1> QED BY <1>4, <1>5, Zenon DEF Load

\* Reading profile.json touches no message.
LEMMA LoadReadKeeps ==
  ASSUME KeepInv, NEW p \in Procs, LoadRead(p)
  PROVE  KeepInv'
<1>1. /\ at[p] = "read"
      /\ UNCHANGED <<disk, chat, onDisk, cache, lock, calls, faults, torn, stored, shown, missed, raced, uploaded>>
  BY DEF LoadRead, fileVars
<1>2. FilesOK'
  BY <1>1, Zenon DEF KeepInv, TypeOK, FilesOK
<1>3. HistoryOK'
  <2>1. blind' \in BOOLEAN
    BY Zenon DEF KeepInv, TypeOK, HistoryOK, LoadRead
  <2> QED BY <1>1, <2>1, Zenon DEF KeepInv, TypeOK, HistoryOK
<1>4. CASE found' = [found EXCEPT ![p] = onDisk] /\ Go(p, "fill") /\ UNCHANGED <<op, num, file, list, prof>>
  <2>1. found' \in [Procs -> Profiles]
    BY <1>4 DEF KeepInv, TypeOK, LocalOK, FilesOK
  <2>2. at' \in [Procs -> Places] /\ at'[p] = "fill" /\ Others(p)
    BY <1>4 DEF KeepInv, TypeOK, LocalOK, Go, Places, Others
  <2>3. LocalOK'
    BY <1>4, <2>1, <2>2, Zenon DEF KeepInv, TypeOK, LocalOK
  <2>4. FileAt(p)' /\ list'[p] = list[p]
    BY <1>1, <1>4, <2>2 DEF KeepInv, FileInv, FileAt, Edits, ProfileCalls, None
  <2>5. IdsAscend(list'[p])
    BY <2>4 DEF KeepInv, ListInv
  <2> QED BY <1>1, <1>2, <1>3, <2>2, <2>3, <2>4, <2>5, StepFrame DEF TypeOK
<1>5. CASE op[p] = "save" /\ Go(p, "lock") /\ UNCHANGED <<op, num, file, list, prof, found>>
  <2>1. LocalOK' /\ at'[p] = "lock" /\ Others(p)
    BY <1>5, GoTypes DEF KeepInv, TypeOK, Places
  <2>2. FileAt(p)' /\ list'[p] = list[p]
    BY <1>1, <1>5, <2>1 DEF KeepInv, FileInv, FileAt, Edits, ProfileCalls, None
  <2>3. IdsAscend(list'[p])
    BY <2>2 DEF KeepInv, ListInv
  <2> QED BY <1>1, <1>2, <1>3, <2>1, <2>2, <2>3, StepFrame DEF TypeOK
<1>6. CASE End(p)
  <2>1. LocalOK'
    BY <1>6, EndTypes DEF KeepInv, TypeOK
  <2> QED BY <1>1, <1>2, <1>3, <1>6, <2>1, EndKeeps DEF TypeOK
<1> QED BY <1>4, <1>5, <1>6, Zenon DEF LoadRead

\* Setting the cache touches no message.
LEMMA FillKeeps ==
  ASSUME KeepInv, NEW p \in Procs, Fill(p)
  PROVE  KeepInv'
<1>1. /\ at[p] = "fill" /\ cache' = {found[p]} /\ Loaded(p, found[p])
      /\ UNCHANGED <<disk, chat, onDisk, lock, calls, faults, torn, stored, shown, missed, raced, blind, uploaded>>
  BY DEF Fill, fileVars, history
<1>2. found[p] \in Profiles
  BY DEF KeepInv, TypeOK, LocalOK
<1>3. FilesOK' /\ HistoryOK'
  BY <1>1, <1>2, Zenon DEF KeepInv, TypeOK, FilesOK, HistoryOK
<1> QED BY <1>1, <1>2, <1>3, LoadedKeeps

\* Neither does save_profile when it sets the cache and returns.
LEMMA InsertKeeps ==
  ASSUME KeepInv, NEW p \in Procs, Insert(p)
  PROVE  KeepInv'
<1>1. /\ at[p] = "insert" /\ cache' = {prof[p]} /\ End(p)
      /\ UNCHANGED <<disk, chat, onDisk, lock, calls, faults, torn, stored, shown, missed, raced, blind, uploaded>>
  BY DEF Insert, fileVars, history
<1>2. prof[p] \in Profiles
  BY DEF KeepInv, TypeOK, LocalOK
<1>3. FilesOK' /\ HistoryOK'
  BY <1>1, <1>2, Zenon DEF KeepInv, TypeOK, FilesOK, HistoryOK
<1>4. LocalOK'
  BY <1>1, EndTypes DEF KeepInv, TypeOK
<1> QED BY <1>1, <1>3, <1>4, EndKeeps DEF TypeOK

\* What a read that fails does: a view goes on with nothing, a save without the
\* profile, and everybody else stops.
ViewFails(p) ==
  /\ at[p] = "get" /\ Go(p, "lock") /\ UNCHANGED <<op, num, file, list, prof, found, blind>>
  /\ missed' = missed \cup Toks(chat) \cup Rewriting
SaveFails(p) ==
  /\ at[p] = "read" /\ op[p] = "save" /\ blind'
  /\ Go(p, "lock") /\ UNCHANGED <<op, num, file, list, prof, found, missed>>
CallStops(p) ==
  at[p] \in {"lock", "read"} /\ End(p) /\ UNCHANGED <<missed, blind>>

LEMMA ReadFailsCases ==
  ASSUME NEW p \in Procs, ReadFails(p)
  PROVE  /\ ViewFails(p) \/ SaveFails(p) \/ CallStops(p)
         /\ faults' = faults + 1
         /\ UNCHANGED <<disk, chat, onDisk, cache, lock, calls, torn, stored, shown, raced, uploaded>>
<1>1. /\ faults' = faults + 1
      /\ UNCHANGED <<disk, chat, onDisk, cache, lock, calls, torn, stored, shown, raced, uploaded>>
  BY DEF ReadFails, fileVars
<1>2. ViewFails(p) \/ SaveFails(p) \/ CallStops(p)
  BY DEF ReadFails, ViewFails, SaveFails, CallStops
<1> QED BY <1>1, <1>2

\* A read that fails touches no message.
LEMMA ReadFailsKeeps ==
  ASSUME KeepInv, NEW p \in Procs, ReadFails(p)
  PROVE  KeepInv'
<1>1. /\ faults' = faults + 1
      /\ UNCHANGED <<disk, chat, onDisk, cache, lock, calls, torn, stored, shown, raced, uploaded>>
  BY ReadFailsCases
<1>2. FilesOK'
  BY <1>1, Zenon DEF KeepInv, TypeOK, FilesOK
<1>3. faults' \in Nat
  <2>1. faults \in Nat
    BY Zenon DEF KeepInv, TypeOK, HistoryOK
  <2> QED BY <1>1, <2>1
<1>4. ASSUME missed' \subseteq 1 .. MaxCalls, blind' \in BOOLEAN PROVE HistoryOK'
  BY <1>1, <1>3, <1>4, Zenon DEF KeepInv, TypeOK, HistoryOK
<1>5. missed \subseteq 1 .. MaxCalls /\ blind \in BOOLEAN
  BY Zenon DEF KeepInv, TypeOK, HistoryOK
<1>6. CASE ViewFails(p)
  <2>1. LocalOK' /\ at'[p] = "lock" /\ Others(p)
    BY <1>6, GoTypes DEF ViewFails, KeepInv, TypeOK, Places
  <2>2. HistoryOK'
    <3>1. Toks(chat) \subseteq 1 .. MaxCalls /\ \A q \in Procs : Toks(list[q]) \subseteq 1 .. MaxCalls
      BY ToksType, Zenon DEF KeepInv, TypeOK, FilesOK, LocalOK
    <3>2. missed' \subseteq 1 .. MaxCalls
      BY <1>5, <1>6, <3>1, Zenon DEF ViewFails, Rewriting
    <3>3. blind' \in BOOLEAN
      BY <1>5, <1>6, Zenon DEF ViewFails
    <3> QED BY <1>4, <3>2, <3>3
  <2>3. FileAt(p)' /\ list'[p] = list[p] /\ at[p] = "get"
    BY <1>6, <2>1 DEF ViewFails, KeepInv, FileInv, FileAt, Edits, ProfileCalls, None
  <2>4. IdsAscend(list'[p])
    BY <2>3 DEF KeepInv, ListInv
  <2> QED BY <1>1, <1>2, <2>1, <2>2, <2>3, <2>4, StepFrame DEF TypeOK
<1>7. CASE SaveFails(p)
  <2>1. LocalOK' /\ at'[p] = "lock" /\ Others(p)
    BY <1>7, GoTypes DEF SaveFails, KeepInv, TypeOK, Places
  <2>2. HistoryOK'
    <3>1. missed' \subseteq 1 .. MaxCalls
      BY <1>5, <1>7, Zenon DEF SaveFails
    <3>2. blind' \in BOOLEAN
      BY DEF ReadFails, KeepInv, TypeOK, HistoryOK
    <3> QED BY <1>4, <3>1, <3>2
  <2>3. FileAt(p)' /\ list'[p] = list[p] /\ at[p] = "read"
    BY <1>7, <2>1 DEF SaveFails, KeepInv, FileInv, FileAt, Edits, ProfileCalls, None
  <2>4. IdsAscend(list'[p])
    BY <2>3 DEF KeepInv, ListInv
  <2> QED BY <1>1, <1>2, <2>1, <2>2, <2>3, <2>4, StepFrame DEF TypeOK
<1>8. CASE CallStops(p)
  <2>1. LocalOK'
    BY <1>8, EndTypes DEF CallStops, KeepInv, TypeOK
  <2>2. HistoryOK'
    BY <1>4, <1>5, <1>8, Zenon DEF CallStops
  <2>3. End(p) /\ at[p] # "writing"
    BY <1>8 DEF CallStops
  <2> QED BY <1>1, <1>2, <2>1, <2>2, <2>3, EndKeeps DEF TypeOK
<1> QED BY <1>6, <1>7, <1>8, ReadFailsCases

\* A crash while chat.json is being rewritten is in torn; any other crash
\* leaves the messages in the file.
LEMMA RestartKeeps ==
  ASSUME KeepInv, Restart
  PROVE  KeepInv'
<1>1. /\ torn' = torn \cup {file[p] : p \in {q \in Procs : at[q] = "writing"}}
      /\ faults' = faults + 1 /\ cache' = {} /\ lock' = None
      /\ UNCHANGED <<disk, chat, onDisk, calls, stored, shown, missed, raced, blind, uploaded>>
  BY DEF Restart, fileVars, history
<1>2. FilesOK'
  BY <1>1, Zenon DEF KeepInv, TypeOK, FilesOK
<1>3. LocalOK'
  BY Defaults DEF Restart, LocalOK, Places
<1>4. HistoryOK'
  <2>1. faults' \in Nat
    <3>1. faults \in Nat
      BY Zenon DEF KeepInv, TypeOK, HistoryOK
    <3> QED BY <1>1, <3>1
  <2>2. torn' \subseteq {"chat", "profile", "image"}
    <3>1. \A p \in Procs : at[p] = "writing" => file[p] \in {"chat", "profile", "image"}
      BY DEF KeepInv, FileInv, FileAt
    <3>2. torn \subseteq {"chat", "profile", "image"}
      BY Zenon DEF KeepInv, TypeOK, HistoryOK
    <3> QED BY <1>1, <3>1, <3>2
  <2> QED BY <1>1, <2>1, <2>2, Zenon DEF KeepInv, TypeOK, HistoryOK
<1>5. LockInv' /\ FileInv'
  BY DEF Restart, LockInv, FileInv, FileAt, Edits, ProfileCalls, None
<1>6. ListInv'
  <2>1. IdsAscend(chat')
    BY <1>1 DEF KeepInv, ListInv
  <2>2. \A p \in Procs : IdsAscend(list'[p]) /\ at'[p] = "idle"
    BY EmptyAscends DEF Restart
  <2>3. "chat" \notin torn' => \A s \in stored' : Holds(chat', s)
    <3>1. "chat" \notin torn' => ChatAtRest /\ "chat" \notin torn
      BY <1>1 DEF ChatAtRest
    <3> QED BY <1>1, <3>1 DEF KeepInv, ListInv
  <2> QED BY <2>1, <2>2, <2>3 DEF ListInv, IdsAscend, Holds
<1> QED BY <1>2, <1>3, <1>4, <1>5, <1>6 DEF KeepInv, TypeOK

-----------------------------------------------------------------------------
(* The theorems.                                                           *)

\* Every step, and stuttering, keeps the invariant.
LEMMA NextKeeps == KeepInv /\ [Next]_vars => KeepInv'
<1> SUFFICES ASSUME KeepInv, [Next]_vars PROVE KeepInv'
  OBVIOUS
<1>1. ASSUME NEW p \in Procs, NEW o \in Calls, NEW new \in Profiles, Call(p, o, new) PROVE KeepInv'
  BY <1>1, CallKeeps
<1>2. ASSUME NEW p \in Procs, Step(p) PROVE KeepInv'
  BY <1>2, GetKeeps, LockKeeps, ListedKeeps, TruncateKeeps, WriteChatKeeps, WriteProfileKeeps,
     WriteImageKeeps, LoadKeeps, LoadReadKeeps, FillKeeps, InsertKeeps, Zenon DEF Step
<1>3. ASSUME NEW p \in Procs, WriteFails(p) PROVE KeepInv'
  BY <1>3, WriteFailsKeeps
<1>6. ASSUME NEW p \in Procs, ReadFails(p) PROVE KeepInv'
  BY <1>6, ReadFailsKeeps
<1>4. CASE Restart
  BY <1>4, RestartKeeps
<1>5. CASE UNCHANGED vars
  <2>1. FilesOK' /\ LocalOK' /\ HistoryOK'
    BY <1>5, Zenon DEF KeepInv, TypeOK, FilesOK, LocalOK, HistoryOK, vars, fileVars, local, history
  <2>2. LockInv' /\ FileInv'
    BY <1>5 DEF KeepInv, LockInv, FileInv, FileAt, vars, local
  <2>3. ListInv'
    BY <1>5 DEF KeepInv, ListInv, ChatAtRest, IdsAscend, Holds, vars, fileVars, local, history
  <2> QED BY <2>1, <2>2, <2>3 DEF KeepInv, TypeOK
<1> QED BY <1>1, <1>2, <1>3, <1>4, <1>5, <1>6, Zenon DEF Next

\* The invariant holds in every state, for any number of tasks, calls and
\* faults: only the holder of UserStore.lock rewrites a file.
THEOREM StoreInvariant == Spec => []KeepInv
<1>1. Init => KeepInv
  BY InitKeep
<1>2. KeepInv /\ [Next]_vars => KeepInv'
  BY NextKeeps
<1> QED BY <1>1, <1>2, PTL DEF Spec

\* Files, cache, calls and histories keep their types; in particular every
\* message add_message makes has a positive id.
THEOREM StoreTypeCorrect == Spec => []TypeOK
<1>1. KeepInv => TypeOK
  BY DEF KeepInv
<1> QED BY <1>1, StoreInvariant, PTL

\* Unless a crash or a failed write cut chat.json, a message add_message has
\* stored stays there under its own id, however calls interleave.
THEOREM MessagesSafe == Spec => []MessagesKept
<1>1. KeepInv => MessagesKept
  BY DEF KeepInv, ListInv, MessagesKept
<1> QED BY <1>1, StoreInvariant, PTL

-----------------------------------------------------------------------------
(* Profiles: the cache and the avatar.                                     *)

\* profile.json is being rewritten.
Saving == \E p \in Procs : at[p] = "writing" /\ file[p] = "profile"

\* As long as nothing raced or was cut, whatever is or will be put into the
\* cache is the profile in the file; while the file is being rewritten, or is to
\* be put into the cache, the cache may lag behind.
CacheInv ==
  ~ raced /\ "profile" \notin torn /\ ~ Saving =>
    /\ \A q \in Procs : at[q] = "fill" => found[q] = onDisk
    /\ \A q \in Procs : at[q] = "insert" => prof[q] = onDisk
    /\ (\A q \in Procs : at[q] # "insert") => \A c \in cache : c = onDisk

\* Where the calls about profiles may be, and that an upload saves an avatar.
ProfileAt(p) ==
  /\ op[p] = "profile" => at[p] \in {"load", "read", "fill"}
  /\ at[p] = "insert" => op[p] \in {"save", "upload"}
  /\ at[p] \in {"load", "read", "fill"} => op[p] \in ProfileCalls
  /\ op[p] = "upload" /\ at[p] \in {"load", "read", "fill", "insert"} => file[p] = "profile"
  /\ op[p] = "upload" /\ file[p] = "profile" /\ at[p] \in {"lock", "write", "writing", "insert"} => prof[p].avatar

\* Once an avatar is uploaded, all that is or will be written or cached has one:
\* only while the upload itself is about to set the cache has the cache none.
AvatarInv ==
  /\ \A p \in Procs : ProfileAt(p)
  /\ "profile" \notin torn /\ disk["profile"] \in {"empty", "partial"} => Saving
  /\ uploaded /\ ~ blind /\ "profile" \notin torn =>
       /\ disk["profile"] # "absent"
       /\ disk["profile"] = "whole" => onDisk.avatar
       /\ (\A q \in Procs : ~ (op[q] = "upload" /\ at[q] = "insert")) => \A c \in cache : c.avatar
       /\ \A q \in Procs : op[q] = "save" /\ at[q] \in {"lock", "write", "writing", "insert"} => prof[q].avatar
       /\ \A q \in Procs : at[q] = "fill" => found[q].avatar

ProfileInv == CacheInv /\ AvatarInv

\* The other tasks keep all of their local state.
Apart(p) ==
  \A q \in Procs \ {p} : /\ at'[q] = at[q] /\ op'[q] = op[q] /\ file'[q] = file[q]
                         /\ prof'[q] = prof[q] /\ found'[q] = found[q]

\* What was read from the file is put into the cache.
CacheSet ==
  \A c \in cache' : /\ ~ raced /\ "profile" \notin torn /\ ~ Saving => c = onDisk
                    /\ uploaded /\ ~ blind /\ "profile" \notin torn => c.avatar

LEMMA EndApart ==
  ASSUME LocalOK, NEW p \in Procs, End(p)
  PROVE  at'[p] = "idle" /\ op'[p] = None /\ file'[p] = None /\ Apart(p)
BY DEF LocalOK, End, Go, Apart

\* A step that changes neither profile.json nor the cache keeps the invariant if
\* its task's own part holds afterwards.
LEMMA ProfileFrame ==
  ASSUME ProfileInv, NEW p \in Procs, Apart(p),
         UNCHANGED <<onDisk, raced, uploaded>>, cache' = cache \/ CacheSet, disk'["profile"] = disk["profile"],
         torn \subseteq torn', blind => blind', raced \in BOOLEAN, uploaded \in BOOLEAN,
         at[p] # "insert", at'[p] # "insert",
         at[p] = "writing" /\ file[p] = "profile" =>
           "profile" \in torn' \/ (at'[p] = "writing" /\ file'[p] = "profile"),
         ~ (at[p] = "writing" /\ file[p] = "profile") => ~ (at'[p] = "writing" /\ file'[p] = "profile"),
         ProfileAt(p)',
         at'[p] = "fill" => found'[p] = onDisk \/ (at[p] = "fill" /\ found'[p] = found[p]),
         uploaded /\ ~ blind' /\ "profile" \notin torn' =>
           /\ op'[p] = "save" /\ at'[p] \in {"lock", "write", "writing"} => prof'[p].avatar
           /\ at'[p] = "fill" => found'[p].avatar
  PROVE  ProfileInv'
<1>1. "profile" \notin torn' => "profile" \notin torn /\ (Saving' <=> Saving)
  BY DEF Saving, Apart
<1>2. CacheInv'
  <2> SUFFICES ASSUME ~ raced', "profile" \notin torn', ~ Saving'
               PROVE  /\ \A q \in Procs : at'[q] = "fill" => found'[q] = onDisk'
                      /\ \A q \in Procs : at'[q] = "insert" => prof'[q] = onDisk'
                      /\ (\A q \in Procs : at'[q] # "insert") => \A c \in cache' : c = onDisk'
    BY DEF CacheInv
  <2>1. /\ \A q \in Procs : at[q] = "fill" => found[q] = onDisk
        /\ \A q \in Procs : at[q] = "insert" => prof[q] = onDisk
        /\ (\A q \in Procs : at[q] # "insert") => \A c \in cache : c = onDisk
    BY <1>1 DEF ProfileInv, CacheInv
  <2>2. \A c \in cache' : c \in cache \/ c = onDisk
    BY <1>1 DEF CacheSet
  <2> QED BY <2>1, <2>2 DEF Apart
<1>3. AvatarInv'
  <2>1. \A q \in Procs : ProfileAt(q)'
    <3> SUFFICES ASSUME NEW q \in Procs, q # p PROVE ProfileAt(q)'
      OBVIOUS
    <3>1. ProfileAt(q)
      BY DEF ProfileInv, AvatarInv
    <3> QED BY <3>1 DEF ProfileAt, Apart
  <2>2. "profile" \notin torn' /\ disk'["profile"] \in {"empty", "partial"} => Saving'
    BY <1>1 DEF ProfileInv, AvatarInv
  <2>3. ASSUME uploaded', ~ blind', "profile" \notin torn'
        PROVE  /\ disk'["profile"] # "absent"
               /\ disk'["profile"] = "whole" => onDisk'.avatar
               /\ (\A q \in Procs : ~ (op'[q] = "upload" /\ at'[q] = "insert")) => \A c \in cache' : c.avatar
               /\ \A q \in Procs : op'[q] = "save" /\ at'[q] \in {"lock", "write", "writing", "insert"} => prof'[q].avatar
               /\ \A q \in Procs : at'[q] = "fill" => found'[q].avatar
    <3>1. uploaded /\ ~ blind /\ "profile" \notin torn
      BY <2>3
    <3>2. /\ disk["profile"] # "absent"
          /\ disk["profile"] = "whole" => onDisk.avatar
          /\ (\A q \in Procs : ~ (op[q] = "upload" /\ at[q] = "insert")) => \A c \in cache : c.avatar
          /\ \A q \in Procs : op[q] = "save" /\ at[q] \in {"lock", "write", "writing", "insert"} => prof[q].avatar
          /\ \A q \in Procs : at[q] = "fill" => found[q].avatar
      BY <3>1 DEF ProfileInv, AvatarInv
    <3>3. (\A q \in Procs : ~ (op'[q] = "upload" /\ at'[q] = "insert")) => \A q \in Procs : ~ (op[q] = "upload" /\ at[q] = "insert")
      BY DEF Apart
    <3>4. \A c \in cache' : c \in cache \/ c.avatar
      BY <3>1 DEF CacheSet
    <3> QED BY <2>3, <3>1, <3>2, <3>3, <3>4 DEF Apart
  <2> QED BY <2>1, <2>2, <2>3 DEF AvatarInv
<1> QED BY <1>2, <1>3 DEF ProfileInv

\* A task that ends before it has a profile to put into the cache.
LEMMA EndProfile ==
  ASSUME KeepInv, ProfileInv, NEW p \in Procs, End(p), at[p] # "insert",
         UNCHANGED <<onDisk, raced, uploaded>>, cache' = cache \/ CacheSet, disk'["profile"] = disk["profile"],
         torn \subseteq torn', blind => blind',
         at[p] = "writing" /\ file[p] = "profile" => "profile" \in torn'
  PROVE  ProfileInv'
<1>1. LocalOK /\ raced \in BOOLEAN /\ uploaded \in BOOLEAN
  BY Zenon DEF KeepInv, TypeOK, HistoryOK
<1>2. at'[p] = "idle" /\ op'[p] = None /\ file'[p] = None /\ Apart(p)
  BY <1>1, EndApart
<1>3. ProfileAt(p)'
  BY <1>2 DEF ProfileAt, None
<1> QED BY <1>1, <1>2, <1>3, ProfileFrame

\* A task that only moves on, but neither to nor from a point where it has a
\* profile at hand.
LEMMA GoProfile ==
  ASSUME KeepInv, ProfileInv, NEW p \in Procs, NEW s \in Places, Go(p, s),
         UNCHANGED <<op, file, prof, found>>,
         UNCHANGED <<onDisk, cache, raced, uploaded>>, disk'["profile"] = disk["profile"],
         torn \subseteq torn', blind => blind',
         at[p] # "insert", s \notin {"insert", "fill"},
         (at[p] = "writing" <=> s = "writing") \/ file[p] # "profile",
         ProfileAt(p)',
         at[p] \notin {"lock", "write", "writing"} /\ s \in {"lock", "write", "writing"} => op[p] # "save" \/ blind'
  PROVE  ProfileInv'
<1>1. LocalOK /\ raced \in BOOLEAN /\ uploaded \in BOOLEAN
  BY Zenon DEF KeepInv, TypeOK, HistoryOK
<1>2. at'[p] = s /\ op'[p] = op[p] /\ file'[p] = file[p] /\ prof'[p] = prof[p] /\ found'[p] = found[p] /\ Apart(p)
  BY <1>1 DEF LocalOK, Go, Apart
<1>3. uploaded /\ ~ blind' /\ "profile" \notin torn' =>
        (op'[p] = "save" /\ at'[p] \in {"lock", "write", "writing"} => prof'[p].avatar)
  BY <1>2 DEF ProfileInv, AvatarInv
<1> QED BY <1>1, <1>2, <1>3, ProfileFrame

\* A call starts; a save that comes with an avatar writes at once.
LEMMA CallProfile ==
  ASSUME KeepInv, ProfileInv, NEW p \in Procs, NEW o \in Calls, NEW new \in Profiles, Call(p, o, new)
  PROVE  ProfileInv'
<1>1. LocalOK /\ raced \in BOOLEAN /\ uploaded \in BOOLEAN
  BY Zenon DEF KeepInv, TypeOK, HistoryOK
<1>2. /\ UNCHANGED <<disk, onDisk, cache, raced, uploaded, blind, torn, found>>
      /\ at[p] = "idle" /\ (o = "save" \/ new = DefaultProfile)
  BY DEF Call, fileVars, history
<1>3. /\ op'[p] = o /\ prof'[p] = new
      /\ at'[p] = IF o = "save" /\ new.avatar THEN "lock" ELSE Entry(o)
      /\ file'[p] = IF o = "save" THEN "profile" ELSE FirstFile(o)
      /\ Apart(p)
  BY <1>1 DEF Call, LocalOK, Apart
<1>4. ProfileAt(p)' /\ at'[p] \in {"lock", "get", "load"} /\ (o = "save" /\ at'[p] = "lock" => new.avatar)
  BY <1>2, <1>3 DEF ProfileAt, Entry, FirstFile, Calls, Edits, ProfileCalls, DefaultProfile
<1> QED BY <1>1, <1>2, <1>3, <1>4, ProfileFrame

\* Steps about messages and lists, and taking the lock.
LEMMA GetProfile ==
  ASSUME KeepInv, ProfileInv, NEW p \in Procs, Get(p)
  PROVE  ProfileInv'
<1>1. /\ UNCHANGED <<disk, onDisk, cache, raced, uploaded, blind, torn, op, file, prof, found>>
      /\ at[p] = "get" /\ Go(p, "lock")
  BY DEF Get, fileVars
<1>2. op[p] = "view"
  BY <1>1 DEF KeepInv, FileInv, FileAt
<1>3. ProfileAt(p)'
  BY <1>1, <1>2 DEF ProfileAt, Go, KeepInv, TypeOK, LocalOK
<1> QED BY <1>1, <1>2, <1>3, GoProfile DEF Places

LEMMA LockProfile ==
  ASSUME KeepInv, ProfileInv, NEW p \in Procs, Lock(p)
  PROVE  ProfileInv'
<1>1. /\ at[p] = "lock"
      /\ UNCHANGED <<disk, chat, onDisk, cache, torn, raced, blind, uploaded>>
  BY DEF Lock, fileVars, history
<1>2. CASE End(p)
  BY <1>1, <1>2, EndProfile
<1>3. CASE \E s \in {"listing", "write"} :
             Go(p, s) /\ UNCHANGED <<op, file, prof, found>> /\ (s = "listing" => op[p] = "list")
  <2>1. PICK s \in {"listing", "write"} :
             Go(p, s) /\ UNCHANGED <<op, file, prof, found>> /\ (s = "listing" => op[p] = "list")
    BY <1>3
  <2>2. ProfileAt(p)'
    <3>1. ProfileAt(p)
      BY DEF ProfileInv, AvatarInv
    <3>2. at'[p] = s
      BY <2>1 DEF Go, KeepInv, TypeOK, LocalOK
    <3> QED BY <1>1, <2>1, <3>1, <3>2 DEF ProfileAt
  <2> QED BY <1>1, <2>1, <2>2, GoProfile DEF Places
<1> QED BY <1>2, <1>3, Zenon DEF Lock

LEMMA ListedProfile ==
  ASSUME KeepInv, ProfileInv, NEW p \in Procs, Listed(p) \/ WriteChat(p) \/ WriteFails(p)
  PROVE  ProfileInv'
<1>1. /\ End(p) /\ at[p] # "insert" /\ UNCHANGED <<onDisk, cache, raced, uploaded, blind>>
  BY DEF Listed, WriteChat, WriteFails, fileVars, history
<1>2. disk'["profile"] = disk["profile"]
  BY DEF Listed, WriteChat, WriteFails, fileVars, KeepInv, TypeOK, FilesOK
<1>3. torn \subseteq torn' /\ (at[p] = "writing" /\ file[p] = "profile" => "profile" \in torn')
  BY DEF Listed, WriteChat, WriteFails
<1> QED BY <1>1, <1>2, <1>3, EndProfile

\* While profile.json is open, nothing is said about the cache.
LEMMA TruncateProfile ==
  ASSUME KeepInv, ProfileInv, NEW p \in Procs, Truncate(p)
  PROVE  ProfileInv'
<1>1. /\ at[p] = "write" /\ Go(p, "writing")
      /\ UNCHANGED <<cache, op, file, prof, found, torn, raced, blind, uploaded>>
  BY DEF Truncate, history
<1>0. PICK s \in {"empty", "partial"} : disk' = [disk EXCEPT ![file[p]] = s]
  BY DEF Truncate
<1>2. at'[p] = "writing" /\ (\A q \in Procs : q # p => at'[q] = at[q])
      /\ disk \in [{"chat", "profile", "image"} -> FileStates] /\ file[p] \in {"chat", "profile", "image"}
  BY <1>1 DEF Go, KeepInv, TypeOK, LocalOK, FilesOK, FileInv, FileAt
<1>3. \A q \in Procs : ProfileAt(q)'
  <2> SUFFICES ASSUME NEW q \in Procs PROVE ProfileAt(q)'
    OBVIOUS
  <2>1. ProfileAt(q)
    BY DEF ProfileInv, AvatarInv
  <2> QED BY <1>1, <1>2, <2>1 DEF ProfileAt
<1>4. CASE file[p] # "profile"
  <2>1. disk'["profile"] = disk["profile"] /\ onDisk' = onDisk
    BY <1>0, <1>2, <1>4 DEF Truncate
  <2> QED BY <1>1, <1>3, <1>4, <2>1, GoProfile DEF Places
<1>5. CASE file[p] = "profile"
  <2>1. Saving' /\ disk'["profile"] \in {"empty", "partial"}
    BY <1>0, <1>1, <1>2, <1>5 DEF Saving
  <2>2. CacheInv'
    BY <2>1 DEF CacheInv
  <2>3. ASSUME uploaded', ~ blind', "profile" \notin torn'
        PROVE  /\ (\A q \in Procs : ~ (op'[q] = "upload" /\ at'[q] = "insert")) => \A c \in cache' : c.avatar
               /\ \A q \in Procs : op'[q] = "save" /\ at'[q] \in {"lock", "write", "writing", "insert"} => prof'[q].avatar
               /\ \A q \in Procs : at'[q] = "fill" => found'[q].avatar
    <3>1. /\ (\A q \in Procs : ~ (op[q] = "upload" /\ at[q] = "insert")) => \A c \in cache : c.avatar
          /\ \A q \in Procs : op[q] = "save" /\ at[q] \in {"lock", "write", "writing", "insert"} => prof[q].avatar
          /\ \A q \in Procs : at[q] = "fill" => found[q].avatar
      BY <1>1, <2>3 DEF ProfileInv, AvatarInv
    <3> QED BY <1>1, <1>2, <3>1
  <2>4. disk'["profile"] # "absent" /\ disk'["profile"] # "whole"
    BY <2>1
  <2> QED BY <1>3, <2>1, <2>2, <2>3, <2>4 DEF ProfileInv, AvatarInv
<1> QED BY <1>4, <1>5

\* An upload that has written its image loads the profile next.
LEMMA WriteImageProfile ==
  ASSUME KeepInv, ProfileInv, NEW p \in Procs, WriteImage(p)
  PROVE  ProfileInv'
<1>0. LocalOK /\ raced \in BOOLEAN /\ uploaded \in BOOLEAN
  BY Zenon DEF KeepInv, TypeOK, HistoryOK
<1>1. /\ at[p] = "writing" /\ file[p] = "image" /\ Go(p, "load")
      /\ file' = [file EXCEPT ![p] = "profile"]
      /\ UNCHANGED <<onDisk, cache, op, prof, found, torn, raced, blind, uploaded>>
  BY DEF WriteImage, history
<1>2. disk'["profile"] = disk["profile"]
  BY DEF WriteImage, KeepInv, TypeOK, FilesOK
<1>3. at'[p] = "load" /\ file'[p] = "profile" /\ Apart(p)
  BY <1>0, <1>1 DEF LocalOK, Go, Apart
<1>4. ProfileAt(p)'
  <2>1. op[p] = "upload"
    BY <1>1 DEF KeepInv, FileInv, FileAt, ProfileInv, AvatarInv, ProfileAt, Edits, ProfileCalls
  <2> QED BY <1>1, <1>3, <2>1 DEF ProfileAt, ProfileCalls
<1> QED BY <1>0, <1>1, <1>2, <1>3, <1>4, ProfileFrame

\* profile.json is replaced: a task that has an older profile at hand has raced
\* it, and if it is an upload's, overlapped it.
LEMMA WriteProfileProfile ==
  ASSUME KeepInv, ProfileInv, NEW p \in Procs, WriteProfile(p)
  PROVE  ProfileInv'
<1>0. LocalOK /\ raced \in BOOLEAN /\ uploaded \in BOOLEAN /\ blind \in BOOLEAN
  BY Zenon DEF KeepInv, TypeOK, HistoryOK
<1>1. /\ at[p] = "writing" /\ file[p] = "profile" /\ onDisk' = prof[p] /\ Go(p, "insert")
      /\ UNCHANGED <<cache, op, file, prof, found, torn>>
      /\ disk' = [disk EXCEPT !["profile"] = "whole"]
  BY DEF WriteProfile
<1>2. /\ raced' <=> raced \/ \E q \in Procs \ {p} : at[q] \in {"fill", "insert"}
      /\ blind' <=> blind \/ (op[p] = "upload" /\ \E q \in Procs \ {p} : Stale(q))
      /\ uploaded' <=> uploaded \/ op[p] = "upload"
  BY <1>0 DEF WriteProfile
<1>3. at'[p] = "insert" /\ Apart(p) /\ prof'[p] = prof[p] /\ disk'["profile"] = "whole"
  BY <1>0, <1>1 DEF LocalOK, Go, Apart, KeepInv, TypeOK, FilesOK
<1>4. op[p] \in {"save", "upload"}
  BY <1>1 DEF KeepInv, FileInv, FileAt, ProfileInv, AvatarInv, ProfileAt, Edits, ProfileCalls
<1>5. CacheInv'
  <2> SUFFICES ASSUME ~ raced'
               PROVE  /\ \A q \in Procs : at'[q] = "fill" => found'[q] = onDisk'
                      /\ \A q \in Procs : at'[q] = "insert" => prof'[q] = onDisk'
                      /\ \E q \in Procs : at'[q] = "insert"
    BY DEF CacheInv
  <2>1. \A q \in Procs : q # p => at[q] \notin {"fill", "insert"}
    BY <1>2
  <2> QED BY <1>1, <1>3, <2>1 DEF Apart
<1>6. \A q \in Procs : ProfileAt(q)'
  <2> SUFFICES ASSUME NEW q \in Procs PROVE ProfileAt(q)'
    OBVIOUS
  <2>1. ProfileAt(q)
    BY DEF ProfileInv, AvatarInv
  <2>2. CASE q = p
    BY <1>1, <1>3, <1>4, <2>1, <2>2 DEF ProfileAt
  <2>3. CASE q # p
    BY <1>3, <2>1, <2>3 DEF ProfileAt, Apart
  <2> QED BY <2>2, <2>3
<1>7. ASSUME uploaded', ~ blind', "profile" \notin torn'
      PROVE  /\ onDisk'.avatar
             /\ (\A q \in Procs : ~ (op'[q] = "upload" /\ at'[q] = "insert")) => \A c \in cache' : c.avatar
             /\ \A q \in Procs : op'[q] = "save" /\ at'[q] \in {"lock", "write", "writing", "insert"} => prof'[q].avatar
             /\ \A q \in Procs : at'[q] = "fill" => found'[q].avatar
  <2>1. CASE op[p] = "upload"
    <3>1. prof[p].avatar
      BY <1>1, <2>1 DEF ProfileInv, AvatarInv, ProfileAt
    <3>2. \A q \in Procs : q # p => ~ Stale(q)
      BY <1>2, <1>7, <2>1
    <3>3. \A q \in Procs : q # p => at[q] \notin {"fill", "insert"}
      BY <3>2 DEF Stale
    <3>4. \A q \in Procs : q # p /\ op[q] = "save" /\ at[q] \in {"lock", "write", "writing"} => prof[q].avatar
      BY <3>2 DEF Stale
    <3> QED BY <1>1, <1>3, <2>1, <3>1, <3>3, <3>4 DEF Apart
  <2>2. CASE op[p] = "save"
    <3>1. uploaded /\ ~ blind /\ "profile" \notin torn
      BY <1>1, <1>2, <1>7, <2>2
    <3>2. /\ (\A q \in Procs : ~ (op[q] = "upload" /\ at[q] = "insert")) => \A c \in cache : c.avatar
          /\ \A q \in Procs : op[q] = "save" /\ at[q] \in {"lock", "write", "writing", "insert"} => prof[q].avatar
          /\ \A q \in Procs : at[q] = "fill" => found[q].avatar
      BY <3>1 DEF ProfileInv, AvatarInv
    <3>3. prof[p].avatar
      BY <1>1, <2>2, <3>2
    <3>4. (\A q \in Procs : ~ (op'[q] = "upload" /\ at'[q] = "insert")) => \A q \in Procs : ~ (op[q] = "upload" /\ at[q] = "insert")
      BY <1>1, <1>3 DEF Apart
    <3> QED BY <1>1, <1>3, <3>2, <3>3, <3>4 DEF Apart
  <2> QED BY <1>4, <2>1, <2>2
<1>8. AvatarInv'
  BY <1>3, <1>6, <1>7 DEF AvatarInv
<1> QED BY <1>5, <1>8 DEF ProfileInv

\* load_profile has returned what the cache or the file had.
LEMMA LoadedProfile ==
  ASSUME KeepInv, ProfileInv, NEW p \in Procs, NEW old \in Profiles, Loaded(p, old),
         at[p] \in {"load", "fill"}, UNCHANGED <<onDisk, raced, uploaded, torn, disk>>,
         cache' = cache \/ CacheSet,
         blind => blind',
         uploaded /\ ~ blind' /\ "profile" \notin torn => old.avatar
  PROVE  ProfileInv'
<1>0. LocalOK /\ raced \in BOOLEAN /\ uploaded \in BOOLEAN
  BY Zenon DEF KeepInv, TypeOK, HistoryOK
<1>1. CASE End(p)
  BY <1>1, EndProfile
<1>2. CASE /\ op[p] # "profile"
           /\ prof' = [prof EXCEPT ![p] = Merge(op[p], @, old)] /\ Go(p, "lock")
           /\ UNCHANGED <<op, num, file, list, found>>
  <2>1. /\ at'[p] = "lock" /\ Apart(p) /\ prof'[p] = Merge(op[p], prof[p], old)
        /\ op'[p] = op[p] /\ file'[p] = file[p]
    BY <1>0, <1>2 DEF LocalOK, Go, Apart
  <2>2. op[p] \in {"save", "upload"} /\ (op[p] = "upload" => file[p] = "profile")
    BY <1>2 DEF ProfileInv, AvatarInv, ProfileAt, ProfileCalls
  <2>3. prof[p] \in Profiles
    BY <1>0 DEF LocalOK
  <2>4. /\ op[p] = "upload" => Merge(op[p], prof[p], old).avatar = TRUE
        /\ op[p] = "save" => Merge(op[p], prof[p], old).avatar = old.avatar
    BY <2>3 DEF Merge, Profiles
  <2>5. ProfileAt(p)'
    BY <2>1, <2>2, <2>4 DEF ProfileAt
  <2> QED BY <1>0, <1>2, <2>1, <2>2, <2>4, <2>5, ProfileFrame
<1> QED BY <1>1, <1>2, Zenon DEF Loaded

\* A cached profile has the avatar, or the call overlaps the upload.
LEMMA LoadProfile ==
  ASSUME KeepInv, ProfileInv, NEW p \in Procs, Load(p)
  PROVE  ProfileInv'
<1>1. /\ at[p] = "load"
      /\ UNCHANGED <<disk, onDisk, cache, torn, raced, uploaded>>
  BY DEF Load, fileVars
<1>2. CASE Go(p, "read") /\ UNCHANGED <<op, num, file, list, prof, found, blind>>
  <2>1. ProfileAt(p)'
    <3>1. at'[p] = "read"
      BY <1>2 DEF Go, KeepInv, TypeOK, LocalOK
    <3>2. ProfileAt(p)
      BY DEF ProfileInv, AvatarInv
    <3> QED BY <1>1, <1>2, <3>1, <3>2 DEF ProfileAt
  <2> QED BY <1>1, <1>2, <2>1, GoProfile DEF Places
<1>3. CASE \E old \in cache : Loaded(p, old) /\ blind' = (blind \/ \E q \in Procs : at[q] = "insert" /\ op[q] = "upload")
  <2>1. PICK old \in cache : Loaded(p, old) /\ blind' = (blind \/ \E q \in Procs : at[q] = "insert" /\ op[q] = "upload")
    BY <1>3
  <2>2. old \in Profiles
    BY Zenon DEF KeepInv, TypeOK, FilesOK
  <2>3. blind => blind'
    BY <2>1
  <2>4. uploaded /\ ~ blind' /\ "profile" \notin torn => old.avatar
    <3>1. ~ blind' => ~ blind /\ \A q \in Procs : ~ (op[q] = "upload" /\ at[q] = "insert")
      BY <2>1
    <3> QED BY <3>1 DEF ProfileInv, AvatarInv
  <2> QED BY <1>1, <2>1, <2>2, <2>3, <2>4, LoadedProfile
<1> QED BY <1>2, <1>3, Zenon DEF Load

\* What is read from the file is what is in it; a file that cannot be parsed is
\* cut or being rewritten.
LEMMA LoadReadProfile ==
  ASSUME KeepInv, ProfileInv, NEW p \in Procs, LoadRead(p)
  PROVE  ProfileInv'
<1>0. LocalOK /\ raced \in BOOLEAN /\ uploaded \in BOOLEAN
  BY Zenon DEF KeepInv, TypeOK, HistoryOK
<1>1. /\ at[p] = "read"
      /\ UNCHANGED <<disk, onDisk, cache, torn, raced, uploaded>>
  BY DEF LoadRead, fileVars
<1>2. CASE /\ disk["profile"] \in {"absent", "whole"}
           /\ found' = [found EXCEPT ![p] = onDisk] /\ Go(p, "fill")
           /\ UNCHANGED <<op, num, file, list, prof, blind>>
  <2>1. at'[p] = "fill" /\ found'[p] = onDisk /\ Apart(p) /\ op'[p] = op[p] /\ file'[p] = file[p]
    BY <1>0, <1>2 DEF LocalOK, Go, Apart
  <2>2. ProfileAt(p)'
    <3>1. ProfileAt(p)
      BY DEF ProfileInv, AvatarInv
    <3> QED BY <1>1, <2>1, <3>1 DEF ProfileAt
  <2>3. uploaded /\ ~ blind' /\ "profile" \notin torn' => found'[p].avatar
    BY <1>1, <1>2, <2>1 DEF ProfileInv, AvatarInv
  <2> QED BY <1>0, <1>1, <1>2, <2>1, <2>2, <2>3, ProfileFrame
<1>3. CASE /\ disk["profile"] \in {"empty", "partial"} /\ op[p] = "save"
           /\ blind' = (blind \/ lock # None)
           /\ Go(p, "lock") /\ UNCHANGED <<op, num, file, list, prof, found>>
  <2>1. at'[p] = "lock" /\ Apart(p) /\ op'[p] = op[p] /\ file'[p] = file[p]
    BY <1>0, <1>3 DEF LocalOK, Go, Apart
  <2>2. ProfileAt(p)'
    BY <1>3, <2>1 DEF ProfileAt
  <2>3. "profile" \in torn \/ blind'
    <3>1. ASSUME "profile" \notin torn PROVE blind'
      <4>1. PICK q \in Procs : at[q] = "writing"
        BY <1>3, <3>1 DEF ProfileInv, AvatarInv, Saving
      <4>2. lock = q
        BY <4>1 DEF KeepInv, LockInv
      <4>3. lock # None
        BY <4>2, StoreAssumption
      <4> QED BY <1>3, <4>3
    <3> QED BY <3>1
  <2>4. blind => blind'
    BY <1>3
  <2> QED BY <1>0, <1>1, <2>1, <2>2, <2>3, <2>4, ProfileFrame
<1>4. CASE End(p) /\ blind' = blind
  BY <1>1, <1>4, EndProfile
<1> QED BY <1>2, <1>3, <1>4, Zenon DEF LoadRead

\* Tasks that set the cache.
LEMMA FillProfile ==
  ASSUME KeepInv, ProfileInv, NEW p \in Procs, Fill(p)
  PROVE  ProfileInv'
<1>0. LocalOK /\ found[p] \in Profiles /\ raced \in BOOLEAN /\ uploaded \in BOOLEAN
  BY Zenon DEF KeepInv, TypeOK, HistoryOK, LocalOK
<1>1. /\ at[p] = "fill" /\ cache' = {found[p]} /\ Loaded(p, found[p])
      /\ UNCHANGED <<disk, onDisk, torn, raced, blind, uploaded>>
  BY DEF Fill, fileVars, history
<1>2. CacheSet
  BY <1>1 DEF CacheSet, ProfileInv, CacheInv, AvatarInv
<1>3. uploaded /\ ~ blind' /\ "profile" \notin torn => found[p].avatar
  BY <1>1 DEF ProfileInv, AvatarInv
<1> QED BY <1>0, <1>1, <1>2, <1>3, LoadedProfile

\* The cache follows the file: prof[p] is in it if nobody raced, and it has the
\* avatar if the task uploaded it.
LEMMA InsertProfile ==
  ASSUME KeepInv, ProfileInv, NEW p \in Procs, Insert(p)
  PROVE  ProfileInv'
<1>0. LocalOK /\ raced \in BOOLEAN /\ uploaded \in BOOLEAN /\ blind \in BOOLEAN
  BY Zenon DEF KeepInv, TypeOK, HistoryOK
<1>1. /\ at[p] = "insert" /\ cache' = {prof[p]} /\ End(p)
      /\ UNCHANGED <<disk, onDisk, torn, raced, blind, uploaded>>
  BY DEF Insert, fileVars, history
<1>2. at'[p] = "idle" /\ op'[p] = None /\ file'[p] = None /\ Apart(p)
  BY <1>0, <1>1, EndApart
<1>3. Saving' <=> Saving
  BY <1>1, <1>2 DEF Saving, Apart
<1>4. CacheInv'
  <2> SUFFICES ASSUME ~ raced', "profile" \notin torn', ~ Saving'
               PROVE  /\ \A q \in Procs : at'[q] = "fill" => found'[q] = onDisk'
                      /\ \A q \in Procs : at'[q] = "insert" => prof'[q] = onDisk'
                      /\ \A c \in cache' : c = onDisk'
    BY DEF CacheInv
  <2>1. /\ \A q \in Procs : at[q] = "fill" => found[q] = onDisk
        /\ \A q \in Procs : at[q] = "insert" => prof[q] = onDisk
    BY <1>1, <1>3 DEF ProfileInv, CacheInv
  <2> QED BY <1>1, <1>2, <2>1 DEF Apart
<1>5. \A q \in Procs : ProfileAt(q)'
  <2> SUFFICES ASSUME NEW q \in Procs PROVE ProfileAt(q)'
    OBVIOUS
  <2>1. ProfileAt(q)
    BY DEF ProfileInv, AvatarInv
  <2>2. CASE q = p
    BY <1>2, <2>2 DEF ProfileAt, None
  <2>3. CASE q # p
    BY <1>2, <2>1, <2>3 DEF ProfileAt, Apart
  <2> QED BY <2>2, <2>3
<1>6. "profile" \notin torn' /\ disk'["profile"] \in {"empty", "partial"} => Saving'
  BY <1>1, <1>3 DEF ProfileInv, AvatarInv
<1>7. ASSUME uploaded', ~ blind', "profile" \notin torn'
      PROVE  /\ disk'["profile"] # "absent"
             /\ disk'["profile"] = "whole" => onDisk'.avatar
             /\ \A c \in cache' : c.avatar
             /\ \A q \in Procs : op'[q] = "save" /\ at'[q] \in {"lock", "write", "writing", "insert"} => prof'[q].avatar
             /\ \A q \in Procs : at'[q] = "fill" => found'[q].avatar
  <2>1. uploaded /\ ~ blind /\ "profile" \notin torn
    BY <1>1, <1>7
  <2>2. /\ disk["profile"] # "absent"
        /\ disk["profile"] = "whole" => onDisk.avatar
        /\ \A q \in Procs : op[q] = "save" /\ at[q] \in {"lock", "write", "writing", "insert"} => prof[q].avatar
        /\ \A q \in Procs : at[q] = "fill" => found[q].avatar
    BY <2>1 DEF ProfileInv, AvatarInv
  <2>3. prof[p].avatar
    <3>1. op[p] \in {"save", "upload"}
      BY <1>1 DEF ProfileInv, AvatarInv, ProfileAt
    <3>2. op[p] = "upload" => prof[p].avatar
      BY <1>1 DEF ProfileInv, AvatarInv, ProfileAt
    <3> QED BY <1>1, <2>2, <3>1, <3>2
  <2>4. \A q \in Procs : op'[q] = "save" /\ at'[q] \in {"lock", "write", "writing", "insert"} => prof'[q].avatar
    BY <1>2, <2>2 DEF Apart, None
  <2>5. \A q \in Procs : at'[q] = "fill" => found'[q].avatar
    BY <1>2, <2>2 DEF Apart
  <2> QED BY <1>1, <2>2, <2>3, <2>4, <2>5
<1>8. AvatarInv'
  BY <1>5, <1>6, <1>7 DEF AvatarInv
<1> QED BY <1>4, <1>8 DEF ProfileInv

\* A save whose read fails no longer counts for the avatar.
LEMMA ReadFailsProfile ==
  ASSUME KeepInv, ProfileInv, NEW p \in Procs, ReadFails(p)
  PROVE  ProfileInv'
<1>0. LocalOK
  BY DEF KeepInv, TypeOK
<1>1. UNCHANGED <<disk, onDisk, cache, torn, raced, uploaded>>
  BY ReadFailsCases
<1>2. CASE ViewFails(p)
  <2>1. op[p] = "view" /\ at'[p] = "lock" /\ op'[p] = op[p]
    BY <1>0, <1>2 DEF ViewFails, Go, LocalOK, KeepInv, FileInv, FileAt
  <2>2. ProfileAt(p)'
    BY <2>1 DEF ProfileAt
  <2> QED BY <1>1, <1>2, <2>1, <2>2, GoProfile DEF ViewFails, Places
<1>3. CASE SaveFails(p)
  <2>1. op[p] = "save" /\ at'[p] = "lock" /\ op'[p] = op[p]
    BY <1>0, <1>3 DEF SaveFails, Go, LocalOK
  <2>2. ProfileAt(p)'
    BY <2>1 DEF ProfileAt
  <2> QED BY <1>1, <1>3, <2>1, <2>2, GoProfile DEF SaveFails, Places
<1>4. CASE CallStops(p)
  BY <1>1, <1>4, EndProfile DEF CallStops
<1> QED BY <1>2, <1>3, <1>4, ReadFailsCases

\* After a crash no task and no cache is left; a crash while profile.json was
\* being rewritten is in torn.
LEMMA RestartProfile ==
  ASSUME KeepInv, ProfileInv, Restart
  PROVE  ProfileInv'
<1>1. /\ torn' = torn \cup {file[p] : p \in {q \in Procs : at[q] = "writing"}}
      /\ cache' = {} /\ UNCHANGED <<disk, onDisk, raced, blind, uploaded>>
      /\ \A q \in Procs : at'[q] = "idle" /\ op'[q] = None
  BY DEF Restart, fileVars, history
<1>2. "profile" \notin torn' => "profile" \notin torn /\ ~ Saving
  BY <1>1 DEF Saving
<1>3. \A q \in Procs : ProfileAt(q)'
  BY <1>1 DEF ProfileAt, None
<1>4. CacheInv'
  BY <1>1 DEF CacheInv
<1>5. "profile" \notin torn' => disk'["profile"] \notin {"empty", "partial"}
  BY <1>1, <1>2 DEF ProfileInv, AvatarInv
<1>6. uploaded' /\ ~ blind' /\ "profile" \notin torn' =>
        disk'["profile"] # "absent" /\ (disk'["profile"] = "whole" => onDisk'.avatar)
  BY <1>1, <1>2 DEF ProfileInv, AvatarInv
<1>7. AvatarInv'
  BY <1>1, <1>3, <1>5, <1>6 DEF AvatarInv
<1> QED BY <1>4, <1>7 DEF ProfileInv

LEMMA NextProfile == KeepInv /\ ProfileInv /\ [Next]_vars => ProfileInv'
<1> SUFFICES ASSUME KeepInv, ProfileInv, [Next]_vars PROVE ProfileInv'
  OBVIOUS
<1>1. ASSUME NEW p \in Procs, NEW o \in Calls, NEW new \in Profiles, Call(p, o, new) PROVE ProfileInv'
  BY <1>1, CallProfile
<1>2. ASSUME NEW p \in Procs, Step(p) PROVE ProfileInv'
  BY <1>2, GetProfile, LockProfile, ListedProfile, TruncateProfile, WriteProfileProfile,
     WriteImageProfile, LoadProfile, LoadReadProfile, FillProfile, InsertProfile, Zenon DEF Step
<1>3. ASSUME NEW p \in Procs, WriteFails(p) PROVE ProfileInv'
  BY <1>3, ListedProfile
<1>6. ASSUME NEW p \in Procs, ReadFails(p) PROVE ProfileInv'
  BY <1>6, ReadFailsProfile
<1>4. CASE Restart
  BY <1>4, RestartProfile
<1>5. CASE UNCHANGED vars
  <2>1. CacheInv'
    BY <1>5 DEF ProfileInv, CacheInv, Saving, vars, fileVars, local, history
  <2>2. AvatarInv'
    BY <1>5 DEF ProfileInv, AvatarInv, ProfileAt, Saving, vars, fileVars, local, history
  <2> QED BY <2>1, <2>2 DEF ProfileInv
<1> QED BY <1>1, <1>2, <1>3, <1>4, <1>5, <1>6, Zenon DEF Next

\* The invariant about profiles holds in every state, for any number of tasks,
\* calls, names and faults.
THEOREM ProfileInvariant == Spec => []ProfileInv
<1>1. Init => ProfileInv
  <2> SUFFICES ASSUME Init PROVE ProfileInv
    OBVIOUS
  <2>1. CacheInv
    BY DEF Init, CacheInv
  <2>2. AvatarInv
    BY DEF Init, AvatarInv, ProfileAt, None
  <2> QED BY <2>1, <2>2 DEF ProfileInv
<1>2. KeepInv /\ ProfileInv /\ [Next]_vars => ProfileInv'
  BY NextProfile
<1> QED BY <1>1, <1>2, StoreInvariant, PTL DEF Spec

\* profile_cache does not disagree with profile.json once nobody is about to
\* write the one or set the other, unless a save raced a load or was cut.
THEOREM CacheIsCurrent == Spec => []CacheCurrent
<1>1. ProfileInv => CacheCurrent
  BY DEF ProfileInv, CacheInv, CacheCurrent, Saving
<1> QED BY <1>1, ProfileInvariant, PTL

\* A save of the settings page keeps the avatar handle_upload_avatar set,
\* unless the two overlapped, the save could not read the profile, or a write
\* was cut.
THEOREM AvatarStays == Spec => []AvatarKept
<1>1. ProfileInv => AvatarKept
  BY DEF ProfileInv, AvatarInv, AvatarKept
<1> QED BY <1>1, ProfileInvariant, PTL

-----------------------------------------------------------------------------
(* Which messages mark_as_read may mark.                                   *)

\* All messages of a list that are marked as read are in S.
ReadIn(msgs, S) == \A i \in DOMAIN msgs : msgs[i].status = "read" => msgs[i].tok \in S
Editing(q) == at[q] \in {"write", "writing"} /\ file[q] = "chat"
Viewing(p) == op[p] = "view" /\ at[p] = "lock"
Seen == shown \cup missed

\* The messages a view finds when it has the lock are those it listed or
\* missed: the file, and the list that may replace it before, hold no others.
ShownInv ==
  /\ ReadIn(chat, Seen) /\ \A q \in Procs : ReadIn(list[q], Seen)
  /\ \A q \in Procs : at[q] = "write" /\ file[q] = "chat" => Toks(list[q]) \subseteq Toks(chat) \cup {num[q]}
  /\ \A p \in Procs : Viewing(p) =>
       /\ Toks(chat) \subseteq Seen
       /\ \A q \in Procs : Editing(q) => Toks(list[q]) \subseteq Seen \cup {num[q]}

\* The messages of an edited list are the old ones and the one add_message
\* makes; only mark_as_read marks any as read.
LEMMA EditMarks ==
  ASSUME NEW msgs \in Seq(Messages), NEW o \in Edits, NEW tok \in 1 .. MaxCalls, NEW S,
         ReadIn(msgs, S), o = "view" => Toks(msgs) \subseteq S
  PROVE  /\ Toks(Edited(msgs, o, tok)) \subseteq Toks(msgs) \cup {tok}
         /\ ReadIn(Edited(msgs, o, tok), S)
<1> DEFINE new == Edited(msgs, o, tok)
<1>0. /\ Len(msgs) \in Nat /\ DOMAIN msgs = 1 .. Len(msgs)
      /\ \A i \in DOMAIN msgs : msgs[i] \in Messages
  OBVIOUS
<1>1. CASE o \in {"delivered", "view"}
  <2>1. DOMAIN new = DOMAIN msgs
    BY <1>0, <1>1 DEF Edited, Delivered, MarkedRead
  <2>2. ASSUME NEW i \in DOMAIN msgs
        PROVE  /\ new[i].tok = msgs[i].tok
               /\ new[i].status = "read" => msgs[i].status = "read" \/ o = "view"
    BY <1>0, <1>1, <2>2 DEF Edited, Delivered, MarkedRead, Messages
  <2> HIDE DEF new
  <2>3. Toks(new) \subseteq Toks(msgs)
    BY <2>1, <2>2 DEF Toks
  <2>4. ReadIn(new, S)
    BY <2>1, <2>2 DEF ReadIn, Toks
  <2> QED BY <2>3, <2>4 DEF new
<1>2. CASE o \in {"sent", "received"}
  <2> DEFINE m == [tok |-> tok, id |-> NextId(msgs), out |-> o = "sent", status |-> o]
  <2>1. m.tok = tok /\ m.status # "read"
    BY <1>2
  <2>2. new = Append(msgs, m)
    BY <1>2 DEF Edited, Added
  <2> HIDE DEF m, new
  <2>3. /\ DOMAIN new = 1 .. Len(msgs) + 1
        /\ \A i \in DOMAIN msgs : new[i] = msgs[i]
        /\ new[Len(msgs) + 1] = m
    BY <1>0, <2>2
  <2>4. \A i \in DOMAIN new : i \in DOMAIN msgs \/ i = Len(msgs) + 1
    BY <1>0, <2>3
  <2>5. Toks(new) \subseteq Toks(msgs) \cup {tok}
    BY <2>1, <2>3, <2>4 DEF Toks
  <2>6. ReadIn(new, S)
    BY <2>1, <2>3, <2>4 DEF ReadIn
  <2> QED BY <2>5, <2>6 DEF new
<1> QED BY <1>1, <1>2 DEF Edits

LEMMA EmptyMarks == \A S : ReadIn(<<>>, S) /\ Toks(<<>>) = {}
BY DEF ReadIn, Toks

\* A step of p that leaves chat.json alone.
LEMMA ShownFrame ==
  ASSUME ShownInv, NEW p \in Procs, Others(p), chat' = chat, Seen \subseteq Seen',
         ReadIn(list'[p], Seen'),
         ~ (at'[p] = "writing" /\ file'[p] = "chat"),
         at'[p] = "write" /\ file'[p] = "chat" => Toks(list'[p]) \subseteq Toks(chat) \cup {num'[p]},
         op'[p] = "view" /\ at'[p] = "lock" =>
           /\ Toks(chat) \subseteq Seen'
           /\ \A q \in Procs \ {p} : Editing(q) => Toks(list[q]) \subseteq Seen' \cup {num[q]}
  PROVE  ShownInv'
<1>1. ReadIn(chat', Seen') /\ \A q \in Procs : ReadIn(list'[q], Seen')
  <2>1. ReadIn(chat', Seen')
    BY DEF ShownInv, ReadIn
  <2>2. ASSUME NEW q \in Procs, q # p PROVE ReadIn(list'[q], Seen')
    <3>1. ReadIn(list[q], Seen) /\ list'[q] = list[q]
      BY <2>2 DEF ShownInv, Others
    <3> QED BY <3>1 DEF ReadIn
  <2> QED BY <2>1, <2>2
<1>2. ASSUME NEW q \in Procs, at'[q] = "write", file'[q] = "chat"
      PROVE  Toks(list'[q]) \subseteq Toks(chat') \cup {num'[q]}
  <2>1. CASE q = p
    BY <1>2, <2>1
  <2>2. CASE q # p
    <3>1. at[q] = "write" /\ file[q] = "chat" /\ list'[q] = list[q] /\ num'[q] = num[q]
      BY <1>2, <2>2 DEF Others
    <3> QED BY <3>1 DEF ShownInv
  <2> QED BY <2>1, <2>2
<1>3. ASSUME NEW r \in Procs, op'[r] = "view", at'[r] = "lock"
      PROVE  /\ Toks(chat') \subseteq Seen'
             /\ \A q \in Procs : at'[q] \in {"write", "writing"} /\ file'[q] = "chat" =>
                  Toks(list'[q]) \subseteq Seen' \cup {num'[q]}
  <2>1. /\ Toks(chat) \subseteq Seen'
        /\ \A q \in Procs \ {p} : Editing(q) => Toks(list[q]) \subseteq Seen' \cup {num[q]}
    <3>1. CASE r = p
      BY <1>3, <3>1
    <3>2. CASE r # p
      <4>1. Viewing(r)
        BY <1>3, <3>2 DEF Viewing, Others
      <4> QED BY <4>1 DEF ShownInv
    <3> QED BY <3>1, <3>2
  <2>2. ASSUME NEW q \in Procs, at'[q] \in {"write", "writing"}, file'[q] = "chat"
        PROVE  Toks(list'[q]) \subseteq Seen' \cup {num'[q]}
    <3>1. CASE q = p
      BY <2>1, <2>2, <3>1
    <3>2. CASE q # p
      <4>1. Editing(q) /\ list'[q] = list[q] /\ num'[q] = num[q]
        BY <2>2, <3>2 DEF Editing, Others
      <4> QED BY <2>1, <3>2, <4>1
    <3> QED BY <3>1, <3>2
  <2> QED BY <2>1, <2>2
<1> QED BY <1>1, <1>2, <1>3 DEF ShownInv, Viewing, Editing

\* A task that ends has no list any more.
LEMMA EndShown ==
  ASSUME KeepInv, ShownInv, NEW p \in Procs, End(p), chat' = chat, Seen \subseteq Seen'
  PROVE  ShownInv'
<1>1. Others(p) /\ at'[p] = "idle" /\ list'[p] = <<>>
  BY EndFrame DEF KeepInv, TypeOK, Others
<1>2. ReadIn(list'[p], Seen')
  BY <1>1, EmptyMarks
<1> QED BY <1>1, <1>2, ShownFrame

\* A task that keeps its list and does not come to edit or view messages.
LEMMA MoveShown ==
  ASSUME KeepInv, ShownInv, NEW p \in Procs, Others(p), list'[p] = list[p], chat' = chat, Seen' = Seen,
         at'[p] \notin {"write", "writing"} \/ file'[p] # "chat",
         at'[p] # "lock" \/ op'[p] # "view"
  PROVE  ShownInv'
<1>1. ReadIn(list'[p], Seen')
  BY DEF ShownInv
<1> QED BY <1>1, ShownFrame

LEMMA CallShown ==
  ASSUME KeepInv, ShownInv, NEW p \in Procs, NEW o \in Calls, NEW new \in Profiles, Call(p, o, new)
  PROVE  ShownInv'
<1>1. Others(p) /\ at'[p] \in {"lock", "get", "load"} /\ list'[p] = list[p] /\ op'[p] = o
      /\ (at'[p] = "lock" => o # "view")
  BY DEF KeepInv, TypeOK, LocalOK, Call, Others, Entry
<1>2. chat' = chat /\ Seen' = Seen
  BY DEF Call, fileVars, history, Seen
<1> QED BY <1>1, <1>2, MoveShown

\* The response lists the file, and the list that is replacing it counts as
\* missed.
LEMMA GetShown ==
  ASSUME KeepInv, ShownInv, NEW p \in Procs, Get(p)
  PROVE  ShownInv'
<1>1. at'[p] = "lock" /\ Others(p)
  BY GoTypes DEF KeepInv, TypeOK, Get, Places
<1>2. chat' = chat /\ list'[p] = list[p]
  BY DEF Get, fileVars
<1>3. Seen \subseteq Seen' /\ Toks(chat) \subseteq Seen'
  BY DEF Get, Seen
<1>4. ASSUME NEW q \in Procs, Editing(q) PROVE Toks(list[q]) \subseteq Seen' \cup {num[q]}
  <2>1. CASE at[q] = "write"
    BY <1>3, <1>4, <2>1 DEF ShownInv, Editing
  <2>2. CASE at[q] = "writing"
    <3>1. q \in {r \in Procs : at[r] = "writing" /\ file[r] = "chat"}
      BY <1>4, <2>2 DEF Editing
    <3>2. Toks(list[q]) \subseteq missed'
      BY <3>1 DEF Get, Rewriting
    <3> QED BY <3>2 DEF Seen
  <2> QED BY <1>4, <2>1, <2>2 DEF Editing
<1>5. ReadIn(list'[p], Seen')
  BY <1>2, <1>3 DEF ShownInv, ReadIn
<1> QED BY <1>1, <1>2, <1>3, <1>4, <1>5, ShownFrame

\* A view that has the lock marks what it has listed or missed.
LEMMA LockShown ==
  ASSUME KeepInv, ShownInv, NEW p \in Procs, Lock(p)
  PROVE  ShownInv'
<1>1. at[p] = "lock" /\ chat' = chat /\ Seen' = Seen
  BY DEF Lock, fileVars, history, Seen
<1>2. CASE End(p)
  BY <1>1, <1>2, EndShown
<1>3. CASE /\ op[p] \in Edits
           /\ list' = [list EXCEPT ![p] = Edited(chat, op[p], num[p])] /\ Go(p, "write")
           /\ UNCHANGED <<op, num, file, prof, found>>
  <2>1. /\ at'[p] = "write" /\ list'[p] = Edited(chat, op[p], num[p]) /\ num'[p] = num[p]
        /\ Others(p)
    BY <1>3 DEF KeepInv, TypeOK, LocalOK, Go, Others
  <2>2. num[p] \in 1 .. MaxCalls
    <3>1. num[p] \in 0 .. MaxCalls
      BY Zenon DEF KeepInv, TypeOK, LocalOK
    <3>2. num[p] # 0
      BY <1>3 DEF KeepInv, FileInv, FileAt, Edits, None
    <3>3. MaxCalls \in Nat
      BY StoreAssumption
    <3> QED BY <3>1, <3>2, <3>3
  <2>3. chat \in Seq(Messages)
    BY Zenon DEF KeepInv, TypeOK, FilesOK
  <2>4. ReadIn(chat, Seen) /\ (op[p] = "view" => Toks(chat) \subseteq Seen)
    BY <1>1 DEF ShownInv, Viewing
  <2>5. /\ Toks(list'[p]) \subseteq Toks(chat) \cup {num[p]}
        /\ ReadIn(list'[p], Seen)
    BY <1>3, <2>1, <2>2, <2>3, <2>4, EditMarks
  <2> QED BY <1>1, <2>1, <2>5, ShownFrame
<1>4. CASE /\ op[p] \in {"list"} \cup ProfileCalls
           /\ \E s \in {"listing", "write"} : Go(p, s) /\ (s = "write" => op[p] \in ProfileCalls)
           /\ UNCHANGED <<op, num, file, list, prof, found>>
  <2>1. PICK s \in {"listing", "write"} : Go(p, s) /\ (s = "write" => op[p] \in ProfileCalls)
    BY <1>4
  <2>2. at'[p] = s /\ Others(p) /\ op'[p] = op[p] /\ file'[p] = file[p] /\ list'[p] = list[p]
    BY <1>4, <2>1, GoTypes DEF KeepInv, TypeOK, Places
  <2>3. op[p] \in ProfileCalls => file[p] # "chat"
    BY <1>1 DEF KeepInv, FileInv, FileAt
  <2> QED BY <1>1, <2>1, <2>2, <2>3, MoveShown
<1> QED BY <1>2, <1>3, <1>4, Zenon DEF Lock

LEMMA EndingShown ==
  ASSUME KeepInv, ShownInv, NEW p \in Procs, Listed(p) \/ WriteFails(p) \/ Insert(p)
  PROVE  ShownInv'
<1>1. End(p) /\ chat' = chat /\ Seen' = Seen
  BY DEF Listed, WriteFails, Insert, fileVars, history, Seen
<1> QED BY <1>1, EndShown

\* An opened chat.json holds no message; the holder of the lock has the list.
LEMMA TruncateShown ==
  ASSUME KeepInv, ShownInv, NEW p \in Procs, Truncate(p)
  PROVE  ShownInv'
<1>1. /\ at[p] = "write" /\ Go(p, "writing") /\ UNCHANGED <<op, num, file, list, prof, found>>
      /\ Seen' = Seen
      /\ chat' = IF file[p] = "chat" THEN <<>> ELSE chat
  BY DEF Truncate, history, Seen
<1>2. at'[p] = "writing" /\ Others(p)
  BY <1>1, GoTypes DEF KeepInv, TypeOK, Places
<1>3. CASE file[p] # "chat"
  BY <1>1, <1>2, <1>3, MoveShown
<1>4. CASE file[p] = "chat"
  <2>1. chat' = <<>> /\ list' = list /\ num' = num /\ file' = file /\ op' = op
    BY <1>1, <1>4
  <2>2. \A q \in Procs : q # p => at[q] \notin {"write", "writing"}
    BY <1>1 DEF KeepInv, LockInv
  <2>3. ReadIn(chat', Seen') /\ Toks(chat') = {}
    BY <2>1, EmptyMarks
  <2>4. \A q \in Procs : ReadIn(list'[q], Seen')
    BY <1>1, <2>1 DEF ShownInv
  <2>5. \A q \in Procs : at'[q] # "write"
    BY <1>2, <2>2 DEF Others
  <2>6. ASSUME NEW r \in Procs, op'[r] = "view", at'[r] = "lock",
               NEW q \in Procs, at'[q] \in {"write", "writing"}
        PROVE  Toks(list'[q]) \subseteq Seen' \cup {num'[q]}
    <3>1. q = p
      BY <1>2, <2>2, <2>6 DEF Others
    <3>2. Viewing(r)
      BY <1>2, <2>1, <2>6 DEF Others, Viewing
    <3>3. Editing(p)
      BY <1>1, <1>4 DEF Editing
    <3>4. Toks(list[p]) \subseteq Seen \cup {num[p]}
      BY <3>2, <3>3 DEF ShownInv
    <3> QED BY <1>1, <2>1, <3>1, <3>4
  <2> QED BY <2>3, <2>4, <2>5, <2>6 DEF ShownInv, Viewing, Editing
<1> QED BY <1>3, <1>4

\* What an add_message writes while a view waits for the lock counts as missed.
LEMMA WriteChatShown ==
  ASSUME KeepInv, ShownInv, NEW p \in Procs, WriteChat(p)
  PROVE  ShownInv'
<1>1. /\ at[p] = "writing" /\ file[p] = "chat" /\ chat' = list[p] /\ End(p)
      /\ shown' = shown
      /\ missed' = IF \E q \in Procs : op[q] = "view" /\ at[q] = "lock" THEN missed \cup ({num[p]} \cap Toks(list[p])) ELSE missed
  BY DEF WriteChat
<1>2. Others(p) /\ at'[p] = "idle" /\ list'[p] = <<>>
  BY <1>1, EndFrame DEF KeepInv, TypeOK, Others
<1>3. \A q \in Procs : q # p => at[q] \notin {"write", "writing"}
  BY <1>1 DEF KeepInv, LockInv
<1>4. \A q \in Procs : at'[q] \notin {"write", "writing"}
  BY <1>2, <1>3 DEF Others
<1>5. Seen \subseteq Seen'
  BY <1>1 DEF Seen
<1>6. ReadIn(chat', Seen')
  BY <1>1, <1>5 DEF ShownInv, ReadIn
<1>7. ASSUME NEW q \in Procs PROVE ReadIn(list'[q], Seen')
  <2>1. CASE q = p
    BY <1>2, <2>1, EmptyMarks
  <2>2. CASE q # p
    <3>1. list'[q] = list[q] /\ ReadIn(list[q], Seen)
      BY <1>2, <2>2 DEF ShownInv, Others
    <3> QED BY <1>5, <3>1 DEF ReadIn
  <2> QED BY <2>1, <2>2
<1>8. ASSUME NEW r \in Procs, op'[r] = "view", at'[r] = "lock"
      PROVE  Toks(chat') \subseteq Seen'
  <2>1. r # p
    BY <1>2, <1>8
  <2>2. op[r] = "view" /\ at[r] = "lock"
    BY <1>2, <1>8, <2>1 DEF Others
  <2>3. Viewing(r) /\ Editing(p)
    BY <1>1, <2>2 DEF Viewing, Editing
  <2>4. Toks(list[p]) \subseteq Seen \cup {num[p]}
    BY <2>3 DEF ShownInv
  <2>5. missed' = missed \cup ({num[p]} \cap Toks(list[p]))
    BY <1>1, <2>2
  <2> QED BY <1>1, <2>4, <2>5 DEF Seen
<1> QED BY <1>4, <1>6, <1>7, <1>8 DEF ShownInv, Viewing, Editing

\* The steps about profiles touch no message.
LEMMA ProfileShown ==
  ASSUME KeepInv, ShownInv, NEW p \in Procs, WriteProfile(p) \/ WriteImage(p) \/ Load(p) \/ LoadRead(p) \/ Fill(p),
         ProfileAt(p)
  PROVE  ShownInv'
<1>1. chat' = chat /\ Seen' = Seen
  BY DEF WriteProfile, WriteImage, Load, LoadRead, Fill, fileVars, history, Seen
<1>2. CASE End(p)
  BY <1>1, <1>2, EndShown
<1>3. CASE WriteProfile(p)
  <2>1. Go(p, "insert") /\ UNCHANGED <<op, num, file, list, prof, found>>
    BY <1>3 DEF WriteProfile
  <2>2. at'[p] = "insert" /\ Others(p) /\ list'[p] = list[p]
    BY <2>1, GoTypes DEF KeepInv, TypeOK, Places
  <2> QED BY <1>1, <2>2, MoveShown
<1>4. CASE WriteImage(p)
  <2>1. at'[p] = "load" /\ Others(p) /\ list'[p] = list[p]
    BY <1>4 DEF WriteImage, Go, KeepInv, TypeOK, LocalOK, Others
  <2> QED BY <1>1, <2>1, MoveShown
<1>5. CASE \E s \in {"read", "fill", "lock"} :
             at[p] \in {"load", "read", "fill"} /\ Go(p, s) /\ UNCHANGED <<op, num, file, list>>
  <2>1. PICK s \in {"read", "fill", "lock"} :
             at[p] \in {"load", "read", "fill"} /\ Go(p, s) /\ UNCHANGED <<op, num, file, list>>
    BY <1>5
  <2>2. at'[p] = s /\ Others(p) /\ list'[p] = list[p] /\ op'[p] = op[p]
    BY <2>1 DEF Go, KeepInv, TypeOK, LocalOK, Others
  <2>3. op[p] # "view"
    BY <2>1 DEF ProfileAt, ProfileCalls
  <2> QED BY <1>1, <2>2, <2>3, MoveShown
<1> QED BY <1>2, <1>3, <1>4, <1>5, Zenon DEF Load, LoadRead, Fill, Loaded

\* What a view could not read counts as missed.
LEMMA ReadFailsShown ==
  ASSUME KeepInv, ShownInv, NEW p \in Procs, ReadFails(p)
  PROVE  ShownInv'
<1>0. LocalOK
  BY DEF KeepInv, TypeOK
<1>1. chat' = chat /\ shown' = shown
  BY ReadFailsCases
<1>2. CASE ViewFails(p)
  <2>1. at'[p] = "lock" /\ Others(p) /\ list'[p] = list[p]
    BY <1>0, <1>2, GoTypes DEF ViewFails, Places
  <2>2. Seen \subseteq Seen' /\ Toks(chat) \subseteq Seen' /\ Rewriting \subseteq Seen'
    BY <1>1, <1>2 DEF ViewFails, Seen
  <2>3. ASSUME NEW q \in Procs, Editing(q) PROVE Toks(list[q]) \subseteq Seen' \cup {num[q]}
    <3>1. CASE at[q] = "write"
      BY <2>2, <2>3, <3>1 DEF ShownInv, Editing
    <3>2. CASE at[q] = "writing"
      <4>1. q \in {r \in Procs : at[r] = "writing" /\ file[r] = "chat"}
        BY <2>3, <3>2 DEF Editing
      <4>2. Toks(list[q]) \subseteq Rewriting
        BY <4>1 DEF Rewriting
      <4> QED BY <2>2, <4>2
    <3> QED BY <2>3, <3>1, <3>2 DEF Editing
  <2>4. ReadIn(list'[p], Seen')
    BY <2>1, <2>2 DEF ShownInv, ReadIn
  <2> QED BY <1>1, <2>1, <2>2, <2>3, <2>4, ShownFrame
<1>3. CASE SaveFails(p)
  <2>1. at'[p] = "lock" /\ Others(p) /\ list'[p] = list[p] /\ op'[p] = "save"
    BY <1>0, <1>3, GoTypes DEF SaveFails, Places
  <2>2. Seen' = Seen
    BY <1>1, <1>3 DEF SaveFails, Seen
  <2> QED BY <1>1, <2>1, <2>2, MoveShown
<1>4. CASE CallStops(p)
  <2>1. End(p) /\ Seen' = Seen
    BY <1>1, <1>4 DEF CallStops, Seen
  <2> QED BY <1>1, <2>1, EndShown
<1> QED BY <1>2, <1>3, <1>4, ReadFailsCases

\* After a crash only the file is left.
LEMMA RestartShown ==
  ASSUME KeepInv, ShownInv, Restart
  PROVE  ShownInv'
<1>1. chat' = chat /\ Seen' = Seen
  BY DEF Restart, fileVars, history, Seen
<1>2. \A q \in Procs : at'[q] = "idle" /\ list'[q] = <<>>
  BY DEF Restart
<1>3. ReadIn(chat', Seen') /\ \A q \in Procs : ReadIn(list'[q], Seen')
  BY <1>1, <1>2, EmptyMarks DEF ShownInv
<1> QED BY <1>2, <1>3 DEF ShownInv, Viewing, Editing

LEMMA NextShown == KeepInv /\ ProfileInv /\ ShownInv /\ [Next]_vars => ShownInv'
<1> SUFFICES ASSUME KeepInv, ProfileInv, ShownInv, [Next]_vars PROVE ShownInv'
  OBVIOUS
<1>1. ASSUME NEW p \in Procs, NEW o \in Calls, NEW new \in Profiles, Call(p, o, new) PROVE ShownInv'
  BY <1>1, CallShown
<1>2. ASSUME NEW p \in Procs, Step(p) PROVE ShownInv'
  <2>1. ProfileAt(p)
    BY DEF ProfileInv, AvatarInv
  <2> QED BY <1>2, <2>1, GetShown, LockShown, EndingShown, TruncateShown, WriteChatShown, ProfileShown, Zenon DEF Step
<1>3. ASSUME NEW p \in Procs, WriteFails(p) PROVE ShownInv'
  BY <1>3, EndingShown
<1>6. ASSUME NEW p \in Procs, ReadFails(p) PROVE ShownInv'
  BY <1>6, ReadFailsShown
<1>4. CASE Restart
  BY <1>4, RestartShown
<1>5. CASE UNCHANGED vars
  <2>1. UNCHANGED <<chat, list, at, op, num, file>> /\ Seen' = Seen
    BY <1>5 DEF vars, fileVars, local, history, Seen
  <2> QED BY <2>1 DEF ShownInv, Viewing, Editing
<1> QED BY <1>1, <1>2, <1>3, <1>4, <1>5, <1>6, Zenon DEF Next

\* A message is marked as read only if a response has listed it, it was stored
\* between the reading and the marking of a view, or the view read the file
\* while it was being rewritten or could not read it; for any number of tasks
\* and calls.
THEOREM ReadsWereShown == Spec => []ReadWasShown
<1>1. Init => ShownInv
  <2> SUFFICES ASSUME Init PROVE ShownInv
    OBVIOUS
  <2>1. chat = <<>> /\ \A q \in Procs : list[q] = <<>> /\ at[q] = "idle"
    BY DEF Init
  <2>2. ReadIn(chat, Seen) /\ \A q \in Procs : ReadIn(list[q], Seen)
    BY <2>1, EmptyMarks
  <2> QED BY <2>1, <2>2 DEF ShownInv, Viewing
<1>2. KeepInv /\ ProfileInv /\ ShownInv /\ [Next]_vars => ShownInv'
  BY NextShown
<1>3. ShownInv => ReadWasShown
  BY DEF ShownInv, ReadIn, ReadWasShown, Seen
<1> QED BY <1>1, <1>2, <1>3, StoreInvariant, ProfileInvariant, PTL DEF Spec

-----------------------------------------------------------------------------
(* Nobody is stuck, and calls run out.                                     *)

\* The lock is held by a task that rewrites or lists files, and whoever loads a
\* profile has no image to write.
HolderInv == lock \in Procs => at[lock] \in {"write", "writing", "listing"}
LoadInv == \A p \in Procs : at[p] \in {"load", "read", "fill"} => file[p] # "image"
RunInv == HolderInv /\ LoadInv

\* What a step does to the lock, the place of its task and its file.
Takes(p) == at[p] = "lock" /\ lock = None /\ at'[p] \in {"write", "listing"} /\ lock' = p /\ file'[p] = file[p]
Gives(p) ==
  \/ at[p] \in {"writing", "listing"} /\ at'[p] = "idle" /\ lock' = None
  \/ at[p] = "writing" /\ file[p] = "profile" /\ at'[p] = "insert" /\ lock' = None /\ file'[p] = file[p]
  \/ at[p] = "writing" /\ file[p] = "image" /\ at'[p] = "load" /\ lock' = None /\ file'[p] = "profile"
Moves(p) ==
  /\ lock' = lock
  /\ \/ at[p] \in {"lock", "load", "read", "fill", "insert"} /\ at'[p] = "idle"
     \/ /\ file'[p] = file[p]
        /\ \/ at[p] = "get" /\ at'[p] = "lock" /\ file[p] = "chat"
           \/ at[p] = "write" /\ at'[p] = "writing"
           \/ at[p] = "load" /\ at'[p] \in {"read", "lock"}
           \/ at[p] = "read" /\ at'[p] \in {"fill", "lock"}
           \/ at[p] = "fill" /\ at'[p] = "lock"

LEMMA EndMoves ==
  ASSUME LocalOK, NEW p \in Procs, End(p)
  PROVE  at'[p] = "idle" /\ Others(p)
BY EndFrame DEF Others

LEMMA GoMoves ==
  ASSUME LocalOK, NEW p \in Procs, NEW s \in Places, Go(p, s), UNCHANGED <<op, num, file, list>>
  PROVE  at'[p] = s /\ file'[p] = file[p] /\ Others(p)
BY DEF LocalOK, Go, Others

LEMMA LoadedMoves ==
  ASSUME LocalOK, NEW p \in Procs, NEW old, Loaded(p, old)
  PROVE  Others(p) /\ (at'[p] = "idle" \/ (at'[p] = "lock" /\ file'[p] = file[p]))
<1>1. CASE op[p] = "profile"
  BY <1>1, EndMoves DEF Loaded
<1>2. CASE op[p] # "profile"
  BY <1>2, GoMoves DEF Loaded, Places
<1> QED BY <1>1, <1>2

LEMMA StepMoves ==
  ASSUME KeepInv, NEW p \in Procs, Step(p)
  PROVE  /\ Takes(p) \/ Gives(p) \/ Moves(p)
         /\ Others(p) /\ UNCHANGED <<calls, faults>>
<1>0. LocalOK
  BY DEF KeepInv, TypeOK
<1>1. CASE Get(p)
  <2>1. at'[p] = "lock" /\ file'[p] = file[p] /\ Others(p)
    BY <1>0, <1>1, GoMoves DEF Get, Places
  <2>2. file[p] = "chat"
    BY <1>1 DEF Get, KeepInv, FileInv, FileAt, Edits
  <2> QED BY <1>1, <2>1, <2>2 DEF Get, Moves
<1>2. CASE Lock(p)
  <2>1. at[p] = "lock" /\ lock = None /\ UNCHANGED <<calls, faults>>
    BY <1>2 DEF Lock
  <2>2. CASE End(p) /\ lock' = lock
    BY <1>0, <2>1, <2>2, EndMoves DEF Moves
  <2>3. ASSUME NEW s \in {"write", "listing"}, Go(p, s), lock' = p, UNCHANGED <<op, num, file>>,
               \A q \in Procs \ {p} : list'[q] = list[q]
        PROVE  Takes(p) /\ Others(p)
    BY <1>0, <2>1, <2>3 DEF LocalOK, Go, Others, Takes
  <2>4. \/ End(p) /\ lock' = lock
        \/ \E s \in {"write", "listing"} : /\ Go(p, s) /\ lock' = p /\ UNCHANGED <<op, num, file>>
                                           /\ \A q \in Procs \ {p} : list'[q] = list[q]
    BY <1>0, <1>2 DEF Lock, LocalOK
  <2> QED BY <2>1, <2>2, <2>3, <2>4
<1>3. CASE Listed(p) \/ WriteChat(p)
  BY <1>0, <1>3, EndMoves DEF Listed, WriteChat, Gives
<1>4. CASE Truncate(p)
  BY <1>0, <1>4, GoMoves DEF Truncate, Places, Moves
<1>5. CASE WriteProfile(p)
  BY <1>0, <1>5, GoMoves DEF WriteProfile, Places, Gives
<1>6. CASE WriteImage(p)
  BY <1>0, <1>6 DEF WriteImage, LocalOK, Go, Others, Gives
<1>7. CASE Load(p)
  <2>1. at[p] = "load" /\ UNCHANGED <<lock, calls, faults>>
    BY <1>7 DEF Load
  <2>2. CASE Go(p, "read") /\ UNCHANGED <<op, num, file, list>>
    BY <1>0, <2>1, <2>2, GoMoves DEF Places, Moves
  <2>3. CASE \E old \in cache : Loaded(p, old)
    BY <1>0, <2>1, <2>3, LoadedMoves DEF Moves
  <2> QED BY <1>7, <2>2, <2>3 DEF Load
<1>8. CASE LoadRead(p)
  <2>1. at[p] = "read" /\ UNCHANGED <<lock, calls, faults>>
    BY <1>8 DEF LoadRead
  <2>2. ASSUME NEW s \in {"fill", "lock"}, Go(p, s), UNCHANGED <<op, num, file, list>>
        PROVE  Moves(p) /\ Others(p)
    BY <1>0, <2>1, <2>2, GoMoves DEF Places, Moves
  <2>3. CASE End(p)
    BY <1>0, <2>1, <2>3, EndMoves DEF Moves
  <2> QED BY <1>8, <2>1, <2>2, <2>3 DEF LoadRead
<1>9. CASE Fill(p)
  BY <1>0, <1>9, LoadedMoves DEF Fill, Moves
<1>10. CASE Insert(p)
  BY <1>0, <1>10, EndMoves DEF Insert, Moves
<1> QED BY <1>1, <1>2, <1>3, <1>4, <1>5, <1>6, <1>7, <1>8, <1>9, <1>10, Zenon DEF Step

\* A step that leaves the other tasks alone and the lock with its holder.
LEMMA RunFrame ==
  ASSUME KeepInv, RunInv, NEW p \in Procs, Others(p),
         \/ lock' = lock /\ lock # p
         \/ lock' = None
         \/ lock' = p /\ at'[p] \in {"write", "writing", "listing"},
         at'[p] \in {"load", "read", "fill"} => file'[p] # "image"
  PROVE  RunInv'
<1>1. HolderInv'
  BY StoreAssumption DEF RunInv, HolderInv, Others
<1>2. LoadInv'
  BY DEF RunInv, LoadInv, Others
<1> QED BY <1>1, <1>2 DEF RunInv

LEMMA RunStep == KeepInv /\ RunInv /\ [Next]_vars => RunInv'
<1> SUFFICES ASSUME KeepInv, RunInv, [Next]_vars PROVE RunInv'
  OBVIOUS
<1>0. LocalOK /\ \A p \in Procs : at[p] \notin {"write", "writing", "listing"} => lock # p
  BY DEF KeepInv, TypeOK, RunInv, HolderInv
<1>1. ASSUME NEW p \in Procs, NEW o \in Calls, NEW new \in Profiles, Call(p, o, new) PROVE RunInv'
  <2>1. /\ Others(p) /\ lock' = lock /\ at[p] = "idle" /\ at'[p] \in {"lock", "get", "load"}
        /\ at'[p] = "load" => file'[p] # "image"
    BY <1>0, <1>1 DEF Call, LocalOK, Others, Entry, FirstFile, Calls, Edits, ProfileCalls, None
  <2> QED BY <1>0, <2>1, RunFrame
<1>2. ASSUME NEW p \in Procs, Step(p) PROVE RunInv'
  <2>1. (Takes(p) \/ Gives(p) \/ Moves(p)) /\ Others(p)
    BY <1>2, StepMoves
  <2>2. CASE Takes(p)
    BY <2>1, <2>2, RunFrame DEF Takes
  <2>3. CASE Gives(p)
    BY <2>1, <2>3, RunFrame DEF Gives
  <2>4. CASE Moves(p) /\ at[p] = "write"
    <3>1. lock = p
      BY <2>4 DEF KeepInv, LockInv
    <3> QED BY <2>1, <2>4, <3>1, RunFrame DEF Moves
  <2>5. CASE Moves(p) /\ at[p] # "write"
    <3>1. lock' = lock /\ lock # p
      BY <1>0, <2>5 DEF Moves
    <3>2. at'[p] \in {"load", "read", "fill"} => file'[p] # "image"
      BY <2>5 DEF Moves, RunInv, LoadInv
    <3> QED BY <2>1, <3>1, <3>2, RunFrame
  <2> QED BY <2>1, <2>2, <2>3, <2>4, <2>5
<1>3. ASSUME NEW p \in Procs, WriteFails(p) PROVE RunInv'
  BY <1>0, <1>3, EndMoves, RunFrame DEF WriteFails
<1>6. ASSUME NEW p \in Procs, ReadFails(p) PROVE RunInv'
  <2>1. lock' = lock /\ (ViewFails(p) \/ SaveFails(p) \/ CallStops(p))
    BY <1>6, ReadFailsCases
  <2>2. Others(p) /\ at'[p] \in {"lock", "idle"}
    <3>1. CASE ViewFails(p)
      BY <1>0, <3>1, GoMoves DEF ViewFails, Places
    <3>2. CASE SaveFails(p)
      BY <1>0, <3>2, GoMoves DEF SaveFails, Places
    <3>3. CASE CallStops(p)
      BY <1>0, <3>3, EndMoves DEF CallStops
    <3> QED BY <2>1, <3>1, <3>2, <3>3
  <2>3. lock # p
    BY <1>0, <2>1 DEF ViewFails, SaveFails, CallStops
  <2> QED BY <2>1, <2>2, <2>3, RunFrame
<1>4. CASE Restart
  BY <1>4, StoreAssumption DEF Restart, RunInv, HolderInv, LoadInv
<1>5. CASE UNCHANGED vars
  BY <1>5 DEF vars, local, RunInv, HolderInv, LoadInv
<1> QED BY <1>1, <1>2, <1>3, <1>4, <1>5, <1>6, Zenon DEF Next

LEMMA RunInit == Init => RunInv
BY StoreAssumption DEF Init, RunInv, HolderInv, LoadInv

\* For any number of tasks and whatever fails, a task in a call can go on or
\* waits for one that can.
THEOREM NoDeadlock == Spec => []NobodyStuck
<1>1. KeepInv /\ RunInv => NobodyStuck
  <2> SUFFICES ASSUME KeepInv, RunInv, NEW p \in Procs, at[p] # "idle"
               PROVE  Ready(p) \/ (lock \in Procs /\ at[lock] # "lock" /\ Ready(lock))
    BY DEF NobodyStuck
  <2>0. \A q \in Procs : at[q] \in Places /\ op[q] \in Calls \cup {None}
    BY DEF KeepInv, TypeOK, LocalOK
  <2>1. \A q \in Procs : at[q] = "writing" => file[q] # None
    BY <2>0 DEF KeepInv, FileInv, FileAt, None
  <2>2. \A q \in Procs : at[q] # "idle" => op[q] \in Calls
    BY <2>0 DEF KeepInv, FileInv, FileAt
  <2>3. lock \in Procs \cup {None}
    BY DEF KeepInv, TypeOK, FilesOK
  <2>4. lock \in Procs => Ready(lock) /\ at[lock] # "lock"
    BY <2>1 DEF RunInv, HolderInv, Ready
  <2> QED BY <2>0, <2>1, <2>2, <2>3, <2>4 DEF Ready, Places
<1> QED BY <1>1, RunInit, RunStep, StoreInvariant, PTL DEF Spec

\* Calls only go forward: for any number of tasks, every step is a new call, a
\* fault, or takes one task on in its call.
THEOREM CallsRunOut == Spec => WorkUsedUp
<1>1. ASSUME KeepInv, RunInv, Next PROVE UsesUp
  <2>1. CASE \/ \E p \in Procs, o \in Calls, new \in Profiles : Call(p, o, new)
             \/ \E p \in Procs : WriteFails(p) \/ ReadFails(p)
             \/ Restart
    BY <2>1 DEF Call, WriteFails, ReadFails, Restart, UsesUp
  <2>2. ASSUME NEW p \in Procs, Step(p) PROVE UsesUp
    <3>1. (Takes(p) \/ Gives(p) \/ Moves(p)) /\ Others(p) /\ UNCHANGED <<calls, faults>>
      BY <1>1, <2>2, StepMoves
    <3>2. Stage(file[p], at[p]) < Stage(file'[p], at'[p])
      <4>1. CASE Takes(p)
        BY <4>1 DEF Takes, Stage
      <4>2. CASE Gives(p)
        BY <4>2 DEF Gives, Stage
      <4>3. CASE Moves(p)
        <5>1. at[p] \in {"load", "read", "fill"} => file[p] # "image"
          BY <1>1 DEF RunInv, LoadInv
        <5> QED BY <4>3, <5>1 DEF Moves, Stage
      <4> QED BY <3>1, <4>1, <4>2, <4>3
    <3> QED BY <3>1, <3>2 DEF Others, UsesUp
  <2> QED BY <1>1, <2>1, <2>2, Zenon DEF Next
<1>2. KeepInv /\ RunInv /\ [Next]_vars => [UsesUp]_vars
  BY <1>1
<1> QED BY <1>2, RunInit, RunStep, StoreInvariant, PTL DEF Spec, WorkUsedUp
=============================================================================
