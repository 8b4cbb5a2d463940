----------------------------- MODULE UserStore -----------------------------
(***************************************************************************)
(* The files a node keeps about one address: chat.json, profile.json and   *)
(* the avatar image, the profile cache in front of profile.json, and the   *)
(* web handlers and message tasks that use them concurrently.              *)
(*                                                                         *)
(* Writers hold UserStore.lock from reading a file until it is rewritten;  *)
(* get_messages and load_profile read without it.  A file is truncated and *)
(* then written, so that a reader, a crash or a failed write may find it   *)
(* empty or in part.  An empty chat.json reads as no messages.             *)
(***************************************************************************)
EXTENDS Naturals, Sequences

CONSTANTS
  Procs,     \* tasks of the runtime that call the store
  Names,     \* what a saved profile says besides the avatar
  MaxCalls,  \* bound: requests and tasks
  MaxFaults  \* bound: crashes, failed writes and failed reads

None == "none"

ASSUME StoreAssumption ==
  /\ None \notin Procs
  /\ "" \in Names
  /\ MaxCalls \in Nat /\ MaxFaults \in Nat

Edits == {"sent", "received", "delivered", "view"}   \* calls that may rewrite chat.json
ProfileCalls == {"profile", "save", "upload"}
Calls == Edits \cup ProfileCalls \cup {"list"}

\* tok is which add_message made the message, out is is_sent.
Messages == [tok : 1 .. MaxCalls, id : Nat \ {0}, out : BOOLEAN, status : {"sent", "received", "delivered", "read"}]
Profiles == [name : Names, avatar : BOOLEAN]
DefaultProfile == [name |-> "", avatar |-> FALSE]
\* Where a task may be in its call.
Places == {"idle", "get", "lock", "write", "writing", "listing", "load", "read", "fill", "insert"}
FileStates == {"absent", "empty", "partial", "whole"}

VARIABLES
  disk,    \* state of the three files
  chat,    \* the messages in chat.json
  onDisk,  \* the profile in profile.json
  cache,   \* profile_cache: {} or the one profile
  lock,    \* who holds UserStore.lock
  op, at,  \* op[p], at[p]: the call p runs and where it is
  num,     \* num[p]: which call it is
  file,    \* file[p]: the file it is about to write
  list,    \* list[p]: the messages it is about to write
  prof,    \* prof[p]: the profile it is about to save
  found,   \* found[p]: the profile it read from the file
  calls, faults,
  stored,  \* history: messages whose add_message returned Ok, with their ids
  torn,    \* history: files whose rewriting was cut short
  shown,   \* history: messages some response listed
  missed,  \* history: messages a view could not list and may mark
  raced,   \* history: a profile was written while the cache was being set
  blind,   \* history: a call did not see the profile it was to keep, since it
           \* overlapped an upload or could not read the file
  uploaded \* history: an upload has written its profile

fileVars == <<disk, chat, onDisk>>
local == <<op, at, num, file, list, prof, found>>
history == <<stored, shown, missed, raced, blind, uploaded>>
vars == <<fileVars, cache, lock, local, calls, faults, torn, history>>

FilesOK ==
  /\ disk \in [{"chat", "profile", "image"} -> FileStates]
  /\ chat \in Seq(Messages) /\ onDisk \in Profiles
  /\ cache \in SUBSET Profiles
  /\ lock \in Procs \cup {None}
LocalOK ==
  /\ op \in [Procs -> Calls \cup {None}]
  /\ at \in [Procs -> Places]
  /\ num \in [Procs -> 0 .. MaxCalls]
  /\ file \in [Procs -> {"chat", "profile", "image", None}]
  /\ list \in [Procs -> Seq(Messages)]
  /\ prof \in [Procs -> Profiles] /\ found \in [Procs -> Profiles]
HistoryOK ==
  /\ calls \in 0 .. MaxCalls /\ faults \in Nat
  /\ stored \subseteq (1 .. MaxCalls) \X (Nat \ {0})
  /\ torn \subseteq {"chat", "profile", "image"}
  /\ shown \subseteq 1 .. MaxCalls /\ missed \subseteq 1 .. MaxCalls
  /\ raced \in BOOLEAN /\ blind \in BOOLEAN /\ uploaded \in BOOLEAN
TypeOK == FilesOK /\ LocalOK /\ HistoryOK

Init ==
  /\ disk = [f \in {"chat", "profile", "image"} |-> "absent"]
  /\ chat = <<>> /\ onDisk = DefaultProfile
  /\ cache = {} /\ lock = None
  /\ op = [p \in Procs |-> None] /\ at = [p \in Procs |-> "idle"]
  /\ num = [p \in Procs |-> 0]
  /\ file = [p \in Procs |-> None]
  /\ list = [p \in Procs |-> <<>>]
  /\ prof = [p \in Procs |-> DefaultProfile] /\ found = [p \in Procs |-> DefaultProfile]
  /\ calls = 0 /\ faults = 0
  /\ stored = {} /\ torn = {} /\ shown = {} /\ missed = {}
  /\ raced = FALSE /\ blind = FALSE /\ uploaded = FALSE

Toks(msgs) == {msgs[i].tok : i \in DOMAIN msgs}

\* p goes on at s.
Go(p, s) == at' = [at EXCEPT ![p] = s]
\* p is done and forgets its local state.
End(p) ==
  /\ Go(p, "idle")
  /\ op' = [op EXCEPT ![p] = None]
  /\ num' = [num EXCEPT ![p] = 0]
  /\ file' = [file EXCEPT ![p] = None]
  /\ list' = [list EXCEPT ![p] = <<>>]
  /\ prof' = [prof EXCEPT ![p] = DefaultProfile]
  /\ found' = [found EXCEPT ![p] = DefaultProfile]

-----------------------------------------------------------------------------
(* Calls: add_message for a sent or a received message, the confirmation   *)
(* of a sent one, handle_get_chat_messages ("view"), the lists of contacts *)
(* and conversations, handle_get_profile, handle_save_profile and          *)
(* handle_upload_avatar.                                                   *)

\* Where a call starts and the file it writes first.
Entry(o) ==
  CASE o \in {"sent", "received", "delivered", "list"} -> "lock"
    [] o = "view" -> "get"
    [] o = "upload" -> "lock"
    [] OTHER -> "load"
FirstFile(o) == IF o \in Edits THEN "chat" ELSE IF o = "upload" THEN "image" ELSE None

\* A save comes with the name and, possibly, an avatar of the client.
Call(p, o, new) ==
  /\ at[p] = "idle" /\ calls < MaxCalls
  /\ o = "save" \/ new = DefaultProfile
  /\ calls' = calls + 1
  /\ op' = [op EXCEPT ![p] = o]
  /\ num' = [num EXCEPT ![p] = calls + 1]
  /\ at' = [at EXCEPT ![p] = IF o = "save" /\ new.avatar THEN "lock" ELSE Entry(o)]
  /\ file' = [file EXCEPT ![p] = IF o = "save" THEN "profile" ELSE FirstFile(o)]
  /\ prof' = [prof EXCEPT ![p] = new]
  /\ UNCHANGED <<fileVars, cache, lock, list, found, faults, torn, history>>

\* Mutant of Get: the response leaves out the last message.
GetSkipsLast(p) ==
  /\ at[p] = "get"
  /\ shown' = shown \cup Toks(SubSeq(chat, 1, Len(chat) - 1))
  /\ Go(p, "lock")
  /\ UNCHANGED <<fileVars, cache, lock, op, num, file, list, prof, found, calls, faults, stored, torn, missed, raced, blind, uploaded>>

\* The messages of the file while another task rewrites it.
Rewriting == UNION {Toks(list[q]) : q \in {r \in Procs : at[r] = "writing" /\ file[r] = "chat"}}

\* get_messages, without the lock: while another task rewrites the file the
\* response lists nothing.
Get(p) ==
  /\ at[p] = "get"
  /\ shown' = shown \cup Toks(chat)
  /\ missed' = missed \cup Rewriting
  /\ Go(p, "lock")
  /\ UNCHANGED <<fileVars, cache, lock, op, num, file, list, prof, found, calls, faults, stored, torn, raced, blind, uploaded>>

\* Mutant of NextId: ids start at 0.
NextIdFromZero(msgs) == Len(msgs)
\* One more than the last id.
NextId(msgs) == IF msgs = <<>> THEN 1 ELSE msgs[Len(msgs)].id + 1

\* What add_message, update_last_sent_status and mark_as_read make of the list.
Added(msgs, tok, o) == Append(msgs, [tok |-> tok, id |-> NextId(msgs), out |-> o = "sent", status |-> o])
Delivered(msgs) ==
  [i \in DOMAIN msgs |->
     IF msgs[i].out /\ \A j \in DOMAIN msgs : j > i => ~ msgs[j].out
     THEN [msgs[i] EXCEPT !.status = "delivered"] ELSE msgs[i]]
MarkedRead(msgs) ==
  [i \in DOMAIN msgs |-> IF msgs[i].status = "received" THEN [msgs[i] EXCEPT !.status = "read"] ELSE msgs[i]]
Edited(msgs, o, tok) ==
  CASE o = "delivered" -> Delivered(msgs)
    [] o = "view" -> MarkedRead(msgs)
    [] OTHER -> Added(msgs, tok, o)
\* Is there anything to write back?  update_last_sent_status writes whenever
\* it found a sent message.
Changed(msgs, o) ==
  CASE o = "delivered" -> \E i \in DOMAIN msgs : msgs[i].out
    [] o = "view" -> \E i \in DOMAIN msgs : msgs[i].status = "received"
    [] OTHER -> TRUE

-----------------------------------------------------------------------------
(* Rewriting a file under the lock.                                        *)

\* Mutant of Lock: the lock is not taken for reading.
LockUnheld(p) ==
  /\ at[p] = "lock"
  /\ list' = IF file[p] = "chat" THEN [list EXCEPT ![p] = Edited(chat, op[p], num[p])] ELSE list
  /\ Go(p, "write")
  /\ UNCHANGED <<fileVars, cache, lock, op, num, file, prof, found, calls, faults, torn, history>>

\* The lock is taken and the messages are read; a call that cannot parse them
\* or has nothing to write gives it back.  A list only looks at the files.
Lock(p) ==
  /\ at[p] = "lock" /\ lock = None
  /\ \/ /\ op[p] = "list"
        /\ lock' = p
        /\ Go(p, "listing")
        /\ UNCHANGED <<op, num, file, list, prof, found>>
     \/ /\ op[p] \in Edits
        /\ disk["chat"] = "partial" \/ ~ Changed(chat, op[p])
        /\ End(p)
        /\ UNCHANGED lock
     \/ /\ op[p] \in Edits
        /\ disk["chat"] # "partial" /\ Changed(chat, op[p])
        /\ lock' = p
        /\ list' = [list EXCEPT ![p] = Edited(chat, op[p], num[p])]
        /\ Go(p, "write")
        /\ UNCHANGED <<op, num, file, prof, found>>
     \/ /\ op[p] \in ProfileCalls
        /\ lock' = p
        /\ Go(p, "write")
        /\ UNCHANGED <<op, num, file, list, prof, found>>
  /\ UNCHANGED <<fileVars, cache, calls, faults, torn, history>>

Listed(p) ==
  /\ at[p] = "listing"
  /\ lock' = None
  /\ End(p)
  /\ UNCHANGED <<fileVars, cache, calls, faults, torn, history>>

\* Mutant of Truncate: writing takes the lock again.
TruncateRelocks(p) ==
  /\ at[p] = "write" /\ lock = None
  /\ disk' = [disk EXCEPT ![file[p]] = "empty"]
  /\ Go(p, "writing")
  /\ UNCHANGED <<chat, onDisk, cache, lock, op, num, file, list, prof, found, calls, faults, torn, history>>

\* The file is opened, which truncates it; part of it may be written already.
Truncate(p) ==
  /\ at[p] = "write"
  /\ \E s \in {"empty", "partial"} : disk' = [disk EXCEPT ![file[p]] = s]
  /\ chat' = IF file[p] = "chat" THEN <<>> ELSE chat
  /\ onDisk' = IF file[p] = "profile" THEN DefaultProfile ELSE onDisk
  /\ Go(p, "writing")
  /\ UNCHANGED <<cache, lock, op, num, file, list, prof, found, calls, faults, torn, history>>

\* chat.json is whole again and the call is over.
WriteChat(p) ==
  /\ at[p] = "writing" /\ file[p] = "chat"
  /\ disk' = [disk EXCEPT !["chat"] = "whole"]
  /\ chat' = list[p]
  /\ lock' = None
  /\ stored' = stored \cup {<<m.tok, m.id>> : m \in {list[p][i] : i \in {j \in DOMAIN list[p] : list[p][j].tok = num[p]}}}
  /\ missed' = IF \E q \in Procs : op[q] = "view" /\ at[q] = "lock" THEN missed \cup ({num[p]} \cap Toks(list[p])) ELSE missed
  /\ End(p)
  /\ UNCHANGED <<onDisk, cache, calls, faults, torn, shown, raced, blind, uploaded>>

\* Another call has a profile at hand that it read before.
Stale(q) ==
  \/ at[q] \in {"fill", "insert"}
  \/ op[q] = "save" /\ ~ prof[q].avatar /\ at[q] \in {"lock", "write", "writing"}

\* profile.json is whole again; the cache is still to be set.
WriteProfile(p) ==
  /\ at[p] = "writing" /\ file[p] = "profile"
  /\ disk' = [disk EXCEPT !["profile"] = "whole"]
  /\ onDisk' = prof[p]
  /\ lock' = None
  /\ raced' = (raced \/ \E q \in Procs \ {p} : at[q] \in {"fill", "insert"})
  /\ blind' = (blind \/ (op[p] = "upload" /\ \E q \in Procs \ {p} : Stale(q)))
  /\ uploaded' = (uploaded \/ op[p] = "upload")
  /\ Go(p, "insert")
  /\ UNCHANGED <<chat, cache, op, num, file, list, prof, found, calls, faults, torn, stored, shown, missed>>

\* The image of an upload is written; its profile is loaded next.
WriteImage(p) ==
  /\ at[p] = "writing" /\ file[p] = "image"
  /\ disk' = [disk EXCEPT !["image"] = "whole"]
  /\ lock' = None
  /\ file' = [file EXCEPT ![p] = "profile"]
  /\ Go(p, "load")
  /\ UNCHANGED <<chat, onDisk, cache, op, num, list, prof, found, calls, faults, torn, history>>

\* A directory or file cannot be opened, or a write fails: the call ends with
\* an error, the file stays as it is.
WriteFails(p) ==
  /\ faults < MaxFaults
  /\ faults' = faults + 1
  /\ at[p] \in {"write", "writing"}
  /\ torn' = IF at[p] = "writing" THEN torn \cup {file[p]} ELSE torn
  /\ lock' = None
  /\ End(p)
  /\ UNCHANGED <<fileVars, cache, calls, history>>

-----------------------------------------------------------------------------
(* Profiles.                                                               *)

\* Mutant of Merge: a save without an avatar drops it.
MergeDrops(o, new, old) == IF o = "upload" THEN [old EXCEPT !.avatar = TRUE] ELSE new
\* What is saved after the profile was found: a save keeps its avatar, an
\* upload sets it.
Merge(o, new, old) ==
  IF o = "upload" THEN [old EXCEPT !.avatar = TRUE] ELSE [new EXCEPT !.avatar = old.avatar]

\* load_profile has returned: a reader is done, the others save.
Loaded(p, old) ==
  IF op[p] = "profile"
  THEN End(p)
  ELSE /\ prof' = [prof EXCEPT ![p] = Merge(op[p], @, old)]
       /\ Go(p, "lock")
       /\ UNCHANGED <<op, num, file, list, found>>

\* load_profile looks into the cache.
Load(p) ==
  /\ at[p] = "load"
  /\ \/ /\ cache = {}
        /\ Go(p, "read")
        /\ UNCHANGED <<op, num, file, list, prof, found, blind>>
     \/ \E old \in cache :
        /\ Loaded(p, old)
        /\ blind' = (blind \/ \E q \in Procs : at[q] = "insert" /\ op[q] = "upload")
  /\ UNCHANGED <<fileVars, cache, lock, calls, faults, torn, stored, shown, missed, raced, uploaded>>

\* It reads the file, without the lock.  If that cannot be parsed a save goes
\* on without an avatar; an upload stops and reports success.
LoadRead(p) ==
  /\ at[p] = "read"
  /\ \/ /\ disk["profile"] \in {"absent", "whole"}
        /\ found' = [found EXCEPT ![p] = onDisk]
        /\ Go(p, "fill")
        /\ UNCHANGED <<op, num, file, list, prof, blind>>
     \/ /\ disk["profile"] \in {"empty", "partial"}
        /\ op[p] = "save"
        /\ blind' = (blind \/ lock # None)
        /\ Go(p, "lock")
        /\ UNCHANGED <<op, num, file, list, prof, found>>
     \/ /\ disk["profile"] \in {"empty", "partial"}
        /\ op[p] # "save"
        /\ End(p)
        /\ UNCHANGED blind
  /\ UNCHANGED <<fileVars, cache, lock, calls, faults, torn, stored, shown, missed, raced, uploaded>>

\* What was read goes into the cache, whatever that has become.
Fill(p) ==
  /\ at[p] = "fill"
  /\ cache' = {found[p]}
  /\ Loaded(p, found[p])
  /\ UNCHANGED <<fileVars, lock, calls, faults, torn, history>>

\* Mutant of Insert: the cache is left alone.
InsertSkipped(p) ==
  /\ at[p] = "insert"
  /\ End(p)
  /\ UNCHANGED <<fileVars, cache, lock, calls, faults, torn, history>>

\* save_profile sets the cache to what it wrote.
Insert(p) ==
  /\ at[p] = "insert"
  /\ cache' = {prof[p]}
  /\ End(p)
  /\ UNCHANGED <<fileVars, lock, calls, faults, torn, history>>

-----------------------------------------------------------------------------
(* Faults.                                                                 *)

\* A file that is there cannot be read.  A view lists nothing and still marks
\* everything as read; a call that rewrites the messages, a reader of the
\* profile and an upload stop; a save goes on without an avatar.
ReadFails(p) ==
  /\ faults < MaxFaults
  /\ faults' = faults + 1
  /\ \/ /\ at[p] = "get"
        /\ missed' = missed \cup Toks(chat) \cup Rewriting
        /\ Go(p, "lock")
        /\ UNCHANGED <<op, num, file, list, prof, found, blind>>
     \/ /\ at[p] = "lock" /\ lock = None /\ op[p] \in Edits
        /\ End(p)
        /\ UNCHANGED <<missed, blind>>
     \/ /\ at[p] = "read" /\ op[p] = "save"
        /\ blind' = TRUE
        /\ Go(p, "lock")
        /\ UNCHANGED <<op, num, file, list, prof, found, missed>>
     \/ /\ at[p] = "read" /\ op[p] # "save"
        /\ End(p)
        /\ UNCHANGED <<missed, blind>>
  /\ UNCHANGED <<fileVars, cache, lock, calls, torn, stored, shown, raced, uploaded>>

\* The process stops and starts again: calls, lock and cache are gone, a file
\* that was being rewritten stays as it is.
Restart ==
  /\ faults < MaxFaults
  /\ faults' = faults + 1
  /\ torn' = torn \cup {file[p] : p \in {q \in Procs : at[q] = "writing"}}
  /\ cache' = {} /\ lock' = None
  /\ op' = [p \in Procs |-> None] /\ at' = [p \in Procs |-> "idle"]
  /\ num' = [p \in Procs |-> 0]
  /\ file' = [p \in Procs |-> None]
  /\ list' = [p \in Procs |-> <<>>]
  /\ prof' = [p \in Procs |-> DefaultProfile] /\ found' = [p \in Procs |-> DefaultProfile]
  /\ UNCHANGED <<fileVars, calls, history>>

Step(p) ==
  \/ Get(p) \/ Lock(p) \/ Listed(p) \/ Truncate(p)
  \/ WriteChat(p) \/ WriteProfile(p) \/ WriteImage(p)
  \/ Load(p) \/ LoadRead(p) \/ Fill(p) \/ Insert(p)

Next ==
  \/ \E p \in Procs, o \in Calls, new \in Profiles : Call(p, o, new)
  \/ \E p \in Procs : Step(p) \/ WriteFails(p) \/ ReadFails(p)
  \/ Restart

Spec == Init /\ [][Next]_vars

\* The runtime polls ready tasks, and file operations return.
FairSpec == Spec /\ \A p \in Procs : WF_vars(Step(p))

-----------------------------------------------------------------------------
(* Safety.                                                                 *)

\* chat.json is not being rewritten.
ChatAtRest == \A p \in Procs : ~ (at[p] = "writing" /\ file[p] = "chat")

\* A list has the message stored as s, and its ids ascend.
Holds(msgs, s) == \E i \in DOMAIN msgs : msgs[i].tok = s[1] /\ msgs[i].id = s[2]
IdsAscend(msgs) == \A i, j \in DOMAIN msgs : i < j => msgs[i].id < msgs[j].id

\* Whoever stores, confirms and views at the same time, a message that was
\* stored stays in the file, under the id it was given and no other message
\* has, unless a crash or a failed write cut the file.
MessagesKept ==
  ChatAtRest /\ "chat" \notin torn =>
    /\ \A s \in stored : Holds(chat, s)
    /\ IdsAscend(chat)

\* A received message is marked as read only if a response has listed it, it
\* was stored between the reading and the marking of a view, or the view read
\* the file while it was being rewritten or could not read it at all.
ReadWasShown ==
  \A i \in DOMAIN chat : chat[i].status = "read" => chat[i].tok \in shown \cup missed

\* When nobody is about to write profile.json or to set the cache, a cached
\* profile is the one in the file, unless calls raced or a write was cut.
CacheCurrent ==
  (\A p \in Procs : at[p] \notin {"fill", "insert"} /\ ~ (at[p] = "writing" /\ file[p] = "profile"))
    /\ ~ raced /\ "profile" \notin torn =>
       \A c \in cache : c = onDisk

\* Saving a profile, which the page does without an avatar path, keeps an
\* uploaded avatar, unless it overlapped the upload, could not read the profile
\* it was to keep the avatar of, or a write was cut.
AvatarKept ==
  uploaded /\ ~ blind /\ "profile" \notin torn /\ disk["profile"] = "whole" => onDisk.avatar

\* A task can take its next step: it does not wait for the lock.
Ready(p) ==
  \/ at[p] \in {"get", "write", "listing", "load", "read", "fill", "insert"}
  \/ at[p] = "lock" /\ lock = None /\ op[p] \in Calls
  \/ at[p] = "writing" /\ file[p] # None

\* The lock is always held by a task that goes on without it: reading and
\* setting the cache happen outside of it, and whatever fails gives it back.
\* So a task that has to wait waits for one that has not.
NobodyStuck ==
  \A p \in Procs : at[p] # "idle" =>
    Ready(p) \/ (lock \in Procs /\ at[lock] # "lock" /\ Ready(lock))

\* How far a task at a with file f to write is in its call; an upload writes
\* two files.
Stage(f, a) ==
  CASE a = "get"                     -> 0
    [] a = "lock" /\ f = "image"     -> 1
    [] a = "write" /\ f = "image"    -> 2
    [] a = "writing" /\ f = "image"  -> 3
    [] a = "load"                    -> 4
    [] a = "read"                    -> 5
    [] a = "fill"                    -> 6
    [] a = "lock" /\ f # "image"     -> 7
    [] a = "write" /\ f # "image"    -> 8
    [] a = "writing" /\ f # "image"  -> 9
    [] a \in {"listing", "insert"}   -> 10
    [] a = "idle"                    -> 11

\* Why no call goes round in circles: a step starts a call, or is a fault, or
\* takes one task on in its call and leaves the others where they are.
UsesUp ==
  \/ calls' = calls + 1 /\ faults' = faults
  \/ calls' = calls /\ faults' = faults + 1
  \/ /\ UNCHANGED <<calls, faults>>
     /\ \E p \in Procs : /\ Stage(file[p], at[p]) < Stage(file'[p], at'[p])
                         /\ \A q \in Procs \ {p} : at'[q] = at[q] /\ file'[q] = file[q]
WorkUsedUp == [][UsesUp]_vars

(* Liveness.                                                               *)

\* No call waits for ever for the lock, whatever fails.
EveryCallEnds == \A p \in Procs : at[p] # "idle" ~> at[p] = "idle"
=============================================================================
