---------------------------- MODULE MobileChats ----------------------------
(* state/chats.tsx, state/chat-reducer.ts and state/chat-store.ts: the      *)
(* conversations of the phone app, the requests behind their answers, and   *)
(* their storage: one value per chat, written some time after a change, and *)
(* moved on the first launch from an older format that had all in one.      *)
(*                                                                          *)
(* A conversation is the sequence of its answers' states; text and results  *)
(* are left out. What the store compares by identity is compared by value:  *)
(* an equal value is written again or not, to the same effect. Nobody acts  *)
(* before the conversations are loaded: the splash screen covers the app.   *)
EXTENDS Integers, Sequences

CONSTANTS Chats,      \* ids, of old and of new conversations
          MaxAnswers, \* answers of a conversation
          MaxFaults,  \* storage calls that fail
          MaxKills,   \* ends of the app's process
          MaxSaves    \* saves waiting for their turn

BoundsAssumption == /\ MaxAnswers \in Nat \ {0} /\ MaxSaves \in Nat \ {0}
                           /\ MaxFaults \in Nat /\ MaxKills \in Nat

VARIABLES stored,   \* the value of each chat's key
          legacy,   \* what the old format's one value has of each
          phase,    \* of load(), or "ready"
          chats,    \* state.chats, and before that what load() has
          moving,   \* what migrate() has still to store
          saved,    \* ChatStore.saved
          writable,
          inflight, \* of each answer: its request; stalled is one whose body stops coming
          timer,    \* the debounced save is armed
          saves,    \* ChatStore.queue: what each save was given
          todo,     \* what the first of them has not yet looked at
          deleted,  \* by the user; erased when that was saved
          faults, kills

storeVars == <<stored, legacy, saved, writable, saves, todo>>
vars == <<stored, legacy, phase, chats, moving, saved, writable, inflight, timer, saves, todo,
          deleted, faults, kills>>

NoChat == <<>>
\* Damaged, or too large for the platform to read.
Unreadable == <<"unreadable">>
Status == {"pending", "done", "error", "stopped"}
Old == <<"done">>
Requested == {"none", "running", "aborted", "stalled"}
Values == UNION {[1 .. n -> Status] : n \in 0 .. MaxAnswers}
Answers == 1 .. MaxAnswers
Phases == {"keys", "chats", "legacy", "moving", "cleanup", "ready"}
Empty == [c \in Chats |-> NoChat]
NoRequests == [c \in Chats |-> [i \in Answers |-> "none"]]

TypeOK ==
    /\ stored \in [Chats -> Values \cup {Unreadable}]
    /\ legacy \in [Chats -> {NoChat, Unreadable, Old}] /\ deleted \in [Chats -> {"no", "deleted", "erased"}]
    /\ moving \subseteq Chats /\ todo \subseteq Chats
    /\ phase \in Phases
    /\ chats \in [Chats -> Values] /\ saved \in [Chats -> Values]
    /\ writable \in BOOLEAN /\ timer \in BOOLEAN
    /\ inflight \in [Chats -> [Answers -> Requested]]
    /\ Len(saves) <= MaxSaves /\ \A k \in DOMAIN saves : saves[k] \in [Chats -> Values]
    /\ faults \in 0 .. MaxFaults /\ kills \in 0 .. MaxKills

\* The version before this one left the old format, of which an entry may be
\* damaged, or this one has run, which may have moved it without removing it.
Init == /\ stored \in [Chats -> {NoChat, Unreadable, Old}]
        /\ legacy \in [Chats -> {NoChat, Unreadable, Old}]
        /\ phase = "keys" /\ chats = Empty /\ saved = Empty
        /\ moving = {} /\ todo = {} /\ saves = <<>>
        /\ writable = TRUE /\ timer = FALSE /\ inflight = NoRequests
        /\ deleted = [c \in Chats |-> "no"] /\ faults = 0 /\ kills = 0

Fault == /\ faults < MaxFaults
         /\ faults' = faults + 1
-----------------------------------------------------------------------------
(* load() and migrate(), then the reducer's 'hydrate' *)

\* A request does not survive the app: its answer is stopped.
Interrupted(value) == [i \in DOMAIN value |->
    IF value[i] = "pending" THEN "stopped" ELSE value[i]]

Hydrate(read) == /\ phase' = "ready"
                 /\ chats' = [c \in Chats |-> Interrupted(read[c])]
                 /\ timer' = TRUE
                 /\ moving' = {}

Keys == /\ phase = "keys"
        /\ phase' = "chats"
        /\ UNCHANGED <<storeVars, chats, moving, inflight, timer, deleted, faults, kills>>

\* Nothing is written in this session: it could be written over something.
KeysFail == /\ phase = "keys"
            /\ Fault
            /\ Hydrate(chats)
            /\ writable' = FALSE
            /\ UNCHANGED <<stored, legacy, saved, saves, todo, inflight, deleted, kills>>

\* In one batch or, when that fails, each alone: what cannot be read or parsed
\* is skipped.
ReadChats ==
    /\ phase = "chats"
    /\ \E lost \in SUBSET {c \in Chats : stored[c] \notin {NoChat, Unreadable}} :
          LET read == [c \in Chats |-> IF stored[c] = Unreadable \/ c \in lost THEN NoChat ELSE stored[c]]
          IN  /\ IF lost = {} THEN UNCHANGED faults ELSE Fault
              /\ saved' = read
              /\ IF legacy # Empty
                 THEN chats' = read /\ phase' = "legacy" /\ UNCHANGED <<moving, timer>>
                 ELSE Hydrate(read)
    /\ UNCHANGED <<stored, legacy, writable, saves, todo, inflight, deleted, kills>>

\* A damaged entry is dropped. What was moved by an earlier launch is not moved
\* again if it could be read; what the user deleted since is.
ReadLegacy ==
    /\ phase = "legacy"
    /\ phase' = "moving"
    /\ moving' = {c \in Chats : legacy[c] = Old /\ chats[c] = NoChat}
    /\ chats' = [c \in Chats |-> IF c \in moving' THEN Old ELSE chats[c]]
    /\ deleted' = [c \in Chats |-> IF c \in moving' /\ deleted[c] = "erased" THEN "deleted" ELSE deleted[c]]
    /\ UNCHANGED <<storeVars, inflight, timer, faults, kills>>

\* Over whatever has this chat's key.
Move(c) == /\ phase = "moving"
           /\ c \in moving
           /\ stored' = [stored EXCEPT ![c] = chats[c]]
           /\ saved' = [saved EXCEPT ![c] = chats[c]]
           /\ moving' = moving \ {c}
           /\ UNCHANGED <<legacy, phase, chats, writable, inflight, timer, saves, todo, deleted, faults, kills>>

\* Mutant: removed before everything is stored.
MovedTooSoon == /\ phase = "moving"
                /\ legacy' = Empty
                /\ Hydrate(chats)
                /\ UNCHANGED <<stored, saved, writable, saves, todo, inflight, deleted, faults, kills>>

\* The old value goes when every chat is stored.
Moved == /\ phase = "moving"
         /\ moving = {}
         /\ legacy' = Empty
         /\ Hydrate(chats)
         /\ UNCHANGED <<stored, saved, writable, saves, todo, inflight, deleted, faults, kills>>

\* The old value cannot be read, one of its chats not stored, or it not removed.
MigrateFails == /\ phase \in {"legacy", "moving"}
                /\ Fault
                /\ Hydrate(chats)
                /\ UNCHANGED <<storeVars, inflight, deleted, kills>>
-----------------------------------------------------------------------------
(* send(), retry(), stop(), remove(), and what a request brings *)

Changes(c, value) == /\ chats' = [chats EXCEPT ![c] = value]
                     /\ timer' = TRUE

\* A new answer of the conversation, or the first of a new one.
Send(c) ==
    /\ phase = "ready"
    /\ \/ chats[c] # NoChat
       \/ deleted[c] = "no" /\ legacy[c] = NoChat /\ stored[c] = NoChat
    /\ Len(chats[c]) < MaxAnswers
    /\ \A i \in DOMAIN chats[c] : chats[c][i] # "pending"
    /\ inflight' = [inflight EXCEPT ![c][Len(chats[c]) + 1] = "running"]
    /\ Changes(c, Append(chats[c], "pending"))
    /\ UNCHANGED <<storeVars, phase, moving, deleted, faults, kills>>

Retry(c, i) ==
    /\ phase = "ready"
    /\ i \in DOMAIN chats[c]
    /\ inflight[c][i] = "none"
    /\ inflight' = [inflight EXCEPT ![c][i] = "running"]
    /\ Changes(c, [chats[c] EXCEPT ![i] = "pending"])
    /\ UNCHANGED <<storeVars, phase, moving, deleted, faults, kills>>

\* The photo or recording of a question without text is gone with the session.
RetryWithoutMedia(c, i) ==
    /\ phase = "ready"
    /\ i \in DOMAIN chats[c]
    /\ inflight[c][i] = "none" /\ chats[c][i] # "done"
    /\ Changes(c, [chats[c] EXCEPT ![i] = "error"])
    /\ UNCHANGED <<storeVars, phase, moving, inflight, deleted, faults, kills>>

\* Of a request that is no stream the timer and the abort go with the headers:
\* neither ends one whose body stops coming.
Stall(c, i) == /\ inflight[c][i] = "running"
               /\ inflight' = [inflight EXCEPT ![c][i] = "stalled"]
               /\ UNCHANGED <<storeVars, phase, chats, moving, timer, deleted, faults, kills>>

Stop(c) == /\ phase = "ready"
           /\ \E i \in Answers : inflight[c][i] = "running"
           /\ inflight' = [inflight EXCEPT ![c] = [i \in Answers |->
                             IF @[i] = "running" THEN "aborted" ELSE @[i]]]
           /\ UNCHANGED <<storeVars, phase, chats, moving, timer, deleted, faults, kills>>

\* Its requests are aborted; what they still bring finds no chat.
Remove(c) == /\ phase = "ready"
             /\ chats[c] # NoChat
             /\ inflight' = [inflight EXCEPT ![c] = [i \in Answers |-> "none"]]
             /\ Changes(c, NoChat)
             /\ deleted' = [deleted EXCEPT ![c] = "deleted"]
             /\ UNCHANGED <<storeVars, phase, moving, faults, kills>>

\* 'progress', 'delta' and 'reset' change what a pending answer shows so far.
Stream(c, i) == /\ inflight[c][i] # "none"
                /\ chats[c][i] = "pending"
                /\ timer' = TRUE
                /\ UNCHANGED <<storeVars, phase, chats, moving, inflight, deleted, faults, kills>>

Settles(c, i, answer) == /\ inflight' = [inflight EXCEPT ![c][i] = "none"]
                         /\ Changes(c, [chats[c] EXCEPT ![i] = answer])
                         /\ UNCHANGED <<storeVars, phase, moving, deleted, faults, kills>>

Answered(c, i) == /\ inflight[c][i] # "none"
                  /\ Settles(c, i, "done")

Fails(c, i) == /\ inflight[c][i] # "none"
               /\ Settles(c, i, IF inflight[c][i] = "aborted" THEN "stopped" ELSE "error")
-----------------------------------------------------------------------------
(* save() and write() *)

\* 400 ms without a change.
Save == /\ phase = "ready"
        /\ timer
        /\ Len(saves) < MaxSaves
        /\ timer' = FALSE
        /\ saves' = Append(saves, chats)
        /\ todo' = IF saves = <<>> THEN Chats ELSE todo
        /\ UNCHANGED <<stored, legacy, phase, chats, moving, saved, writable, inflight, deleted, faults, kills>>

\* The next of a save's chats: written if it is not what was last written.
WriteChat(c) ==
    /\ saves # <<>> /\ writable
    /\ c \in todo
    /\ todo' = todo \ {c}
    /\ IF Head(saves)[c] \in {NoChat, saved[c]}
       THEN UNCHANGED <<stored, saved, faults>>
       ELSE \/ /\ stored' = [stored EXCEPT ![c] = Head(saves)[c]]
               /\ saved' = [saved EXCEPT ![c] = Head(saves)[c]]
               /\ UNCHANGED faults
            \/ Fault /\ UNCHANGED <<stored, saved>>
    /\ UNCHANGED <<legacy, phase, chats, moving, writable, inflight, timer, saves, deleted, kills>>

Gone == {c \in Chats : saved[c] # NoChat /\ Head(saves)[c] = NoChat}

\* The removed chats' keys are removed, and the save is over.
EndSave ==
    /\ saves # <<>>
    /\ todo = {} \/ ~writable
    /\ IF writable
       THEN \/ /\ stored' = [c \in Chats |-> IF c \in Gone THEN NoChat ELSE stored[c]]
               /\ saved' = [c \in Chats |-> IF c \in Gone THEN NoChat ELSE saved[c]]
               /\ deleted' = [c \in Chats |-> IF c \in Gone THEN "erased" ELSE deleted[c]]
               /\ UNCHANGED faults
            \/ Gone # {} /\ Fault /\ UNCHANGED <<stored, saved, deleted>>
       ELSE UNCHANGED <<stored, saved, deleted, faults>>
    /\ saves' = Tail(saves)
    /\ todo' = IF Len(saves) > 1 THEN Chats ELSE {}
    /\ UNCHANGED <<legacy, phase, chats, moving, writable, inflight, timer, kills>>

\* The process ends at any time, and the app is opened again.
Kill == /\ kills < MaxKills
        /\ kills' = kills + 1
        /\ phase' = "keys" /\ chats' = Empty /\ saved' = Empty
        /\ moving' = {} /\ todo' = {} /\ saves' = <<>>
        /\ writable' = TRUE /\ timer' = FALSE /\ inflight' = NoRequests
        /\ UNCHANGED <<stored, legacy, deleted, faults>>

\* A request ends by its answer, its timeout or its abort, unless it stalls.
Comes(c, i) == inflight[c][i] # "stalled" /\ (Answered(c, i) \/ Fails(c, i))

Loads == Keys \/ KeysFail \/ ReadChats \/ ReadLegacy \/ (\E c \in Chats : Move(c)) \/ Moved \/ MigrateFails
Requests == \E c \in Chats, i \in Answers : Stream(c, i) \/ Stall(c, i) \/ Answered(c, i) \/ Fails(c, i)
Saving == (\E c \in Chats : WriteChat(c)) \/ EndSave
Acts == \E c \in Chats : \/ Send(c) \/ Stop(c) \/ Remove(c)
                         \/ \E i \in Answers : Retry(c, i) \/ RetryWithoutMedia(c, i)

Next == Loads \/ Requests \/ Save \/ Saving \/ Acts \/ Kill

Spec == Init /\ [][Next]_vars
Fairness == /\ WF_vars(Loads) /\ WF_vars(Save) /\ WF_vars(Saving)
            /\ \A c \in Chats, i \in Answers : WF_vars(Comes(c, i))
-----------------------------------------------------------------------------
(* "Chat persistence that never destroys what it cannot read", but for what  *)
(* the move from the old format destroys: a stored conversation is removed   *)
(* only when it was read or written by this launch and the user deleted it,  *)
(* and written over only by its own continuation, with all its answers; one  *)
(* that could not be read only by the one the old value has of the same id;  *)
(* and what the old value has whole goes with it only when it is stored      *)
(* whole, whatever fails and wherever the app is ended. (Of steps.)          *)
KeptUntilDeleted ==
    \A c \in Chats :
        /\ stored[c] # NoChat /\ stored'[c] # stored[c] =>
              IF stored[c] = saved[c]
              THEN IF stored'[c] = NoChat THEN deleted[c] # "no" ELSE Len(stored'[c]) >= Len(stored[c])
              ELSE legacy[c] = Old /\ stored'[c] # NoChat
        /\ legacy[c] = Old /\ legacy'[c] # Old => stored[c] \notin {NoChat, Unreadable}

(* A conversation whose deletion was saved is neither stored nor shown       *)
(* again, by no save that was under way and by no later launch, unless the   *)
(* old value, which could not be removed, brings it back.                    *)
ErasedStays == \A c \in Chats : deleted[c] = "erased" => stored[c] = NoChat /\ chats[c] = NoChat

(* An answer is shown as being written only while a request is behind it,   *)
(* and a request never outlives the answer it writes: no Stop, Retry,       *)
(* removal or relaunch leaves one without the other.                        *)
PendingHasRequest ==
    phase = "ready" => \A c \in Chats, i \in Answers :
        inflight[c][i] # "none" <=> i \in DOMAIN chats[c] /\ chats[c][i] = "pending"

(* When no save is due or under way and storage did not fail, what is shown *)
(* is what is stored, and nothing that is shown was read from elsewhere.    *)
ShownIsStored ==
    phase = "ready" /\ ~timer /\ saves = <<>> /\ faults = 0 =>
        \A c \in Chats : /\ stored[c] # Unreadable => stored[c] = chats[c]
                         /\ chats[c] # NoChat => legacy[c] = NoChat

(* Every answer whose response came whole settles, and every save ends,      *)
(* again and again.                                                          *)
Settled(c, i) == inflight[c][i] \in {"none", "stalled"}
Quiet == phase = "ready" /\ saves = <<>>

=============================================================================
