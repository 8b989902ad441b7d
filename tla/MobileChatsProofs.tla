------------------------- MODULE MobileChatsProofs -------------------------
(* Proofs about the phone's conversations and their storage (chats.tsx,     *)
(* chat-reducer.ts, chat-store.ts), for any chats, any number of answers    *)
(* and saves, and any number of failures and ends of the process.           *)
EXTENDS MobileChats, TLAPS, SequenceTheorems

LEMMA OldIsValue == BoundsAssumption => Old \in Values /\ NoChat \in Values /\ Old # NoChat
<1> SUFFICES ASSUME BoundsAssumption PROVE Old \in Values /\ NoChat \in Values /\ Old # NoChat
  OBVIOUS
<1>1. 1 \in 0 .. MaxAnswers /\ 0 \in 0 .. MaxAnswers
  BY DEF BoundsAssumption
<1>2. Old \in [1 .. 1 -> Status] /\ Old # NoChat
  BY DEF Old, Status, NoChat
<1>3. NoChat \in [1 .. 0 -> Status]
  BY DEF NoChat
<1> QED
  BY <1>1, <1>2, <1>3 DEF Values

LEMMA ValueShape ==
    ASSUME NEW v \in Values
    PROVE  /\ v \in Seq(Status) /\ Len(v) \in Nat /\ DOMAIN v = 1 .. Len(v)
           /\ BoundsAssumption => Len(v) <= MaxAnswers
           /\ v # Unreadable
           /\ v # NoChat <=> Len(v) # 0
<1>1. PICK n \in 0 .. MaxAnswers : v \in [1 .. n -> Status]
  BY DEF Values
<1>2. n \in Nat
  OBVIOUS
<1>3. v \in Seq(Status)
  BY <1>1, <1>2, SeqDef
<1>4. Len(v) = n /\ DOMAIN v = 1 .. n
  BY <1>1, <1>2, <1>3
<1>5. v # Unreadable
  <2> SUFFICES ASSUME v = Unreadable PROVE FALSE
    OBVIOUS
  <2>1. v[1] = "unreadable" /\ 1 \in DOMAIN v
    BY DEF Unreadable
  <2> QED
    BY <1>1, <1>4, <2>1 DEF Status
<1>6. v # NoChat <=> Len(v) # 0
  BY <1>3 DEF NoChat
<1> QED
  BY <1>2, <1>3, <1>4, <1>5, <1>6 DEF BoundsAssumption

\* What is done to a value: an answer settled or retried, one appended.
LEMMA ValueKept ==
    ASSUME BoundsAssumption, NEW v \in Values
    PROVE  /\ \A i \in DOMAIN v, st \in Status :
                 /\ [v EXCEPT ![i] = st] \in Values
                 /\ [v EXCEPT ![i] = st] # NoChat
                 /\ DOMAIN [v EXCEPT ![i] = st] = DOMAIN v
           /\ Len(v) < MaxAnswers =>
                 /\ Append(v, "pending") \in Values
                 /\ Append(v, "pending") # NoChat
           /\ Interrupted(v) \in Values
           /\ v = NoChat <=> Interrupted(v) = NoChat
           /\ DOMAIN Interrupted(v) = DOMAIN v
           /\ \A i \in DOMAIN v : Interrupted(v)[i] # "pending"
<1>1. PICK n \in 0 .. MaxAnswers : v \in [1 .. n -> Status]
  BY DEF Values
<1>2. n \in Nat /\ MaxAnswers \in Nat /\ v \in Seq(Status) /\ Len(v) = n /\ DOMAIN v = 1 .. n
  BY <1>1, SeqDef DEF BoundsAssumption
<1>3. ASSUME NEW i \in DOMAIN v, NEW st \in Status
      PROVE  /\ [v EXCEPT ![i] = st] \in Values
             /\ [v EXCEPT ![i] = st] # NoChat
             /\ DOMAIN [v EXCEPT ![i] = st] = DOMAIN v
  <2> DEFINE w == [v EXCEPT ![i] = st]
  <2>1. w \in [1 .. n -> Status] /\ DOMAIN w = DOMAIN v
    BY <1>1, <1>2
  <2>2. w \in Values
    BY <2>1 DEF Values
  <2>3. w # NoChat
    <3>1. DOMAIN NoChat = {}
      BY DEF NoChat
    <3> QED
      BY <2>1, <3>1
  <2> QED
    BY <2>1, <2>2, <2>3
<1>4. ASSUME Len(v) < MaxAnswers
      PROVE  Append(v, "pending") \in Values /\ Append(v, "pending") # NoChat
  <2>1. "pending" \in Status
    BY DEF Status
  <2>2. Append(v, "pending") \in Seq(Status) /\ Len(Append(v, "pending")) = n + 1
    BY <1>2, <2>1
  <2>3. Append(v, "pending") \in [1 .. n + 1 -> Status]
    <3> DEFINE w == Append(v, "pending")
    <3>1. w \in Seq(Status) /\ Len(w) = n + 1
      BY <2>2
    <3> HIDE DEF w
    <3>2. PICK m \in Nat : w \in [1 .. m -> Status]
      BY <3>1, SeqDef
    <3>3. m = n + 1
      BY <1>2, <3>1, <3>2
    <3> QED
      BY <3>2, <3>3 DEF w
  <2>4. n + 1 \in 0 .. MaxAnswers
    BY <1>2, <1>4
  <2>5. Append(v, "pending") # NoChat
    BY <1>2, <2>2 DEF NoChat
  <2> QED
    BY <2>3, <2>4, <2>5 DEF Values
<1>5. /\ Interrupted(v) \in [1 .. n -> Status]
      /\ DOMAIN Interrupted(v) = DOMAIN v
      /\ \A i \in DOMAIN v : Interrupted(v)[i] # "pending"
  BY <1>1, <1>2 DEF Interrupted, Status
<1>6. Interrupted(v) \in Values
  BY <1>5 DEF Values
<1>7. v = NoChat <=> Interrupted(v) = NoChat
  BY <1>2, <1>5, <1>6, ValueShape
<1> QED
  BY <1>3, <1>4, <1>5, <1>6, <1>7

LEMMA InterruptedLen ==
    ASSUME BoundsAssumption, NEW v \in Values
    PROVE  Len(Interrupted(v)) = Len(v)
<1>1. Interrupted(v) \in Values /\ DOMAIN Interrupted(v) = DOMAIN v
  BY ValueKept
<1>2. /\ Len(Interrupted(v)) \in Nat /\ DOMAIN Interrupted(v) = 1 .. Len(Interrupted(v))
      /\ Len(v) \in Nat /\ DOMAIN v = 1 .. Len(v)
  BY <1>1, ValueShape
<1>3. ASSUME NEW m \in Nat, NEW n \in Nat, 1 .. m = 1 .. n PROVE m = n
  BY <1>3
<1> QED
  BY <1>1, <1>2, <1>3
-----------------------------------------------------------------------------
(* Types *)

Typed == TypeOK /\ saves \in Seq([Chats -> Values])

LEMMA TypingLoad ==
    ASSUME BoundsAssumption, Typed, Loads
    PROVE  Typed'
<1>1. Old \in Values /\ NoChat \in Values
  BY OldIsValue
<1>2. \A f \in [Chats -> Values] : [c \in Chats |-> Interrupted(f[c])] \in [Chats -> Values]
  BY ValueKept
<1>3. chats \in [Chats -> Values] /\ saved \in [Chats -> Values]
      /\ stored \in [Chats -> Values \cup {Unreadable}]
  BY DEF Typed, TypeOK
<1>4. Fault => faults' \in 0 .. MaxFaults
  BY DEF Fault, Typed, TypeOK, BoundsAssumption
<1>5. ASSUME NEW read \in [Chats -> Values], Hydrate(read)
      PROVE  chats' \in [Chats -> Values] /\ phase' \in Phases /\ timer' \in BOOLEAN /\ moving' \subseteq Chats
  BY <1>2, <1>5 DEF Hydrate, Phases
<1>6. CASE Keys
  BY <1>6 DEF Keys, storeVars, Typed, TypeOK, Phases
<1>7. CASE KeysFail
  BY <1>3, <1>4, <1>5, <1>7 DEF KeysFail, Typed, TypeOK
<1>8. CASE ReadChats
  <2>1. PICK lost \in SUBSET {c \in Chats : stored[c] \notin {NoChat, Unreadable}} :
          LET read == [c \in Chats |-> IF stored[c] = Unreadable \/ c \in lost THEN NoChat ELSE stored[c]]
          IN  /\ IF lost = {} THEN UNCHANGED faults ELSE Fault
              /\ saved' = read
              /\ IF legacy # Empty
                 THEN chats' = read /\ phase' = "legacy" /\ UNCHANGED <<moving, timer>>
                 ELSE Hydrate(read)
    BY <1>8 DEF ReadChats
  <2> DEFINE read == [c \in Chats |-> IF stored[c] = Unreadable \/ c \in lost THEN NoChat ELSE stored[c]]
  <2>2. read \in [Chats -> Values]
    BY <1>1, <1>3
  <2>3. /\ IF lost = {} THEN UNCHANGED faults ELSE Fault
        /\ saved' = read
        /\ IF legacy # Empty
           THEN chats' = read /\ phase' = "legacy" /\ UNCHANGED <<moving, timer>>
           ELSE Hydrate(read)
    BY <2>1
  <2> HIDE DEF read
  <2>4. chats' \in [Chats -> Values] /\ phase' \in Phases /\ timer' \in BOOLEAN /\ moving' \subseteq Chats
    BY <1>5, <2>2, <2>3 DEF Phases, Typed, TypeOK
  <2>5. faults' \in 0 .. MaxFaults
    BY <1>4, <2>3 DEF Typed, TypeOK
  <2> QED
    BY <1>8, <2>2, <2>3, <2>4, <2>5 DEF ReadChats, Typed, TypeOK
<1>9. CASE ReadLegacy
  <2>1. chats' \in [Chats -> Values] /\ phase' \in Phases /\ moving' \subseteq Chats
    BY <1>1, <1>3, <1>9 DEF ReadLegacy, Phases, Typed, TypeOK
  <2>2. deleted' \in [Chats -> {"no", "deleted", "erased"}]
    <3>1. deleted \in [Chats -> {"no", "deleted", "erased"}]
      BY DEF Typed, TypeOK
    <3> QED
      BY <1>9, <3>1 DEF ReadLegacy
  <2> QED
    BY <1>9, <2>1, <2>2 DEF ReadLegacy, storeVars, Typed, TypeOK
<1>10. ASSUME NEW c \in Chats, Move(c) PROVE Typed'
  BY <1>3, <1>10 DEF Move, Typed, TypeOK
<1>11. CASE Moved
  <2>1. legacy' \in [Chats -> {NoChat, Unreadable, Old}]
    BY <1>11 DEF Moved, Empty
  <2> QED
    BY <1>3, <1>5, <1>11, <2>1 DEF Moved, Typed, TypeOK
<1>12. CASE MigrateFails
  BY <1>3, <1>4, <1>5, <1>12 DEF MigrateFails, storeVars, Typed, TypeOK
<1> QED
  BY <1>6, <1>7, <1>8, <1>9, <1>10, <1>11, <1>12 DEF Loads

LEMMA TypingAct ==
    ASSUME BoundsAssumption, Typed, Acts \/ Requests
    PROVE  Typed'
<1>1. chats \in [Chats -> Values] /\ NoChat \in Values
      /\ inflight \in [Chats -> [Answers -> Requested]]
  BY OldIsValue DEF Typed, TypeOK
<1>2. ASSUME NEW c \in Chats, NEW v \in Values, Changes(c, v)
      PROVE  chats' \in [Chats -> Values] /\ timer' \in BOOLEAN
  BY <1>1, <1>2 DEF Changes
<1>3. \A c \in Chats : \A i \in DOMAIN chats[c] : i \in Answers
  BY <1>1, ValueShape DEF Answers, BoundsAssumption
<1>4. ASSUME NEW c \in Chats, Send(c) PROVE Typed'
  <2>1. chats[c] \in Values /\ Len(chats[c]) < MaxAnswers
    BY <1>1, <1>4 DEF Send
  <2>2. Append(chats[c], "pending") \in Values
    BY <2>1, ValueKept
  <2>3. Len(chats[c]) + 1 \in Answers
    BY <2>1, ValueShape DEF Answers, BoundsAssumption
  <2>4. inflight' \in [Chats -> [Answers -> Requested]]
    BY <1>1, <1>4, <2>3 DEF Send, Requested
  <2>5. chats' \in [Chats -> Values] /\ timer' \in BOOLEAN
    BY <1>2, <1>4, <2>2 DEF Send
  <2> QED
    BY <1>4, <2>4, <2>5 DEF Send, storeVars, Typed, TypeOK
<1>5. ASSUME NEW c \in Chats, NEW i \in Answers, Retry(c, i) \/ RetryWithoutMedia(c, i) PROVE Typed'
  <2>1. chats[c] \in Values /\ i \in DOMAIN chats[c]
    BY <1>1, <1>5 DEF Retry, RetryWithoutMedia
  <2>2. [chats[c] EXCEPT ![i] = "pending"] \in Values /\ [chats[c] EXCEPT ![i] = "error"] \in Values
    BY <2>1, ValueKept DEF Status
  <2>3. chats' \in [Chats -> Values] /\ timer' \in BOOLEAN
    BY <1>2, <1>5, <2>2 DEF Retry, RetryWithoutMedia
  <2>4. inflight' \in [Chats -> [Answers -> Requested]]
    <3>1. CASE Retry(c, i)
      BY <1>1, <3>1 DEF Retry, Requested
    <3>2. CASE RetryWithoutMedia(c, i)
      BY <1>1, <3>2 DEF RetryWithoutMedia
    <3> QED
      BY <1>5, <3>1, <3>2
  <2> QED
    BY <1>5, <2>3, <2>4 DEF Retry, RetryWithoutMedia, storeVars, Typed, TypeOK
<1>6. ASSUME NEW c \in Chats, Stop(c) PROVE Typed'
  <2>1. inflight' \in [Chats -> [Answers -> Requested]]
    BY <1>1, <1>6 DEF Stop, Requested
  <2> QED
    BY <1>6, <2>1 DEF Stop, storeVars, Typed, TypeOK
<1>7. ASSUME NEW c \in Chats, Remove(c) PROVE Typed'
  <2>1. inflight' \in [Chats -> [Answers -> Requested]]
    BY <1>1, <1>7 DEF Remove, Requested
  <2>2. chats' \in [Chats -> Values] /\ timer' \in BOOLEAN
    BY <1>1, <1>2, <1>7 DEF Remove
  <2>3. deleted' \in [Chats -> {"no", "deleted", "erased"}]
    BY <1>7 DEF Remove, Typed, TypeOK
  <2> QED
    BY <1>7, <2>1, <2>2, <2>3 DEF Remove, storeVars, Typed, TypeOK
<1>8. ASSUME NEW c \in Chats, NEW i \in Answers, Stream(c, i) PROVE Typed'
  BY <1>8 DEF Stream, storeVars, Typed, TypeOK
<1>10. ASSUME NEW c \in Chats, NEW i \in Answers, Stall(c, i) PROVE Typed'
  <2>1. inflight' \in [Chats -> [Answers -> Requested]]
    BY <1>1, <1>10 DEF Stall, Requested
  <2> QED
    BY <1>10, <2>1 DEF Stall, storeVars, Typed, TypeOK
<1>9. ASSUME NEW c \in Chats, NEW i \in Answers, Answered(c, i) \/ Fails(c, i) PROVE Typed'
  <2>1. PICK answer \in {"done", "stopped", "error"} : Settles(c, i, answer)
    BY <1>9 DEF Answered, Fails
  <2>2. [chats[c] EXCEPT ![i] = answer] \in Values
    <3>1. CASE i \in DOMAIN chats[c]
      BY <1>1, <3>1, ValueKept DEF Status
    <3>2. CASE i \notin DOMAIN chats[c]
      <4>0. chats[c] \in Values
        BY <1>1
      <4>1. PICK n \in 0 .. MaxAnswers : chats[c] \in [1 .. n -> Status]
        BY <4>0 DEF Values
      <4>2. [chats[c] EXCEPT ![i] = answer] \in [1 .. n -> Status]
        BY <3>2, <4>1
      <4> QED
        BY <4>1, <4>2 DEF Values
    <3> QED
      BY <3>1, <3>2
  <2>3. chats' \in [Chats -> Values] /\ timer' \in BOOLEAN
    BY <1>2, <2>1, <2>2 DEF Settles
  <2>4. inflight' \in [Chats -> [Answers -> Requested]]
    BY <1>1, <2>1 DEF Settles, Requested
  <2> QED
    BY <2>1, <2>3, <2>4 DEF Settles, storeVars, Typed, TypeOK
<1> QED
  BY <1>4, <1>5, <1>6, <1>7, <1>8, <1>9, <1>10 DEF Acts, Requests

LEMMA TypingSave ==
    ASSUME BoundsAssumption, Typed, Save \/ Saving
    PROVE  Typed'
<1> DEFINE V == [Chats -> Values]
<1>1. chats \in V /\ saved \in V /\ saves \in Seq(V)
      /\ stored \in [Chats -> Values \cup {Unreadable}] /\ NoChat \in Values
  BY OldIsValue DEF Typed, TypeOK
<1>2. Fault => faults' \in 0 .. MaxFaults
  BY DEF Fault, Typed, TypeOK, BoundsAssumption
<1>3. CASE Save
  <2>1. saves' \in Seq(V) /\ Len(saves') = Len(saves) + 1 /\ Len(saves) < MaxSaves
    BY <1>1, <1>3 DEF Save
  <2>2. Len(saves') <= MaxSaves /\ \A k \in DOMAIN saves' : saves'[k] \in V
    BY <1>1, <2>1 DEF BoundsAssumption
  <2>3. todo' \subseteq Chats /\ timer' \in BOOLEAN
    BY <1>3 DEF Save, Typed, TypeOK
  <2> QED
    BY <1>3, <2>1, <2>2, <2>3 DEF Save, Typed, TypeOK
<1>4. ASSUME NEW c \in Chats, WriteChat(c) PROVE Typed'
  <2>1. Head(saves) \in V
    BY <1>1, <1>4 DEF WriteChat
  <2>2. stored' \in [Chats -> Values \cup {Unreadable}] /\ saved' \in V /\ faults' \in 0 .. MaxFaults
    BY <1>1, <1>2, <1>4, <2>1 DEF WriteChat, Typed, TypeOK
  <2>3. todo' \subseteq Chats
    BY <1>4 DEF WriteChat, Typed, TypeOK
  <2> QED
    BY <1>4, <2>2, <2>3 DEF WriteChat, Typed, TypeOK
<1>5. CASE EndSave
  <2>1. stored' \in [Chats -> Values \cup {Unreadable}] /\ saved' \in V /\ faults' \in 0 .. MaxFaults
    BY <1>1, <1>2, <1>5 DEF EndSave, Typed, TypeOK
  <2>2. saves' \in Seq(V) /\ Len(saves') = Len(saves) - 1
    BY <1>1, <1>5, HeadTailProperties DEF EndSave
  <2>3. Len(saves') <= MaxSaves /\ \A k \in DOMAIN saves' : saves'[k] \in V
    BY <1>1, <2>2 DEF BoundsAssumption, Typed, TypeOK
  <2>4. todo' \subseteq Chats
    BY <1>5 DEF EndSave
  <2>5. deleted' \in [Chats -> {"no", "deleted", "erased"}]
    BY <1>5 DEF EndSave, Typed, TypeOK
  <2> QED
    BY <1>5, <2>1, <2>2, <2>3, <2>4, <2>5 DEF EndSave, Typed, TypeOK
<1> QED
  BY <1>3, <1>4, <1>5 DEF Saving

LEMMA TypingInit == BoundsAssumption /\ Init => Typed
<1> SUFFICES ASSUME BoundsAssumption, Init PROVE Typed
  OBVIOUS
<1>1. Old \in Values /\ NoChat \in Values
  BY OldIsValue
<1>2. Empty \in [Chats -> Values] /\ NoRequests \in [Chats -> [Answers -> Requested]]
  BY <1>1 DEF Empty, NoRequests, Requested
<1>3. stored \in [Chats -> Values \cup {Unreadable}] /\ legacy \in [Chats -> {NoChat, Unreadable, Old}]
      /\ deleted \in [Chats -> {"no", "deleted", "erased"}]
  BY <1>1 DEF Init
<1>4. saves = <<>> /\ saves \in Seq([Chats -> Values]) /\ Len(saves) = 0 /\ DOMAIN saves = {}
  BY DEF Init
<1>5. 0 \in 0 .. MaxFaults /\ 0 \in 0 .. MaxKills /\ 0 <= MaxSaves
  BY DEF BoundsAssumption
<1> QED
  BY <1>2, <1>3, <1>4, <1>5 DEF Init, Typed, TypeOK, Phases

LEMMA Typing == BoundsAssumption /\ Typed /\ [Next]_vars => Typed'
<1> SUFFICES ASSUME BoundsAssumption, Typed, [Next]_vars PROVE Typed'
  OBVIOUS
<1>1. CASE Kill
  <2>1. Empty \in [Chats -> Values] /\ NoRequests \in [Chats -> [Answers -> Requested]]
    BY OldIsValue DEF Empty, NoRequests, Requested
  <2>2. saves' = <<>> /\ saves' \in Seq([Chats -> Values]) /\ Len(saves') = 0 /\ DOMAIN saves' = {}
    BY <1>1 DEF Kill
  <2>3. 0 <= MaxSaves /\ kills' \in 0 .. MaxKills
    BY <1>1 DEF Kill, Typed, TypeOK, BoundsAssumption
  <2> QED
    BY <1>1, <2>1, <2>2, <2>3 DEF Kill, Typed, TypeOK, Phases
<1>2. CASE UNCHANGED vars
  BY <1>2 DEF vars, Typed, TypeOK
<1> QED
  BY <1>1, <1>2, TypingLoad, TypingAct, TypingSave DEF Next
-----------------------------------------------------------------------------
(* The invariant of the store and the requests *)

\* Of two snapshots of the conversations, the later lacks a chat of the
\* earlier only when the user deleted it, and has all its answers otherwise.
Later(c, del, v, w) ==
    v[c] # NoChat => IF w[c] = NoChat THEN del[c] # "no" ELSE Len(v[c]) <= Len(w[c])

\* Of three, the last does not have again what the second lacks.
Stays(c, u, v, w) == u[c] # NoChat /\ v[c] = NoChat => w[c] = NoChat

\* What was written, what the saves were given and what is shown, in order.
Ordered(c) ==
    /\ Later(c, deleted, saved, chats)
    /\ \A k \in DOMAIN saves : /\ Later(c, deleted, saved, saves[k]) /\ Later(c, deleted, saves[k], chats)
                               /\ Stays(c, saved, saves[k], chats)
    /\ \A j, k \in DOMAIN saves : j < k => /\ Later(c, deleted, saves[j], saves[k])
                                           /\ Stays(c, saved, saves[j], saves[k])
                                           /\ Stays(c, saves[j], saves[k], chats)
    /\ \A i, j, k \in DOMAIN saves : i < j /\ j < k => Stays(c, saves[i], saves[j], saves[k])

\* What was read or written is what is stored. What is stored and was not read
\* is not shown or saved, unless the old value has one of that id; nor is what
\* was erased.
Own(c, st, old, sv, del, v) ==
    /\ sv[c] # NoChat => st[c] = sv[c]
    /\ st[c] # NoChat /\ sv[c] = NoChat => old[c] = Old \/ v[c] = NoChat
    /\ del[c] = "erased" => st[c] = NoChat /\ v[c] = NoChat

Owned(c) == /\ Own(c, stored, legacy, saved, deleted, chats)
            /\ \A k \in DOMAIN saves : Own(c, stored, legacy, saved, deleted, saves[k])

\* Until the conversations are loaded nothing is saved and nothing asked; an
\* old conversation that is not to be moved any more was read or written.
Loading ==
    /\ phase # "ready" => saves = <<>> /\ inflight = NoRequests
    /\ phase \in {"keys", "chats"} => \A c \in Chats : chats[c] = NoChat /\ saved[c] = NoChat
    /\ phase = "legacy" => \A c \in Chats : chats[c] = saved[c]
    /\ phase = "moving" => \A c \in Chats :
          IF c \in moving THEN legacy[c] = Old /\ chats[c] = Old /\ saved[c] = NoChat
          ELSE chats[c] = saved[c] /\ (legacy[c] = Old => saved[c] # NoChat)

Inv == Typed /\ Loading /\ PendingHasRequest /\ \A c \in Chats : Ordered(c) /\ Owned(c)

LEMMA InvInit == BoundsAssumption /\ Init => Inv
<1> SUFFICES ASSUME BoundsAssumption, Init PROVE Inv
  OBVIOUS
<1>1. Typed
  BY TypingInit
<1>2. saves = <<>> /\ DOMAIN saves = {} /\ phase = "keys" /\ inflight = NoRequests
      /\ saved = Empty /\ chats = Empty /\ \A c \in Chats : deleted[c] = "no"
  BY DEF Init
<1> QED
  BY <1>1, <1>2 DEF Inv, Loading, PendingHasRequest, Ordered, Owned, Own, Later, Empty

\* A step of load(): what is shown grows, and nothing is saved.
LEMMA InvLoad == ASSUME BoundsAssumption, Inv, Loads PROVE Inv'
<1>1. Typed'
  BY TypingLoad DEF Inv
<1>2. /\ chats \in [Chats -> Values] /\ saved \in [Chats -> Values]
      /\ stored \in [Chats -> Values \cup {Unreadable}] /\ Old # NoChat /\ NoChat \in Values /\ Old \in Values
      /\ Unreadable # NoChat /\ Unreadable # Old
      /\ legacy \in [Chats -> {NoChat, Unreadable, Old}] /\ deleted \in [Chats -> {"no", "deleted", "erased"}]
  BY OldIsValue DEF Inv, Typed, TypeOK, Unreadable, NoChat, Old
<1>3. phase # "ready" /\ saves = <<>> /\ DOMAIN saves = {} /\ inflight = NoRequests
  BY DEF Loads, Keys, KeysFail, ReadChats, ReadLegacy, Move, Moved, MigrateFails, Inv, Loading
<1>4. ASSUME NEW read \in [Chats -> Values], Hydrate(read), UNCHANGED <<saves, inflight>>,
             \A c \in Chats : /\ Later(c, deleted', saved', read)
                              /\ Own(c, stored', legacy', saved', deleted', read)
      PROVE  Inv'
  <2>1. /\ phase' = "ready" /\ saves' = <<>> /\ DOMAIN saves' = {} /\ inflight' = NoRequests
        /\ \A c \in Chats : chats'[c] = Interrupted(read[c])
    BY <1>3, <1>4 DEF Hydrate
  <2>2. PendingHasRequest'
    <3> SUFFICES ASSUME NEW c \in Chats, NEW i \in Answers
                 PROVE  inflight'[c][i] = "none" /\ ~(i \in DOMAIN chats'[c] /\ chats'[c][i] = "pending")
      BY DEF PendingHasRequest
    <3>1. read[c] \in Values
      BY <1>4
    <3>2. i \in DOMAIN Interrupted(read[c]) => Interrupted(read[c])[i] # "pending"
      BY <3>1, ValueKept
    <3> QED
      BY <2>1, <3>2 DEF NoRequests
  <2>3. ASSUME NEW c \in Chats PROVE Ordered(c)' /\ Owned(c)'
    <3>1. read[c] \in Values
      BY <1>4
    <3>2. (chats'[c] = NoChat <=> read[c] = NoChat) /\ Len(chats'[c]) = Len(read[c])
      BY <2>1, <3>1, ValueKept, InterruptedLen
    <3>3. Later(c, deleted', saved', chats') /\ Own(c, stored', legacy', saved', deleted', chats')
      BY <1>4, <3>2 DEF Later, Own
    <3> QED
      BY <2>1, <3>3 DEF Ordered, Owned
  <2> QED
    BY <1>1, <2>1, <2>2, <2>3 DEF Inv, Loading
<1>5. \A c \in Chats : Later(c, deleted, saved, chats) /\ Own(c, stored, legacy, saved, deleted, chats)
  BY DEF Inv, Ordered, Owned
<1>6. ASSUME phase' # "ready", UNCHANGED <<saves, inflight>>,
             \A c \in Chats : /\ Later(c, deleted', saved', chats')
                              /\ Own(c, stored', legacy', saved', deleted', chats'),
             Loading'
      PROVE  Inv'
  <2>1. \A c \in Chats : Ordered(c)' /\ Owned(c)'
    BY <1>3, <1>6 DEF Ordered, Owned
  <2> QED
    BY <1>1, <1>6, <2>1 DEF Inv, PendingHasRequest
<1>7. CASE Keys
  <2>1. UNCHANGED <<stored, legacy, saved, saves, chats, inflight, deleted>> /\ phase = "keys" /\ phase' = "chats"
    BY <1>7 DEF Keys, storeVars
  <2>2. Loading'
    BY <1>3, <2>1 DEF Inv, Loading
  <2> QED
    BY <1>5, <1>6, <2>1, <2>2
<1>8. CASE KeysFail \/ MigrateFails
  <2>1. Hydrate(chats) /\ UNCHANGED <<stored, legacy, saved, saves, inflight, deleted>>
    BY <1>8 DEF KeysFail, MigrateFails, storeVars
  <2> QED
    BY <1>2, <1>4, <1>5, <2>1
<1>12. CASE Moved
  <2>1. /\ Hydrate(chats) /\ UNCHANGED <<stored, saved, saves, inflight, deleted>> /\ legacy' = Empty
        /\ phase = "moving" /\ moving = {}
    BY <1>12 DEF Moved
  <2>2. \A c \in Chats : chats[c] = saved[c]
    BY <2>1 DEF Inv, Loading
  <2>3. \A c \in Chats : /\ Later(c, deleted', saved', chats)
                         /\ Own(c, stored', legacy', saved', deleted', chats)
    BY <1>5, <2>1, <2>2 DEF Later, Own
  <2> QED
    BY <1>2, <1>4, <2>1, <2>3
<1>9. CASE ReadChats
  <2>1. PICK lost \in SUBSET {c \in Chats : stored[c] \notin {NoChat, Unreadable}} :
          LET read == [c \in Chats |-> IF stored[c] = Unreadable \/ c \in lost THEN NoChat ELSE stored[c]]
          IN  /\ saved' = read
              /\ IF legacy # Empty
                 THEN chats' = read /\ phase' = "legacy" /\ UNCHANGED <<moving, timer>>
                 ELSE Hydrate(read)
    BY <1>9 DEF ReadChats
  <2> DEFINE read == [c \in Chats |-> IF stored[c] = Unreadable \/ c \in lost THEN NoChat ELSE stored[c]]
  <2>2. /\ saved' = read
        /\ IF legacy # Empty THEN chats' = read /\ phase' = "legacy" ELSE Hydrate(read)
    BY <2>1
  <2>3. read \in [Chats -> Values] /\ \A c \in Chats : read[c] # NoChat => stored[c] = read[c]
    BY <1>2
  <2> HIDE DEF read
  <2>4. UNCHANGED <<stored, legacy, saves, inflight, deleted>>
    BY <1>9 DEF ReadChats
  <2>5. ASSUME NEW c \in Chats PROVE Later(c, deleted', saved', read) /\ Own(c, stored', legacy', saved', deleted', read)
    <3>1. read[c] \in Values /\ Len(read[c]) \in Nat
      BY <2>3, ValueShape
    <3>2. deleted[c] = "erased" => stored[c] = NoChat
      BY <1>5 DEF Own
    <3> QED
      BY <2>2, <2>3, <2>4, <3>1, <3>2 DEF Later, Own
  <2>6. CASE legacy # Empty
    <3>1. Loading'
      BY <1>3, <2>2, <2>4, <2>6 DEF Loading
    <3> QED
      BY <1>6, <2>2, <2>4, <2>5, <2>6, <3>1
  <2>7. CASE legacy = Empty
    BY <1>4, <2>2, <2>3, <2>4, <2>5, <2>7
  <2> QED
    BY <2>6, <2>7
<1>10. CASE ReadLegacy
  <2>1. /\ phase = "legacy" /\ phase' = "moving" /\ moving' = {c \in Chats : legacy[c] = Old /\ chats[c] = NoChat}
        /\ UNCHANGED <<stored, legacy, saved, saves, inflight>>
        /\ \A c \in Chats : /\ chats'[c] = IF c \in moving' THEN Old ELSE chats[c]
                            /\ deleted'[c] = IF c \in moving' /\ deleted[c] = "erased" THEN "deleted" ELSE deleted[c]
    BY <1>10 DEF ReadLegacy, storeVars
  <2>2. \A c \in Chats : chats[c] = saved[c]
    BY <2>1 DEF Inv, Loading
  <2>3. Loading'
    BY <1>2, <1>3, <2>1, <2>2 DEF Loading
  <2>4. \A c \in Chats : Later(c, deleted', saved', chats') /\ Own(c, stored', legacy', saved', deleted', chats')
    BY <1>2, <1>5, <2>1, <2>2 DEF Later, Own
  <2> QED
    BY <1>6, <2>1, <2>3, <2>4
<1>11. ASSUME NEW d \in Chats, Move(d) PROVE Inv'
  <2>1. /\ phase = "moving" /\ d \in moving /\ moving' = moving \ {d}
        /\ stored' = [stored EXCEPT ![d] = chats[d]] /\ saved' = [saved EXCEPT ![d] = chats[d]]
        /\ UNCHANGED <<legacy, phase, chats, saves, inflight, deleted>>
    BY <1>11 DEF Move
  <2>2. chats[d] = Old /\ legacy[d] = Old
    BY <2>1 DEF Inv, Loading
  <2>3. \A c \in Chats : /\ c # d => stored'[c] = stored[c] /\ saved'[c] = saved[c]
                         /\ c = d => stored'[c] = Old /\ saved'[c] = Old
    BY <1>2, <2>1, <2>2
  <2>4. Loading'
    BY <1>2, <1>3, <2>1, <2>2, <2>3 DEF Loading, Inv
  <2>5. deleted[d] # "erased"
    BY <1>2, <1>5, <2>2 DEF Own
  <2>6. Len(Old) \in Nat
    BY <1>2, ValueShape
  <2>7. \A c \in Chats : Later(c, deleted', saved', chats') /\ Own(c, stored', legacy', saved', deleted', chats')
    BY <1>2, <1>5, <2>1, <2>2, <2>3, <2>5, <2>6 DEF Later, Own
  <2> QED
    BY <1>6, <2>1, <2>4, <2>7
<1> QED
  BY <1>7, <1>8, <1>9, <1>10, <1>11, <1>12 DEF Loads

\* A chat that is shown changes, or one that was removed is gone: the
\* snapshots behind it stay as they are.
LEMMA OrderKept ==
    ASSUME BoundsAssumption, Inv, NEW c \in Chats, NEW v \in Values, Changes(c, v), UNCHANGED <<stored, legacy, saved, saves>>,
           \A d \in Chats : d # c => deleted'[d] = deleted[d],
           v = NoChat => deleted'[c] = "deleted",
           v # NoChat => /\ deleted'[c] = deleted[c]
                         /\ \/ chats[c] # NoChat /\ Len(chats[c]) <= Len(v)
                            \/ chats[c] = NoChat /\ deleted[c] = "no" /\ stored[c] = NoChat
    PROVE  \A d \in Chats : Ordered(d)' /\ Owned(d)'
<1> TAKE d \in Chats
<1>1. /\ chats \in [Chats -> Values] /\ saved \in [Chats -> Values] /\ saves \in Seq([Chats -> Values])
      /\ Ordered(d) /\ Owned(d) /\ chats' = [chats EXCEPT ![c] = v] /\ UNCHANGED <<stored, legacy, saved, saves>>
  BY DEF Inv, Typed, TypeOK, Changes
<1>2. \A w \in Values : Len(w) \in Nat
  BY ValueShape
<1>3. \A k \in DOMAIN saves : saves[k][d] \in Values
  BY <1>1
<1>4. CASE d # c
  <2>1. chats'[d] = chats[d] /\ deleted'[d] = deleted[d]
    BY <1>1, <1>4
  <2> QED
    BY <1>1, <2>1 DEF Ordered, Owned, Own, Later, Stays
<1>5. CASE d = c
  <2>1. chats'[d] = v
    BY <1>1, <1>5
  <2>2. CASE v = NoChat
    <3>1. deleted'[d] = "deleted"
      BY <1>5, <2>2
    <3> QED
      BY <1>1, <2>1, <2>2, <3>1 DEF Ordered, Owned, Own, Later, Stays
  <2>3. CASE v # NoChat /\ chats[c] # NoChat
    <3>1. deleted'[d] = deleted[d] /\ Len(chats[d]) <= Len(v) /\ chats[d] # NoChat
      BY <1>5, <2>3
    <3>2. deleted[d] # "erased"
      BY <1>1, <3>1 DEF Owned, Own
    <3>3. /\ chats[d] \in Values /\ saved[d] \in Values /\ Len(chats[d]) \in Nat /\ Len(saved[d]) \in Nat /\ Len(v) \in Nat
          /\ \A k \in DOMAIN saves : Len(saves[k][d]) \in Nat
      BY <1>1, <1>2, <1>3
    <3>4. Later(d, deleted', saved', chats') /\ \A k \in DOMAIN saves : Later(d, deleted', saves[k], chats')
      BY <1>1, <2>1, <2>3, <3>1, <3>3 DEF Ordered, Later
    <3>5. \A k \in DOMAIN saves : /\ Stays(d, saved, saves[k], chats')
                                  /\ \A j \in DOMAIN saves : j < k => Stays(d, saves[j], saves[k], chats')
      BY <1>1, <3>1 DEF Ordered, Stays
    <3>6. Ordered(d)'
      BY <1>1, <3>1, <3>4, <3>5 DEF Ordered, Later
    <3>7. Owned(d)'
      BY <1>1, <2>1, <3>1, <3>2 DEF Owned, Own
    <3> QED
      BY <3>6, <3>7
  <2>4. CASE v # NoChat /\ chats[c] = NoChat
    <3>1. deleted'[d] = "no" /\ deleted[d] = "no" /\ chats[d] = NoChat /\ stored[d] = NoChat
      BY <1>5, <2>4
    <3>2. saved[d] = NoChat /\ \A k \in DOMAIN saves : saves[k][d] = NoChat
      BY <1>1, <3>1 DEF Ordered, Later
    <3> QED
      BY <1>1, <2>1, <3>1, <3>2 DEF Ordered, Owned, Own, Later, Stays
  <2> QED
    BY <2>2, <2>3, <2>4
<1> QED
  BY <1>4, <1>5

LEMMA InvAct == ASSUME BoundsAssumption, Inv, Acts \/ Requests PROVE Inv'
<1>1. Typed'
  BY TypingAct DEF Inv
<1>2. /\ chats \in [Chats -> Values]
      /\ inflight \in [Chats -> [Answers -> Requested]]
  BY DEF Inv, Typed, TypeOK
<1>3. \A c \in Chats : /\ chats[c] \in Values /\ Len(chats[c]) \in Nat
                       /\ DOMAIN chats[c] = 1 .. Len(chats[c])
                       /\ chats[c] # NoChat <=> Len(chats[c]) # 0
                       /\ chats[c] \in Seq(Status)
  BY <1>2, ValueShape
<1>4. phase' = phase /\ UNCHANGED <<saved, saves>> /\ UNCHANGED <<stored, legacy, moving>>
  BY DEF Acts, Requests, Send, Retry, RetryWithoutMedia, Stop, Remove, Stream, Stall, Answered, Fails,
         Settles, storeVars
<1>5. ASSUME phase = "ready", NEW c \in Chats, NEW v \in Values, Changes(c, v), PendingHasRequest',
             \A d \in Chats : d # c => deleted'[d] = deleted[d],
             v = NoChat => deleted'[c] = "deleted",
             v # NoChat => /\ deleted'[c] = deleted[c]
                           /\ \/ chats[c] # NoChat /\ Len(chats[c]) <= Len(v)
                              \/ chats[c] = NoChat /\ deleted[c] = "no" /\ stored[c] = NoChat
      PROVE  Inv'
  BY <1>1, <1>4, <1>5, OrderKept DEF Inv, Loading
<1>6. ASSUME phase = "ready"
      PROVE  \A c \in Chats, i \in Answers :
                inflight[c][i] # "none" <=> i \in DOMAIN chats[c] /\ chats[c][i] = "pending"
  BY <1>6 DEF Inv, PendingHasRequest
<1>7. ASSUME NEW c \in Chats, NEW i \in Answers, inflight[c][i] # "none"
      PROVE  phase = "ready" /\ i \in DOMAIN chats[c] /\ chats[c][i] = "pending"
  <2>1. phase = "ready"
    BY <1>7 DEF Inv, Loading, NoRequests
  <2> QED
    BY <1>6, <1>7, <2>1
<1>8. ASSUME NEW c \in Chats, Send(c) PROVE Inv'
  <2> DEFINE v == Append(chats[c], "pending")
             n == Len(chats[c])
  <2>1. phase = "ready" /\ Changes(c, v) /\ deleted' = deleted /\ n < MaxAnswers
        /\ inflight' = [inflight EXCEPT ![c][n + 1] = "running"]
    BY <1>8 DEF Send
  <2>2. n \in Nat /\ n + 1 \in Answers /\ MaxAnswers \in Nat
    BY <1>3, <2>1 DEF Answers, BoundsAssumption
  <2>3. v # NoChat /\ v \in Values /\ Len(v) = n + 1
    BY <1>3, <2>1, ValueKept
  <2>6. chats[c] = NoChat => deleted[c] = "no" /\ stored[c] = NoChat
    BY <1>8 DEF Send
  <2>7. n <= n + 1
    BY <2>2
  <2>4. DOMAIN v = 1 .. n + 1 /\ v[n + 1] = "pending" /\ \A i \in 1 .. n : v[i] = chats[c][i]
    BY <1>3
  <2> HIDE DEF v
  <2>5. PendingHasRequest'
    <3> SUFFICES ASSUME NEW d \in Chats, NEW i \in Answers
                 PROVE  inflight'[d][i] # "none" <=> i \in DOMAIN chats'[d] /\ chats'[d][i] = "pending"
      BY DEF PendingHasRequest
    <3>1. CASE d # c
      BY <1>2, <1>6, <2>1, <3>1 DEF Changes
    <3>2. CASE d = c /\ i = n + 1
      <4>1. inflight'[c][n + 1] = "running" /\ chats'[c] = v
        BY <1>2, <2>1, <2>2 DEF Changes
      <4>2. n + 1 \in 1 .. n + 1
        BY <2>2
      <4> QED
        BY <2>4, <3>2, <4>1, <4>2
    <3>3. CASE d = c /\ i # n + 1
      <4>1. inflight'[c][i] = inflight[c][i] /\ chats'[c] = v
        BY <1>2, <2>1, <2>2, <3>3 DEF Changes
      <4>2. i \in 1 .. n + 1 <=> i \in 1 .. n
        BY <2>2, <3>3 DEF Answers
      <4> QED
        BY <1>3, <1>6, <2>1, <2>4, <3>3, <4>1, <4>2
    <3> QED
      BY <3>1, <3>2, <3>3
  <2> QED
    BY <1>5, <2>1, <2>3, <2>5, <2>6, <2>7
<1>9. ASSUME NEW c \in Chats, NEW i \in Answers, NEW st \in Status, phase = "ready",
             i \in DOMAIN chats[c], Changes(c, [chats[c] EXCEPT ![i] = st]), deleted' = deleted,
             inflight' \in [Chats -> [Answers -> Requested]],
             \A d \in Chats, k \in Answers : ~(d = c /\ k = i) => inflight'[d][k] = inflight[d][k],
             inflight'[c][i] # "none" <=> st = "pending"
      PROVE  Inv'
  <2> DEFINE v == [chats[c] EXCEPT ![i] = st]
  <2>1. v # NoChat /\ DOMAIN v = DOMAIN chats[c] /\ v \in Values
    BY <1>3, <1>9, ValueKept
  <2>6. chats[c] # NoChat /\ Len(chats[c]) <= Len(v)
    <3>1. Len(v) \in Nat /\ DOMAIN v = 1 .. Len(v)
      BY <2>1, ValueShape
    <3>2. ASSUME NEW m \in Nat, NEW l \in Nat, 1 .. m = 1 .. l PROVE m <= l
      BY <3>2
    <3>3. DOMAIN NoChat = {}
      BY DEF NoChat
    <3> QED
      BY <1>3, <1>9, <2>1, <3>1, <3>2, <3>3
  <2>2. v[i] = st /\ \A k \in DOMAIN chats[c] : k # i => v[k] = chats[c][k]
    BY <1>9
  <2>3. Changes(c, v)
    BY <1>9
  <2> HIDE DEF v
  <2>4. \A d \in Chats : chats'[d] = IF d = c THEN v ELSE chats[d]
    BY <1>2, <2>3 DEF Changes
  <2>5. PendingHasRequest'
    BY <1>6, <1>9, <2>1, <2>2, <2>4 DEF PendingHasRequest
  <2> QED
    BY <1>5, <1>9, <2>1, <2>3, <2>5, <2>6
<1>10. ASSUME NEW c \in Chats, NEW i \in Answers, Retry(c, i) PROVE Inv'
  <2>1. /\ phase = "ready" /\ i \in DOMAIN chats[c] /\ deleted' = deleted
        /\ Changes(c, [chats[c] EXCEPT ![i] = "pending"])
        /\ inflight' = [inflight EXCEPT ![c][i] = "running"]
    BY <1>10 DEF Retry
  <2> QED
    BY <1>2, <1>9, <2>1 DEF Status, Requested
<1>11. ASSUME NEW c \in Chats, NEW i \in Answers, RetryWithoutMedia(c, i) PROVE Inv'
  <2>1. /\ phase = "ready" /\ i \in DOMAIN chats[c] /\ deleted' = deleted
        /\ Changes(c, [chats[c] EXCEPT ![i] = "error"])
        /\ inflight' = inflight /\ inflight[c][i] = "none"
    BY <1>11 DEF RetryWithoutMedia
  <2> QED
    BY <1>2, <1>9, <2>1 DEF Status, Requested
<1>12. ASSUME NEW c \in Chats, Stop(c) PROVE Inv'
  <2>1. /\ phase = "ready" /\ UNCHANGED <<chats, deleted>>
        /\ inflight' = [inflight EXCEPT ![c] = [i \in Answers |->
                             IF inflight[c][i] = "running" THEN "aborted" ELSE inflight[c][i]]]
    BY <1>12 DEF Stop
  <2>2. \A d \in Chats, i \in Answers : inflight'[d][i] # "none" <=> inflight[d][i] # "none"
    BY <1>2, <2>1
  <2>3. PendingHasRequest'
    BY <1>6, <2>1, <2>2 DEF PendingHasRequest
  <2> QED
    BY <1>1, <1>4, <2>1, <2>3 DEF Inv, Loading, Ordered, Owned, Own, Later, Stays
<1>13. ASSUME NEW c \in Chats, Remove(c) PROVE Inv'
  <2>1. /\ phase = "ready" /\ Changes(c, NoChat) /\ deleted' = [deleted EXCEPT ![c] = "deleted"]
        /\ inflight' = [inflight EXCEPT ![c] = [i \in Answers |-> "none"]]
    BY <1>13 DEF Remove
  <2>2. DOMAIN NoChat = {}
    BY DEF NoChat
  <2>3. PendingHasRequest'
    BY <1>2, <1>6, <2>1, <2>2 DEF PendingHasRequest, Changes
  <2>4. deleted'[c] = "deleted" /\ NoChat \in Values /\ \A d \in Chats : d # c => deleted'[d] = deleted[d]
    BY <2>1, OldIsValue DEF Inv, Typed, TypeOK
  <2> QED
    BY <1>5, <2>1, <2>3, <2>4
<1>16. ASSUME NEW c \in Chats, NEW i \in Answers, Stall(c, i) PROVE Inv'
  <2>1. UNCHANGED <<chats, deleted>> /\ inflight[c][i] # "none" /\ inflight' = [inflight EXCEPT ![c][i] = "stalled"]
    BY <1>16 DEF Stall
  <2>2. phase = "ready"
    BY <1>7, <2>1
  <2>3. \A d \in Chats, k \in Answers : inflight'[d][k] # "none" <=> inflight[d][k] # "none"
    BY <1>2, <2>1
  <2>4. PendingHasRequest'
    BY <1>6, <2>1, <2>2, <2>3 DEF PendingHasRequest
  <2> QED
    BY <1>1, <1>4, <2>1, <2>2, <2>4 DEF Inv, Loading, Ordered, Owned, Own, Later, Stays
<1>14. ASSUME NEW c \in Chats, NEW i \in Answers, Stream(c, i) PROVE Inv'
  <2>1. UNCHANGED <<chats, inflight, deleted>> /\ phase = "ready"
    BY <1>7, <1>14 DEF Stream
  <2> QED
    BY <1>1, <1>4, <2>1 DEF Inv, Loading, Ordered, Owned, Own, Later, Stays, PendingHasRequest
<1>15. ASSUME NEW c \in Chats, NEW i \in Answers, Answered(c, i) \/ Fails(c, i) PROVE Inv'
  <2>1. PICK answer \in {"done", "stopped", "error"} : Settles(c, i, answer)
    BY <1>15 DEF Answered, Fails
  <2>2. phase = "ready" /\ i \in DOMAIN chats[c]
    BY <1>7, <1>15 DEF Answered, Fails
  <2>3. /\ deleted' = deleted /\ inflight' = [inflight EXCEPT ![c][i] = "none"]
        /\ Changes(c, [chats[c] EXCEPT ![i] = answer])
    BY <2>1 DEF Settles
  <2>4. answer \in Status /\ answer # "pending"
    BY DEF Status
  <2> QED
    BY <1>2, <1>9, <2>2, <2>3, <2>4 DEF Requested
<1> QED
  BY <1>8, <1>10, <1>11, <1>12, <1>13, <1>14, <1>15, <1>16 DEF Acts, Requests

LEMMA InvSave == ASSUME BoundsAssumption, Inv, Save \/ Saving PROVE Inv'
<1>1. Typed'
  BY TypingSave DEF Inv
<1>2. /\ saves \in Seq([Chats -> Values]) /\ saved \in [Chats -> Values] /\ chats \in [Chats -> Values]
      /\ stored \in [Chats -> Values \cup {Unreadable}] /\ deleted \in [Chats -> {"no", "deleted", "erased"}]
      /\ \A c \in Chats : Ordered(c) /\ Owned(c)
  BY DEF Inv, Typed, TypeOK
<1>3. Len(saves) \in Nat /\ DOMAIN saves = 1 .. Len(saves)
  BY <1>2
<1>4. UNCHANGED <<chats, inflight, phase, moving, legacy>> /\ phase = "ready"
  <2>1. phase = "ready"
    BY DEF Save, Saving, WriteChat, EndSave, Inv, Loading
  <2> QED
    BY <2>1 DEF Save, Saving, WriteChat, EndSave
<1>5. PendingHasRequest' /\ Loading'
  BY <1>4 DEF Inv, PendingHasRequest, Loading
<1>6. CASE Save
  <2>1. saves' = Append(saves, chats) /\ UNCHANGED <<stored, saved, deleted>>
    BY <1>6 DEF Save
  <2>2. /\ DOMAIN saves' = 1 .. Len(saves) + 1 /\ saves'[Len(saves) + 1] = chats
        /\ \A k \in 1 .. Len(saves) : saves'[k] = saves[k]
    BY <1>2, <2>1
  <2>3. \A k \in 1 .. Len(saves) + 1 : k \in 1 .. Len(saves) \/ k = Len(saves) + 1
    BY <1>3
  <2>4. ASSUME NEW j \in DOMAIN saves', NEW k \in DOMAIN saves', j < k PROVE j \in DOMAIN saves /\ saves'[j] = saves[j]
    BY <1>3, <2>2, <2>3, <2>4
  <2>5. ASSUME NEW k \in DOMAIN saves' PROVE (k \in DOMAIN saves /\ saves'[k] = saves[k]) \/ saves'[k] = chats
    BY <1>3, <2>2, <2>3, <2>5
  <2>6. ASSUME NEW c \in Chats PROVE Ordered(c)'
    <3>1. Later(c, deleted, saved, chats)'
      BY <1>2, <1>4, <2>1 DEF Ordered, Later
    <3>2. \A k \in DOMAIN saves' : /\ Later(c, deleted', saved', saves'[k]) /\ Later(c, deleted', saves'[k], chats')
                                   /\ Stays(c, saved', saves'[k], chats')
      <4>1. Len(chats[c]) \in Nat
        BY <1>2, ValueShape
      <4> QED
        BY <1>2, <1>4, <2>1, <2>5, <4>1 DEF Ordered, Later, Stays
    <3>3. \A j, k \in DOMAIN saves' : j < k => /\ Later(c, deleted', saves'[j], saves'[k])
                                               /\ Stays(c, saved', saves'[j], saves'[k])
                                               /\ Stays(c, saves'[j], saves'[k], chats')
      <4> SUFFICES ASSUME NEW j \in DOMAIN saves', NEW k \in DOMAIN saves', j < k
                   PROVE  /\ Later(c, deleted', saves'[j], saves'[k])
                          /\ Stays(c, saved', saves'[j], saves'[k])
                          /\ Stays(c, saves'[j], saves'[k], chats')
        OBVIOUS
      <4>1. j \in DOMAIN saves /\ saves'[j] = saves[j]
        BY <2>4
      <4>2. CASE k \in DOMAIN saves /\ saves'[k] = saves[k]
        BY <1>2, <1>4, <2>1, <4>1, <4>2 DEF Ordered
      <4>3. CASE saves'[k] = chats
        <5>1. Later(c, deleted, saves[j], chats) /\ Stays(c, saved, saves[j], chats)
          BY <1>2, <4>1 DEF Ordered
        <5> QED
          BY <1>4, <2>1, <4>1, <4>3, <5>1 DEF Stays
      <4> QED
        BY <2>5, <4>2, <4>3
    <3>4. \A i, j, k \in DOMAIN saves' : i < j /\ j < k => Stays(c, saves'[i], saves'[j], saves'[k])
      <4> SUFFICES ASSUME NEW i \in DOMAIN saves', NEW j \in DOMAIN saves', NEW k \in DOMAIN saves', i < j, j < k
                   PROVE  Stays(c, saves'[i], saves'[j], saves'[k])
        OBVIOUS
      <4>1. i \in DOMAIN saves /\ saves'[i] = saves[i] /\ j \in DOMAIN saves /\ saves'[j] = saves[j]
        BY <2>4
      <4>2. CASE k \in DOMAIN saves /\ saves'[k] = saves[k]
        BY <1>2, <4>1, <4>2 DEF Ordered
      <4>3. CASE saves'[k] = chats
        BY <1>2, <4>1, <4>3 DEF Ordered
      <4> QED
        BY <2>5, <4>2, <4>3
    <3> QED
      BY <3>1, <3>2, <3>3, <3>4 DEF Ordered
  <2>7. ASSUME NEW c \in Chats PROVE Owned(c)'
    BY <1>2, <1>4, <2>1, <2>5 DEF Owned
  <2> QED
    BY <1>1, <1>5, <2>6, <2>7 DEF Inv
<1>7. ASSUME NEW d \in Chats, WriteChat(d) PROVE Inv'
  <2>1. /\ saves' = saves /\ saves # <<>> /\ 1 \in DOMAIN saves /\ Head(saves) = saves[1] /\ saves[1] \in [Chats -> Values]
        /\ deleted' = deleted
    BY <1>2, <1>7 DEF WriteChat
  <2>2. \/ saved' = saved /\ stored' = stored
        \/ /\ saved' = [saved EXCEPT ![d] = saves[1][d]] /\ stored' = [stored EXCEPT ![d] = saves[1][d]]
           /\ saves[1][d] # NoChat
    BY <1>7, <2>1 DEF WriteChat
  <2>3. ASSUME NEW c \in Chats
        PROVE  \/ saved'[c] = saved[c] /\ stored'[c] = stored[c]
               \/ saved'[c] = saves[1][c] /\ stored'[c] = saves[1][c] /\ saves[1][c] # NoChat
    BY <1>2, <2>2
  <2>4. \A k \in DOMAIN saves : k = 1 \/ 1 < k
    BY <1>3
  <2>5. ASSUME NEW c \in Chats PROVE Ordered(c)'
    <3>1. CASE saved'[c] = saved[c]
      BY <1>2, <1>4, <2>1, <3>1 DEF Ordered, Later, Stays
    <3>2. CASE saved'[c] = saves[1][c] /\ saves[1][c] # NoChat
      <4>0. Len(saves[1][c]) \in Nat
        BY <2>1, ValueShape
      <4>1. Later(c, deleted', saved', chats')
        BY <1>2, <1>4, <2>1, <3>2 DEF Ordered, Later
      <4>2. \A k \in DOMAIN saves : Later(c, deleted', saved', saves[k]) /\ Stays(c, saved', saves[k], chats')
        BY <1>2, <1>4, <2>1, <2>4, <3>2, <4>0 DEF Ordered, Later, Stays
      <4>3. \A j, k \in DOMAIN saves : j < k => Stays(c, saved', saves[j], saves[k])
        BY <1>2, <2>1, <2>4, <3>2 DEF Ordered, Stays
      <4> QED
        BY <1>2, <1>4, <2>1, <4>1, <4>2, <4>3 DEF Ordered
    <3> QED
      BY <2>3, <3>1, <3>2
  <2>6. ASSUME NEW c \in Chats PROVE Owned(c)'
    <3>1. CASE saved'[c] = saved[c] /\ stored'[c] = stored[c]
      BY <1>2, <1>4, <2>1, <3>1 DEF Owned, Own
    <3>2. CASE saved'[c] = saves[1][c] /\ stored'[c] = saves[1][c] /\ saves[1][c] # NoChat
      <4>1. deleted[c] # "erased"
        BY <1>2, <2>1, <3>2 DEF Owned, Own
      <4> QED
        BY <1>4, <2>1, <3>2, <4>1 DEF Owned, Own
    <3> QED
      BY <2>3, <3>1, <3>2
  <2> QED
    BY <1>1, <1>5, <2>5, <2>6 DEF Inv
<1>8. CASE EndSave
  <2>1. saves' = Tail(saves) /\ saves # <<>>
    BY <1>8 DEF EndSave
  <2>2. /\ Len(saves) # 0 /\ DOMAIN saves' = 1 .. Len(saves) - 1
        /\ \A k \in 1 .. Len(saves) - 1 : saves'[k] = saves[k + 1]
        /\ 1 \in DOMAIN saves /\ Head(saves) = saves[1]
    BY <1>2, <1>3, <2>1, HeadTailProperties
  <2>3. \A k \in 1 .. Len(saves) - 1 : k + 1 \in DOMAIN saves /\ 1 < k + 1
    BY <1>3
  <2>4. ASSUME NEW c \in Chats
        PROVE  \/ saved'[c] = saved[c] /\ stored'[c] = stored[c] /\ deleted'[c] = deleted[c]
               \/ /\ saved'[c] = NoChat /\ stored'[c] = NoChat /\ deleted'[c] = "erased"
                  /\ saved[c] # NoChat /\ saves[1][c] = NoChat
    BY <1>2, <1>8, <2>2 DEF EndSave, Gone
  <2>5. ASSUME NEW k \in DOMAIN saves' PROVE k + 1 \in DOMAIN saves /\ saves'[k] = saves[k + 1] /\ 1 < k + 1 /\ k \in Int
    BY <1>3, <2>2, <2>3
  <2>6. ASSUME NEW c \in Chats PROVE Ordered(c)'
    <3>0. deleted[c] # "no" => deleted'[c] # "no"
      BY <2>4
    <3>1. Later(c, deleted', saved', chats')
      BY <1>2, <1>4, <2>4, <3>0 DEF Ordered, Later
    <3>2. \A k \in DOMAIN saves' : /\ Later(c, deleted', saved', saves'[k]) /\ Later(c, deleted', saves'[k], chats')
                                   /\ Stays(c, saved', saves'[k], chats')
      BY <1>2, <1>4, <2>4, <2>5, <3>0 DEF Ordered, Later, Stays
    <3>3. \A j, k \in DOMAIN saves' : j < k => /\ Later(c, deleted', saves'[j], saves'[k])
                                               /\ Stays(c, saved', saves'[j], saves'[k])
                                               /\ Stays(c, saves'[j], saves'[k], chats')
      <4> SUFFICES ASSUME NEW j \in DOMAIN saves', NEW k \in DOMAIN saves', j < k
                   PROVE  /\ Later(c, deleted', saves'[j], saves'[k])
                          /\ Stays(c, saved', saves'[j], saves'[k])
                          /\ Stays(c, saves'[j], saves'[k], chats')
        OBVIOUS
      <4>1. j + 1 \in DOMAIN saves /\ k + 1 \in DOMAIN saves /\ j + 1 < k + 1 /\ saves'[j] = saves[j + 1] /\ saves'[k] = saves[k + 1]
        BY <2>5
      <4>2. /\ Later(c, deleted, saves[j + 1], saves[k + 1]) /\ Stays(c, saved, saves[j + 1], saves[k + 1])
            /\ Stays(c, saves[j + 1], saves[k + 1], chats)
        BY <1>2, <4>1 DEF Ordered
      <4> QED
        BY <1>4, <2>4, <3>0, <4>1, <4>2 DEF Later, Stays
    <3>4. \A i, j, k \in DOMAIN saves' : i < j /\ j < k => Stays(c, saves'[i], saves'[j], saves'[k])
      <4> SUFFICES ASSUME NEW i \in DOMAIN saves', NEW j \in DOMAIN saves', NEW k \in DOMAIN saves', i < j, j < k
                   PROVE  Stays(c, saves'[i], saves'[j], saves'[k])
        OBVIOUS
      <4>1. /\ i + 1 \in DOMAIN saves /\ j + 1 \in DOMAIN saves /\ k + 1 \in DOMAIN saves /\ i + 1 < j + 1 /\ j + 1 < k + 1
            /\ saves'[i] = saves[i + 1] /\ saves'[j] = saves[j + 1] /\ saves'[k] = saves[k + 1]
        BY <2>5
      <4> QED
        BY <1>2, <4>1 DEF Ordered
    <3> QED
      BY <3>1, <3>2, <3>3, <3>4 DEF Ordered
  <2>7. ASSUME NEW c \in Chats PROVE Owned(c)'
    <3>1. CASE saved'[c] = saved[c] /\ stored'[c] = stored[c] /\ deleted'[c] = deleted[c]
      BY <1>2, <1>4, <2>5, <3>1 DEF Owned, Own
    <3>2. CASE /\ saved'[c] = NoChat /\ stored'[c] = NoChat /\ deleted'[c] = "erased"
               /\ saved[c] # NoChat /\ saves[1][c] = NoChat
      <4>1. chats[c] = NoChat
        BY <1>2, <2>2, <3>2 DEF Ordered, Stays
      <4>2. \A k \in DOMAIN saves' : saves'[k][c] = NoChat
        BY <1>2, <2>2, <2>5, <3>2 DEF Ordered, Stays
      <4> QED
        BY <1>4, <3>2, <4>1, <4>2 DEF Owned, Own
    <3> QED
      BY <2>4, <3>1, <3>2
  <2> QED
    BY <1>1, <1>5, <2>6, <2>7 DEF Inv
<1> QED
  BY <1>6, <1>7, <1>8 DEF Saving

LEMMA InvStep == BoundsAssumption /\ Inv /\ [Next]_vars => Inv'
<1> SUFFICES ASSUME BoundsAssumption, Inv, [Next]_vars PROVE Inv'
  OBVIOUS
<1>1. Typed'
  BY Typing DEF Inv
<1>2. CASE Kill
  <2>1. saves' = <<>> /\ DOMAIN saves' = {} /\ phase' = "keys" /\ inflight' = NoRequests
        /\ saved' = Empty /\ chats' = Empty /\ UNCHANGED <<stored, legacy, deleted>>
    BY <1>2 DEF Kill
  <2>2. \A c \in Chats : deleted[c] = "erased" => stored[c] = NoChat
    BY DEF Inv, Owned, Own
  <2> QED
    BY <1>1, <2>1, <2>2 DEF Inv, Loading, PendingHasRequest, Ordered, Owned, Own, Later, Empty
<1>3. CASE UNCHANGED vars
  BY <1>1, <1>3 DEF vars, Inv, Loading, PendingHasRequest, Ordered, Owned, Own, Later, Stays
<1> QED
  BY <1>2, <1>3, InvLoad, InvAct, InvSave DEF Next
-----------------------------------------------------------------------------
(* What was stored stays *)

LEMMA KeptStep == BoundsAssumption /\ Inv /\ [Next]_vars => [KeptUntilDeleted]_vars
<1> SUFFICES ASSUME BoundsAssumption, Inv, Next PROVE KeptUntilDeleted
  OBVIOUS
<1> DEFINE Kept(c, now, old) ==
             /\ stored[c] # NoChat /\ now # stored[c] =>
                   IF stored[c] = saved[c]
                   THEN IF now = NoChat THEN deleted[c] # "no" ELSE Len(now) >= Len(stored[c])
                   ELSE legacy[c] = Old /\ now # NoChat
             /\ legacy[c] = Old /\ old # Old => stored[c] \notin {NoChat, Unreadable}
<1> SUFFICES \A c \in Chats : Kept(c, stored'[c], legacy'[c])
  BY DEF KeptUntilDeleted
<1>1. /\ stored \in [Chats -> Values \cup {Unreadable}] /\ saved \in [Chats -> Values]
      /\ saves \in Seq([Chats -> Values]) /\ Old # NoChat
  BY OldIsValue DEF Inv, Typed, TypeOK
<1>2. ASSUME NEW c \in Chats PROVE Kept(c, stored[c], legacy[c])
  OBVIOUS
<1>4. CASE Moved
  <2> SUFFICES ASSUME NEW c \in Chats, legacy[c] = Old PROVE stored[c] \notin {NoChat, Unreadable}
    BY <1>4 DEF Moved
  <2>1. saved[c] # NoChat /\ stored[c] = saved[c]
    BY <1>4 DEF Moved, Inv, Loading, Owned, Own
  <2> QED
    BY <1>1, <2>1, ValueShape
<1>5. ASSUME NEW d \in Chats, Move(d) PROVE \A c \in Chats : Kept(c, stored'[c], legacy'[c])
  <2>1. /\ legacy' = legacy /\ legacy[d] = Old /\ chats[d] = Old /\ saved[d] = NoChat
        /\ stored' = [stored EXCEPT ![d] = chats[d]]
    BY <1>5 DEF Move, Inv, Loading
  <2> QED
    BY <1>1, <2>1
<1>6. ASSUME NEW d \in Chats, WriteChat(d) PROVE \A c \in Chats : Kept(c, stored'[c], legacy'[c])
  <2>1. saves # <<>> /\ 1 \in DOMAIN saves /\ Head(saves) = saves[1] /\ legacy' = legacy
    BY <1>1, <1>6 DEF WriteChat
  <2>2. stored' = stored \/ (stored' = [stored EXCEPT ![d] = saves[1][d]] /\ saves[1][d] # NoChat)
    BY <1>6, <2>1 DEF WriteChat
  <2>3. ASSUME stored[d] # NoChat, saves[1][d] # NoChat
        PROVE  IF stored[d] = saved[d] THEN Len(saves[1][d]) >= Len(stored[d]) ELSE legacy[d] = Old
    <3>1. CASE stored[d] = saved[d]
      <4>1. Len(saved[d]) <= Len(saves[1][d])
        BY <2>1, <2>3, <3>1 DEF Inv, Ordered, Later
      <4>2. Len(saved[d]) \in Nat /\ Len(saves[1][d]) \in Nat
        BY <1>1, <2>1, ValueShape
      <4> QED
        BY <3>1, <4>1, <4>2
    <3>2. CASE stored[d] # saved[d]
      BY <2>1, <2>3, <3>2 DEF Inv, Owned, Own
    <3> QED
      BY <3>1, <3>2
  <2> QED
    BY <1>1, <2>1, <2>2, <2>3
<1>7. CASE EndSave
  <2>1. saves # <<>> /\ 1 \in DOMAIN saves /\ Head(saves) = saves[1] /\ legacy' = legacy
    BY <1>1, <1>7 DEF EndSave
  <2>2. \A c \in Chats : stored'[c] = stored[c] \/ (stored'[c] = NoChat /\ saved[c] # NoChat /\ saves[1][c] = NoChat)
    BY <1>1, <1>7, <2>1 DEF EndSave, Gone
  <2>3. ASSUME NEW c \in Chats, saved[c] # NoChat, saves[1][c] = NoChat PROVE deleted[c] # "no" /\ stored[c] = saved[c]
    BY <2>1, <2>3 DEF Inv, Ordered, Later, Owned, Own
  <2> QED
    BY <2>1, <2>2, <2>3
<1>8. CASE Keys \/ KeysFail \/ ReadChats \/ ReadLegacy \/ MigrateFails \/ Save \/ Kill
  <2>1. stored' = stored /\ legacy' = legacy
    BY <1>8 DEF Keys, KeysFail, ReadChats, ReadLegacy, MigrateFails, Save, Kill, storeVars
  <2> QED
    BY <1>2, <2>1
<1>9. CASE Acts \/ Requests
  <2>1. stored' = stored /\ legacy' = legacy
    BY <1>9 DEF Acts, Requests, Send, Retry, RetryWithoutMedia, Stop, Remove, Stream, Stall, Answered,
                Fails, Settles, storeVars
  <2> QED
    BY <1>2, <2>1
<1> QED
  BY <1>4, <1>5, <1>6, <1>7, <1>8, <1>9 DEF Next, Loads, Saving
-----------------------------------------------------------------------------
(* What is shown is stored, when storage does not fail *)

\* Where nothing failed: what was written is what is stored, the last save
\* that was given is what is shown unless another is due, and the chats its
\* first save is through with are written.
Faultless ==
    faults = 0 =>
        /\ writable
        /\ phase = "ready" => legacy = Empty
        /\ phase \notin {"keys", "chats"} =>
              \A c \in Chats : stored[c] # Unreadable => stored[c] = saved[c]
        /\ phase = "ready" /\ ~timer => chats = IF saves = <<>> THEN saved ELSE saves[Len(saves)]
        /\ saves # <<>> => \A c \in Chats \ todo : Head(saves)[c] \in {NoChat, saved[c]}

LEMMA FaultlessLoad == ASSUME Inv, Faultless, Loads PROVE Faultless'
<1> SUFFICES ASSUME faults' = 0 PROVE Faultless'
  BY DEF Faultless
<1>1. faults \in Nat /\ ~Fault
  BY DEF Inv, Typed, TypeOK, Fault
<1>2. phase # "ready" /\ saves = <<>>
  BY DEF Loads, Keys, KeysFail, ReadChats, ReadLegacy, Move, Moved, MigrateFails, Inv, Loading
<1>3. ~KeysFail /\ ~MigrateFails
  BY <1>1 DEF KeysFail, MigrateFails
<1>4. CASE Keys
  BY <1>2, <1>4 DEF Keys, storeVars, Faultless
<1>5. CASE ReadChats
  <2>1. PICK lost \in SUBSET {c \in Chats : stored[c] \notin {NoChat, Unreadable}} :
          LET read == [c \in Chats |-> IF stored[c] = Unreadable \/ c \in lost THEN NoChat ELSE stored[c]]
          IN  /\ IF lost = {} THEN UNCHANGED faults ELSE Fault
              /\ saved' = read
              /\ IF legacy # Empty
                 THEN chats' = read /\ phase' = "legacy" /\ UNCHANGED <<moving, timer>>
                 ELSE Hydrate(read)
    BY <1>5 DEF ReadChats
  <2>2. lost = {} /\ faults = 0
    BY <1>1, <2>1
  <2>3. \A c \in Chats : stored[c] # Unreadable => saved'[c] = stored[c]
    BY <2>1, <2>2
  <2>4. IF legacy # Empty THEN phase' = "legacy" ELSE phase' = "ready" /\ timer'
    BY <2>1 DEF Hydrate
  <2> QED
    BY <1>2, <1>5, <2>2, <2>3, <2>4 DEF ReadChats, Faultless
<1>6. CASE ReadLegacy
  BY <1>2, <1>6 DEF ReadLegacy, storeVars, Faultless
<1>7. ASSUME NEW d \in Chats, Move(d) PROVE Faultless'
  <2>1. stored \in [Chats -> Values \cup {Unreadable}] /\ saved \in [Chats -> Values]
    BY DEF Inv, Typed, TypeOK
  <2> QED
    BY <1>2, <1>7, <2>1 DEF Move, Faultless
<1>8. CASE Moved
  BY <1>2, <1>8 DEF Moved, Hydrate, Faultless
<1> QED
  BY <1>3, <1>4, <1>5, <1>6, <1>7, <1>8 DEF Loads

LEMMA FaultlessAct == ASSUME Inv, Faultless, Acts \/ Requests PROVE Faultless'
<1>1. /\ UNCHANGED <<storeVars, phase, moving, faults>>
      /\ timer' \/ (timer' = timer /\ chats' = chats)
  BY DEF Acts, Requests, Send, Retry, RetryWithoutMedia, Stop, Remove, Stream, Answered, Fails,
         Settles, Changes, Stall
<1> QED
  BY <1>1 DEF Faultless, storeVars

LEMMA FaultlessSave == ASSUME BoundsAssumption, Inv, Faultless, Save \/ Saving PROVE Faultless'
<1> SUFFICES ASSUME faults' = 0 PROVE Faultless'
  BY DEF Faultless
<1>1. faults \in Nat /\ ~Fault /\ faults = 0
  BY DEF Inv, Typed, TypeOK, Fault, Save, Saving, WriteChat, EndSave
<1>2. /\ saves \in Seq([Chats -> Values]) /\ saved \in [Chats -> Values]
      /\ stored \in [Chats -> Values \cup {Unreadable}] /\ chats \in [Chats -> Values]
      /\ writable
  BY <1>1 DEF Inv, Typed, TypeOK, Faultless
<1>3. Len(saves) \in Nat /\ DOMAIN saves = 1 .. Len(saves)
      /\ (saves # <<>> => Len(saves) # 0 /\ Head(saves) = saves[1])
  BY <1>2
<1>4. CASE Save
  <2>1. /\ saves' = Append(saves, chats) /\ phase = "ready"
        /\ todo' = IF saves = <<>> THEN Chats ELSE todo
        /\ UNCHANGED <<saved, stored, legacy, phase, chats, writable>>
    BY <1>4 DEF Save
  <2>2. /\ Len(saves') = Len(saves) + 1 /\ saves'[Len(saves) + 1] = chats /\ saves' # <<>>
        /\ Head(saves') = saves'[1] /\ (saves # <<>> => saves'[1] = saves[1])
    BY <1>2, <1>3, <2>1
  <2>3. chats' = IF saves' = <<>> THEN saved' ELSE saves'[Len(saves')]
    BY <2>1, <2>2
  <2>4. \A c \in Chats \ todo' : Head(saves')[c] \in {NoChat, saved'[c]}
    <3>1. CASE saves = <<>>
      BY <2>1, <3>1
    <3>2. CASE saves # <<>>
      BY <1>1, <1>3, <2>1, <2>2, <3>2 DEF Faultless
    <3> QED
      BY <3>1, <3>2
  <2> QED
    BY <1>1, <2>1, <2>3, <2>4 DEF Faultless
<1>5. ASSUME NEW d \in Chats, WriteChat(d) PROVE Faultless'
  <2>1. /\ saves # <<>> /\ todo' = todo \ {d}
        /\ UNCHANGED <<legacy, phase, chats, writable, timer, saves>>
    BY <1>5 DEF WriteChat
  <2>2. CASE Head(saves)[d] \in {NoChat, saved[d]}
    <3>1. UNCHANGED <<stored, saved>>
      BY <1>5, <2>2 DEF WriteChat
    <3> QED
      BY <1>1, <2>1, <2>2, <3>1 DEF Faultless
  <2>3. CASE Head(saves)[d] \notin {NoChat, saved[d]}
    <3>1. /\ stored' = [stored EXCEPT ![d] = Head(saves)[d]]
          /\ saved' = [saved EXCEPT ![d] = Head(saves)[d]]
      BY <1>1, <1>5, <2>3 DEF WriteChat
    <3>2. /\ \A c \in Chats \ {d} : stored'[c] = stored[c] /\ saved'[c] = saved[c]
          /\ stored'[d] = Head(saves)[d] /\ saved'[d] = Head(saves)[d]
      BY <1>2, <3>1
    <3> QED
      BY <1>1, <2>1, <3>2 DEF Faultless
  <2> QED
    BY <2>2, <2>3
<1>6. CASE EndSave
  <2>1. /\ saves # <<>> /\ todo = {} /\ saves' = Tail(saves)
        /\ todo' = IF Len(saves) > 1 THEN Chats ELSE {}
        /\ UNCHANGED <<legacy, phase, chats, writable, timer>>
    BY <1>2, <1>6 DEF EndSave
  <2>2. \/ /\ stored' = [c \in Chats |-> IF c \in Gone THEN NoChat ELSE stored[c]]
           /\ saved' = [c \in Chats |-> IF c \in Gone THEN NoChat ELSE saved[c]]
        \/ Gone = {} /\ stored' = stored /\ saved' = saved
    BY <1>1, <1>2, <1>6 DEF EndSave
  <2>3. \A c \in Chats : Head(saves)[c] \in {NoChat, saved[c]}
    BY <1>1, <2>1 DEF Faultless
  <2>4. saved' = Head(saves)
    <3>1. Head(saves) \in [Chats -> Values] /\ saved' \in [Chats -> Values]
      BY <1>2, <2>1, <2>2, TypingSave DEF Inv, Typed, TypeOK
    <3>2. \A c \in Chats : saved'[c] = Head(saves)[c]
      BY <1>2, <2>2, <2>3 DEF Gone
    <3> QED
      BY <3>1, <3>2
  <2>5. \A c \in Chats : stored'[c] # Unreadable => stored'[c] = saved'[c]
    <3>1. phase = "ready"
      BY <2>1 DEF Inv, Loading
    <3>2. \A c \in Chats : stored[c] # Unreadable => stored[c] = saved[c]
      BY <1>1, <3>1 DEF Faultless
    <3> QED
      BY <1>2, <2>2, <3>2
  <2>6. CASE Len(saves) > 1
    <3>1. /\ Len(saves') = Len(saves) - 1 /\ saves' # <<>>
          /\ saves'[Len(saves')] = saves[Len(saves)]
      <4>1. Len(Tail(saves)) = Len(saves) - 1 /\ \A k \in 1 .. Len(saves) - 1 : Tail(saves)[k] = saves[k + 1]
        BY <1>2, <2>1, HeadTailProperties
      <4>0. Len(saves) \in Nat
        BY <1>3
      <4>2. \A k \in Nat : k > 1 => k - 1 \in 1 .. k - 1 /\ k - 1 # 0 /\ k - 1 + 1 = k
        OBVIOUS
      <4>3. Tail(saves) # <<>>
        BY <2>6, <4>0, <4>1, <4>2
      <4> QED
        BY <2>1, <2>6, <4>0, <4>1, <4>2, <4>3
    <3>2. phase = "ready" /\ ~timer => chats = saves[Len(saves)]
      BY <1>1, <2>1 DEF Faultless
    <3> QED
      BY <1>1, <2>1, <2>5, <2>6, <3>1, <3>2 DEF Faultless
  <2>7. CASE Len(saves) = 1
    <3>1. saves' = <<>>
      <4>1. Len(saves') = 0 /\ saves' \in Seq([Chats -> Values])
        BY <1>2, <1>3, <2>1, <2>7, HeadTailProperties
      <4> QED
        BY <4>1
    <3>2. phase = "ready" /\ ~timer => chats = Head(saves)
      BY <1>1, <1>3, <2>1, <2>7 DEF Faultless
    <3> QED
      BY <1>1, <2>1, <2>4, <2>5, <3>1, <3>2 DEF Faultless
  <2> QED
    BY <1>3, <2>1, <2>6, <2>7
<1> QED
  BY <1>4, <1>5, <1>6 DEF Saving

LEMMA FaultlessStep == BoundsAssumption /\ Inv /\ Faultless /\ [Next]_vars => Faultless'
<1> SUFFICES ASSUME BoundsAssumption, Inv, Faultless, [Next]_vars PROVE Faultless'
  OBVIOUS
<1>1. CASE Kill
  BY <1>1 DEF Kill, Faultless
<1>2. CASE UNCHANGED vars
  BY <1>2 DEF vars, Faultless
<1> QED
  BY <1>1, <1>2, FaultlessLoad, FaultlessAct, FaultlessSave DEF Next

LEMMA FaultlessInit == Init => Faultless
BY DEF Init, Faultless
-----------------------------------------------------------------------------
(* Theorems *)

\* Every variable of the app's conversations and their storage keeps its type.
THEOREM TypeCorrect ==
    ASSUME BoundsAssumption
    PROVE  Spec => []TypeOK
<1>1. Init => Typed
  BY TypingInit
<1>2. Typed /\ [Next]_vars => Typed'
  BY Typing
<1>3. Typed => TypeOK
  BY DEF Typed
<1> QED
  BY <1>1, <1>2, <1>3, PTL DEF Spec

LEMMA InvAlways ==
    ASSUME BoundsAssumption
    PROVE  Spec => [](Inv /\ Faultless)
<1>1. Init => Inv /\ Faultless
  BY InvInit, FaultlessInit
<1>2. Inv /\ Faultless /\ [Next]_vars => (Inv /\ Faultless)'
  BY InvStep, FaultlessStep
<1> QED
  BY <1>1, <1>2, PTL DEF Spec

\* A stored conversation goes only when it was read or written by this launch
\* and the user deleted it, and is written over only by its own continuation or,
\* when it was not read, by the one the old value has; what that has whole goes
\* only when it is stored whole.
THEOREM NothingDestroyed ==
    ASSUME BoundsAssumption
    PROVE  Spec => [][KeptUntilDeleted]_vars
<1>1. Inv /\ [Next]_vars => [KeptUntilDeleted]_vars
  BY KeptStep
<1> QED
  BY <1>1, InvAlways, PTL DEF Spec

\* A conversation whose deletion was saved stays away, unless the old value
\* brings it back.
THEOREM ErasedForGood ==
    ASSUME BoundsAssumption
    PROVE  Spec => []ErasedStays
<1>1. Inv => ErasedStays
  BY DEF Inv, Owned, Own, ErasedStays
<1> QED
  BY <1>1, InvAlways, PTL

\* An answer is pending exactly while a request is behind it.
THEOREM NoneLeftPending ==
    ASSUME BoundsAssumption
    PROVE  Spec => []PendingHasRequest
<1>1. Inv => PendingHasRequest
  BY DEF Inv
<1> QED
  BY <1>1, InvAlways, PTL

\* When no save is due or under way and storage did not fail, what is shown is
\* what is stored.
THEOREM QuietIsStored ==
    ASSUME BoundsAssumption
    PROVE  Spec => []ShownIsStored
<1>1. Faultless => ShownIsStored
  BY DEF Faultless, ShownIsStored, Empty
<1> QED
  BY <1>1, InvAlways, PTL
=============================================================================
