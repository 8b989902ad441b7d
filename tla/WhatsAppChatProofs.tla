------------------------- MODULE WhatsAppChatProofs -------------------------
(* Proofs about whatsapp/whatsapp.service.ts: what a question is sent with,  *)
(* for any numbers, any number of messages, restarts and turns kept.         *)
EXTENDS WhatsAppChat, TLAPS, SequenceTheorems

(* Under way and past the allow list: these messages have a conversation.    *)
Working == UnderWay \ {"refusing"}
Answered == {"sending", "apologizing", "done"}

Typed == TypeOK /\ turns \in [Messages -> Seq(Messages)] /\ context \in [Messages -> Seq(Messages)]

(* A conversation belongs to the number of the message it was made for.      *)
Belongs ==
    /\ \A m \in seen : from[m] \in Numbers
    /\ \A m \in Messages : job[m] \in Working => m \in seen /\ conv[m] \in seen /\ from[conv[m]] = from[m]
    /\ \A n \in Numbers : /\ conversations[n] # None => conversations[n] \in seen /\ from[conversations[n]] = n
                          /\ conversations[n] = None => remembered[n] = {}

(* What is remembered was accepted since the last restart.                   *)
Known == /\ \A n \in Numbers : remembered[n] \subseteq seen
         /\ \A m \in Messages : before[m] \subseteq seen

(* Turns are answered messages of the conversation's number, each once.      *)
TurnsOnce ==
    \A c \in Messages :
        /\ IsInjective(turns[c])
        /\ \A x \in ToSet(turns[c]) : c \in seen /\ x \in seen /\ job[x] \in Answered /\ from[x] = from[c]

(* Two messages of a number that are under way in different conversations.   *)
Crowds == \A m, x \in Messages :
    job[m] \in Working /\ job[x] \in Working /\ from[m] = from[x] /\ conv[m] # conv[x] => m \in crowded

(* A conversation keeps of S all but what was answered next to a message     *)
(* in another conversation, unless it is full.                               *)
Keeps(c, S) == Len(turns[c]) < MaxTurns => S \ crowded \subseteq ToSet(turns[c])

(* The stored conversation keeps what is remembered of its number, and so    *)
(* does the one that a message under way was given and will store again.     *)
Kept == /\ \A n \in Numbers : conversations[n] # None => Keeps(conversations[n], remembered[n])
        /\ \A m \in Messages : job[m] \in Working =>
               Keeps(conv[m], remembered[from[m]]) /\ Keeps(conv[m], before[m])

Sees == \A m \in Messages : job[m] = "answering" =>
    /\ IsInjective(context[m])
    /\ \A x \in ToSet(context[m]) : x \in seen /\ from[x] = from[m] /\ x # m
    /\ Len(context[m]) < MaxTurns => before[m] \ crowded \subseteq ToSet(context[m])

Asked == {"downloading", "answering"}

(* What was left behind at a reset is in no conversation that is stored or   *)
(* will be.                                                                  *)
Fresh ==
    /\ left \subseteq seen
    /\ \A x \in left : job[x] \notin Asked
    /\ \A n \in Numbers : conversations[n] # None => ToSet(turns[conversations[n]]) \cap left = {}
    /\ \A m \in Messages : job[m] \in Asked => ToSet(turns[conv[m]]) \cap left = {}
    /\ \A m \in Messages : job[m] = "answering" => ToSet(context[m]) \cap left = {}

Inv == Typed /\ Belongs /\ Known /\ TurnsOnce /\ Crowds /\ Kept /\ Sees /\ Fresh
-----------------------------------------------------------------------------
(* Adding a turn                                                             *)

LEMMA Bounds == BoundsAssumption => /\ MaxTurns \in Nat /\ MaxTurns >= 1 /\ None \notin Messages
                                    /\ Messages \subseteq Nat /\ Allowed \subseteq Numbers
BY DEF BoundsAssumption, None, Messages

LEMMA Elements == ASSUME NEW s \in Seq(Messages) PROVE ToSet(s) = {s[i] : i \in 1 .. Len(s)} /\ ToSet(s) \subseteq Messages
BY DEF ToSet

LEMMA NoElements == ToSet(<<>>) = {} /\ IsInjective(<<>>)
BY DEF ToSet, IsInjective

(* The added message is the last of the turns; the first one is left out if  *)
(* there are more than the conversation keeps, and nothing if there are not. *)
LEMMA AddedTurn ==
    ASSUME BoundsAssumption, NEW m \in Messages, turns[conv[m]] \in Seq(Messages),
           Len(turns[conv[m]]) <= MaxTurns, IsInjective(turns[conv[m]]), m \notin ToSet(turns[conv[m]])
    PROVE  /\ Added(m) \in Seq(Messages) /\ Len(Added(m)) <= MaxTurns
           /\ ToSet(Added(m)) \subseteq ToSet(turns[conv[m]]) \cup {m}
           /\ IsInjective(Added(m))
           /\ Len(Added(m)) < MaxTurns => Len(turns[conv[m]]) < MaxTurns
           /\ Len(turns[conv[m]]) < MaxTurns => ToSet(Added(m)) = ToSet(turns[conv[m]]) \cup {m}
<1> DEFINE s == turns[conv[m]]
           all == Append(s, m)
           lo == IF Len(all) > MaxTurns THEN Len(all) - MaxTurns + 1 ELSE 1
<1>1. /\ MaxTurns \in Nat /\ MaxTurns >= 1 /\ s \in Seq(Messages) /\ Len(s) \in Nat /\ Len(s) <= MaxTurns
      /\ all \in Seq(Messages) /\ Len(all) = Len(s) + 1
      /\ \A i \in 1 .. Len(s) : all[i] = s[i]
      /\ all[Len(s) + 1] = m
  BY Bounds
<1>2. Added(m) = SubSeq(all, lo, Len(all))
  BY DEF Added
<1>3. \A i \in 1 .. Len(s) : s[i] \in ToSet(s) /\ s[i] # m
  BY <1>1, Elements
<1>4. \A i, j \in 1 .. Len(s) : s[i] = s[j] => i = j
  BY <1>1 DEF IsInjective
<1>5. CASE Len(s) < MaxTurns
  <2>1. Added(m) = all
    <3>1. lo = 1
      BY <1>1, <1>5
    <3> HIDE DEF all, lo
    <3> QED
      BY <1>1, <1>2, <3>1, SubSeqFull
  <2>2. \A i, j \in 1 .. Len(all) : all[i] = all[j] => i = j
    BY <1>1, <1>3, <1>4
  <2>3. ToSet(all) = ToSet(s) \cup {m}
    <3>1. 1 .. Len(all) = 1 .. Len(s) \cup {Len(s) + 1}
      BY <1>1
    <3>2. ToSet(all) = {all[i] : i \in 1 .. Len(all)} /\ ToSet(s) = {s[i] : i \in 1 .. Len(s)}
      BY <1>1, Elements
    <3> HIDE DEF all, s
    <3> QED
      BY <1>1, <3>1, <3>2
  <2>4. DOMAIN all = 1 .. Len(all)
    BY <1>1
  <2> HIDE DEF all, lo
  <2>5. IsInjective(all)
    BY <2>2, <2>4 DEF IsInjective
  <2> QED
    BY <1>1, <1>5, <2>1, <2>3, <2>5
<1>6. CASE Len(s) = MaxTurns
  <2>1. lo = 2 /\ Len(all) = MaxTurns + 1
    BY <1>1, <1>6
  <2> DEFINE t == SubSeq(all, 2, Len(all))
  <2>2. Added(m) = t
    BY <1>2, <2>1
  <2>3. /\ t \in Seq(Messages) /\ Len(t) = MaxTurns
        /\ \A i \in 1 .. MaxTurns : t[i] = all[i + 1]
    <3>1. \A i \in 2 .. Len(all) : all[i] \in Messages
      BY <1>1
    <3> HIDE DEF all
    <3>2. /\ t \in Seq(Messages)
          /\ Len(t) = IF 2 <= Len(all) THEN Len(all) - 2 + 1 ELSE 0
          /\ \A i \in 1 .. Len(all) - 2 + 1 : t[i] = all[2 + i - 1]
      BY <1>1, <2>1, <3>1, SubSeqProperties
    <3> HIDE DEF t
    <3>3. Len(all) - 2 + 1 = MaxTurns /\ 2 <= Len(all) /\ \A i \in 1 .. MaxTurns : 2 + i - 1 = i + 1
      BY <1>1, <2>1
    <3> QED
      BY <3>2, <3>3
  <2> HIDE DEF t
  <2>4. \A i \in 1 .. MaxTurns : i + 1 \in 1 .. Len(s) \/ i + 1 = Len(s) + 1
    BY <1>1, <1>6
  <2>5. \A i \in 1 .. MaxTurns : t[i] \in ToSet(s) \cup {m}
    BY <1>1, <1>3, <2>3, <2>4
  <2>6. \A i, j \in 1 .. MaxTurns : t[i] = t[j] => i = j
    <3>1. \A i, j \in 1 .. Len(s) + 1 : all[i] = all[j] => i = j
      BY <1>1, <1>3, <1>4
    <3> HIDE DEF all
    <3> QED
      BY <1>1, <1>6, <2>3, <2>4, <3>1
  <2>7. IsInjective(t)
    BY <1>1, <2>3, <2>6 DEF IsInjective
  <2>8. ToSet(t) \subseteq ToSet(s) \cup {m}
    BY <2>3, <2>5, Elements
  <2> QED
    BY <1>1, <1>6, <2>2, <2>3, <2>7, <2>8
<1> QED
  BY <1>1, <1>5, <1>6
-----------------------------------------------------------------------------
(* The steps                                                                 *)

LEMMA InvInit == BoundsAssumption /\ Init => Inv
<1> SUFFICES ASSUME BoundsAssumption, Init PROVE Inv
  OBVIOUS
<1>1. Typed
  BY Bounds, NoElements DEF BoundsAssumption, Init, Typed, TypeOK
<1>2. Belongs /\ Known /\ Crowds /\ Sees /\ Fresh
  BY DEF Init, Belongs, Known, Crowds, Sees, Fresh, Asked, Working, UnderWay
<1>3. TurnsOnce
  BY NoElements DEF Init, TurnsOnce
<1>4. Kept
  BY DEF Init, Kept, Working, UnderWay
<1> QED
  BY <1>1, <1>2, <1>3, <1>4 DEF Inv

(* A message is sent, run or given up: its answer and all turns stay.        *)
LEMMA InvMoves ==
    ASSUME BoundsAssumption, Inv, NEW m \in Messages, Run(m) \/ Sent(m) \/ Fails(m)
    PROVE  Inv'
<1>1. PICK st \in {"sending", "apologizing", "done"} :
          /\ job' = [job EXCEPT ![m] = st] /\ job[m] \in UnderWay
          /\ st \in Working => job[m] \in Working
          /\ st \notin Asked
          /\ UNCHANGED <<chat, ghosts>> /\ Quiet
  <2>1. CASE Run(m)
    BY <2>1 DEF Run, Goes, UnderWay, Working, Asked
  <2>2. CASE Sent(m)
    BY <2>2 DEF Sent, Goes, UnderWay, Working, Asked
  <2>3. CASE Fails(m)
    BY <2>3 DEF Fails, Goes, UnderWay, Working, Asked
  <2> QED
    BY <2>1, <2>2, <2>3
<1>2. /\ job \in [Messages -> UnderWay \cup {"new", "done", "lost"}]
      /\ UNCHANGED <<from, kind, seen, refused, restarts, conversations, conv, turns, context, remembered, before, crowded, left>>
  BY <1>1 DEF Inv, Typed, TypeOK, Quiet, chat, ghosts
<1>3. \A x \in Messages : job'[x] = IF x = m THEN st ELSE job[x]
  BY <1>1, <1>2
<1>4. \A x \in Messages : /\ job'[x] \in Working => job[x] \in Working
                          /\ job'[x] = "answering" => job[x] = "answering"
                          /\ job'[x] \in Asked => job[x] \in Asked
                          /\ job[x] \in Answered => job'[x] \in Answered
  BY <1>1, <1>3 DEF Answered
<1>5. Typed'
  BY <1>1, <1>2 DEF Inv, Typed, TypeOK, UnderWay
<1>6. Belongs'
  BY <1>2, <1>4 DEF Inv, Belongs
<1>7. Known'
  BY <1>2 DEF Inv, Known
<1>8. TurnsOnce'
  BY <1>2, <1>4, Elements DEF Inv, TurnsOnce, Typed
<1>9. Crowds'
  BY <1>2, <1>4 DEF Inv, Crowds
<1>10. Kept'
  BY <1>2, <1>4 DEF Inv, Kept, Keeps
<1>11. Sees'
  BY <1>2, <1>4 DEF Inv, Sees
<1>12. Fresh'
  <2>1. left \subseteq Messages
    BY DEF Inv, Typed, TypeOK
  <2> QED
    BY <1>2, <1>4, <2>1 DEF Inv, Fresh
<1> QED
  BY <1>5, <1>6, <1>7, <1>8, <1>9, <1>10, <1>11, <1>12 DEF Inv

(* What a reset of n leaves behind is not being asked, and in no turns but   *)
(* those of the stored conversation of n.                                    *)
LEMMA PastApart ==
    ASSUME BoundsAssumption, Inv, NEW n \in Numbers
    PROVE  /\ Past(n) \subseteq seen /\ \A x \in Past(n) : job[x] \notin Asked
           /\ \A j \in Numbers \ {n} : conversations[j] # None => ToSet(turns[conversations[j]]) \cap Past(n) = {}
           /\ \A m \in Messages : job[m] \in Asked => ToSet(turns[conv[m]]) \cap Past(n) = {}
           /\ \A m \in Messages : job[m] = "answering" => ToSet(context[m]) \cap Past(n) = {}
<1>1. /\ Past(n) \subseteq seen /\ \A x \in Past(n) : job[x] \notin Asked /\ from[x] = n
      /\ \A m \in seen : job[m] \in Asked /\ from[m] = n => Past(n) = {}
  BY DEF Past, Asked
<1>2. /\ \A m \in Messages : job[m] \in Asked => m \in seen /\ conv[m] \in seen /\ from[conv[m]] = from[m]
      /\ seen \subseteq Messages
  BY DEF Inv, Belongs, Asked, Working, UnderWay, Typed, TypeOK
<1>3. ASSUME NEW c \in seen, from[c] # n PROVE ToSet(turns[c]) \cap Past(n) = {}
  BY <1>1, <1>2, <1>3 DEF Inv, TurnsOnce
<1>4. \A j \in Numbers : conversations[j] # None => conversations[j] \in seen /\ from[conversations[j]] = j
  BY DEF Inv, Belongs
<1>5. ASSUME NEW m \in Messages, job[m] \in Asked PROVE ToSet(turns[conv[m]]) \cap Past(n) = {}
  BY <1>1, <1>2, <1>3, <1>5
<1>6. ASSUME NEW m \in Messages, job[m] = "answering" PROVE ToSet(context[m]) \cap Past(n) = {}
  <2>1. job[m] \in Asked /\ \A x \in ToSet(context[m]) : from[x] = from[m]
    BY <1>6 DEF Inv, Sees, Asked
  <2> QED
    BY <1>1, <1>2, <2>1
<1> QED
  BY <1>1, <1>3, <1>4, <1>5, <1>6

(* A conversation is forgotten, with what is remembered of its number.       *)
LEMMA InvExpire ==
    ASSUME BoundsAssumption, Inv, NEW n \in Numbers, Expire(n)
    PROVE  Inv'
<1>1. /\ conversations' = [conversations EXCEPT ![n] = None]
      /\ remembered' = [remembered EXCEPT ![n] = {}]
      /\ left' = left \cup Past(n)
      /\ UNCHANGED <<job, from, kind, seen, refused, restarts, conv, turns, context, before, crowded>>
      /\ conversations \in [Numbers -> Messages \cup {None}] /\ remembered \in [Numbers -> SUBSET Messages]
      /\ job \in [Messages -> UnderWay \cup {"new", "done", "lost"}]
      /\ from \in [Messages -> Numbers \cup {"none"}] /\ seen \subseteq Messages
  BY DEF Expire, Quiet, Inv, Typed, TypeOK
<1>2. /\ \A k \in Numbers : conversations'[k] = IF k = n THEN None ELSE conversations[k]
      /\ \A k \in Numbers : remembered'[k] = IF k = n THEN {} ELSE remembered[k]
  BY <1>1
<1>3. Typed'
  BY <1>1, PastApart DEF Inv, Typed, TypeOK
<1>4. Belongs'
  BY <1>1, <1>2 DEF Inv, Belongs
<1>5. Known'
  BY <1>1, <1>2 DEF Inv, Known
<1>6. TurnsOnce' /\ Crowds' /\ Sees'
  BY <1>1 DEF Inv, TurnsOnce, Crowds, Sees
<1>7. Kept'
  <2>1. \A m \in Messages : job[m] \in Working => from[m] \in Numbers
    BY <1>1 DEF Inv, Belongs
  <2> QED
    BY <1>1, <1>2, <2>1 DEF Inv, Kept, Keeps
<1>8. Fresh'
  <2>1. \A j \in Numbers : conversations'[j] # None => j # n /\ conversations'[j] = conversations[j]
    BY <1>2
  <2> QED
    BY <1>1, <2>1, PastApart DEF Inv, Fresh
<1> QED
  BY <1>3, <1>4, <1>5, <1>6, <1>7, <1>8 DEF Inv

LEMMA InvRestart == ASSUME BoundsAssumption, Inv, Restart PROVE Inv'
<1>1. /\ job \in [Messages -> UnderWay \cup {"new", "done", "lost"}]
      /\ job' = [m \in Messages |-> IF job[m] \in UnderWay THEN "lost" ELSE job[m]]
      /\ seen' = {} /\ refused' = {}
      /\ conversations' = [n \in Numbers |-> None] /\ conv' = [m \in Messages |-> None]
      /\ turns' = [m \in Messages |-> <<>>] /\ context' = [m \in Messages |-> <<>>]
      /\ remembered' = [n \in Numbers |-> {}] /\ before' = [m \in Messages |-> {}]
      /\ crowded' = {} /\ left' = {}
      /\ UNCHANGED <<from, kind>>
  BY DEF Restart, Inv, Typed, TypeOK
<1>2. \A m \in Messages : job'[m] \notin UnderWay /\ job'[m] \in {"new", "done", "lost"}
  BY <1>1 DEF UnderWay
<1>3. restarts' \in 0 .. MaxRestarts
  BY DEF Restart, Inv, Typed, TypeOK, BoundsAssumption
<1>4. Typed'
  <2>1. job' \in [Messages -> UnderWay \cup {"new", "done", "lost"}]
    BY <1>1
  <2>2. \A m \in Messages : /\ turns'[m] = <<>> /\ context'[m] = <<>>
                           /\ <<>> \in Seq(Messages) /\ Len(<<>>) = 0 /\ 0 <= MaxTurns
    BY <1>1, Bounds
  <2> QED
    BY <1>1, <1>3, <2>1, <2>2 DEF Inv, Typed, TypeOK
<1>5. Belongs' /\ Known' /\ Crowds' /\ Sees' /\ Kept' /\ Fresh'
  BY <1>1, <1>2 DEF Belongs, Known, Crowds, Sees, Kept, Fresh, Asked, Working, UnderWay
<1>6. TurnsOnce'
  BY <1>1, NoElements DEF TurnsOnce
<1> QED
  BY <1>4, <1>5, <1>6 DEF Inv

(* What an accepted message leaves alone: nobody refers to it yet.           *)
LEMMA Unreferred ==
    ASSUME BoundsAssumption, Inv, NEW m \in Messages \ seen
    PROVE  /\ job[m] \notin Working
           /\ turns[m] = <<>>
           /\ \A c \in Messages : m \notin ToSet(turns[c])
           /\ \A x \in Messages : m \notin before[x] /\ (job[x] \in Working => conv[x] # m)
           /\ \A n \in Numbers : m \notin remembered[n] /\ conversations[n] # m
<1>1. /\ job[m] \notin Working
      /\ \A c \in Messages : m \notin ToSet(turns[c])
      /\ \A x \in Messages : m \notin before[x] /\ (job[x] \in Working => conv[x] # m)
      /\ \A n \in Numbers : m \notin remembered[n]
  BY DEF Inv, Belongs, Known, TurnsOnce
<1>2. \A n \in Numbers : conversations[n] # m
  BY Bounds DEF Inv, Belongs
<1>3. turns[m] = <<>>
  <2>1. turns[m] \in Seq(Messages) /\ \A x \in ToSet(turns[m]) : FALSE
    BY DEF Inv, Typed, TurnsOnce
  <2>2. SUFFICES ASSUME turns[m] # <<>> PROVE FALSE
    OBVIOUS
  <2>3. 1 \in 1 .. Len(turns[m])
    BY <2>1, <2>2
  <2>4. turns[m][1] \in ToSet(turns[m])
    BY <2>1, <2>3, Elements
  <2> QED
    BY <2>1, <2>4
<1> QED
  BY <1>1, <1>2, <1>3

LEMMA Accepts ==
    ASSUME BoundsAssumption, Inv, NEW m \in Messages, Accept(m)
    PROVE  /\ m \notin seen /\ seen' = seen \cup {m} /\ restarts' = restarts
           /\ \E n \in Numbers, k \in Kinds : /\ from' = [from EXCEPT ![m] = n]
                                              /\ kind' = [kind EXCEPT ![m] = k]
                                              /\ Refuse(m, n) \/ Handle(m, n, k)
BY DEF Accept

LEMMA InvRefuse ==
    ASSUME BoundsAssumption, Inv, NEW m \in Messages \ seen, NEW n \in Numbers, NEW k \in Kinds,
           seen' = seen \cup {m}, restarts' = restarts, from' = [from EXCEPT ![m] = n],
           kind' = [kind EXCEPT ![m] = k], Refuse(m, n)
    PROVE  Inv'
<1>1. PICK st \in {"done", "refusing"} : job' = [job EXCEPT ![m] = st]
  BY DEF Refuse, Goes
<1>2. /\ UNCHANGED <<conversations, conv, turns, context, remembered, before, crowded, left>>
      /\ job \in [Messages -> UnderWay \cup {"new", "done", "lost"}]
      /\ from \in [Messages -> Numbers \cup {"none"}] /\ seen \subseteq Messages
      /\ refused' = refused \cup {n} /\ n \notin Allowed
  BY DEF Refuse, chat, ghosts, Inv, Typed, TypeOK
<1>3. /\ \A x \in Messages : job'[x] = IF x = m THEN st ELSE job[x]
      /\ \A x \in Messages : from'[x] = IF x = m THEN n ELSE from[x]
      /\ st \notin Working /\ st # "answering"
  BY <1>1, <1>2 DEF Working, UnderWay
<1>4. Typed'
  BY <1>1, <1>2 DEF Inv, Typed, TypeOK, UnderWay
<1>5. Belongs'
  BY <1>2, <1>3 DEF Inv, Belongs
<1>6. Known'
  BY <1>2 DEF Inv, Known
<1>7. TurnsOnce'
  <2>1. \A c \in Messages : ToSet(turns[c]) \subseteq Messages
    BY Elements DEF Inv, Typed
  <2>2. \A c \in Messages : /\ IsInjective(turns[c])
                            /\ \A x \in ToSet(turns[c]) : c \in seen /\ x \in seen /\ job[x] \in Answered /\ from[x] = from[c]
    BY DEF Inv, TurnsOnce
  <2>3. \A c \in Messages : \A x \in ToSet(turns[c]) :
           x # m /\ c # m /\ c \in seen' /\ x \in seen' /\ job'[x] \in Answered /\ from'[x] = from'[c]
    BY <1>3, <2>1, <2>2
  <2> QED
    BY <1>2, <2>2, <2>3 DEF TurnsOnce
<1>8. Crowds'
  BY <1>2, <1>3 DEF Inv, Crowds
<1>9. Kept'
  BY <1>2, <1>3 DEF Inv, Kept, Keeps
<1>10. Sees'
  <2> SUFFICES ASSUME NEW x \in Messages, job'[x] = "answering"
               PROVE  /\ IsInjective(context[x])
                      /\ \A y \in ToSet(context[x]) : y \in seen' /\ from'[y] = from'[x] /\ y # x
                      /\ Len(context[x]) < MaxTurns => before[x] \ crowded \subseteq ToSet(context[x])
    BY <1>2 DEF Sees
  <2>1. x # m /\ job[x] = "answering" /\ ToSet(context[x]) \subseteq Messages
    BY <1>3, Elements DEF Inv, Typed
  <2> QED
    BY <1>3, <2>1 DEF Inv, Sees
<1>11. Fresh'
  <2>1. left \subseteq seen /\ st \notin Asked
    BY <1>1 DEF Inv, Fresh, Asked
  <2> QED
    BY <1>2, <1>3, <2>1 DEF Inv, Fresh
<1> QED
  BY <1>4, <1>5, <1>6, <1>7, <1>8, <1>9, <1>10, <1>11 DEF Inv

(* A message is given the stored conversation of its number, or a new one.   *)
LEMMA Gives ==
    ASSUME BoundsAssumption, Inv, NEW m \in Messages \ seen, NEW n \in Numbers
    PROVE  LET c == Given(m, n)
           IN  /\ c \in Messages /\ c \in seen \cup {m} /\ m \notin ToSet(turns[c])
               /\ c # m => from[c] = n
               /\ c = m => turns[c] = <<>>
               /\ Keeps(c, remembered[n]) /\ ToSet(turns[c]) \cap left = {}
               /\ turns[c] \in Seq(Messages) /\ Len(turns[c]) <= MaxTurns /\ IsInjective(turns[c])
<1> DEFINE c == Given(m, n)
<1>1. CASE conversations[n] = None
  <2>1. c = m /\ remembered[n] = {}
    BY <1>1 DEF Given, Inv, Belongs
  <2> QED
    BY <2>1, Unreferred, NoElements DEF Keeps, Inv, Typed, TypeOK, TurnsOnce
<1>2. CASE conversations[n] # None
  <2>1. c = conversations[n] /\ c \in seen /\ from[c] = n /\ c \in Messages /\ Keeps(c, remembered[n])
        /\ ToSet(turns[c]) \cap left = {}
    BY <1>2 DEF Given, Inv, Belongs, Kept, Fresh, Typed, TypeOK
  <2> QED
    BY <2>1, Unreferred DEF Inv, Typed, TypeOK, TurnsOnce
<1> QED
  BY <1>1, <1>2

LEMMA InvHandle ==
    ASSUME BoundsAssumption, Inv, NEW m \in Messages \ seen, NEW n \in Numbers, NEW k \in Kinds,
           seen' = seen \cup {m}, restarts' = restarts, from' = [from EXCEPT ![m] = n],
           kind' = [kind EXCEPT ![m] = k], Handle(m, n, k)
    PROVE  Inv'
<1> DEFINE g == Given(m, n)
<1>1. /\ g \in Messages /\ g \in seen \cup {m} /\ m \notin ToSet(turns[g])
      /\ g # m => from[g] = n
      /\ g = m => turns[g] = <<>>
      /\ Keeps(g, remembered[n]) /\ ToSet(turns[g]) \cap left = {}
      /\ turns[g] \in Seq(Messages) /\ Len(turns[g]) <= MaxTurns /\ IsInjective(turns[g])
  BY Gives
<1>2. /\ First(k) \in Working /\ First(k) \in UnderWay
      /\ First(k) = "answering" => k = "question"
  BY DEF First, Working, UnderWay, Kinds
<1>3. /\ job' = [job EXCEPT ![m] = First(k)]
      /\ conv' = [conv EXCEPT ![m] = g]
      /\ context' = [context EXCEPT ![m] = IF k = "question" THEN turns[g] ELSE <<>>]
      /\ before' = [before EXCEPT ![m] = remembered[n]]
      /\ UNCHANGED <<turns, refused>>
  BY DEF Handle, Goes
<1> DEFINE rivals == {x \in Messages \ {m} : from[x] = n /\ job[x] \in UnderWay /\ conv[x] # g}
<1>r. crowded' = IF rivals = {} THEN crowded ELSE crowded \cup {m} \cup rivals
  BY DEF Handle, Rivals
<1> HIDE DEF g
<1>4. /\ \/ /\ conversations' = [conversations EXCEPT ![n] = None] /\ remembered' = [remembered EXCEPT ![n] = {}]
            /\ left' = left \cup Past(n) /\ k = "reset"
         \/ conversations' = conversations /\ remembered' = remembered /\ left' = left
      /\ crowded \subseteq crowded' /\ crowded' \subseteq crowded \cup Messages
  BY <1>r DEF Handle
<1>c. \A x \in rivals : x \in crowded' /\ m \in crowded'
  BY <1>r
<1> HIDE DEF rivals
<1>5. /\ job \in [Messages -> UnderWay \cup {"new", "done", "lost"}]
      /\ from \in [Messages -> Numbers \cup {"none"}] /\ kind \in [Messages -> Kinds \cup {"none"}]
      /\ seen \subseteq Messages /\ conversations \in [Numbers -> Messages \cup {None}]
      /\ conv \in [Messages -> Messages \cup {None}] /\ context \in [Messages -> Seq(Messages)]
      /\ remembered \in [Numbers -> SUBSET Messages] /\ before \in [Messages -> SUBSET Messages]
      /\ crowded \subseteq Messages /\ left \subseteq Messages /\ left \subseteq seen
      /\ \A x \in Messages : Len(context[x]) <= MaxTurns
  BY DEF Inv, Typed, TypeOK, Fresh
<1>6. \A x \in Messages : /\ job'[x] = IF x = m THEN First(k) ELSE job[x]
                          /\ from'[x] = IF x = m THEN n ELSE from[x]
                          /\ conv'[x] = IF x = m THEN g ELSE conv[x]
                          /\ before'[x] = IF x = m THEN remembered[n] ELSE before[x]
                          /\ context'[x] = IF x = m THEN IF k = "question" THEN turns[g] ELSE <<>> ELSE context[x]
  BY <1>3, <1>5
<1>7. /\ \A j \in Numbers : conversations'[j] \in {None, conversations[j]} /\ remembered'[j] \in {{}, remembered[j]}
      /\ \A j \in Numbers : conversations'[j] = None => conversations[j] = None \/ remembered'[j] = {}
  BY <1>4, <1>5
<1>8. /\ \A x \in Messages : x # m => (x \in crowded => x \in crowded')
      /\ \A S : m \notin S => S \ crowded' \subseteq S \ crowded
  BY <1>4
<1>9. Typed'
  <2>1. \A x \in Messages : /\ context'[x] \in Seq(Messages) /\ Len(context'[x]) <= MaxTurns
                           /\ turns'[x] = turns[x]
    <3>1. <<>> \in Seq(Messages) /\ Len(<<>>) = 0 /\ 0 <= MaxTurns
      BY Bounds
    <3> QED
      BY <1>1, <1>3, <1>5, <1>6, <3>1
  <2>2. /\ job' \in [Messages -> UnderWay \cup {"new", "done", "lost"}]
        /\ from' \in [Messages -> Numbers \cup {"none"}] /\ kind' \in [Messages -> Kinds \cup {"none"}]
        /\ seen' \subseteq Messages /\ conv' \in [Messages -> Messages \cup {None}]
    BY <1>1, <1>2, <1>3, <1>5
  <2>3. /\ conversations' \in [Numbers -> Messages \cup {None}]
        /\ remembered' \in [Numbers -> SUBSET Messages] /\ before' \in [Messages -> SUBSET Messages]
        /\ crowded' \subseteq Messages /\ left' \subseteq Messages
    BY <1>3, <1>4, <1>5, PastApart
  <2>4. context' \in [Messages -> Seq(Messages)]
    <3>1. DOMAIN context' = Messages /\ context' = [x \in Messages |-> context'[x]]
      BY <1>3, <1>5
    <3> QED
      BY <2>1, <3>1
  <2> QED
    BY <1>3, <2>1, <2>2, <2>3, <2>4 DEF Inv, Typed, TypeOK
<1>10. Belongs'
  <2>1. \A x \in seen' : from'[x] \in Numbers
    BY <1>5, <1>6 DEF Inv, Belongs
  <2>2. ASSUME NEW x \in Messages, job'[x] \in Working
        PROVE  x \in seen' /\ conv'[x] \in seen' /\ from'[conv'[x]] = from'[x]
    <3>1. CASE x = m
      BY <1>1, <1>6, <3>1
    <3>2. CASE x # m
      BY <1>5, <1>6, <2>2, <3>2 DEF Inv, Belongs
    <3> QED
      BY <3>1, <3>2
  <2>3. ASSUME NEW j \in Numbers
        PROVE  /\ conversations'[j] # None => conversations'[j] \in seen' /\ from'[conversations'[j]] = j
               /\ conversations'[j] = None => remembered'[j] = {}
    <3>1. /\ conversations[j] # None => conversations[j] \in seen /\ from[conversations[j]] = j
          /\ conversations[j] = None => remembered[j] = {}
      BY DEF Inv, Belongs
    <3>2. conversations'[j] = None => remembered'[j] = {}
      BY <1>7, <3>1
    <3>3. ASSUME conversations'[j] # None
          PROVE  conversations'[j] \in seen' /\ from'[conversations'[j]] = j
      <4>1. conversations'[j] = conversations[j] /\ conversations[j] \in seen /\ from[conversations[j]] = j
        BY <1>7, <3>1, <3>3
      <4> QED
        BY <1>5, <1>6, <4>1
    <3> QED
      BY <3>2, <3>3
  <2> QED
    BY <2>1, <2>2, <2>3 DEF Belongs
<1>11. Known'
  BY <1>5, <1>6, <1>7 DEF Inv, Known
<1>12. TurnsOnce'
  <2>1. \A c \in Messages : ToSet(turns[c]) \subseteq Messages
    BY Elements DEF Inv, Typed
  <2>2. \A c \in Messages : /\ IsInjective(turns[c])
                            /\ \A x \in ToSet(turns[c]) : c \in seen /\ x \in seen /\ job[x] \in Answered /\ from[x] = from[c]
    BY DEF Inv, TurnsOnce
  <2>3. \A c \in Messages : \A x \in ToSet(turns[c]) :
           x # m /\ c # m /\ c \in seen' /\ x \in seen' /\ job'[x] \in Answered /\ from'[x] = from'[c]
    BY <1>6, <2>1, <2>2
  <2> QED
    BY <1>3, <2>2, <2>3 DEF TurnsOnce
<1>13. Crowds'
  <2> SUFFICES ASSUME NEW x \in Messages, NEW y \in Messages, job'[x] \in Working, job'[y] \in Working,
                      from'[x] = from'[y], conv'[x] # conv'[y]
               PROVE  x \in crowded'
    BY DEF Crowds
  <2>1. CASE x = m
    <3>1. y \in rivals
      BY <1>6, <2>1 DEF rivals, Working
    <3> QED
      BY <1>c, <2>1, <3>1
  <2>2. CASE y = m
    <3>1. x \in rivals
      BY <1>6, <2>2 DEF rivals, Working
    <3> QED
      BY <1>c, <3>1
  <2>3. CASE x # m /\ y # m
    <3>1. x \in crowded
      BY <1>6, <2>3 DEF Inv, Crowds
    <3> QED
      BY <1>8, <2>3, <3>1
  <2> QED
    BY <2>1, <2>2, <2>3
<1>14. Kept'
  <2>1. ASSUME NEW c \in Messages, NEW S, NEW T, m \notin S, Keeps(c, S), T \in {{}, S}
        PROVE  Len(turns'[c]) < MaxTurns => T \ crowded' \subseteq ToSet(turns'[c])
    BY <1>3, <1>8, <2>1 DEF Keeps
  <2>2. ASSUME NEW j \in Numbers, conversations'[j] # None
        PROVE  Len(turns'[conversations'[j]]) < MaxTurns =>
                   remembered'[j] \ crowded' \subseteq ToSet(turns'[conversations'[j]])
    <3>1. /\ conversations'[j] = conversations[j] /\ conversations[j] \in Messages
          /\ Keeps(conversations[j], remembered[j])
      BY <1>5, <1>7, <2>2 DEF Inv, Kept
    <3>2. m \notin remembered[j] /\ remembered'[j] \in {{}, remembered[j]}
      BY <1>7, Unreferred
    <3> QED
      BY <2>1, <3>1, <3>2
  <2>3. ASSUME NEW x \in Messages, job'[x] \in Working
        PROVE  /\ Len(turns'[conv'[x]]) < MaxTurns =>
                      remembered'[from'[x]] \ crowded' \subseteq ToSet(turns'[conv'[x]])
               /\ Len(turns'[conv'[x]]) < MaxTurns =>
                      before'[x] \ crowded' \subseteq ToSet(turns'[conv'[x]])
    <3>1. PICK c \in Messages, j \in Numbers, S \in SUBSET Messages :
             /\ conv'[x] = c /\ from'[x] = j /\ before'[x] = S
             /\ Keeps(c, remembered[j]) /\ Keeps(c, S) /\ m \notin S
      <4>1. CASE x = m
        <5>1. /\ conv'[x] = g /\ from'[x] = n /\ before'[x] = remembered[n]
              /\ remembered[n] \in SUBSET Messages /\ m \notin remembered[n]
          BY <1>5, <1>6, <4>1, Unreferred
        <5> QED
          BY <1>1, <5>1
      <4>2. CASE x # m
        <5>1. /\ x \in seen /\ conv[x] \in seen /\ from[x] \in Numbers
              /\ Keeps(conv[x], remembered[from[x]]) /\ Keeps(conv[x], before[x])
          BY <1>6, <2>3, <4>2 DEF Inv, Belongs, Kept
        <5> QED
          BY <1>5, <1>6, <4>2, <5>1, Unreferred
      <4> QED
        BY <4>1, <4>2
    <3>2. m \notin remembered[j] /\ remembered'[j] \in {{}, remembered[j]}
      BY <1>7, Unreferred
    <3>3. Len(turns'[c]) < MaxTurns => remembered'[j] \ crowded' \subseteq ToSet(turns'[c])
      BY <2>1, <3>1, <3>2
    <3>4. Len(turns'[c]) < MaxTurns => S \ crowded' \subseteq ToSet(turns'[c])
      BY <2>1, <3>1
    <3> QED
      BY <3>1, <3>3, <3>4
  <2> QED
    BY <2>2, <2>3 DEF Kept, Keeps
<1>15. Sees'
  <2> SUFFICES ASSUME NEW x \in Messages, job'[x] = "answering"
               PROVE  /\ IsInjective(context'[x])
                      /\ \A y \in ToSet(context'[x]) : y \in seen' /\ from'[y] = from'[x] /\ y # x
                      /\ Len(context'[x]) < MaxTurns => before'[x] \ crowded' \subseteq ToSet(context'[x])
    BY DEF Sees
  <2>1. CASE x = m
    <3>1. context'[x] = turns[g] /\ before'[x] = remembered[n] /\ from'[x] = n
      BY <1>2, <1>6, <2>1
    <3>2. \A y \in ToSet(turns[g]) : y \in Messages /\ y \in seen /\ y # m /\ from[y] = from[g] /\ g \in seen
      BY <1>1, Elements DEF Inv, TurnsOnce
    <3>3. m \notin remembered[n] /\ Keeps(g, remembered[n])
      BY <1>1, Unreferred
    <3> QED
      BY <1>1, <1>6, <1>8, <2>1, <3>1, <3>2, <3>3 DEF Keeps
  <2>2. CASE x # m
    <3>1. job[x] = "answering" /\ context'[x] = context[x] /\ before'[x] = before[x] /\ from'[x] = from[x]
      BY <1>6, <2>2
    <3>2. m \notin before[x] /\ ToSet(context[x]) \subseteq Messages
      BY <1>5, Elements, Unreferred
    <3>3. /\ IsInjective(context[x])
          /\ \A y \in ToSet(context[x]) : y \in seen /\ from[y] = from[x] /\ y # x
          /\ Len(context[x]) < MaxTurns => before[x] \ crowded \subseteq ToSet(context[x])
      BY <3>1 DEF Inv, Sees
    <3> QED
      BY <1>6, <1>8, <3>1, <3>2, <3>3
  <2> QED
    BY <2>1, <2>2
<1>16. Fresh'
  <2>1. /\ left' \subseteq left \cup Past(n)
        /\ \A j \in Numbers : conversations'[j] # None =>
               conversations'[j] = conversations[j] /\ (j # n \/ left' = left)
        /\ First(k) \in Asked => left' = left
    BY <1>4, <1>5 DEF First, Asked
  <2>2. /\ left' \subseteq seen /\ \A x \in left' : x # m /\ job'[x] \notin Asked
    BY <1>5, <1>6, <2>1, PastApart DEF Inv, Fresh
  <2>3. \A j \in Numbers : conversations'[j] # None => ToSet(turns'[conversations'[j]]) \cap left' = {}
    BY <1>3, <2>1, PastApart DEF Inv, Fresh
  <2>4. ASSUME NEW x \in Messages, job'[x] \in Asked PROVE ToSet(turns'[conv'[x]]) \cap left' = {}
    <3>1. CASE x = m
      BY <1>1, <1>3, <1>6, <2>1, <2>4, <3>1
    <3>2. CASE x # m
      BY <1>3, <1>6, <2>1, <2>4, <3>2, PastApart DEF Inv, Fresh
    <3> QED
      BY <3>1, <3>2
  <2>5. ASSUME NEW x \in Messages, job'[x] = "answering" PROVE ToSet(context'[x]) \cap left' = {}
    <3>1. CASE x = m
      BY <1>1, <1>2, <1>6, <2>1, <2>5, <3>1 DEF Asked
    <3>2. CASE x # m
      BY <1>6, <2>1, <2>5, <3>2, PastApart DEF Inv, Fresh
    <3> QED
      BY <3>1, <3>2
  <2> QED
    BY <2>2, <2>3, <2>4, <2>5 DEF Fresh
<1> QED
  BY <1>9, <1>10, <1>11, <1>12, <1>13, <1>14, <1>15, <1>16 DEF Inv

(* The turns of the conversation go with a recording's question.             *)
LEMMA InvDownload ==
    ASSUME BoundsAssumption, Inv, NEW m \in Messages, Download(m)
    PROVE  Inv'
<1>1. /\ job[m] = "downloading" /\ job' = [job EXCEPT ![m] = "answering"]
      /\ context' = [context EXCEPT ![m] = turns[conv[m]]]
      /\ UNCHANGED <<from, kind, seen, refused, restarts, conversations, conv, turns, remembered, before, crowded, left>>
  BY DEF Download, Goes, Quiet, ghosts
<1>2. /\ job \in [Messages -> UnderWay \cup {"new", "done", "lost"}]
      /\ context \in [Messages -> Seq(Messages)] /\ turns \in [Messages -> Seq(Messages)]
      /\ seen \subseteq Messages
      /\ \A x \in Messages : Len(turns[x]) <= MaxTurns /\ Len(context[x]) <= MaxTurns
  BY DEF Inv, Typed, TypeOK
<1>3. /\ m \in seen /\ conv[m] \in seen /\ conv[m] \in Messages /\ from[conv[m]] = from[m]
      /\ Keeps(conv[m], before[m])
  BY <1>1, <1>2 DEF Inv, Belongs, Kept, Working, UnderWay
<1>4. /\ \A x \in Messages : job'[x] = IF x = m THEN "answering" ELSE job[x]
      /\ \A x \in Messages : context'[x] = IF x = m THEN turns[conv[m]] ELSE context[x]
  BY <1>1, <1>2
<1>5. /\ \A x \in Messages : job'[x] \in Working <=> job[x] \in Working
      /\ \A x \in Messages : job[x] \in Answered => job'[x] = job[x]
  BY <1>1, <1>4 DEF Working, UnderWay, Answered
<1>6. Typed'
  <2>1. \A x \in Messages : context'[x] \in Seq(Messages) /\ Len(context'[x]) <= MaxTurns
    BY <1>2, <1>3, <1>4
  <2>2. job' \in [Messages -> UnderWay \cup {"new", "done", "lost"}] /\ context' \in [Messages -> Seq(Messages)]
    BY <1>1, <1>2, <1>3 DEF UnderWay
  <2> QED
    BY <1>1, <2>1, <2>2 DEF Inv, Typed, TypeOK
<1>7. Belongs' /\ Known'
  BY <1>1, <1>5 DEF Inv, Belongs, Known
<1>8. TurnsOnce'
  <2>1. \A c \in Messages : ToSet(turns[c]) \subseteq Messages
    BY <1>2, Elements
  <2> QED
    BY <1>1, <1>5, <2>1 DEF Inv, TurnsOnce
<1>9. Crowds'
  BY <1>1, <1>5 DEF Inv, Crowds
<1>10. Kept'
  BY <1>1, <1>5 DEF Inv, Kept, Keeps
<1>11. Sees'
  <2> SUFFICES ASSUME NEW x \in Messages, job'[x] = "answering"
               PROVE  /\ IsInjective(context'[x])
                      /\ \A y \in ToSet(context'[x]) : y \in seen /\ from[y] = from[x] /\ y # x
                      /\ Len(context'[x]) < MaxTurns => before[x] \ crowded \subseteq ToSet(context'[x])
    BY <1>1 DEF Sees
  <2>1. CASE x = m
    <3>1. /\ IsInjective(turns[conv[m]])
          /\ \A y \in ToSet(turns[conv[m]]) : y \in seen /\ job[y] \in Answered /\ from[y] = from[conv[m]]
      BY <1>3 DEF Inv, TurnsOnce
    <3>2. \A y \in ToSet(turns[conv[m]]) : y # m
      BY <1>1, <3>1 DEF Answered
    <3> QED
      BY <1>3, <1>4, <2>1, <3>1, <3>2 DEF Keeps
  <2>2. CASE x # m
    BY <1>4, <2>2 DEF Inv, Sees
  <2> QED
    BY <2>1, <2>2
<1>12. Fresh'
  <2>1. /\ \A x \in Messages : job'[x] \in Asked <=> job[x] \in Asked
        /\ left \subseteq Messages
    BY <1>1, <1>4 DEF Asked, Inv, Typed, TypeOK
  <2>2. ToSet(turns[conv[m]]) \cap left = {}
    BY <1>1 DEF Asked, Inv, Fresh
  <2> QED
    BY <1>1, <1>4, <2>1, <2>2 DEF Inv, Fresh
<1> QED
  BY <1>6, <1>7, <1>8, <1>9, <1>10, <1>11, <1>12 DEF Inv

(* The answer is the last turn of the conversation, which is stored.         *)
LEMMA InvAnswer ==
    ASSUME BoundsAssumption, Inv, NEW m \in Messages, Answer(m)
    PROVE  Inv'
<1> DEFINE c == conv[m]
           n == from[m]
           all == Added(m)
<1>1. /\ job[m] = "answering" /\ job' = [job EXCEPT ![m] = "sending"]
      /\ turns' = [turns EXCEPT ![c] = all]
      /\ conversations' = [conversations EXCEPT ![n] = c]
      /\ remembered' = [remembered EXCEPT ![n] = @ \cup {m}]
      /\ UNCHANGED <<from, kind, seen, refused, restarts, conv, context, before, crowded, left>>
  BY DEF Answer, Goes, Quiet, Stored
<1>2. /\ job \in [Messages -> UnderWay \cup {"new", "done", "lost"}]
      /\ from \in [Messages -> Numbers \cup {"none"}] /\ seen \subseteq Messages
      /\ conversations \in [Numbers -> Messages \cup {None}]
      /\ conv \in [Messages -> Messages \cup {None}]
      /\ context \in [Messages -> Seq(Messages)] /\ turns \in [Messages -> Seq(Messages)]
      /\ remembered \in [Numbers -> SUBSET Messages]
      /\ \A x \in Messages : Len(turns[x]) <= MaxTurns
  BY DEF Inv, Typed, TypeOK
<1>3. /\ job[m] \in Working /\ m \in seen /\ c \in seen /\ c \in Messages /\ from[c] = n /\ n \in Numbers
      /\ Keeps(c, remembered[n])
  BY <1>1, <1>2 DEF Inv, Belongs, Kept, Working, UnderWay
<1>4. m \notin ToSet(turns[c]) /\ IsInjective(turns[c])
  BY <1>1, <1>3 DEF Inv, TurnsOnce, Answered
<1>5. /\ all \in Seq(Messages) /\ Len(all) <= MaxTurns
      /\ ToSet(all) \subseteq ToSet(turns[c]) \cup {m}
      /\ IsInjective(all)
      /\ Len(all) < MaxTurns => Len(turns[c]) < MaxTurns
      /\ Len(turns[c]) < MaxTurns => ToSet(all) = ToSet(turns[c]) \cup {m}
  BY <1>2, <1>3, <1>4, AddedTurn
<1> HIDE DEF c, n, all
<1>6. /\ \A x \in Messages : job'[x] = IF x = m THEN "sending" ELSE job[x]
      /\ \A x \in Messages : turns'[x] = IF x = c THEN all ELSE turns[x]
      /\ \A j \in Numbers : conversations'[j] = IF j = n THEN c ELSE conversations[j]
      /\ \A j \in Numbers : remembered'[j] = IF j = n THEN remembered[n] \cup {m} ELSE remembered[j]
  BY <1>1, <1>2, <1>3
<1>7. /\ \A x \in Messages : job'[x] \in Working <=> job[x] \in Working
      /\ \A x \in Messages : job[x] \in Answered => job'[x] \in Answered
      /\ \A x \in Messages : job'[x] = "answering" => job[x] = "answering"
      /\ job'[m] \in Answered
  BY <1>3, <1>6 DEF Working, UnderWay, Answered
<1>8. Typed'
  <2>1. \A x \in Messages : turns'[x] \in Seq(Messages) /\ Len(turns'[x]) <= MaxTurns
    BY <1>2, <1>5, <1>6
  <2>2. /\ job' \in [Messages -> UnderWay \cup {"new", "done", "lost"}]
        /\ turns' \in [Messages -> Seq(Messages)]
        /\ conversations' \in [Numbers -> Messages \cup {None}]
        /\ remembered' \in [Numbers -> SUBSET Messages]
    BY <1>1, <1>2, <1>3, <1>5 DEF UnderWay
  <2> QED
    BY <1>1, <2>1, <2>2 DEF Inv, Typed, TypeOK
<1>9. Belongs'
  BY <1>1, <1>2, <1>3, <1>6, <1>7, Bounds DEF Inv, Belongs
<1>10. Known'
  BY <1>1, <1>3, <1>6 DEF Inv, Known
<1>11. TurnsOnce'
  <2> SUFFICES ASSUME NEW d \in Messages
               PROVE  /\ IsInjective(turns'[d])
                      /\ \A x \in ToSet(turns'[d]) : d \in seen /\ x \in seen /\ job'[x] \in Answered /\ from[x] = from[d]
    BY <1>1 DEF TurnsOnce
  <2>1. ToSet(turns[d]) \subseteq Messages
    BY <1>2, Elements
  <2>2. /\ IsInjective(turns[d])
        /\ \A x \in ToSet(turns[d]) : d \in seen /\ x \in seen /\ job[x] \in Answered /\ from[x] = from[d]
    BY DEF Inv, TurnsOnce
  <2>3. from[m] = n
    BY DEF n
  <2>4. CASE d = c
    BY <1>3, <1>5, <1>6, <1>7, <2>1, <2>2, <2>3, <2>4
  <2>5. CASE d # c
    BY <1>6, <1>7, <2>1, <2>2, <2>5
  <2> QED
    BY <2>4, <2>5
<1>12. Crowds'
  BY <1>1, <1>7 DEF Inv, Crowds
<1>13. Kept'
  <2>1. ASSUME NEW d \in Messages, NEW S, Keeps(d, S)
        PROVE  Len(turns'[d]) < MaxTurns => S \ crowded' \subseteq ToSet(turns'[d])
    <3>1. CASE d = c
      BY <1>1, <1>5, <1>6, <2>1, <3>1 DEF Keeps
    <3>2. CASE d # c
      BY <1>1, <1>6, <2>1, <3>2 DEF Keeps
    <3> QED
      BY <3>1, <3>2
  <2>2. ASSUME NEW j \in Numbers, conversations'[j] # None
        PROVE  Len(turns'[conversations'[j]]) < MaxTurns =>
                   remembered'[j] \ crowded' \subseteq ToSet(turns'[conversations'[j]])
    <3>1. CASE j = n
      <4>1. conversations'[j] = c /\ remembered'[j] = remembered[n] \cup {m} /\ turns'[c] = all
        BY <1>3, <1>6, <3>1
      <4> QED
        BY <1>1, <1>3, <1>5, <4>1 DEF Keeps
    <3>2. CASE j # n
      <4>1. /\ conversations'[j] = conversations[j] /\ remembered'[j] = remembered[j]
            /\ conversations[j] \in Messages /\ Keeps(conversations[j], remembered[j])
        BY <1>2, <1>6, <2>2, <3>2 DEF Inv, Kept
      <4> QED
        BY <2>1, <4>1
    <3> QED
      BY <3>1, <3>2
  <2>3. ASSUME NEW x \in Messages, job'[x] \in Working
        PROVE  /\ Len(turns'[conv'[x]]) < MaxTurns =>
                      remembered'[from'[x]] \ crowded' \subseteq ToSet(turns'[conv'[x]])
               /\ Len(turns'[conv'[x]]) < MaxTurns =>
                      before'[x] \ crowded' \subseteq ToSet(turns'[conv'[x]])
    <3>1. /\ x \in seen /\ conv[x] \in Messages /\ from[x] \in Numbers
          /\ Keeps(conv[x], remembered[from[x]]) /\ Keeps(conv[x], before[x])
      BY <1>2, <1>7, <2>3 DEF Inv, Belongs, Kept
    <3>2. Len(turns'[conv[x]]) < MaxTurns => before[x] \ crowded' \subseteq ToSet(turns'[conv[x]])
      BY <2>1, <3>1
    <3>3. Len(turns'[conv[x]]) < MaxTurns => remembered[from[x]] \ crowded' \subseteq ToSet(turns'[conv[x]])
      BY <2>1, <3>1
    <3>4. from[x] = n /\ Len(turns'[conv[x]]) < MaxTurns => m \in crowded' \/ m \in ToSet(turns'[conv[x]])
      <4>1. CASE x = m
        BY <1>3, <1>5, <1>6, <4>1 DEF c
      <4>2. CASE conv[x] = c
        BY <1>3, <1>5, <1>6, <4>2
      <4>3. CASE conv[x] # c
        BY <1>1, <1>3, <1>7, <2>3, <4>3 DEF n, c, Inv, Crowds
      <4> QED
        BY <4>1, <4>2, <4>3
    <3>5. CASE from[x] = n
      <4>1. remembered'[from[x]] = remembered[from[x]] \cup {m}
        BY <1>3, <1>6, <3>5
      <4> QED
        BY <1>1, <3>2, <3>3, <3>4, <3>5, <4>1
    <3>6. CASE from[x] # n
      <4>1. remembered'[from[x]] = remembered[from[x]]
        BY <1>6, <3>1, <3>6
      <4> QED
        BY <1>1, <3>2, <3>3, <4>1
    <3> QED
      BY <3>5, <3>6
  <2> QED
    BY <2>2, <2>3 DEF Kept, Keeps
<1>14. Sees'
  BY <1>1, <1>7 DEF Inv, Sees
<1>15. Fresh'
  <2>1. /\ left \subseteq seen /\ left \subseteq Messages /\ m \notin left
        /\ \A x \in Messages : job'[x] \in Asked => job[x] \in Asked
        /\ ToSet(turns[c]) \cap left = {}
    BY <1>1, <1>2, <1>6 DEF Asked, Inv, Fresh, c
  <2>2. \A d \in Messages : ToSet(turns[d]) \cap left = {} => ToSet(turns'[d]) \cap left = {}
    BY <1>5, <1>6, <2>1
  <2>3. \A j \in Numbers : conversations'[j] # None => ToSet(turns'[conversations'[j]]) \cap left = {}
    <3> SUFFICES ASSUME NEW j \in Numbers, conversations'[j] # None
                 PROVE  ToSet(turns'[conversations'[j]]) \cap left = {}
      OBVIOUS
    <3>1. CASE j = n
      BY <1>3, <1>6, <2>1, <2>2, <3>1
    <3>2. CASE j # n
      <4>1. conversations'[j] = conversations[j] /\ conversations[j] \in Messages
        BY <1>2, <1>6, <3>2
      <4>2. ToSet(turns[conversations[j]]) \cap left = {}
        BY <4>1 DEF Inv, Fresh
      <4> QED
        BY <2>2, <4>1, <4>2
    <3> QED
      BY <3>1, <3>2
  <2>4. \A x \in Messages : job[x] \in Asked => conv[x] \in Messages
    BY <1>2 DEF Asked, Inv, Belongs, Working, UnderWay
  <2>5. \A x \in Messages : job'[x] \in Asked => ToSet(turns'[conv[x]]) \cap left = {}
    BY <2>1, <2>2, <2>4 DEF Inv, Fresh
  <2> QED
    BY <1>1, <1>7, <2>1, <2>3, <2>5 DEF Inv, Fresh
<1> QED
  BY <1>8, <1>9, <1>10, <1>11, <1>12, <1>13, <1>14, <1>15 DEF Inv
-----------------------------------------------------------------------------
(* The invariant is inductive.                                              *)
LEMMA InvNext == BoundsAssumption /\ Inv /\ [Next]_vars => Inv'
<1> SUFFICES ASSUME BoundsAssumption, Inv, [Next]_vars PROVE Inv'
  OBVIOUS
<1>1. CASE Restart
  BY <1>1, InvRestart
<1>2. ASSUME NEW n \in Numbers, Expire(n) PROVE Inv'
  BY <1>2, InvExpire
<1>3. ASSUME NEW m \in Messages, Accept(m) PROVE Inv'
  <2>1. /\ m \in Messages \ seen /\ seen' = seen \cup {m} /\ restarts' = restarts
        /\ \E n \in Numbers, k \in Kinds : /\ from' = [from EXCEPT ![m] = n]
                                           /\ kind' = [kind EXCEPT ![m] = k]
                                           /\ Refuse(m, n) \/ Handle(m, n, k)
    BY <1>3, Accepts
  <2>2. PICK n \in Numbers, k \in Kinds : /\ from' = [from EXCEPT ![m] = n]
                                          /\ kind' = [kind EXCEPT ![m] = k]
                                          /\ Refuse(m, n) \/ Handle(m, n, k)
    BY <2>1
  <2> QED
    BY <2>1, <2>2, InvRefuse, InvHandle
<1>4. ASSUME NEW m \in Messages, JobStep(m) PROVE Inv'
  BY <1>4, InvDownload, InvAnswer, InvMoves DEF JobStep
<1>5. CASE UNCHANGED vars
  BY <1>5 DEF vars, chat, ghosts, Inv, Typed, TypeOK, Belongs, Known, TurnsOnce, Crowds, Kept, Keeps, Sees, Fresh
<1> QED
  BY <1>1, <1>2, <1>3, <1>4, <1>5 DEF Next

LEMMA Invariance == ASSUME BoundsAssumption PROVE Spec => []Inv
<1>1. BoundsAssumption /\ Init => Inv
  BY InvInit
<1>2. BoundsAssumption /\ Inv /\ [Next]_vars => Inv'
  BY InvNext
<1> QED
  BY BoundsAssumption, <1>1, <1>2, PTL DEF Spec

(* Every message and conversation is in the state the type says.             *)
THEOREM TypeCorrect == ASSUME BoundsAssumption PROVE Spec => []TypeOK
<1>1. Inv => TypeOK
  BY DEF Inv, Typed
<1> QED
  BY <1>1, Invariance, PTL

(* "Follow-ups keep context": whatever messages of a number are handled next *)
(* to each other, whatever expires, is reset or lost in a restart, a question *)
(* is sent with turns of its own number, each once; unless there are more    *)
(* than are kept, with every message remembered when it came that was under  *)
(* way with none of its number in another conversation; and with none from   *)
(* before a reset at which nothing of the number was being answered          *)
(* (whatsapp.service.ts, handle and answer).                                 *)
THEOREM ContextKept == ASSUME BoundsAssumption PROVE Spec => []FollowUpSeesHistory
<1>1. Inv => FollowUpSeesHistory
  BY DEF Inv, Sees, Fresh, FollowUpSeesHistory
<1> QED
  BY <1>1, Invariance, PTL
=============================================================================
