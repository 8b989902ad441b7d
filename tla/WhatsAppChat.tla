---------------------------- MODULE WhatsAppChat ---------------------------
(* whatsapp/whatsapp.service.ts and the path of a recording or photo through *)
(* query/media.service.ts: messages are accepted as Meta delivers them, at   *)
(* least once, and handled in the background, those of one number too, over  *)
(* a conversation that all of them share once it is stored.                  *)
(*                                                                           *)
(* JavaScript passes conversations by reference: conv of a message names the *)
(* object it got, which is named after the message it was made for. What is  *)
(* answered is AnalystChat's, how it is worded is left out; sending is the   *)
(* Cloud API's, external.                                                    *)
EXTENDS Integers, Sequences, FiniteSets, SequencesExt

CONSTANTS MaxMessages, Numbers, Allowed,
          MaxTurns,   \* turns a conversation keeps
          MaxRestarts

BoundsAssumption == /\ Allowed \subseteq Numbers
                           /\ {MaxMessages, MaxTurns} \subseteq Nat \ {0} /\ MaxRestarts \in Nat

VARIABLES job,           \* of each message: how far its handling is
          from, kind,
          seen, refused,
          conversations, \* the stored one of each number
          conv,          \* of each message: the conversation it was given
          turns,         \* of each conversation: the messages answered in it
          context,       \* of each message: the turns its question was sent with
          remembered,    \* messages of a number answered since it was last forgotten
          before,        \* what was remembered when the message was accepted
          crowded,       \* messages under way with one of their number in another conversation
          left,          \* messages answered before a reset or the end of their half hour
                         \* at which none of their number was being answered
          restarts

chat == <<conversations, conv, turns, context>>
ghosts == <<remembered, before, crowded, left>>
vars == <<job, from, kind, seen, refused, chat, ghosts, restarts>>

None == 0
\* In the order of their first delivery.
Messages == 1 .. MaxMessages
Kinds == {"question", "media", "menu or report", "reset", "other"}
UnderWay == {"refusing", "downloading", "answering", "running", "sending", "apologizing"}

TypeOK ==
    /\ job \in [Messages -> UnderWay \cup {"new", "done", "lost"}]
    /\ from \in [Messages -> Numbers \cup {"none"}] /\ kind \in [Messages -> Kinds \cup {"none"}]
    /\ seen \subseteq Messages /\ refused \subseteq Numbers \ Allowed
    /\ conversations \in [Numbers -> Messages \cup {None}]
    /\ conv \in [Messages -> Messages \cup {None}]
    /\ \A m \in Messages : /\ turns[m] \in Seq(Messages) /\ Len(turns[m]) <= MaxTurns
                           /\ context[m] \in Seq(Messages) /\ Len(context[m]) <= MaxTurns
    /\ remembered \in [Numbers -> SUBSET Messages] /\ before \in [Messages -> SUBSET Messages]
    /\ crowded \subseteq Messages /\ left \subseteq Messages
    /\ restarts \in 0 .. MaxRestarts

Init == /\ job = [m \in Messages |-> "new"]
        /\ from = [m \in Messages |-> "none"] /\ kind = [m \in Messages |-> "none"]
        /\ seen = {} /\ refused = {}
        /\ conversations = [n \in Numbers |-> None] /\ conv = [m \in Messages |-> None]
        /\ turns = [m \in Messages |-> <<>>] /\ context = [m \in Messages |-> <<>>]
        /\ remembered = [n \in Numbers |-> {}] /\ before = [m \in Messages |-> {}]
        /\ crowded = {} /\ left = {} /\ restarts = 0

Goes(m, st) == job' = [job EXCEPT ![m] = st]
-----------------------------------------------------------------------------
(* accept(), and handle() up to its first await *)

Refuse(m, n) == /\ n \notin Allowed
                /\ Goes(m, IF n \in refused THEN "done" ELSE "refusing")
                /\ refused' = refused \cup {n}
                /\ UNCHANGED <<chat, ghosts>>

Given(m, n) == IF conversations[n] = None THEN m ELSE conversations[n]
Rivals(m, n) == {x \in Messages \ {m} : from[x] = n /\ job[x] \in UnderWay /\ conv[x] # Given(m, n)}
\* The messages of n that are over when its conversation is deleted.
Past(n) == LET all == {x \in seen : from[x] = n}
           IN  IF \E x \in all : job[x] \in {"downloading", "answering"} THEN {} ELSE all
First(k) == CASE k = "question" -> "answering"
              [] k = "media" -> "downloading"
              [] k = "menu or report" -> "running"
              [] OTHER -> "sending"

Handle(m, n, k) ==
    /\ n \in Allowed
    /\ Goes(m, First(k))
    /\ conv' = [conv EXCEPT ![m] = Given(m, n)]
    /\ context' = [context EXCEPT ![m] = IF k = "question" THEN turns[Given(m, n)] ELSE <<>>]
    /\ conversations' = IF k = "reset" THEN [conversations EXCEPT ![n] = None] ELSE conversations
    /\ remembered' = IF k = "reset" THEN [remembered EXCEPT ![n] = {}] ELSE remembered
    /\ before' = [before EXCEPT ![m] = remembered[n]]
    /\ crowded' = IF Rivals(m, n) = {} THEN crowded ELSE crowded \cup {m} \cup Rivals(m, n)
    /\ left' = IF k = "reset" THEN left \cup Past(n) ELSE left
    /\ UNCHANGED <<turns, refused>>

\* A delivery of a message that was seen changes nothing. A restart takes the
\* place of a message (bound).
Accept(m) ==
    /\ m \notin seen /\ m + restarts <= MaxMessages
    /\ \A x \in 1 .. m - 1 : job[x] # "new"
    /\ seen' = seen \cup {m}
    /\ \E n \in Numbers, k \in Kinds :
          /\ from[m] \in {"none", n} /\ kind[m] \in {"none", k}
          /\ from' = [from EXCEPT ![m] = n] /\ kind' = [kind EXCEPT ![m] = k]
          /\ Refuse(m, n) \/ Handle(m, n, k)
    /\ UNCHANGED restarts
-----------------------------------------------------------------------------
(* handle() and answer() from there on *)

Quiet == UNCHANGED <<from, kind, seen, refused, restarts>>

\* The turns go along with the question before the recording is transcribed.
Download(m) == /\ job[m] = "downloading"
               /\ Goes(m, "answering")
               /\ context' = [context EXCEPT ![m] = turns[conv[m]]]
               /\ UNCHANGED <<conversations, conv, turns, ghosts>> /\ Quiet

Added(m) == LET all == Append(turns[conv[m]], m)
            IN  SubSeq(all, IF Len(all) > MaxTurns THEN Len(all) - MaxTurns + 1 ELSE 1, Len(all))

\* Mutant: only a new conversation is stored.
StoredIfNew(m) == [conversations EXCEPT ![from[m]] = IF conv[m] = m THEN m ELSE @]

\* Again, when it was forgotten meanwhile.
Stored(m) == [conversations EXCEPT ![from[m]] = conv[m]]

Answer(m) ==
    /\ job[m] = "answering"
    /\ Goes(m, "sending")
    /\ turns' = [turns EXCEPT ![conv[m]] = Added(m)]
    /\ conversations' = Stored(m)
    /\ remembered' = [remembered EXCEPT ![from[m]] = @ \cup {m}]
    /\ UNCHANGED <<conv, context, before, crowded, left>> /\ Quiet

\* The menu is listed, or the report of a template run.
Run(m) == /\ job[m] = "running"
          /\ Goes(m, "sending")
          /\ UNCHANGED <<chat, ghosts>> /\ Quiet

Sent(m) == /\ job[m] \in {"refusing", "sending", "apologizing"}
           /\ Goes(m, "done")
           /\ UNCHANGED <<chat, ghosts>> /\ Quiet

\* What fails is told, except to a number that is not allowed.
Fails(m) == /\ job[m] \in UnderWay
            /\ Goes(m, IF job[m] \in {"refusing", "apologizing"} THEN "done" ELSE "apologizing")
            /\ UNCHANGED <<chat, ghosts>> /\ Quiet

\* Half an hour after the last answer, or when others push it out.
Expire(n) == /\ conversations[n] # None
             /\ conversations' = [conversations EXCEPT ![n] = None]
             /\ remembered' = [remembered EXCEPT ![n] = {}]
             /\ left' = left \cup Past(n)
             /\ UNCHANGED <<job, conv, turns, context, before, crowded>> /\ Quiet

\* Everything is in memory.
Restart == /\ restarts < MaxRestarts /\ job[MaxMessages] = "new"
           /\ restarts' = restarts + 1
           /\ job' = [m \in Messages |-> IF job[m] \in UnderWay THEN "lost" ELSE job[m]]
           /\ seen' = {} /\ refused' = {}
           /\ conversations' = [n \in Numbers |-> None] /\ conv' = [m \in Messages |-> None]
           /\ turns' = [m \in Messages |-> <<>>] /\ context' = [m \in Messages |-> <<>>]
           /\ remembered' = [n \in Numbers |-> {}] /\ before' = [m \in Messages |-> {}]
           /\ crowded' = {} /\ left' = {}
           /\ UNCHANGED <<from, kind>>

JobStep(m) == Download(m) \/ Answer(m) \/ Run(m) \/ Sent(m) \/ Fails(m)
Next == \/ Restart \/ \E n \in Numbers : Expire(n)
        \/ \E m \in Messages : Accept(m) \/ JobStep(m)

Spec == Init /\ [][Next]_vars
Fairness == \A m \in Messages : WF_vars(JobStep(m))
-----------------------------------------------------------------------------
(* "Follow-ups keep context", and a reset begins "a fresh conversation": a   *)
(* question is sent with the turns of its own number, each once; with every  *)
(* message that was answered before it came, unless the conversation was     *)
(* reset or forgotten since, keeps no more turns, or that message was under  *)
(* way with one of the number in another conversation (two first messages    *)
(* each begin one, and one of them is lost); and with none that was answered *)
(* before a reset or the end of its half hour, unless one of the number was  *)
(* being answered then, whose answer stores the old conversation again.      *)
FollowUpSeesHistory ==
    \A m \in Messages : job[m] = "answering" =>
        /\ IsInjective(context[m])
        /\ \A x \in ToSet(context[m]) : from[x] = from[m] /\ x # m
        /\ Len(context[m]) < MaxTurns => before[m] \ crowded \subseteq ToSet(context[m])
        /\ ToSet(context[m]) \cap left = {}

(* Every message that is accepted is answered or given up, whatever fails.   *)
Handled == \A m \in Messages : job[m] \notin UnderWay
=============================================================================
