------------------------------- MODULE ChatList -------------------------------
(* state/chat-reducer.ts of the phone app, and what chats.tsx and            *)
(* components/Details.tsx read from it: the conversations, their order, the  *)
(* open one, each answer as its events come, the turns a follow-up is asked  *)
(* with, and the totals. The requests behind the answers and the store are   *)
(* in MobileChats; here any event may come. A text is the number of pieces   *)
(* it was streamed in; a question is its number, 0 when nothing was typed.   *)
EXTENDS Integers, Sequences, FiniteSets, SequencesExt, Functions

CONSTANTS Ids, MaxAsks, MaxPieces, Limit, Tokens

ListAssumption == {MaxAsks, MaxPieces, Limit, Tokens} \subseteq Nat \ {0} /\ IsFiniteSet(Ids)

VARIABLES hydrated, conversations, order, activeId, now

vars == <<hydrated, conversations, order, activeId, now>>

NoId == "none"
Exists == DOMAIN conversations
Asked(q, at) == [question |-> q, at |-> at, status |-> "pending", text |-> 0, details |-> {}]
Details == [prompt : {0, Tokens}, completion : {Tokens}]

TypeOK ==
    /\ hydrated \in BOOLEAN /\ activeId \in Ids \cup {NoId} /\ now \in 0 .. MaxAsks
    /\ Exists \subseteq Ids /\ order \in Seq(Ids)
    /\ \A c \in Exists : /\ conversations[c].updatedAt \in 1 .. MaxAsks /\ conversations[c].title \in 0 .. MaxAsks
                         /\ \A m \in ToSet(conversations[c].messages) :
                               /\ m.question \in 0 .. MaxAsks /\ m.at \in 1 .. MaxAsks
                               /\ m.status \in {"pending", "done", "error", "stopped"}
                               /\ m.text \in 0 .. MaxPieces /\ m.details \subseteq Details

Init == hydrated = FALSE /\ conversations = <<>> /\ order = <<>> /\ activeId = NoId /\ now = 0

With(c, chat) == [x \in Exists \cup {c} |-> IF x = c THEN chat ELSE conversations[x]]
\* filter() by the positions it keeps, and sort(): the n-th has n that are as new.
Only(list, kept) == [n \in 1 .. Cardinality(kept) |-> list[CHOOSE i \in kept : Cardinality({j \in kept : j <= i}) = n]]
Others(c) == Only(order, {i \in DOMAIN order : order[i] # c})
newestFirst(chats) ==
    [n \in 1 .. Cardinality(DOMAIN chats) |->
        CHOOSE c \in DOMAIN chats : Cardinality({x \in DOMAIN chats : chats[x].updatedAt >= chats[c].updatedAt}) = n]
updateMessage(c, i, m) == conversations' = [conversations EXCEPT ![c].messages[i] = m]
-----------------------------------------------------------------------------

\* What the store read: conversations of before, none of them pending
\* (MobileChats has those).
Hydrate == /\ ~hydrated
           /\ hydrated' = TRUE
           /\ \E read \in SUBSET Ids :
                  LET ids == SetToSeq(read)
                      chats == [c \in read |-> LET k == CHOOSE n \in DOMAIN ids : ids[n] = c
                             IN [updatedAt |-> k, title |-> k, messages |-> <<[Asked(k, k) EXCEPT !.status = "done", !.text = 1]>>]]
                  IN  now' = Len(ids) /\ conversations' = chats /\ order' = newestFirst(chats)
           /\ UNCHANGED activeId

New == activeId # NoId /\ activeId' = NoId /\ UNCHANGED <<hydrated, conversations, order, now>>
Select(c) == /\ c \in Exists /\ activeId # c
             /\ activeId' = c /\ UNCHANGED <<hydrated, conversations, order, now>>

Delete(c) == /\ c \in Exists
             /\ conversations' = [x \in Exists \ {c} |-> conversations[x]]
             /\ order' = Others(c)
             /\ activeId' = IF activeId = c THEN NoId ELSE activeId
             /\ UNCHANGED <<hydrated, now>>

touch(c) == <<c>> \o Others(c)

\* In the open conversation, or in a new one; the splash screen is up until then.
Ask(typed) ==
    /\ hydrated /\ now < MaxAsks
    /\ LET fresh == Ids \ Exists
           c == IF activeId # NoId THEN activeId ELSE CHOOSE x \in fresh : TRUE
           q == IF typed THEN now + 1 ELSE 0
           message == Asked(q, now + 1)
       IN  /\ activeId # NoId \/ fresh # {}
           /\ now' = now + 1
           /\ conversations' = With(c, IF c \in Exists
                  THEN [conversations[c] EXCEPT !.updatedAt = now + 1, !.messages = Append(@, message)]
                  ELSE [updatedAt |-> now + 1, title |-> q, messages |-> <<message>>])
           /\ order' = touch(c) /\ activeId' = c
    /\ UNCHANGED hydrated

Retry(c, i) == /\ conversations[c].messages[i].status \in {"done", "error", "stopped"}
               /\ updateMessage(c, i, Asked(conversations[c].messages[i].question, conversations[c].messages[i].at))
               /\ UNCHANGED <<hydrated, order, activeId, now>>

\* delta and reset; after Stop they change nothing.
Stream(c, i) == LET m == conversations[c].messages[i]
                IN  /\ m.status = "pending"
                    /\ \/ m.text < MaxPieces /\ updateMessage(c, i, [m EXCEPT !.text = @ + 1])
                       \/ updateMessage(c, i, [m EXCEPT !.text = 0])

Events(c, i) == Stream(c, i) /\ UNCHANGED <<hydrated, order, activeId, now>>

\* What was heard, or read from a photo, becomes the question, and the title
\* there is none of.
Answer(c, i) == LET m == conversations[c].messages[i]
                IN  \E heard \in {0, m.at}, details \in Details :
                        LET q == IF heard # 0 THEN heard ELSE m.question
                        IN  /\ conversations' = [conversations EXCEPT
                                   ![c].messages[i] = [m EXCEPT !.question = q, !.status = "done", !.text = 1, !.details = {details}],
                                   ![c].title = IF @ = 0 THEN heard ELSE @]
                            /\ UNCHANGED <<hydrated, order, activeId, now>>

Fail(c, i) == \E status \in {"error", "stopped"} :
                  /\ updateMessage(c, i, [conversations[c].messages[i] EXCEPT !.status = status])
                  /\ UNCHANGED <<hydrated, order, activeId, now>>

\* An answer or a failure is of a request, so its message is pending.
Settles(c, i) == conversations[c].messages[i].status = "pending" /\ (Answer(c, i) \/ Fail(c, i))

Next == \/ Hydrate \/ New \/ \E typed \in BOOLEAN : Ask(typed)
        \/ \E c \in Ids : Select(c) \/ Delete(c)
        \/ \E c \in Exists : \E i \in DOMAIN conversations[c].messages : Retry(c, i) \/ Events(c, i) \/ Settles(c, i)
-----------------------------------------------------------------------------
(* Read from the state *)

LastOf(s, n) == SubSeq(s, IF Len(s) > n THEN Len(s) - n + 1 ELSE 1, Len(s))

\* i is the message that is asked again, and past the last one for a new question.
contextFor(messages, i) == LastOf(Only(messages, {k \in 1 .. i - 1 : messages[k].status = "done" /\ messages[k].question # 0}), Limit)

usageTotals(messages) ==
    LET answered == SelectSeq(messages, LAMBDA m : m.details # {})
        prompt == FoldLeft(LAMBDA n, m : n + (CHOOSE d \in m.details : TRUE).prompt, 0, answered)
        completion == FoldLeft(LAMBDA n, m : n + (CHOOSE d \in m.details : TRUE).completion, 0, answered)
    IN  [prompt |-> prompt, completion |-> completion, tokens |-> prompt + completion, answers |-> Len(answered)]

\* Media time is within model time; what none accounts for is the rest.
TimeSplit(total, model, db, media) ==
    LET atLeast0(n) == IF n < 0 THEN 0 ELSE n
    IN  [model |-> atLeast0(model - media), db |-> db, media |-> media,
         other |-> atLeast0(total - atLeast0(model - media) - db - media)]
-----------------------------------------------------------------------------
(* The list shows each conversation once, the last one asked in first,       *)
(* whatever is asked, asked again, deleted or answered in the meantime, and  *)
(* the open conversation is one of them.                                     *)
ListInOrder ==
    /\ ToSet(order) = Exists /\ Len(order) = Cardinality(Exists)
    /\ \A i, j \in DOMAIN order : i < j => conversations[order[i]].updatedAt > conversations[order[j]].updatedAt
    /\ activeId \in Exists \cup {NoId}

(* A question is asked with answers that were there before it and that the   *)
(* user did not stop, the nearest ones, oldest first; asking an earlier one  *)
(* again does not let it see what came later.                                *)
ContextIsBefore ==
    \A c \in Exists :
        LET ms == conversations[c].messages
        IN  \A i \in 1 .. Len(ms) + 1 :
                LET turns == contextFor(ms, i)
                IN  /\ Len(turns) <= Limit
                    /\ \A k \in DOMAIN turns : /\ turns[k].status = "done"
                                               /\ i <= Len(ms) => turns[k].at < ms[i].at
                                               /\ k > 1 => turns[k - 1].at < turns[k].at
                    /\ \A k \in 1 .. i - 1 : ms[k].status = "done" /\ ms[k].question # 0 =>
                           ms[k] \in ToSet(turns) \/ (Len(turns) = Limit /\ ms[k].at < turns[1].at)

(* An answer that is not being waited for changes only by being asked again: *)
(* events that come late leave it alone. (Of steps.)                         *)
SettledStays ==
    \A c \in Exists : c \in DOMAIN conversations' =>
        \A i \in DOMAIN conversations[c].messages :
            conversations[c].messages[i].status # "pending" =>
                conversations'[c].messages[i] = conversations[c].messages[i] \/ conversations'[c].messages[i].status = "pending"
=============================================================================
