---------------------------- MODULE ReportInbox ----------------------------
(* reports/inbox.service.ts on the server and checkInbox() of the phone's   *)
(* lib/notifications.ts: reports are filed in an inbox, and the phone asks  *)
(* for those newer than the newest it has seen, every minute while the app  *)
(* is open and now and then in the background, to notify of each.           *)
(*                                                                          *)
(* The document's store is JsonStore, of which only the order matters here: *)
(* add() takes the time and its turn in the store in one step, and what it  *)
(* adds can be listed before it is written. Times are milliseconds, those   *)
(* of the phone the server's. Reports are known by their numbers in the     *)
(* order they were filed, which is that of every list of them: so a list,   *)
(* newest first, is the set of its reports. What is read and unread is left *)
(* out, and so are builds that get remote push instead of local             *)
(* notifications.                                                           *)
EXTENDS Integers, Sequences, FiniteSets

CONSTANTS MaxReports,
          MaxTime,
          Keep,      \* KEEP: reports the inbox holds
          Limit,     \* reports one answer lists
          Shown,     \* notifications one check shows
          Checks,    \* who checks: the open app, the background task
          MaxFaults  \* notifications that fail, and ends of the phone's process

BoundsAssumption == /\ {MaxReports, MaxTime, Keep, Limit, Shown} \subseteq Nat \ {0}
                           /\ MaxFaults \in Nat

VARIABLES clock,
          createdAt, \* of the reports, in the order they were filed
          inbox,     \* the reports kept
          lastSeen,  \* SEEN_KEY: a time, or Never
          check,     \* of each checker: its step, the lastSeen it read, what it
                     \* was listed, what it has still to notify of
          notified,  \* the reports whose notification was shown
          start,     \* the time the first check saved
          faults

vars == <<clock, createdAt, inbox, lastSeen, check, notified, start, faults>>

Never == 0
Reports == 1 .. Len(createdAt)
Times == 1 .. MaxTime
NoCheck == [st |-> "idle", since |-> Never, listed |-> {}, left |-> {}]

TypeOK ==
    /\ clock \in Times
    /\ createdAt \in Seq(Times) /\ Len(createdAt) <= MaxReports
    /\ inbox \subseteq Reports /\ Cardinality(inbox) <= Keep
    /\ lastSeen \in Times \cup {Never} /\ start \in Times \cup {Never}
    /\ check \in [Checks -> [st : {"idle", "asking", "listed", "notifying"}, since : Times \cup {Never},
                              listed : SUBSET Reports, left : SUBSET Reports]]
    /\ \A c \in Checks : Cardinality(check[c].listed) <= Limit /\ Cardinality(check[c].left) <= Shown
    /\ notified \subseteq Reports
    /\ faults \in 0 .. MaxFaults

Init == /\ clock = 1 /\ createdAt = <<>> /\ inbox = {}
        /\ lastSeen = Never /\ start = Never /\ notified = {}
        /\ check = [c \in Checks |-> NoCheck]
        /\ faults = 0

Tick == /\ clock < MaxTime
        /\ clock' = clock + 1
        /\ UNCHANGED <<createdAt, inbox, lastSeen, check, notified, start, faults>>
-----------------------------------------------------------------------------
(* The server *)

Smaller(m, n) == IF m < n THEN m ELSE n
\* The first n of a list.
FirstOf(list, n) == {r \in list : Cardinality({newer \in list : newer > r}) < n}

Add == /\ Len(createdAt) < MaxReports
       /\ createdAt' = Append(createdAt, clock)
       /\ inbox' = FirstOf(inbox \cup {Len(createdAt) + 1}, Keep)
       /\ UNCHANGED <<clock, lastSeen, check, notified, start, faults>>

RemoveReport == /\ \E r \in inbox : inbox' = inbox \ {r}
                /\ UNCHANGED <<clock, createdAt, lastSeen, check, notified, start, faults>>

Newer(r, time) == time = Never \/ createdAt[r] > time
List(since) == FirstOf({r \in inbox : Newer(r, since)}, Limit)
-----------------------------------------------------------------------------
(* checkInbox() *)

Check(c) == /\ check[c].st = "idle"
            /\ check' = [check EXCEPT ![c] = [NoCheck EXCEPT !.st = "asking", !.since = lastSeen]]
            /\ UNCHANGED <<clock, createdAt, inbox, lastSeen, notified, start, faults>>

Listed(c) == /\ check[c].st = "asking"
             /\ check' = [check EXCEPT ![c].st = "listed", ![c].listed = List(check[c].since)]
             /\ UNCHANGED <<clock, createdAt, inbox, lastSeen, notified, start, faults>>

\* Offline: the next check asks for the same.
Offline(c) == /\ check[c].st = "asking"
              /\ check' = [check EXCEPT ![c] = NoCheck]
              /\ UNCHANGED <<clock, createdAt, inbox, lastSeen, notified, start, faults>>

NewestOf(times) == CHOOSE t \in times : \A u \in times : u <= t
Newest(c) == NewestOf({createdAt[r] : r \in check[c].listed} \cup
                      {IF check[c].since = Never THEN clock ELSE check[c].since})

\* The newest is saved, and then each new report notified of, oldest first. A
\* phone's first check only remembers the time.
SaveSeen(c) ==
    /\ check[c].st = "listed"
    /\ lastSeen' = Newest(c)
    /\ LET new == IF check[c].since = Never THEN {} ELSE check[c].listed
       IN  check' = [check EXCEPT ![c] = [NoCheck EXCEPT !.st = "notifying", !.left = FirstOf(new, Shown)]]
    /\ start' = IF check[c].since = Never /\ start < Newest(c) THEN Newest(c) ELSE start
    /\ UNCHANGED <<clock, createdAt, inbox, notified, faults>>

Notify(c) == /\ check[c].st = "notifying"
             /\ \E r \in check[c].left :
                   /\ \A other \in check[c].left : r <= other
                   /\ notified' = notified \cup {r}
                   /\ check' = [check EXCEPT ![c].left = @ \ {r}]
             /\ UNCHANGED <<clock, createdAt, inbox, lastSeen, start, faults>>

\* The rest is not notified of.
NotifyFails(c) == /\ check[c].st = "notifying"
                  /\ check[c].left # {}
                  /\ faults < MaxFaults
                  /\ faults' = faults + 1
                  /\ check' = [check EXCEPT ![c] = NoCheck]
                  /\ UNCHANGED <<clock, createdAt, inbox, lastSeen, notified, start>>

EndCheck(c) == /\ check[c].st = "notifying"
               /\ check[c].left = {}
               /\ check' = [check EXCEPT ![c] = NoCheck]
               /\ UNCHANGED <<clock, createdAt, inbox, lastSeen, notified, start, faults>>

\* The phone's process ends.
Kill == /\ faults < MaxFaults
        /\ faults' = faults + 1
        /\ check' = [c \in Checks |-> NoCheck]
        /\ UNCHANGED <<clock, createdAt, inbox, lastSeen, notified, start>>

CheckStep(c) == Listed(c) \/ Offline(c) \/ SaveSeen(c) \/ Notify(c) \/ NotifyFails(c) \/ EndCheck(c)
Next == Tick \/ Add \/ RemoveReport \/ Kill \/ \E c \in Checks : Check(c) \/ CheckStep(c)

Spec == Init /\ [][Next]_vars
-----------------------------------------------------------------------------
(* "New reports since the last check": the time the phone remembers never   *)
(* passes a report that was not notified of, although the app and the       *)
(* background task check at once and save in either order. Exempt are what  *)
(* was filed before the phone's first check, in the same millisecond as     *)
(* another report, or with more after it than one answer lists or one check *)
(* shows; and notifications that fail or are cut off are not shown again.   *)
NonePassedOver ==
    faults = 0 => \A r \in inbox :
        createdAt[r] <= lastSeen /\ createdAt[r] > start =>
            \/ r \in notified \/ \E c \in Checks : r \in check[c].left
            \/ \E other \in Reports \ {r} : createdAt[other] = createdAt[r]
            \/ Cardinality({other \in Reports : createdAt[other] > createdAt[r]}) >= Smaller(Limit, Shown)
=============================================================================
