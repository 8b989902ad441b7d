----------------------------- MODULE PushDevices -----------------------------
(* reports/push.service.ts, the scheduler's notify(), and on the phone       *)
(* registerPush() and what checkInbox() does with PUSH_KEY                   *)
(* (lib/notifications.ts, state/reports.tsx): the devices of one server a    *)
(* report is pushed to, and the phones that leave their own notifications    *)
(* out because they count on the push. The store's updates run one after the *)
(* other (JsonStore); a send reads, posts chunk by chunk, and only then      *)
(* updates. A token is one installation of the app. How a check finds the    *)
(* new reports is ReportInbox.                                               *)
EXTENDS Integers, Sequences, FiniteSets, SequencesExt

CONSTANTS Tokens, Chunk, MaxReports,
          MaxFaults  \* posts that fail, and phones that leave the server or are removed

PushAssumption == Chunk \in Nat \ {0} /\ MaxReports \in Nat /\ MaxFaults \in Nat /\ IsFiniteSet(Tokens)

VARIABLES devices,   \* the store's, in order of registration
          installed, \* the phones that have the app
          known,     \* phones with a PUSH_KEY: registered with this or another server
          reports,   \* filed, and pushed: the step of notify(), the devices it read, how many
                     \* of them are posted, the dead ones, and `enrolled` when it read
          enrolled,  \* stored registrations the server was not told to forget since
          seen,      \* of each phone: how many reports its checks were listed
          leftOut,   \* of each phone: the reports it did not notify of, having a PUSH_KEY
          pushFaults

vars == <<devices, installed, known, reports, enrolled, seen, leftOut, pushFaults>>

Reports == DOMAIN reports
\* filter() by the positions it keeps.
Only(list, kept) == [n \in 1 .. Cardinality(kept) |-> list[CHOOSE i \in kept : Cardinality({j \in kept : j <= i}) = n]]
Without(tokens) == Only(devices, {i \in DOMAIN devices : devices[i] \notin tokens})

TypeOK == /\ devices \in Seq(Tokens)
          /\ installed \subseteq Tokens /\ known \subseteq Tokens /\ enrolled \subseteq Tokens
          /\ Len(reports) <= MaxReports
          /\ \A r \in Reports : /\ reports[r].st \in {"sending", "sent", "failed"} /\ reports[r].to \in Seq(Tokens)
                                /\ reports[r].posted \in 0 .. Len(reports[r].to)
                                /\ reports[r].dead \subseteq ToSet(reports[r].to) /\ reports[r].enrolled \subseteq Tokens
          /\ seen \in [Tokens -> 0 .. Len(reports)]
          /\ leftOut \in [Tokens -> SUBSET Reports]
          /\ pushFaults \in 0 .. MaxFaults

Init == /\ devices = <<>> /\ installed = Tokens /\ known = {} /\ reports = <<>> /\ enrolled = {}
        /\ seen = [t \in Tokens |-> 0] /\ leftOut = [t \in Tokens |-> {}] /\ pushFaults = 0

\* While a report is to come (bound).
Fault == pushFaults < MaxFaults /\ Len(reports) < MaxReports /\ pushFaults' = pushFaults + 1
-----------------------------------------------------------------------------
(* register() and unregister(), and the phone's side of them: each start of  *)
(* the app and each change of server registers again. A request that fails   *)
(* before the server stores it changes nothing.                              *)

register(t) == devices' = Append(Without({t}), t)

\* The phone keeps PUSH_KEY once it is answered, unless the answer is lost.
registerPush(t) == /\ t \in installed
                   /\ register(t) /\ enrolled' = enrolled \cup {t}
                   /\ known' \in {known, known \cup {t}}
                   /\ UNCHANGED <<installed, reports, seen, leftOut, pushFaults>>

\* There is one PUSH_KEY for all the servers.
RegisterElsewhere(t) == /\ t \in installed \ known /\ Fault
                        /\ known' = known \cup {t}
                        /\ UNCHANGED <<devices, installed, reports, enrolled, seen, leftOut>>

unregister(t) == /\ t \in ToSet(devices) /\ Fault
                 /\ devices' = Without({t}) /\ enrolled' = enrolled \ {t}
                 /\ UNCHANGED <<installed, known, reports, seen, leftOut>>

RemoveApp(t) == /\ t \in installed /\ Fault
                /\ installed' = installed \ {t} /\ known' = known \ {t}
                /\ UNCHANGED <<devices, reports, enrolled, seen, leftOut>>

\* With the same token; its first check only remembers the time.
InstallAgain(t) == /\ t \notin installed
                   /\ installed' = installed \cup {t}
                   /\ seen' = [seen EXCEPT ![t] = Len(reports)]
                   /\ UNCHANGED <<devices, known, reports, enrolled, leftOut, pushFaults>>
-----------------------------------------------------------------------------
(* checkInbox(): what it was listed, and then PUSH_KEY.                      *)

Check(t) == /\ t \in installed /\ seen[t] < Len(reports)
            /\ seen' = [seen EXCEPT ![t] = Len(reports)]
            /\ leftOut' = [leftOut EXCEPT ![t] = IF t \in known THEN @ \cup (seen[t] + 1 .. Len(reports)) ELSE @]
            /\ UNCHANGED <<devices, installed, known, reports, enrolled, pushFaults>>
-----------------------------------------------------------------------------
(* notify() and send() *)

\* As soon as the report is filed.
Send == /\ Len(reports) < MaxReports
        /\ reports' = Append(reports, [st |-> IF devices = <<>> THEN "sent" ELSE "sending", to |-> devices,
                                       posted |-> 0, dead |-> {}, enrolled |-> enrolled])
        /\ UNCHANGED <<devices, installed, known, enrolled, seen, leftOut, pushFaults>>

\* The token of a phone without the app may be called dead.
Post(r) ==
    LET from == reports[r].posted + 1
        upTo == IF reports[r].posted + Chunk > Len(reports[r].to) THEN Len(reports[r].to) ELSE reports[r].posted + Chunk
    IN  /\ reports[r].st = "sending" /\ from <= Len(reports[r].to)
        /\ \E dead \in SUBSET ({reports[r].to[i] : i \in from .. upTo} \ installed) :
               reports' = [reports EXCEPT ![r].posted = upTo, ![r].dead = @ \cup dead]
        /\ UNCHANGED <<devices, installed, known, enrolled, seen, leftOut, pushFaults>>

\* Mutant: the list that was read is written back.
ForgetFromRead(r) == SelectSeq(reports[r].to, LAMBDA t : t \notin reports[r].dead)

Forget(r) == Without(reports[r].dead)

\* The dead are forgotten, those too that registered again meanwhile.
Posted(r) == /\ reports[r].st = "sending" /\ reports[r].posted = Len(reports[r].to)
             /\ devices' = Forget(r) /\ enrolled' = enrolled \ reports[r].dead
             /\ reports' = [reports EXCEPT ![r].st = "sent"]
             /\ UNCHANGED <<installed, known, seen, leftOut, pushFaults>>

\* A chunk that is refused, or the end of the process: the rest is not posted.
PostFails(r) == /\ reports[r].st = "sending" /\ Fault
                /\ reports' = [reports EXCEPT ![r].st = "failed"]
                /\ UNCHANGED <<devices, installed, known, enrolled, seen, leftOut>>

Next == \/ Send
        \/ \E t \in Tokens : \/ registerPush(t) \/ RegisterElsewhere(t)
                             \/ unregister(t) \/ RemoveApp(t) \/ InstallAgain(t) \/ Check(t)
        \/ \E r \in Reports : Post(r) \/ Posted(r) \/ PostFails(r)
-----------------------------------------------------------------------------
(* "and then the local copy is skipped": a report a phone left out, counting *)
(* on the push, was posted to it, and once, if its registration was stored   *)
(* before the send read the devices and not taken back (unregister(), or a   *)
(* send's list of dead tokens), and if no post of that send failed. So a     *)
(* registration made while another send is under way is not lost. Left out   *)
(* and not pushed are the reports of a phone that registered after the send  *)
(* read the devices and before its check, or with another server.            *)
PushedOrOwn ==
    /\ \A t \in Tokens : \A r \in leftOut[t] :
          reports[r].st = "sent" /\ t \in reports[r].enrolled => \E i \in 1 .. reports[r].posted : reports[r].to[i] = t
    /\ \A r \in Reports : IsInjective(reports[r].to)
=============================================================================
