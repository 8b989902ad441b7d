-------------------------- MODULE DurableDocument --------------------------
(* What the JSON files of the server (schedules, inbox, devices, saved     *)
(* report templates) promise their callers, without saying how: a document *)
(* only ever gains updates, a caller is told "ok" only for an update that  *)
(* is in it, and whatever was in it survives the process.                  *)
(*                                                                         *)
(* The promise is weak where the code is weak: an update whose caller was  *)
(* told of a failure may still enter the document later.                   *)
CONSTANT Updates    \* the calls of update(), each with an identity of its own

VARIABLES committed,    \* the updates the document holds
          outcome       \* what the caller of each update has seen

docVars == <<committed, outcome>>

Outcomes == {"none", "called", "ok", "rejected", "lost"}

DocTypeOK == /\ committed \in SUBSET Updates
             /\ outcome \in [Updates -> Outcomes]

DocInit == /\ committed = {}
           /\ outcome = [u \in Updates |-> "none"]

DocCall(u) == /\ outcome[u] = "none"
              /\ outcome' = [outcome EXCEPT ![u] = "called"]
              /\ UNCHANGED committed

\* A step of the document: it gains updates that were asked for. A rejected
\* one may be among them; one whose process died unanswered may not.
DocCommit == /\ \E s \in SUBSET {u \in Updates : outcome[u] \in {"called", "rejected"}} :
                    committed' = committed \cup s
             /\ UNCHANGED outcome

DocReturn(u) == /\ outcome[u] = "called"
                /\ u \in committed
                /\ outcome' = [outcome EXCEPT ![u] = "ok"]
                /\ UNCHANGED committed

DocReject(u) == /\ outcome[u] = "called"
                /\ u \notin committed
                /\ outcome' = [outcome EXCEPT ![u] = "rejected"]
                /\ UNCHANGED committed

\* The process dies: callers that were waiting never hear of their update.
DocCrash == /\ outcome' = [u \in Updates |->
                              IF outcome[u] = "called" THEN "lost" ELSE outcome[u]]
            /\ UNCHANGED committed

DocNext == \/ \E u \in Updates : DocCall(u) \/ DocReturn(u) \/ DocReject(u)
           \/ DocCommit
           \/ DocCrash

DocSpec == DocInit /\ [][DocNext]_docVars
=============================================================================
