----------------------------- MODULE JsonStore -----------------------------
(* common/json-store.ts: a JSON document in a file, read once, changed in  *)
(* memory by update(fn) and then written whole to a temporary file that is *)
(* renamed over it. The schedules, the inbox, the push devices and the     *)
(* saved report templates each live in one.                                *)
(*                                                                         *)
(* The document is the set of updates applied to it. Every call of         *)
(* update() has an identity; the callbacks the server passes never throw.  *)
(* A crash is the process ending at any await: memory is lost, files stay. *)
EXTENDS Integers

CONSTANTS Updates,      \* the calls of update() ever made
          MaxCrashes,   \* bound on process ends
          MaxFaults     \* bound on failing file operations

ASSUME BoundsAssumption == MaxCrashes \in Nat /\ MaxFaults \in Nat

VARIABLES file,     \* the file: its document, and whether all of it is there
          tmp,      \* the temporary file, likewise
          value,    \* this.value: the document in memory
          loading,  \* read(): "none", "pending", "loaded" or "failed"
          reads,    \* what the readFile calls under way will return
          pc,       \* where each update() call is
          place,    \* its place in the promise chain this.queue
          calls,    \* length of that chain
          crashes, faults

vars == <<file, tmp, value, loading, reads, pc, place, calls, crashes, faults>>

\* The stages of update(): waiting for its turn, in read(), fn applied,
\* writeFile under way, written, renamed; then settled one way or the other.
Running == {"reading", "applied", "writing", "written", "renamed"}
InFlight == {"queued"} \cup Running
Stages == {"none", "done", "failed", "lost"} \cup InFlight
Files == [doc : SUBSET Updates, whole : BOOLEAN]

\* Every variable has its type; a call's place is within the chain.
TypeOK == /\ file \in Files
          /\ tmp \in Files
          /\ value \in SUBSET Updates
          /\ loading \in {"none", "pending", "loaded", "failed"}
          /\ reads \in SUBSET SUBSET Updates
          /\ pc \in [Updates -> Stages]
          /\ place \in [Updates -> Nat]
          /\ calls \in Nat
          /\ \A u \in Updates : place[u] <= calls
          /\ crashes \in Nat
          /\ faults \in Nat

\* A file that is missing is an empty document (ENOENT).
Init == /\ file = [doc |-> {}, whole |-> TRUE]
        /\ tmp = [doc |-> {}, whole |-> FALSE]
        /\ value = {}
        /\ loading = "none"
        /\ reads = {}
        /\ pc = [u \in Updates |-> "none"]
        /\ place = [u \in Updates |-> 0]
        /\ calls = 0
        /\ crashes = 0
        /\ faults = 0

Go(u, stage) == pc' = [pc EXCEPT ![u] = stage]

\* A file operation fails: counted, up to the bound.
Fault == /\ faults < MaxFaults
         /\ faults' = faults + 1
-----------------------------------------------------------------------------
(* read() *)

\* Mutant: read() does not look at this.value, and each call reads the file.
StartReadAgain == /\ reads' = reads \cup {file.doc}
                  /\ loading' = "pending"
                  /\ UNCHANGED <<file, tmp, value, pc, place, calls, crashes, faults>>

\* read() by anyone (a list, a get, an update at its turn) before the
\* document is loaded: the first call starts readFile, the rest share it.
StartRead == /\ loading = "none"
             /\ reads' = reads \cup {file.doc}
             /\ loading' = "pending"
             /\ UNCHANGED <<file, tmp, value, pc, place, calls, crashes, faults>>

\* readFile answers: this.value is set.
ReadFile == /\ \E doc \in reads : value' = doc /\ reads' = reads \ {doc}
            /\ loading' = "loaded"
            /\ UNCHANGED <<file, tmp, pc, place, calls, crashes, faults>>

\* Mutant: every error of readFile, not only ENOENT, means an empty document.
ReadFailsEmpty == /\ reads # {}
                  /\ Fault
                  /\ reads' = {}
                  /\ value' = {}
                  /\ loading' = "loaded"
                  /\ UNCHANGED <<file, tmp, pc, place, calls, crashes>>

\* Any other error rejects this.loading, which is kept: from then on every
\* read and every update of this process fails, whatever the disk does.
ReadFails == /\ reads # {}
             /\ Fault
             /\ reads' = {}
             /\ loading' = "failed"
             /\ UNCHANGED <<file, tmp, value, pc, place, calls, crashes>>
-----------------------------------------------------------------------------
(* update(fn) *)

\* Mutant: this.queue is not moved on to the new run.
CallUncounted(u) == /\ pc[u] = "none"
                    /\ place' = [place EXCEPT ![u] = calls + 1]
                    /\ Go(u, "queued")
                    /\ UNCHANGED <<file, tmp, value, loading, reads, calls, crashes, faults>>

\* update() chains its run behind the last one.
Call(u) == /\ pc[u] = "none"
           /\ calls' = calls + 1
           /\ place' = [place EXCEPT ![u] = calls + 1]
           /\ Go(u, "queued")
           /\ UNCHANGED <<file, tmp, value, loading, reads, crashes, faults>>

\* Mutant: update() runs at once instead of after this.queue.
BeginAtOnce(u) == /\ pc[u] = "queued"
                  /\ Go(u, "reading")
                  /\ UNCHANGED <<file, tmp, value, loading, reads, place, calls, crashes, faults>>

\* Mutant: this.queue is the run itself, so a failed one stops the chain.
BeginAfterSuccess(u) ==
    /\ pc[u] = "queued"
    /\ \A v \in Updates : pc[v] \in InFlight \cup {"failed"} => place[u] <= place[v]
    /\ Go(u, "reading")
    /\ UNCHANGED <<file, tmp, value, loading, reads, place, calls, crashes, faults>>

\* The turn of u: every call made before it in this process has settled,
\* resolved or rejected (this.queue is run.catch).
Begin(u) == /\ pc[u] = "queued"
            /\ \A v \in Updates : pc[v] \in InFlight => place[u] <= place[v]
            /\ Go(u, "reading")
            /\ UNCHANGED <<file, tmp, value, loading, reads, place, calls, crashes, faults>>

\* fn(value): the document in memory changes before anything is written.
Apply(u) == /\ pc[u] = "reading"
            /\ loading = "loaded"
            /\ value' = value \cup {u}
            /\ Go(u, "applied")
            /\ UNCHANGED <<file, tmp, loading, reads, place, calls, crashes, faults>>

\* await this.read() rejects: the update never happened.
LoadRejects(u) == /\ pc[u] = "reading"
                  /\ loading = "failed"
                  /\ Go(u, "failed")
                  /\ UNCHANGED <<file, tmp, value, loading, reads, place, calls, crashes, faults>>

\* Mutant: the document is written in place, without a temporary file.
StartWriteInPlace(u) == /\ pc[u] = "applied"
                        /\ tmp' = [doc |-> value, whole |-> FALSE]
                        /\ file' = tmp'
                        /\ Go(u, "writing")
                        /\ UNCHANGED <<value, loading, reads, place, calls, crashes, faults>>

\* writeFile(tmp) truncates the temporary file and starts to fill it.
StartWrite(u) == /\ pc[u] = "applied"
                 /\ tmp' = [doc |-> value, whole |-> FALSE]
                 /\ Go(u, "writing")
                 /\ UNCHANGED <<file, value, loading, reads, place, calls, crashes, faults>>

EndWrite(u) == /\ pc[u] = "writing"
               /\ tmp' = [tmp EXCEPT !.whole = TRUE]
               /\ Go(u, "written")
               /\ UNCHANGED <<file, value, loading, reads, place, calls, crashes, faults>>

\* rename() puts the temporary file, as it is, in the place of the file.
Rename(u) == /\ pc[u] = "written"
             /\ file' = tmp
             /\ Go(u, "renamed")
             /\ UNCHANGED <<tmp, value, loading, reads, place, calls, crashes, faults>>

Return(u) == /\ pc[u] = "renamed"
             /\ Go(u, "done")
             /\ UNCHANGED <<file, tmp, value, loading, reads, place, calls, crashes, faults>>

\* Mutant: the error of a write is swallowed.
WriteFailsQuiet(u) == /\ pc[u] \in {"applied", "writing", "written"}
                      /\ Fault
                      /\ Go(u, "done")
                      /\ UNCHANGED <<file, tmp, value, loading, reads, place, calls, crashes>>

\* mkdir, writeFile or rename fails: the caller is told, memory keeps fn's
\* change and a torn temporary file may stay.
WriteFails(u) == /\ pc[u] \in {"applied", "writing", "written"}
                 /\ Fault
                 /\ Go(u, "failed")
                 /\ UNCHANGED <<file, tmp, value, loading, reads, place, calls, crashes>>
-----------------------------------------------------------------------------
\* The process ends and another starts: it has a temporary file name of its
\* own (the name holds the process id), an empty memory and an empty queue.
Crash == /\ crashes < MaxCrashes
         /\ crashes' = crashes + 1
         /\ tmp' = [doc |-> {}, whole |-> FALSE]
         /\ value' = {}
         /\ loading' = "none"
         /\ reads' = {}
         /\ pc' = [u \in Updates |-> IF pc[u] \in InFlight THEN "lost" ELSE pc[u]]
         /\ place' = [u \in Updates |-> 0]
         /\ calls' = 0
         /\ UNCHANGED <<file, faults>>

\* One step of the update() that is running.
UpdateStep(u) == \/ Apply(u)
                 \/ LoadRejects(u)
                 \/ StartWrite(u)
                 \/ EndWrite(u)
                 \/ Rename(u)
                 \/ Return(u)
                 \/ WriteFails(u)

Next == \/ StartRead
        \/ ReadFile
        \/ ReadFails
        \/ \E u \in Updates : Call(u) \/ Begin(u) \/ UpdateStep(u)
        \/ Crash

Spec == Init /\ [][Next]_vars

\* The event loop runs what is ready and file operations end, one way or the
\* other. Nobody has to call, and nothing has to crash.
Fairness == /\ WF_vars(StartRead)
            /\ WF_vars(ReadFile \/ ReadFails)
            /\ \A u \in Updates : WF_vars(Begin(u)) /\ WF_vars(UpdateStep(u))

FairSpec == Spec /\ Fairness
-----------------------------------------------------------------------------
(* Properties *)

\* "Writes serialized so concurrent updates cannot interleave": at most one
\* update() is between its turn and its answer, so two never share the
\* temporary file.
OneWriter == \A u, v \in Updates : pc[u] \in Running /\ pc[v] \in Running => u = v

\* "A crash never leaves half a file": whenever the process ends, the next
\* one finds a whole document.
NeverTorn == file.whole

\* An update whose caller was answered is in the file, through every later
\* failure, restart and concurrent update.
AckedSurvive == \A u \in Updates : pc[u] = "done" => u \in file.doc

\* What memory serves to readers and the file does not hold is accounted
\* for: the update being written, and updates whose callers were told they
\* failed. (So a reader may see, until the next restart or the next
\* successful update, a change that was reported as failed.)
MemoryAccounted ==
    loading = "loaded" =>
        /\ file.doc \subseteq value
        /\ \A u \in value \ file.doc : pc[u] \in Running \cup {"failed"}

\* Every update() call is answered or dies with its process; one that failed
\* does not hold up those queued behind it.
Settles == \A u \in Updates : pc[u] = "queued" ~> pc[u] \in {"done", "failed", "lost"}

\* What the caller of update() has seen of it.
Outcome == [u \in Updates |-> IF pc[u] \in InFlight THEN "called"
                              ELSE IF pc[u] = "done" THEN "ok"
                              ELSE IF pc[u] = "failed" THEN "rejected"
                              ELSE pc[u]]

Durable == INSTANCE DurableDocument WITH committed <- file.doc, outcome <- Outcome

\* The file behind update() behaves as the durable document its callers rely on.
IsDurableDocument == Durable!DocSpec
=============================================================================
