-------------------------- MODULE JsonStoreProofs --------------------------
(* Proofs about common/json-store.ts, for any set of updates and any       *)
(* number of crashes and failing file operations.                          *)
EXTENDS JsonStore, TLAPS

\* Inv is inductive. Chain gives the one writer, and every other part rests on
\* it: while an update is between fn and rename nobody else moves value or tmp.
Past == {"applied", "writing", "written", "renamed"}
Unpublished == {"none", "queued", "reading", "applied", "writing", "written"}

\* A running update has the least place of those in the chain, and no two
\* share a place.
Chain == \A u, v \in Updates :
            /\ pc[u] \in Running /\ pc[v] \in InFlight => place[u] <= place[v]
            /\ pc[u] \in InFlight /\ pc[v] \in InFlight /\ place[u] = place[v] => u = v

\* The one readFile returns the file as it still is, and nobody is past
\* read() before the document is loaded.
Loading == /\ reads \subseteq {file.doc}
           /\ reads # {} => loading = "pending"
           /\ loading # "loaded" => \A u \in Updates : pc[u] \notin Past

\* What is on its way to the file: memory, whole.
Writing == \A u \in Updates :
              /\ pc[u] \in Past => u \in value
              /\ pc[u] \in {"writing", "written"} => tmp.doc = value
              /\ pc[u] = "written" => tmp.whole

Published == \A u \in Updates :
                /\ pc[u] \in {"renamed", "done"} => u \in file.doc
                /\ pc[u] \in Unpublished => u \notin file.doc

Inv == /\ TypeOK
       /\ Chain
       /\ Loading
       /\ Writing
       /\ Published
       /\ NeverTorn
       /\ MemoryAccounted
-----------------------------------------------------------------------------
\* The types hold at the start and are kept by every step.
LEMMA Typing == /\ Init => TypeOK
                /\ TypeOK /\ [Next]_vars => TypeOK'
<1> USE DEF TypeOK, Files, Stages, InFlight, Running
<1>1. Init => TypeOK
  BY DEF Init
<1>2. ASSUME TypeOK, [Next]_vars PROVE TypeOK'
  <2> USE <1>2
  <2>1. CASE StartRead
    BY <2>1 DEF StartRead
  <2>2. CASE ReadFile
    BY <2>2 DEF ReadFile
  <2>3. CASE ReadFails
    BY <2>3 DEF ReadFails, Fault
  <2>4. ASSUME NEW u \in Updates, Call(u) PROVE TypeOK'
    BY <2>4 DEF Call, Go
  <2>5. ASSUME NEW u \in Updates, Begin(u) PROVE TypeOK'
    BY <2>5 DEF Begin, Go
  <2>6. ASSUME NEW u \in Updates, UpdateStep(u) PROVE TypeOK'
    <3>1. CASE Apply(u)
      BY <3>1 DEF Apply, Go
    <3>2. CASE LoadRejects(u)
      BY <3>2 DEF LoadRejects, Go
    <3>3. CASE StartWrite(u)
      BY <3>3 DEF StartWrite, Go
    <3>4. CASE EndWrite(u)
      BY <3>4 DEF EndWrite, Go
    <3>5. CASE Rename(u)
      BY <3>5 DEF Rename, Go
    <3>6. CASE Return(u)
      BY <3>6 DEF Return, Go
    <3>7. CASE WriteFails(u)
      BY <3>7 DEF WriteFails, Go, Fault
    <3> QED
      BY <2>6, <3>1, <3>2, <3>3, <3>4, <3>5, <3>6, <3>7 DEF UpdateStep
  <2>7. CASE Crash
    BY <2>7 DEF Crash
  <2>8. CASE UNCHANGED vars
    BY <2>8 DEF vars
  <2> QED
    BY <2>1, <2>2, <2>3, <2>4, <2>5, <2>6, <2>7, <2>8 DEF Next
<1> QED
  BY <1>1, <1>2

\* Every variable keeps its type.
THEOREM TypeCorrect == Spec => []TypeOK
BY Typing, PTL DEF Spec
-----------------------------------------------------------------------------
\* What Chain is for: two running updates would each have the lesser place.
LEMMA ChainSerializes == TypeOK /\ Chain => OneWriter
BY DEF TypeOK, Chain, OneWriter, InFlight, Running

LEMMA InitInv == Init => Inv
<1> SUFFICES ASSUME Init PROVE Inv
  OBVIOUS
<1>1. TypeOK
  BY Typing
<1>2. Chain /\ Loading /\ Writing /\ Published
  BY DEF Init, Chain, Loading, Writing, Published, Past, Unpublished, Running, InFlight
<1>3. NeverTorn /\ MemoryAccounted
  BY DEF Init, NeverTorn, MemoryAccounted
<1> QED
  BY <1>1, <1>2, <1>3 DEF Inv

\* The queue: a new call takes a place after all others, and only the update
\* with the least place begins.
LEMMA ChainStep == TypeOK /\ Chain /\ [Next]_vars => Chain'
<1> SUFFICES ASSUME TypeOK, Chain, [Next]_vars PROVE Chain'
  OBVIOUS
<1> USE DEF TypeOK, Chain, InFlight, Running
<1>1. CASE StartRead \/ ReadFile \/ ReadFails \/ UNCHANGED vars
  BY <1>1 DEF StartRead, ReadFile, ReadFails, vars
<1>2. ASSUME NEW u \in Updates, Call(u) PROVE Chain'
  <2>1. \A v \in Updates : place[v] < calls + 1
    OBVIOUS
  <2> QED
    BY <1>2, <2>1 DEF Call, Go
<1>3. ASSUME NEW u \in Updates, Begin(u) PROVE Chain'
  BY <1>3 DEF Begin, Go
<1>4. ASSUME NEW u \in Updates, UpdateStep(u) PROVE Chain'
  <2>1. /\ place' = place
        /\ \E stage \in Stages \ {"queued"} : pc[u] \in Running /\ Go(u, stage)
    BY <1>4 DEF UpdateStep, Apply, LoadRejects, StartWrite, EndWrite, Rename, Return,
                WriteFails, Go, Stages
  <2> QED
    BY <2>1 DEF Go
<1>5. CASE Crash
  BY <1>5 DEF Crash
<1> QED
  BY <1>1, <1>2, <1>3, <1>4, <1>5 DEF Next
-----------------------------------------------------------------------------
\* The document: what one step of the code does to memory and the two files.
LEMMA DocumentStep ==
    Inv /\ [Next]_vars => (Loading /\ Writing /\ Published /\ NeverTorn /\ MemoryAccounted)'
<1> SUFFICES ASSUME Inv, [Next]_vars
             PROVE (Loading /\ Writing /\ Published /\ NeverTorn /\ MemoryAccounted)'
  OBVIOUS
<1>0. TypeOK /\ Loading /\ Writing /\ Published /\ NeverTorn /\ MemoryAccounted /\ OneWriter
  BY ChainSerializes DEF Inv
<1> USE <1>0 DEF Running, Past, Unpublished
<1>1. CASE StartRead
  <2>1. Loading'
    BY <1>1 DEF StartRead, Loading
  <2>2. (Writing /\ Published /\ NeverTorn /\ MemoryAccounted)'
    BY <1>1 DEF StartRead, Writing, Published, NeverTorn, MemoryAccounted
  <2> QED
    BY <2>1, <2>2
<1>2. CASE ReadFile
  <2>1. value' = file.doc /\ reads' = {} /\ \A u \in Updates : pc[u] \notin Past
    BY <1>2 DEF ReadFile, Loading
  <2>2. (Loading /\ Writing)'
    BY <1>2, <2>1 DEF ReadFile, Loading, Writing
  <2>3. (Published /\ NeverTorn /\ MemoryAccounted)'
    BY <1>2, <2>1 DEF ReadFile, Published, NeverTorn, MemoryAccounted
  <2> QED
    BY <2>2, <2>3
<1>3. CASE ReadFails
  BY <1>3 DEF ReadFails, Loading, Writing, Published, NeverTorn, MemoryAccounted
<1>4. ASSUME NEW u \in Updates, Call(u) \/ Begin(u)
      PROVE (Loading /\ Writing /\ Published /\ NeverTorn /\ MemoryAccounted)'
  <2>1. /\ UNCHANGED <<file, tmp, value, loading, reads>>
        /\ \E stage \in {"queued", "reading"} : pc[u] \in {"none", "queued"} /\ Go(u, stage)
    BY <1>4 DEF Call, Begin
  <2> QED
    BY <2>1 DEF Go, TypeOK, Loading, Writing, Published, NeverTorn, MemoryAccounted
<1>5. ASSUME NEW u \in Updates, UpdateStep(u)
      PROVE (Loading /\ Writing /\ Published /\ NeverTorn /\ MemoryAccounted)'
  \* The others stand still, and none of them is past its turn.
  <2>1. /\ \A v \in Updates \ {u} : pc'[v] = pc[v] /\ pc[v] \notin Running
        /\ pc[u] \in Running
    BY <1>5 DEF TypeOK, OneWriter, UpdateStep, Apply, LoadRejects, StartWrite, EndWrite,
                Rename, Return, WriteFails, Go
  <2> USE <2>1 DEF TypeOK, Files, Go
  <2>2. CASE Apply(u)
    BY <2>2 DEF Apply, Loading, Writing, Published, NeverTorn, MemoryAccounted
  <2>3. CASE LoadRejects(u)
    BY <2>3 DEF LoadRejects, Loading, Writing, Published, NeverTorn, MemoryAccounted
  <2>4. CASE StartWrite(u)
    BY <2>4 DEF StartWrite, Loading, Writing, Published, NeverTorn, MemoryAccounted
  <2>5. CASE EndWrite(u)
    BY <2>5 DEF EndWrite, Loading, Writing, Published, NeverTorn, MemoryAccounted
  <2>6. CASE Rename(u)
    \* The file becomes what memory is: every update in it is published or
    \* was reported as failed.
    <3>1. /\ loading = "loaded" /\ reads = {} /\ file'.doc = value /\ file'.whole
          /\ u \in value /\ file.doc \subseteq value
      BY <2>6 DEF Rename, Loading, Writing, MemoryAccounted
    <3>2. (Loading /\ Writing /\ NeverTorn /\ MemoryAccounted)'
      BY <2>6, <3>1 DEF Rename, Loading, Writing, NeverTorn, MemoryAccounted
    <3>3. Published'
      BY <2>6, <3>1 DEF Rename, Published, MemoryAccounted
    <3> QED
      BY <3>2, <3>3
  <2>7. CASE Return(u)
    BY <2>7 DEF Return, Loading, Writing, Published, NeverTorn, MemoryAccounted
  <2>8. CASE WriteFails(u)
    BY <2>8 DEF WriteFails, Fault, Loading, Writing, Published, NeverTorn, MemoryAccounted
  <2> QED
    BY <1>5, <2>2, <2>3, <2>4, <2>5, <2>6, <2>7, <2>8 DEF UpdateStep
<1>6. CASE Crash
  BY <1>6 DEF Crash, TypeOK, InFlight, Loading, Writing, Published, NeverTorn, MemoryAccounted
<1>7. CASE UNCHANGED vars
  BY <1>7 DEF vars, Loading, Writing, Published, NeverTorn, MemoryAccounted
<1> QED
  BY <1>1, <1>2, <1>3, <1>4, <1>5, <1>6, <1>7 DEF Next

LEMMA InvHolds == Spec => []Inv
<1>1. Inv /\ [Next]_vars => Inv'
  BY Typing, ChainStep, DocumentStep DEF Inv
<1> QED
  BY InitInv, <1>1, PTL DEF Spec
-----------------------------------------------------------------------------
\* "Writes serialized so concurrent updates cannot interleave."
THEOREM WritesSerialized == Spec => []OneWriter
<1>1. Inv => OneWriter
  BY ChainSerializes DEF Inv
<1> QED
  BY <1>1, InvHolds, PTL

\* "A crash never leaves half a file": the file is whole in every state.
THEOREM FileWhole == Spec => []NeverTorn
<1>1. Inv => NeverTorn
  BY DEF Inv
<1> QED
  BY <1>1, InvHolds, PTL

\* An update whose caller was answered is in the file from then on.
THEOREM AckedDurable == Spec => []AckedSurvive
<1>1. Inv => AckedSurvive
  BY DEF Inv, Published, AckedSurvive
<1> QED
  BY <1>1, InvHolds, PTL

\* Memory shows nothing beyond the file but the update being written and
\* updates reported as failed.
THEOREM MemoryBounded == Spec => []MemoryAccounted
<1>1. Inv => MemoryAccounted
  BY DEF Inv
<1> QED
  BY <1>1, InvHolds, PTL
-----------------------------------------------------------------------------
(* The store implements the durable document. *)

\* Outcome changes only where a caller hears something.
LEMMA OutcomeStep ==
    ASSUME NEW u \in Updates, NEW stage \in Stages, TypeOK, Go(u, stage)
    PROVE  Outcome' = [Outcome EXCEPT ![u] = IF stage \in InFlight THEN "called"
                                             ELSE IF stage = "done" THEN "ok"
                                             ELSE IF stage = "failed" THEN "rejected"
                                             ELSE stage]
BY DEF Outcome, TypeOK, Go, InFlight, Running, Stages

\* Every step of the store is a step of the document or none.
LEMMA Refines == Inv /\ [Next]_vars => [Durable!DocNext]_Durable!docVars
<1> SUFFICES ASSUME Inv, [Next]_vars PROVE [Durable!DocNext]_Durable!docVars
  OBVIOUS
<1>0. TypeOK /\ Published /\ MemoryAccounted /\ Loading /\ Writing
  BY DEF Inv
<1> USE <1>0 DEF TypeOK, Running, InFlight, Stages
<1>1. CASE StartRead \/ ReadFile \/ ReadFails \/ UNCHANGED vars
  <2>1. UNCHANGED <<file, pc>>
    BY <1>1 DEF StartRead, ReadFile, ReadFails, vars
  <2> QED
    BY <2>1 DEF Outcome, Durable!docVars
<1>2. ASSUME NEW u \in Updates, Call(u) PROVE Durable!DocCall(u)
  BY <1>2, OutcomeStep DEF Call, Outcome, Durable!DocCall
<1>3. ASSUME NEW u \in Updates, Begin(u) PROVE UNCHANGED Durable!docVars
  <2>1. UNCHANGED file /\ pc[u] \in InFlight /\ Go(u, "reading")
    BY <1>3 DEF Begin
  <2> QED
    BY <2>1 DEF Go, Outcome, Durable!docVars
<1>4. ASSUME NEW u \in Updates, UpdateStep(u) PROVE [Durable!DocNext]_Durable!docVars
  <2>1. CASE Apply(u) \/ StartWrite(u) \/ EndWrite(u)
    <3>1. UNCHANGED file /\ \E stage \in Running : pc[u] \in Running /\ Go(u, stage)
      BY <2>1 DEF Apply, StartWrite, EndWrite
    <3> QED
      BY <3>1 DEF Go, Outcome, Durable!docVars
  <2>2. CASE Rename(u)
    <3>1. UNCHANGED Outcome
      BY <2>2 DEF Rename, Go, Outcome
    <3>2. file'.doc = file.doc \cup (value \ file.doc)
      BY <2>2 DEF Rename, Writing, Loading, MemoryAccounted, Past
    <3>3. \A v \in value \ file.doc : Outcome[v] \in {"called", "rejected"}
      BY <2>2 DEF Rename, Loading, MemoryAccounted, Past, Outcome
    <3>4. Durable!DocCommit
      BY <3>1, <3>2, <3>3 DEF Durable!DocCommit
    <3> QED
      BY <3>4 DEF Durable!DocNext
  <2>3. CASE Return(u)
    <3>1. Durable!DocReturn(u)
      BY <2>3, OutcomeStep DEF Return, Published, Outcome, Durable!DocReturn
    <3> QED
      BY <3>1 DEF Durable!DocNext
  <2>4. CASE LoadRejects(u) \/ WriteFails(u)
    <3>1. u \notin file.doc /\ UNCHANGED file /\ Go(u, "failed") /\ Outcome[u] = "called"
      BY <2>4 DEF LoadRejects, WriteFails, Published, Unpublished, Outcome
    <3>2. Durable!DocReject(u)
      BY <3>1, OutcomeStep DEF Outcome, Durable!DocReject
    <3> QED
      BY <3>2 DEF Durable!DocNext
  <2> QED
    BY <1>4, <2>1, <2>2, <2>3, <2>4 DEF UpdateStep
<1>5. CASE Crash
  <2>1. Durable!DocCrash
    BY <1>5 DEF Crash, Outcome, Durable!DocCrash
  <2> QED
    BY <2>1 DEF Durable!DocNext
<1> QED
  BY <1>1, <1>2, <1>3, <1>4, <1>5 DEF Next, Durable!DocNext

\* Callers of update() may rely on what DurableDocument promises.
THEOREM Implements == Spec => IsDurableDocument
<1>1. Init => Durable!DocInit
  BY DEF Init, Outcome, InFlight, Running, Durable!DocInit
<1> QED
  BY <1>1, Refines, InvHolds, PTL DEF Spec, IsDurableDocument, Durable!DocSpec
=============================================================================
