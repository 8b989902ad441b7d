-------------------------- MODULE SchedulerProofs --------------------------
(* Proofs about reports/scheduler.service.ts, for any set of schedules,    *)
(* any periods and any number of ticks, requests and failures.             *)
EXTENDS Scheduler, TLAPS, SequenceTheorems

\* A next run is a time.
LEMMA NextRunType == \A f \in Freqs, t \in Nat : NextRun(f, t) \in Nat
<1> TAKE f \in Freqs, t \in Nat
<1>1. f \in Nat \ {0}
  BY FreqsAssumption
<1>2. t \div f \in Nat
  BY <1>1
<1>3. (t \div f) + 1 \in Nat
  BY <1>2
<1> QED
  BY <1>1, <1>3 DEF NextRun

LEMMA PatchedType == \A s \in Schedules, op \in Ops : Patched(s, op) \in Schedules
BY DEF Patched, Ops, Schedules, Keep

\* What becomes of the schedules when an update is applied.
LEMMA AppliedType ==
    ASSUME sched \in [Ids -> Schedules], NEW op \in Ops
    PROVE  Applied(op) \in [Ids -> Schedules]
<1>1. op.sched \in Schedules /\ op.id \in Ids
  BY DEF Ops
<1>2. CASE op.kind = "patch"
  BY <1>2, PatchedType DEF Applied
<1>3. CASE op.kind = "replace"
  BY <1>1, <1>3 DEF Applied
<1>4. CASE op.kind \notin {"patch", "replace"}
  BY <1>1, <1>4 DEF Applied
<1> QED
  BY <1>2, <1>3, <1>4

LEMMA NoScheduleType == AnyFreq \in Freqs /\ NoSchedule \in Schedules
<1>1. AnyFreq \in Freqs
  BY FreqsAssumption DEF AnyFreq
<1> QED
  BY <1>1 DEF NoSchedule, Schedules, None

LEMMA NoRunType == NoRun \in Runs
<1>1. (CHOOSE i \in Ids : TRUE) \in Ids
  BY IdsAssumption
<1> QED
  BY <1>1, NoScheduleType DEF NoRun, Runs, Stages, Keep, None
-----------------------------------------------------------------------------
(* Types *)

\* One application of the queue's head, whatever comes of its write.
LEMMA ResumeType ==
    ASSUME TypeOK, ops # <<>>, Resume(Head(ops).by)
    PROVE  /\ body' \in [stage : {"idle", "loop", "missed", "run"}, now : Nat]
           /\ run' \in [Callers -> Runs]
           /\ running' \subseteq Ids
<1>1. body' \in [stage : {"idle", "loop", "missed", "run"}, now : Nat]
  BY DEF Resume, TypeOK
<1>2. (run' \in [Callers -> Runs]) /\ running' \subseteq Ids
  BY NoRunType DEF Resume, Leave, TypeOK
<1> QED
  BY <1>1, <1>2

LEMMA StartedType ==
    ASSUME Started
    PROVE  /\ ops' \in Seq(Ops) /\ ticks' \in Seq(Nat) /\ running' \subseteq Ids
           /\ body' \in [stage : {"idle", "loop", "missed", "run"}, now : Nat]
           /\ due' \subseteq [id : Ids, freq : Freqs, slot : Nat]
           /\ run' \in [Callers -> Runs]
BY NoRunType DEF Started, NoBody

LEMMA EnqueueType ==
    ASSUME ops \in Seq(Ops), NEW op \in Ops, Enqueue(op)
    PROVE  ops' \in Seq(Ops)
BY DEF Enqueue

LEMMA EnterType ==
    ASSUME TypeOK, NEW c \in Callers, NEW i \in Ids, NEW now \in Nat \cup {Keep},
           NEW slot \in Nat, Enter(c, i, now, slot)
    PROVE  run' \in [Callers -> Runs] /\ running' \subseteq Ids
BY NoRunType DEF TypeOK, Enter, Runs, Stages

LEMMA OnceMoreType ==
    ASSUME NEW S, NEW f \in [S -> Nat], NEW s
    PROVE  [f EXCEPT ![s] = @ + 1] \in [S -> Nat]
<1>1. CASE s \in S
  <2>1. f[s] + 1 \in Nat
    <3>1. f[s] \in Nat
      BY <1>1
    <3> QED
      BY <3>1
  <2> QED
    BY <2>1
<1>2. CASE s \notin S
  BY <1>2
<1> QED
  BY <1>1, <1>2

\* The steps of execute().
LEMMA RunStepType ==
    ASSUME TypeOK, NEW c \in Callers, RunStep(c)
    PROVE  TypeOK'
<1> USE DEF TypeOK
<1>0. run[c] \in Runs /\ run[c].freq \in Freqs /\ run[c].id \in Ids
  BY DEF Runs
<1>1. ASSUME BodyAfter(c)
      PROVE  body' \in [stage : {"idle", "loop", "missed", "run"}, now : Nat]
  BY <1>1 DEF BodyAfter
<1>2. ASSUME Patch(c) PROVE ops' \in Seq(Ops) /\ run' \in [Callers -> Runs]
  <2>1. Moved(c) \in Nat \cup {Keep}
    BY <1>0, NextRunType DEF Moved, Runs
  <2>2. [kind |-> "patch", id |-> run[c].id, next |-> Moved(c), by |-> c,
         sched |-> NoSchedule] \in Ops
    BY <1>0, <2>1, NoScheduleType DEF Ops
  <2>3. ops' \in Seq(Ops)
    BY <1>2, <2>2, EnqueueType DEF Patch
  <2>4. run' \in [Callers -> Runs]
    <3>1. [run[c] EXCEPT !.stage = "patching"] \in Runs
      BY <1>0 DEF Runs, Stages
    <3>2. run' = [run EXCEPT ![c] = [run[c] EXCEPT !.stage = "patching"]]
      BY <1>0, <1>2 DEF Patch
    <3> QED
      BY <1>0, <3>1, <3>2
  <2> QED
    BY <2>3, <2>4
<1>3. CASE GetCopy(c)
  <2>1. sched[run[c].id].freq \in Freqs
    BY <1>0 DEF Schedules
  <2>2. run' \in [Callers -> Runs]
    BY <1>0, <1>3, <2>1 DEF GetCopy, Runs, Stages
  <2> QED
    BY <1>3, <2>2 DEF GetCopy
<1>4. CASE GetThrows(c)
  BY <1>1, <1>4, NoRunType DEF GetThrows
<1>5. CASE Deliver(c)
  <2>1. run' \in [Callers -> Runs]
    BY <1>0, <1>5 DEF Deliver, Runs, Stages
  <2>2. sent' \in [Ids -> [1 .. MaxTime -> Nat]]
    <3> DEFINE once == [sent[run[c].id] EXCEPT ![run[c].slot] = @ + 1]
    <3>1. once \in [1 .. MaxTime -> Nat]
      BY <1>0, OnceMoreType
    <3>2. sent' = sent \/ sent' = [sent EXCEPT ![run[c].id] = once]
      BY <1>5 DEF Deliver
    <3> QED
      BY <1>0, <3>1, <3>2
  <2> QED
    BY <1>5, <2>1, <2>2 DEF Deliver
<1>6. CASE ReportThrows(c)
  <2>1. run' \in [Callers -> Runs]
    BY <1>0, <1>6 DEF ReportThrows, Runs, Stages
  <2> QED
    BY <1>6, <2>1 DEF ReportThrows
<1>7. CASE ReportEmpty(c)
  BY <1>2, <1>7 DEF ReportEmpty
<1>8. CASE File(c)
  BY <1>2, <1>8 DEF File
<1>9. CASE FileFails(c)
  BY <1>1, <1>9, NoRunType DEF FileFails, Leave, Failure
<1> QED
  BY <1>3, <1>4, <1>5, <1>6, <1>7, <1>8, <1>9 DEF RunStep

\* The requests.
LEMMA RequestType ==
    ASSUME TypeOK, NEW i \in Ids, Create(i) \/ Edit(i) \/ Remove(i) \/ RunNow(i)
    PROVE  TypeOK'
<1> USE DEF TypeOK, Request
<1>0. clock \in Nat /\ sched[i] \in Schedules
  BY TimeAssumption
<1>1. \A f \in Freqs, e \in BOOLEAN : FirstRun(f, e) \in Nat
  BY <1>0, NextRunType DEF FirstRun, None
<1>2. CASE Create(i)
  <2>1. PICK f \in Freqs, e \in BOOLEAN :
           Enqueue([kind |-> "create", id |-> i, next |-> Keep, by |-> "request",
                    sched |-> [state |-> "live", freq |-> f, enabled |-> e,
                               next |-> FirstRun(f, e)]])
    BY <1>2 DEF Create
  <2>2. [state |-> "live", freq |-> f, enabled |-> e, next |-> FirstRun(f, e)] \in Schedules
    BY <1>1 DEF Schedules
  <2>3. ops' \in Seq(Ops)
    BY <2>1, <2>2, EnqueueType DEF Ops
  <2> QED
    BY <1>2, <2>3 DEF Create
<1>3. CASE Edit(i)
  <2>1. PICK f \in Freqs, e \in BOOLEAN :
           Enqueue([kind |-> "replace", id |-> i, next |-> Keep, by |-> "request",
                    sched |-> [sched[i] EXCEPT !.freq = f, !.enabled = e,
                                               !.next = FirstRun(f, e)]])
    BY <1>3 DEF Edit
  <2>2. [sched[i] EXCEPT !.freq = f, !.enabled = e, !.next = FirstRun(f, e)] \in Schedules
    BY <1>0, <1>1 DEF Schedules
  <2>3. ops' \in Seq(Ops)
    BY <2>1, <2>2, EnqueueType DEF Ops
  <2> QED
    <3>1. /\ UNCHANGED <<clock, sched, saved, ticks, body, due, run, running, sent, failures>>
          /\ requests' = requests + 1
      BY <1>3 DEF Edit
    <3> QED
      BY <2>3, <3>1
<1>4. CASE Remove(i)
  <2>1. [NoSchedule EXCEPT !.state = "gone"] \in Schedules
    BY NoScheduleType DEF Schedules
  <2>2. ops' \in Seq(Ops)
    BY <1>4, <2>1, EnqueueType DEF Remove, Ops
  <2> QED
    BY <1>4, <2>2 DEF Remove
<1>5. CASE RunNow(i)
  <2>1. Enter("user", i, Keep, None)
    BY <1>5 DEF RunNow
  <2>2. run' \in [Callers -> Runs] /\ running' \subseteq Ids
    BY <2>1, EnterType DEF Callers, None
  <2> QED
    BY <1>5, <2>2 DEF RunNow
<1> QED
  BY <1>2, <1>3, <1>4, <1>5

\* The timer.
LEMMA TickType == TypeOK /\ TickStep => TypeOK'
<1> SUFFICES ASSUME TypeOK, TickStep PROVE TypeOK'
  OBVIOUS
<1> USE DEF TypeOK
<1>1. CASE TickBegins
  <2>1. Head(ticks) \in Nat /\ ticks' \in Seq(Nat)
    BY <1>1 DEF TickBegins
  <2>2. \A i \in Ids : sched[i].freq \in Freqs /\ sched[i].next \in Nat
    BY DEF Schedules
  <2>3. due' \subseteq [id : Ids, freq : Freqs, slot : Nat]
    BY <1>1, <2>2 DEF TickBegins
  <2> QED
    BY <1>1, <2>1, <2>3 DEF TickBegins
<1>2. CASE TickMissed
  <2>1. PICK d \in due :
           /\ due' = due \ {d}
           /\ Enqueue([kind |-> "patch", id |-> d.id, by |-> "missed",
                       next |-> NextRun(d.freq, body.now), sched |-> NoSchedule])
    BY <1>2 DEF TickMissed
  <2>2. d.id \in Ids /\ NextRun(d.freq, body.now) \in Nat
    BY NextRunType
  <2>3. ops' \in Seq(Ops)
    BY <2>1, <2>2, NoScheduleType, EnqueueType DEF Ops
  <2> QED
    BY <1>2, <2>1, <2>3 DEF TickMissed
<1>3. CASE TickRuns
  <2>1. PICK d \in due : due' = due \ {d} /\ Enter("timer", d.id, body.now, d.slot)
    BY <1>3 DEF TickRuns
  <2>2. run' \in [Callers -> Runs] /\ running' \subseteq Ids
    BY <2>1, EnterType DEF Callers
  <2> QED
    BY <1>3, <2>1, <2>2 DEF TickRuns
<1>4. CASE TickRefused
  BY <1>4 DEF TickRefused
<1>5. CASE TickEnds
  BY <1>5 DEF TickEnds, NoBody
<1> QED
  BY <1>1, <1>2, <1>3, <1>4, <1>5 DEF TickStep

\* The store.
LEMMA StoreType == TypeOK /\ StoreStep => TypeOK'
<1> SUFFICES ASSUME TypeOK, StoreStep PROVE TypeOK'
  OBVIOUS
<1> USE DEF TypeOK
<1>1. CASE StoreWrites \/ StoreFails
  <2>1. ops # <<>> /\ Resume(Head(ops).by) /\ sched' = Applied(Head(ops)) /\ ops' = Tail(ops)
    BY <1>1 DEF StoreWrites, StoreFails
  <2>2. Head(ops) \in Ops /\ ops' \in Seq(Ops)
    BY <2>1
  <2>3. sched' \in [Ids -> Schedules]
    BY <2>1, <2>2, AppliedType
  <2>4. saved' \in [Ids -> Schedules]
    BY <1>1, <2>3 DEF StoreWrites, StoreFails
  <2>5. failures' \in Nat /\ UNCHANGED <<clock, ticks, due, sent, requests>>
    BY <1>1 DEF StoreWrites, StoreFails, Failure
  <2> QED
    BY <2>1, <2>2, <2>3, <2>4, <2>5, ResumeType
<1>2. CASE MissedFails
  BY <1>2, StartedType DEF MissedFails, Failure
<1> QED
  BY <1>1, <1>2 DEF StoreStep

LEMMA Typing == TypeOK /\ [Next]_vars => TypeOK'
<1> SUFFICES ASSUME TypeOK, [Next]_vars PROVE TypeOK'
  OBVIOUS
<1>1. CASE TickFires
  <2>1. ticks' \in Seq(Nat)
    BY <1>1, TimeAssumption DEF TickFires, TypeOK
  <2> QED
    BY <1>1, <2>1 DEF TickFires, TypeOK
<1>2. CASE Advance
  BY <1>2, TimeAssumption DEF Advance, TypeOK
<1>3. CASE Crash
  BY <1>3, StartedType DEF Crash, Failure, TypeOK
<1>4. CASE UNCHANGED vars
  BY <1>4 DEF vars, TypeOK
<1> QED
  BY <1>1, <1>2, <1>3, <1>4, RequestType, RunStepType, StoreType, TickType DEF Next

LEMMA InitType == Init => TypeOK
BY NoScheduleType, NoRunType, TimeAssumption DEF Init, TypeOK, NoBody

\* Every variable keeps its type: in particular every next run is a time, and
\* what waits in the store's queue is well-formed.
THEOREM TypeCorrect == Spec => []TypeOK
BY InitType, Typing, PTL DEF Spec
-----------------------------------------------------------------------------
(* The inductive invariant *)

Queue == 1 .. Len(ops)

\* Who is running is marked, and marked for one run.
Marked == RunningIsMarked /\ OneRunPerSchedule

\* Every update in the queue that somebody but a request awaits is awaited
\* where the code stands: one by a run at the stage of its patch, and one by
\* the tick body at a missed run. So nobody is resumed who is elsewhere.
Awaited ==
    /\ ~Idle("timer") => body.stage = "run"
    /\ ~Idle("user") => run["user"].now = Keep
    /\ \A k \in Queue :
          /\ ops[k].by = "missed" => body.stage = "missed"
          /\ ops[k].by \in Callers => /\ At(ops[k].by, "patching")
                                      /\ ops[k].kind = "patch"
                                      /\ ops[k].id = run[ops[k].by].id
          /\ ops[k].by = "user" => ops[k].next = Keep
    /\ \A j, k \in Queue : ops[j].by = ops[k].by /\ ops[j].by # "request" => j = k

\* A schedule that does not exist yet has nothing under way but its creation,
\* and a deletion in the file is one in memory too.
Born ==
    /\ \A i \in Ids : /\ sched[i].state = "new" => saved[i].state = "new"
                      /\ saved[i].state = "gone" => sched[i].state = "gone"
    /\ \A k \in Queue :
          /\ ops[k].kind = "create" => sched[ops[k].id].state = "new"
          /\ ops[k].kind # "patch" => ops[k].sched.state # "new"
          /\ ops[k].kind = "remove" => ops[k].sched.state = "gone"
    /\ \A j, k \in Queue : ops[j].kind = "create" /\ ops[j].id = ops[k].id => j = k
    /\ \A d \in due : sched[d.id].state # "new"
    /\ \A c \in Callers : ~Idle(c) => sched[run[c].id].state # "new"

Inv == TypeOK /\ Marked /\ Awaited /\ Born

LEMMA Appended ==
    ASSUME ops \in Seq(Ops), NEW op, Enqueue(op)
    PROVE  /\ Queue' = Queue \cup {Len(ops) + 1}
           /\ Len(ops) + 1 \notin Queue
           /\ ops'[Len(ops) + 1] = op
           /\ \A k \in Queue : ops'[k] = ops[k]
BY DEF Enqueue, Queue

LEMMA Dequeued ==
    ASSUME ops \in Seq(Ops), ops # <<>>, ops' = Tail(ops)
    PROVE  /\ 1 \in Queue /\ Head(ops) = ops[1]
           /\ \A k \in Queue' : k + 1 \in Queue /\ k + 1 # 1 /\ ops'[k] = ops[k + 1]
           /\ \A j, k \in Queue' : j + 1 = k + 1 => j = k
BY DEF Queue

LEMMA InitInv == Init => Inv
<1> SUFFICES ASSUME Init PROVE Inv
  OBVIOUS
<1>1. TypeOK
  BY InitType
<1>2. \A c \in Callers : Idle(c)
  BY DEF Init, Idle, NoRun
<1>3. Marked
  BY <1>2 DEF Marked, RunningIsMarked, OneRunPerSchedule
<1>4. Queue = {}
  BY DEF Init, Queue
<1>5. Awaited
  BY <1>2, <1>4 DEF Awaited, Callers
<1>6. Born
  BY <1>2, <1>4 DEF Init, Born, NoSchedule
<1> QED
  BY <1>1, <1>3, <1>5, <1>6 DEF Inv

\* A request adds an update nobody waits for in the tick or a run, or starts a
\* "run now" of a schedule nobody runs.
LEMMA RequestInv ==
    ASSUME Inv, NEW i \in Ids, Create(i) \/ Edit(i) \/ Remove(i) \/ RunNow(i)
    PROVE  (Marked /\ Awaited /\ Born)'
<1>0. TypeOK /\ Marked /\ Awaited /\ Born /\ sched[i] \in Schedules /\ ops \in Seq(Ops)
  BY DEF Inv, TypeOK
<1>1. ASSUME NEW op, Enqueue(op), UNCHANGED <<sched, saved, body, due, run, running>>,
             op.id = i, op.by = "request", op.kind \in {"create", "replace", "remove"},
             op.kind = "create" => /\ sched[i].state = "new"
                                   /\ \A k \in Queue : ops[k].id # i,
             op.kind # "create" => sched[i].state = "live",
             op.sched.state # "new", op.kind = "remove" => op.sched.state = "gone"
      PROVE  (Marked /\ Awaited /\ Born)'
  <2>0. /\ Queue' = Queue \cup {Len(ops) + 1}
        /\ Len(ops) + 1 \notin Queue
        /\ ops'[Len(ops) + 1] = op
        /\ \A k \in Queue : ops'[k] = ops[k]
    BY <1>0, <1>1, Appended
  <2>1. Marked'
    BY <1>0, <1>1 DEF Marked, RunningIsMarked, OneRunPerSchedule, Idle
  <2>2. Awaited'
    BY <1>0, <1>1, <2>0 DEF Awaited, Idle, At, Callers
  <2>3. Born'
    BY <1>0, <1>1, <2>0 DEF Born, Idle
  <2> QED
    BY <2>1, <2>2, <2>3
<1>2. CASE Create(i)
  <2>1. PICK f \in Freqs, e \in BOOLEAN :
           Enqueue([kind |-> "create", id |-> i, next |-> Keep, by |-> "request",
                    sched |-> [state |-> "live", freq |-> f, enabled |-> e,
                               next |-> FirstRun(f, e)]])
    BY <1>2 DEF Create
  <2>2. /\ UNCHANGED <<sched, saved, body, due, run, running>>
        /\ sched[i].state = "new" /\ \A k \in Queue : ops[k].id # i
    BY <1>2 DEF Create, Queue
  <2> QED
    BY <1>1, <2>1, <2>2
<1>3. CASE Edit(i)
  <2>1. PICK f \in Freqs, e \in BOOLEAN :
           Enqueue([kind |-> "replace", id |-> i, next |-> Keep, by |-> "request",
                    sched |-> [sched[i] EXCEPT !.freq = f, !.enabled = e,
                                               !.next = FirstRun(f, e)]])
    BY <1>3 DEF Edit
  <2>2. UNCHANGED <<sched, saved, body, due, run, running>> /\ sched[i].state = "live"
    BY <1>3 DEF Edit
  <2>3. [sched[i] EXCEPT !.freq = f, !.enabled = e, !.next = FirstRun(f, e)].state = "live"
    BY <1>0, <2>2 DEF Schedules
  <2> QED
    BY <1>1, <2>1, <2>2, <2>3
<1>4. CASE Remove(i)
  <2>1. Enqueue([kind |-> "remove", id |-> i, next |-> Keep, by |-> "request",
                 sched |-> [NoSchedule EXCEPT !.state = "gone"]])
    BY <1>4 DEF Remove
  <2>2. UNCHANGED <<sched, saved, body, due, run, running>> /\ sched[i].state = "live"
    BY <1>4 DEF Remove
  <2>3. [NoSchedule EXCEPT !.state = "gone"].state = "gone"
    BY DEF NoSchedule
  <2> QED
    BY <1>1, <2>1, <2>2, <2>3
<1>5. CASE RunNow(i)
  <2>1. /\ Idle("user") /\ sched[i].state # "new" /\ i \notin running
        /\ running' = running \cup {i}
        /\ run' = [run EXCEPT !["user"] = [NoRun EXCEPT !.stage = "entered", !.id = i,
                                               !.now = Keep, !.slot = None]]
        /\ UNCHANGED <<sched, saved, ops, body, due>>
    BY <1>5 DEF RunNow, Enter
  <2>2. /\ run'["user"].stage = "entered" /\ run'["user"].id = i /\ run'["user"].now = Keep
        /\ run'["timer"] = run["timer"]
    BY <1>0, <2>1, NoRunType DEF TypeOK, Callers, NoRun
  <2>3. Marked'
    BY <1>0, <2>1, <2>2 DEF Marked, RunningIsMarked, OneRunPerSchedule, Idle, Callers
  <2>4. Awaited'
    BY <1>0, <2>1, <2>2 DEF Awaited, Queue, Idle, At, Callers
  <2>5. Born'
    BY <1>0, <2>1, <2>2 DEF Born, Queue, Idle, Callers
  <2> QED
    BY <2>3, <2>4, <2>5
<1> QED
  BY <1>2, <1>3, <1>4, <1>5

\* A run goes on to a stage that waits for nothing in the queue.
LEMMA StageInv ==
    ASSUME Inv, NEW c \in Callers, ~Idle(c), ~At(c, "patching"),
           run'[c].stage # "idle", run'[c].id = run[c].id, run'[c].now = run[c].now,
           \A e \in Callers \ {c} : run'[e] = run[e],
           UNCHANGED <<sched, saved, ops, body, due, running>>
    PROVE  (Marked /\ Awaited /\ Born)'
<1>0. Marked /\ Awaited /\ Born
  BY DEF Inv
<1>1. Marked'
  BY <1>0 DEF Marked, RunningIsMarked, OneRunPerSchedule, Idle
<1>2. Awaited'
  BY <1>0 DEF Awaited, Queue, Idle, At, Callers
<1>3. Born'
  BY <1>0 DEF Born, Queue, Idle
<1> QED
  BY <1>1, <1>2, <1>3

\* A run is over before it asked the store for anything.
LEMMA OverInv ==
    ASSUME Inv, NEW c \in Callers, ~Idle(c), ~At(c, "patching"),
           run' = [run EXCEPT ![c] = NoRun], BodyAfter(c),
           running' \in {running, running \ {run[c].id}},
           UNCHANGED <<sched, saved, ops, due>>
    PROVE  (Marked /\ Awaited /\ Born)'
<1>0. TypeOK /\ Marked /\ Awaited /\ Born
  BY DEF Inv
<1>1. /\ run'[c].stage = "idle"
      /\ \A e \in Callers \ {c} : run'[e] = run[e]
  BY <1>0 DEF TypeOK, NoRun
<1>2. Marked'
  BY <1>0, <1>1 DEF Marked, RunningIsMarked, OneRunPerSchedule, Idle
<1>3. c = "timer" => body.stage = "run"
  BY <1>0 DEF Awaited
<1>4. /\ c = "timer" => body'.stage = "loop"
      /\ c # "timer" => body' = body
  BY <1>0 DEF BodyAfter, TypeOK
<1>5. Awaited'
  BY <1>0, <1>1, <1>3, <1>4 DEF Awaited, Queue, Idle, At, Callers
<1>6. Born'
  BY <1>0, <1>1 DEF Born, Queue, Idle
<1> QED
  BY <1>2, <1>5, <1>6

\* A run asks for its patch.
LEMMA PatchInv ==
    ASSUME Inv, NEW c \in Callers, ~Idle(c), ~At(c, "patching"), Patch(c),
           UNCHANGED <<sched, saved, body, due, running>>
    PROVE  (Marked /\ Awaited /\ Born)'
<1>0. TypeOK /\ Marked /\ Awaited /\ Born /\ run[c] \in Runs /\ ops \in Seq(Ops)
  BY DEF Inv, TypeOK
<1> DEFINE op == [kind |-> "patch", id |-> run[c].id, next |-> Moved(c), by |-> c,
                  sched |-> NoSchedule]
<1>1. /\ run'[c].stage = "patching" /\ run'[c].id = run[c].id /\ run'[c].now = run[c].now
      /\ \A e \in Callers \ {c} : run'[e] = run[e]
  BY <1>0 DEF Patch, TypeOK, Runs
<1>2. /\ Queue' = Queue \cup {Len(ops) + 1}
      /\ Len(ops) + 1 \notin Queue
      /\ ops'[Len(ops) + 1] = op
      /\ \A k \in Queue : ops'[k] = ops[k]
  BY <1>0, Appended DEF Patch
<1>3. /\ op.kind = "patch" /\ op.id = run[c].id /\ op.by = c
      /\ c = "user" => op.next = Keep
  BY <1>0 DEF Moved, Awaited
<1> HIDE DEF op
<1>4. Marked'
  BY <1>0, <1>1 DEF Marked, RunningIsMarked, OneRunPerSchedule, Idle
<1>5. Awaited'
  BY <1>0, <1>1, <1>2, <1>3 DEF Awaited, Idle, At, Callers
<1>6. Born'
  BY <1>0, <1>1, <1>2, <1>3 DEF Born, Idle
<1> QED
  BY <1>4, <1>5, <1>6

LEMMA RunStepInv ==
    ASSUME Inv, NEW c \in Callers, RunStep(c)
    PROVE  (Marked /\ Awaited /\ Born)'
<1>0. run \in [Callers -> Runs] /\ run[c] \in Runs
  BY DEF Inv, TypeOK
<1>1. CASE GetCopy(c)
  <2>1. /\ ~Idle(c) /\ ~At(c, "patching")
        /\ run'[c].stage # "idle" /\ run'[c].id = run[c].id /\ run'[c].now = run[c].now
        /\ \A e \in Callers \ {c} : run'[e] = run[e]
        /\ UNCHANGED <<sched, saved, ops, body, due, running>>
    BY <1>0, <1>1 DEF GetCopy, At, Idle, Runs
  <2> QED
    BY <2>1, StageInv
<1>2. CASE Deliver(c) \/ ReportThrows(c)
  <2>1. /\ ~Idle(c) /\ ~At(c, "patching")
        /\ run' = [run EXCEPT ![c].stage = "filing"]
        /\ UNCHANGED <<sched, saved, ops, body, due, running>>
    BY <1>2 DEF Deliver, ReportThrows, At, Idle
  <2>2. /\ run'[c].stage # "idle" /\ run'[c].id = run[c].id /\ run'[c].now = run[c].now
        /\ \A e \in Callers \ {c} : run'[e] = run[e]
    BY <1>0, <2>1 DEF Runs
  <2> QED
    BY <2>1, <2>2, StageInv
<1>3. CASE GetThrows(c) \/ FileFails(c)
  <2>1. /\ ~Idle(c) /\ ~At(c, "patching")
        /\ run' = [run EXCEPT ![c] = NoRun] /\ BodyAfter(c)
        /\ running' \in {running, running \ {run[c].id}}
        /\ UNCHANGED <<sched, saved, ops, due>>
    BY <1>3 DEF GetThrows, FileFails, Leave, At, Idle
  <2> QED
    BY <2>1, OverInv
<1>4. CASE ReportEmpty(c) \/ File(c)
  <2>1. /\ ~Idle(c) /\ ~At(c, "patching") /\ Patch(c)
        /\ UNCHANGED <<sched, saved, body, due, running>>
    BY <1>4 DEF ReportEmpty, File, At, Idle
  <2> QED
    BY <2>1, PatchInv
<1> QED
  BY <1>1, <1>2, <1>3, <1>4 DEF RunStep

\* The timer: it is idle whenever the tick body is not in its run.
LEMMA TickInv == Inv /\ TickStep => (Marked /\ Awaited /\ Born)'
<1> SUFFICES ASSUME Inv, TickStep PROVE (Marked /\ Awaited /\ Born)'
  OBVIOUS
<1>0. TypeOK /\ Marked /\ Awaited /\ Born /\ ops \in Seq(Ops)
  BY DEF Inv, TypeOK
<1>1. ASSUME UNCHANGED <<sched, saved, ops, run, running>>,
             body.stage # "run", body'.stage # "missed" => body.stage # "missed",
             \A d \in due' : sched[d.id].state # "new"
      PROVE  (Marked /\ Awaited /\ Born)'
  <2>1. Idle("timer")
    BY <1>0, <1>1 DEF Awaited
  <2>2. Marked' /\ Awaited' /\ Born'
    BY <1>0, <1>1, <2>1 DEF Marked, RunningIsMarked, OneRunPerSchedule, Awaited, Born,
                            Queue, Idle, At
  <2> QED
    BY <2>2
<1>2. CASE TickBegins
  <2>1. \A d \in due' : sched[d.id].state # "new"
    BY <1>2 DEF TickBegins, IsDue
  <2>2. body.stage = "idle" /\ body'.stage = "loop" /\ UNCHANGED <<sched, saved, ops, run, running>>
    BY <1>2 DEF TickBegins
  <2> QED
    BY <1>1, <2>1, <2>2
<1>3. CASE TickRefused \/ TickEnds
  <2>1. /\ body.stage = "loop" /\ body'.stage \in {"loop", "idle"}
        /\ due' \subseteq due /\ UNCHANGED <<sched, saved, ops, run, running>>
    BY <1>3 DEF TickRefused, TickEnds, NoBody
  <2> QED
    BY <1>0, <1>1, <2>1 DEF Born
<1>4. CASE TickMissed
  <2>1. PICK d \in due :
           /\ due' = due \ {d}
           /\ Enqueue([kind |-> "patch", id |-> d.id, by |-> "missed",
                       next |-> NextRun(d.freq, body.now), sched |-> NoSchedule])
    BY <1>4 DEF TickMissed
  <2> DEFINE op == [kind |-> "patch", id |-> d.id, by |-> "missed",
                    next |-> NextRun(d.freq, body.now), sched |-> NoSchedule]
  <2>2. /\ body.stage = "loop" /\ body'.stage = "missed"
        /\ UNCHANGED <<sched, saved, run, running>>
    BY <1>0, <1>4 DEF TickMissed, TypeOK
  <2>3. /\ Queue' = Queue \cup {Len(ops) + 1}
        /\ Len(ops) + 1 \notin Queue
        /\ ops'[Len(ops) + 1] = op
        /\ \A k \in Queue : ops'[k] = ops[k]
    BY <1>0, <2>1, Appended
  <2>4. op.kind = "patch" /\ op.id = d.id /\ op.by = "missed"
    OBVIOUS
  <2> HIDE DEF op
  <2>5. Idle("timer") /\ \A k \in Queue : ops[k].by # "missed"
    BY <1>0, <2>2 DEF Awaited
  <2>6. Marked'
    BY <1>0, <2>2 DEF Marked, RunningIsMarked, OneRunPerSchedule, Idle
  <2>7. Awaited'
    BY <1>0, <2>2, <2>3, <2>4, <2>5 DEF Awaited, Idle, At, Callers
  <2>8. Born'
    BY <1>0, <2>1, <2>2, <2>3, <2>4 DEF Born, Idle
  <2> QED
    BY <2>6, <2>7, <2>8
<1>5. CASE TickRuns
  <2>1. PICK d \in due : due' = due \ {d} /\ Enter("timer", d.id, body.now, d.slot)
    BY <1>5 DEF TickRuns
  <2>2. /\ body.stage = "loop" /\ body'.stage = "run" /\ UNCHANGED <<sched, saved, ops>>
    BY <1>0, <1>5 DEF TickRuns, TypeOK
  <2>3. Idle("timer")
    BY <1>0, <2>2 DEF Awaited
  <2>4. /\ run'["timer"].stage = "entered" /\ run'["timer"].id = d.id
        /\ run'["user"] = run["user"]
        /\ d.id \notin running /\ running' = running \cup {d.id}
    BY <1>0, <2>1, NoRunType DEF Enter, TypeOK, Callers, NoRun
  <2>5. Marked'
    BY <1>0, <2>3, <2>4 DEF Marked, RunningIsMarked, OneRunPerSchedule, Idle, Callers
  <2>6. Awaited'
    BY <1>0, <2>2, <2>3, <2>4 DEF Awaited, Queue, Idle, At, Callers
  <2>7. Born'
    BY <1>0, <2>1, <2>2, <2>4 DEF Born, Queue, Idle, Callers
  <2> QED
    BY <2>5, <2>6, <2>7
<1> QED
  BY <1>2, <1>3, <1>4, <1>5 DEF TickStep

\* Applying an update: only a creation makes a schedule, only a deletion of
\* one that is there or was takes it away, and what is gone stays gone.
LEMMA AppliedStates ==
    ASSUME Inv, ops # <<>>, NEW i \in Ids
    PROVE  /\ sched[i].state # "new" => Applied(Head(ops))[i].state # "new"
           /\ sched[i].state = "new" /\ (Head(ops).id = i => Head(ops).kind = "patch")
                => Applied(Head(ops))[i].state = "new"
           /\ sched[i].state = "gone" => Applied(Head(ops))[i].state = "gone"
<1> DEFINE op == Head(ops)
<1>0. TypeOK /\ Born /\ op \in Ops /\ op = ops[1] /\ 1 \in Queue
  BY DEF Inv, TypeOK, Queue
<1>1. /\ sched[i] \in Schedules /\ op.id \in Ids /\ sched \in [Ids -> Schedules]
      /\ op.kind \in {"create", "replace", "remove", "patch"}
      /\ op.kind = "create" => sched[op.id].state = "new"
      /\ op.kind # "patch" => op.sched.state # "new"
      /\ op.kind = "remove" => op.sched.state = "gone"
  BY <1>0 DEF TypeOK, Born, Ops
<1> HIDE DEF op
<1>2. CASE op.kind = "patch"
  <2>1. Patched(sched[i], op).state = sched[i].state
    BY <1>1 DEF Patched, Schedules
  <2> QED
    BY <1>1, <1>2, <2>1 DEF Applied, op
<1>3. CASE op.kind = "replace"
  BY <1>1, <1>3 DEF Applied, op
<1>4. CASE op.kind \in {"create", "remove"}
  <2>1. Applied(op) = [sched EXCEPT ![op.id] = op.sched]
    BY <1>4 DEF Applied
  <2> QED
    BY <1>1, <1>4, <2>1 DEF op
<1> QED
  BY <1>1, <1>2, <1>3, <1>4

\* The caller of the head of the queue is resumed where it stands.
LEMMA StoreInv ==
    ASSUME Inv, StoreWrites \/ StoreFails
    PROVE  (Marked /\ Awaited /\ Born)'
<1> DEFINE op == Head(ops)
<1>0. TypeOK /\ Marked /\ Awaited /\ Born /\ ops \in Seq(Ops)
  BY DEF Inv, TypeOK
<1>1. /\ ops # <<>> /\ sched' = Applied(op) /\ ops' = Tail(ops) /\ Resume(op.by)
      /\ due' = due /\ saved' \in {saved, sched'}
  BY DEF StoreWrites, StoreFails
<1>2. /\ 1 \in Queue /\ op = ops[1] /\ op \in Ops
      /\ \A k \in Queue' : k + 1 \in Queue /\ k + 1 # 1 /\ ops'[k] = ops[k + 1]
      /\ \A j, k \in Queue' : j + 1 = k + 1 => j = k
  <2>1. /\ 1 \in Queue /\ op = ops[1]
        /\ \A k \in Queue' : k + 1 \in Queue /\ k + 1 # 1 /\ ops'[k] = ops[k + 1]
        /\ \A j, k \in Queue' : j + 1 = k + 1 => j = k
    BY <1>0, <1>1, Dequeued
  <2>2. op \in Ops
    BY <1>0, <1>1
  <2> QED
    BY <2>1, <2>2
<1>3. \A i \in Ids :
         /\ sched[i].state # "new" => sched'[i].state # "new"
         /\ sched[i].state = "new" /\ (op.id = i => op.kind = "patch") => sched'[i].state = "new"
         /\ sched[i].state = "gone" => sched'[i].state = "gone"
  BY <1>1, AppliedStates
<1>4. \A k \in Queue : ops[k].id \in Ids
  <2>1. \A k \in Queue : ops[k] \in Ops
    BY <1>0 DEF Queue
  <2> QED
    BY <2>1 DEF Ops
<1>5. /\ \A d \in due : d.id \in Ids
      /\ \A c \in Callers : run[c].id \in Ids
  BY <1>0 DEF TypeOK, Runs
\* Who goes on, and from where.
<1>6. /\ op.by \in Callers => /\ At(op.by, "patching")
                              /\ run' = [run EXCEPT ![op.by] = NoRun]
                              /\ running' = running \ {run[op.by].id}
      /\ op.by \notin Callers => UNCHANGED <<run, running>>
      /\ op.by \in {"missed", "timer"} => body'.stage = "loop"
      /\ op.by \notin {"missed", "timer"} => body' = body
  BY <1>0, <1>1, <1>2 DEF Resume, Leave, Awaited, TypeOK
<1>7. \A c \in Callers : IF c = op.by THEN run'[c].stage = "idle" ELSE run'[c] = run[c]
  BY <1>0, <1>6 DEF TypeOK, NoRun
<1> HIDE DEF op
<1>8. Marked'
  <2>1. ASSUME NEW c \in Callers, ~Idle(c)' PROVE run'[c].id \in running'
    <3>1. c # op.by /\ run'[c] = run[c] /\ ~Idle(c)
      BY <1>7, <2>1 DEF Idle
    <3>2. run[c].id \in running
      BY <1>0, <3>1 DEF Marked, RunningIsMarked
    <3>3. op.by \in Callers => run[op.by].id # run[c].id
      BY <1>0, <1>6, <3>1 DEF Marked, OneRunPerSchedule, Idle, At
    <3> QED
      BY <1>6, <3>1, <3>2, <3>3
  <2>2. RunningIsMarked'
    BY <2>1 DEF RunningIsMarked, Idle
  <2>3. OneRunPerSchedule'
    BY <1>0, <1>7 DEF Marked, OneRunPerSchedule, Idle
  <2> QED
    BY <2>2, <2>3 DEF Marked
<1>9. Awaited'
  <2>1. \A k \in Queue' : ops'[k].by = op.by => op.by = "request"
    BY <1>0, <1>2 DEF Awaited
  <2>2. /\ ~Idle("timer")' => body'.stage = "run"
        /\ ~Idle("user")' => run'["user"].now = Keep
    BY <1>0, <1>2, <1>6, <1>7 DEF Awaited, Idle, Callers, At
  <2>3. ASSUME NEW k \in Queue', ops'[k].by = "missed" PROVE body'.stage = "missed"
    <3>1. k + 1 \in Queue /\ ops[k + 1].by = "missed" /\ op.by # "missed"
      BY <1>2, <2>1, <2>3
    <3>2. body.stage = "missed"
      BY <1>0, <3>1 DEF Awaited
    <3>3. op.by # "timer"
      BY <1>0, <1>6, <3>2 DEF Awaited, Idle, At, Callers
    <3> QED
      BY <1>6, <3>1, <3>2, <3>3
  <2>4. ASSUME NEW k \in Queue', ops'[k].by \in Callers
        PROVE  /\ run'[ops'[k].by].stage = "patching"
               /\ ops'[k].kind = "patch"
               /\ ops'[k].id = run'[ops'[k].by].id
               /\ ops'[k].by = "user" => ops'[k].next = Keep
    <3>1. k + 1 \in Queue /\ ops'[k] = ops[k + 1] /\ op.by # ops[k + 1].by
      BY <1>2, <2>1, <2>4 DEF Callers
    <3>2. run'[ops[k + 1].by] = run[ops[k + 1].by]
      BY <1>7, <2>4, <3>1
    <3> QED
      BY <1>0, <2>4, <3>1, <3>2 DEF Awaited, At
  <2>5. \A j, k \in Queue' : ops'[j].by = ops'[k].by /\ ops'[j].by # "request" => j = k
    BY <1>0, <1>2 DEF Awaited
  <2>6. \A k \in Queue' : ops'[k].by = "user" => ops'[k].next = Keep
    BY <2>4 DEF Callers
  <2> QED
    BY <2>2, <2>3, <2>4, <2>5, <2>6 DEF Awaited, Idle, At
<1>10. Born'
  <2>1. \A i \in Ids : /\ sched'[i].state = "new" => saved'[i].state = "new"
                       /\ saved'[i].state = "gone" => sched'[i].state = "gone"
    BY <1>0, <1>1, <1>3 DEF Born
  <2>2. ASSUME NEW k \in Queue'
        PROVE  /\ ops'[k].kind = "create" => sched'[ops'[k].id].state = "new"
               /\ ops'[k].kind # "patch" => ops'[k].sched.state # "new"
               /\ ops'[k].kind = "remove" => ops'[k].sched.state = "gone"
    BY <1>0, <1>2, <1>3, <1>4 DEF Born
  <2>3. \A j, k \in Queue' : ops'[j].kind = "create" /\ ops'[j].id = ops'[k].id => j = k
    BY <1>0, <1>2 DEF Born
  <2>4. \A d \in due' : sched'[d.id].state # "new"
    BY <1>0, <1>1, <1>3, <1>5 DEF Born
  <2>5. \A c \in Callers : ~Idle(c)' => sched'[run'[c].id].state # "new"
    BY <1>0, <1>3, <1>5, <1>7 DEF Born, Idle
  <2> QED
    BY <2>1, <2>2, <2>3, <2>4, <2>5 DEF Born, Idle
<1> QED
  BY <1>8, <1>9, <1>10

\* A new process has nothing under way.
LEMMA RestartInv ==
    ASSUME Inv, Started, sched' = saved, saved' = saved
    PROVE  (Marked /\ Awaited /\ Born)'
<1>1. /\ \A c \in Callers : Idle(c)'
      /\ Queue' = {} /\ due' = {}
  BY DEF Started, Idle, NoRun, Queue
<1> QED
  BY <1>1 DEF Marked, RunningIsMarked, OneRunPerSchedule, Awaited, Born, Callers, Idle

LEMMA InvStep == Inv /\ [Next]_vars => Inv'
<1> SUFFICES ASSUME Inv, [Next]_vars PROVE (Marked /\ Awaited /\ Born)'
  BY Typing DEF Inv
<1>0. Marked /\ Awaited /\ Born
  BY DEF Inv
<1>1. CASE TickFires \/ Advance \/ UNCHANGED vars
  <2>1. UNCHANGED <<sched, saved, ops, body, due, run, running>>
    BY <1>1 DEF TickFires, Advance, vars
  <2> QED
    BY <1>0, <2>1 DEF Marked, RunningIsMarked, OneRunPerSchedule, Awaited, Born, Queue, Idle, At
<1>2. CASE MissedFails \/ Crash
  BY <1>2, RestartInv DEF MissedFails, Crash
<1> QED
  BY <1>1, <1>2, RequestInv, RunStepInv, TickInv, StoreInv DEF Next, StoreStep

LEMMA InvHolds == Spec => []Inv
BY InitInv, InvStep, PTL DEF Spec
-----------------------------------------------------------------------------
\* The timer and "run now" never run the same schedule side by side.
THEOREM OneAtATime == Spec => []OneRunPerSchedule
<1>1. Inv => OneRunPerSchedule
  BY DEF Inv, Marked
<1> QED
  BY <1>1, InvHolds, PTL

\* No run, edit, failed write or restart brings a schedule back whose deletion
\* reached the file.
THEOREM NoResurrection == Spec => RemovedForGood
<1>1. Inv /\ [Next]_vars =>
        [\A i \in Ids : saved[i].state = "gone" => saved'[i].state = "gone"]_vars
  <2> SUFFICES ASSUME Inv, [Next]_vars, NEW i \in Ids, saved[i].state = "gone"
               PROVE  saved'[i].state = "gone"
    OBVIOUS
  <2>1. CASE StoreWrites
    <3>1. sched[i].state = "gone"
      BY DEF Inv, Born
    <3> QED
      BY <2>1, <3>1, AppliedStates DEF StoreWrites
  <2>2. CASE ~StoreWrites
    <3>1. saved' = saved
      BY <2>2 DEF Next, vars, Create, Edit, Remove, RunNow, RunStep, GetCopy, GetThrows, Deliver,
                  ReportThrows, ReportEmpty, File, FileFails, StoreStep, StoreFails,
                  MissedFails, TickStep, TickBegins, TickMissed, TickRuns, TickRefused,
                  TickEnds, TickFires, Advance, Crash
    <3> QED
      BY <3>1
  <2> QED
    BY <2>1, <2>2
<1> QED
  BY <1>1, InvHolds, PTL DEF Spec, RemovedForGood

\* Recording the outcome of a "run now" changes nothing of the schedule.
THEOREM RunNowHarmless == Spec => RunNowLeavesScheduleAlone
<1> DEFINE A == (StoreWrites \/ StoreFails) /\ Head(ops).by = "user" =>
                    sched'[run["user"].id] = sched[run["user"].id]
<1>1. Inv => A
  <2> SUFFICES ASSUME Inv, StoreWrites \/ StoreFails, Head(ops).by = "user"
               PROVE  sched'[run["user"].id] = sched[run["user"].id]
    OBVIOUS
  <2> DEFINE op == Head(ops)
  <2>1. ops # <<>> /\ sched' = Applied(op)
    BY DEF StoreWrites, StoreFails
  <2>2. op = ops[1] /\ 1 \in Queue
    BY <2>1 DEF Inv, TypeOK, Queue
  <2>3. op.kind = "patch" /\ op.id = run["user"].id /\ op.next = Keep
    BY <2>2 DEF Inv, Awaited, Callers
  <2>4. run["user"].id \in Ids /\ sched[run["user"].id] \in Schedules
    BY DEF Inv, TypeOK, Runs, Callers
  <2>5. Patched(sched[run["user"].id], op) = sched[run["user"].id]
    BY <2>3, <2>4 DEF Patched, Schedules
  <2> QED
    BY <2>1, <2>3, <2>4, <2>5 DEF Applied
<1>2. Inv /\ [Next]_vars => [A]_vars
  BY <1>1
<1> QED
  BY <1>2, InvHolds, PTL DEF Spec, RunNowLeavesScheduleAlone
-----------------------------------------------------------------------------
(* A run time is delivered once *)

Moments == 1 .. MaxTime
Waiting == 1 .. Len(ticks)

\* Ticks wait in the order of their calls, after the one under way, and what
\* was due for it is not after its `now`.
Times ==
    /\ \A k \in Waiting : ticks[k] <= clock
    /\ \A j, k \in Waiting : j <= k => ticks[j] <= ticks[k]
    /\ IF body.stage = "idle" THEN due = {}
       ELSE body.now <= clock /\ \A k \in Waiting : body.now <= ticks[k]
    /\ \A d \in due : 0 < d.slot /\ d.slot <= body.now
    /\ ~Idle("timer") => /\ run["timer"].now = body.now
                         /\ 0 < run["timer"].slot /\ run["timer"].slot <= body.now

\* What was delivered is of the past, for every tick that may come.
Past ==
    \A i \in Ids, t \in Moments : sent[i][t] > 0 =>
        /\ t <= clock
        /\ \A k \in Waiting : t <= ticks[k]
        /\ body.stage # "idle" => t <= body.now

\* A schedule is due once in a tick, and not again while the tick runs it.
Single ==
    /\ \A d, e \in due : d.id = e.id => d = e
    /\ ~Idle("timer") => \A d \in due : d.id # run["timer"].id

\* One more delivery of the run time t keeps within the failures so far.
Spare(i, t) == t \in Moments => sent[i][t] <= failures

\* The timer has its report of the schedule behind it: its patch will move the
\* next run past what it delivered, over whatever was queued before.
Superseded(i) == run["timer"].stage \in {"filing", "patching"} /\ run["timer"].id = i

\* Every run time that may yet be found due has a delivery to spare.
Claims ==
    /\ \A i \in Ids : sched[i].state = "live" /\ ~Superseded(i) => Spare(i, sched[i].next)
    /\ \A k \in Queue :
          \/ Spare(ops[k].id, ops[k].next) /\ Spare(ops[k].id, ops[k].sched.next)
          \/ Superseded(ops[k].id) /\ \A m \in 1 .. k : ops[m].by # "timer"
    /\ \A d \in due : Spare(d.id, d.slot)
    /\ run["timer"].stage \in {"entered", "reporting"} => Spare(run["timer"].id, run["timer"].slot)

\* The patch of a scheduled run moves the next run.
Moving == \A k \in Queue : ops[k].by = "timer" => ops[k].next # Keep

OnceInv == Times /\ Past /\ Single /\ Claims /\ SlotServedOnce

\* A next run is after the moment it is counted from.
LEMMA NextRunAfter == \A f \in Freqs, t \in Nat : NextRun(f, t) > t
<1> TAKE f \in Freqs, t \in Nat
<1>1. f \in Nat \ {0}
  BY FreqsAssumption
<1>2. t \div f \in Nat /\ t = f * (t \div f) + (t % f) /\ t % f < f
  BY <1>1
<1>3. ((t \div f) + 1) * f = f * (t \div f) + f
  BY <1>1, <1>2
<1> QED
  BY <1>1, <1>2, <1>3 DEF NextRun

\* Where the failures grow and nothing is sent, every run time has one to spare.
LEMMA FailureSpares ==
    ASSUME TypeOK, TypeOK', SlotServedOnce, Failure, sent' = sent
    PROVE  Claims' /\ SlotServedOnce'
<1>0. /\ \A i \in Ids, t \in Moments : sent[i][t] \in Nat /\ sent[i][t] <= 1 + failures
      /\ failures \in Nat /\ failures' = failures + 1
  BY DEF SlotServedOnce, Failure, TypeOK, Moments
<1>1. \A i \in Ids, t \in Moments : sent'[i][t] <= failures' /\ sent'[i][t] <= 1 + failures'
  BY <1>0
<1>2. /\ \A k \in Queue' : ops'[k].id \in Ids
      /\ \A d \in due' : d.id \in Ids
      /\ run'["timer"].id \in Ids
  <2>1. \A k \in Queue' : ops'[k] \in Ops
    BY DEF TypeOK, Queue
  <2> QED
    BY <2>1 DEF TypeOK, Ops, Runs, Callers
<1> QED
  BY <1>1, <1>2 DEF Claims, SlotServedOnce, Spare, Moments

\* Only the timer's run, and what is queued, due and stored, bears on Claims.
LEMMA ClaimsKept ==
    ASSUME Claims, UNCHANGED <<sched, ops, due, sent, failures>>,
           \A i \in Ids : Superseded(i) => Superseded(i)',
           \A k \in Queue : ops[k].id \in Ids,
           run'["timer"].stage \in {"entered", "reporting"} =>
              /\ run["timer"].stage \in {"entered", "reporting"}
              /\ run'["timer"].id = run["timer"].id /\ run'["timer"].slot = run["timer"].slot
    PROVE  Claims'
BY DEF Claims, Spare, Queue

\* An update joins the queue whose next run has a delivery to spare.
LEMMA ClaimsQueued ==
    ASSUME ops \in Seq(Ops), Claims, NEW op \in Ops, Enqueue(op),
           Spare(op.id, op.next), Spare(op.id, op.sched.next),
           UNCHANGED <<sched, sent, failures>>, due' \subseteq due,
           \A i \in Ids : Superseded(i) => Superseded(i)',
           run'["timer"].stage \in {"entered", "reporting"} => run'["timer"] = run["timer"]
    PROVE  Claims'
<1>1. /\ Queue' = Queue \cup {Len(ops) + 1}
      /\ ops'[Len(ops) + 1] = op
      /\ \A k \in Queue : ops'[k] = ops[k]
  BY Appended
<1>2. \A k \in Queue : ops[k].id \in Ids /\ 1 .. k \subseteq Queue
  <2>1. \A k \in Queue : ops[k] \in Ops
    BY DEF Queue
  <2> QED
    BY <2>1 DEF Ops, Queue
<1>3. ASSUME NEW k \in Queue
      PROVE  (\/ Spare(ops[k].id, ops[k].next) /\ Spare(ops[k].id, ops[k].sched.next)
              \/ Superseded(ops[k].id) /\ \A m \in 1 .. k : ops[m].by # "timer")'
  BY <1>1, <1>2 DEF Claims, Spare
<1>4. Spare(op.id, op.next)' /\ Spare(op.id, op.sched.next)'
  BY DEF Spare
<1>5. (\A i \in Ids : sched[i].state = "live" /\ ~Superseded(i) => Spare(i, sched[i].next))'
  BY DEF Claims, Spare
<1>6. (/\ \A d \in due : Spare(d.id, d.slot)
       /\ run["timer"].stage \in {"entered", "reporting"} =>
             Spare(run["timer"].id, run["timer"].slot))'
  BY DEF Claims, Spare
<1> QED
  BY <1>1, <1>3, <1>4, <1>5, <1>6 DEF Claims

\* A run time that is still to come has not been delivered.
LEMMA ComingSpare ==
    ASSUME TypeOK, Past, NEW i \in Ids, NEW t \in Int,
           t > clock \/ (body.stage # "idle" /\ t > body.now) \/ t <= 0
    PROVE  Spare(i, t)
<1> SUFFICES ASSUME t \in Moments PROVE sent[i][t] <= failures
  BY DEF Spare
<1>1. sent[i][t] \in Nat /\ failures \in Nat /\ clock \in Nat /\ body.now \in Nat
  BY TimeAssumption DEF TypeOK, Moments
<1>2. ~(sent[i][t] > 0)
  BY <1>1 DEF Past, Moments
<1> QED
  BY <1>1, <1>2

\* Times, Past and Single look at the timer's side only.
LEMMA TimerKept ==
    ASSUME Times, Past, Single, UNCHANGED <<clock, ticks, body, due, sent>>,
           ~Idle("timer")' => /\ ~Idle("timer")
                              /\ run'["timer"].id = run["timer"].id
                              /\ run'["timer"].now = run["timer"].now
                              /\ run'["timer"].slot = run["timer"].slot
    PROVE  Times' /\ Past' /\ Single'
BY DEF Times, Past, Single, Waiting

LEMMA OnceInit == Init => OnceInv
<1> SUFFICES ASSUME Init PROVE OnceInv
  OBVIOUS
<1>1. /\ Idle("timer") /\ body.stage = "idle" /\ due = {} /\ Queue = {} /\ Waiting = {}
      /\ failures = 0 /\ \A i \in Ids, t \in Moments : sent[i][t] = 0
      /\ \A i \in Ids : sched[i].next = 0
  BY DEF Init, Idle, NoRun, NoBody, NoSchedule, Queue, Waiting, Moments, None, Callers
<1>2. Times /\ Past /\ Single
  BY <1>1 DEF Times, Past, Single
<1>3. Claims /\ SlotServedOnce
  BY <1>1 DEF Claims, Spare, SlotServedOnce, Moments, Idle
<1> QED
  BY <1>2, <1>3 DEF OnceInv

\* A request counts its next run from now, or leaves the schedule alone.
LEMMA OnceRequest ==
    ASSUME Inv, OnceInv, NEW i \in Ids, Create(i) \/ Edit(i) \/ Remove(i) \/ RunNow(i)
    PROVE  OnceInv'
<1>0. TypeOK /\ Times /\ Past /\ Single /\ Claims /\ SlotServedOnce /\ ops \in Seq(Ops)
  BY DEF Inv, OnceInv, TypeOK
<1>1. UNCHANGED <<clock, sched, ticks, body, due, sent, failures>>
  BY DEF Create, Edit, Remove, RunNow
<1>2. run'["timer"] = run["timer"]
  BY <1>0 DEF Create, Edit, Remove, RunNow, Enter, TypeOK, Callers
<1>3. Times' /\ Past' /\ Single' /\ SlotServedOnce'
  BY <1>0, <1>1, <1>2, TimerKept DEF Idle, SlotServedOnce
<1>4. \A f \in Freqs, e \in BOOLEAN : FirstRun(f, e) \in Nat /\ Spare(i, FirstRun(f, e))
  <2> TAKE f \in Freqs, e \in BOOLEAN
  <2>0. clock \in Nat
    BY <1>0, TimeAssumption DEF TypeOK
  <2>1. NextRun(f, clock) \in Nat /\ NextRun(f, clock) > clock
    BY <2>0, NextRunType, NextRunAfter
  <2>2. FirstRun(f, e) \in Nat /\ (FirstRun(f, e) > clock \/ FirstRun(f, e) <= 0)
    BY <2>0, <2>1 DEF FirstRun, None
  <2> QED
    BY <1>0, <2>2, ComingSpare
<1>5. Spare(i, Keep) /\ Spare(i, None)
  BY DEF Spare, Moments, Keep, None
<1>6. CASE RunNow(i)
  <2>1. ops' = ops /\ \A k \in Queue : ops[k].id \in Ids
    <3>1. \A k \in Queue : ops[k] \in Ops
      BY <1>0 DEF Queue
    <3> QED
      BY <1>6, <3>1 DEF RunNow, Ops
  <2>2. Claims'
    BY <1>0, <1>1, <1>2, <2>1, ClaimsKept DEF Superseded
  <2> QED
    BY <1>3, <2>2 DEF OnceInv
<1>7. ASSUME NEW op \in Ops, Enqueue(op), op.id = i, op.next = Keep, Spare(i, op.sched.next)
      PROVE  OnceInv'
  <2>1. Claims'
    BY <1>0, <1>1, <1>2, <1>5, <1>7, ClaimsQueued DEF Superseded
  <2> QED
    BY <1>3, <2>1 DEF OnceInv
<1>8. CASE Create(i)
  <2>1. PICK f \in Freqs, e \in BOOLEAN :
           Enqueue([kind |-> "create", id |-> i, next |-> Keep, by |-> "request",
                    sched |-> [state |-> "live", freq |-> f, enabled |-> e,
                               next |-> FirstRun(f, e)]])
    BY <1>8 DEF Create
  <2> DEFINE op == [kind |-> "create", id |-> i, next |-> Keep, by |-> "request",
                    sched |-> [state |-> "live", freq |-> f, enabled |-> e,
                               next |-> FirstRun(f, e)]]
  <2>2. op \in Ops /\ op.id = i /\ op.next = Keep /\ op.sched.next = FirstRun(f, e)
    BY <1>4 DEF Ops, Schedules, Callers
  <2>3. Enqueue(op)
    BY <2>1
  <2> HIDE DEF op
  <2> QED
    BY <1>4, <1>7, <2>2, <2>3
<1>9. CASE Edit(i)
  <2>1. PICK f \in Freqs, e \in BOOLEAN :
           Enqueue([kind |-> "replace", id |-> i, next |-> Keep, by |-> "request",
                    sched |-> [sched[i] EXCEPT !.freq = f, !.enabled = e,
                                               !.next = FirstRun(f, e)]])
    BY <1>9 DEF Edit
  <2> DEFINE op == [kind |-> "replace", id |-> i, next |-> Keep, by |-> "request",
                    sched |-> [sched[i] EXCEPT !.freq = f, !.enabled = e,
                                               !.next = FirstRun(f, e)]]
  <2>2. sched[i] \in Schedules
    BY <1>0 DEF TypeOK
  <2>3. op \in Ops /\ op.id = i /\ op.next = Keep /\ op.sched.next = FirstRun(f, e)
    BY <1>4, <2>2 DEF Ops, Schedules, Callers
  <2>4. Enqueue(op)
    BY <2>1
  <2> HIDE DEF op
  <2> QED
    BY <1>4, <1>7, <2>3, <2>4
<1>10. CASE Remove(i)
  <2> DEFINE op == [kind |-> "remove", id |-> i, next |-> Keep, by |-> "request",
                    sched |-> [NoSchedule EXCEPT !.state = "gone"]]
  <2>1. op \in Ops /\ op.id = i /\ op.next = Keep /\ op.sched.next = None
    BY NoScheduleType DEF Ops, Schedules, Callers, NoSchedule
  <2>2. Enqueue(op)
    BY <1>10 DEF Remove
  <2> HIDE DEF op
  <2> QED
    BY <1>5, <1>7, <2>1, <2>2
<1> QED
  BY <1>6, <1>8, <1>9, <1>10

\* The patch of a scheduled run counts from the tick, after all it delivered;
\* that of a "run now" has no next run.
LEMMA OncePatch ==
    ASSUME Inv, OnceInv, NEW c \in Callers, ~Idle(c), Patch(c),
           UNCHANGED <<clock, sched, ticks, body, due, sent, failures>>
    PROVE  OnceInv'
<1>0. /\ TypeOK /\ Awaited /\ Times /\ Past /\ Single /\ Claims /\ SlotServedOnce
      /\ ops \in Seq(Ops) /\ run[c] \in Runs
  BY DEF Inv, OnceInv, TypeOK
<1> DEFINE op == [kind |-> "patch", id |-> run[c].id, next |-> Moved(c), by |-> c,
                  sched |-> NoSchedule]
<1>1. /\ run'[c].stage = "patching" /\ run'[c].id = run[c].id
      /\ run'[c].now = run[c].now /\ run'[c].slot = run[c].slot
      /\ \A e \in Callers \ {c} : run'[e] = run[e]
  BY <1>0 DEF Patch, TypeOK, Runs
<1>2. (Times /\ Past /\ Single)' /\ SlotServedOnce'
  BY <1>0, <1>1, TimerKept DEF Idle, SlotServedOnce, Callers
<1>3. Moved(c) \in Nat \cup {Keep} /\ Spare(run[c].id, Moved(c))
  <2>1. CASE c = "user"
    BY <1>0, <2>1 DEF Awaited, Moved, Spare, Keep, Moments
  <2>2. CASE c = "timer"
    <3>1. run[c].now = body.now /\ body.now \in Nat /\ body.stage # "idle" /\ body.now # Keep
      BY <1>0, <2>2 DEF Times, Awaited, TypeOK, Keep
    <3>2. run[c].freq \in Freqs /\ run[c].id \in Ids
      BY <1>0 DEF Runs
    <3>3. Moved(c) = NextRun(run[c].freq, body.now)
      BY <3>1 DEF Moved
    <3>4. Moved(c) \in Nat /\ Moved(c) > body.now
      BY <3>1, <3>2, <3>3, NextRunType, NextRunAfter
    <3> QED
      BY <1>0, <3>1, <3>2, <3>4, ComingSpare
  <2> QED
    BY <2>1, <2>2 DEF Callers
<1>4. op \in Ops /\ op.id = run[c].id /\ op.next = Moved(c) /\ op.sched.next = None
  BY <1>0, <1>3, NoScheduleType DEF Ops, Runs, Callers, NoSchedule
<1>5. Enqueue(op)
  BY DEF Patch
<1> HIDE DEF op
<1>6. Spare(op.id, op.next) /\ Spare(op.id, op.sched.next)
  BY <1>3, <1>4 DEF Spare, Moments, None
<1>7. /\ \A i \in Ids : Superseded(i) => Superseded(i)'
      /\ run'["timer"].stage \in {"entered", "reporting"} => run'["timer"] = run["timer"]
  BY <1>1 DEF Superseded, Callers
<1>8. Claims'
  BY <1>0, <1>4, <1>5, <1>6, <1>7, ClaimsQueued
<1> QED
  BY <1>2, <1>8 DEF OnceInv

\* A delivery uses up what its run had to spare; what else claims the run time
\* is superseded, and so is not found due again.
LEMMA OnceDeliver ==
    ASSUME Inv, OnceInv, NEW c \in Callers, Deliver(c)
    PROVE  OnceInv'
<1>0. /\ TypeOK /\ Awaited /\ Times /\ Past /\ Single /\ Claims /\ SlotServedOnce
      /\ ops \in Seq(Ops) /\ run[c] \in Runs
  BY DEF Inv, OnceInv, TypeOK
<1>1. /\ run'[c].stage = "filing" /\ run'[c].id = run[c].id
      /\ run'[c].now = run[c].now /\ run'[c].slot = run[c].slot
      /\ \A e \in Callers \ {c} : run'[e] = run[e]
      /\ run[c].stage = "reporting"
      /\ UNCHANGED <<clock, sched, ops, ticks, body, due, failures>>
  BY <1>0 DEF Deliver, At, TypeOK, Runs
<1>2. /\ \A i \in Ids : Superseded(i) => Superseded(i)'
      /\ run'["timer"].stage \in {"entered", "reporting"} => run'["timer"] = run["timer"]
  BY <1>1 DEF Superseded, Callers
<1>3. \A k \in Queue : ops[k].id \in Ids
  <2>1. \A k \in Queue : ops[k] \in Ops
    BY <1>0 DEF Queue
  <2> QED
    BY <2>1 DEF Ops
<1>4. CASE c = "user"
  <2>1. sent' = sent
    BY <1>0, <1>1, <1>4 DEF Deliver, Awaited, Idle
  <2>2. (Times /\ Past /\ Single)' /\ SlotServedOnce'
    BY <1>0, <1>1, <1>4, <2>1, TimerKept DEF Idle, SlotServedOnce, Callers
  <2>3. Claims'
    BY <1>0, <1>1, <1>2, <1>3, <2>1, ClaimsKept
  <2> QED
    BY <2>2, <2>3 DEF OnceInv
<1>5. CASE c = "timer"
  <2> DEFINE id == run["timer"].id
             slot == run["timer"].slot
  <2>1. /\ ~Idle("timer") /\ run["timer"].now = body.now /\ body.stage = "run"
        /\ 0 < slot /\ slot <= body.now /\ body.now <= clock
        /\ \A k \in Waiting : body.now <= ticks[k]
        /\ body.now \in Nat /\ clock \in 0 .. MaxTime /\ MaxTime \in Nat /\ slot \in Nat /\ id \in Ids
        /\ \A k \in Waiting : ticks[k] \in Nat
    <3>1. ~Idle("timer") /\ body.stage = "run"
      BY <1>0, <1>1, <1>5 DEF Awaited, Idle
    <3>2. /\ run["timer"].now = body.now /\ 0 < slot /\ slot <= body.now /\ body.now <= clock
          /\ \A k \in Waiting : body.now <= ticks[k]
      BY <1>0, <3>1 DEF Times
    <3>3. body.now \in Nat /\ clock \in 0 .. MaxTime /\ MaxTime \in Nat
      BY <1>0, TimeAssumption DEF TypeOK
    <3>4. slot \in Nat /\ id \in Ids
      BY <1>0, <1>5 DEF Runs
    <3>5. \A k \in Waiting : ticks[k] \in Nat
      BY <1>0 DEF TypeOK, Waiting
    <3> QED
      BY <3>1, <3>2, <3>3, <3>4, <3>5
  <2>2. slot \in Moments /\ sent' = [sent EXCEPT ![id][slot] = @ + 1]
    BY <1>5, <2>1 DEF Deliver, Moments, Keep
  <2>3. \A i \in Ids, t \in Moments : sent[i][t] \in Nat /\ failures \in Nat
    BY <1>0 DEF TypeOK, Moments
  <2>4. \A i \in Ids, t \in Moments :
           sent'[i][t] = IF i = id /\ t = slot THEN sent[i][t] + 1 ELSE sent[i][t]
    BY <1>0, <2>1, <2>2 DEF TypeOK, Moments
  <2>5. Spare(id, slot)
    BY <1>0, <1>1, <1>5 DEF Claims
  <2> HIDE DEF id, slot
  <2>6. Times'
    BY <1>0, <1>1, <1>5 DEF Times, Waiting, Idle
  <2>7. Past'
    <3> SUFFICES ASSUME NEW i \in Ids, NEW t \in Moments, sent'[i][t] > 0
                 PROVE  t <= clock /\ (\A k \in Waiting : t <= ticks[k]) /\ t <= body.now
      BY <1>1, <2>1 DEF Past, Waiting
    <3>1. CASE i = id /\ t = slot
      BY <2>1, <3>1
    <3>2. CASE ~(i = id /\ t = slot)
      BY <1>0, <2>1, <2>4, <3>2 DEF Past
    <3> QED
      BY <3>1, <3>2
  <2>8. Single'
    BY <1>0, <1>1, <1>5 DEF Single, Idle
  <2>9. SlotServedOnce'
    BY <1>0, <1>1, <2>3, <2>4, <2>5 DEF SlotServedOnce, Spare, Moments
  <2>10. Claims'
    <3>1. \A i \in Ids : \A t : i # id /\ Spare(i, t) => Spare(i, t)'
      BY <1>1, <2>4 DEF Spare, Moments
    <3>2. \A i \in Ids : ~Superseded(i) /\ (Superseded(i)' <=> i = id)
      BY <1>1, <1>5 DEF Superseded, id
    <3>3. \A k \in Queue : ops[k].by # "timer"
      BY <1>0, <1>1, <1>5 DEF Awaited, At, Callers
    <3>4. (\A i \in Ids : sched[i].state = "live" /\ ~Superseded(i) => Spare(i, sched[i].next))'
      BY <1>0, <1>1, <3>1, <3>2 DEF Claims
    <3>5. (\A k \in Queue :
              \/ Spare(ops[k].id, ops[k].next) /\ Spare(ops[k].id, ops[k].sched.next)
              \/ Superseded(ops[k].id) /\ \A m \in 1 .. k : ops[m].by # "timer")'
      <4> SUFFICES ASSUME NEW k \in Queue
                   PROVE  (\/ Spare(ops[k].id, ops[k].next) /\ Spare(ops[k].id, ops[k].sched.next)
                           \/ Superseded(ops[k].id) /\ \A m \in 1 .. k : ops[m].by # "timer")'
        BY <1>1 DEF Queue
      <4>1. CASE ops[k].id = id
        <5>1. 1 .. k \subseteq Queue
          BY <1>0 DEF Queue
        <5> QED
          BY <1>1, <1>3, <3>2, <3>3, <4>1, <5>1 DEF Superseded
      <4>2. CASE ops[k].id # id
        <5>1. Spare(ops[k].id, ops[k].next) /\ Spare(ops[k].id, ops[k].sched.next)
          BY <1>0, <1>3, <3>2 DEF Claims
        <5> QED
          BY <1>1, <1>3, <2>4, <4>2, <5>1 DEF Spare, Moments
      <4> QED
        BY <4>1, <4>2
    <3>6. (\A d \in due : Spare(d.id, d.slot))'
      <4>1. \A d \in due : d.id \in Ids /\ d.id # id
        BY <1>0, <2>1 DEF Single, TypeOK, id
      <4> QED
        BY <1>0, <1>1, <2>4, <4>1 DEF Claims, Spare, Moments
    <3> QED
      BY <1>1, <1>5, <3>4, <3>5, <3>6 DEF Claims
  <2> QED
    BY <2>6, <2>7, <2>8, <2>9, <2>10 DEF OnceInv
<1> QED
  BY <1>4, <1>5 DEF Callers

\* The steps of execute().
LEMMA OnceRun ==
    ASSUME Inv, TypeOK', OnceInv, NEW c \in Callers, RunStep(c)
    PROVE  OnceInv'
<1>0. /\ TypeOK /\ Awaited /\ Times /\ Past /\ Single /\ Claims /\ SlotServedOnce
      /\ ops \in Seq(Ops) /\ run[c] \in Runs
  BY DEF Inv, OnceInv, TypeOK
<1>1. \A k \in Queue : ops[k].id \in Ids
  <2>1. \A k \in Queue : ops[k] \in Ops
    BY <1>0 DEF Queue
  <2> QED
    BY <2>1 DEF Ops
<1>2. CASE GetCopy(c) \/ ReportThrows(c)
  <2>1. /\ UNCHANGED <<clock, sched, ops, ticks, body, due, sent, failures>>
        /\ run'[c].id = run[c].id /\ run'[c].now = run[c].now /\ run'[c].slot = run[c].slot
        /\ run[c].stage \in {"entered", "reporting"}
        /\ \A e \in Callers \ {c} : run'[e] = run[e]
    BY <1>0, <1>2 DEF GetCopy, ReportThrows, At, TypeOK, Runs
  <2>2. (Times /\ Past /\ Single)' /\ SlotServedOnce'
    BY <1>0, <2>1, TimerKept DEF Idle, SlotServedOnce, Callers
  <2>3. Claims'
    BY <1>0, <1>1, <2>1, ClaimsKept DEF Superseded, Callers
  <2> QED
    BY <2>2, <2>3 DEF OnceInv
<1>3. ASSUME run' = [run EXCEPT ![c] = NoRun], BodyAfter(c), ~Idle(c),
             UNCHANGED <<clock, ops, ticks, due, sent>>
      PROVE  Times' /\ Past' /\ Single'
  <2>1. /\ run'[c].stage = "idle"
        /\ \A e \in Callers \ {c} : run'[e] = run[e]
    BY <1>0, <1>3 DEF TypeOK, NoRun
  <2>2. c = "timer" => body.stage = "run"
    BY <1>0, <1>3 DEF Awaited
  <2>3. /\ c = "timer" => body'.stage = "loop"
        /\ c # "timer" => body' = body
        /\ body'.now = body.now
    BY <1>0, <1>3 DEF BodyAfter, TypeOK
  <2> QED
    BY <1>0, <1>3, <2>1, <2>2, <2>3 DEF Times, Past, Single, Waiting, Idle, Callers
<1>4. CASE GetThrows(c)
  <2>1. /\ UNCHANGED <<clock, sched, ops, ticks, due, sent, failures>>
        /\ run' = [run EXCEPT ![c] = NoRun] /\ BodyAfter(c)
        /\ run[c].stage = "entered"
    BY <1>4 DEF GetThrows, At
  <2>2. /\ run'[c].stage = "idle"
        /\ \A e \in Callers \ {c} : run'[e] = run[e]
    BY <1>0, <2>1 DEF TypeOK, NoRun
  <2>3. Claims'
    BY <1>0, <1>1, <2>1, <2>2, ClaimsKept DEF Superseded, Callers
  <2> QED
    BY <1>0, <1>3, <2>1, <2>3 DEF OnceInv, SlotServedOnce, Idle
<1>5. CASE FileFails(c)
  <2>1. /\ UNCHANGED <<clock, ops, ticks, due, sent>> /\ Failure
        /\ run' = [run EXCEPT ![c] = NoRun] /\ BodyAfter(c) /\ ~Idle(c)
    BY <1>5 DEF FileFails, Leave, At, Idle
  <2>2. Claims' /\ SlotServedOnce'
    BY <1>0, <2>1, FailureSpares
  <2> QED
    BY <1>3, <2>1, <2>2 DEF OnceInv
<1>6. CASE ReportEmpty(c) \/ File(c)
  <2>1. /\ ~Idle(c) /\ Patch(c)
        /\ UNCHANGED <<clock, sched, ticks, body, due, sent, failures>>
    BY <1>6 DEF ReportEmpty, File, At, Idle
  <2> QED
    BY <2>1, OncePatch
<1> QED
  BY <1>2, <1>4, <1>5, <1>6, OnceDeliver DEF RunStep

\* The tick body: what it finds due may be delivered, and leaves `due` once.
LEMMA OnceTick == Inv /\ OnceInv /\ TickStep => OnceInv'
<1> SUFFICES ASSUME Inv, OnceInv, TickStep PROVE OnceInv'
  OBVIOUS
<1>0. /\ TypeOK /\ Awaited /\ Times /\ Past /\ Single /\ Claims /\ SlotServedOnce
      /\ ops \in Seq(Ops) /\ ticks \in Seq(Nat)
  BY DEF Inv, OnceInv, TypeOK
<1>1. SlotServedOnce' /\ UNCHANGED <<clock, sched, sent, failures>>
  BY <1>0 DEF TickStep, TickBegins, TickMissed, TickRuns, TickRefused, TickEnds, SlotServedOnce
<1>2. \A k \in Queue : ops[k].id \in Ids
  <2>1. \A k \in Queue : ops[k] \in Ops
    BY <1>0 DEF Queue
  <2> QED
    BY <2>1 DEF Ops
<1>3. CASE TickBegins
  <2>1. /\ body.stage = "idle" /\ ticks # <<>> /\ ticks' = Tail(ticks)
        /\ body'.stage = "loop" /\ body'.now = Head(ticks)
        /\ due' = {[id |-> i, freq |-> sched[i].freq, slot |-> sched[i].next] :
                        i \in {j \in Ids : IsDue(sched[j], Head(ticks))}}
        /\ UNCHANGED <<ops, run>>
    BY <1>3 DEF TickBegins
  <2>2. Idle("timer") /\ Idle("timer")'
    BY <1>0, <2>1 DEF Awaited, Idle
  <2>3. /\ 1 \in Waiting /\ Head(ticks) = ticks[1]
        /\ \A k \in Waiting' : k + 1 \in Waiting /\ 1 <= k + 1 /\ ticks'[k] = ticks[k + 1]
    BY <1>0, <2>1 DEF Waiting
  <2>4. \A d \in due' : /\ d.id \in Ids /\ d.slot = sched[d.id].next
                        /\ sched[d.id].state = "live"
                        /\ 0 < d.slot /\ d.slot <= Head(ticks)
    <3>1. \A i \in Ids : sched[i].next \in Nat
      BY <1>0 DEF TypeOK, Schedules
    <3> QED
      BY <2>1, <3>1 DEF IsDue, None
  <2>5. \A d, e \in due' : d.id = e.id => d = e
    BY <2>1
  <2>6. \A j, k \in Waiting' : j <= k => j + 1 <= k + 1
    BY DEF Waiting
  <2>7. Times'
    <3>1. \A k \in Waiting' : ticks'[k] <= clock /\ Head(ticks) <= ticks'[k]
      BY <1>0, <2>3 DEF Times
    <3>2. \A j, k \in Waiting' : j <= k => ticks'[j] <= ticks'[k]
      BY <1>0, <2>3, <2>6 DEF Times
    <3>3. Head(ticks) <= clock
      BY <1>0, <2>3 DEF Times
    <3> QED
      BY <1>1, <2>1, <2>2, <2>4, <3>1, <3>2, <3>3 DEF Times
  <2>8. Past'
    BY <1>0, <1>1, <2>1, <2>3 DEF Past
  <2>9. Single'
    BY <2>2, <2>5 DEF Single
  <2>10. Claims'
    <3>1. \A i \in Ids : ~Superseded(i) /\ ~Superseded(i)'
      BY <2>2 DEF Superseded, Idle
    <3>2. \A d \in due' : Spare(d.id, d.slot)'
      BY <1>0, <1>1, <2>4, <3>1 DEF Claims, Spare
    <3> QED
      BY <1>0, <1>1, <1>2, <2>1, <2>2, <3>1, <3>2 DEF Claims, Spare, Queue, Idle
  <2> QED
    BY <1>1, <2>7, <2>8, <2>9, <2>10 DEF OnceInv
\* In the loop the timer is idle, and `due` only shrinks.
<1>4. ASSUME body.stage = "loop", due' \subseteq due, UNCHANGED <<ticks, run>>,
             body'.stage = "idle" => due' = {}, body'.stage # "idle" => body'.now = body.now
      PROVE  Times' /\ Past' /\ Single'
  <2>1. Idle("timer") /\ Idle("timer")'
    BY <1>0, <1>4 DEF Awaited, Idle
  <2> QED
    BY <1>0, <1>1, <1>4, <2>1 DEF Times, Past, Single, Waiting
<1>5. CASE TickRefused \/ TickEnds
  <2>1. /\ body.stage = "loop" /\ due' \subseteq due /\ UNCHANGED <<ops, ticks, run>>
        /\ body'.stage = "idle" => due' = {}
        /\ body'.stage # "idle" => body'.now = body.now
    BY <1>5 DEF TickRefused, TickEnds, NoBody
  <2>2. Claims'
    BY <1>0, <1>1, <1>2, <2>1 DEF Claims, Spare, Superseded, Queue
  <2> QED
    BY <1>1, <1>4, <2>1, <2>2 DEF OnceInv
<1>6. CASE TickMissed
  <2>1. PICK d \in due :
           /\ due' = due \ {d}
           /\ Enqueue([kind |-> "patch", id |-> d.id, by |-> "missed",
                       next |-> NextRun(d.freq, body.now), sched |-> NoSchedule])
    BY <1>6 DEF TickMissed
  <2> DEFINE op == [kind |-> "patch", id |-> d.id, by |-> "missed",
                    next |-> NextRun(d.freq, body.now), sched |-> NoSchedule]
  <2>2. /\ body.stage = "loop" /\ body'.stage = "missed" /\ body'.now = body.now
        /\ UNCHANGED <<ticks, run>>
    BY <1>0, <1>6 DEF TickMissed, TypeOK
  <2>3. d.id \in Ids /\ d.freq \in Freqs /\ body.now \in Nat
    BY <1>0 DEF TypeOK
  <2>4. NextRun(d.freq, body.now) \in Nat /\ NextRun(d.freq, body.now) > body.now
    BY <2>3, NextRunType, NextRunAfter
  <2>5. op \in Ops /\ op.id = d.id /\ op.next = NextRun(d.freq, body.now) /\ op.sched.next = None
    BY <2>3, <2>4, NoScheduleType DEF Ops, NoSchedule
  <2>6. Enqueue(op)
    BY <2>1
  <2> HIDE DEF op
  <2>7. Spare(op.id, op.next) /\ Spare(op.id, op.sched.next)
    <3>1. Spare(d.id, NextRun(d.freq, body.now))
      BY <1>0, <2>2, <2>3, <2>4, ComingSpare
    <3> QED
      BY <2>5, <3>1 DEF Spare, Moments, None
  <2>8. Claims'
    BY <1>0, <1>1, <2>1, <2>2, <2>5, <2>6, <2>7, ClaimsQueued DEF Superseded
  <2> QED
    BY <1>1, <1>4, <2>1, <2>2, <2>8 DEF OnceInv
<1>7. CASE TickRuns
  <2>1. PICK d \in due : due' = due \ {d} /\ Enter("timer", d.id, body.now, d.slot)
    BY <1>7 DEF TickRuns
  <2>2. /\ body.stage = "loop" /\ body'.stage = "run" /\ body'.now = body.now
        /\ UNCHANGED <<ops, ticks>>
    BY <1>0, <1>7 DEF TickRuns, TypeOK
  <2>3. Idle("timer") /\ ~Idle("timer")'
    BY <1>0, <2>1, <2>2, NoRunType DEF Awaited, Idle, Enter, TypeOK, Callers, NoRun
  <2>4. /\ run'["timer"].stage = "entered" /\ run'["timer"].id = d.id
        /\ run'["timer"].now = body.now /\ run'["timer"].slot = d.slot
    BY <1>0, <2>1, NoRunType DEF Enter, TypeOK, Callers, NoRun
  <2>5. Times'
    BY <1>0, <1>1, <2>1, <2>2, <2>4 DEF Times, Waiting
  <2>6. Past'
    BY <1>0, <1>1, <2>2 DEF Past, Waiting
  <2>7. Single'
    BY <1>0, <2>1, <2>4 DEF Single
  <2>8. Claims'
    <3>1. \A i \in Ids : ~Superseded(i) /\ ~Superseded(i)'
      BY <2>3, <2>4 DEF Superseded, Idle
    <3> QED
      BY <1>0, <1>1, <1>2, <2>1, <2>2, <2>4, <3>1 DEF Claims, Spare, Queue
  <2> QED
    BY <1>1, <2>5, <2>6, <2>7, <2>8 DEF OnceInv
<1> QED
  BY <1>3, <1>5, <1>6, <1>7 DEF TickStep

\* An update is applied: what it puts in the schedule may be delivered, or is
\* superseded by the patch that follows it.
LEMMA OnceStore ==
    ASSUME Inv, TypeOK', OnceInv, Moving, StoreWrites \/ StoreFails
    PROVE  OnceInv'
<1> DEFINE op == Head(ops)
<1>0. /\ TypeOK /\ Awaited /\ Times /\ Past /\ Single /\ Claims /\ SlotServedOnce
      /\ ops \in Seq(Ops)
  BY DEF Inv, OnceInv, TypeOK
<1>1. /\ ops # <<>> /\ sched' = Applied(op) /\ ops' = Tail(ops) /\ Resume(op.by)
      /\ UNCHANGED <<clock, ticks, due, sent>>
  BY DEF StoreWrites, StoreFails
<1>2. /\ 1 \in Queue /\ op = ops[1] /\ op \in Ops
      /\ \A k \in Queue' : k + 1 \in Queue /\ ops'[k] = ops[k + 1]
  <2>1. 1 \in Queue /\ op = ops[1] /\ \A k \in Queue' : k + 1 \in Queue /\ ops'[k] = ops[k + 1]
    BY <1>0, <1>1, Dequeued
  <2>2. op \in Ops
    BY <1>0, <1>1
  <2> QED
    BY <2>1, <2>2
<1>3. /\ op.by = "timer" => run'["timer"].stage = "idle" /\ At("timer", "patching")
                            /\ run["timer"].id = op.id
      /\ op.by # "timer" => run'["timer"] = run["timer"]
      /\ op.by \in {"missed", "timer"} => body.stage # "idle" /\ body'.stage = "loop"
      /\ op.by \notin {"missed", "timer"} => body'.stage = body.stage
      /\ body'.now = body.now
  BY <1>0, <1>1, <1>2 DEF Resume, Leave, Awaited, TypeOK, NoRun, Callers, At, Idle
<1> HIDE DEF op
<1>4. Times' /\ Past' /\ Single'
  <2>1. op.by = "missed" => Idle("timer")
    BY <1>0, <1>2 DEF Awaited
  <2>2. ~Idle("timer")' => run'["timer"] = run["timer"] /\ ~Idle("timer")
    BY <1>3 DEF Idle
  <2>3. body'.stage = "idle" <=> body.stage = "idle"
    BY <1>3
  <2>4. Times'
    BY <1>0, <1>1, <1>3, <2>2, <2>3 DEF Times, Waiting
  <2>5. Past'
    BY <1>0, <1>1, <1>3, <2>3 DEF Past, Waiting
  <2>6. Single'
    BY <1>0, <1>1, <2>2 DEF Single
  <2> QED
    BY <2>4, <2>5, <2>6
<1>5. CASE StoreFails
  <2>1. Claims' /\ SlotServedOnce'
    BY <1>0, <1>1, <1>5, FailureSpares DEF StoreFails
  <2> QED
    BY <1>4, <2>1 DEF OnceInv
<1>6. CASE StoreWrites
  <2>1. UNCHANGED failures /\ SlotServedOnce'
    BY <1>0, <1>1, <1>6 DEF StoreWrites, SlotServedOnce
  <2>2. \A i \in Ids : Superseded(i)' <=> Superseded(i) /\ op.by # "timer"
    BY <1>3 DEF Superseded
  <2>3. \A i, t : Spare(i, t)' <=> Spare(i, t)
    BY <1>1, <2>1 DEF Spare
  <2>4. \A m \in 1 .. 1 : m = 1
    OBVIOUS
  <2>5. op.id \in Ids /\ \/ Spare(op.id, op.next) /\ Spare(op.id, op.sched.next)
                         \/ Superseded(op.id) /\ op.by # "timer"
    BY <1>0, <1>2 DEF Claims, Ops
  <2>6. ASSUME NEW i \in Ids, sched'[i].state = "live", ~Superseded(i)'
        PROVE  Spare(i, sched'[i].next)
    <3>1. sched[i] \in Schedules
      BY <1>0 DEF TypeOK
    <3>2. CASE op.kind = "patch" /\ op.id = i /\ sched[i].state = "live"
      <4>1. sched'[i] = Patched(sched[i], op)
        BY <1>1, <3>2 DEF Applied, op
      <4>2. CASE op.next = Keep
        <5>1. sched'[i].next = sched[i].next
          BY <3>1, <4>1, <4>2 DEF Patched, Schedules
        <5>2. op.by # "timer"
          BY <1>2, <4>2 DEF Moving
        <5> QED
          BY <1>0, <2>2, <2>6, <3>2, <5>1, <5>2 DEF Claims
      <4>3. CASE op.next # Keep
        <5>1. sched'[i].next = op.next
          BY <3>1, <4>1, <4>3 DEF Patched, Schedules
        <5> QED
          BY <2>2, <2>5, <2>6, <3>2, <5>1
      <4> QED
        BY <4>2, <4>3
    <3>3. CASE op.kind # "patch" /\ op.id = i /\ sched'[i] # sched[i]
      <4>1. sched'[i] = op.sched
        BY <1>0, <1>1, <3>3 DEF Applied, TypeOK
      <4> QED
        BY <2>2, <2>5, <2>6, <3>3, <4>1
    <3>4. CASE sched'[i] = sched[i] /\ (op.by = "timer" => op.id # i)
      <4>1. ~Superseded(i)
        BY <1>3, <2>2, <2>6, <3>4 DEF Superseded
      <4> QED
        BY <1>0, <2>6, <3>4, <4>1 DEF Claims
    <3>5. op.by = "timer" => op.kind = "patch"
      BY <1>0, <1>2 DEF Awaited, Callers
    <3>6. op.id # i => sched'[i] = sched[i]
      BY <1>0, <1>1 DEF Applied, TypeOK
    <3>7. op.kind = "patch" /\ op.id = i /\ sched[i].state # "live" => sched'[i] = sched[i]
      BY <1>1 DEF Applied
    <3> QED
      BY <2>6, <3>2, <3>3, <3>4, <3>5, <3>6, <3>7
  <2>7. ASSUME NEW k \in Queue'
        PROVE  (\/ Spare(ops[k].id, ops[k].next) /\ Spare(ops[k].id, ops[k].sched.next)
                \/ Superseded(ops[k].id) /\ \A m \in 1 .. k : ops[m].by # "timer")'
    <3>1. k + 1 \in Queue /\ ops'[k] = ops[k + 1] /\ ops[k + 1].id \in Ids
      <4>1. k + 1 \in Queue /\ ops'[k] = ops[k + 1]
        BY <1>2
      <4>2. ops[k + 1] \in Ops
        BY <1>0, <4>1 DEF Queue
      <4> QED
        BY <4>1, <4>2 DEF Ops
    <3>2. CASE Spare(ops[k + 1].id, ops[k + 1].next) /\ Spare(ops[k + 1].id, ops[k + 1].sched.next)
      BY <1>1, <2>1, <3>1, <3>2 DEF Spare
    <3>3. CASE Superseded(ops[k + 1].id) /\ \A m \in 1 .. k + 1 : ops[m].by # "timer"
      <4>1. 1 \in 1 .. k + 1 /\ \A m \in 1 .. k : m + 1 \in 1 .. k + 1 /\ m \in Queue'
        BY <3>1 DEF Queue
      <4>2. op.by # "timer" /\ \A m \in 1 .. k : ops'[m].by # "timer"
        BY <1>2, <3>3, <4>1
      <4>3. run'["timer"] = run["timer"]
        BY <1>3, <4>2
      <4> QED
        BY <3>1, <3>3, <4>2, <4>3 DEF Superseded
    <3> QED
      BY <1>0, <3>1, <3>2, <3>3 DEF Claims
  <2>8. (\A d \in due : Spare(d.id, d.slot))'
    BY <1>0, <1>1, <2>1 DEF Claims, Spare
  <2>9. (run["timer"].stage \in {"entered", "reporting"} => Spare(run["timer"].id, run["timer"].slot))'
    BY <1>0, <1>1, <1>3, <2>1 DEF Claims, Spare
  <2>10. (\A i \in Ids : sched[i].state = "live" /\ ~Superseded(i) => Spare(i, sched[i].next))'
    BY <1>1, <2>1, <2>6 DEF Spare
  <2>11. Claims'
    BY <2>7, <2>8, <2>9, <2>10 DEF Claims
  <2> QED
    BY <1>4, <2>1, <2>11 DEF OnceInv
<1> QED
  BY <1>5, <1>6

\* A new process has nothing under way, and a failure to spare.
LEMMA OnceRestart ==
    ASSUME Inv, TypeOK', OnceInv, Started, Failure, UNCHANGED <<clock, sent>>
    PROVE  OnceInv'
<1>1. Idle("timer")' /\ body'.stage = "idle" /\ due' = {} /\ Waiting' = {}
  BY DEF Started, Idle, NoRun, NoBody, Waiting, Callers
<1>2. Times' /\ Past' /\ Single'
  BY <1>1 DEF OnceInv, Times, Past, Single
<1>3. Claims' /\ SlotServedOnce'
  BY FailureSpares DEF OnceInv, Inv
<1> QED
  BY <1>2, <1>3 DEF OnceInv

\* The clock and the calls of the timer.
LEMMA OnceClock ==
    ASSUME Inv, OnceInv, TickFires \/ Advance \/ UNCHANGED vars
    PROVE  OnceInv'
<1>0. /\ TypeOK /\ Times /\ Past /\ Single /\ Claims /\ SlotServedOnce
      /\ clock \in Nat /\ ticks \in Seq(Nat)
  BY TimeAssumption DEF Inv, OnceInv, TypeOK
<1>1. UNCHANGED <<sched, ops, body, due, run, sent, failures>>
  BY DEF TickFires, Advance, vars
<1>2. Claims' /\ Single' /\ SlotServedOnce'
  BY <1>0, <1>1 DEF Claims, Spare, Superseded, Queue, Single, Idle, SlotServedOnce
<1>3. CASE UNCHANGED <<clock, ticks>>
  BY <1>0, <1>1, <1>2, <1>3 DEF OnceInv, Times, Past, Waiting, Idle
<1>4. CASE Advance
  <2>1. clock' = clock + 1 /\ ticks' = ticks
    BY <1>4 DEF Advance
  <2>2. \A k \in Waiting : ticks[k] \in Nat
    BY <1>0 DEF Waiting
  <2>3. body.now \in Nat
    BY <1>0 DEF TypeOK
  <2>4. Times'
    BY <1>0, <1>1, <2>1, <2>2, <2>3 DEF Times, Waiting, Idle
  <2>5. Past'
    BY <1>0, <1>1, <2>1 DEF Past, Waiting, Moments
  <2> QED
    BY <1>2, <2>4, <2>5 DEF OnceInv
<1>5. CASE TickFires
  <2>1. clock' = clock /\ ticks' = Append(ticks, clock)
    BY <1>5 DEF TickFires
  <2>2. /\ Waiting' = Waiting \cup {Len(ticks) + 1}
        /\ \A k \in Waiting : ticks'[k] = ticks[k] /\ k <= Len(ticks)
        /\ ticks'[Len(ticks) + 1] = clock
    BY <1>0, <2>1 DEF Waiting
  <2>3. Len(ticks) \in Nat
    BY <1>0
  <2>4. Times'
    <3>1. \A k \in Waiting' : ticks'[k] <= clock
      BY <1>0, <2>2 DEF Times
    <3>2. \A j, k \in Waiting' : j <= k => ticks'[j] <= ticks'[k]
      <4> SUFFICES ASSUME NEW j \in Waiting', NEW k \in Waiting', j <= k
                   PROVE  ticks'[j] <= ticks'[k]
        OBVIOUS
      <4>1. CASE k \in Waiting
        <5>1. k \in Nat /\ k <= Len(ticks)
          BY <2>2, <4>1 DEF Waiting
        <5>2. j # Len(ticks) + 1
          BY <2>3, <5>1
        <5>3. j \in Waiting
          BY <2>2, <5>2
        <5> QED
          BY <1>0, <2>2, <4>1, <5>3 DEF Times
      <4>2. CASE k = Len(ticks) + 1
        BY <2>1, <2>2, <3>1, <4>2
      <4> QED
        BY <2>2, <4>1, <4>2
    <3>3. body.stage # "idle" => \A k \in Waiting' : body.now <= ticks'[k]
      BY <1>0, <2>2 DEF Times
    <3> QED
      BY <1>0, <1>1, <2>1, <3>1, <3>2, <3>3 DEF Times, Idle
  <2>5. Past'
    BY <1>0, <1>1, <2>1, <2>2 DEF Past
  <2> QED
    BY <1>2, <2>4, <2>5 DEF OnceInv
<1> QED
  BY <1>3, <1>4, <1>5 DEF vars

LEMMA MovingStep == Inv /\ Times /\ Moving /\ [Next]_vars => Moving'
<1> SUFFICES ASSUME Inv, Times, Moving, [Next]_vars PROVE Moving'
  OBVIOUS
<1>0. TypeOK /\ Awaited /\ ops \in Seq(Ops)
  BY DEF Inv, TypeOK
<1>1. CASE ops' = ops
  BY <1>1 DEF Moving, Queue
<1>2. ASSUME NEW op, Enqueue(op), op.by = "timer" => op.next # Keep PROVE Moving'
  BY <1>0, <1>2, Appended DEF Moving
<1>3. CASE ops # <<>> /\ ops' = Tail(ops)
  BY <1>0, <1>3, Dequeued DEF Moving
<1>4. CASE ops' = <<>>
  BY <1>4 DEF Moving, Queue
<1>5. ASSUME NEW i \in Ids, Create(i) \/ Edit(i) \/ Remove(i) \/ RunNow(i) PROVE Moving'
  <2>1. CASE Create(i)
    BY <1>2, <2>1 DEF Create
  <2>2. CASE Edit(i)
    BY <1>2, <2>2 DEF Edit
  <2>3. CASE Remove(i)
    BY <1>2, <2>3 DEF Remove
  <2>4. CASE RunNow(i)
    BY <1>1, <2>4 DEF RunNow
  <2> QED
    BY <1>5, <2>1, <2>2, <2>3, <2>4
<1>6. ASSUME NEW c \in Callers, RunStep(c) PROVE Moving'
  <2>1. CASE ReportEmpty(c) \/ File(c)
    <3>1. ~Idle(c) /\ Enqueue([kind |-> "patch", id |-> run[c].id, next |-> Moved(c), by |-> c,
                               sched |-> NoSchedule])
      BY <2>1 DEF ReportEmpty, File, Patch, At, Idle
    <3>2. c = "timer" => Moved(c) # Keep
      <4> SUFFICES ASSUME c = "timer" PROVE Moved(c) # Keep
        OBVIOUS
      <4>1. run[c].now = body.now /\ body.now \in Nat /\ run[c].freq \in Freqs
        BY <1>0, <3>1 DEF Times, TypeOK, Runs
      <4>2. Moved(c) \in Nat
        BY <4>1, NextRunType DEF Moved, Keep
      <4> QED
        BY <4>2 DEF Keep
    <3> QED
      BY <1>2, <3>1, <3>2
  <2>2. CASE ~(ReportEmpty(c) \/ File(c))
    BY <1>1, <1>6, <2>2 DEF RunStep, GetCopy, GetThrows, Deliver, ReportThrows, FileFails
  <2> QED
    BY <2>1, <2>2
<1>7. CASE StoreWrites \/ StoreFails
  BY <1>3, <1>7 DEF StoreWrites, StoreFails
<1>8. CASE MissedFails \/ Crash
  BY <1>4, <1>8 DEF MissedFails, Crash, Started
<1>9. CASE TickMissed
  BY <1>2, <1>9 DEF TickMissed
<1>10. CASE TickBegins \/ TickRuns \/ TickRefused \/ TickEnds
  BY <1>1, <1>10 DEF TickBegins, TickRuns, TickRefused, TickEnds
<1>11. CASE TickFires \/ Advance \/ UNCHANGED vars
  BY <1>1, <1>11 DEF TickFires, Advance, vars
<1> QED
  BY <1>5, <1>6, <1>7, <1>8, <1>9, <1>10, <1>11 DEF Next, StoreStep, TickStep

LEMMA OnceStep == Inv /\ OnceInv /\ Moving /\ [Next]_vars => OnceInv'
<1> SUFFICES ASSUME Inv, OnceInv, Moving, [Next]_vars PROVE OnceInv'
  OBVIOUS
<1>1. TypeOK'
  BY Typing DEF Inv
<1>2. CASE MissedFails \/ Crash
  BY <1>1, <1>2, OnceRestart DEF MissedFails, Crash
<1>3. CASE StoreWrites \/ StoreFails
  BY <1>1, <1>3, OnceStore
<1>4. ASSUME NEW i \in Ids, Create(i) \/ Edit(i) \/ Remove(i) \/ RunNow(i) PROVE OnceInv'
  BY <1>4, OnceRequest
<1>5. ASSUME NEW c \in Callers, RunStep(c) PROVE OnceInv'
  BY <1>1, <1>5, OnceRun
<1>6. CASE TickFires \/ Advance \/ UNCHANGED vars
  BY <1>6, OnceClock
<1> QED
  BY <1>2, <1>3, <1>4, <1>5, <1>6, OnceTick DEF Next, StoreStep

\* A run time is delivered at most once more than there were failed writes and
\* process ends: edits, "run now", overlapping ticks and runs that were missed,
\* refused or failed cause no second delivery.
THEOREM ServedOnce == Spec => []SlotServedOnce
<1>1. Init => Inv /\ OnceInv /\ Moving
  <2>1. Init => Moving
    BY DEF Init, Moving, Queue
  <2> QED
    BY <2>1, InitInv, OnceInit
<1>2. Inv /\ OnceInv /\ Moving /\ [Next]_vars => (Inv /\ OnceInv /\ Moving)'
  BY InvStep, OnceStep, MovingStep DEF OnceInv
<1>3. OnceInv => SlotServedOnce
  BY DEF OnceInv
<1> QED
  BY <1>1, <1>2, <1>3, PTL DEF Spec
=============================================================================
