----------------------------- MODULE Scheduler -----------------------------
(* reports/scheduler.service.ts: saved schedules, the timer that runs the  *)
(* due ones, "run now", and the user's edits, all on one event loop.       *)
(*                                                                         *)
(* A schedule's frequency is a period and its times are the multiples of   *)
(* that period. SCHEDULES_FILE is a JsonStore: `sched` is the document in  *)
(* memory, `saved` the file, `ops` the update() calls in their queue; each *)
(* applies to memory and is then saved, or fails to be. What a report says *)
(* and which recipients a send fails for are left open.                    *)
EXTENDS Integers, Sequences

CONSTANTS Ids,          \* schedule ids; create() never uses one twice
          Freqs,        \* the periods a schedule may have
          CatchUp,      \* CATCH_UP_MS
          MaxTime,      \* bound on the clock
          MaxTicks,     \* bound on timer calls waiting or running
          MaxRequests,  \* bound on the users' requests
          MaxFailures   \* bound on failed writes and process ends together

ASSUME IdsAssumption == Ids # {}
ASSUME FreqsAssumption == Freqs \subseteq Nat \ {0} /\ Freqs # {}
ASSUME TimeAssumption == CatchUp \in Nat /\ MaxTime \in Nat

VARIABLES clock,
          sched,    \* this.store in memory: id -> schedule
          saved,    \* SCHEDULES_FILE
          ops,      \* the store's queue of updates
          ticks,    \* the `now` of each tick() waiting in the chain this.ticking
          body,     \* the tick body under way: its stage and its `now`
          due,      \* the due schedules it has not come to yet, as it found them
          run,      \* execute(): what the timer and the "run now" caller run
          running,  \* this.running
          sent,     \* history: WhatsApp sends for each schedule and run time
          requests, failures

vars == <<clock, sched, saved, ops, ticks, body, due, run, running, sent,
          requests, failures>>

Callers == {"timer", "user"}
None == 0       \* no next run: nextRunAt is undefined (times start at 1)
Keep == -1      \* no `now` (a "run now"), and a patch without nextRunAt

Schedules == [state : {"new", "live", "gone"}, freq : Freqs, enabled : BOOLEAN, next : Nat]
Stages == {"idle", "entered", "reporting", "filing", "patching"}
Runs == [stage : Stages, id : Ids, now : Nat \cup {Keep}, slot : Nat, freq : Freqs]
Ops == [kind : {"create", "replace", "remove", "patch"}, id : Ids,
        sched : Schedules, next : Nat \cup {Keep}, by : Callers \cup {"missed", "request"}]

TypeOK == /\ clock \in 0 .. MaxTime
          /\ sched \in [Ids -> Schedules]
          /\ saved \in [Ids -> Schedules]
          /\ ops \in Seq(Ops)
          /\ ticks \in Seq(Nat)
          /\ body \in [stage : {"idle", "loop", "missed", "run"}, now : Nat]
          /\ due \subseteq [id : Ids, freq : Freqs, slot : Nat]
          /\ run \in [Callers -> Runs]
          /\ running \subseteq Ids
          /\ sent \in [Ids -> [1 .. MaxTime -> Nat]]
          /\ requests \in Nat /\ failures \in Nat

Idle(c) == run[c].stage = "idle"
AnyFreq == CHOOSE f \in Freqs : TRUE
NoSchedule == [state |-> "new", freq |-> AnyFreq, enabled |-> FALSE, next |-> None]
NoRun == [stage |-> "idle", id |-> CHOOSE i \in Ids : TRUE, now |-> Keep,
          slot |-> None, freq |-> AnyFreq]
NoBody == [stage |-> "idle", now |-> 0]

\* The process as it starts, on the schedules of the file.
Started == /\ ops' = <<>>
           /\ ticks' = <<>>
           /\ body' = NoBody
           /\ due' = {}
           /\ run' = [c \in Callers |-> NoRun]
           /\ running' = {}

Init == /\ clock = 0
        /\ sched = [i \in Ids |-> NoSchedule]
        /\ saved = sched
        /\ ops = <<>>
        /\ ticks = <<>>
        /\ body = NoBody
        /\ due = {}
        /\ run = [c \in Callers |-> NoRun]
        /\ running = {}
        /\ sent = [i \in Ids |-> [t \in 1 .. MaxTime |-> 0]]
        /\ requests = 0 /\ failures = 0

\* Mutant: "at or after", as a cron library that includes its argument.
NextRunFrom(f, t) == ((t + f - 1) \div f) * f

\* nextRun: the first time of the frequency strictly after t.
NextRun(f, t) == ((t \div f) + 1) * f

IsTime(f, t) == t % f = 0

Request == requests < MaxRequests /\ requests' = requests + 1
Failure == failures < MaxFailures /\ failures' = failures + 1
-----------------------------------------------------------------------------
(* The store: this.store.update *)

\* Mutant: nextRunAt is among the patch's fields of a "run now" too, undefined.
PatchedUndefined(s, op) == [s EXCEPT !.next = op.next]

\* patch: Object.assign of the run's outcome onto the schedule; nextRunAt is
\* among the fields only when the run was a scheduled one.
Patched(s, op) == [s EXCEPT !.next = IF op.next = Keep THEN @ ELSE op.next]

\* Mutant: update() puts the schedule in the list whether it is there or not.
AppliedUpsert(op) ==
    CASE op.kind = "patch" ->
            [i \in Ids |-> IF i = op.id /\ sched[i].state = "live"
                           THEN Patched(sched[i], op) ELSE sched[i]]
      [] OTHER -> [sched EXCEPT ![op.id] = op.sched]

\* What update(fn) does to the document, for each fn the scheduler passes:
\* create pushes, update maps, remove filters, patch assigns.
Applied(op) ==
    CASE op.kind = "patch" ->
            [i \in Ids |-> IF i = op.id /\ sched[i].state = "live"
                           THEN Patched(sched[i], op) ELSE sched[i]]
      [] op.kind = "replace" ->
            [i \in Ids |-> IF i = op.id /\ sched[i].state = "live" THEN op.sched ELSE sched[i]]
      [] OTHER -> [sched EXCEPT ![op.id] = op.sched]

Enqueue(op) == ops' = Append(ops, op)

\* Mutant: the `finally` of execute() does not give the schedule up.
LeaveRunning(c) == /\ run' = [run EXCEPT ![c] = NoRun]
                   /\ UNCHANGED running

\* execute() ends, one way or the other: `finally { this.running.delete(id) }`.
Leave(c) == /\ run' = [run EXCEPT ![c] = NoRun]
            /\ running' = running \ {run[c].id}

\* Whoever awaits the update goes on: a request is answered, the tick body
\* takes the next due schedule, execute() returns (or its rejection is logged).
Resume(by) == /\ body' = IF by \in {"missed", "timer"} THEN [body EXCEPT !.stage = "loop"] ELSE body
              /\ IF by \in Callers THEN Leave(by) ELSE UNCHANGED <<run, running>>

\* The update at the head of the queue: applied, written, its caller resumed.
StoreWrites == /\ ops # <<>>
               /\ sched' = Applied(Head(ops))
               /\ saved' = sched'
               /\ ops' = Tail(ops)
               /\ Resume(Head(ops).by)
               /\ UNCHANGED <<clock, ticks, due, sent, requests, failures>>

\* It is applied in memory and the write fails: its caller sees the error. For
\* execute() that is logged; for a request it is an error response.
StoreFails == /\ ops # <<>>
              /\ Head(ops).by # "missed"
              /\ Failure
              /\ sched' = Applied(Head(ops))
              /\ ops' = Tail(ops)
              /\ Resume(Head(ops).by)
              /\ UNCHANGED <<clock, saved, ticks, due, sent, requests>>

\* The write of a missed run fails: nothing catches it in the tick body, the
\* timer calls `void this.tick()`, and an unhandled rejection ends the process.
MissedFails == /\ ops # <<>>
               /\ Head(ops).by = "missed"
               /\ Failure
               /\ sched' = saved
               /\ Started
               /\ UNCHANGED <<clock, saved, sent, requests>>

Crash == /\ Failure
         /\ sched' = saved
         /\ Started
         /\ UNCHANGED <<clock, saved, sent, requests>>
-----------------------------------------------------------------------------
(* Requests: POST, PUT and DELETE of a schedule *)

\* nextRunAt of a schedule as created or edited now.
FirstRun(f, enabled) == IF enabled THEN NextRun(f, clock) ELSE None

\* create: the id is new.
Create(i) == /\ sched[i].state = "new"
             /\ \A k \in 1 .. Len(ops) : ops[k].id # i
             /\ Request
             /\ \E f \in Freqs, e \in BOOLEAN :
                    Enqueue([kind |-> "create", id |-> i, next |-> Keep, by |-> "request",
                             sched |-> [state |-> "live", freq |-> f, enabled |-> e,
                                        next |-> FirstRun(f, e)]])
             /\ UNCHANGED <<clock, sched, saved, ticks, body, due, run, running, sent,
                            failures>>

\* update: the stored schedule with the user's input over it, and its next run
\* counted from now; what is read here is written when the queue comes to it.
Edit(i) == /\ sched[i].state = "live"
           /\ Request
           /\ \E f \in Freqs, e \in BOOLEAN :
                  Enqueue([kind |-> "replace", id |-> i, next |-> Keep, by |-> "request",
                           sched |-> [sched[i] EXCEPT !.freq = f, !.enabled = e,
                                                      !.next = FirstRun(f, e)]])
           /\ UNCHANGED <<clock, sched, saved, ticks, body, due, run, running, sent,
                          failures>>

Remove(i) == /\ sched[i].state = "live"
             /\ Request
             /\ Enqueue([kind |-> "remove", id |-> i, next |-> Keep, by |-> "request",
                         sched |-> [NoSchedule EXCEPT !.state = "gone"]])
             /\ UNCHANGED <<clock, sched, saved, ticks, body, due, run, running, sent,
                            failures>>
-----------------------------------------------------------------------------
(* execute(id, now): the report, WhatsApp, the inbox, the outcome *)

\* Mutant: execute() does not look at this.running.
EnterAlways(c, i, now, slot) ==
    /\ running' = running \cup {i}
    /\ run' = [run EXCEPT ![c] = [NoRun EXCEPT !.stage = "entered", !.id = i,
                                              !.now = now, !.slot = slot]]

\* "This schedule is already running" is the other way out: see TickRefused.
Enter(c, i, now, slot) ==
    /\ i \notin running
    /\ running' = running \cup {i}
    /\ run' = [run EXCEPT ![c] = [NoRun EXCEPT !.stage = "entered", !.id = i,
                                              !.now = now, !.slot = slot]]

\* POST /schedules/:id/run
RunNow(i) == /\ Idle("user")
             /\ sched[i].state # "new"
             /\ Request
             /\ Enter("user", i, Keep, None)
             /\ UNCHANGED <<clock, sched, saved, ops, ticks, body, due, sent, failures>>

At(c, stage) == run[c].stage = stage

\* execute() of the timer is over before the store is asked for anything:
\* the tick body logs it and goes on.
BodyAfter(c) == body' = IF c = "timer" THEN [body EXCEPT !.stage = "loop"] ELSE body

\* await this.get(id): a copy of the schedule to run.
GetCopy(c) == /\ At(c, "entered")
              /\ sched[run[c].id].state = "live"
              /\ run' = [run EXCEPT ![c].stage = "reporting", ![c].freq = sched[run[c].id].freq]
              /\ UNCHANGED <<clock, sched, saved, ops, ticks, body, due, running, sent,
                             requests, failures>>

\* The schedule was deleted meanwhile. get() throws before the `try` whose
\* `finally` clears this.running: the id stays in it for good.
GetThrows(c) == /\ At(c, "entered")
                /\ sched[run[c].id].state # "live"
                /\ run' = [run EXCEPT ![c] = NoRun]
                /\ BodyAfter(c)
                /\ UNCHANGED <<clock, sched, saved, ops, ticks, due, running, sent,
                               requests, failures>>

\* Mutant: "run now" moves the next run, as a scheduled run does.
MovedAlways(c) == NextRun(run[c].freq, IF run[c].now = Keep THEN clock ELSE run[c].now)

\* `...(scheduled ? { nextRunAt: this.next(s, now) } : {})`, with s and now as
\* they were when the run began.
Moved(c) == IF run[c].now = Keep THEN Keep ELSE NextRun(run[c].freq, run[c].now)

Patch(c) == /\ Enqueue([kind |-> "patch", id |-> run[c].id, next |-> Moved(c), by |-> c,
                        sched |-> NoSchedule])
            /\ run' = [run EXCEPT ![c].stage = "patching"]

\* The report has rows: the WhatsApp messages go out. A recipient that fails
\* is noted in the outcome and does not stop the run.
Deliver(c) == /\ At(c, "reporting")
              /\ run' = [run EXCEPT ![c].stage = "filing"]
              /\ sent' = IF run[c].now = Keep THEN sent
                         ELSE [sent EXCEPT ![run[c].id][run[c].slot] = @ + 1]
              /\ UNCHANGED <<clock, sched, saved, ops, ticks, body, due, running,
                             requests, failures>>

\* The template or the ask pipeline throws: the failure goes to the inbox.
ReportThrows(c) == /\ At(c, "reporting")
                   /\ run' = [run EXCEPT ![c].stage = "filing"]
                   /\ UNCHANGED <<clock, sched, saved, ops, ticks, body, due, running, sent,
                                  requests, failures>>

\* onlyIfRows and no rows: nothing is sent or filed.
ReportEmpty(c) == /\ At(c, "reporting")
                  /\ Patch(c)
                  /\ UNCHANGED <<clock, sched, saved, ticks, body, due, running, sent,
                                 requests, failures>>

\* inbox.add, then notify (whose failures are caught), then patch; in the
\* other order for a failed report.
File(c) == /\ At(c, "filing")
           /\ Patch(c)
           /\ UNCHANGED <<clock, sched, saved, ticks, body, due, running, sent,
                          requests, failures>>

\* inbox.add fails: execute() rejects, the schedule is not patched, and a
\* scheduled run is due again at the next tick though it was sent.
FileFails(c) == /\ At(c, "filing")
                /\ Failure
                /\ Leave(c)
                /\ BodyAfter(c)
                /\ UNCHANGED <<clock, sched, saved, ops, ticks, due, sent, requests>>
-----------------------------------------------------------------------------
(* tick(now) *)

Advance == /\ clock < MaxTime
           /\ clock' = clock + 1
           /\ UNCHANGED <<sched, saved, ops, ticks, body, due, run, running, sent,
                          requests, failures>>

\* setInterval: a tick waits for the one before it, with the time of its call.
TickFires == /\ Len(ticks) + (IF body.stage = "idle" THEN 0 ELSE 1) < MaxTicks
             /\ ticks' = Append(ticks, clock)
             /\ UNCHANGED <<clock, sched, saved, ops, body, due, run, running, sent,
                            requests, failures>>

IsDue(s, now) == s.state = "live" /\ s.enabled /\ s.next # None /\ s.next <= now

\* The chained body starts: the due schedules are read once. The loop comes to
\* the first of them at once and to the others after awaits; here anything may
\* happen before each.
TickBegins == /\ body.stage = "idle"
              /\ ticks # <<>>
              /\ body' = [stage |-> "loop", now |-> Head(ticks)]
              /\ ticks' = Tail(ticks)
              /\ due' = {[id |-> i, freq |-> sched[i].freq, slot |-> sched[i].next] :
                              i \in {j \in Ids : IsDue(sched[j], Head(ticks))}}
              /\ UNCHANGED <<clock, sched, saved, ops, run, running, sent,
                             requests, failures>>

TooLate(d) == body.now - d.slot > CatchUp

\* The run is older than CATCH_UP_MS: marked missed, the next one from now.
TickMissed == /\ body.stage = "loop"
              /\ \E d \in due :
                    /\ TooLate(d)
                    /\ due' = due \ {d}
                    /\ Enqueue([kind |-> "patch", id |-> d.id, by |-> "missed",
                                next |-> NextRun(d.freq, body.now),
                                sched |-> NoSchedule])
              /\ body' = [body EXCEPT !.stage = "missed"]
              /\ UNCHANGED <<clock, sched, saved, ticks, run, running, sent,
                             requests, failures>>

TickRuns == /\ body.stage = "loop"
            /\ \E d \in due : /\ ~TooLate(d)
                              /\ due' = due \ {d}
                              /\ Enter("timer", d.id, body.now, d.slot)
            /\ body' = [body EXCEPT !.stage = "run"]
            /\ UNCHANGED <<clock, sched, saved, ops, ticks, sent, requests, failures>>

\* execute() refuses a schedule that is running: logged, left to the next tick.
TickRefused == /\ body.stage = "loop"
               /\ \E d \in due : /\ ~TooLate(d)
                                 /\ d.id \in running
                                 /\ due' = due \ {d}
               /\ UNCHANGED <<clock, sched, saved, ops, ticks, body, run, running, sent,
                              requests, failures>>

TickEnds == /\ body.stage = "loop"
            /\ due = {}
            /\ body' = NoBody
            /\ UNCHANGED <<clock, sched, saved, ops, ticks, due, run, running, sent,
                           requests, failures>>
-----------------------------------------------------------------------------
RunStep(c) == \/ GetCopy(c)
              \/ GetThrows(c)
              \/ Deliver(c)
              \/ ReportThrows(c)
              \/ ReportEmpty(c)
              \/ File(c)
              \/ FileFails(c)

StoreStep == StoreWrites \/ StoreFails \/ MissedFails

TickStep == TickBegins \/ TickMissed \/ TickRuns \/ TickRefused \/ TickEnds

Next == \/ \E i \in Ids : Create(i) \/ Edit(i) \/ Remove(i) \/ RunNow(i)
        \/ \E c \in Callers : RunStep(c)
        \/ StoreStep
        \/ TickStep
        \/ TickFires
        \/ Advance
        \/ Crash

Spec == Init /\ [][Next]_vars

\* The timer keeps firing and the event loop runs what is ready: reports,
\* sends and writes end (each has a timeout). Users and crashes owe nothing.
Fairness == /\ WF_vars(TickFires)
            /\ WF_vars(TickStep)
            /\ WF_vars(StoreStep)
            /\ \A c \in Callers : WF_vars(RunStep(c))

FairSpec == Spec /\ Fairness
-----------------------------------------------------------------------------
(* Properties *)

\* A schedule is run by one execute() at a time, whoever asked for it: the
\* timer and "run now" never report twice side by side.
OneRunPerSchedule ==
    \A c, e \in Callers : ~Idle(c) /\ ~Idle(e) /\ run[c].id = run[e].id => c = e

\* Whatever is running is in this.running, so nobody else starts it.
RunningIsMarked == \A c \in Callers : ~Idle(c) => run[c].id \in running

\* A run time is delivered once: another delivery of it takes a failed write
\* or the end of the process. Edits, "run now" and overlapping ticks do not
\* cause one ("Already ran: the same moment does nothing more").
SlotServedOnce ==
    \A i \in Ids : \A t \in 1 .. MaxTime : sent[i][t] <= 1 + failures

\* A deletion that reached the file is final: no edit or run that was under
\* way brings the schedule back.
RemovedForGood ==
    [][\A i \in Ids : saved[i].state = "gone" => saved'[i].state = "gone"]_vars

\* "Run now leaves it alone": when a "run now" records its outcome, what the
\* user set meanwhile and the next run stay as they are.
RunNowLeavesScheduleAlone ==
    [][(StoreWrites \/ StoreFails) /\ Head(ops).by = "user" =>
         sched'[run["user"].id] = sched[run["user"].id]]_vars

\* Every due run is handled: delivered, skipped, failed, marked missed or taken
\* over by an edit. No failure, refusal or crash on the way loses it for good.
DueIsHandled ==
    \A i \in Ids : \A t \in 1 .. MaxTime :
        sched[i].next = t /\ IsDue(sched[i], clock) ~> ~(sched[i].next = t /\ IsDue(sched[i], clock))

\* "Runs saved schedules at their time": the run times the timer finds due are
\* times of the frequency the schedule was saved with.
RunsAtTheirTime == \A d \in due : IsTime(d.freq, d.slot)
=============================================================================
