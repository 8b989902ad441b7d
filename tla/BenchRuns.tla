----------------------------- MODULE BenchRuns -----------------------------
(* bench/bench.service.ts with eval/engine.ts and eval/runner.ts: the runs *)
(* of the web bench, from start() to the saved report, with cancel, remove *)
(* and the run page of the web app that polls one of them.                 *)
(*                                                                         *)
(* A run goes over its cases once per variant and repeat: a pass, in which *)
(* mapLimit's workers take cases in order and finish them out of order.    *)
(* What a case costs or scores is left out: a result is the case and its   *)
(* pass. A run is its id (runs of a dataset started in one second share    *)
(* theirs, which is left out).                                             *)
EXTENDS Integers, Sequences, FiniteSets

CONSTANTS Runs,         \* the runs ever asked for
          Watched,      \* the run the page shows
          Passes,       \* of each run: variants times repeats
          Cases,        \* of each run: the number of cases, in dataset order
          Concurrency,  \* mapLimit's limit
          Retries       \* retries of a case after a provider error (3)

ASSUME WatchedAssumption == Watched \in Runs
ASSUME SizesAssumption == /\ Passes \in [Runs -> Nat \ {0}] /\ Cases \in [Runs -> Nat \ {0}]
                          /\ Concurrency \in Nat \ {0} /\ Retries \in Nat

VARIABLES run,      \* the RunState of each run and what its runEval is doing
          active,   \* this.active
          recent,   \* this.recent: unsaved runs that ended
          disk,     \* results.json of each run
          page      \* useRun of the run page

vars == <<run, active, recent, disk, page>>

Nobody == "nobody"
ASSUME NobodyAssumption == Nobody \notin Runs
\* status 'gold'; 'running' while a pass starts, its cases run, or the report
\* is saved.
UnderWay == {"gold", "starting", "cases", "saving"}
Ended == {"done", "failed", "cancelled"}
Stages == {"none", "loading"} \cup UnderWay \cup Ended
Jobs(r) == 1 .. Cases[r]
Results(r) == Seq((1 .. Passes[r]) \X Jobs(r))

TypeOK ==
    /\ \A r \in Runs :
          run[r] \in [stage : Stages, aborted : BOOLEAN, pass : 1 .. Passes[r],
                      next : 1 .. Cases[r] + 1, busy : SUBSET Jobs(r),
                      retry : [Jobs(r) -> 0 .. Retries], broken : BOOLEAN,
                      results : Results(r)]
    /\ active \in Runs \cup {Nobody}
    /\ recent \subseteq Runs
    /\ disk \in [Runs -> {"none", "torn", "whole"}]
    /\ page \in [phase : {"polling", "reloading", "stopped"}, wasLive : BOOLEAN,
                 status : Ended \cup {"live", "unknown"}, results : Results(Watched)]

NoRun(r) == [stage |-> "none", aborted |-> FALSE, pass |-> 1, next |-> 1, busy |-> {},
             retry |-> [j \in Jobs(r) |-> 0], broken |-> FALSE, results |-> <<>>]

Init == /\ run = [r \in Runs |-> NoRun(r)]
        /\ active = Nobody
        /\ recent = {}
        /\ disk = [r \in Runs |-> "none"]
        /\ page = [phase |-> "polling", wasLive |-> FALSE, status |-> "unknown", results |-> <<>>]

In(r, stage) == run[r].stage = stage
Becomes(r, stage) == run' = [run EXCEPT ![r].stage = stage]

\* Mutant: the catch passes a cancellation on, and the status stays as it is.
EndsFailed(r) == /\ ~run[r].aborted
                 /\ Becomes(r, "failed")
                 /\ recent' = recent \cup {r}

\* The catch of execute(): any error of a run that was asked to stop is its
\* cancellation.
Ends(r) == /\ Becomes(r, IF run[r].aborted THEN "cancelled" ELSE "failed")
           /\ recent' = recent \cup {r}
-----------------------------------------------------------------------------
(* start(), cancel(), remove() *)

ActiveUnderWay == active \in Runs /\ run[active].stage \in UnderWay

\* start(): refused while the active run is under way; then the dataset is
\* awaited.
Start(r) == /\ In(r, "none")
            /\ ~ActiveUnderWay
            /\ Becomes(r, "loading")
            /\ UNCHANGED <<active, recent, disk, page>>

\* The dataset is there and the request is in order: the run is made the
\* active one, without another look at the one that is.
Activate(r) == /\ In(r, "loading")
               /\ active' = r
               /\ Becomes(r, "gold")
               /\ UNCHANGED <<recent, disk, page>>

\* No such dataset, no case, over the cap, no key: an error response.
Refuse(r) == /\ In(r, "loading")
             /\ Becomes(r, "none")
             /\ UNCHANGED <<active, recent, disk, page>>

\* cancel(): of the active run only.
Cancel(r) == /\ active = r
             /\ run[r].stage \in UnderWay
             /\ ~run[r].aborted
             /\ run' = [run EXCEPT ![r].aborted = TRUE]
             /\ UNCHANGED <<active, recent, disk, page>>

\* remove(): forgotten in memory and deleted on disk.
Remove(r) == /\ active = r => ~ActiveUnderWay
             /\ active = r \/ r \in recent \/ disk[r] # "none"
             /\ recent' = recent \ {r}
             /\ active' = IF active = r THEN Nobody ELSE active
             /\ disk' = [disk EXCEPT ![r] = "none"]
             /\ UNCHANGED <<run, page>>
-----------------------------------------------------------------------------
(* execute(): gold, then runEval *)

\* Every gold query ran, and nobody has cancelled.
GoldComputed(r) == /\ In(r, "gold")
                   /\ ~run[r].aborted
                   /\ Becomes(r, "starting")
                   /\ UNCHANGED <<active, recent, disk, page>>

\* A gold query failed, or the run was cancelled meanwhile.
GoldFails(r) == /\ In(r, "gold")
                /\ Ends(r)
                /\ UNCHANGED <<active, disk, page>>

Least(a, b) == IF a < b THEN a ELSE b

\* check() and the pipeline of the variant; then mapLimit starts its workers.
StartPass(r) ==
    /\ In(r, "starting")
    /\ ~run[r].aborted
    /\ LET workers == Least(Concurrency, Cases[r])
       IN  run' = [run EXCEPT ![r].stage = "cases", ![r].busy = 1 .. workers,
                              ![r].next = workers + 1]
    /\ UNCHANGED <<active, recent, disk, page>>

\* check() throws, or the pipeline has no key or no schema.
PassFails(r) == /\ In(r, "starting")
                /\ Ends(r)
                /\ UNCHANGED <<active, disk, page>>

\* A provider error: the case is run again after a pause, unless the run was
\* cancelled by then. (A pause that a cancel cuts short is followed by one
\* more try.)
RetryCase(r, j) == /\ j \in run[r].busy
                   /\ run[r].retry[j] < Retries
                   /\ ~run[r].aborted
                   /\ run' = [run EXCEPT ![r].retry[j] = @ + 1]
                   /\ UNCHANGED <<active, recent, disk, page>>

\* Mutant: a worker takes its next case before it looks at the end of them.
MoreCasesOffByOne(r) == run[r].next <= Cases[r] + 1

MoreCases(r) == run[r].next <= Cases[r]

\* Mutant: a worker does not check() before its case.
TakesUnchecked(r) == MoreCases(r)

\* check() before a worker's next case.
Takes(r) == MoreCases(r) /\ ~run[r].aborted

\* Mutant: next is moved on only after the case (next++ after the await).
NextAfter(r) == run[r].next + (IF Cardinality(run[r].busy) = 1 THEN 1 ELSE 0)

NextIndex(r) == run[r].next + 1

\* A worker records its result and takes the next case at once. The check()
\* of a cancelled run breaks mapLimit; the other workers finish what they are
\* at in the background, even when the run is already told to be over.
CaseDone(r, j) ==
    /\ j \in run[r].busy
    /\ run' = [run EXCEPT ![r] =
         [run[r] EXCEPT !.results = Append(@, <<run[r].pass, j>>),
                        !.busy = (@ \ {j}) \cup (IF Takes(r) THEN {run[r].next} ELSE {}),
                        !.next = IF MoreCases(r) THEN NextIndex(r) ELSE @,
                        !.retry = [@ EXCEPT ![j] = 0],
                        !.broken = @ \/ (MoreCases(r) /\ ~Takes(r))]]
    /\ UNCHANGED <<active, recent, disk, page>>

\* All workers are through, and another variant or repeat follows.
NextPass(r) == /\ In(r, "cases")
               /\ run[r].busy = {} /\ ~run[r].broken
               /\ run[r].pass < Passes[r]
               /\ run' = [run EXCEPT ![r].stage = "starting", ![r].pass = @ + 1]
               /\ UNCHANGED <<active, recent, disk, page>>

\* RunCancelled: the pipeline is closed, under the workers that remain.
Breaks(r) == /\ In(r, "cases")
             /\ run[r].broken
             /\ Ends(r)
             /\ UNCHANGED <<active, disk, page>>

Before(x, y) == x[1] < y[1] \/ (x[1] = y[1] /\ x[2] < y[2])

\* The stable sort by Before: how many results come before the k-th.
Place(s, k) == Cardinality({i \in DOMAIN s : Before(s[i], s[k]) \/ (s[i] = s[k] /\ i < k)})
Sorted(s) == [n \in DOMAIN s |-> s[CHOOSE k \in DOMAIN s : Place(s, k) = n - 1]]

\* The last pass is over: the report, its results in dataset order, takes
\* their place; mkdir and results.json begin.
Report(r) == /\ In(r, "cases")
             /\ run[r].busy = {} /\ ~run[r].broken
             /\ run[r].pass = Passes[r]
             /\ run' = [run EXCEPT ![r].stage = "saving", ![r].results = Sorted(@)]
             /\ disk' = [disk EXCEPT ![r] = "torn"]
             /\ UNCHANGED <<active, recent, page>>

\* saveReport is through. A cancel that came after the last check is ignored.
Saved(r) == /\ In(r, "saving")
            /\ disk' = [disk EXCEPT ![r] = "whole"]
            /\ Becomes(r, "done")
            /\ UNCHANGED <<active, recent, page>>

\* A write fails: before results.json, within it, or in the text after it.
SaveFails(r) == /\ In(r, "saving")
                /\ \E left \in {"none", "torn", "whole"} : disk' = [disk EXCEPT ![r] = left]
                /\ Ends(r)
                /\ UNCHANGED <<active, page>>
-----------------------------------------------------------------------------
(* The run page: GET runs/:id?since= *)

InMemory == active = Watched \/ Watched \in recent
Found == InMemory \/ disk[Watched] = "whole"

Status == IF ~InMemory THEN "done"
          ELSE IF run[Watched].stage \in UnderWay THEN "live" ELSE run[Watched].stage

\* run() serves memory first, then the file, which holds the report.
All == run[Watched].results
Since(n) == SubSeq(All, n + 1, Len(All))

Shows(results) == page' = [phase |-> IF Status = "live" THEN "polling" ELSE "stopped",
                           wasLive |-> Status = "live", status |-> Status,
                           results |-> results]

\* Mutant: the page goes on appending when the run has finished.
PollAppends == /\ page.phase = "polling"
               /\ Found
               /\ Shows(page.results \o Since(Len(page.results)))
               /\ UNCHANGED <<run, active, recent, disk>>

\* A poll: the results after those it has; a run seen live that is over now
\* is loaded whole instead. A run not found is asked for again.
Poll == /\ page.phase = "polling"
        /\ Found
        /\ IF page.wasLive /\ Status # "live"
           THEN page' = [page EXCEPT !.phase = "reloading"]
           ELSE Shows(page.results \o Since(Len(page.results)))
        /\ UNCHANGED <<run, active, recent, disk>>

Reload == /\ page.phase = "reloading"
          /\ IF Found THEN Shows(All) ELSE page' = [page EXCEPT !.phase = "polling"]
          /\ UNCHANGED <<run, active, recent, disk>>

\* The network fails between the two requests: the page starts over.
ReloadFails == /\ page.phase = "reloading"
               /\ page' = [page EXCEPT !.phase = "polling"]
               /\ UNCHANGED <<run, active, recent, disk>>
-----------------------------------------------------------------------------
Working(r) == \/ GoldComputed(r) \/ GoldFails(r)
              \/ StartPass(r) \/ PassFails(r)
              \/ NextPass(r) \/ Breaks(r)
              \/ Report(r) \/ Saved(r) \/ SaveFails(r)

CaseStep(r) == \E j \in Jobs(r) : RetryCase(r, j) \/ CaseDone(r, j)

Next == \/ \E r \in Runs : \/ Start(r) \/ Activate(r) \/ Refuse(r)
                           \/ Cancel(r) \/ Remove(r)
                           \/ Working(r) \/ CaseStep(r)
        \/ Poll \/ Reload \/ ReloadFails

Spec == Init /\ [][Next]_vars

\* Queries, model calls and writes end: each has a timeout of its own.
Fairness == \A r \in Runs : WF_vars(Working(r)) /\ WF_vars(CaseStep(r))

FairSpec == Spec /\ Fairness
-----------------------------------------------------------------------------
(* Properties *)

\* What the report of a finished run must hold: each case of each pass once.
Whole(r) == [k \in 1 .. Passes[r] * Cases[r] |->
                <<((k - 1) \div Cases[r]) + 1, ((k - 1) % Cases[r]) + 1>>]

\* A saved report has every case of every variant and repeat exactly once, in
\* dataset order, however its workers overlapped and retried.
CompleteReport == \A r \in Runs : In(r, "done") => run[r].results = Whole(r)

\* A run page that has stopped polling on a finished run shows the whole
\* report, though results were re-ordered behind the count it polled with.
PageShowsReport ==
    page.phase = "stopped" /\ page.status = "done" => page.results = Whole(Watched)

\* Once cancelled, a run starts no further case, in this pass or the next.
CancelStopsSpending ==
    [][\A r \in Runs : run[r].aborted => run'[r].busy \subseteq run[r].busy]_vars

\* Every run comes to an end, so the bench is not refused to the next one
\* for ever.
RunsEnd == \A r \in Runs : In(r, "gold") ~> run[r].stage \in Ended

\* "One run at a time."
OneRunAtATime ==
    \A r, s \in Runs : run[r].stage \in UnderWay /\ run[s].stage \in UnderWay => r = s
=============================================================================
