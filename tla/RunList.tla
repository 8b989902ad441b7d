------------------------------ MODULE RunList ------------------------------
(* bench/bench.service.ts: runs(), the list of the bench, while runs end,   *)
(* reports are written over (by a run or the eval CLI, of the same second)  *)
(* and removed; and datasets(), with the gold SQL of an engine.             *)
(*                                                                          *)
(* A report file is written in place: not all there, then whole; what it    *)
(* says is its version. Its time of change tells two writes apart. A        *)
(* listing is readdir(), then for each report stat() and perhaps the file.  *)
EXTENDS Integers, Sequences, FiniteSets

CONSTANTS Ids,          \* report names, of web runs and of the CLI
          Lists,        \* calls of runs()
          MaxTime       \* bound on the writes

ListAssumption == MaxTime \in Nat

VARIABLES status,       \* of the web run of each name
          active,       \* this.active
          recent,       \* this.recent, in order
          file,         \* results.json: version, and the time of its last change
          cache,        \* this.listCache: the file's time and the version read, 0 for none
          list,         \* each call: what is left to do, what it has
          since,        \* history: the versions that were whole since a call began
          time

vars == <<status, active, recent, file, cache, list, since, time>>

Nobody == "nobody"
NoFile == [there |-> FALSE, whole |-> FALSE, version |-> 0, mtime |-> 0]
NoEntry == [mtime |-> 0, version |-> 0]
Idle == [todo |-> {}, seen |-> {}, stats |-> [d \in Ids |-> 0], was |-> [d \in Ids |-> NoFile], disk |-> {}]

TypeOK == /\ status \in [Ids -> {"none", "running", "done", "failed"}]
          /\ active \in Ids \cup {Nobody} /\ recent \in Seq(Ids) /\ time \in 0 .. MaxTime
          /\ \A d \in Ids : file[d].mtime \in 0 .. time /\ cache[d].mtime \in 0 .. time

Init == /\ status = [d \in Ids |-> "none"] /\ active = Nobody /\ recent = <<>>
        /\ file = [d \in Ids |-> NoFile] /\ cache = [d \in Ids |-> NoEntry]
        /\ list = [l \in Lists |-> Idle] /\ since = [l \in Lists |-> [d \in Ids |-> {}]]
        /\ time = 0
-----------------------------------------------------------------------------
(* Runs and their reports *)

Start(d) == /\ active \in Ids => status[active] # "running"
            /\ status[d] = "none"
            /\ status' = [status EXCEPT ![d] = "running"] /\ active' = d
            /\ UNCHANGED <<recent, file, cache, list, since, time>>

\* The file of a web run that is saved, or of a run of the CLI.
Write(d) == /\ time < MaxTime
            /\ file[d].there => file[d].whole
            /\ time' = time + 1
            /\ file' = [file EXCEPT ![d] = [there |-> TRUE, whole |-> FALSE, version |-> time + 1, mtime |-> time + 1]]
            /\ UNCHANGED <<status, active, recent, cache, list, since>>

\* The rest of it, within the same tick or later.
Written(d) == /\ file[d].there /\ ~file[d].whole
              /\ \E t \in {time, time + 1} \cap (0 .. MaxTime) :
                    /\ time' = t
                    /\ file' = [file EXCEPT ![d].whole = TRUE, ![d].mtime = t]
              /\ since' = [l \in Lists |-> [since[l] EXCEPT ![d] = @ \cup {file[d].version}]]
              /\ UNCHANGED <<status, active, recent, cache, list>>

Done(d) == /\ status[d] = "running" /\ file[d].whole
           /\ status' = [status EXCEPT ![d] = "done"]
           /\ UNCHANGED <<active, recent, file, cache, list, since, time>>

\* Failed or cancelled; the run stays the active one.
Fails(d) == /\ status[d] = "running"
            /\ status' = [status EXCEPT ![d] = "failed"]
            /\ recent' = Append(recent, d)
            /\ UNCHANGED <<active, file, cache, list, since, time>>

\* remove(): at once in memory, then the file, then the list's cache.
Remove(d) == /\ active = d => status[d] # "running"
             /\ active = d \/ file[d].there \/ d \in {recent[i] : i \in DOMAIN recent}
             /\ recent' = SelectSeq(recent, LAMBDA r : r # d)
             /\ active' = IF active = d THEN Nobody ELSE active
             /\ file' = [file EXCEPT ![d] = NoFile] /\ cache' = [cache EXCEPT ![d] = NoEntry]
             /\ UNCHANGED <<status, list, since, time>>
-----------------------------------------------------------------------------
(* runs() *)

Memory == SelectSeq((IF active = Nobody THEN <<>> ELSE <<active>>) \o recent, LAMBDA d : status[d] # "done")

\* What is in memory, and the directories.
Begin(l) == /\ list[l] = Idle
            /\ LET seen == {Memory[i] : i \in DOMAIN Memory}
                   todo == {d \in Ids : file[d].there} \ seen
               IN  list' = [list EXCEPT ![l] = [Idle EXCEPT !.seen = seen, !.todo = todo, !.was = file]]
            /\ since' = [since EXCEPT ![l] = [d \in Ids |-> IF file[d].whole THEN {file[d].version} ELSE {}]]
            /\ UNCHANGED <<status, active, recent, file, cache, time>>

Push(l, d, version) == list' = [list EXCEPT ![l].todo = @ \ {d}, ![l].stats[d] = 0, ![l].disk = @ \cup {<<d, version>>}]
Skip(l, d) == list' = [list EXCEPT ![l].todo = @ \ {d}, ![l].stats[d] = 0]

Hit(d) == cache[d].version # 0 /\ cache[d].mtime = file[d].mtime

Stat(l, d) == /\ d \in list[l].todo /\ list[l].stats[d] = 0
              /\ IF ~file[d].there THEN Skip(l, d)
                 ELSE IF Hit(d) THEN Push(l, d, cache[d].version)
                 ELSE list' = [list EXCEPT ![l].stats[d] = file[d].mtime]
              /\ UNCHANGED <<status, active, recent, file, cache, since, time>>

Noted(l, d) == [mtime |-> list[l].stats[d], version |-> file[d].version]

\* A file that is gone or not all there is no report.
Read(l, d) == /\ list[l].stats[d] # 0
              /\ IF file[d].whole THEN Push(l, d, file[d].version) /\ cache' = [cache EXCEPT ![d] = Noted(l, d)]
                 ELSE Skip(l, d) /\ UNCHANGED cache
              /\ UNCHANGED <<status, active, recent, file, since, time>>

\* The list is sent.
Sent(l) == /\ list[l] # Idle /\ list[l].todo = {}
           /\ list' = [list EXCEPT ![l] = Idle]
           /\ since' = [since EXCEPT ![l] = [d \in Ids |-> {}]]
           /\ UNCHANGED <<status, active, recent, file, cache, time>>

Next == \/ \E d \in Ids : Start(d) \/ Write(d) \/ Written(d) \/ Done(d) \/ Fails(d) \/ Remove(d)
        \/ \E l \in Lists : Begin(l) \/ Sent(l) \/ \E d \in Ids : Stat(l, d) \/ Read(l, d)
-----------------------------------------------------------------------------
(* datasets(): a case's gold SQL for either engine, 0 for none; whether the  *)
(* one for SQL Server is T-SQL only.                                        *)

goldFor(case, engine) == IF engine = "duckdb" /\ case.goldDuckdb # 0 THEN case.goldDuckdb ELSE case.gold

compatible(cases, engine) ==
    engine = "mssql" \/ \A i \in DOMAIN cases : cases[i].gold = 0 \/ cases[i].goldDuckdb # 0 \/ ~cases[i].tsqlOnly
-----------------------------------------------------------------------------
(* Properties *)

\* What the list says of a saved report is what the report said at some time
\* while the list was made, however it was written over, removed and listed in
\* the meantime, and a report that was whole all along is in it; what is
\* remembered of a file that has not changed is what it says (bench.service.ts).
ListIsOfNow ==
    /\ \A l \in Lists : \A e \in list[l].disk : e[2] \in since[l][e[1]]
    /\ \A d \in Ids : file[d].whole /\ Hit(d) => cache[d].version = file[d].version
    /\ \A l \in Lists, d \in Ids :
           list[l] # Idle /\ list[l].todo = {} /\ file[d].whole /\ file[d] = list[l].was[d] /\ d \notin list[l].seen =>
               <<d, file[d].version>> \in list[l].disk

\* A dataset said to be compatible has gold SQL the engine can run for every
\* case that is graded by SQL (bench.service.ts, engine.ts).
DatasetsHold(cases, engine) ==
    compatible(cases, engine) => \A i \in DOMAIN cases :
        goldFor(cases[i], engine) # 0 => \/ engine = "mssql" \/ ~cases[i].tsqlOnly
                                        \/ goldFor(cases[i], engine) = cases[i].goldDuckdb
=============================================================================
