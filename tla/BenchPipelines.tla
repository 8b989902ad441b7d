--------------------------- MODULE BenchPipelines --------------------------
(* The playground of bench/bench.service.ts: compare() asks several models  *)
(* one question, each by a pipeline of its setting that is kept for the     *)
(* next question. A pipeline has a database engine and connections of its   *)
(* own (eval/pipeline.ts), so only some are kept, and idle ones closed.     *)
(*                                                                          *)
(* A question's models call pipeline() and count themselves in before any   *)
(* of them awaits, so a question begins in one step. What they answer is    *)
(* AskPipeline's or AnalystChat's.                                          *)
EXTENDS Integers, Sequences, FiniteSets, SequencesExt, FiniteSetsExt

CONSTANTS Settings,
          MaxPipelines, \* MAX_PIPELINES
          MaxModels,    \* models of one question
          Questions,
          MaxEntries    \* pipelines made

BoundsAssumption == {MaxPipelines, MaxModels, MaxEntries} \subseteq Nat \ {0} /\ IsFiniteSet(Questions)

VARIABLES entries,  \* every pipeline made
          cached,   \* this.pipelines: some of them, the longest unused first
          calls,    \* of each question, one call for each model
          running   \* the process was not told to shut down

vars == <<entries, cached, calls, running>>

Entries == 1 .. Len(entries)
Entry == [setting : Settings, busy : 0 .. MaxModels * Cardinality(Questions), pipe : {"starting", "ready", "failed"},
          close : {"no", "asked", "closed"}]
Done == [entry |-> 0, st |-> "done"]
Call == [entry : 0 .. MaxEntries, st : {"waiting", "asking", "done"}]

TypeOK == /\ entries \in Seq(Entry) /\ Len(entries) <= MaxEntries
          /\ cached \in Seq(Entries) /\ IsInjective(cached)
          /\ calls \in [Questions -> Seq(Call)]
          /\ running \in BOOLEAN

Init == entries = <<>> /\ cached = <<>> /\ calls = [q \in Questions |-> <<>>] /\ running = TRUE
-----------------------------------------------------------------------------
(* pipeline(), and entry.busy++ behind it *)

\* What is left of a list, by its positions.
Only(list, kept) == [n \in 1 .. Cardinality(kept) |-> list[CHOOSE i \in kept : Cardinality({j \in kept : j <= i}) = n]]

State == [entries |-> entries, cached |-> cached, used |-> <<>>]

Used(at, e) == [entries |-> [at.entries EXCEPT ![e].busy = @ + 1],
                cached  |-> Append(Only(at.cached, {i \in DOMAIN at.cached : at.cached[i] # e}), e),
                used    |-> Append(at.used, e)]

\* Mutant: whoever uses them.
EvictedOldest(at) == {at.cached[i] : i \in {j \in DOMAIN at.cached : j <= Len(at.cached) + 1 - MaxPipelines}}

\* The longest unused of those that nobody uses, as many as are too many.
Evicted(at) ==
    LET idle == Only(at.cached, {i \in DOMAIN at.cached : at.entries[at.cached[i]].busy = 0})
        over == Len(at.cached) + 1 - MaxPipelines
    IN  {idle[i] : i \in {j \in DOMAIN idle : j <= over}}

Made(at, setting) ==
    LET gone == Evicted(at)
        kept == [x \in DOMAIN at.entries |->
                    IF x \in gone THEN [at.entries[x] EXCEPT !.close = "asked"] ELSE at.entries[x]]
    IN  [entries |-> Append(kept, [setting |-> setting, busy |-> 0, pipe |-> "starting", close |-> "no"]),
         cached  |-> Only(at.cached, {i \in DOMAIN at.cached : at.cached[i] \notin gone}),
         used    |-> at.used]

Enter(at, setting) ==
    LET hits == {x \in ToSet(at.cached) : at.entries[x].setting = setting}
    IN  IF hits = {} THEN Used(Made(at, setting), Len(at.entries) + 1)
                     ELSE Used(at, CHOOSE x \in hits : TRUE)

\* One after the other, as map() calls pipeline().
Entered(models) ==
    LET at[n \in 0 .. Len(models)] == IF n = 0 THEN State ELSE Enter(at[n - 1], models[n])
    IN  at[Len(models)]

Compare(q) ==
    /\ running
    /\ \A i \in DOMAIN calls[q] : calls[q][i].st = "done"
    /\ \E n \in 1 .. MaxModels : \E models \in [1 .. n -> Settings] :
          LET after == Entered(models)
          IN  /\ Len(after.entries) <= MaxEntries
              /\ entries' = after.entries /\ cached' = after.cached
              /\ calls' = [calls EXCEPT ![q] = [i \in 1 .. n |-> [entry |-> after.used[i], st |-> "waiting"]]]
    /\ UNCHANGED running
-----------------------------------------------------------------------------
Starts(e) == /\ entries[e].pipe = "starting"
             /\ \E end \in {"ready", "failed"} : entries' = [entries EXCEPT ![e].pipe = end]
             /\ UNCHANGED <<cached, calls, running>>

\* A pipeline that could not be made or did not start fails its calls, and is
\* kept as it is.
Awaits(q, i) ==
    LET e == calls[q][i].entry
    IN  /\ calls[q][i].st = "waiting"
        /\ entries[e].pipe # "starting"
        /\ calls' = [calls EXCEPT ![q][i] = IF entries[e].pipe = "ready" THEN [@ EXCEPT !.st = "asking"] ELSE Done]
        /\ entries' = IF entries[e].pipe = "ready" THEN entries ELSE [entries EXCEPT ![e].busy = @ - 1]
        /\ UNCHANGED <<cached, running>>

Answers(q, i) == /\ calls[q][i].st = "asking"
                 /\ calls' = [calls EXCEPT ![q][i] = Done]
                 /\ entries' = [entries EXCEPT ![calls[q][i].entry].busy = @ - 1]
                 /\ UNCHANGED <<cached, running>>

\* When it has started.
Closes(e) == /\ entries[e].close = "asked" /\ entries[e].pipe = "ready"
             /\ entries' = [entries EXCEPT ![e].close = "closed"]
             /\ UNCHANGED <<cached, calls, running>>

Shutdown == /\ running
            /\ running' = FALSE
            /\ entries' = [e \in Entries |-> IF e \in ToSet(cached) THEN [entries[e] EXCEPT !.close = "asked"]
                                                                    ELSE entries[e]]
            /\ UNCHANGED <<cached, calls>>

Next == \/ Shutdown \/ \E e \in Entries : Starts(e) \/ Closes(e)
        \/ \E q \in Questions : Compare(q) \/ \E i \in DOMAIN calls[q] : Awaits(q, i) \/ Answers(q, i)

Spec == Init /\ [][Next]_vars
-----------------------------------------------------------------------------
(* "Reused across playground questions (bounded, idle ones evicted)": while  *)
(* the process runs, no pipeline is closed or dropped under a question, one  *)
(* that is dropped is closed, uses are counted whatever fails, a setting has *)
(* one pipeline, and beyond the limit there are only as many as questions    *)
(* can need at once.                                                         *)
Uses(e) == {u \in Questions \X (1 .. MaxModels) :
              u[2] \in DOMAIN calls[u[1]] /\ calls[u[1]][u[2]].entry = e /\ calls[u[1]][u[2]].st # "done"}
PipelinesAccounted ==
    running =>
        /\ \A e \in Entries : /\ entries[e].busy = Cardinality(Uses(e))
                              /\ entries[e].busy > 0 => e \in ToSet(cached)
                              /\ e \in ToSet(cached) <=> entries[e].close = "no"
        /\ \A e, f \in ToSet(cached) : entries[e].setting = entries[f].setting => e = f
        /\ Len(cached) <= Max({MaxPipelines, MaxModels * Cardinality(Questions)})
=============================================================================
