---------------------------- MODULE SchemaReload ----------------------------
(* database/database.service.ts (DuckDB mode), mdf/export-duckdb.ts and     *)
(* database/schema/schema-catalog.service.ts: the engine questions run on,  *)
(* its conversion from a newer .mdf, and the schema the model is shown,     *)
(* with POST /schema/refresh.                                               *)
(*                                                                          *)
(* A call of duckdb() that finds no engine begins an open: one promise,     *)
(* shared through this.duck. A call of ensure() that finds no schema begins *)
(* a load: one promise, shared through this.loading. Both are numbered in   *)
(* the order they begin, and whoever awaits one holds its number. A write   *)
(* to a data file is a version number; its time is the number of            *)
(* replacements of the .mdf before it. What a schema looks like is its      *)
(* member of a set.                                                         *)
(*                                                                          *)
(* Opens and loads overlap as the requests that begin them do. Four fields  *)
(* only record how they did, for the properties to tell the cases apart:    *)
(* `beside`, `joined`, `alone` and `undisturbed`.                           *)
EXTENDS Integers, FiniteSets

CONSTANTS Refreshes,    \* the POST /schema/refresh requests
          MaxVersion,   \* replacements of the .mdf
          MaxFaults,    \* conversions, opens and loads that fail
          MaxPromises,  \* opens, and loads, that begin
          SchemaOf      \* of each version of the data: its schema

ASSUME BoundsAssumption == MaxVersion \in Nat /\ MaxFaults \in Nat /\ MaxPromises \in Nat
ASSUME SchemaAssumption == DOMAIN SchemaOf = 0 .. MaxVersion

Versions == 0 .. MaxVersion
Promises == 1 .. MaxPromises
None == 0
Original == None   \* the file that was there at boot, written by no open

VARIABLES mdf,      \* version of MDF_IMPORT_PATH
          inode,    \* the database file each conversion writes
          target,   \* the inode DUCKDB_FILE names
          tmp,      \* the inode at the temporary name, which all share
          open,     \* the opens
          duck,     \* this.duck
          load,     \* the introspections
          loading,  \* this.loading
          loaded,   \* this.loaded: the load it came from
          refresh,  \* the refresh requests
          faults

sourceVars == <<mdf, inode, target, tmp, open, duck, load, loading, loaded, refresh, faults>>

InOpen == {"hashing", "writing", "opening"}
InLoad == {"tables", "columns"}

\* alone: no other conversion was writing while this one was.
Inode == [holds : Versions, written : Versions, whole : BOOLEAN, alone : BOOLEAN]
\* beside: it began while another was under way; joined: a call of duckdb()
\* other than the reload() that began it awaited it.
Open == [st : InOpen \cup {"unused", "open", "failed", "closed"},
         old : Promises \cup {None}, file : Promises \cup {Original},
         beside : BOOLEAN, joined : BOOLEAN]
\* undisturbed: no reload began while it read.
Load == [st : InLoad \cup {"unused", "done", "failed"}, on : Promises \cup {None},
         tables : Versions, columns : Versions, undisturbed : BOOLEAN]
RefreshRequest == [st : {"idle", "opening", "loading", "done", "failed"},
                   on : Promises \cup {None}, asked : Versions]

SourceTypeOK ==
    /\ mdf \in Versions
    /\ inode \in [Promises \cup {Original} -> Inode]
    /\ target \in Promises \cup {Original}
    /\ tmp \in Promises \cup {None}
    /\ open \in [Promises -> Open]
    /\ {duck, loading, loaded} \subseteq Promises \cup {None}
    /\ load \in [Promises -> Load]
    /\ refresh \in [Refreshes -> RefreshRequest]
    /\ faults \in 0 .. MaxFaults

SourceInit ==
    /\ mdf = 0
    /\ inode = [i \in Promises \cup {Original} |->
                   [holds |-> 0, written |-> 0, whole |-> TRUE, alone |-> TRUE]]
    /\ target = Original
    /\ tmp = None
    /\ open = [o \in Promises |-> [st |-> "unused", old |-> None, file |-> Original,
                                    beside |-> FALSE, joined |-> FALSE]]
    /\ load = [i \in Promises |-> [st |-> "unused", on |-> None, tables |-> 0, columns |-> 0,
                                    undisturbed |-> TRUE]]
    /\ duck = None /\ loading = None /\ loaded = None
    /\ refresh = [r \in Refreshes |-> [st |-> "idle", on |-> None, asked |-> 0]]
    /\ faults = 0

Fails == /\ faults < MaxFaults
         /\ faults' = faults + 1

\* Promises are numbered in their order.
IsNext(promise, i) == /\ promise[i].st = "unused"
                      /\ \A j \in Promises : promise[j].st = "unused" => i <= j

\* A new .mdf is put in the place of the old one.
Replaced == /\ mdf < MaxVersion
            /\ mdf' = mdf + 1
            /\ UNCHANGED <<inode, target, tmp, open, duck, load, loading, loaded, refresh, faults>>
-----------------------------------------------------------------------------
(* duckdb(): convert if the .mdf is newer, then open *)

Stale == inode[target].written < mdf

\* A new open, for a reload() of the engine `old` or because there was none.
\* The conversion has the .mdf open from here on.
Begin(o, old) ==
    /\ open' = [open EXCEPT ![o] = [st |-> IF Stale THEN "hashing" ELSE "opening",
                                    old |-> old, file |-> Original,
                                    beside |-> \E p \in Promises : open[p].st \in InOpen,
                                    joined |-> FALSE]]
    /\ inode' = IF Stale
                THEN [inode EXCEPT ![o] = [holds |-> mdf, written |-> mdf,
                                           whole |-> FALSE, alone |-> TRUE]]
                ELSE inode
    /\ duck' = o

\* A caller of duckdb() awaits the engine `o`. Every call leaves a handler of
\* its own on the promise, which clears this.duck when the promise rejects: on
\* one that has, at once.
Engine(o) ==
    \/ /\ duck = None
       /\ IsNext(open, o)
       /\ Begin(o, None)
    \/ /\ duck # None /\ o = duck
       /\ open' = [open EXCEPT ![o].joined = @ \/ (open[o].st \in InOpen /\ open[o].old # None)]
       /\ duck' = IF open[o].st = "failed" THEN None ELSE o
       /\ UNCHANGED inode

\* onModuleInit(), and ping() at any time.
Warm == /\ \E o \in Promises : Engine(o)
        /\ UNCHANGED <<mdf, target, tmp, load, loading, loaded, refresh, faults>>

\* Mutant: written under the target's name.
StartInPlace(o) ==
    /\ open[o].st = "hashing"
    /\ open' = [open EXCEPT ![o].st = "writing"]
    /\ tmp' = o
    /\ target' = o
    /\ UNCHANGED <<mdf, inode, duck, load, loading, loaded, refresh, faults>>

Writing == {o \in Promises : open[o].st = "writing"}

\* The hash is known: whatever is at the temporary name goes, and a new
\* database is begun there.
StartConversion(o) ==
    /\ open[o].st = "hashing"
    /\ open' = [open EXCEPT ![o].st = "writing"]
    /\ tmp' = o
    /\ inode' = [i \in DOMAIN inode |->
                    IF Writing # {} /\ i \in Writing \cup {o}
                    THEN [inode[i] EXCEPT !.alone = FALSE]
                    ELSE inode[i]]
    /\ UNCHANGED <<mdf, target, duck, load, loading, loaded, refresh, faults>>

\* Mutant: reload() leaves it cleared.
RejectsCleared(o) == /\ open' = [open EXCEPT ![o].st = "failed"]
                     /\ duck' = None

\* The promise rejects: the handler of the call that began it clears this.duck,
\* whatever it holds; then the reload() that awaits it, if any, puts its old
\* engine back; and then the handlers of later calls clear this.duck again.
Rejects(o) == /\ open' = [open EXCEPT ![o].st = "failed"]
              /\ duck' = IF open[o].joined THEN None ELSE open[o].old

\* CHECKPOINT, close, and what is at the temporary name now becomes the target;
\* another conversion may have renamed or removed it.
EndConversion(o) ==
    /\ open[o].st = "writing"
    /\ inode' = [inode EXCEPT ![o].whole = TRUE, ![o].written = mdf]
    /\ IF tmp # None
       THEN /\ target' = tmp
            /\ open' = [open EXCEPT ![o].st = "opening"]
            /\ UNCHANGED duck
       ELSE /\ Rejects(o)
            /\ UNCHANGED target
    /\ tmp' = None
    /\ UNCHANGED <<mdf, load, loading, loaded, refresh, faults>>

\* The .mdf cannot be read or the database not written: the temporary file is
\* removed, whoever wrote it.
ConversionFails(o) ==
    /\ open[o].st \in {"hashing", "writing"}
    /\ Fails
    /\ tmp' = IF open[o].st = "writing" THEN None ELSE tmp
    /\ Rejects(o)
    /\ UNCHANGED <<mdf, inode, target, load, loading, loaded, refresh>>

Opened(o) == /\ open[o].st = "opening"
             /\ open' = [open EXCEPT ![o].st = "open", ![o].file = target, ![o].joined = FALSE]
             /\ UNCHANGED <<mdf, inode, target, tmp, duck, load, loading, loaded, refresh, faults>>

OpenFails(o) == /\ open[o].st = "opening"
                /\ Fails
                /\ Rejects(o)
                /\ UNCHANGED <<mdf, inode, target, tmp, load, loading, loaded, refresh>>

\* 30 s after a reload, or when it opens if that is later. 30 s is longer than a
\* query may take: no request uses the old engine any more (a load that does
\* is cut off from it).
CloseOld(o, used) ==
    /\ open[o].st = "open"
    /\ open[o].old # None
    /\ open[open[o].old].st = "open"
    /\ open[o].old \notin used
    /\ open' = [open EXCEPT ![open[o].old].st = "closed"]
    /\ UNCHANGED <<mdf, inode, target, tmp, duck, load, loading, loaded, refresh, faults>>

OpenStep(o) == \/ StartConversion(o) \/ EndConversion(o) \/ ConversionFails(o)
               \/ Opened(o) \/ OpenFails(o)
-----------------------------------------------------------------------------
(* ensure() and introspect() *)

\* Introspection holds two of its queries: the first and, on the engine of
\* that moment, a later one.
BeginLoad(i) == /\ load' = [load EXCEPT ![i].st = "tables"]
                /\ loading' = i

\* ensure(): the load under way is joined, whoever began it.
Join(i) == IF loading # None
           THEN i = loading /\ UNCHANGED <<load, loading>>
           ELSE IsNext(load, i) /\ BeginLoad(i)

IsOpen(o) == o # None /\ open[o].st = "open"
\* The engine a caller of duckdb() that awaits `on`, if any, goes on with.
Given(on) == IF on # None THEN on ELSE duck

\* Each query of the introspection asks duckdb() for the engine.
AwaitEngine(i) ==
    /\ load[i].st \in InLoad
    /\ load[i].on = None /\ ~IsOpen(duck)
    /\ \E o \in Promises : /\ Engine(o)
                           /\ load' = [load EXCEPT ![i].on = o]
    /\ UNCHANGED <<mdf, target, tmp, loading, loaded, refresh, faults>>

ReadTables(i) ==
    /\ load[i].st = "tables"
    /\ IsOpen(Given(load[i].on))
    /\ load' = [load EXCEPT ![i].st = "columns", ![i].on = None,
                            ![i].tables = inode[open[Given(load[i].on)].file].holds]
    /\ UNCHANGED <<mdf, inode, target, tmp, open, duck, loading, loaded, refresh, faults>>

\* The last query; the cache file is written, and the schema is there for all.
ReadColumns(i) ==
    /\ load[i].st = "columns"
    /\ IsOpen(Given(load[i].on))
    /\ load' = [load EXCEPT ![i].st = "done", ![i].on = None,
                            ![i].columns = inode[open[Given(load[i].on)].file].holds]
    /\ loaded' = i
    /\ loading' = None
    /\ UNCHANGED <<mdf, inode, target, tmp, open, duck, refresh, faults>>

LoadRejects(i) == /\ load' = [load EXCEPT ![i].st = "failed", ![i].on = None]
                  /\ loading' = None

\* Its engine did not open, or was closed under it.
LoadLosesEngine(i) ==
    /\ load[i].st \in InLoad
    /\ load[i].on # None
    /\ open[load[i].on].st \in {"failed", "closed"}
    /\ LoadRejects(i)
    /\ UNCHANGED <<mdf, inode, target, tmp, open, duck, loaded, refresh, faults>>

\* A query of it fails, or the cache file cannot be written.
LoadFails(i) == /\ load[i].st \in InLoad
                /\ Fails
                /\ LoadRejects(i)
                /\ UNCHANGED <<mdf, inode, target, tmp, open, duck, loaded, refresh>>

LoadStep(i) == \/ AwaitEngine(i) \/ ReadTables(i) \/ ReadColumns(i)
               \/ LoadLosesEngine(i) \/ LoadFails(i)
-----------------------------------------------------------------------------
(* refresh(): reload(), then introspect again *)

\* Mutant: what is loaded is not forgotten, and ensure() not forced.
ReintrospectLazily(r) ==
    \/ /\ loaded # None
       /\ refresh' = [refresh EXCEPT ![r].st = "loading", ![r].on = loaded]
       /\ UNCHANGED <<load, loading, loaded>>
    \/ /\ loaded = None
       /\ \E i \in Promises : /\ Join(i)
                              /\ refresh' = [refresh EXCEPT ![r].st = "loading", ![r].on = i]
       /\ UNCHANGED loaded

\* this.loaded = undefined, ensure(true).
Reintrospect(r) == \E i \in Promises :
    /\ Join(i)
    /\ loaded' = None
    /\ refresh' = [refresh EXCEPT ![r].st = "loading", ![r].on = i, ![r].asked =
                     IF refresh[r].st = "idle" THEN mdf ELSE @]

\* reload(): a new open is begun beside the engine in use. Without one there
\* is nothing to reload.
Refresh(r) ==
    /\ refresh[r].st = "idle"
    /\ IF duck = None
       THEN /\ Reintrospect(r)
            /\ UNCHANGED <<open, inode, duck>>
       ELSE /\ \E o \in Promises :
                  /\ IsNext(open, o)
                  /\ Begin(o, duck)
                  /\ refresh' = [refresh EXCEPT ![r] = [st |-> "opening", on |-> o, asked |-> mdf]]
            /\ load' = [i \in Promises |-> [load[i] EXCEPT !.undisturbed = @ /\ load[i].st \notin InLoad]]
            /\ UNCHANGED <<loading, loaded>>
    /\ UNCHANGED <<mdf, target, tmp, faults>>

Reloaded(r) == /\ refresh[r].st = "opening"
               /\ open[refresh[r].on].st = "open"
               /\ Reintrospect(r)
               /\ UNCHANGED <<mdf, inode, target, tmp, open, duck, faults>>

\* An error response.
RefreshFails(r) == /\ \/ refresh[r].st = "opening" /\ open[refresh[r].on].st = "failed"
                      \/ refresh[r].st = "loading" /\ load[refresh[r].on].st = "failed"
                   /\ refresh' = [refresh EXCEPT ![r].st = "failed"]
                   /\ UNCHANGED <<mdf, inode, target, tmp, open, duck, load, loading, loaded, faults>>

Refreshed(r) == /\ refresh[r].st = "loading"
                /\ load[refresh[r].on].st = "done"
                /\ refresh' = [refresh EXCEPT ![r].st = "done"]
                /\ UNCHANGED <<mdf, inode, target, tmp, open, duck, load, loading, loaded, faults>>

RefreshStep(r) == Reloaded(r) \/ RefreshFails(r) \/ Refreshed(r)

SourceStep(used) ==
    \/ Replaced
    \/ Warm
    \/ \E o \in Promises : OpenStep(o) \/ CloseOld(o, used)
    \/ \E i \in Promises : LoadStep(i)
    \/ \E r \in Refreshes : Refresh(r) \/ RefreshStep(r)
-----------------------------------------------------------------------------
(* What serving the data promises *)

\* What a question asked now is answered from, once it is open.
Serving == IF duck # None /\ open[duck].st = "open" THEN {inode[open[duck].file]} ELSE {}

(* A conversion that no other conversion wrote beside never shows in part:   *)
(* every engine that opened its file reads the whole of it, whatever else    *)
(* was opened, refreshed or failed meanwhile. ("A server reading the old     *)
(* file never sees a half-written database"; two conversions of one process  *)
(* write under one temporary name, and one may publish the other's part.)    *)
ServedWhole == \A o \in Promises : open[o].st = "open" /\ inode[open[o].file].alone
                                      => inode[open[o].file].whole

\* No open began while another was under way.
OneAtATime == \A o \in Promises : ~open[o].beside
\* A reload failed while another caller awaited its open.
Dropped == \E o \in Promises : open[o].st = "failed" /\ open[o].old # None /\ open[o].joined

(* While opens come one at a time, no engine is followed by one on older     *)
(* data; and as long as no reload failed that another caller awaited too,    *)
(* there is, once an engine was opened, always one open or being opened: a   *)
(* failed refresh goes on with "the previous data".                          *)
KeepsServing ==
    OneAtATime => \A o \in Promises : open[o].st \in {"open", "closed"} =>
        /\ \A s \in Serving : s.holds >= inode[open[o].file].holds
        /\ ~Dropped => duck # None /\ open[duck].st \in InOpen \cup {"open"}

(* "keep serving the previous data": after a reload that failed there is an  *)
(* engine, if there was one before it.                                       *)
PreviousKept ==
    \A o \in Promises :
        open[o].st = "failed" /\ open[o].old # None /\ open[open[o].old].st = "open" => duck # None

(* While opens come one at a time and no .mdf is replaced under a            *)
(* conversion, a refresh that succeeds, and whose introspection was not      *)
(* under way already when a reload began, shows a schema all of one version  *)
(* and no older than the .mdf when it was asked for; and whatever the        *)
(* introspection, questions run on such data from then on.                   *)
RefreshShowsNew ==
    OneAtATime /\ (\A i \in Promises : inode[i].written = inode[i].holds) =>
        \A r \in Refreshes : refresh[r].st = "done" =>
            /\ load[refresh[r].on].undisturbed =>
                  /\ load[refresh[r].on].tables = load[refresh[r].on].columns
                  /\ load[refresh[r].on].tables >= refresh[r].asked
            /\ \A s \in Serving : s.holds >= refresh[r].asked
=============================================================================
