------------------------- MODULE AskPipelineProofs -------------------------
(* Proofs about the ask pipeline on data that is exchanged: for any clients,*)
(* questions and models, any number of candidates, repairs, refreshes and   *)
(* faults.                                                                  *)
(*                                                                          *)
(* First the data's side (SchemaReload), whose lemmas speak of its own      *)
(* actions: its types and what its files hold, however opens and loads      *)
(* overlap; then, where opens come one at a time, that what serves never    *)
(* goes back to older data and is what a refresh was asked for. Then the    *)
(* requests', and last both together.                                       *)
EXTENDS AskPipeline, TLAPS
-----------------------------------------------------------------------------
LEMMA PromisesType == Promises \subseteq Nat \ {0}
BY BoundsAssumption DEF Promises

LEMMA NoneType == None \notin Promises
BY PromisesType DEF None
-----------------------------------------------------------------------------
(* The types of the data's side *)

\* What an open is begun with.
LEMMA BeginType ==
    ASSUME SourceTypeOK, NEW o \in Promises, NEW old \in Promises \cup {None}, Begin(o, old)
    PROVE  /\ open' \in [Promises -> Open]
           /\ inode' \in [Promises \cup {Original} -> Inode]
           /\ duck' \in Promises \cup {None}
           /\ open'[o].st \in {"hashing", "opening"} /\ open'[o].old = old /\ open'[o].file = Original
           /\ open'[o].beside <=> \E p \in Promises : open[p].st \in InOpen
           /\ \A p \in Promises \ {o} : open'[p] = open[p]
<1> DEFINE beside == \E p \in Promises : open[p].st \in InOpen
           new == [st |-> IF Stale THEN "hashing" ELSE "opening", old |-> old, file |-> Original,
                   beside |-> beside, joined |-> FALSE]
<1>1. beside \in BOOLEAN
  OBVIOUS
<1>2. open' = [open EXCEPT ![o] = new] /\ duck' = o
  BY DEF Begin
<1>3. new.beside <=> \E p \in Promises : open[p].st \in InOpen
  OBVIOUS
<1> HIDE DEF beside
<1>4. new \in Open
  BY <1>1, ZenonT(30) DEF Open, InOpen
<1>5. new.st \in {"hashing", "opening"} /\ new.old = old /\ new.file = Original
  OBVIOUS
<1> HIDE DEF new
<1>6. open' \in [Promises -> Open] /\ open'[o] = new /\ \A p \in Promises \ {o} : open'[p] = open[p]
  BY <1>2, <1>4 DEF SourceTypeOK
<1>7. inode' \in [Promises \cup {Original} -> Inode]
  <2>1. [holds |-> mdf, written |-> mdf, whole |-> FALSE, alone |-> TRUE] \in Inode
    BY ZenonT(30) DEF Inode, SourceTypeOK
  <2> QED
    BY <2>1 DEF Begin, SourceTypeOK
<1> QED
  BY <1>2, <1>3, <1>5, <1>6, <1>7

\* What a caller of duckdb() changes of an engine that is there.
LEMMA JoinedType ==
    ASSUME SourceTypeOK, NEW o \in Promises, Engine(o), duck # None
    PROVE  /\ open' \in [Promises -> Open] /\ inode' = inode
           /\ o = duck /\ duck' = IF open[o].st = "failed" THEN None ELSE o
           /\ \A p \in Promises : /\ open'[p].st = open[p].st /\ open'[p].old = open[p].old
                                  /\ open'[p].file = open[p].file /\ open'[p].beside = open[p].beside
                                  /\ open[p].joined => open'[p].joined
                                  /\ open[p].st \notin InOpen => open'[p].joined = open[p].joined
<1> DEFINE joined == open[o].joined \/ (open[o].st \in InOpen /\ open[o].old # None)
           new == [open[o] EXCEPT !.joined = joined]
<1>1. o = duck /\ duck' = (IF open[o].st = "failed" THEN None ELSE o) /\ inode' = inode
  BY DEF Engine
<1>2. open' = [open EXCEPT ![o] = new]
  BY DEF Engine
<1>3. joined \in BOOLEAN
  OBVIOUS
<1>4. open[o] \in Open /\ open[o].joined \in BOOLEAN
  BY DEF SourceTypeOK, Open
<1>5. (open[o].joined => joined) /\ (open[o].st \notin InOpen => joined = open[o].joined)
  BY <1>3, <1>4, Zenon
<1> HIDE DEF joined
<1>6. new \in Open
  BY <1>3, <1>4 DEF Open
<1>7. /\ new.st = open[o].st /\ new.old = open[o].old /\ new.file = open[o].file
      /\ new.beside = open[o].beside /\ new.joined = joined
  BY <1>4 DEF Open
<1> HIDE DEF new
<1>8. open' \in [Promises -> Open] /\ open'[o] = new /\ \A p \in Promises \ {o} : open'[p] = open[p]
  BY <1>2, <1>6 DEF SourceTypeOK
<1>9. ASSUME NEW p \in Promises
      PROVE  /\ open'[p].st = open[p].st /\ open'[p].old = open[p].old
             /\ open'[p].file = open[p].file /\ open'[p].beside = open[p].beside
             /\ open[p].joined => open'[p].joined
             /\ open[p].st \notin InOpen => open'[p].joined = open[p].joined
  <2>1. CASE p = o
    BY <1>5, <1>7, <1>8, <2>1, Zenon
  <2>2. CASE p # o
    <3>1. open'[p] = open[p]
      BY <1>8, <2>2
    <3> QED
      BY <3>1
  <2> QED
    BY <2>1, <2>2
<1> QED
  BY <1>1, <1>8, <1>9

LEMMA EngineType ==
    ASSUME SourceTypeOK, NEW o \in Promises, Engine(o)
    PROVE  /\ open' \in [Promises -> Open]
           /\ inode' \in [Promises \cup {Original} -> Inode]
           /\ duck' \in Promises \cup {None}
<1>1. CASE duck # None
  BY <1>1, JoinedType DEF SourceTypeOK
<1>2. CASE duck = None
  <2>1. Begin(o, None)
    BY <1>2 DEF Engine
  <2> QED
    BY <2>1, BeginType
<1> QED
  BY <1>1, <1>2
LEMMA JoinType ==
    ASSUME SourceTypeOK, NEW i \in Promises, Join(i)
    PROVE  /\ load' \in [Promises -> Load]
           /\ loading' \in Promises \cup {None}
<1>1. CASE loading # None
  BY <1>1 DEF Join, SourceTypeOK
<1>2. CASE loading = None
  <2>1. [load[i] EXCEPT !.st = "tables"] \in Load
    BY DEF SourceTypeOK, Load, InLoad
  <2> QED
    BY <1>2, <2>1 DEF Join, BeginLoad, SourceTypeOK
<1> QED
  BY <1>1, <1>2

LEMMA FailsType == ASSUME SourceTypeOK, Fails PROVE faults' \in 0 .. MaxFaults
BY BoundsAssumption DEF Fails, SourceTypeOK

LEMMA RejectsType ==
    ASSUME SourceTypeOK, NEW o \in Promises, Rejects(o)
    PROVE  /\ open' \in [Promises -> Open]
           /\ duck' \in Promises \cup {None}
<1>1. [open[o] EXCEPT !.st = "failed"] \in Open /\ open[o].old \in Promises \cup {None}
  BY DEF SourceTypeOK, Open
<1> QED
  BY <1>1 DEF Rejects, SourceTypeOK

\* The engine that awaits or is in use reads some version of the data.
LEMMA ReadType ==
    ASSUME SourceTypeOK, NEW on \in Promises \cup {None}, IsOpen(Given(on))
    PROVE  inode[open[Given(on)].file].holds \in Versions
<1>1. Given(on) \in Promises
  BY DEF SourceTypeOK, IsOpen, Given
<1>2. open[Given(on)].file \in Promises \cup {Original}
  BY <1>1 DEF SourceTypeOK, Open
<1> QED
  BY <1>2 DEF SourceTypeOK, Inode

\* What a conversion that begins takes from the others.
LEMMA StartType ==
    ASSUME SourceTypeOK, NEW o \in Promises, StartConversion(o)
    PROVE  /\ open' \in [Promises -> Open] /\ inode' \in [Promises \cup {Original} -> Inode]
           /\ open[o].st = "hashing" /\ open'[o].st = "writing"
           /\ \A p \in Promises \ {o} : open'[p] = open[p]
           /\ \A p \in Promises : /\ open'[p].old = open[p].old /\ open'[p].file = open[p].file
                                  /\ open'[p].beside = open[p].beside /\ open'[p].joined = open[p].joined
           /\ \A i \in Promises \cup {Original} :
                 /\ inode'[i].holds = inode[i].holds /\ inode'[i].written = inode[i].written
                 /\ inode'[i].whole = inode[i].whole /\ (inode'[i].alone => inode[i].alone)
                 /\ Writing # {} /\ i \in Writing \cup {o} => ~inode'[i].alone
<1>1. [open[o] EXCEPT !.st = "writing"] \in Open
  BY DEF SourceTypeOK, Open, InOpen
<1>2. open' = [open EXCEPT ![o].st = "writing"] /\ open[o].st = "hashing"
  BY DEF StartConversion
<1>3. open' \in [Promises -> Open]
  BY <1>1, <1>2 DEF SourceTypeOK
<1>4. /\ open'[o].st = "writing" /\ \A p \in Promises \ {o} : open'[p] = open[p]
      /\ \A p \in Promises : /\ open'[p].old = open[p].old /\ open'[p].file = open[p].file
                             /\ open'[p].beside = open[p].beside /\ open'[p].joined = open[p].joined
  BY <1>2 DEF SourceTypeOK, Open
<1>5. ASSUME NEW i \in Promises \cup {Original}
      PROVE  /\ inode'[i] \in Inode
             /\ inode'[i].holds = inode[i].holds /\ inode'[i].written = inode[i].written
             /\ inode'[i].whole = inode[i].whole /\ (inode'[i].alone => inode[i].alone)
             /\ Writing # {} /\ i \in Writing \cup {o} => ~inode'[i].alone
  <2> DEFINE among == Writing # {} /\ i \in Writing \cup {o}
  <2>1. inode'[i] = IF among THEN [inode[i] EXCEPT !.alone = FALSE] ELSE inode[i]
    BY DEF StartConversion, SourceTypeOK
  <2>2. inode[i] \in Inode
    BY DEF SourceTypeOK
  <2>3. CASE among
    <3>1. inode'[i] = [inode[i] EXCEPT !.alone = FALSE]
      BY <2>1, <2>3
    <3>2. inode'[i] \in Inode /\ inode'[i].holds = inode[i].holds /\ inode'[i].written = inode[i].written
      BY <2>2, <3>1 DEF Inode
    <3>3. inode'[i].whole = inode[i].whole /\ inode'[i].alone = FALSE
      BY <2>2, <3>1 DEF Inode
    <3> QED
      BY <2>3, <3>2, <3>3, Zenon
  <2>4. CASE ~among
    <3>1. inode'[i] = inode[i]
      BY <2>1, <2>4
    <3> QED
      BY <2>2, <2>4, <3>1
  <2> QED
    BY <2>3, <2>4
<1>6. inode' \in [Promises \cup {Original} -> Inode]
  <2>1. DOMAIN inode = Promises \cup {Original}
    BY DEF SourceTypeOK
  <2>2. inode' = [i \in Promises \cup {Original} |-> inode'[i]]
    BY <2>1 DEF StartConversion
  <2> QED
    BY <1>5, <2>2
<1> QED
  BY <1>2, <1>3, <1>4, <1>5, <1>6, Zenon

\* What a conversion that ends writes.
LEMMA EndType ==
    ASSUME SourceTypeOK, NEW o \in Promises, EndConversion(o)
    PROVE  /\ inode' \in [Promises \cup {Original} -> Inode]
           /\ inode'[o].whole /\ inode'[o].written = mdf
           /\ inode'[o].holds = inode[o].holds /\ inode'[o].alone = inode[o].alone
           /\ \A i \in (Promises \cup {Original}) \ {o} : inode'[i] = inode[i]
<1> DEFINE whole == TRUE
           new == [inode[o] EXCEPT !.whole = whole, !.written = mdf]
<1>1. inode[o] \in Inode /\ mdf \in Versions
  BY DEF SourceTypeOK
<1>2. inode' = [inode EXCEPT ![o] = new]
  BY <1>1 DEF EndConversion, SourceTypeOK, Inode
<1>3. whole /\ whole \in BOOLEAN
  OBVIOUS
<1> HIDE DEF whole
<1>4. new \in Inode /\ new.whole = whole /\ new.written = mdf /\ new.holds = inode[o].holds /\ new.alone = inode[o].alone
  BY <1>1, <1>3 DEF Inode
<1> HIDE DEF new
<1>5. /\ inode' \in [Promises \cup {Original} -> Inode] /\ inode'[o] = new
      /\ \A i \in (Promises \cup {Original}) \ {o} : inode'[i] = inode[i]
  BY <1>2, <1>4 DEF SourceTypeOK
<1> QED
  BY <1>3, <1>4, <1>5, Zenon

\* What an open that ends gives.
LEMMA OpenedType ==
    ASSUME SourceTypeOK, NEW o \in Promises, Opened(o)
    PROVE  /\ open' \in [Promises -> Open]
           /\ open[o].st = "opening" /\ open'[o].st = "open" /\ open'[o].file = target
           /\ open'[o].old = open[o].old /\ open'[o].beside = open[o].beside
           /\ \A p \in Promises \ {o} : open'[p] = open[p]
<1> DEFINE joined == FALSE
           new == [open[o] EXCEPT !.st = "open", !.file = target, !.joined = joined]
<1>1. open[o] \in Open /\ target \in Promises \cup {Original}
  BY DEF SourceTypeOK
<1>2. open' = [open EXCEPT ![o] = new] /\ open[o].st = "opening"
  BY <1>1 DEF Opened, SourceTypeOK, Open
<1>3. joined \in BOOLEAN
  OBVIOUS
<1> HIDE DEF joined
<1>4. new \in Open
  BY <1>1, <1>3 DEF Open
<1>5. new.st = "open" /\ new.file = target /\ new.old = open[o].old /\ new.beside = open[o].beside
  BY <1>1 DEF Open
<1> HIDE DEF new
<1>6. open' \in [Promises -> Open] /\ open'[o] = new /\ \A p \in Promises \ {o} : open'[p] = open[p]
  BY <1>2, <1>4 DEF SourceTypeOK
<1> QED
  BY <1>2, <1>5, <1>6

LEMMA OpenStepType ==
    ASSUME SourceTypeOK, NEW o \in Promises, OpenStep(o)
    PROVE  SourceTypeOK'
<1>1. CASE StartConversion(o)
  BY <1>1, StartType DEF StartConversion, SourceTypeOK
<1>2. CASE EndConversion(o)
  <2>1. [open[o] EXCEPT !.st = "opening"] \in Open
    BY DEF SourceTypeOK, Open, InOpen
  <2>2. inode' \in [Promises \cup {Original} -> Inode]
    BY <1>2, EndType
  <2>3. CASE tmp # None
    BY <1>2, <2>1, <2>2, <2>3 DEF EndConversion, SourceTypeOK
  <2>4. CASE tmp = None
    <3>1. open' \in [Promises -> Open] /\ duck' \in Promises \cup {None}
      BY <1>2, <2>4, RejectsType DEF EndConversion
    <3> QED
      BY <1>2, <2>2, <2>4, <3>1 DEF EndConversion, SourceTypeOK
  <2> QED
    BY <2>3, <2>4
<1>3. CASE ConversionFails(o)
  BY <1>3, RejectsType, FailsType DEF ConversionFails, SourceTypeOK
<1>4. CASE Opened(o)
  BY <1>4, OpenedType DEF Opened, SourceTypeOK
<1>5. CASE OpenFails(o)
  BY <1>5, RejectsType, FailsType DEF OpenFails, SourceTypeOK
<1> QED
  BY <1>1, <1>2, <1>3, <1>4, <1>5 DEF OpenStep

LEMMA LoadRejectsType ==
    ASSUME SourceTypeOK, NEW i \in Promises, LoadRejects(i)
    PROVE  load' \in [Promises -> Load] /\ loading' \in Promises \cup {None}
<1>1. [load[i] EXCEPT !.st = "failed", !.on = None] \in Load
  BY DEF SourceTypeOK, Load
<1>2. load' = [load EXCEPT ![i] = [load[i] EXCEPT !.st = "failed", !.on = None]]
  BY DEF LoadRejects, SourceTypeOK, Load
<1> QED
  BY <1>1, <1>2 DEF LoadRejects, SourceTypeOK

LEMMA LoadStepType ==
    ASSUME SourceTypeOK, NEW i \in Promises, LoadStep(i)
    PROVE  SourceTypeOK'
<1>1. CASE AwaitEngine(i)
  <2>1. PICK o \in Promises : Engine(o) /\ load' = [load EXCEPT ![i].on = o]
    BY <1>1 DEF AwaitEngine
  <2>2. [load[i] EXCEPT !.on = o] \in Load
    BY DEF SourceTypeOK, Load
  <2> QED
    BY <1>1, <2>1, <2>2, EngineType DEF AwaitEngine, SourceTypeOK
<1> DEFINE read == inode[open[Given(load[i].on)].file].holds
<1>2. load[i].on \in Promises \cup {None}
  BY DEF SourceTypeOK, Load
<1>3. CASE ReadTables(i)
  <2>1. read \in Versions
    BY <1>2, <1>3, ReadType DEF ReadTables
  <2>2. [load[i] EXCEPT !.st = "columns", !.on = None, !.tables = read] \in Load
    BY <2>1 DEF SourceTypeOK, Load, InLoad
  <2>3. load' = [load EXCEPT ![i] = [load[i] EXCEPT !.st = "columns", !.on = None, !.tables = read]]
    BY <1>3 DEF ReadTables, SourceTypeOK, Load
  <2> HIDE DEF read
  <2> QED
    BY <1>3, <2>2, <2>3, ZenonT(60) DEF ReadTables, SourceTypeOK
<1>4. CASE ReadColumns(i)
  <2>1. read \in Versions
    BY <1>2, <1>4, ReadType DEF ReadColumns
  <2>2. [load[i] EXCEPT !.st = "done", !.on = None, !.columns = read] \in Load
    BY <2>1 DEF SourceTypeOK, Load
  <2>3. load' = [load EXCEPT ![i] = [load[i] EXCEPT !.st = "done", !.on = None, !.columns = read]]
    BY <1>4 DEF ReadColumns, SourceTypeOK, Load
  <2> HIDE DEF read
  <2> QED
    BY <1>4, <2>2, <2>3, ZenonT(60) DEF ReadColumns, SourceTypeOK
<1>5. CASE LoadLosesEngine(i)
  BY <1>5, LoadRejectsType DEF LoadLosesEngine, SourceTypeOK
<1>6. CASE LoadFails(i)
  BY <1>6, LoadRejectsType, FailsType DEF LoadFails, SourceTypeOK
<1> QED
  BY <1>1, <1>3, <1>4, <1>5, <1>6 DEF LoadStep

LEMMA ReintrospectType ==
    ASSUME SourceTypeOK, NEW r \in Refreshes, Reintrospect(r)
    PROVE  /\ load' \in [Promises -> Load] /\ {loading', loaded'} \subseteq Promises \cup {None}
           /\ refresh' \in [Refreshes -> RefreshRequest]
<1> DEFINE asked == IF refresh[r].st = "idle" THEN mdf ELSE refresh[r].asked
<1>1. PICK i \in Promises :
        /\ Join(i) /\ loaded' = None
        /\ refresh' = [refresh EXCEPT ![r].st = "loading", ![r].on = i,
                                      ![r].asked = IF refresh[r].st = "idle" THEN mdf ELSE @]
  BY DEF Reintrospect
<1>2. [refresh[r] EXCEPT !.st = "loading", !.on = i, !.asked = asked] \in RefreshRequest
  BY DEF SourceTypeOK, RefreshRequest
<1>3. refresh' = [refresh EXCEPT ![r] = [refresh[r] EXCEPT !.st = "loading", !.on = i, !.asked = asked]]
  BY <1>1 DEF SourceTypeOK, RefreshRequest
<1> HIDE DEF asked
<1> QED
  BY <1>1, <1>2, <1>3, JoinType, ZenonT(60) DEF SourceTypeOK

\* A reload() tells the loads that read meanwhile apart.
LEMMA DisturbsType ==
    ASSUME SourceTypeOK,
           load' = [i \in Promises |-> [load[i] EXCEPT !.undisturbed = @ /\ load[i].st \notin InLoad]]
    PROVE  /\ load' \in [Promises -> Load]
           /\ \A i \in Promises : /\ load'[i].st = load[i].st /\ load'[i].on = load[i].on
                                  /\ load'[i].tables = load[i].tables /\ load'[i].columns = load[i].columns
                                  /\ load'[i].undisturbed <=> load[i].undisturbed /\ load[i].st \notin InLoad
<1> SUFFICES ASSUME NEW i \in Promises
             PROVE  /\ load'[i] \in Load
                    /\ load'[i].st = load[i].st /\ load'[i].on = load[i].on
                    /\ load'[i].tables = load[i].tables /\ load'[i].columns = load[i].columns
                    /\ load'[i].undisturbed <=> load[i].undisturbed /\ load[i].st \notin InLoad
  OBVIOUS
<1> DEFINE still == load[i].undisturbed /\ load[i].st \notin InLoad
<1>1. load'[i] = [load[i] EXCEPT !.undisturbed = still]
  OBVIOUS
<1>2. still \in BOOLEAN /\ (still <=> load[i].undisturbed /\ load[i].st \notin InLoad)
  OBVIOUS
<1> HIDE DEF still
<1>3. load[i] \in Load
  BY DEF SourceTypeOK
<1>4. /\ load'[i] \in Load /\ load'[i].st = load[i].st /\ load'[i].on = load[i].on
      /\ load'[i].tables = load[i].tables /\ load'[i].columns = load[i].columns
      /\ load'[i].undisturbed = still
  BY <1>1, <1>2, <1>3 DEF Load
<1> QED
  BY <1>2, <1>4, Zenon

LEMMA RefreshType ==
    ASSUME SourceTypeOK, NEW r \in Refreshes, Refresh(r) \/ RefreshStep(r)
    PROVE  SourceTypeOK'
<1>1. CASE Refresh(r)
  <2>1. CASE duck = None
    BY <1>1, <2>1, ReintrospectType DEF Refresh, SourceTypeOK
  <2>2. CASE duck # None
    <3>1. PICK o \in Promises :
            /\ Begin(o, duck)
            /\ refresh' = [refresh EXCEPT ![r] = [st |-> "opening", on |-> o, asked |-> mdf]]
      BY <1>1, <2>2 DEF Refresh
    <3>2. [st |-> "opening", on |-> o, asked |-> mdf] \in RefreshRequest
      BY DEF RefreshRequest, SourceTypeOK
    <3>3. load' \in [Promises -> Load]
      BY <1>1, <2>2, DisturbsType DEF Refresh
    <3>4. /\ open' \in [Promises -> Open] /\ inode' \in [Promises \cup {Original} -> Inode]
          /\ duck' \in Promises \cup {None}
      BY <3>1, BeginType DEF SourceTypeOK
    <3> QED
      BY <1>1, <2>2, <3>1, <3>2, <3>3, <3>4 DEF Refresh, SourceTypeOK
  <2> QED
    BY <2>1, <2>2
<1>2. CASE Reloaded(r)
  BY <1>2, ReintrospectType DEF Reloaded, SourceTypeOK
<1>3. CASE RefreshFails(r)
  <2>1. [refresh[r] EXCEPT !.st = "failed"] \in RefreshRequest
    BY DEF SourceTypeOK, RefreshRequest
  <2> QED
    BY <1>3, <2>1 DEF RefreshFails, SourceTypeOK
<1>4. CASE Refreshed(r)
  <2>1. [refresh[r] EXCEPT !.st = "done"] \in RefreshRequest
    BY DEF SourceTypeOK, RefreshRequest
  <2> QED
    BY <1>4, <2>1 DEF Refreshed, SourceTypeOK
<1> QED
  BY <1>1, <1>2, <1>3, <1>4 DEF RefreshStep

LEMMA SourceStepType ==
    ASSUME SourceTypeOK, NEW used, SourceStep(used)
    PROVE  SourceTypeOK'
<1>1. CASE Replaced
  BY <1>1, BoundsAssumption DEF Replaced, SourceTypeOK, Versions
<1>2. CASE Warm
  BY <1>2, EngineType DEF Warm, SourceTypeOK
<1>3. ASSUME NEW o \in Promises, CloseOld(o, used) PROVE SourceTypeOK'
  <2>1. open[o].old \in Promises
    BY <1>3 DEF CloseOld, SourceTypeOK, Open
  <2>2. [open[open[o].old] EXCEPT !.st = "closed"] \in Open
    BY <2>1 DEF SourceTypeOK, Open
  <2> QED
    BY <1>3, <2>1, <2>2 DEF CloseOld, SourceTypeOK
<1> QED
  BY <1>1, <1>2, <1>3, OpenStepType, LoadStepType, RefreshType DEF SourceStep
-----------------------------------------------------------------------------
(* Its files, however opens overlap *)

WholeFile(i) == inode[i].alone => inode[i].whole

\* What an open that has not begun is not part of yet.
Unused(o) == /\ ~open[o].beside
             /\ inode[o].written = inode[o].holds
             /\ target # o
             /\ \A p \in Promises : open[p].file # o

\* The temporary name holds what a conversion under way writes; one that was
\* always alone holds it to the end, so that it is renamed whole.
FilesInv == /\ inode[Original].written = inode[Original].holds /\ WholeFile(Original)
            /\ WholeFile(target)
            /\ tmp # None => open[tmp].st = "writing"
            /\ \A o \in Promises :
                  /\ WholeFile(open[o].file)
                  /\ open[o].st = "unused" => Unused(o)
                  /\ open[o].st \in {"hashing", "writing"} => inode[o].written = inode[o].holds
                  /\ open[o].st = "writing" /\ inode[o].alone =>
                        tmp = o /\ \A p \in Promises : open[p].st = "writing" => p = o

NotReplaced == \A i \in Promises : inode[i].written = inode[i].holds

\* What the conditions of the properties exclude stays so: it is never undone.
Back == (OneAtATime' => OneAtATime) /\ (NotReplaced' => NotReplaced)

LEMMA FileType ==
    ASSUME SourceTypeOK
    PROVE  target \in Promises \cup {Original} /\ \A o \in Promises : open[o].file \in Promises \cup {Original}
BY DEF SourceTypeOK, Open

\* Opens that keep their files and take no part in a conversion.
LEMMA SameFiles ==
    ASSUME SourceTypeOK, FilesInv, UNCHANGED <<inode, target>>, tmp' \in {tmp, None},
           tmp' # None => open'[tmp].st = "writing",
           \A p \in Promises : /\ open'[p].file = open[p].file /\ open'[p].beside = open[p].beside
                               /\ open'[p].st = open[p].st \/ open'[p].st \notin {"unused", "hashing", "writing"},
           \A p \in Promises : open'[p].st = "writing" => tmp' = tmp
                                   \/ \E q \in Promises \ {p} : open[q].st = "writing"
    PROVE  FilesInv' /\ Back
<1>1. \A p \in Promises : WholeFile(open[p].file) /\ open'[p].file = open[p].file
  BY DEF FilesInv
<1>2. ASSUME NEW p \in Promises, open'[p].st = "unused"
      PROVE  /\ ~open'[p].beside /\ inode'[p].written = inode'[p].holds /\ target' # p
             /\ \A q \in Promises : open'[q].file # p
  <2>1. Unused(p)
    BY <1>2 DEF FilesInv
  <2>2. open'[p].beside = open[p].beside
    OBVIOUS
  <2>3. ~open'[p].beside
    BY <2>1, <2>2, Zenon DEF Unused
  <2> QED
    BY <1>1, <2>1, <2>3 DEF Unused
<1>3. ASSUME NEW p \in Promises
      PROVE  /\ open'[p].st \in {"hashing", "writing"} => inode'[p].written = inode'[p].holds
             /\ open'[p].st = "writing" /\ inode'[p].alone =>
                   tmp' = p /\ \A q \in Promises : open'[q].st = "writing" => q = p
  BY DEF FilesInv
<1>4. FilesInv'
  BY <1>1, <1>2, <1>3 DEF FilesInv, WholeFile, Unused
<1>5. OneAtATime' => OneAtATime
  BY Zenon DEF OneAtATime
<1> QED
  BY <1>4, <1>5 DEF Back, NotReplaced

LEMMA BeginFiles ==
    ASSUME SourceTypeOK, FilesInv, NEW o \in Promises, IsNext(open, o),
           NEW old \in Promises \cup {None}, Begin(o, old), UNCHANGED <<mdf, target, tmp>>
    PROVE  FilesInv' /\ Back
<1>1. /\ open'[o].st \in {"hashing", "opening"} /\ open'[o].file = Original
      /\ \A p \in Promises \ {o} : open'[p] = open[p]
  BY BeginType
<1>2. open[o].st = "unused" /\ Unused(o) /\ o # Original /\ tmp # o
  BY NoneType DEF IsNext, FilesInv, Original, None
<1>3. \A i \in (Promises \cup {Original}) \ {o} : inode'[i] = inode[i]
  BY DEF Begin, SourceTypeOK
<1>4. inode'[o].written = inode'[o].holds
  <2>1. CASE Stale
    BY <2>1 DEF Begin, SourceTypeOK
  <2>2. CASE ~Stale
    BY <1>2, <2>2 DEF Begin, Unused
  <2> QED
    BY <2>1, <2>2
<1>5. \A p \in Promises \ {o} : open[p].file \in (Promises \cup {Original}) \ {o} /\ target \in (Promises \cup {Original}) \ {o}
  BY <1>2, FileType DEF Unused
<1>6. WholeFile(target)' /\ Original # o /\ inode'[Original] = inode[Original]
  BY <1>2, <1>3, <1>5, FileType DEF FilesInv, WholeFile, Unused
<1>7. ASSUME NEW p \in Promises PROVE WholeFile(open[p].file)'
  <2>1. CASE p = o
    <3>1. inode'[open'[p].file] = inode[Original] /\ WholeFile(open[o].file)
      BY <1>1, <1>6, <2>1 DEF FilesInv
    <3>2. WholeFile(Original)
      BY DEF FilesInv
    <3> QED
      BY <3>1, <3>2 DEF WholeFile
  <2>2. CASE p # o
    <3>1. inode'[open'[p].file] = inode[open[p].file] /\ WholeFile(open[p].file)
      BY <1>1, <1>3, <1>5, <2>2 DEF FilesInv
    <3> QED
      BY <3>1 DEF WholeFile
  <2> QED
    BY <2>1, <2>2
<1>8. ASSUME NEW p \in Promises, open'[p].st = "unused" PROVE Unused(p)'
  <2>1. p # o /\ open'[p] = open[p] /\ Unused(p)
    BY <1>1, <1>8 DEF FilesInv
  <2>2. \A q \in Promises : open'[q].file # p
    BY <1>1, <2>1, NoneType DEF Unused, Original, None
  <2>3. ~open'[p].beside
    BY <2>1, Zenon DEF Unused
  <2>4. inode'[p] = inode[p]
    BY <1>3, <2>1
  <2> QED
    BY <2>1, <2>2, <2>3, <2>4 DEF Unused
<1>9. ASSUME NEW p \in Promises, open'[p].st \in {"hashing", "writing"} PROVE inode'[p].written = inode'[p].holds
  BY <1>1, <1>3, <1>4, <1>9 DEF FilesInv
<1>10. ASSUME NEW p \in Promises, open'[p].st = "writing", inode'[p].alone
       PROVE  tmp = p /\ \A q \in Promises : open'[q].st = "writing" => q = p
  <2>1. p # o /\ open'[p] = open[p] /\ inode'[p] = inode[p]
    BY <1>1, <1>3, <1>10
  <2>2. inode[p].alone
    BY <1>10, <2>1
  <2>3. tmp = p /\ \A q \in Promises : open[q].st = "writing" => q = p
    BY <1>10, <2>1, <2>2 DEF FilesInv
  <2> QED
    BY <1>1, <2>3
<1>11. tmp # None => open'[tmp].st = "writing"
  BY <1>1, <1>2 DEF FilesInv, SourceTypeOK
<1>12. FilesInv'
  <2>1. WholeFile(Original)' /\ inode'[Original].written = inode'[Original].holds
    BY <1>6 DEF FilesInv, WholeFile
  <2> QED
    BY <1>6, <1>7, <1>8, <1>9, <1>10, <1>11, <2>1 DEF FilesInv
<1>13. OneAtATime' => OneAtATime
  <2>1. ASSUME NEW p \in Promises, ~open'[p].beside PROVE ~open[p].beside
    <3>1. CASE p = o
      BY <1>2, <3>1, Zenon DEF Unused
    <3>2. CASE p # o
      <4>1. open'[p] = open[p]
        BY <1>1, <3>2
      <4> QED
        BY <2>1, <4>1, Zenon
    <3> QED
      BY <3>1, <3>2
  <2> QED
    BY <2>1, Zenon DEF OneAtATime
<1>14. NotReplaced' => NotReplaced
  BY <1>2, <1>3 DEF NotReplaced, Unused
<1> QED
  BY <1>12, <1>13, <1>14 DEF Back

\* A caller of duckdb().
LEMMA EngineFiles ==
    ASSUME SourceTypeOK, FilesInv, NEW o \in Promises, Engine(o), UNCHANGED <<mdf, target, tmp>>
    PROVE  FilesInv' /\ Back
<1>1. CASE duck # None
  <2>1. /\ inode' = inode
        /\ \A p \in Promises : /\ open'[p].st = open[p].st /\ open'[p].file = open[p].file
                               /\ open'[p].beside = open[p].beside
    BY <1>1, JoinedType
  <2>2. tmp # None => open'[tmp].st = "writing"
    BY <2>1 DEF FilesInv, SourceTypeOK
  <2> QED
    BY <2>1, <2>2, SameFiles
<1>2. CASE duck = None
  <2>1. IsNext(open, o) /\ Begin(o, None)
    BY <1>2 DEF Engine
  <2> QED
    BY <2>1, BeginFiles
<1> QED
  BY <1>1, <1>2

\* An open that fails.
LEMMA RejectsFiles ==
    ASSUME SourceTypeOK, FilesInv, NEW o \in Promises, Rejects(o), UNCHANGED <<inode, target>>,
           open[o].st \in InOpen, tmp' = IF open[o].st = "writing" THEN None ELSE tmp
    PROVE  FilesInv' /\ Back
<1>1. /\ open'[o].st = "failed" /\ \A p \in Promises \ {o} : open'[p] = open[p]
      /\ \A p \in Promises : open'[p].file = open[p].file /\ open'[p].beside = open[p].beside
  BY DEF Rejects, SourceTypeOK, Open
<1>2. tmp' # None => tmp' = tmp /\ tmp # o /\ open'[tmp].st = "writing"
  BY <1>1 DEF FilesInv, SourceTypeOK
<1>3. \A p \in Promises : open'[p].st = "writing" => p # o /\ open[p].st = "writing"
  BY <1>1
<1> QED
  BY <1>1, <1>2, <1>3, SameFiles DEF InOpen

LEMMA StartFiles ==
    ASSUME SourceTypeOK, FilesInv, NEW o \in Promises, StartConversion(o)
    PROVE  FilesInv' /\ Back
<1>1. /\ open[o].st = "hashing" /\ open'[o].st = "writing" /\ tmp' = o /\ target' = target
      /\ \A p \in Promises \ {o} : open'[p] = open[p]
      /\ \A p \in Promises : open'[p].file = open[p].file /\ open'[p].beside = open[p].beside
  BY StartType DEF StartConversion
<1>2. \A i \in Promises \cup {Original} :
         /\ inode'[i].holds = inode[i].holds /\ inode'[i].written = inode[i].written
         /\ inode'[i].whole = inode[i].whole /\ (inode'[i].alone => inode[i].alone)
         /\ Writing # {} /\ i \in Writing \cup {o} => ~inode'[i].alone
  BY StartType
<1>3. ASSUME NEW i \in Promises \cup {Original}, WholeFile(i) PROVE WholeFile(i)'
  BY <1>2, <1>3, Zenon DEF WholeFile
<1>4. ASSUME NEW p \in Promises PROVE WholeFile(open[p].file)'
  <2>1. PICK i \in Promises \cup {Original} : i = open[p].file /\ WholeFile(i)
    BY FileType DEF FilesInv
  <2>2. WholeFile(i)' /\ open'[p].file = i
    BY <1>1, <1>3, <2>1
  <2> QED
    BY <2>2 DEF WholeFile
<1>5. WholeFile(target)' /\ WholeFile(Original)'
  <2>1. PICK i \in Promises \cup {Original} : i = target /\ WholeFile(i)
    BY FileType DEF FilesInv
  <2>2. WholeFile(i)'
    BY <1>3, <2>1
  <2> QED
    BY <1>1, <1>3, <2>1, <2>2 DEF WholeFile, FilesInv
<1>6. ASSUME NEW p \in Promises, open'[p].st = "unused" PROVE Unused(p)'
  <2>1. p # o /\ Unused(p) /\ open'[p].beside = open[p].beside
    BY <1>1, <1>6 DEF FilesInv
  <2>2. ~open'[p].beside
    BY <2>1, Zenon DEF Unused
  <2> QED
    BY <1>1, <1>2, <2>1, <2>2 DEF Unused
<1>7. ASSUME NEW p \in Promises, open'[p].st \in {"hashing", "writing"} PROVE inode'[p].written = inode'[p].holds
  BY <1>1, <1>2, <1>7 DEF FilesInv
<1>8. ASSUME NEW p \in Promises, open'[p].st = "writing", inode'[p].alone
      PROVE  o = p /\ \A q \in Promises : open'[q].st = "writing" => q = p
  <2>1. p \notin Writing \cup {o} \/ Writing = {}
    BY <1>2, <1>8, Zenon
  <2>2. p \in Writing \cup {o}
    BY <1>1, <1>8 DEF Writing
  <2>3. Writing = {}
    BY <2>1, <2>2
  <2> QED
    BY <1>1, <1>8, <2>3 DEF Writing
<1>9. FilesInv'
  <2>1. tmp' # None => open'[tmp'].st = "writing"
    BY <1>1
  <2>2. inode'[Original].written = inode'[Original].holds
    BY <1>2 DEF FilesInv
  <2> QED
    BY <1>1, <1>4, <1>5, <1>6, <1>7, <1>8, <2>1, <2>2 DEF FilesInv
<1>10. OneAtATime' => OneAtATime
  BY <1>1, Zenon DEF OneAtATime
<1>11. NotReplaced' => NotReplaced
  BY <1>2 DEF NotReplaced
<1> QED
  BY <1>9, <1>10, <1>11 DEF Back

\* What a conversion that ended leaves at the target was written to its end,
\* or beside another.
LEMMA EndFiles ==
    ASSUME SourceTypeOK, FilesInv, NEW o \in Promises, EndConversion(o)
    PROVE  FilesInv' /\ Back
<1>1. /\ open[o].st = "writing" /\ tmp' = None /\ o # Original
      /\ target' = IF tmp # None THEN tmp ELSE target
  <2>1. o # Original
    BY NoneType DEF Original
  <2> QED
    BY <2>1 DEF EndConversion
<1>2. /\ open'[o].st \in {"opening", "failed"} /\ \A p \in Promises \ {o} : open'[p] = open[p]
      /\ \A p \in Promises : open'[p].file = open[p].file /\ open'[p].beside = open[p].beside
  BY DEF EndConversion, Rejects, SourceTypeOK, Open
<1>3. /\ inode'[o].whole /\ inode'[o].holds = inode[o].holds
      /\ \A i \in (Promises \cup {Original}) \ {o} : inode'[i] = inode[i]
  BY EndType
<1>4. ASSUME NEW i \in Promises \cup {Original}, WholeFile(i) \/ i = tmp PROVE WholeFile(i)'
  <2>1. CASE i = o
    BY <1>3, <2>1, Zenon DEF WholeFile
  <2>2. CASE i # o /\ i = tmp /\ tmp # None
    <3>1. open[i].st = "writing" /\ i \in Promises
      BY <2>2 DEF FilesInv, SourceTypeOK
    <3>2. ~inode[i].alone
      BY <1>1, <2>2, <3>1 DEF FilesInv
    <3>3. inode'[i] = inode[i]
      BY <1>3, <2>2
    <3> QED
      BY <3>2, <3>3, Zenon DEF WholeFile
  <2>3. CASE i # o /\ WholeFile(i)
    <3>1. inode'[i] = inode[i]
      BY <1>3, <2>3
    <3> QED
      BY <2>3, <3>1, Zenon DEF WholeFile
  <2>4. CASE i = None
    <3>1. WholeFile(i)
      BY <2>4 DEF FilesInv, Original
    <3> QED
      BY <1>1, <2>3, <2>4, <3>1 DEF Original
  <2> QED
    BY <1>4, <2>1, <2>2, <2>3, <2>4
<1>5. ASSUME NEW p \in Promises PROVE WholeFile(open[p].file)'
  <2>1. PICK i \in Promises \cup {Original} : i = open[p].file /\ WholeFile(i)
    BY FileType DEF FilesInv
  <2>2. WholeFile(i)' /\ open'[p].file = i
    BY <1>2, <1>4, <2>1
  <2> QED
    BY <2>2 DEF WholeFile
<1>6. WholeFile(target)' /\ WholeFile(Original)'
  <2>1. PICK i \in Promises \cup {Original} : i = target' /\ (WholeFile(i) \/ i = tmp)
    BY <1>1, FileType DEF FilesInv, SourceTypeOK
  <2>2. WholeFile(i)'
    BY <1>4, <2>1
  <2>3. WholeFile(Original)'
    BY <1>4 DEF FilesInv
  <2> QED
    BY <2>1, <2>2, <2>3 DEF WholeFile
<1>7. ASSUME NEW p \in Promises, open'[p].st = "unused" PROVE Unused(p)'
  <2>1. p # o /\ Unused(p) /\ open'[p].beside = open[p].beside /\ inode'[p] = inode[p] /\ open[p].st = "unused"
    BY <1>2, <1>3, <1>7 DEF FilesInv
  <2>2. ~open'[p].beside
    BY <2>1, Zenon DEF Unused
  <2>3. target' # p
    BY <1>1, <2>1 DEF Unused, FilesInv
  <2> QED
    BY <1>2, <2>1, <2>2, <2>3 DEF Unused
<1>8. ASSUME NEW p \in Promises, open'[p].st \in {"hashing", "writing"} PROVE inode'[p].written = inode'[p].holds
  BY <1>2, <1>3, <1>8 DEF FilesInv
<1>9. ASSUME NEW p \in Promises, open'[p].st = "writing", inode'[p].alone PROVE FALSE
  <2>1. p # o /\ open[p].st = "writing" /\ inode'[p] = inode[p]
    BY <1>2, <1>3, <1>9
  <2>2. inode[p].alone
    BY <1>9, <2>1
  <2> QED
    BY <1>1, <2>1, <2>2 DEF FilesInv
<1>10. FilesInv'
  <2>1. inode'[Original].written = inode'[Original].holds
    BY <1>1, <1>3 DEF FilesInv
  <2> QED
    BY <1>1, <1>5, <1>6, <1>7, <1>8, <1>9, <2>1 DEF FilesInv
<1>11. OneAtATime' => OneAtATime
  BY <1>2, Zenon DEF OneAtATime
<1>12. NotReplaced' => NotReplaced
  BY <1>1, <1>3 DEF NotReplaced, FilesInv
<1> QED
  BY <1>10, <1>11, <1>12 DEF Back

LEMMA OpenedFiles ==
    ASSUME SourceTypeOK, FilesInv, NEW o \in Promises, Opened(o)
    PROVE  FilesInv' /\ Back
<1>1. /\ open[o].st = "opening" /\ open'[o].st = "open" /\ open'[o].file = target
      /\ open'[o].beside = open[o].beside
      /\ \A p \in Promises \ {o} : open'[p] = open[p]
      /\ UNCHANGED <<inode, target, tmp>>
  BY OpenedType DEF Opened
<1>2. \A p \in Promises : WholeFile(open'[p].file)
  BY <1>1 DEF FilesInv
<1>3. ASSUME NEW p \in Promises, open'[p].st = "unused" PROVE Unused(p)'
  <2>1. p # o /\ Unused(p) /\ open'[p] = open[p]
    BY <1>1, <1>3 DEF FilesInv
  <2>2. ~open'[p].beside
    BY <2>1, Zenon DEF Unused
  <2>3. \A q \in Promises : open'[q].file # p
    BY <1>1, <2>1 DEF Unused
  <2> QED
    BY <1>1, <2>1, <2>2, <2>3 DEF Unused
<1>4. FilesInv'
  <2>1. ASSUME NEW p \in Promises
        PROVE  /\ open'[p].st \in {"hashing", "writing"} => inode[p].written = inode[p].holds
               /\ open'[p].st = "writing" /\ inode[p].alone =>
                     tmp = p /\ \A q \in Promises : open'[q].st = "writing" => q = p
    BY <1>1 DEF FilesInv
  <2>2. tmp # None => open'[tmp].st = "writing"
    BY <1>1 DEF FilesInv, SourceTypeOK
  <2>3. WholeFile(target)' /\ WholeFile(Original)' /\ \A p \in Promises : WholeFile(open[p].file)'
    BY <1>1, <1>2 DEF WholeFile, FilesInv
  <2> QED
    BY <1>1, <1>3, <2>1, <2>2, <2>3 DEF FilesInv
<1>5. OneAtATime' => OneAtATime
  <2>1. \A p \in Promises : open'[p].beside = open[p].beside
    BY <1>1
  <2> QED
    BY <2>1, Zenon DEF OneAtATime
<1> QED
  BY <1>1, <1>4, <1>5 DEF Back, NotReplaced

LEMMA KeepsFiles ==
    ASSUME FilesInv, UNCHANGED <<inode, target, tmp, open>>
    PROVE  FilesInv' /\ Back
<1>1. \A o \in Promises : Unused(o)' <=> Unused(o)
  BY DEF Unused
<1>2. WholeFile(target)' /\ WholeFile(Original)' /\ \A p \in Promises : WholeFile(open[p].file)'
  BY DEF WholeFile, FilesInv
<1> QED
  BY <1>1, <1>2 DEF FilesInv, Back, OneAtATime, NotReplaced

LEMMA OpenStepFiles ==
    ASSUME SourceTypeOK, FilesInv, NEW o \in Promises, OpenStep(o)
    PROVE  FilesInv' /\ Back
<1>1. CASE ConversionFails(o)
  BY <1>1, RejectsFiles DEF ConversionFails, InOpen
<1>2. CASE OpenFails(o)
  BY <1>2, RejectsFiles DEF OpenFails, InOpen
<1> QED
  BY <1>1, <1>2, StartFiles, EndFiles, OpenedFiles DEF OpenStep

LEMMA CloseFiles ==
    ASSUME SourceTypeOK, FilesInv, NEW o \in Promises, NEW used, CloseOld(o, used)
    PROVE  FilesInv' /\ Back
<1> DEFINE c == open[o].old
<1>1. /\ c \in Promises /\ open[c].st = "open" /\ UNCHANGED <<inode, target, tmp>>
      /\ open' = [open EXCEPT ![c].st = "closed"]
  BY DEF CloseOld, SourceTypeOK, Open
<1> HIDE DEF c
<1>2. /\ open'[c].st = "closed" /\ \A p \in Promises \ {c} : open'[p] = open[p]
      /\ \A p \in Promises : open'[p].file = open[p].file /\ open'[p].beside = open[p].beside
  BY <1>1 DEF SourceTypeOK, Open
<1>3. tmp # None => open'[tmp].st = "writing"
  BY <1>1, <1>2 DEF FilesInv, SourceTypeOK
<1> QED
  BY <1>1, <1>2, <1>3, SameFiles

LEMMA LoadStepFiles ==
    ASSUME SourceTypeOK, FilesInv, NEW i \in Promises, LoadStep(i)
    PROVE  FilesInv' /\ Back
<1>1. CASE AwaitEngine(i)
  BY <1>1, EngineFiles DEF AwaitEngine
<1> QED
  BY <1>1, KeepsFiles DEF LoadStep, ReadTables, ReadColumns, LoadLosesEngine, LoadFails

LEMMA RefreshFiles ==
    ASSUME SourceTypeOK, FilesInv, NEW r \in Refreshes, Refresh(r) \/ RefreshStep(r)
    PROVE  FilesInv' /\ Back
<1>1. CASE Refresh(r) /\ duck # None
  BY <1>1, BeginFiles DEF Refresh, SourceTypeOK
<1>2. CASE Refresh(r) /\ duck = None
  BY <1>2, KeepsFiles DEF Refresh
<1> QED
  BY <1>1, <1>2, KeepsFiles DEF RefreshStep, Reloaded, RefreshFails, Refreshed

LEMMA SourceStepFiles ==
    ASSUME SourceTypeOK, FilesInv, NEW used, SourceStep(used)
    PROVE  FilesInv' /\ Back
<1>1. CASE Replaced
  BY <1>1, KeepsFiles DEF Replaced
<1>2. CASE Warm
  BY <1>2, EngineFiles DEF Warm
<1> QED
  BY <1>1, <1>2, OpenStepFiles, CloseFiles, LoadStepFiles, RefreshFiles DEF SourceStep
-----------------------------------------------------------------------------
(* The inductive invariant where opens come one at a time *)

InUse == {"open", "closed"}
Holds(o) == inode[open[o].file].holds

\* The engine that serves, or did until a reload began.
Current == IF duck = None THEN None ELSE IF open[duck].st = "open" THEN duck ELSE open[duck].old

\* One open is under way at a time, and this.duck holds it or the last to open.
OneOpen == /\ \A o \in Promises : open[o].st \in InOpen => duck = o
           /\ \A o \in Promises : open[o].st = "writing" => tmp = o
           /\ duck # None => open[duck].st \in InOpen \cup {"open"}

\* The engine to go back to is open, and is never one that a reload left behind.
Fallback == /\ Current # None => open[Current].st = "open"
            /\ \A o \in Promises : /\ open[o].old # None => open[open[o].old].st \in InUse
                                   /\ open[o].st = "open" /\ Current # None => open[o].old # Current

\* Whatever was opened is no newer than what serves or the file, which is no
\* newer than the .mdf; a conversion under way writes nothing older.
NoNewer(o) == /\ ~Dropped => Current # None
              /\ Current # None => Holds(o) <= Holds(Current)
              /\ Holds(o) <= inode[target].holds
Between(o) == inode[target].holds <= inode[o].holds /\ inode[o].holds <= mdf
Ordered == /\ inode[target].holds <= mdf
           /\ \A o \in Promises : /\ open[o].st \in InUse => NoNewer(o)
                                  /\ open[o].st \in {"hashing", "writing"} => Between(o)

EngineInv == OneOpen /\ Fallback /\ Ordered

\* What serves is of version n or newer, or will be next; or will be once o is
\* open.
Gives(o, n) == /\ open[o].st \in {"hashing", "writing"} => n <= inode[o].holds
               /\ open[o].st = "opening" => n <= inode[target].holds
Coming(n) == /\ n <= mdf
             /\ Current # None => n <= Holds(Current)
             /\ Current = None => \A o \in Promises : Gives(o, n)
Due(o, n) == /\ open[o].st # "unused" /\ n <= mdf
             /\ Gives(o, n)
             /\ open[o].st = "open" => Coming(n)

\* A load under way is this.loading; one that no reload disturbs awaits
\* this.duck at most, and has read all it read from one engine.
Steadily(i) == /\ load[i].st \in InLoad /\ load[i].on # None =>
                      load[i].on = duck \/ open[load[i].on].st = "failed"
               /\ load[i].st = "columns" => /\ IsOpen(duck) /\ load[i].on = None
                                            /\ load[i].tables = Holds(duck)
               /\ load[i].st = "done" => load[i].tables = load[i].columns
OneLoad == /\ loading # None => load[loading].st \in InLoad
           /\ \A i \in Promises : /\ load[i].st \in InLoad => loading = i
                                  /\ load[i].st = "unused" => load[i].on = None
                                  /\ load[i].undisturbed => Steadily(i)

\* The data a refresh was asked for is on its way, or there.
AwaitedBy(q) == /\ q.st = "opening" => q.on \in Promises /\ Due(q.on, q.asked)
                /\ q.st \in {"loading", "done"} =>
                      /\ q.on \in Promises /\ load[q.on].st # "unused" /\ Coming(q.asked)
                      /\ load[q.on].st = "done" /\ load[q.on].undisturbed => q.asked <= load[q.on].tables
                /\ q.st = "done" => load[q.on].st = "done"
Awaited == \A r \in Refreshes : AwaitedBy(refresh[r])

ServeInv == EngineInv /\ OneLoad /\ Awaited
-----------------------------------------------------------------------------
(* Steps of the engine *)

\* What was served, or will be, goes forward only, if no .mdf is replaced
\* under a conversion.
Forward == \A n \in Versions : /\ Coming(n) => Coming(n)'
                               /\ \A o \in Promises : Due(o, n) => Due(o, n)'

\* Who holds this.duck goes on with it, or learns that it failed.
Steady == /\ IsOpen(duck) => duck' = duck /\ IsOpen(duck)' /\ Holds(duck)' = Holds(duck)
          /\ \A o \in Promises : o = duck \/ open[o].st = "failed" => o = duck' \/ open'[o].st = "failed"

LEMMA StaysDropped ==
    ASSUME \A p \in Promises : open[p].st = "failed" =>
               /\ open'[p].st = "failed" /\ open'[p].old = open[p].old
               /\ open[p].joined => open'[p].joined
    PROVE  Dropped => Dropped'
BY Zenon DEF Dropped

LEMMA NumberTypes ==
    ASSUME SourceTypeOK
    PROVE  /\ mdf \in Nat /\ inode[target].holds \in Nat /\ Versions \subseteq Nat
           /\ \A i \in Promises \cup {Original} : inode[i].holds \in Nat
           /\ \A o \in Promises : Holds(o) \in Nat /\ open[o].old \in Promises \cup {None}
           /\ Current \in Promises \cup {None}
<1>1. Versions \subseteq Nat
  BY DEF Versions
<1>2. \A i \in Promises \cup {Original} : inode[i].holds \in Nat
  BY <1>1 DEF SourceTypeOK, Inode
<1>3. \A o \in Promises : open[o].file \in Promises \cup {Original} /\ open[o].old \in Promises \cup {None}
  BY DEF SourceTypeOK, Open
<1>4. Current \in Promises \cup {None}
  BY <1>3 DEF Current, SourceTypeOK
<1> QED
  BY <1>1, <1>2, <1>3, <1>4 DEF Holds, SourceTypeOK

LEMMA ReplacedServes ==
    ASSUME SourceTypeOK, EngineInv, Replaced
    PROVE  EngineInv' /\ Forward /\ Steady
<1>1. mdf' = mdf + 1 /\ UNCHANGED <<inode, target, tmp, open, duck>>
  BY DEF Replaced
<1>2. mdf \in Nat /\ inode[target].holds \in Nat /\ Versions \subseteq Nat
      /\ \A o \in Promises : inode[o].holds \in Nat
  BY NumberTypes
<1>3. Current' = Current /\ (Dropped' <=> Dropped)
  BY <1>1 DEF Current, Dropped
<1>4. OneOpen' /\ Fallback'
  BY <1>1, <1>3 DEF EngineInv, OneOpen, Fallback
<1>5. Ordered'
  <2>1. \A o \in Promises : NoNewer(o) => NoNewer(o)'
    BY <1>1, <1>3 DEF NoNewer, Holds
  <2>2. \A o \in Promises : Between(o) => Between(o)'
    BY <1>1, <1>2 DEF Between
  <2> QED
    BY <1>1, <1>2, <2>1, <2>2 DEF EngineInv, Ordered
<1>6. Forward
  <2> SUFFICES ASSUME NEW n \in Versions
               PROVE  /\ Coming(n) => Coming(n)'
                      /\ \A o \in Promises : Due(o, n) => Due(o, n)'
    BY DEF Forward
  <2>1. n <= mdf => n <= mdf'
    BY <1>1, <1>2
  <2>2. \A o \in Promises : Gives(o, n)' <=> Gives(o, n)
    BY <1>1 DEF Gives
  <2>3. Coming(n) => Coming(n)'
    BY <1>1, <1>3, <2>1, <2>2 DEF Coming, Holds
  <2> QED
    BY <1>1, <2>1, <2>2, <2>3 DEF Due
<1>7. Steady
  BY <1>1 DEF Steady, IsOpen, Holds
<1> QED
  BY <1>4, <1>5, <1>6, <1>7 DEF EngineInv

\* An open that begins with none under way.
LEMMA BeginServes ==
    ASSUME SourceTypeOK, FilesInv, EngineInv, NEW o \in Promises, IsNext(open, o),
           Begin(o, duck), UNCHANGED <<mdf, target, tmp>>, OneAtATime'
    PROVE  /\ EngineInv' /\ Current' = Current /\ duck' = o /\ open[o].st = "unused"
           /\ duck = None \/ open[duck].st = "open"
           /\ NotReplaced => (Forward /\ Due(o, mdf)')
<1>1. /\ open'[o].st \in {"hashing", "opening"} /\ open'[o].old = duck /\ open'[o].file = Original
      /\ duck' = o
      /\ open'[o].beside <=> \E p \in Promises : open[p].st \in InOpen
      /\ \A p \in Promises \ {o} : open'[p] = open[p]
  BY BeginType DEF SourceTypeOK, Begin
<1>2. \A p \in Promises : open[p].st \notin InOpen
  BY <1>1, Zenon DEF OneAtATime
<1>3. duck # None => open[duck].st = "open"
  BY <1>2 DEF EngineInv, OneOpen, SourceTypeOK
<1>4. /\ open[o].st = "unused" /\ target # o /\ o # None /\ duck # o
      /\ \A p \in Promises : open[p].file \in (Promises \cup {Original}) \ {o}
      /\ target \in (Promises \cup {Original}) \ {o}
  BY <1>3, NoneType, FileType DEF IsNext, FilesInv, Unused
<1>5. /\ open'[o].st = "hashing" => inode'[o].holds = mdf
      /\ open'[o].st = "opening" => inode' = inode /\ inode[target].written >= mdf
      /\ \A i \in (Promises \cup {Original}) \ {o} : inode'[i] = inode[i]
  <2>1. {mdf, inode[target].written} \subseteq Nat
    BY FileType DEF SourceTypeOK, Inode, Versions
  <2>2. open'[o].st = IF Stale THEN "hashing" ELSE "opening"
    BY DEF Begin, SourceTypeOK
  <2>3. CASE Stale
    BY <2>2, <2>3 DEF Begin, SourceTypeOK
  <2>4. CASE ~Stale
    BY <2>1, <2>2, <2>4 DEF Begin, Stale
  <2> QED
    BY <2>3, <2>4
<1>6. Current = duck /\ Current' = duck /\ Current # o
  BY <1>1, <1>3, <1>4 DEF Current
<1>7. /\ \A p \in Promises \ {o} : Holds(p)' = Holds(p)
      /\ inode'[target'] = inode[target]
      /\ Current # None => Holds(Current)' = Holds(Current)
  <2>1. \A p \in Promises \ {o} : Holds(p)' = Holds(p)
    BY <1>1, <1>4, <1>5 DEF Holds
  <2>2. Current # None => Holds(Current)' = Holds(Current)
    BY <1>6, <2>1 DEF SourceTypeOK, Holds
  <2> QED
    BY <1>4, <1>5, <2>1, <2>2
<1>8. {mdf, inode[target].holds} \subseteq Nat /\ inode[target].holds <= mdf
  BY NumberTypes DEF EngineInv, Ordered
<1>9. OneOpen'
  BY <1>1, <1>2, <1>4 DEF OneOpen, InOpen
<1>10. Fallback'
  <2>1. Current # None => open'[Current].st = "open"
    BY <1>1, <1>6, <1>3 DEF SourceTypeOK
  <2>2. ASSUME NEW p \in Promises
        PROVE  /\ open'[p].old # None => open'[open'[p].old].st \in InUse
               /\ open'[p].st = "open" /\ Current # None => open'[p].old # Current
    <3>1. CASE p = o
      BY <1>1, <1>3, <1>4, <3>1 DEF InUse, SourceTypeOK
    <3>2. CASE p # o
      <4>1. open'[p] = open[p] /\ open[p].old \in Promises \cup {None}
        BY <1>1, <3>2, NumberTypes
      <4>2. open[p].old # None => open[p].old # o
        BY <1>4, <4>1 DEF EngineInv, Fallback, InUse
      <4> QED
        BY <1>1, <4>1, <4>2 DEF EngineInv, Fallback
    <3> QED
      BY <3>1, <3>2
  <2> QED
    BY <1>6, <2>1, <2>2 DEF Fallback
<1>11. Ordered'
  <2>1. Dropped => Dropped'
    BY <1>1, <1>4, StaysDropped
  <2>2. ASSUME NEW p \in Promises, open'[p].st \in InUse PROVE NoNewer(p)'
    <3>1. p # o /\ NoNewer(p)
      BY <1>1, <2>2 DEF InUse, EngineInv, Ordered
    <3>2. ~Dropped' => Current # None
      BY <2>1, <3>1 DEF NoNewer
    <3>3. Current # None => Holds(p)' <= Holds(Current)'
      BY <1>7, <3>1 DEF NoNewer
    <3>4. Holds(p)' <= inode'[target'].holds
      BY <1>7, <3>1 DEF NoNewer
    <3> QED
      BY <1>6, <3>2, <3>3, <3>4 DEF NoNewer, Holds
  <2>3. ASSUME NEW p \in Promises, open'[p].st \in {"hashing", "writing"} PROVE Between(p)'
    <3>1. p = o
      BY <1>1, <1>2, <2>3 DEF InOpen
    <3> QED
      BY <1>1, <1>5, <1>7, <1>8, <2>3, <3>1 DEF Between
  <2> QED
    BY <1>7, <1>8, <2>2, <2>3 DEF Ordered
<1>12. ASSUME NotReplaced PROVE Forward /\ Due(o, mdf)'
  <2>1. inode[target].written = inode[target].holds
    BY <1>12, FileType DEF NotReplaced, FilesInv
  <2>2. ASSUME NEW n \in Nat, n <= mdf PROVE Gives(o, n)'
    BY <1>1, <1>5, <1>7, <1>8, <2>1, <2>2 DEF Gives
  <2>3. ASSUME NEW n \in Versions, NEW p \in Promises \ {o} PROVE Gives(p, n)'
    BY <1>1, <1>2 DEF Gives, InOpen
  <2>4. ASSUME NEW n \in Versions, Coming(n) PROVE Coming(n)'
    <3>1. n \in Nat /\ n <= mdf /\ (Current # None => n <= Holds(Current))
      BY <2>4, NumberTypes DEF Coming
    <3>2. \A p \in Promises : Gives(p, n)'
      BY <2>2, <2>3, <3>1
    <3>3. Current' # None => n <= Holds(Current)'
      BY <1>6, <1>7, <3>1
    <3> QED
      BY <3>1, <3>2, <3>3 DEF Coming, Holds
  <2>5. ASSUME NEW n \in Versions, NEW p \in Promises, Due(p, n) PROVE Due(p, n)'
    <3>1. p # o /\ open'[p] = open[p]
      BY <1>1, <1>4, <2>5 DEF Due
    <3> QED
      BY <2>3, <2>4, <2>5, <3>1 DEF Due
  <2>6. Due(o, mdf)'
    BY <1>1, <1>8, <2>2 DEF Due, Gives
  <2> QED
    BY <2>4, <2>5, <2>6 DEF Forward
<1> QED
  BY <1>1, <1>3, <1>4, <1>6, <1>9, <1>10, <1>11, <1>12 DEF EngineInv

\* A step of opens that opens nothing: what serves stays, or nothing is left to
\* serve and to come.
LEMMA KeepsEngine ==
    ASSUME SourceTypeOK, EngineInv, UNCHANGED <<mdf, target>>,
           \A i \in Promises \cup {Original} : inode'[i].holds = inode[i].holds,
           \A p \in Promises : /\ open'[p].old = open[p].old /\ open'[p].file = open[p].file
                               /\ open[p].joined => open'[p].joined
                               /\ open'[p].st \in InUse <=> open[p].st \in InUse
                               /\ open'[p].st = "open" => open[p].st = "open"
                               /\ open'[p].st \in {"hashing", "writing"} => open[p].st \in {"hashing", "writing"}
                               /\ open'[p].st = "opening" => open[p].st = "opening"
                               /\ open[p].st = "failed" => open'[p].st = "failed"
                               /\ open'[p].st = "unused" => open[p].st = "unused",
           Current' # None => Current' = Current /\ open'[Current].st = "open",
           Current # None /\ Current' = None => Dropped' /\ \A p \in Promises : open'[p].st \notin InOpen
    PROVE  Fallback' /\ Ordered' /\ Forward
<1>1. \A p \in Promises : Holds(p)' = Holds(p)
  BY FileType DEF Holds
<1>2. inode'[target'].holds = inode[target].holds
  BY FileType
<1>3. Current' # None => Holds(Current)' = Holds(Current)
  BY <1>1, NumberTypes DEF Holds
<1>4. Fallback'
  <2>1. ASSUME NEW p \in Promises
        PROVE  /\ open'[p].old # None => open'[open'[p].old].st \in InUse
               /\ open'[p].st = "open" /\ Current' # None => open'[p].old # Current'
    BY NumberTypes DEF EngineInv, Fallback
  <2> QED
    BY <2>1 DEF Fallback
<1>5. Ordered'
  <2>1. Dropped => Dropped'
    BY StaysDropped
  <2>2. ASSUME NEW p \in Promises, open'[p].st \in InUse PROVE NoNewer(p)'
    <3>1. NoNewer(p)
      BY <2>2 DEF EngineInv, Ordered
    <3>2. ~Dropped' => Current' # None
      BY <2>1, <3>1 DEF NoNewer
    <3>3. Current' # None => Holds(p)' <= Holds(Current)'
      BY <1>1, <1>3, <3>1 DEF NoNewer
    <3>4. Holds(p)' <= inode'[target'].holds
      BY <1>1, <1>2, <3>1 DEF NoNewer
    <3> QED
      BY <3>2, <3>3, <3>4 DEF NoNewer, Holds
  <2>3. ASSUME NEW p \in Promises, open'[p].st \in {"hashing", "writing"} PROVE Between(p)'
    <3>1. Between(p)
      BY <2>3 DEF EngineInv, Ordered
    <3> QED
      BY <1>2, <3>1 DEF Between
  <2> QED
    BY <1>2, <2>2, <2>3 DEF EngineInv, Ordered
<1>6. Forward
  <2> SUFFICES ASSUME NEW n \in Versions
               PROVE  /\ Coming(n) => Coming(n)'
                      /\ \A p \in Promises : Due(p, n) => Due(p, n)'
    BY DEF Forward
  <2>1. \A p \in Promises : Gives(p, n) => Gives(p, n)'
    BY <1>2 DEF Gives
  <2>2. ASSUME Coming(n) PROVE Coming(n)'
    <3>1. Current' # None => n <= Holds(Current)'
      BY <1>3, <2>2 DEF Coming
    <3>2. Current' = None => \A p \in Promises : Gives(p, n)'
      <4>1. CASE Current = None
        BY <2>1, <2>2, <4>1 DEF Coming
      <4>2. CASE Current # None
        BY <4>2 DEF Gives, InOpen
      <4> QED
        BY <4>1, <4>2
    <3> QED
      BY <2>2, <3>1, <3>2 DEF Coming, Holds
  <2>3. ASSUME NEW p \in Promises, Due(p, n) PROVE Due(p, n)'
    BY <2>1, <2>2, <2>3 DEF Due
  <2> QED
    BY <2>2, <2>3
<1> QED
  BY <1>4, <1>5, <1>6

LEMMA StartServes ==
    ASSUME SourceTypeOK, EngineInv, NEW o \in Promises, StartConversion(o)
    PROVE  EngineInv' /\ Forward /\ Steady
<1>1. /\ open[o].st = "hashing" /\ open'[o].st = "writing" /\ tmp' = o /\ duck = o
      /\ UNCHANGED <<mdf, target, duck>>
      /\ \A p \in Promises \ {o} : open'[p] = open[p]
      /\ \A p \in Promises : /\ open'[p].old = open[p].old /\ open'[p].file = open[p].file
                             /\ open'[p].joined = open[p].joined
      /\ \A i \in Promises \cup {Original} : inode'[i].holds = inode[i].holds
  BY StartType DEF StartConversion, EngineInv, OneOpen, InOpen
<1>2. Current = open[o].old /\ Current' = Current
  BY <1>1, NoneType DEF Current
<1>3. Current # None => open'[Current].st = "open"
  BY <1>1, <1>2, NumberTypes DEF EngineInv, Fallback
<1>4. Fallback' /\ Ordered' /\ Forward
  <2>1. \A p \in Promises : open[p].joined => open'[p].joined
    BY <1>1, Zenon
  <2> QED
    BY <1>1, <1>2, <1>3, <2>1, KeepsEngine DEF InUse
<1>5. OneOpen'
  BY <1>1 DEF EngineInv, OneOpen, InOpen
<1>6. Steady
  BY <1>1 DEF Steady, IsOpen
<1> QED
  BY <1>4, <1>5, <1>6 DEF EngineInv

\* A failed open: the engine before it, if any, is the one in use again, or
\* dropped with it.
LEMMA RejectsServes ==
    ASSUME SourceTypeOK, EngineInv, NEW o \in Promises, open[o].st \in InOpen, Rejects(o),
           UNCHANGED <<mdf, target>>, tmp' \in {tmp, None},
           \A i \in Promises \cup {Original} : inode'[i].holds = inode[i].holds
    PROVE  EngineInv' /\ Forward /\ Steady
<1>1. /\ duck = o /\ open[o].old \in Promises \cup {None} /\ open[o].old # o /\ open[o].st \notin InUse
      /\ open[o].st # "open"
  <2>1. duck = o /\ open[o].st \notin InUse
    BY DEF EngineInv, OneOpen, InUse, InOpen
  <2>2. open[o].old \in Promises \cup {None}
    BY NumberTypes
  <2>3. open[o].old # o
    BY <2>1, NoneType DEF EngineInv, Fallback
  <2> QED
    BY <2>1, <2>2, <2>3 DEF InUse
<1>2. /\ open'[o].st = "failed" /\ \A p \in Promises \ {o} : open'[p] = open[p]
      /\ \A p \in Promises : /\ open'[p].old = open[p].old /\ open'[p].file = open[p].file
                             /\ open'[p].joined = open[p].joined
      /\ \A p \in Promises : open'[p].st \notin InOpen
  BY <1>1 DEF Rejects, SourceTypeOK, Open, EngineInv, OneOpen, InOpen
<1>3. Current = open[o].old /\ (Current # None => open'[Current].st = "open")
  BY <1>1, <1>2, NoneType DEF Current, EngineInv, Fallback
<1>4. duck' = Current \/ (duck' = None /\ open[o].joined)
  <2>1. CASE open[o].joined
    BY <2>1 DEF Rejects
  <2>2. CASE ~open[o].joined
    BY <1>3, <2>2 DEF Rejects
  <2> QED
    BY <2>1, <2>2
<1>5. Current' = duck'
  <2>1. CASE duck' = None
    BY <2>1 DEF Current
  <2>2. CASE duck' # None
    BY <1>3, <1>4, <2>2 DEF Current
  <2> QED
    BY <2>1, <2>2
<1>6. Current' # None => Current' = Current
  BY <1>4, <1>5
<1>7. ASSUME Current # None, Current' = None PROVE Dropped'
  <2>1. open[o].joined /\ open'[o].old # None
    BY <1>2, <1>3, <1>4, <1>5, <1>7
  <2>2. open'[o].joined
    BY <1>2, <2>1, Zenon
  <2> QED
    BY <1>2, <2>1, <2>2 DEF Dropped
<1>8. Fallback' /\ Ordered' /\ Forward
  <2>1. \A p \in Promises : open[p].joined => open'[p].joined
    BY <1>2, Zenon
  <2> QED
    BY <1>1, <1>2, <1>3, <1>6, <1>7, <2>1, KeepsEngine DEF InUse, InOpen
<1>9. OneOpen'
  BY <1>2, <1>3, <1>5, <1>6 DEF OneOpen, InOpen
<1>10. Steady
  BY <1>1, <1>2 DEF Steady, IsOpen
<1> QED
  BY <1>8, <1>9, <1>10 DEF EngineInv

LEMMA CloseServes ==
    ASSUME SourceTypeOK, EngineInv, NEW o \in Promises, NEW used, CloseOld(o, used)
    PROVE  EngineInv' /\ Forward /\ Steady
<1> DEFINE c == open[o].old
<1>1. /\ c \in Promises /\ open[c].st = "open" /\ c # Current /\ open[o].st = "open"
      /\ UNCHANGED <<mdf, inode, target, tmp, duck>>
      /\ open' = [open EXCEPT ![c].st = "closed"]
  <2>1. c # Current
    BY DEF CloseOld, EngineInv, Fallback
  <2> QED
    BY <2>1 DEF CloseOld, SourceTypeOK, Open
<1> HIDE DEF c
<1>2. /\ open'[c].st = "closed" /\ \A p \in Promises \ {c} : open'[p] = open[p]
      /\ \A p \in Promises : /\ open'[p].old = open[p].old /\ open'[p].file = open[p].file
                             /\ open'[p].joined = open[p].joined
  BY <1>1 DEF SourceTypeOK, Open
<1>3. Current' = Current /\ duck # c /\ (Current # None => open'[Current].st = "open")
  <2>1. duck # c
    BY <1>1, NoneType DEF Current
  <2>2. Current' = Current
    BY <1>1, <1>2, <2>1 DEF Current, SourceTypeOK
  <2>3. Current # None => open'[Current].st = "open"
    BY <1>1, <1>2, NumberTypes DEF EngineInv, Fallback
  <2> QED
    BY <2>1, <2>2, <2>3
<1>4. Fallback' /\ Ordered' /\ Forward
  <2>1. \A p \in Promises : open[p].joined => open'[p].joined
    BY <1>2, Zenon
  <2> QED
    BY <1>1, <1>2, <1>3, <2>1, KeepsEngine DEF InUse
<1>5. OneOpen'
  BY <1>1, <1>2, <1>3 DEF EngineInv, OneOpen, InOpen, SourceTypeOK
<1>6. Steady
  <2>1. IsOpen(duck) => duck' = duck /\ IsOpen(duck)' /\ Holds(duck)' = Holds(duck)
    BY <1>1, <1>2, <1>3 DEF IsOpen, Holds, SourceTypeOK
  <2> QED
    BY <1>1, <1>2, <2>1 DEF Steady
<1> QED
  BY <1>4, <1>5, <1>6 DEF EngineInv

LEMMA SameServes ==
    ASSUME SourceTypeOK, EngineInv, UNCHANGED <<mdf, inode, target, tmp, open, duck>>
    PROVE  EngineInv' /\ Forward /\ Steady
<1>1. Current' = Current
  BY DEF Current
<1>2. \A p \in Promises : open[p].joined => open'[p].joined
  BY Zenon
<1>3. Fallback' /\ Ordered' /\ Forward
  BY <1>1, <1>2, KeepsEngine DEF EngineInv, Fallback
<1>4. OneOpen'
  BY DEF EngineInv, OneOpen
<1>5. Steady
  BY DEF Steady, IsOpen, Holds
<1> QED
  BY <1>3, <1>4, <1>5 DEF EngineInv

\* A caller of duckdb() that finds an engine, open or being opened.
LEMMA JoinedServes ==
    ASSUME SourceTypeOK, EngineInv, NEW o \in Promises, Engine(o), duck # None, UNCHANGED <<mdf, target, tmp>>
    PROVE  EngineInv' /\ Forward /\ Steady /\ duck' = o
<1>1. /\ inode' = inode /\ o = duck
      /\ duck' = IF open[o].st = "failed" THEN None ELSE o
      /\ \A p \in Promises : /\ open'[p].st = open[p].st /\ open'[p].old = open[p].old
                             /\ open'[p].file = open[p].file /\ open'[p].beside = open[p].beside
                             /\ open[p].joined => open'[p].joined
  BY JoinedType
<1>2. duck' = duck
  BY <1>1 DEF EngineInv, OneOpen, InOpen
<1>3. Current' = Current /\ (Current # None => open'[Current].st = "open")
  <2>1. Current' = Current
    BY <1>1, <1>2 DEF Current
  <2>2. Current # None => open'[Current].st = "open"
    BY <1>1, NumberTypes DEF EngineInv, Fallback
  <2> QED
    BY <2>1, <2>2
<1>4. Fallback' /\ Ordered' /\ Forward
  BY <1>1, <1>3, KeepsEngine
<1>5. OneOpen'
  BY <1>1, <1>2 DEF EngineInv, OneOpen
<1>6. Steady
  BY <1>1, <1>2 DEF Steady, IsOpen, Holds
<1> QED
  BY <1>1, <1>2, <1>4, <1>5, <1>6 DEF EngineInv

LEMMA EndServes ==
    ASSUME SourceTypeOK, EngineInv, NEW o \in Promises, EndConversion(o)
    PROVE  EngineInv' /\ Forward /\ Steady
<1>1. /\ open[o].st = "writing" /\ duck = o /\ tmp = o /\ o # None
      /\ target' = o /\ tmp' = None /\ UNCHANGED <<mdf, duck>>
      /\ open' = [open EXCEPT ![o].st = "opening"]
      /\ inode[target].holds <= inode[o].holds /\ inode[o].holds <= mdf
  BY NoneType DEF EndConversion, EngineInv, OneOpen, Ordered, Between, InOpen
<1>2. /\ open'[o].st = "opening" /\ \A p \in Promises \ {o} : open'[p] = open[p]
      /\ \A p \in Promises : /\ open'[p].old = open[p].old /\ open'[p].file = open[p].file
                             /\ open'[p].joined = open[p].joined
      /\ \A p \in Promises \ {o} : open[p].st \notin InOpen
  BY <1>1 DEF SourceTypeOK, Open, EngineInv, OneOpen
<1>3. \A i \in Promises \cup {Original} : inode'[i].holds = inode[i].holds
  BY EndType
<1>4. Current' = Current /\ Current = open[o].old /\ Current # o
  <2>1. Current' = Current /\ Current = open[o].old
    BY <1>1, <1>2 DEF Current
  <2> QED
    BY <1>1, <2>1 DEF EngineInv, Fallback
<1>5. \A p \in Promises : Holds(p)' = Holds(p)
  BY <1>2, <1>3, FileType DEF Holds
<1>6. Current # None => Holds(Current)' = Holds(Current)
  BY <1>4, <1>5, NumberTypes DEF Holds
<1>7. OneOpen'
  BY <1>1, <1>2 DEF OneOpen, InOpen
<1>8. Fallback'
  <2>1. ASSUME NEW p \in Promises
        PROVE  /\ open'[p].old # None => open'[open'[p].old].st \in InUse
               /\ open'[p].st = "open" /\ Current # None => open'[p].old # Current
    <3>1. open[p].old \in Promises \cup {None} /\ (open[p].old # None => open[p].old # o)
      BY <1>1, NumberTypes DEF EngineInv, Fallback, InUse
    <3> QED
      BY <1>1, <1>2, <3>1 DEF EngineInv, Fallback
  <2>2. Current # None => open'[Current].st = "open"
    BY <1>2, <1>4, NumberTypes DEF EngineInv, Fallback
  <2> QED
    BY <1>4, <2>1, <2>2 DEF Fallback
<1>9. /\ inode[target].holds \in Nat /\ inode[o].holds \in Nat
      /\ \A p \in Promises : Holds(p) \in Nat
  BY NumberTypes
<1>10. Ordered'
  <2>1. Dropped => Dropped'
    <3>1. \A p \in Promises : open[p].joined => open'[p].joined
      BY <1>2, Zenon
    <3> QED
      BY <1>1, <1>2, <3>1, StaysDropped
  <2>2. ASSUME NEW p \in Promises, open'[p].st \in InUse PROVE NoNewer(p)'
    <3>1. NoNewer(p)
      BY <1>2, <2>2 DEF EngineInv, Ordered, InUse
    <3>2. ~Dropped' => Current' # None
      BY <1>4, <2>1, <3>1 DEF NoNewer
    <3>3. Current' # None => Holds(p)' <= Holds(Current)'
      BY <1>4, <1>5, <1>6, <3>1 DEF NoNewer
    <3>4. Holds(p)' <= inode'[target'].holds
      BY <1>1, <1>3, <1>5, <1>9, <3>1 DEF NoNewer
    <3> QED
      BY <3>2, <3>3, <3>4 DEF NoNewer, Holds
  <2>3. \A p \in Promises : open'[p].st \notin {"hashing", "writing"}
    BY <1>2 DEF InOpen
  <2>4. inode'[target'].holds <= mdf'
    BY <1>1, <1>3
  <2> QED
    BY <2>2, <2>3, <2>4 DEF Ordered
<1>11. Forward
  <2> SUFFICES ASSUME NEW n \in Versions
               PROVE  /\ Coming(n) => Coming(n)'
                      /\ \A p \in Promises : Due(p, n) => Due(p, n)'
    BY DEF Forward
  <2>1. \A p \in Promises : Gives(p, n) => Gives(p, n)'
    BY <1>1, <1>2, <1>3 DEF Gives, InOpen
  <2>2. ASSUME Coming(n) PROVE Coming(n)'
    BY <1>1, <1>4, <1>6, <2>1, <2>2 DEF Coming, Holds
  <2>3. ASSUME NEW p \in Promises, Due(p, n) PROVE Due(p, n)'
    BY <1>1, <1>2, <2>1, <2>2, <2>3 DEF Due
  <2> QED
    BY <2>2, <2>3
<1>12. Steady
  BY <1>1, <1>2 DEF Steady, IsOpen
<1> QED
  BY <1>7, <1>8, <1>10, <1>11, <1>12 DEF EngineInv

LEMMA OpenedServes ==
    ASSUME SourceTypeOK, EngineInv, NEW o \in Promises, Opened(o)
    PROVE  EngineInv' /\ Forward /\ Steady
<1>1. /\ open[o].st = "opening" /\ duck = o /\ o # None /\ UNCHANGED <<mdf, inode, target, tmp, duck>>
      /\ open'[o].st = "open" /\ open'[o].file = target /\ open'[o].old = open[o].old
      /\ \A p \in Promises \ {o} : open'[p] = open[p] /\ open[p].st \notin InOpen
  BY NoneType, OpenedType DEF Opened, EngineInv, OneOpen, InOpen
<1>2. Current' = o /\ Current = open[o].old /\ Current # o
  <2>1. Current' = o /\ Current = open[o].old
    BY <1>1 DEF Current
  <2> QED
    BY <1>1, <2>1 DEF EngineInv, Fallback
<1>3. Holds(o)' = inode[target].holds /\ \A p \in Promises \ {o} : Holds(p)' = Holds(p)
  BY <1>1 DEF Holds
<1>4. /\ {mdf, inode[target].holds} \subseteq Nat /\ inode[target].holds <= mdf
      /\ Current # None => Holds(Current) <= inode[target].holds /\ Holds(Current) \in Nat
  BY <1>2, NumberTypes DEF EngineInv, Fallback, Ordered, NoNewer, InUse
<1>5. OneOpen'
  BY <1>1 DEF EngineInv, OneOpen, InOpen
<1>6. Fallback'
  <2>1. ASSUME NEW p \in Promises
        PROVE  /\ open'[p].old # None => open'[open'[p].old].st \in InUse
               /\ open'[p].old # o
    <3>1. open[p].old \in Promises \cup {None} /\ (open[p].old # None => open[p].old # o)
      BY <1>1, NumberTypes DEF EngineInv, Fallback, InUse
    <3>2. open'[p].old = open[p].old
      BY <1>1
    <3> QED
      BY <1>1, <3>1, <3>2 DEF EngineInv, Fallback
  <2> QED
    BY <1>1, <1>2, <2>1 DEF Fallback
<1>7. Ordered'
  <2>1. Holds(Current)' = inode[target].holds
    BY <1>1, <1>2 DEF Holds
  <2>2. ASSUME NEW p \in Promises, open'[p].st \in InUse PROVE Holds(p)' <= inode[target].holds
    <3>1. CASE p = o
      BY <1>3, <1>4, <3>1
    <3>2. CASE p # o
      <4>1. NoNewer(p)
        BY <1>1, <2>2, <3>2 DEF EngineInv, Ordered
      <4> QED
        BY <1>3, <3>2, <4>1 DEF NoNewer
    <3> QED
      BY <3>1, <3>2
  <2>3. ASSUME NEW p \in Promises, open'[p].st \in InUse PROVE NoNewer(p)'
    BY <1>1, <1>2, <2>1, <2>2, <2>3 DEF NoNewer, Holds
  <2>4. \A p \in Promises : open'[p].st \notin {"hashing", "writing"}
    BY <1>1 DEF InOpen
  <2> QED
    BY <1>1, <1>4, <2>3, <2>4 DEF Ordered
<1>8. Forward
  <2>1. ASSUME NEW n \in Versions, n <= inode[target].holds, n <= mdf PROVE Coming(n)'
    BY <1>1, <1>2, <2>1 DEF Coming, Holds
  <2>2. ASSUME NEW n \in Versions, Coming(n) PROVE Coming(n)'
    <3>1. n <= mdf /\ n \in Nat
      BY <2>2, NumberTypes DEF Coming
    <3>2. CASE Current = None
      BY <1>1, <2>1, <2>2, <3>1, <3>2 DEF Coming, Gives
    <3>3. CASE Current # None
      <4>1. n <= Holds(Current)
        BY <2>2, <3>3 DEF Coming
      <4> QED
        BY <1>4, <2>1, <3>1, <3>3, <4>1
    <3> QED
      BY <3>2, <3>3
  <2>3. ASSUME NEW n \in Versions, NEW p \in Promises, Due(p, n) PROVE Due(p, n)'
    <3>1. CASE p = o
      BY <1>1, <2>1, <2>3, <3>1 DEF Due, Gives
    <3>2. CASE p # o
      BY <1>1, <2>2, <2>3, <3>2 DEF Due, Gives
    <3> QED
      BY <3>1, <3>2
  <2> QED
    BY <2>2, <2>3 DEF Forward
<1>9. Steady
  BY <1>1 DEF Steady, IsOpen
<1> QED
  BY <1>5, <1>6, <1>7, <1>8, <1>9 DEF EngineInv

\* A caller of duckdb(), whether or not an engine is there.
LEMMA EngineServes ==
    ASSUME SourceTypeOK, FilesInv, EngineInv, NEW o \in Promises, Engine(o), UNCHANGED <<mdf, target, tmp>>,
           OneAtATime'
    PROVE  EngineInv' /\ Steady /\ duck' = o /\ (NotReplaced => Forward)
<1>1. CASE duck # None
  BY <1>1, JoinedServes
<1>2. CASE duck = None
  <2>1. IsNext(open, o) /\ Begin(o, duck)
    BY <1>2 DEF Engine
  <2>2. EngineInv' /\ duck' = o /\ open[o].st = "unused" /\ (NotReplaced => Forward)
    BY <2>1, BeginServes
  <2>3. \A p \in Promises \ {o} : open'[p] = open[p]
    BY <1>2, <2>1, BeginType
  <2>4. Steady
    BY <1>2, <2>2, <2>3, NoneType DEF Steady, IsOpen
  <2> QED
    BY <2>2, <2>4
<1> QED
  BY <1>1, <1>2

\* Every step of the engine that no refresh takes.
LEMMA OpenStepServes ==
    ASSUME SourceTypeOK, EngineInv, NEW o \in Promises, OpenStep(o)
    PROVE  EngineInv' /\ Forward /\ Steady
<1>1. CASE ConversionFails(o)
  <2>1. /\ open[o].st \in InOpen /\ Rejects(o) /\ UNCHANGED <<mdf, inode, target>> /\ tmp' \in {tmp, None}
    BY <1>1 DEF ConversionFails, InOpen
  <2> QED
    BY <2>1, RejectsServes
<1>2. CASE OpenFails(o)
  <2>1. open[o].st \in InOpen /\ Rejects(o) /\ UNCHANGED <<mdf, inode, target>> /\ tmp' \in {tmp, None}
    BY <1>2 DEF OpenFails, InOpen
  <2> QED
    BY <2>1, RejectsServes
<1> QED
  BY <1>1, <1>2, StartServes, EndServes, OpenedServes DEF OpenStep
-----------------------------------------------------------------------------
(* Loads and refreshes *)

LEMMA AwaitedForward ==
    ASSUME Forward, NEW q \in RefreshRequest, AwaitedBy(q),
           \A i \in Promises : /\ load'[i].st = load[i].st /\ load'[i].tables = load[i].tables
                               /\ load'[i].undisturbed => load[i].undisturbed
    PROVE  AwaitedBy(q)'
<1>1. q.asked \in Versions
  BY DEF RefreshRequest
<1>2. /\ Coming(q.asked) => Coming(q.asked)'
      /\ \A o \in Promises : Due(o, q.asked) => Due(o, q.asked)'
  BY <1>1 DEF Forward
<1>3. q.st = "opening" => q.on \in Promises /\ Due(q.on, q.asked)'
  BY <1>2 DEF AwaitedBy
<1>4. ASSUME q.st \in {"loading", "done"}
      PROVE  /\ q.on \in Promises /\ load'[q.on].st # "unused" /\ Coming(q.asked)'
             /\ load'[q.on].st = "done" /\ load'[q.on].undisturbed => q.asked <= load'[q.on].tables
  <2>1. /\ q.on \in Promises /\ load[q.on].st # "unused" /\ Coming(q.asked)
        /\ load[q.on].st = "done" /\ load[q.on].undisturbed => q.asked <= load[q.on].tables
    BY <1>4 DEF AwaitedBy
  <2>2. /\ load'[q.on].st = load[q.on].st /\ load'[q.on].tables = load[q.on].tables
        /\ load'[q.on].undisturbed => load[q.on].undisturbed
    BY <2>1
  <2> QED
    BY <1>2, <2>1, <2>2, Zenon
<1>5. q.st = "done" => load'[q.on].st = "done"
  BY DEF AwaitedBy
<1> QED
  BY <1>3, <1>4, <1>5 DEF AwaitedBy

\* Of every refresh at once.
LEMMA AllAwaited ==
    ASSUME SourceTypeOK, Awaited, NEW those \in SUBSET Refreshes,
           \A r \in those : refresh'[r] = refresh[r],
           \A q \in RefreshRequest : AwaitedBy(q) => AwaitedBy(q)'
    PROVE  \A r \in those : AwaitedBy(refresh[r])'
<1> SUFFICES ASSUME NEW r \in those PROVE AwaitedBy(refresh[r])'
  OBVIOUS
<1>1. refresh[r] \in RefreshRequest /\ AwaitedBy(refresh[r])
  BY DEF SourceTypeOK, Awaited
<1>2. PICK q \in RefreshRequest : q = refresh[r]
  BY <1>1
<1>3. AwaitedBy(q)'
  BY <1>1, <1>2
<1>4. refresh'[r] = q
  BY <1>2
<1> QED
  BY <1>3, <1>4 DEF AwaitedBy, Due, Coming, Gives

\* While the engine takes a step, loads wait; one may begin to wait for it.
LEMMA LoadsWait ==
    ASSUME SourceTypeOK, OneLoad, Awaited, Forward, Steady, UNCHANGED <<loading, refresh>>,
           \A i \in Promises : \/ load'[i] = load[i]
                               \/ /\ load[i].st \in InLoad /\ (load[i].undisturbed => load[i].st = "tables")
                                  /\ load'[i] = [load[i] EXCEPT !.on = duck']
    PROVE  OneLoad' /\ Awaited'
<1>1. ASSUME NEW i \in Promises
      PROVE  /\ load'[i].st = load[i].st /\ load'[i].tables = load[i].tables
             /\ load'[i].columns = load[i].columns /\ load'[i].undisturbed = load[i].undisturbed
             /\ \/ load'[i].on = load[i].on
                \/ load[i].st \in InLoad /\ (load[i].undisturbed => load[i].st = "tables") /\ load'[i].on = duck'
  <2>1. CASE load'[i] = load[i]
    BY <2>1
  <2>2. CASE /\ load[i].st \in InLoad /\ (load[i].undisturbed => load[i].st = "tables")
             /\ load'[i] = [load[i] EXCEPT !.on = duck']
    <3>1. load[i] \in Load
      BY DEF SourceTypeOK
    <3>2. /\ load'[i].st = load[i].st /\ load'[i].tables = load[i].tables
          /\ load'[i].columns = load[i].columns /\ load'[i].undisturbed = load[i].undisturbed
          /\ load'[i].on = duck'
      BY <2>2, <3>1 DEF Load
    <3> QED
      BY <2>2, <3>2, Zenon
  <2> QED
    BY <2>1, <2>2
<1>2. ASSUME NEW i \in Promises, load'[i].undisturbed PROVE Steadily(i)'
  <2>1. load[i].undisturbed
    BY <1>1, <1>2, Zenon
  <2>2. Steadily(i) /\ load[i].on \in Promises \cup {None}
    BY <2>1 DEF OneLoad, SourceTypeOK, Load
  <2>3. /\ load'[i].st = load[i].st /\ load'[i].tables = load[i].tables /\ load'[i].columns = load[i].columns
        /\ load'[i].on = load[i].on \/ (load[i].st = "tables" /\ load'[i].on = duck')
    BY <1>1, <2>1, Zenon
  <2>4. load[i].st \in InLoad /\ load[i].on # None => load[i].on = duck' \/ open'[load[i].on].st = "failed"
    BY <2>2 DEF Steadily, Steady
  <2>5. load[i].st = "columns" => IsOpen(duck)' /\ load[i].on = None /\ load[i].tables = Holds(duck)'
    BY <2>2 DEF Steadily, Steady
  <2>6. /\ load'[i].st \in InLoad /\ load'[i].on # None => load'[i].on = duck' \/ open'[load'[i].on].st = "failed"
        /\ load'[i].st = "columns" => /\ IsOpen(duck)' /\ load'[i].on = None
                                      /\ load'[i].tables = Holds(duck)'
        /\ load'[i].st = "done" => load'[i].tables = load'[i].columns
    BY <2>2, <2>3, <2>4, <2>5 DEF Steadily
  <2> QED
    BY <2>6 DEF Steadily, IsOpen, Holds
<1>3. OneLoad'
  <2>1. loading # None => load'[loading].st \in InLoad
    BY <1>1 DEF OneLoad, SourceTypeOK
  <2>2. \A i \in Promises : /\ load'[i].st \in InLoad => loading = i
                            /\ load'[i].st = "unused" => load'[i].on = None
    BY <1>1 DEF OneLoad, InLoad
  <2> QED
    BY <1>2, <2>1, <2>2 DEF OneLoad
<1>4. \A q \in RefreshRequest : AwaitedBy(q) => AwaitedBy(q)'
  <2>1. \A i \in Promises : /\ load'[i].st = load[i].st /\ load'[i].tables = load[i].tables
                            /\ load'[i].undisturbed => load[i].undisturbed
    BY <1>1, Zenon
  <2> QED
    BY <2>1, AwaitedForward
<1>5. \A r \in Refreshes : AwaitedBy(refresh[r])'
  BY <1>4, AllAwaited
<1> QED
  BY <1>3, <1>5 DEF Awaited

\* A step of the engine alone.
LEMMA EngineStepServes ==
    ASSUME SourceTypeOK, ServeInv, EngineInv', Forward, Steady, UNCHANGED <<load, loading, refresh>>
    PROVE  ServeInv'
BY LoadsWait DEF ServeInv

LEMMA AwaitEngineServes ==
    ASSUME SourceTypeOK, FilesInv, ServeInv, NEW i \in Promises, AwaitEngine(i), OneAtATime', NotReplaced
    PROVE  ServeInv'
<1>1. PICK o \in Promises : Engine(o) /\ load' = [load EXCEPT ![i].on = o]
  BY DEF AwaitEngine
<1>2. EngineInv' /\ Forward /\ Steady /\ duck' = o
  BY <1>1, EngineServes DEF AwaitEngine, ServeInv
<1>3. load[i].st \in InLoad /\ (load[i].undisturbed => load[i].st = "tables")
  BY DEF AwaitEngine, InLoad, ServeInv, OneLoad, Steadily
<1>4. \A j \in Promises : \/ load'[j] = load[j]
                          \/ /\ load[j].st \in InLoad /\ (load[j].undisturbed => load[j].st = "tables")
                             /\ load'[j] = [load[j] EXCEPT !.on = duck']
  BY <1>1, <1>2, <1>3 DEF SourceTypeOK
<1> QED
  BY <1>2, <1>4, LoadsWait DEF AwaitEngine, ServeInv

\* A query of the load under way reads what serves, if no reload disturbs it.
LEMMA ReadsServing ==
    ASSUME SourceTypeOK, OneLoad, NEW i \in Promises, load[i].st \in InLoad, IsOpen(Given(load[i].on)),
           load[i].undisturbed
    PROVE  /\ IsOpen(duck) /\ Current = duck
           /\ inode[open[Given(load[i].on)].file].holds = Holds(duck)
<1>1. Steadily(i)
  BY DEF OneLoad
<1>2. load[i].on # None => load[i].on = duck
  BY <1>1 DEF Steadily, IsOpen, Given
<1> QED
  BY <1>2 DEF Given, IsOpen, Current, Holds

\* The engine and its waiters while a load takes a step of its own.
LEMMA LoadGoesOn ==
    ASSUME SourceTypeOK, ServeInv, NEW i \in Promises, load[i].st \in InLoad,
           UNCHANGED <<mdf, inode, target, tmp, open, duck, refresh>>,
           \A j \in Promises \ {i} : load'[j] = load[j],
           load'[i].st \in {"columns", "done", "failed"},
           load'[i].undisturbed = load[i].undisturbed,
           load[i].undisturbed => Steadily(i)',
           load[i].undisturbed /\ load'[i].st = "done" => IsOpen(duck) /\ load'[i].tables = Holds(duck),
           loading' = IF load'[i].st = "columns" THEN loading ELSE None
    PROVE  ServeInv'
<1>1. EngineInv' /\ Forward
  BY SameServes DEF ServeInv
<1>2. loading = i
  BY DEF ServeInv, OneLoad
<1>3. ASSUME NEW j \in Promises, load'[j].undisturbed PROVE Steadily(j)'
  <2>1. CASE j = i
    <3>1. load[i].undisturbed
      BY <1>3, <2>1, Zenon
    <3> QED
      BY <2>1, <3>1
  <2>2. CASE j # i
    <3>1. load'[j] = load[j]
      BY <2>2
    <3>2. Steadily(j)
      BY <1>3, <3>1, Zenon DEF ServeInv, OneLoad
    <3> QED
      BY <3>1, <3>2 DEF Steadily, IsOpen, Holds
  <2> QED
    BY <2>1, <2>2
<1>4. OneLoad'
  <2>1. loading' # None => load'[loading'].st \in InLoad
    BY <1>2 DEF InLoad
  <2>2. \A j \in Promises : /\ load'[j].st \in InLoad => loading' = j
                            /\ load'[j].st = "unused" => load'[j].on = None
    BY <1>2 DEF ServeInv, OneLoad, InLoad
  <2> QED
    BY <1>3, <2>1, <2>2 DEF OneLoad
<1>5. ASSUME NEW q \in RefreshRequest, AwaitedBy(q) PROVE AwaitedBy(q)'
  <2>1. /\ Coming(q.asked) => Coming(q.asked)'
        /\ \A o \in Promises : Due(o, q.asked) => Due(o, q.asked)'
    BY <1>1 DEF Forward, RefreshRequest
  <2>2. q.st = "opening" => q.on \in Promises /\ Due(q.on, q.asked)'
    BY <1>5, <2>1 DEF AwaitedBy
  <2>3. q.st = "done" => q.on # i /\ q.on \in Promises /\ load[q.on].st = "done"
    BY <1>5 DEF AwaitedBy, InLoad
  <2>4. ASSUME q.st \in {"loading", "done"}
        PROVE  /\ q.on \in Promises /\ load'[q.on].st # "unused" /\ Coming(q.asked)'
               /\ load'[q.on].st = "done" /\ load'[q.on].undisturbed => q.asked <= load'[q.on].tables
    <3>1. /\ q.on \in Promises /\ load[q.on].st # "unused" /\ Coming(q.asked)
          /\ load[q.on].st = "done" /\ load[q.on].undisturbed => q.asked <= load[q.on].tables
      BY <1>5, <2>4 DEF AwaitedBy
    <3>2. CASE q.on = i
      <4>1. ASSUME load'[i].st = "done", load'[i].undisturbed PROVE q.asked <= load'[i].tables
        <5>1. load[i].undisturbed
          BY <4>1, Zenon
        <5>2. IsOpen(duck) /\ load'[i].tables = Holds(duck)
          BY <4>1, <5>1, Zenon
        <5>3. Current = duck /\ Current # None
          BY <5>2 DEF IsOpen, Current
        <5> QED
          BY <3>1, <5>2, <5>3 DEF Coming
      <4>2. load'[i].st # "unused"
        OBVIOUS
      <4> QED
        BY <2>1, <3>1, <3>2, <4>1, <4>2, Zenon
    <3>3. CASE q.on # i
      <4>1. load'[q.on] = load[q.on]
        BY <3>1, <3>3
      <4> QED
        BY <2>1, <3>1, <4>1, Zenon
    <3> QED
      BY <3>2, <3>3
  <2>5. q.st = "done" => load'[q.on].st = "done"
    BY <2>3
  <2> QED
    BY <2>2, <2>4, <2>5 DEF AwaitedBy
<1>6. \A r \in Refreshes : AwaitedBy(refresh[r])'
  BY <1>5, AllAwaited DEF ServeInv
<1> QED
  BY <1>1, <1>4, <1>6 DEF ServeInv, Awaited

LEMMA ReadTablesServes ==
    ASSUME SourceTypeOK, ServeInv, NEW i \in Promises, ReadTables(i)
    PROVE  ServeInv'
<1> DEFINE read == inode[open[Given(load[i].on)].file].holds
<1>1. load[i].st = "tables" /\ load[i].st \in InLoad /\ load[i] \in Load
  BY DEF ReadTables, InLoad, SourceTypeOK
<1>2. load' = [load EXCEPT ![i].st = "columns", ![i].on = None, ![i].tables = read]
      /\ UNCHANGED <<mdf, inode, target, tmp, open, duck, loading, refresh>>
  BY DEF ReadTables
<1>3. load[i].undisturbed => IsOpen(duck) /\ read = Holds(duck)
  BY <1>1, ReadsServing DEF ReadTables, ServeInv
<1> HIDE DEF read
<1>4. /\ load'[i].st = "columns" /\ load'[i].on = None /\ load'[i].tables = read
      /\ load'[i].undisturbed = load[i].undisturbed
      /\ \A j \in Promises \ {i} : load'[j] = load[j]
  BY <1>1, <1>2 DEF SourceTypeOK, Load
<1>5. load[i].undisturbed => Steadily(i)'
  BY <1>2, <1>3, <1>4 DEF Steadily, IsOpen, Holds
<1> QED
  BY <1>1, <1>2, <1>4, <1>5, LoadGoesOn

LEMMA ReadColumnsServes ==
    ASSUME SourceTypeOK, ServeInv, NEW i \in Promises, ReadColumns(i)
    PROVE  ServeInv'
<1> DEFINE read == inode[open[Given(load[i].on)].file].holds
<1>1. load[i].st = "columns" /\ load[i].st \in InLoad /\ load[i] \in Load
  BY DEF ReadColumns, InLoad, SourceTypeOK
<1>2. load' = [load EXCEPT ![i].st = "done", ![i].on = None, ![i].columns = read]
      /\ UNCHANGED <<mdf, inode, target, tmp, open, duck, refresh>> /\ loading' = None
  BY DEF ReadColumns
<1>3. load[i].undisturbed => IsOpen(duck) /\ read = Holds(duck) /\ load[i].tables = Holds(duck)
  BY <1>1, ReadsServing DEF ReadColumns, ServeInv, OneLoad, Steadily
<1> HIDE DEF read
<1>4. /\ load'[i].st = "done" /\ load'[i].on = None /\ load'[i].columns = read /\ load'[i].tables = load[i].tables
      /\ load'[i].undisturbed = load[i].undisturbed
      /\ \A j \in Promises \ {i} : load'[j] = load[j]
  BY <1>1, <1>2 DEF SourceTypeOK, Load
<1>5. load[i].undisturbed => Steadily(i)'
  BY <1>2, <1>3, <1>4 DEF Steadily, IsOpen, Holds, InLoad
<1>6. load[i].undisturbed /\ load'[i].st = "done" => IsOpen(duck) /\ load'[i].tables = Holds(duck)
  BY <1>3, <1>4
<1> QED
  BY <1>1, <1>2, <1>4, <1>5, <1>6, LoadGoesOn

LEMMA LoadRejectsServes ==
    ASSUME SourceTypeOK, ServeInv, NEW i \in Promises, load[i].st \in InLoad, LoadRejects(i),
           UNCHANGED <<mdf, inode, target, tmp, open, duck, refresh>>
    PROVE  ServeInv'
<1>1. load[i] \in Load /\ loading' = None
  BY DEF LoadRejects, SourceTypeOK
<1>2. /\ load'[i].st = "failed" /\ load'[i].on = None /\ load'[i].undisturbed = load[i].undisturbed
      /\ \A j \in Promises \ {i} : load'[j] = load[j]
  BY <1>1 DEF LoadRejects, SourceTypeOK, Load
<1>3. Steadily(i)'
  BY <1>2 DEF Steadily, InLoad
<1> QED
  BY <1>1, <1>2, <1>3, LoadGoesOn

LEMMA LoadStepServes ==
    ASSUME SourceTypeOK, FilesInv, ServeInv, NEW i \in Promises, LoadStep(i), OneAtATime', NotReplaced
    PROVE  ServeInv'
<1>1. CASE LoadLosesEngine(i) \/ LoadFails(i)
  <2>1. /\ load[i].st \in InLoad /\ LoadRejects(i)
        /\ UNCHANGED <<mdf, inode, target, tmp, open, duck, refresh>>
    BY <1>1 DEF LoadLosesEngine, LoadFails
  <2> QED
    BY <2>1, LoadRejectsServes
<1> QED
  BY <1>1, AwaitEngineServes, ReadTablesServes, ReadColumnsServes DEF LoadStep

\* ensure() joins the load under way or begins one; nobody yet waits for a new one.
LEMMA JoinServes ==
    ASSUME SourceTypeOK, ServeInv, NEW i \in Promises, Join(i),
           UNCHANGED <<mdf, inode, target, tmp, open, duck>>
    PROVE  /\ EngineInv' /\ OneLoad' /\ Forward
           /\ load'[i].st \in InLoad
           /\ \A q \in RefreshRequest : AwaitedBy(q) => AwaitedBy(q)'
<1>1. EngineInv' /\ Forward
  BY SameServes DEF ServeInv
<1>2. CASE loading # None
  <2>1. i = loading /\ UNCHANGED <<load, loading>>
    BY <1>2 DEF Join
  <2>2. load'[i].st \in InLoad
    BY <1>2, <2>1 DEF ServeInv, OneLoad
  <2>3. OneLoad'
    BY <2>1 DEF ServeInv, OneLoad, Steadily, IsOpen, Holds
  <2>4. \A j \in Promises : load'[j].undisturbed => load[j].undisturbed
    BY <2>1, Zenon
  <2>5. \A q \in RefreshRequest : AwaitedBy(q) => AwaitedBy(q)'
    BY <1>1, <2>1, <2>4, AwaitedForward
  <2> QED
    BY <1>1, <2>2, <2>3, <2>5
<1>3. CASE loading = None
  <2>1. load[i].st = "unused" /\ load' = [load EXCEPT ![i].st = "tables"] /\ loading' = i
    BY <1>3 DEF Join, IsNext, BeginLoad
  <2>2. /\ load'[i].st = "tables" /\ load'[i].on = None
        /\ \A j \in Promises \ {i} : load'[j] = load[j] /\ load[j].st \notin InLoad
    BY <1>3, <2>1, NoneType DEF SourceTypeOK, Load, ServeInv, OneLoad
  <2>3. ASSUME NEW j \in Promises, load'[j].undisturbed PROVE Steadily(j)'
    <3>1. CASE j = i
      BY <2>2, <3>1 DEF Steadily
    <3>2. CASE j # i
      <4>1. load'[j] = load[j]
        BY <2>2, <3>2
      <4>2. Steadily(j)
        BY <2>3, <4>1, Zenon DEF ServeInv, OneLoad
      <4> QED
        BY <4>1, <4>2 DEF Steadily, IsOpen, Holds
    <3> QED
      BY <3>1, <3>2
  <2>4. OneLoad' /\ load'[i].st \in InLoad
    <3>1. \A j \in Promises : /\ load'[j].st \in InLoad => loading' = j
                              /\ load'[j].st = "unused" => load'[j].on = None
      BY <2>1, <2>2 DEF ServeInv, OneLoad
    <3> QED
      BY <2>1, <2>2, <2>3, <3>1 DEF OneLoad, InLoad
  <2>5. ASSUME NEW q \in RefreshRequest, AwaitedBy(q) PROVE AwaitedBy(q)'
    <3>1. /\ Coming(q.asked) => Coming(q.asked)'
          /\ \A o \in Promises : Due(o, q.asked) => Due(o, q.asked)'
      BY <1>1 DEF Forward, RefreshRequest
    <3>2. q.st \in {"loading", "done"} => load'[q.on] = load[q.on] /\ q.on \in Promises
      BY <2>1, <2>2, <2>5 DEF AwaitedBy
    <3>3. q.st = "opening" => q.on \in Promises /\ Due(q.on, q.asked)'
      BY <2>5, <3>1 DEF AwaitedBy
    <3>4. ASSUME q.st \in {"loading", "done"}
          PROVE  /\ q.on \in Promises /\ load'[q.on].st # "unused" /\ Coming(q.asked)'
                 /\ load'[q.on].st = "done" /\ load'[q.on].undisturbed => q.asked <= load'[q.on].tables
      <4>1. /\ q.on \in Promises /\ load[q.on].st # "unused" /\ Coming(q.asked)
            /\ load[q.on].st = "done" /\ load[q.on].undisturbed => q.asked <= load[q.on].tables
        BY <2>5, <3>4 DEF AwaitedBy
      <4>2. load'[q.on] = load[q.on]
        BY <3>2, <3>4
      <4> QED
        BY <3>1, <4>1, <4>2
    <3>5. q.st = "done" => load'[q.on].st = "done"
      BY <2>5, <3>2 DEF AwaitedBy
    <3> QED
      BY <3>3, <3>4, <3>5 DEF AwaitedBy
  <2> QED
    BY <1>1, <2>4, <2>5
<1> QED
  BY <1>2, <1>3

\* refresh() goes on to read the schema of data it asked for or newer.
LEMMA ReintrospectServes ==
    ASSUME SourceTypeOK, ServeInv, NEW r \in Refreshes, Reintrospect(r),
           Coming(IF refresh[r].st = "idle" THEN mdf ELSE refresh[r].asked),
           UNCHANGED <<mdf, inode, target, tmp, open, duck>>
    PROVE  ServeInv'
<1> DEFINE n == IF refresh[r].st = "idle" THEN mdf ELSE refresh[r].asked
<1>1. PICK i \in Promises :
        /\ Join(i) /\ loaded' = None
        /\ refresh' = [refresh EXCEPT ![r].st = "loading", ![r].on = i,
                                      ![r].asked = IF refresh[r].st = "idle" THEN mdf ELSE @]
  BY DEF Reintrospect
<1>2. /\ refresh'[r].st = "loading" /\ refresh'[r].on = i /\ refresh'[r].asked = n
      /\ \A s \in Refreshes \ {r} : refresh'[s] = refresh[s]
  BY <1>1 DEF SourceTypeOK, RefreshRequest
<1>3. n \in Versions /\ Coming(n)
  BY DEF SourceTypeOK, RefreshRequest
<1>4. /\ EngineInv' /\ OneLoad' /\ Forward /\ load'[i].st \in InLoad
      /\ \A q \in RefreshRequest : AwaitedBy(q) => AwaitedBy(q)'
  BY <1>1, JoinServes
<1> HIDE DEF n
<1>5. PICK m \in Versions : m = n
  BY <1>3
<1>6. Coming(m)'
  BY <1>3, <1>4, <1>5 DEF Forward
<1>7. AwaitedBy(refresh[r])'
  BY <1>2, <1>4, <1>5, <1>6 DEF AwaitedBy, Coming, Gives, InLoad
<1>8. \A s \in Refreshes \ {r} : AwaitedBy(refresh[s])'
  BY <1>2, <1>4, AllAwaited DEF ServeInv
<1> QED
  BY <1>4, <1>7, <1>8 DEF ServeInv, Awaited

LEMMA RefreshServes ==
    ASSUME SourceTypeOK, FilesInv, ServeInv, NEW r \in Refreshes, Refresh(r), OneAtATime', NotReplaced
    PROVE  ServeInv'
<1>1. refresh[r].st = "idle" /\ UNCHANGED <<mdf, target, tmp>>
  BY DEF Refresh
<1>2. CASE duck = None
  <2>1. mdf <= mdf
    BY NumberTypes
  <2>2. Coming(mdf)
    BY <1>2, <2>1, NoneType DEF Coming, Gives, Current, ServeInv, EngineInv, OneOpen, InOpen
  <2> QED
    BY <1>1, <1>2, <2>2, ReintrospectServes DEF Refresh
<1>3. CASE duck # None
  <2>1. PICK o \in Promises :
          /\ IsNext(open, o) /\ Begin(o, duck)
          /\ refresh' = [refresh EXCEPT ![r] = [st |-> "opening", on |-> o, asked |-> mdf]]
    BY <1>3 DEF Refresh
  <2>2. EngineInv' /\ Forward /\ Due(o, mdf)'
    BY <1>1, <2>1, BeginServes DEF ServeInv
  <2>3. /\ UNCHANGED loading
        /\ \A i \in Promises : /\ load'[i].st = load[i].st /\ load'[i].on = load[i].on
                               /\ load'[i].tables = load[i].tables /\ load'[i].columns = load[i].columns
                               /\ load'[i].undisturbed <=> load[i].undisturbed /\ load[i].st \notin InLoad
    BY <1>3, DisturbsType DEF Refresh
  <2>4. ASSUME NEW i \in Promises, load'[i].undisturbed PROVE Steadily(i)'
    <3>1. load[i].undisturbed /\ load[i].st \notin InLoad
      BY <2>3, <2>4, Zenon
    <3>2. Steadily(i)
      BY <3>1 DEF ServeInv, OneLoad
    <3> QED
      BY <2>3, <3>1, <3>2 DEF Steadily, InLoad
  <2>5. OneLoad'
    <3>1. loading' # None => load'[loading'].st \in InLoad
      BY <2>3 DEF ServeInv, OneLoad, SourceTypeOK
    <3>2. \A i \in Promises : /\ load'[i].st \in InLoad => loading' = i
                              /\ load'[i].st = "unused" => load'[i].on = None
      BY <2>3 DEF ServeInv, OneLoad
    <3> QED
      BY <2>4, <3>1, <3>2 DEF OneLoad
  <2>6. refresh'[r] = [st |-> "opening", on |-> o, asked |-> mdf] /\ \A s \in Refreshes \ {r} : refresh'[s] = refresh[s]
    BY <2>1 DEF SourceTypeOK
  <2>7. AwaitedBy(refresh[r])'
    BY <1>1, <2>2, <2>6 DEF AwaitedBy, Due, Coming, Gives
  <2>8. \A q \in RefreshRequest : AwaitedBy(q) => AwaitedBy(q)'
    <3>1. \A i \in Promises : load'[i].undisturbed => load[i].undisturbed
      BY <2>3, Zenon
    <3> QED
      BY <2>2, <2>3, <3>1, AwaitedForward
  <2>9. \A s \in Refreshes \ {r} : AwaitedBy(refresh[s])'
    BY <2>6, <2>8, AllAwaited DEF ServeInv
  <2> QED
    BY <2>2, <2>5, <2>7, <2>9 DEF ServeInv, Awaited
<1> QED
  BY <1>2, <1>3

LEMMA RefreshStepServes ==
    ASSUME SourceTypeOK, ServeInv, NEW r \in Refreshes, RefreshStep(r)
    PROVE  ServeInv'
<1>1. AwaitedBy(refresh[r])
  BY DEF ServeInv, Awaited
<1>2. CASE Reloaded(r)
  <2>1. /\ refresh[r].st = "opening" /\ open[refresh[r].on].st = "open" /\ Reintrospect(r)
        /\ UNCHANGED <<mdf, inode, target, tmp, open, duck>>
    BY <1>2 DEF Reloaded
  <2>2. Coming(refresh[r].asked)
    BY <1>1, <2>1 DEF AwaitedBy, Due
  <2> QED
    BY <2>1, <2>2, ReintrospectServes
<1>3. CASE RefreshFails(r) \/ Refreshed(r)
  <2>1. PICK st \in {"failed", "done"} :
          /\ refresh' = [refresh EXCEPT ![r].st = st]
          /\ st = "done" => refresh[r].st = "loading" /\ load[refresh[r].on].st = "done"
          /\ UNCHANGED <<mdf, inode, target, tmp, open, duck, load, loading>>
    BY <1>3 DEF RefreshFails, Refreshed
  <2>2. /\ refresh'[r].st = st /\ refresh'[r].on = refresh[r].on /\ refresh'[r].asked = refresh[r].asked
        /\ \A s \in Refreshes \ {r} : refresh'[s] = refresh[s]
    BY <2>1 DEF SourceTypeOK, RefreshRequest
  <2>3. EngineInv' /\ Forward
    BY <2>1, SameServes DEF ServeInv
  <2>4. OneLoad'
    BY <2>1 DEF ServeInv, OneLoad, Steadily, IsOpen, Holds
  <2>5. AwaitedBy(refresh[r])'
    <3>1. st = "done" => Coming(refresh[r].asked)'
      BY <1>1, <2>1, <2>3 DEF AwaitedBy, Forward, SourceTypeOK, RefreshRequest
    <3> QED
      BY <1>1, <2>1, <2>2, <3>1 DEF AwaitedBy, Coming, Gives
  <2>6. \A i \in Promises : load'[i].undisturbed => load[i].undisturbed
    BY <2>1, Zenon
  <2>7. \A q \in RefreshRequest : AwaitedBy(q) => AwaitedBy(q)'
    BY <2>1, <2>3, <2>6, AwaitedForward
  <2>8. \A s \in Refreshes \ {r} : AwaitedBy(refresh[s])'
    BY <2>2, <2>7, AllAwaited DEF ServeInv
  <2> QED
    BY <2>3, <2>4, <2>5, <2>8 DEF ServeInv, Awaited
<1> QED
  BY <1>2, <1>3 DEF RefreshStep
-----------------------------------------------------------------------------
(* What the requests' proofs use *)

\* What each property excludes stays excluded, and what it promises follows.
DataInv == /\ FilesInv
           /\ OneAtATime => EngineInv
           /\ OneAtATime /\ NotReplaced => ServeInv

LEMMA DataInit == SourceInit => DataInv
<1> SUFFICES ASSUME SourceInit PROVE DataInv
  OBVIOUS
<1>1. Current = None /\ duck = None /\ loading = None /\ tmp = None
  BY DEF SourceInit, Current
<1>2. OneOpen /\ Fallback /\ Ordered
  BY <1>1 DEF SourceInit, OneOpen, Fallback, Ordered, InOpen, InUse, Original
<1>3. OneLoad
  BY <1>1 DEF SourceInit, OneLoad, Steadily, InLoad
<1>4. Awaited
  BY DEF SourceInit, Awaited, AwaitedBy
<1>5. FilesInv
  <2>1. \A i \in Promises \cup {Original} : WholeFile(i) /\ inode[i].written = inode[i].holds
    BY DEF SourceInit, WholeFile
  <2>2. ASSUME NEW o \in Promises PROVE Unused(o) /\ open[o].st = "unused" /\ open[o].file = Original
    <3>1. ~open[o].beside
      BY Zenon DEF SourceInit
    <3> QED
      BY <2>1, <3>1, NoneType DEF SourceInit, Unused, Original, None
  <2> QED
    BY <1>1, <2>1, <2>2 DEF FilesInv, SourceInit
<1> QED
  BY <1>2, <1>3, <1>4, <1>5 DEF ServeInv, EngineInv, DataInv

LEMMA LoadStepEngine ==
    ASSUME SourceTypeOK, FilesInv, EngineInv, NEW i \in Promises, LoadStep(i), OneAtATime'
    PROVE  EngineInv'
<1>1. CASE AwaitEngine(i)
  BY <1>1, EngineServes DEF AwaitEngine
<1> QED
  BY <1>1, SameServes DEF LoadStep, ReadTables, ReadColumns, LoadLosesEngine, LoadFails

LEMMA RefreshEngine ==
    ASSUME SourceTypeOK, FilesInv, EngineInv, NEW r \in Refreshes, Refresh(r) \/ RefreshStep(r), OneAtATime'
    PROVE  EngineInv'
<1>1. CASE Refresh(r) /\ duck # None
  BY <1>1, BeginServes DEF Refresh
<1>2. CASE Refresh(r) /\ duck = None
  BY <1>2, SameServes DEF Refresh
<1> QED
  BY <1>1, <1>2, SameServes DEF RefreshStep, Reloaded, RefreshFails, Refreshed

LEMMA SourceStepEngine ==
    ASSUME SourceTypeOK, FilesInv, EngineInv, NEW used, SourceStep(used), OneAtATime'
    PROVE  EngineInv'
<1>1. CASE Replaced
  BY <1>1, ReplacedServes
<1>2. CASE Warm
  BY <1>2, EngineServes DEF Warm
<1> QED
  BY <1>1, <1>2, OpenStepServes, CloseServes, LoadStepEngine, RefreshEngine DEF SourceStep

LEMMA SourceStepServes ==
    ASSUME SourceTypeOK, FilesInv, ServeInv, NEW used, SourceStep(used), OneAtATime', NotReplaced
    PROVE  ServeInv'
<1>1. CASE Replaced
  <2>1. UNCHANGED <<load, loading, refresh>>
    BY <1>1 DEF Replaced
  <2> QED
    BY <1>1, <2>1, ReplacedServes, EngineStepServes DEF ServeInv
<1>2. CASE Warm
  <2>1. PICK o \in Promises : Engine(o) /\ UNCHANGED <<mdf, target, tmp, load, loading, refresh>>
    BY <1>2 DEF Warm
  <2> QED
    BY <2>1, EngineServes, EngineStepServes DEF ServeInv
<1>3. ASSUME NEW o \in Promises, OpenStep(o) PROVE ServeInv'
  <2>1. UNCHANGED <<load, loading, refresh>>
    BY <1>3 DEF OpenStep, StartConversion, EndConversion, ConversionFails, Opened, OpenFails
  <2> QED
    BY <1>3, <2>1, OpenStepServes, EngineStepServes DEF ServeInv
<1>4. ASSUME NEW o \in Promises, CloseOld(o, used) PROVE ServeInv'
  <2>1. UNCHANGED <<load, loading, refresh>>
    BY <1>4 DEF CloseOld
  <2> QED
    BY <1>4, <2>1, CloseServes, EngineStepServes DEF ServeInv
<1> QED
  BY <1>1, <1>2, <1>3, <1>4, LoadStepServes, RefreshServes, RefreshStepServes DEF SourceStep

LEMMA SourceStepData ==
    ASSUME SourceTypeOK, DataInv, NEW used, SourceStep(used)
    PROVE  DataInv'
<1>1. FilesInv' /\ Back
  BY SourceStepFiles DEF DataInv
<1>2. OneAtATime' => EngineInv'
  BY <1>1, SourceStepEngine DEF DataInv, Back
<1>3. OneAtATime' /\ NotReplaced' => ServeInv'
  BY <1>1, SourceStepServes DEF DataInv, Back
<1> QED
  BY <1>1, <1>2, <1>3 DEF DataInv

\* What the invariant is for.
LEMMA Kept == ASSUME SourceTypeOK, OneAtATime => EngineInv PROVE KeepsServing
<1> SUFFICES ASSUME EngineInv, NEW o \in Promises, open[o].st \in InUse
             PROVE  /\ ~Dropped => duck # None /\ open[duck].st \in InOpen \cup {"open"}
                    /\ \A s \in Serving : s.holds >= Holds(o)
  BY DEF KeepsServing, Holds, InUse
<1>1. NoNewer(o)
  BY DEF EngineInv, Ordered
<1>2. ~Dropped => duck # None /\ open[duck].st \in InOpen \cup {"open"}
  BY <1>1 DEF NoNewer, Current, EngineInv, OneOpen
<1>3. ASSUME NEW s \in Serving PROVE s.holds >= Holds(o)
  <2>1. duck # None /\ Current = duck /\ s.holds = Holds(Current)
    BY <1>3 DEF Serving, Current, Holds
  <2>2. Holds(o) <= Holds(Current) /\ Holds(Current) \in Nat /\ Holds(o) \in Nat
    BY <1>1, <2>1, NumberTypes DEF NoNewer, SourceTypeOK
  <2> QED
    BY <2>1, <2>2
<1> QED
  BY <1>2, <1>3

LEMMA Shown == ASSUME SourceTypeOK, OneAtATime /\ NotReplaced => ServeInv PROVE RefreshShowsNew
<1> SUFFICES ASSUME ServeInv, NEW r \in Refreshes, refresh[r].st = "done"
             PROVE  /\ load[refresh[r].on].undisturbed =>
                          /\ load[refresh[r].on].tables = load[refresh[r].on].columns
                          /\ load[refresh[r].on].tables >= refresh[r].asked
                    /\ \A s \in Serving : s.holds >= refresh[r].asked
  BY DEF RefreshShowsNew, NotReplaced
<1> DEFINE l == refresh[r].on  n == refresh[r].asked
<1>1. /\ l \in Promises /\ load[l].st = "done" /\ Coming(n) /\ n \in Nat
      /\ load[l].undisturbed => n <= load[l].tables
  BY DEF ServeInv, Awaited, AwaitedBy, SourceTypeOK, RefreshRequest, Versions
<1>2. ASSUME load[l].undisturbed PROVE load[l].tables = load[l].columns /\ load[l].tables >= n
  <2>1. Steadily(l)
    BY <1>1, <1>2 DEF ServeInv, OneLoad
  <2>2. load[l].tables \in Nat
    BY <1>1 DEF SourceTypeOK, Load, Versions
  <2> QED
    BY <1>1, <1>2, <2>1, <2>2 DEF Steadily
<1>3. ASSUME NEW s \in Serving PROVE s.holds >= n
  <2>1. duck # None /\ Current = duck /\ s.holds = Holds(Current)
    BY <1>3 DEF Serving, Current, Holds
  <2>2. n <= Holds(Current) /\ Holds(Current) \in Nat
    BY <1>1, <2>1, NumberTypes DEF Coming, SourceTypeOK
  <2> QED
    BY <1>1, <2>1, <2>2
<1> QED
  BY <1>2, <1>3
-----------------------------------------------------------------------------
(* The inductive invariant: what a request in progress knows *)

\* Rounds are counted to the last, which the smart tier takes unless it is the
\* only one; a refused one adds a round, and a recheck the last of all.
RoundsCounted(q) ==
    /\ q.most \in 1 + MaxRepairs .. MostRounds - 1
    /\ q.round <= q.most + (IF q.rechecks THEN 1 ELSE 0)
    /\ q.st = "execute" /\ ~q.rechecks /\ q.tier = "asked" /\ q.round = q.most => q.most = 1
    /\ q.rechecks => q.st = "execute" /\ DOMAIN q.drafts = {1}

\* The schema was read before the caches are looked up.
KeyKnown(q) == q.st \notin {"idle", "hash"} \cup Done => q.key \in Schemas

Ran(sql, result) == /\ sql \in Sqls /\ sql.text \notin Wrong
                    /\ result \in Results /\ result.text = sql.text
                    /\ sql.schema = SchemaOf[result.version]

\* Only SQL that ran is looked at again, phrased or kept.
ChosenRan(q) == /\ q.st = "cached" => q.chosen \in Sqls
                /\ q.st \in {"recheck", "phrase", "cachedPhrase"} \/ q.rechecks => Ran(q.chosen, q.result)

Earned(answer) == /\ answer.refused # "asked"
                  /\ answer.sql # NoSql => /\ answer.sql.text = answer.result.text
                                           /\ answer.sql.schema = SchemaOf[answer.result.version]

Sound(q) == q \in Request /\ RoundsCounted(q) /\ KeyKnown(q) /\ ChosenRan(q) /\ Earned(q.answer)

CachesSound == /\ sqlTier \in [Keys -> Sqls \cup {NoSql}]
               /\ answers \in [Keys -> Answers]
               /\ CachedSqlRan
               /\ \A k \in Keys : Earned(answers[k])

Inv == /\ SourceTypeOK
       /\ ask \in [Asks -> Request] /\ \A a \in Asks : Sound(ask[a])
       /\ CachesSound
-----------------------------------------------------------------------------
(* Requests *)

LEMMA NoAnswerEarned == NoAnswer \in Answers /\ Earned(NoAnswer)
BY DEF NoAnswer, Answers, Earned

LEMMA NewAskSound ==
    ASSUME NEW stage \in {"idle", "hash", "answered", "failed"}, NEW answer \in Answers, Earned(answer)
    PROVE  /\ Sound([NewAsk(stage) EXCEPT !.answer = answer])
           /\ Sound(NewAsk(stage))
<1>1. 1 + MaxRepairs \in 1 .. MostRounds /\ 0 \in 0 .. MostRounds /\ 1 + MaxRepairs \in 1 + MaxRepairs .. MostRounds - 1
  BY AskAssumption DEF MostRounds
<1>2. stage \in Stages
  BY DEF Stages, Done
<1>3. NewAsk(stage) \in Request /\ [NewAsk(stage) EXCEPT !.answer = answer] \in Request
  BY <1>1, <1>2, NoAnswerEarned DEF NewAsk, Request
<1>4. /\ RoundsCounted(NewAsk(stage)) /\ KeyKnown(NewAsk(stage)) /\ ChosenRan(NewAsk(stage))
      /\ NewAsk(stage).answer = NoAnswer
  BY <1>1, AskAssumption DEF NewAsk, RoundsCounted, KeyKnown, ChosenRan, Done
<1>5. LET q == [NewAsk(stage) EXCEPT !.answer = answer] IN
      RoundsCounted(q) /\ KeyKnown(q) /\ ChosenRan(q) /\ q.answer = answer
  BY <1>1, AskAssumption DEF NewAsk, RoundsCounted, KeyKnown, ChosenRan, Done
<1> QED
  BY <1>3, <1>4, <1>5, NoAnswerEarned DEF Sound

LEMMA EndsSound ==
    ASSUME Inv, NEW a \in Asks, NEW stage \in Done, NEW answer \in Answers, Earned(answer),
           Ends(a, stage, answer)
    PROVE  ask' \in [Asks -> Request] /\ \A b \in Asks : Sound(ask'[b])
<1>1. Sound([NewAsk(stage) EXCEPT !.answer = answer])
  BY NewAskSound DEF Done
<1> QED
  BY <1>1 DEF Ends, Inv, Sound

\* A request that waits, or goes on, for another promise.
LEMMA WaitsSound ==
    ASSUME Inv, NEW a \in Asks, NEW on \in Promises \cup {None}, ask' = [ask EXCEPT ![a].on = on]
    PROVE  ask' \in [Asks -> Request] /\ \A b \in Asks : Sound(ask'[b])
<1> DEFINE q == [ask[a] EXCEPT !.on = on]
<1>1. Sound(ask[a]) /\ ask[a] \in Request
  BY DEF Inv, Sound
<1>2. q \in Request
  BY <1>1 DEF Request
<1>3. /\ q.st = ask[a].st /\ q.most = ask[a].most /\ q.round = ask[a].round /\ q.rechecks = ask[a].rechecks
      /\ q.tier = ask[a].tier /\ q.drafts = ask[a].drafts /\ q.key = ask[a].key
      /\ q.chosen = ask[a].chosen /\ q.result = ask[a].result /\ q.answer = ask[a].answer
  BY <1>1 DEF Request
<1>4. Sound(q)
  <2> HIDE DEF q
  <2> QED
    BY <1>1, <1>2, <1>3 DEF Sound, RoundsCounted, KeyKnown, ChosenRan
<1>5. ask' = [ask EXCEPT ![a] = q]
  BY <1>1 DEF Inv, Request
<1> HIDE DEF q
<1> QED
  BY <1>2, <1>4, <1>5 DEF Inv

LEMMA BecomesSound ==
    ASSUME Inv, NEW a \in Asks, NEW q, Sound(q), ask' = [ask EXCEPT ![a] = q]
    PROVE  ask' \in [Asks -> Request] /\ \A b \in Asks : Sound(ask'[b])
BY DEF Inv, Sound

LEMMA CachesSame == ASSUME Inv, UNCHANGED <<sqlTier, answers>> PROVE CachesSound'
BY DEF Inv, CachesSound, CachedSqlRan

LEMMA SourceSame == ASSUME Inv, UNCHANGED sourceVars PROVE SourceTypeOK'
BY DEF Inv, SourceTypeOK, sourceVars

LEMMA RequestType ==
    ASSUME Inv, NEW a \in Asks
    PROVE  /\ Sound(ask[a]) /\ ask[a] \in Request
           /\ ask[a].on \in Promises \cup {None}
BY DEF Inv, Request

\* What a request reads the schema of, it can be keyed with.
LEMMA SchemaType ==
    ASSUME Inv, NEW a \in Asks, HasSchema(a)
    PROVE  SchemaFor(a) \in Schemas
<1>1. Ensured(a) \in Promises
  BY RequestType DEF HasSchema, Ensured, Inv, SourceTypeOK
<1> QED
  BY <1>1 DEF SchemaFor, Schemas, Inv, SourceTypeOK, Load

LEMMA DataType ==
    ASSUME Inv, NEW a \in Asks, IsOpen(Given(ask[a].on))
    PROVE  DataFor(a) \in Versions
BY RequestType, ReadType DEF DataFor, Inv

LEMMA RanWhenSucceeds ==
    ASSUME NEW sql, sql.text \in Texts, sql \in [text : {sql.text}, schema : {sql.schema}],
           NEW version \in Versions, Succeeds(sql, version)
    PROVE  Ran(sql, ResultOf(sql, version))
BY DEF Ran, Succeeds, ResultOf, Sqls, Results, Schemas
-----------------------------------------------------------------------------
(* Reading the schema, and the answer cache *)

LEMMA AskInv == ASSUME Inv, NEW a \in Asks, Ask(a) PROVE Inv'
<1>1. Sound(NewAsk("hash"))
  BY NewAskSound, NoAnswerEarned
<1> QED
  BY <1>1, BecomesSound, CachesSame, SourceSame DEF Ask, Inv

LEMMA AwaitSchemaInv == ASSUME Inv, NEW a \in Asks, AwaitSchema(a) PROVE Inv'
<1>1. PICK i \in Promises : Join(i) /\ ask' = [ask EXCEPT ![a].on = i]
  BY DEF AwaitSchema
<1>2. SourceTypeOK'
  BY <1>1, JoinType DEF AwaitSchema, Inv, SourceTypeOK
<1> QED
  BY <1>1, <1>2, WaitsSound, CachesSame DEF AwaitSchema, Inv

LEMMA SchemaLostInv == ASSUME Inv, NEW a \in Asks, SchemaLost(a) PROVE Inv'
BY EndsSound, NoAnswerEarned, CachesSame, SourceSame DEF SchemaLost, Throws, Done, Inv

LEMMA HashInv == ASSUME Inv, NEW a \in Asks, Hash(a) PROVE Inv'
<1> DEFINE k == <<SchemaFor(a), QuestionOf[a]>>
<1>1. SchemaFor(a) \in Schemas /\ k \in Keys
  BY SchemaType DEF Hash, Keys
<1>2. answers[k] \in Answers /\ Earned(answers[k])
  BY <1>1 DEF Inv, CachesSound
<1>3. PICK noCache \in BOOLEAN :
        \/ Ends(a, "answered", answers[k])
        \/ ask' = [ask EXCEPT ![a].key = SchemaFor(a), ![a].skips = noCache,
                              ![a].on = None, ![a].st = "context"]
  BY DEF Hash
<1>4. CASE Ends(a, "answered", answers[k])
  BY <1>2, <1>4, EndsSound, CachesSame, SourceSame DEF Hash, Done, Inv
<1>5. CASE ask' = [ask EXCEPT ![a].key = SchemaFor(a), ![a].skips = noCache,
                              ![a].on = None, ![a].st = "context"]
  <2> DEFINE q == [ask[a] EXCEPT !.key = SchemaFor(a), !.skips = noCache, !.on = None, !.st = "context"]
  <2>1. ask' = [ask EXCEPT ![a] = q]
    BY <1>5, RequestType DEF Inv, Request
  <2>2. q \in Request
    BY <1>1, RequestType, ZenonT(60) DEF Request, Stages
  <2>3. /\ q.st = "context" /\ q.most = ask[a].most /\ q.round = ask[a].round /\ q.rechecks = ask[a].rechecks
        /\ q.key = SchemaFor(a) /\ q.answer = ask[a].answer
    BY RequestType DEF Request
  <2>4. ~ask[a].rechecks
    BY RequestType DEF Sound, RoundsCounted, Hash
  <2> HIDE DEF q
  <2>5. Sound(q)
    BY <1>1, <2>2, <2>3, <2>4, RequestType DEF Sound, RoundsCounted, KeyKnown, ChosenRan
  <2> QED
    BY <2>1, <2>5, BecomesSound, CachesSame, SourceSame DEF Hash, Inv
<1> QED
  BY <1>3, <1>4, <1>5

LEMMA ContextInv == ASSUME Inv, NEW a \in Asks, Context(a) PROVE Inv'
<1> DEFINE kept == IF Looks(a) = "cached" THEN sqlTier[Key(a)] ELSE NoSql
           q == [ask[a] EXCEPT !.shown = SchemaFor(a), !.on = None, !.skips = FALSE, !.chosen = kept, !.st = Looks(a)]
<1>1. Key(a) \in Keys /\ SchemaFor(a) \in Schemas
  BY RequestType, SchemaType DEF Context, Sound, KeyKnown, Key, Keys, Done
<1>2. Looks(a) \in {"cached", "generate"} /\ (Looks(a) = "cached" => sqlTier[Key(a)] # NoSql)
  BY DEF Looks
<1>3. kept \in Sqls \cup {NoSql} /\ (Looks(a) = "cached" => kept \in Sqls)
  BY <1>1, <1>2 DEF Inv, CachesSound
<1>4. ask' = [ask EXCEPT ![a] = q]
  BY RequestType DEF Context, Inv, Request
<1> HIDE DEF kept
<1>5. q \in Request
  BY <1>1, <1>2, <1>3, RequestType, ZenonT(60) DEF Request, Stages
<1>6. /\ q.st = Looks(a) /\ q.most = ask[a].most /\ q.round = ask[a].round /\ q.rechecks = ask[a].rechecks
      /\ q.key = ask[a].key /\ q.answer = ask[a].answer /\ q.chosen = kept
  BY RequestType DEF Request
<1>7. ~ask[a].rechecks
  BY RequestType DEF Sound, RoundsCounted, Context
<1>8. ask[a].key \in Schemas
  BY RequestType DEF Sound, KeyKnown, Context, Done
<1> HIDE DEF q
<1>9. Sound(q)
  BY <1>2, <1>3, <1>5, <1>6, <1>7, <1>8, RequestType DEF Sound, RoundsCounted, KeyKnown, ChosenRan
<1> QED
  BY <1>4, <1>9, BecomesSound, CachesSame, SourceSame DEF Context, Inv

-----------------------------------------------------------------------------
(* Running SQL *)

LEMMA AwaitQueryInv == ASSUME Inv, NEW a \in Asks, AwaitQuery(a) PROVE Inv'
<1>1. PICK o \in Promises : Engine(o) /\ ask' = [ask EXCEPT ![a].on = o]
  BY DEF AwaitQuery
<1>2. SourceTypeOK'
  BY <1>1, EngineType DEF AwaitQuery, Inv, SourceTypeOK
<1> QED
  BY <1>1, <1>2, WaitsSound, CachesSame DEF AwaitQuery, Inv

\* Without its cached SQL a request goes on as one that found none.
LEMMA GeneratesSound ==
    ASSUME Inv, NEW a \in Asks, ask[a].st \in {"cached", "cachedPhrase"},
           NEW result \in {ask[a].result, NoResult}, NEW on \in {ask[a].on, None}
    PROVE  Sound([ask[a] EXCEPT !.st = "generate", !.on = on, !.chosen = NoSql, !.result = result])
<1> DEFINE q == [ask[a] EXCEPT !.st = "generate", !.on = on, !.chosen = NoSql, !.result = result]
<1>1. q \in Request
  BY RequestType, ZenonT(60) DEF Request, Stages
<1>2. /\ q.st = "generate" /\ q.most = ask[a].most /\ q.round = ask[a].round /\ q.rechecks = ask[a].rechecks
      /\ q.key = ask[a].key /\ q.answer = ask[a].answer
  BY RequestType DEF Request
<1>3. ~ask[a].rechecks
  BY RequestType DEF Sound, RoundsCounted
<1> HIDE DEF q
<1>4. Sound(q)
  BY <1>1, <1>2, <1>3, RequestType DEF Sound, RoundsCounted, KeyKnown, ChosenRan, Done
<1> QED
  BY <1>4 DEF q

LEMMA RunCachedInv == ASSUME Inv, NEW a \in Asks, RunCached(a) PROVE Inv'
<1> DEFINE v == DataFor(a)  result == ResultOf(ask[a].chosen, v)
<1>1. v \in Versions
  BY DataType DEF RunCached, Runs
<1>2. CASE Succeeds(ask[a].chosen, v)
  <2> DEFINE q == [ask[a] EXCEPT !.st = "cachedPhrase", !.on = None, !.result = result]
  <2>1. ask' = [ask EXCEPT ![a] = q]
    BY <1>2, RequestType DEF RunCached, Inv, Request
  <2>2. ask[a].chosen \in Sqls
    BY RequestType DEF RunCached, Runs, Sound, ChosenRan
  <2>3. Ran(ask[a].chosen, result) /\ result \in Results
    BY <1>1, <1>2, <2>2, RanWhenSucceeds DEF Sqls, Ran
  <2> HIDE DEF result
  <2>4. q \in Request
    BY <2>3, RequestType, ZenonT(60) DEF Request, Stages
  <2>5. /\ q.st = "cachedPhrase" /\ q.most = ask[a].most /\ q.round = ask[a].round /\ q.rechecks = ask[a].rechecks
        /\ q.key = ask[a].key /\ q.answer = ask[a].answer /\ q.chosen = ask[a].chosen /\ q.result = result
    BY RequestType DEF Request
  <2>6. ask[a].st = "cached" /\ ~ask[a].rechecks
    BY RequestType DEF Sound, RoundsCounted, RunCached, Runs
  <2> HIDE DEF q
  <2>7. Sound(q)
    BY <2>3, <2>4, <2>5, <2>6, RequestType DEF Sound, RoundsCounted, KeyKnown, ChosenRan, Done
  <2> QED
    BY <2>1, <2>7, BecomesSound, CachesSame, SourceSame DEF RunCached, Inv
<1>3. CASE ~Succeeds(ask[a].chosen, v)
  <2>0. ask' = [ask EXCEPT ![a].st = "generate", ![a].on = None, ![a].chosen = NoSql]
    BY <1>3 DEF RunCached
  <2> HIDE DEF v, result
  <2>1. ask' = [ask EXCEPT ![a] = [ask[a] EXCEPT !.st = "generate", !.on = None, !.chosen = NoSql, !.result = ask[a].result]]
    BY <2>0, RequestType DEF Inv, Request
  <2>2. Sound([ask[a] EXCEPT !.st = "generate", !.on = None, !.chosen = NoSql, !.result = ask[a].result])
    BY GeneratesSound DEF RunCached, Runs
  <2> QED
    BY <2>1, <2>2, BecomesSound, CachesSame, SourceSame DEF RunCached, Inv
<1> QED
  BY <1>2, <1>3

LEMMA EngineLostInv == ASSUME Inv, NEW a \in Asks, EngineLost(a) PROVE Inv'
<1>1. CASE ask[a].st = "cached"
  <2>1. ask' = [ask EXCEPT ![a] = [ask[a] EXCEPT !.st = "generate", !.on = None, !.chosen = NoSql, !.result = ask[a].result]]
    BY <1>1, RequestType DEF EngineLost, Inv, Request
  <2>2. Sound([ask[a] EXCEPT !.st = "generate", !.on = None, !.chosen = NoSql, !.result = ask[a].result])
    BY <1>1, GeneratesSound
  <2> QED
    BY <1>1, <2>1, <2>2, BecomesSound, CachesSame, SourceSame DEF EngineLost, Inv
<1>2. CASE ask[a].st # "cached"
  BY <1>2, EndsSound, NoAnswerEarned, CachesSame, SourceSame DEF EngineLost, Throws, Done, Inv
<1> QED
  BY <1>1, <1>2
-----------------------------------------------------------------------------
(* Rounds *)

LEMMA TextsType ==
    ASSUME Inv, NEW a \in Asks, NEW i \in Ok(a, ask[a].drafts), IsOpen(Given(ask[a].on))
    PROVE  Ran(SqlOf(a, ask[a].drafts[i]), ResultOf(SqlOf(a, ask[a].drafts[i]), DataFor(a)))
<1> DEFINE text == ask[a].drafts[i]
<1>1. Succeeds(SqlOf(a, text), DataFor(a)) /\ i \in DOMAIN ask[a].drafts /\ text # Refusal
  BY DEF Ok, Runnable
<1>2. ask[a].drafts \in [1 .. Candidates -> Texts \cup {Refusal}] \cup [1 .. 1 -> Texts \cup {Refusal}] \cup {<<>>}
  BY RequestType DEF Request
<1>3. text \in Texts
  <2>1. CASE ask[a].drafts \in [1 .. Candidates -> Texts \cup {Refusal}]
    BY <1>1, <2>1
  <2>2. CASE ask[a].drafts \in [1 .. 1 -> Texts \cup {Refusal}]
    BY <1>1, <2>2
  <2>3. CASE ask[a].drafts = <<>>
    BY <1>1, <2>3
  <2> QED
    BY <1>2, <2>1, <2>2, <2>3
<1>4. /\ SqlOf(a, text).text = text
      /\ SqlOf(a, text) \in [text : {SqlOf(a, text).text}, schema : {SqlOf(a, text).schema}]
  BY DEF SqlOf
<1> QED
  BY <1>1, <1>3, <1>4, DataType, RanWhenSucceeds

LEMMA FinishInv ==
    ASSUME Inv, NEW a \in Asks, NEW answer \in Answers, Earned(answer), Finish(a, answer),
           UNCHANGED <<sourceVars, sqlTier>>
    PROVE  Inv'
<1>1. answers' = [answers EXCEPT ![Key(a)] = answer]
  BY DEF Finish
<1>2. answers' \in [Keys -> Answers] /\ \A k \in Keys : Earned(answers'[k])
  BY <1>1 DEF Inv, CachesSound
<1>3. CachesSound'
  BY <1>2 DEF Inv, CachesSound, CachedSqlRan
<1> QED
  BY <1>3, EndsSound, SourceSame DEF Finish, Done, Inv

LEMMA GenerateInv == ASSUME Inv, NEW a \in Asks, Generate(a) PROVE Inv'
<1>1. PICK drafts \in [1 .. (IF ask[a].round = 0 THEN Candidates ELSE 1) -> Texts \cup {Refusal}] :
        ask' = [ask EXCEPT ![a].round = @ + 1, ![a].tier = TierOf(a), ![a].drafts = drafts,
                           ![a].st = "execute", ![a].on = None]
  BY DEF Generate
<1> DEFINE q == [ask[a] EXCEPT !.round = ask[a].round + 1, !.tier = TierOf(a), !.drafts = drafts,
                               !.st = "execute", !.on = None]
<1>2. ask' = [ask EXCEPT ![a] = q]
  BY <1>1, RequestType DEF Inv, Request
<1>3. ask[a].round \in Nat /\ ask[a].most \in 1 + MaxRepairs .. MostRounds - 1 /\ ask[a].round < ask[a].most
  BY RequestType DEF Generate, Sound, RoundsCounted, Request
<1>4. TierOf(a) \in {"asked", "smart"}
  BY DEF TierOf
<1>5. TierOf(a) = "asked" /\ ask[a].round + 1 = ask[a].most => ask[a].most = 1
  BY <1>3 DEF TierOf, IsLast
<1>6. ask[a].round + 1 \in 0 .. MostRounds
  BY <1>3, AskAssumption DEF MostRounds
<1>7. q \in Request
  BY <1>4, <1>6, RequestType, ZenonT(60) DEF Request, Stages
<1>8. /\ q.st = "execute" /\ q.most = ask[a].most /\ q.round = ask[a].round + 1 /\ q.rechecks = ask[a].rechecks
      /\ q.key = ask[a].key /\ q.answer = ask[a].answer /\ q.tier = TierOf(a)
  BY RequestType DEF Request
<1>9. ask[a].st = "generate" /\ ~ask[a].rechecks
  BY RequestType DEF Sound, RoundsCounted, Generate
<1> HIDE DEF q
<1>10. Sound(q)
  BY <1>3, <1>5, <1>7, <1>8, <1>9, RequestType DEF Sound, RoundsCounted, KeyKnown, ChosenRan, Done
<1> QED
  BY <1>2, <1>10, BecomesSound, CachesSame, SourceSame DEF Generate, Inv

LEMMA RefusedInv == ASSUME Inv, NEW a \in Asks, Refused(a) PROVE Inv'
<1>1. CASE ask[a].tier = "smart"
  <2>1. Finish(a, [NoAnswer EXCEPT !.refused = ask[a].tier])
    BY <1>1 DEF Refused
  <2>2. [NoAnswer EXCEPT !.refused = "smart"] \in Answers /\ Earned([NoAnswer EXCEPT !.refused = "smart"])
    BY DEF NoAnswer, Answers, Earned
  <2> QED
    BY <1>1, <2>1, <2>2, FinishInv DEF Refused
<1>2. CASE ask[a].tier # "smart"
  <2> DEFINE most == IF ask[a].most > ask[a].round + 1 THEN ask[a].most ELSE ask[a].round + 1
             q == [ask[a] EXCEPT !.st = "generate", !.force = TRUE, !.drafts = <<>>, !.most = most]
  <2>1. ask' = [ask EXCEPT ![a] = q]
    BY <1>2, RequestType DEF Refused, Inv, Request
  <2>2. /\ ask[a].st = "execute" /\ ~ask[a].rechecks /\ ask[a].tier = "asked"
        /\ ask[a].round \in Nat /\ ask[a].round <= ask[a].most
        /\ ask[a].most \in 1 + MaxRepairs .. MostRounds - 1
        /\ ask[a].round = ask[a].most => ask[a].most = 1
    BY <1>2, RequestType DEF Refused, Sound, RoundsCounted, Request
  <2>3. most \in 1 + MaxRepairs .. MostRounds - 1 /\ ask[a].round <= most
    BY <2>2, AskAssumption DEF MostRounds
  <2>4. most \in 1 .. MostRounds
    BY <2>3, AskAssumption DEF MostRounds
  <2> HIDE DEF most
  <2>5. q \in Request
    BY <2>4, RequestType, ZenonT(60) DEF Request, Stages
  <2>6. /\ q.st = "generate" /\ q.most = most /\ q.round = ask[a].round /\ q.rechecks = ask[a].rechecks
        /\ q.key = ask[a].key /\ q.answer = ask[a].answer
    BY RequestType DEF Request
  <2> HIDE DEF q
  <2>7. Sound(q)
    BY <2>2, <2>3, <2>5, <2>6, RequestType DEF Sound, RoundsCounted, KeyKnown, ChosenRan, Done
  <2> QED
    BY <1>2, <2>1, <2>7, BecomesSound, CachesSame, SourceSame DEF Refused, Inv
<1> QED
  BY <1>1, <1>2

LEMMA SettlesInv ==
    ASSUME Inv, NEW a \in Asks, ask[a].st = "execute", NEW sql, NEW result, Ran(sql, result),
           Settles(a, sql, result), UNCHANGED <<sourceVars, answers>>
    PROVE  Inv'
<1> DEFINE q == [NewAsk("phrase") EXCEPT !.key = ask[a].key, !.chosen = sql, !.result = result]
<1>1. ask[a].key \in Schemas /\ Key(a) \in Keys
  BY RequestType DEF Sound, KeyKnown, Key, Keys, Done
<1>2. sql \in Sqls /\ result \in Results /\ sql.text \notin Wrong
  BY DEF Ran
<1>3. 1 + MaxRepairs \in 1 .. MostRounds /\ 0 \in 0 .. MostRounds /\ 1 + MaxRepairs \in 1 + MaxRepairs .. MostRounds - 1
  BY AskAssumption DEF MostRounds
<1>4. q \in Request
  BY <1>1, <1>2, <1>3, NoAnswerEarned DEF NewAsk, Request, Stages
<1>5. /\ q.st = "phrase" /\ q.most = 1 + MaxRepairs /\ q.round = 0 /\ q.rechecks = FALSE
      /\ q.key = ask[a].key /\ q.answer = NoAnswer /\ q.chosen = sql /\ q.result = result
  BY DEF NewAsk
<1> HIDE DEF q
<1>6. Sound(q)
  BY <1>1, <1>3, <1>4, <1>5, NoAnswerEarned, AskAssumption DEF Sound, RoundsCounted, KeyKnown, ChosenRan
<1>7. ask' = [ask EXCEPT ![a] = q]
  BY DEF Settles, q
<1>8. sqlTier' = [sqlTier EXCEPT ![Key(a)] = sql] /\ UNCHANGED answers
  BY DEF Settles
<1>9. CachesSound'
  BY <1>1, <1>2, <1>8 DEF Inv, CachesSound, CachedSqlRan
<1> QED
  BY <1>6, <1>7, <1>9, BecomesSound, SourceSame DEF Inv

LEMMA WonInv == ASSUME Inv, NEW a \in Asks, Won(a) PROVE Inv'
<1>1. PICK i \in Winners(a, ask[a].drafts) :
       LET sql == SqlOf(a, ask[a].drafts[i])
       IN  IF sql.text \in Empty
           THEN /\ ask' = [ask EXCEPT ![a].st = "recheck", ![a].on = None, ![a].chosen = sql,
                                      ![a].drafts = <<>>, ![a].result = ResultOf(sql, DataFor(a))]
                /\ UNCHANGED sqlTier
           ELSE Settles(a, sql, ResultOf(sql, DataFor(a)))
  BY DEF Won
<1> DEFINE sql == SqlOf(a, ask[a].drafts[i])  result == ResultOf(sql, DataFor(a))
<1>2. Ran(sql, result)
  BY TextsType DEF Winners, Won, Runs
<1>3. CASE sql.text \notin Empty
  <2>1. Settles(a, sql, result)
    BY <1>1, <1>3
  <2> HIDE DEF sql, result
  <2> QED
    BY <1>2, <2>1, SettlesInv DEF Won, Runs
<1>4. CASE sql.text \in Empty
  <2> DEFINE q == [ask[a] EXCEPT !.st = "recheck", !.on = None, !.chosen = sql, !.drafts = <<>>, !.result = result]
  <2>1. /\ ask' = [ask EXCEPT ![a].st = "recheck", ![a].on = None, ![a].chosen = sql,
                              ![a].drafts = <<>>, ![a].result = result]
        /\ UNCHANGED <<sourceVars, sqlTier, answers>>
    BY <1>1, <1>4 DEF Won
  <2> HIDE DEF sql, result
  <2>2. ask' = [ask EXCEPT ![a] = q]
    BY <2>1, RequestType DEF Inv, Request
  <2>3. q \in Request
    <3>1. sql \in Sqls /\ result \in Results
      BY <1>2 DEF Ran
    <3> QED
      BY <3>1, RequestType, ZenonT(60) DEF Request, Stages
  <2>4. /\ q.st = "recheck" /\ q.most = ask[a].most /\ q.round = ask[a].round /\ q.rechecks = ask[a].rechecks
        /\ q.key = ask[a].key /\ q.answer = ask[a].answer /\ q.chosen = sql /\ q.result = result
    BY RequestType DEF Request
  <2>5. ask[a].st = "execute" /\ ~ask[a].rechecks
    BY DEF Won, Runs
  <2> HIDE DEF q
  <2>6. Sound(q)
    BY <1>2, <2>3, <2>4, <2>5, RequestType DEF Sound, RoundsCounted, KeyKnown, ChosenRan, Done
  <2> QED
    BY <2>1, <2>2, <2>6, BecomesSound, CachesSame, SourceSame DEF Inv
<1> QED
  BY <1>3, <1>4

LEMMA RoundFailsInv == ASSUME Inv, NEW a \in Asks, RoundFails(a) PROVE Inv'
<1>1. CASE ask[a].round = ask[a].most
  BY <1>1, EndsSound, NoAnswerEarned, CachesSame, SourceSame DEF RoundFails, Done, Inv
<1>2. CASE ask[a].round # ask[a].most
  <2> DEFINE q == [ask[a] EXCEPT !.st = "generate", !.on = None, !.drafts = <<>>]
  <2>1. ask' = [ask EXCEPT ![a].st = "generate", ![a].on = None, ![a].drafts = <<>>]
    BY <1>2 DEF RoundFails
  <2>2. ask' = [ask EXCEPT ![a] = q]
    BY <2>1, RequestType DEF Inv, Request
  <2>3. q \in Request
    BY RequestType, ZenonT(60) DEF Request, Stages
  <2>4. /\ q.st = "generate" /\ q.most = ask[a].most /\ q.round = ask[a].round /\ q.rechecks = ask[a].rechecks
        /\ q.key = ask[a].key /\ q.answer = ask[a].answer
    BY RequestType DEF Request
  <2>5. ask[a].st = "execute" /\ ~ask[a].rechecks
    BY DEF RoundFails, Runs
  <2> HIDE DEF q
  <2>6. Sound(q)
    BY <2>3, <2>4, <2>5, RequestType DEF Sound, RoundsCounted, KeyKnown, ChosenRan, Done
  <2> QED
    BY <2>2, <2>6, BecomesSound, CachesSame, SourceSame DEF RoundFails, Inv
<1> QED
  BY <1>1, <1>2
-----------------------------------------------------------------------------
(* The recheck of an empty result *)

LEMMA RecheckInv == ASSUME Inv, NEW a \in Asks, Recheck(a) PROVE Inv'
<1>1. PICK text \in Texts \cup {Refusal} :
        ask' = [ask EXCEPT ![a].round = @ + 1, ![a].tier = "smart", ![a].drafts = <<text>>,
                           ![a].rechecks = TRUE, ![a].st = "execute"]
  BY DEF Recheck
<1> DEFINE drafts == <<text>>
           q == [ask[a] EXCEPT !.round = ask[a].round + 1, !.tier = "smart", !.drafts = drafts,
                               !.rechecks = TRUE, !.st = "execute"]
<1>2. ask' = [ask EXCEPT ![a] = q]
  BY <1>1, RequestType DEF Inv, Request
<1>3. /\ ask[a].st = "recheck" /\ ~ask[a].rechecks
      /\ ask[a].round \in Nat /\ ask[a].most \in 1 + MaxRepairs .. MostRounds - 1
      /\ ask[a].round <= ask[a].most
  BY RequestType DEF Recheck, Sound, RoundsCounted, Request
<1>4. ask[a].round + 1 \in 0 .. MostRounds /\ ask[a].round + 1 <= ask[a].most + 1
  BY <1>3, AskAssumption DEF MostRounds
<1>5. drafts \in [1 .. 1 -> Texts \cup {Refusal}] /\ DOMAIN drafts = {1}
  OBVIOUS
<1> HIDE DEF drafts
<1>6. q \in Request
  <2> DEFINE round == ask[a].round + 1
  <2>1. round \in 0 .. MostRounds
    BY <1>4
  <2>2. drafts \in [1 .. Candidates -> Texts \cup {Refusal}] \cup [1 .. 1 -> Texts \cup {Refusal}] \cup {<<>>}
    BY <1>5
  <2> HIDE DEF round
  <2>3. [ask[a] EXCEPT !.round = round, !.tier = "smart", !.drafts = drafts, !.rechecks = TRUE, !.st = "execute"]
          \in Request
    BY <2>1, <2>2, RequestType, ZenonT(60) DEF Request, Stages
  <2> QED
    BY <2>3 DEF round
<1>7. /\ q.st = "execute" /\ q.most = ask[a].most /\ q.round = ask[a].round + 1 /\ q.rechecks = TRUE
      /\ q.key = ask[a].key /\ q.answer = ask[a].answer /\ q.chosen = ask[a].chosen /\ q.result = ask[a].result
      /\ q.drafts = drafts
  BY RequestType DEF Request
<1> HIDE DEF q
<1>8. Sound(q)
  BY <1>3, <1>4, <1>5, <1>6, <1>7, RequestType DEF Sound, RoundsCounted, KeyKnown, ChosenRan, Done
<1> QED
  BY <1>2, <1>8, BecomesSound, CachesSame, SourceSame DEF Recheck, Inv

LEMMA RecheckedInv == ASSUME Inv, NEW a \in Asks, Rechecked(a) PROVE Inv'
<1> DEFINE sql == SqlOf(a, ask[a].drafts[1])  result == ResultOf(sql, DataFor(a))
<1>1. ask[a].st = "execute" /\ ask[a].rechecks /\ DOMAIN ask[a].drafts = {1} /\ Ran(ask[a].chosen, ask[a].result)
  BY RequestType DEF Rechecked, Runs, Sound, RoundsCounted, ChosenRan
<1>2. CASE Runnable(ask[a].drafts) # {} /\ sql # ask[a].chosen /\ Succeeds(sql, DataFor(a))
  <2>1. 1 \in Ok(a, ask[a].drafts)
    BY <1>1, <1>2 DEF Ok, Runnable
  <2>2. IsOpen(Given(ask[a].on))
    BY <1>2 DEF Rechecked, Runs
  <2>3. Ran(sql, result)
    BY <2>1, <2>2, TextsType
  <2>4. Settles(a, sql, result)
    BY <1>2 DEF Rechecked
  <2> HIDE DEF sql, result
  <2> QED
    BY <1>1, <2>3, <2>4, SettlesInv DEF Rechecked
<1>3. CASE ~(Runnable(ask[a].drafts) # {} /\ sql # ask[a].chosen /\ Succeeds(sql, DataFor(a)))
  <2>1. Settles(a, ask[a].chosen, ask[a].result)
    BY <1>3 DEF Rechecked
  <2> QED
    BY <1>1, <2>1, SettlesInv DEF Rechecked
<1> QED
  BY <1>2, <1>3
-----------------------------------------------------------------------------
(* Phrasing, failing models and the end of entries *)

LEMMA PhraseInv == ASSUME Inv, NEW a \in Asks, Phrase(a) PROVE Inv'
<1> DEFINE answer == [sql |-> ask[a].chosen, result |-> ask[a].result, refused |-> "no"]
<1>1. Ran(ask[a].chosen, ask[a].result)
  BY RequestType DEF Phrase, Sound, ChosenRan
<1>2. answer \in Answers /\ Earned(answer)
  BY <1>1 DEF Ran, Answers, Earned
<1>3. Finish(a, answer) /\ UNCHANGED <<sourceVars, sqlTier>>
  BY DEF Phrase
<1> HIDE DEF answer
<1> QED
  BY <1>2, <1>3, FinishInv

LEMMA ModelFailsInv == ASSUME Inv, NEW a \in Asks, ModelFails(a) PROVE Inv'
<1>1. SourceTypeOK'
  BY FailsType DEF ModelFails, Inv, SourceTypeOK
<1>2. CachesSound'
  BY CachesSame DEF ModelFails
<1>3. CASE ask[a].st = "cachedPhrase"
  <2> DEFINE q == [ask[a] EXCEPT !.st = "generate", !.on = ask[a].on, !.chosen = NoSql, !.result = NoResult]
  <2>1. ask' = [ask EXCEPT ![a].st = "generate", ![a].chosen = NoSql, ![a].result = NoResult]
    BY <1>3 DEF ModelFails
  <2>2. ask' = [ask EXCEPT ![a] = q]
    BY <2>1, RequestType DEF Inv, Request
  <2>3. Sound(q)
    BY <1>3, GeneratesSound
  <2> HIDE DEF q
  <2> QED
    BY <1>1, <1>2, <2>2, <2>3, BecomesSound DEF Inv
<1>4. CASE ask[a].st # "cachedPhrase"
  BY <1>1, <1>2, <1>4, EndsSound, NoAnswerEarned DEF ModelFails, Done, Inv
<1> QED
  BY <1>3, <1>4

LEMMA ClearInv == ASSUME Inv, Clear PROVE Inv'
<1>1. /\ sqlTier' \in [Keys -> Sqls \cup {NoSql}] /\ \A k \in Keys : sqlTier'[k] = NoSql
      /\ answers' \in [Keys -> Answers] /\ \A k \in Keys : answers'[k] = NoAnswer
  BY NoAnswerEarned DEF Clear
<1>2. CachesSound'
  BY <1>1, NoAnswerEarned DEF CachesSound, CachedSqlRan
<1> QED
  BY <1>2, SourceSame DEF Clear, Inv

LEMMA ExpireInv == ASSUME Inv, NEW k \in Keys, Expire(k) PROVE Inv'
<1>1. CASE sqlTier' = [sqlTier EXCEPT ![k] = NoSql] /\ UNCHANGED <<sourceVars, ask, answers>>
  BY <1>1, SourceSame DEF Inv, CachesSound, CachedSqlRan
<1>2. CASE answers' = [answers EXCEPT ![k] = NoAnswer] /\ UNCHANGED <<sourceVars, ask, sqlTier>>
  BY <1>2, SourceSame, NoAnswerEarned DEF Inv, CachesSound, CachedSqlRan
<1> QED
  BY <1>1, <1>2 DEF Expire
-----------------------------------------------------------------------------
(* The theorems *)

LEMMA InitInv == Init => Inv
<1> SUFFICES ASSUME Init PROVE Inv
  OBVIOUS
<1>1. SourceTypeOK
  BY BoundsAssumption DEF Init, SourceInit, SourceTypeOK, Inode, Open, Load, RefreshRequest, Versions
<1>2. Sound(NewAsk("idle"))
  BY NewAskSound, NoAnswerEarned
<1>3. ask \in [Asks -> Request] /\ \A a \in Asks : Sound(ask[a])
  BY <1>2 DEF Init, Sound
<1>4. CachesSound
  BY NoAnswerEarned DEF Init, CachesSound, CachedSqlRan
<1> QED
  BY <1>1, <1>3, <1>4 DEF Inv

LEMMA NextInv == Inv /\ [Next]_vars => Inv'
<1> SUFFICES ASSUME Inv, [Next]_vars PROVE Inv'
  OBVIOUS
<1>1. CASE SourceStep(Used) /\ UNCHANGED askVars
  BY <1>1, SourceStepType, CachesSame DEF Inv, askVars
<1>2. ASSUME NEW a \in Asks, Ask(a) \/ AskStep(a) PROVE Inv'
  BY <1>2, AskInv, AwaitSchemaInv, SchemaLostInv, HashInv, ContextInv, AwaitQueryInv, RunCachedInv,
     EngineLostInv, GenerateInv, RefusedInv, WonInv, RoundFailsInv, RecheckInv, RecheckedInv,
     PhraseInv, ModelFailsInv DEF AskStep
<1>3. CASE Clear
  BY <1>3, ClearInv
<1>4. ASSUME NEW k \in Keys, Expire(k) PROVE Inv'
  BY <1>4, ExpireInv
<1>5. CASE UNCHANGED vars
  BY <1>5, CachesSame, SourceSame DEF vars, askVars, Inv
<1> QED
  BY <1>1, <1>2, <1>3, <1>4, <1>5 DEF Next

\* The invariant holds in every state: TypeCorrect, CachedSqlRanAlways and
\* AnswersEarnedAlways are its parts.
LEMMA InvAlways == Spec => []Inv
<1> QED
  BY InitInv, NextInv, PTL DEF Spec

(* Every variable of the ask pipeline and of the data it runs on keeps its   *)
(* type: the rounds of a request, in particular, stay within the repairs,    *)
(* the look a refusal is worth and one recheck, however many rounds fail.    *)
THEOREM TypeCorrect == Spec => []TypeOK
<1>1. Inv => TypeOK
  BY DEF Inv, CachesSound, TypeOK
<1> QED
  BY <1>1, InvAlways, PTL

(* setSql() is reached by SQL that ran only, for any models, candidates,     *)
(* repairs, faults and exchanges of the data meanwhile.                      *)
THEOREM CachedSqlRanAlways == Spec => []CachedSqlRan
<1>1. Inv => CachedSqlRan
  BY DEF Inv, CachesSound
<1> QED
  BY <1>1, InvAlways, PTL

(* No answer, and no cached one, is a refusal the smart tier did not give,   *)
(* and the SQL an answer shows is what its rows come from.                   *)
THEOREM AnswersEarnedAlways == Spec => []AnswersEarned
<1>1. Inv => AnswersEarned
  BY DEF Inv, CachesSound, Sound, Earned, AnswersEarned
<1> QED
  BY <1>1, InvAlways, PTL
-----------------------------------------------------------------------------
(* The data's side, under the requests *)

LEMMA SourceUntouched ==
    ASSUME Inv, DataInv, UNCHANGED <<mdf, inode, target, tmp, open, duck, load, loading, refresh>>
    PROVE  DataInv'
<1>1. FilesInv' /\ Back
  BY KeepsFiles DEF DataInv
<1>2. OneAtATime' => EngineInv'
  BY <1>1, SameServes DEF DataInv, Back, Inv
<1>3. OneAtATime' /\ NotReplaced' => ServeInv'
  BY <1>1, SameServes, EngineStepServes DEF DataInv, Back, Inv, ServeInv
<1> QED
  BY <1>1, <1>2, <1>3 DEF DataInv

LEMMA AwaitSchemaData == ASSUME Inv, DataInv, NEW a \in Asks, AwaitSchema(a) PROVE DataInv'
<1>1. PICK i \in Promises : Join(i) /\ UNCHANGED <<mdf, inode, target, tmp, open, duck, refresh>>
  BY DEF AwaitSchema
<1>2. FilesInv' /\ Back
  BY <1>1, KeepsFiles DEF DataInv
<1>3. OneAtATime' => EngineInv'
  BY <1>1, <1>2, SameServes DEF DataInv, Back, Inv
<1>4. ASSUME ServeInv PROVE ServeInv'
  <2>1. EngineInv' /\ OneLoad' /\ \A q \in RefreshRequest : AwaitedBy(q) => AwaitedBy(q)'
    BY <1>1, <1>4, JoinServes DEF Inv
  <2>2. \A r \in Refreshes : AwaitedBy(refresh[r])'
    BY <1>1, <1>4, <2>1, AllAwaited DEF ServeInv, Inv
  <2> QED
    BY <2>1, <2>2 DEF ServeInv, Awaited
<1> QED
  BY <1>2, <1>3, <1>4 DEF DataInv, Back

LEMMA AwaitQueryData == ASSUME Inv, DataInv, NEW a \in Asks, AwaitQuery(a) PROVE DataInv'
<1>1. PICK o \in Promises : Engine(o) /\ UNCHANGED <<mdf, target, tmp, load, loading, refresh>>
  BY DEF AwaitQuery
<1>2. FilesInv' /\ Back
  BY <1>1, EngineFiles DEF DataInv, Inv
<1>3. OneAtATime' => EngineInv'
  BY <1>1, <1>2, EngineServes DEF DataInv, Back, Inv
<1>4. ASSUME ServeInv, NotReplaced, OneAtATime' PROVE ServeInv'
  <2>1. EngineInv' /\ Forward /\ Steady
    BY <1>1, <1>4, EngineServes DEF DataInv, ServeInv, Inv
  <2> QED
    BY <1>1, <1>4, <2>1, EngineStepServes DEF Inv
<1> QED
  BY <1>2, <1>3, <1>4 DEF DataInv, Back

LEMMA DataNext == ASSUME Inv, DataInv, [Next]_vars PROVE DataInv'
<1>1. CASE SourceStep(Used)
  BY <1>1, SourceStepData DEF Inv
<1>2. ASSUME NEW a \in Asks, Ask(a) \/ AskStep(a) PROVE DataInv'
  <2>1. CASE AwaitSchema(a)
    BY <2>1, AwaitSchemaData
  <2>2. CASE AwaitQuery(a)
    BY <2>2, AwaitQueryData
  <2>3. CASE ModelFails(a)
    BY <2>3, SourceUntouched DEF ModelFails
  <2>4. CASE Ask(a) \/ SchemaLost(a) \/ Hash(a) \/ Context(a) \/ RunCached(a) \/ EngineLost(a) \/ Generate(a)
    BY <2>4, SourceUntouched DEF Ask, SchemaLost, Hash, Context, RunCached, EngineLost, Generate, sourceVars
  <2>5. CASE \/ Refused(a) \/ Won(a) \/ RoundFails(a) \/ Recheck(a) \/ Rechecked(a) \/ Phrase(a)
    BY <2>5, SourceUntouched DEF Refused, Won, RoundFails, Recheck, Rechecked, Phrase, sourceVars
  <2> QED
    BY <1>2, <2>1, <2>2, <2>3, <2>4, <2>5 DEF AskStep
<1>3. CASE Clear \/ \E k \in Keys : Expire(k)
  BY <1>3, SourceUntouched DEF Clear, Expire, sourceVars
<1>4. CASE UNCHANGED vars
  BY <1>4, SourceUntouched DEF vars, sourceVars
<1> QED
  BY <1>1, <1>2, <1>3, <1>4 DEF Next

LEMMA DataAlways == Spec => [](Inv /\ DataInv)
<1>1. Init => Inv /\ DataInv
  BY InitInv, DataInit DEF Init
<1>2. Inv /\ DataInv /\ [Next]_vars => (Inv /\ DataInv)'
  BY NextInv, DataNext
<1> QED
  BY <1>1, <1>2, PTL DEF Spec

(* However opens, refreshes, replacements and failures overlap, no engine    *)
(* reads a database of which its conversion, if it wrote alone, has not      *)
(* written the whole; and a rename never publishes part of it.               *)
THEOREM ServedWholeAlways == Spec => []ServedWhole
<1>1. Inv /\ DataInv => ServedWhole
  BY DEF DataInv, FilesInv, WholeFile, ServedWhole
<1> QED
  BY <1>1, DataAlways, PTL

(* For any replacements and failures, and any callers that join an open:     *)
(* while opens come one at a time, an engine that was opened is followed     *)
(* only by engines on the same data or newer, and a reload that failed goes  *)
(* on with the one before it, if nobody else awaited that reload.            *)
THEOREM KeepsServingAlways == Spec => []KeepsServing
<1>1. Inv /\ DataInv => KeepsServing
  BY Kept DEF DataInv, Inv
<1> QED
  BY <1>1, DataAlways, PTL

(* A refresh that succeeds, at whatever moment of opens, introspections and  *)
(* questions it was asked for, shows the schema of one version no older than *)
(* the .mdf then, unless a reload began during its introspection; and        *)
(* questions run on such data. Opens come one at a time for it, and no .mdf  *)
(* is replaced under its conversion.                                         *)
THEOREM RefreshShowsNewAlways == Spec => []RefreshShowsNew
<1>1. Inv /\ DataInv => RefreshShowsNew
  BY Shown DEF DataInv, Inv
<1> QED
  BY <1>1, DataAlways, PTL
=============================================================================
