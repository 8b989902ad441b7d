--------------------------- MODULE FrontEndProofs ---------------------------
(* Proofs about the machines of MCFrontEnds that are not proved about in a   *)
(* module of their own, each for every value of its own constants: the chat  *)
(* analyst, the report inbox, the voice composer, the phone's settings, the  *)
(* bench's list of saved runs, the price list, the bench's web page, the     *)
(* import of data files, the push devices, the phone's conversations and the *)
(* bench's playground.                                                       *)
(*                                                                           *)
(* The machines have nothing to do with each other, and every lemma and      *)
(* theorem is about one of them: a name that several declare below (calls,   *)
(* list, sent, Limit, Tokens) stands for the one of the machine whose        *)
(* section it is in.                                                         *)
EXTENDS Integers, Sequences, FiniteSets, TLAPS, SequenceTheorems, FiniteSetTheorems, NaturalsInduction

CONSTANTS MaxSteps, MaxQueries, MaxCalls, MaxAsks, MaxReports, MaxTime, Keep, Limit, Shown,
          Checks, MaxFaults, MaxStarts, MaxDrafts, MaxEnds, Urls, Keys, None, MaxSaves,
          MaxAttempts, MaxKills, Ids, Lists, MaxDay, Files, CasesOf, Tagged, First,
          Earlier, Cap, MaxModels, MaxSent, Imports, Processes, Tables, Computed, Tokens, Chunk,
          MaxPieces, Models, MaxPipelines, Questions, MaxEntries
VARIABLES step, turn, said, streamed, client, answer, calls, dbCalls, degraded, lacks, cache,
          asks, clock, createdAt, inbox, lastSeen, check, notified, start, faults, mic, starts,
          ends, take, on, long, finishing, draft, drafts, picking, busy, sent, dropped, ready,
          server, look, stored, writes, tests, attempt, loaded, lists, lost, saves, kills,
          status, active, recent, file, list, since, time, day, loadedAt, inflight, prices,
          lacking, failed, loads, form, usages, picker, play, source, job, temp, output, verdicts,
          devices, installed, known, reports, enrolled, seen, leftOut, pushFaults, hydrated,
          conversations, order, activeId, now, entries, cached, running

\* Before the phone's: its constant Settings is what the playground is asked with.
Bench == INSTANCE BenchPipelines WITH Settings <- Models
Analyst == INSTANCE AnalystChat
Inbox == INSTANCE ReportInbox
Voice == INSTANCE VoiceComposer
Settings == INSTANCE PhoneSettings
Saved == INSTANCE RunList
Prices == INSTANCE ModelPrices
Web == INSTANCE WebBench
Export == INSTANCE MdfExport
Push == INSTANCE PushDevices
Chats == INSTANCE ChatList
-----------------------------------------------------------------------------
(* query/analyst (AnalystChat): for any number of steps, queries, calls and  *)
(* questions, the client ends up with the answer and nothing else, and a     *)
(* stopgap answer is not cached.                                             *)
LEMMA AnalystCardinality == \A S : Analyst!Cardinality(S) = Cardinality(S)
BY DEF Cardinality, Analyst!Cardinality

Texts == Seq(0 .. MaxSteps + 1)

\* The calls that have a query of the budget.
Querying(cs) == {i \in DOMAIN cs : cs[i] \in {"run_sql", "column_values_query"}}

TextsTyped == /\ said \in Texts /\ streamed \in Texts /\ client \in Texts /\ answer \in Texts
              /\ cache \in [text : Texts, lacks : SUBSET Analyst!Lacks]
RunTyped == /\ step \in {"idle", "done", "failed"} \cup Analyst!UnderWay
            /\ turn \in 0 .. MaxSteps /\ asks \in 0 .. MaxAsks
            /\ degraded \in BOOLEAN /\ lacks \subseteq Analyst!Lacks
CallsTyped == /\ calls \in Seq(Analyst!CallStates) /\ Len(calls) <= MaxCalls
              /\ dbCalls \in 0 .. MaxQueries
              /\ Cardinality(Querying(calls)) <= dbCalls
AnalystTyped == TextsTyped /\ RunTyped /\ CallsTyped

(* While the agent runs, the client shows what was streamed and not          *)
(* withdrawn; a run that knows of no stopgap lacks nothing but the schema;   *)
(* and a cached answer has a text.                                           *)
InStep == step \in Analyst!UnderWay => client = streamed
Honest == degraded = FALSE => lacks \subseteq {"schema"}
CachedText == cache # Analyst!NoAnswer => cache.text # <<>>

AnalystInv == AnalystTyped /\ InStep /\ Honest /\ CachedText /\ Analyst!ClientSeesAnswer /\ Analyst!StopgapNotCached

LEMMA AnalystBounds ==
    Analyst!BoundsAssumption => /\ MaxSteps \in Nat \ {0} /\ MaxQueries \in Nat \ {0}
                                /\ MaxCalls \in Nat \ {0} /\ MaxAsks \in Nat \ {0}
BY DEF Analyst!BoundsAssumption

LEMMA NoCalls == <<>> \in Seq(Analyst!CallStates) /\ Len(<<>>) = 0 /\ Cardinality(Querying(<<>>)) = 0
<1>1. Querying(<<>>) = {}
  BY DEF Querying
<1> QED
  BY <1>1, FS_EmptySet

LEMMA TypedIsType == AnalystTyped => Analyst!TypeOK
<1> SUFFICES ASSUME AnalystTyped PROVE Analyst!TypeOK
  OBVIOUS
<1>1. /\ {said, streamed, client, answer, cache.text} \subseteq Seq(0 .. Analyst!LastTurn)
      /\ cache.lacks \subseteq Analyst!Lacks
  BY DEF AnalystTyped, TextsTyped, Texts, Analyst!LastTurn
<1>2. /\ calls \in Seq(Analyst!CallStates) /\ Len(calls) <= MaxCalls
      /\ dbCalls \in 0 .. MaxQueries
      /\ Cardinality({i \in DOMAIN calls : calls[i] \in {"run_sql", "column_values_query"}}) <= dbCalls
  BY DEF AnalystTyped, CallsTyped, Querying
<1> QED
  BY <1>1, <1>2, AnalystCardinality DEF AnalystTyped, RunTyped, Analyst!TypeOK

\* A nonempty set of numbers up to n has a greatest one.
LEMMA Greatest ==
    ASSUME NEW n \in Nat, NEW S \in SUBSET (1 .. n), S # {}
    PROVE  \E i \in S : \A j \in S : j <= i
<1> DEFINE U == {k \in Nat : \A j \in S : j <= k}
<1>1. n \in U /\ U \subseteq Nat
  OBVIOUS
<1>2. PICK k \in U : \A l \in U : ~(<<l, k>> \in OpToRel(<, Nat))
  BY <1>1, NatLessThanWellFounded, WFMin
<1>3. \A l \in U : ~(l < k)
  BY <1>1, <1>2 DEF OpToRel
<1>4. k \in S
  <2> SUFFICES ASSUME k \notin S PROVE FALSE
    OBVIOUS
  <2>1. \A j \in S : j \in Nat /\ 1 <= j /\ j <= k /\ j # k
    OBVIOUS
  <2>2. k \in Nat /\ k - 1 \in Nat
    <3>1. k \in Nat
      BY <1>2
    <3>2. PICK j \in S : TRUE
      OBVIOUS
    <3> QED
      BY <2>1, <3>1, <3>2
  <2>3. k - 1 \in U
    BY <2>1, <2>2
  <2> QED
    BY <1>3, <2>2, <2>3
<1> QED
  BY <1>4

(* The budget: a query is granted only while the queries before it and it    *)
(* are within what is left, so what is granted is within what is left.       *)
LEMMA BudgetKept ==
    ASSUME NEW n \in Nat, NEW sql \in SUBSET (1 .. n), NEW d \in Nat, NEW m \in Nat, d <= m
    PROVE  LET granted == {i \in sql : d + Cardinality({j \in sql : j <= i}) <= m}
           IN  Cardinality(granted) \in Nat /\ d + Cardinality(granted) <= m
<1> DEFINE granted == {i \in sql : d + Cardinality({j \in sql : j <= i}) <= m}
<1>0. IsFiniteSet(1 .. n)
  BY FS_Interval
<1>1. IsFiniteSet(1 .. n) /\ granted \subseteq 1 .. n
  BY <1>0
<1>2. IsFiniteSet(granted) /\ Cardinality(granted) \in Nat
  BY <1>1, FS_Subset, FS_CardinalityType
<1>3. CASE granted = {}
  <2>1. Cardinality(granted) = 0
    BY <1>3, FS_EmptySet
  <2>2. Cardinality(granted) \in Nat /\ d + Cardinality(granted) <= m
    <3> HIDE DEF granted
    <3> QED
      BY <2>1
  <2> QED
    BY <2>2
<1>4. CASE granted # {}
  <2>1. PICK i \in granted : \A j \in granted : j <= i
    BY <1>1, <1>4, Greatest
  <2> DEFINE upto == {j \in sql : j <= i}
  <2>2. upto \subseteq 1 .. n /\ granted \subseteq upto
    BY <2>1
  <2>3. IsFiniteSet(upto) /\ Cardinality(upto) \in Nat /\ Cardinality(granted) <= Cardinality(upto)
    BY <1>1, <2>2, FS_Subset, FS_CardinalityType
  <2>4. d + Cardinality(upto) <= m
    OBVIOUS
  <2> QED
    BY <1>2, <2>3, <2>4
<1> QED
  BY <1>2, <1>3, <1>4

LEMMA AnalystInit == Analyst!BoundsAssumption /\ Analyst!Init => AnalystInv
<1> SUFFICES ASSUME Analyst!BoundsAssumption, Analyst!Init PROVE AnalystInv
  OBVIOUS
<1>1. <<>> \in Texts
  BY DEF Texts
<1>2. TextsTyped
  BY <1>1 DEF Analyst!Init, TextsTyped, Analyst!NoAnswer
<1>3. RunTyped
  <2>1. 0 \in 0 .. MaxSteps /\ 0 \in 0 .. MaxAsks
    BY AnalystBounds
  <2> QED
    BY <2>1 DEF Analyst!Init, RunTyped
<1>4. CallsTyped
  BY AnalystBounds, NoCalls DEF Analyst!Init, CallsTyped
<1>5. InStep /\ Honest /\ CachedText /\ Analyst!ClientSeesAnswer /\ Analyst!StopgapNotCached
  BY DEF Analyst!Init, Analyst!UnderWay, InStep, Honest, CachedText, Analyst!ClientSeesAnswer, Analyst!StopgapNotCached, Analyst!NoAnswer
<1> QED
  BY <1>2, <1>3, <1>4, <1>5 DEF AnalystInv, AnalystTyped

LEMMA FewQuerying == ASSUME NEW T, NEW cs \in Seq(T) PROVE IsFiniteSet(Querying(cs))
<1>1. Len(cs) \in Int /\ 1 \in Int /\ Querying(cs) \subseteq 1 .. Len(cs)
  BY DEF Querying
<1>2. IsFiniteSet(1 .. Len(cs))
  BY <1>1, FS_Interval
<1> QED
  BY <1>1, <1>2, FS_Subset

\* Tools that return only free queries of the budget.
LEMMA CallReturns ==
    ASSUME AnalystTyped, NEW i \in DOMAIN calls, calls' = [calls EXCEPT ![i] = "returned"]
    PROVE  /\ calls' \in Seq(Analyst!CallStates) /\ Len(calls') <= MaxCalls
           /\ Cardinality(Querying(calls')) <= dbCalls
<1>1. /\ calls \in Seq(Analyst!CallStates) /\ Len(calls) <= MaxCalls /\ dbCalls \in Nat
      /\ Cardinality(Querying(calls)) <= dbCalls
  BY DEF AnalystTyped, CallsTyped
<1>2. calls' \in Seq(Analyst!CallStates) /\ Len(calls') = Len(calls) /\ DOMAIN calls' = DOMAIN calls
  BY <1>1 DEF Analyst!CallStates
<1>3. Querying(calls') \subseteq Querying(calls)
  BY <1>1, <1>2 DEF Querying
<1>4. IsFiniteSet(Querying(calls))
  BY <1>1, FewQuerying
<1>5. Cardinality(Querying(calls')) <= Cardinality(Querying(calls)) /\ Cardinality(Querying(calls')) \in Nat
      /\ Cardinality(Querying(calls)) \in Nat
  BY <1>3, <1>4, FS_Subset, FS_CardinalityType
<1> QED
  BY <1>1, <1>2, <1>5

\* column_values takes a query for itself.
LEMMA CallLooks ==
    ASSUME AnalystTyped, NEW i \in DOMAIN calls, calls[i] = "column_values",
           calls' = [calls EXCEPT ![i] = "column_values_query"]
    PROVE  /\ calls' \in Seq(Analyst!CallStates) /\ Len(calls') <= MaxCalls
           /\ Cardinality(Querying(calls')) <= dbCalls + 1
<1>1. /\ calls \in Seq(Analyst!CallStates) /\ Len(calls) <= MaxCalls /\ dbCalls \in Nat
      /\ Cardinality(Querying(calls)) <= dbCalls
  BY DEF AnalystTyped, CallsTyped
<1>2. calls' \in Seq(Analyst!CallStates) /\ Len(calls') = Len(calls) /\ DOMAIN calls' = DOMAIN calls
  BY <1>1 DEF Analyst!CallStates
<1>3. Querying(calls') = Querying(calls) \cup {i} /\ i \notin Querying(calls)
  BY <1>1, <1>2 DEF Querying
<1>4. IsFiniteSet(Querying(calls))
  BY <1>1, FewQuerying
<1>5. Cardinality(Querying(calls')) = Cardinality(Querying(calls)) + 1 /\ Cardinality(Querying(calls)) \in Nat
  BY <1>3, <1>4, FS_AddElement, FS_CardinalityType
<1> QED
  BY <1>1, <1>2, <1>5

\* A turn's calls are granted what is left of the budget.
LEMMA CallsStart ==
    ASSUME Analyst!BoundsAssumption, AnalystInv, Analyst!CallTools
    PROVE  CallsTyped'
<1>1. PICK n \in 1 .. MaxCalls : \E wanted \in [1 .. n -> {"run_sql", "column_values", "schema"}] :
          LET sql == {i \in 1 .. n : wanted[i] = "run_sql"}
              granted == {i \in sql : dbCalls + Analyst!Cardinality({j \in sql : j <= i}) <= MaxQueries}
          IN  /\ calls' = [i \in 1 .. n |-> IF i \in sql \ granted THEN "returned" ELSE wanted[i]]
              /\ dbCalls' = dbCalls + Analyst!Cardinality(granted)
  BY DEF Analyst!CallTools, Analyst!Granted
<1>2. PICK wanted \in [1 .. n -> {"run_sql", "column_values", "schema"}] :
          LET sql == {i \in 1 .. n : wanted[i] = "run_sql"}
              granted == {i \in sql : dbCalls + Analyst!Cardinality({j \in sql : j <= i}) <= MaxQueries}
          IN  /\ calls' = [i \in 1 .. n |-> IF i \in sql \ granted THEN "returned" ELSE wanted[i]]
              /\ dbCalls' = dbCalls + Analyst!Cardinality(granted)
  BY <1>1
<1> DEFINE sql == {i \in 1 .. n : wanted[i] = "run_sql"}
           granted == {i \in sql : dbCalls + Cardinality({j \in sql : j <= i}) <= MaxQueries}
<1>3. /\ calls' = [i \in 1 .. n |-> IF i \in sql \ granted THEN "returned" ELSE wanted[i]]
      /\ dbCalls' = dbCalls + Cardinality(granted)
  <2>1. granted = {i \in sql : dbCalls + Analyst!Cardinality({j \in sql : j <= i}) <= MaxQueries}
    BY AnalystCardinality
  <2> QED
    BY <1>2, <2>1, AnalystCardinality
<1>4. /\ n \in Nat /\ n <= MaxCalls /\ dbCalls \in Nat /\ MaxQueries \in Nat /\ dbCalls <= MaxQueries
      /\ sql \in SUBSET (1 .. n)
  BY AnalystBounds DEF AnalystInv, AnalystTyped, CallsTyped
<1> HIDE DEF sql
<1>5. Cardinality(granted) \in Nat /\ dbCalls + Cardinality(granted) <= MaxQueries
  BY <1>4, BudgetKept
<1>6. granted \subseteq sql
  OBVIOUS
<1> HIDE DEF granted
<1>7. calls' \in Seq(Analyst!CallStates) /\ Len(calls') = n /\ DOMAIN calls' = 1 .. n
  BY <1>3, <1>4 DEF Analyst!CallStates
<1>8. Querying(calls') = granted
  <2>1. \A i \in 1 .. n : wanted[i] \in {"run_sql", "column_values", "schema"} /\ (i \in sql <=> wanted[i] = "run_sql")
    BY DEF sql
  <2>2. \A i \in 1 .. n : calls'[i] \in {"run_sql", "column_values_query"} <=> i \in granted
    BY <1>3, <1>6, <2>1
  <2> QED
    BY <1>4, <1>6, <1>7, <2>2 DEF Querying
<1> QED
  BY <1>3, <1>4, <1>5, <1>7, <1>8 DEF CallsTyped
-----------------------------------------------------------------------------
(* The steps of a question *)

\* What an empty sequence behind or before a text adds.
LEMMA EmptyText ==
    ASSUME Analyst!BoundsAssumption
    PROVE  /\ <<>> \in Texts /\ Analyst!Phrase \in Texts /\ Analyst!Phrase # <<>>
           /\ \A s \in Texts : <<>> \o s = s
           /\ \A s, t \in Texts : s \o t \in Texts
<1>1. 0 \in 0 .. MaxSteps + 1
  BY AnalystBounds
<1>2. <<>> \in Texts /\ Analyst!Phrase \in Texts /\ Analyst!Phrase # <<>>
  BY <1>1 DEF Texts, Analyst!Phrase
<1>3. ASSUME NEW s \in Texts, NEW t \in Texts PROVE s \o t \in Texts
  BY DEF Texts
<1>4. ASSUME NEW s \in Texts PROVE <<>> \o s = s
  BY EmptySeq, ConcatEmptySeq DEF Texts
<1> QED
  BY <1>2, <1>3, <1>4

LEMMA MissesStep ==
    ASSUME RunTyped, Honest, NEW reasons \in SUBSET Analyst!Lacks, Analyst!Misses(reasons)
    PROVE  degraded' \in BOOLEAN /\ lacks' \subseteq Analyst!Lacks /\ Honest'
BY DEF RunTyped, Honest, Analyst!Misses, Analyst!Stopgaps, Analyst!Lacks

\* The response, as the client shows it and as it is cached.
LEMMA AnswersStep ==
    ASSUME Analyst!BoundsAssumption, AnalystInv, step \in Analyst!UnderWay,
           NEW final \in Texts, NEW reasons \in SUBSET Analyst!Lacks, Analyst!Answers(final, reasons)
    PROVE  AnalystInv'
<1>1. /\ step' = "done"
      /\ cache' = IF degraded' THEN cache ELSE [text |-> answer', lacks |-> lacks']
      /\ UNCHANGED <<turn, said, streamed, calls, dbCalls, asks>>
      /\ client = streamed /\ client \in Texts /\ streamed \in Texts
  BY DEF Analyst!Answers, AnalystInv, InStep, AnalystTyped, TextsTyped
<1>2. client' = answer' /\ answer' # <<>> /\ answer' \in Texts
  <2>1. CASE final # <<>>
    <3>1. answer' = final
          /\ client' = CASE final = streamed -> client
                       [] final # streamed /\ streamed # <<>> -> final
                       [] OTHER -> client \o final
      BY <2>1 DEF Analyst!Answers, Analyst!Reconcile
    <3> QED
      BY <1>1, <2>1, <3>1, EmptyText
  <2>2. CASE final = <<>>
    <3>1. answer' = Analyst!Phrase
          /\ client' = IF streamed = <<>> THEN client \o Analyst!Phrase ELSE Analyst!Phrase
      BY <2>2 DEF Analyst!Answers
    <3> QED
      BY <1>1, <3>1, EmptyText
  <2> QED
    BY <2>1, <2>2
<1>3. degraded' \in BOOLEAN /\ lacks' \subseteq Analyst!Lacks /\ Honest'
  <2>1. CASE final # <<>>
    <3>1. Analyst!Misses(reasons)
      BY <2>1 DEF Analyst!Answers
    <3> QED
      BY <3>1, MissesStep DEF AnalystInv, AnalystTyped
  <2>2. CASE final = <<>>
    <3>1. Analyst!Misses(reasons \cup {"text"}) /\ reasons \cup {"text"} \in SUBSET Analyst!Lacks
      BY <2>2 DEF Analyst!Answers, Analyst!Lacks
    <3> QED
      BY <3>1, MissesStep DEF AnalystInv, AnalystTyped
  <2> QED
    BY <2>1, <2>2
<1>4. /\ cache' \in [text : Texts, lacks : SUBSET Analyst!Lacks]
      /\ cache'.lacks \subseteq {"schema"}
      /\ cache' # Analyst!NoAnswer => cache'.text # <<>>
  BY <1>1, <1>2, <1>3 DEF AnalystInv, AnalystTyped, TextsTyped, CachedText, Honest, Analyst!StopgapNotCached
<1>5. AnalystTyped'
  BY <1>1, <1>2, <1>3, <1>4 DEF AnalystInv, AnalystTyped, TextsTyped, RunTyped, CallsTyped, Querying
<1> QED
  BY <1>1, <1>2, <1>3, <1>4, <1>5 DEF AnalystInv, InStep, Honest, CachedText, Analyst!UnderWay,
     Analyst!ClientSeesAnswer, Analyst!StopgapNotCached

LEMMA AnalystAsks ==
    ASSUME Analyst!BoundsAssumption, AnalystInv, Analyst!Ask
    PROVE  AnalystInv'
<1>1. /\ client' = cache.text /\ answer' = cache.text /\ cache' = cache /\ asks' \in 0 .. MaxAsks
      /\ \/ cache = Analyst!NoAnswer /\ step' = "turn" /\ turn' = 1
         \/ cache # Analyst!NoAnswer /\ step' = "done" /\ turn' = 0
      /\ said' = <<>> /\ streamed' = <<>> /\ calls' = <<>>
      /\ dbCalls' = 0 /\ degraded' = FALSE /\ lacks' = {}
  <2>1. asks' \in 0 .. MaxAsks
    BY AnalystBounds DEF Analyst!Ask, AnalystInv, AnalystTyped, RunTyped
  <2> QED
    BY <2>1 DEF Analyst!Ask, Analyst!NewRun
<1>2. cache = Analyst!NoAnswer => cache.text = <<>>
  BY DEF Analyst!NoAnswer
<1>3. AnalystTyped'
  <2>1. TextsTyped'
    BY <1>1, EmptyText DEF AnalystInv, AnalystTyped, TextsTyped
  <2>2. RunTyped'
    <3>1. 1 \in 0 .. MaxSteps /\ 0 \in 0 .. MaxSteps
      BY AnalystBounds
    <3> QED
      BY <1>1, <3>1 DEF RunTyped, Analyst!UnderWay
  <2>3. CallsTyped'
    BY <1>1, AnalystBounds, NoCalls DEF CallsTyped
  <2> QED
    BY <2>1, <2>2, <2>3 DEF AnalystTyped
<1>4. InStep' /\ Honest' /\ CachedText' /\ Analyst!StopgapNotCached'
  BY <1>1, <1>2 DEF AnalystInv, InStep, Honest, CachedText, Analyst!UnderWay, Analyst!StopgapNotCached
<1>5. Analyst!ClientSeesAnswer'
  BY <1>1 DEF AnalystInv, CachedText, Analyst!ClientSeesAnswer
<1> QED
  BY <1>3, <1>4, <1>5 DEF AnalystInv

\* Steps that end no run and cache nothing.
LEMMA AnalystRuns ==
    ASSUME Analyst!BoundsAssumption, AnalystInv,
           step \in Analyst!UnderWay, step' \in Analyst!UnderWay, answer' = answer, cache' = cache, asks' = asks,
           said' \in Texts, streamed' \in Texts, client' = streamed', turn' \in 0 .. MaxSteps,
           degraded' \in BOOLEAN /\ lacks' \subseteq Analyst!Lacks /\ Honest', CallsTyped'
    PROVE  AnalystInv'
<1>1. TextsTyped' /\ RunTyped'
  BY DEF AnalystInv, AnalystTyped, TextsTyped, RunTyped
<1>2. InStep' /\ CachedText' /\ Analyst!StopgapNotCached'
  BY DEF AnalystInv, InStep, CachedText, Analyst!StopgapNotCached
<1>3. Analyst!ClientSeesAnswer'
  BY DEF Analyst!ClientSeesAnswer, Analyst!UnderWay
<1> QED
  BY <1>1, <1>2, <1>3 DEF AnalystInv, AnalystTyped

\* One of a turn's calls: its text and its place among the turns stay.
LEMMA AnalystCalls ==
    ASSUME Analyst!BoundsAssumption, AnalystInv, step = "tools",
           UNCHANGED <<step, turn, said, streamed, client, answer, cache, asks>>,
           degraded' \in BOOLEAN /\ lacks' \subseteq Analyst!Lacks /\ Honest', CallsTyped'
    PROVE  AnalystInv'
<1>1. /\ step \in Analyst!UnderWay /\ step' \in Analyst!UnderWay /\ client' = streamed'
      /\ said' \in Texts /\ streamed' \in Texts /\ turn' \in 0 .. MaxSteps
  BY DEF AnalystInv, InStep, AnalystTyped, TextsTyped, RunTyped, Analyst!UnderWay
<1> QED
  BY <1>1, AnalystRuns

\* What keeps the run's knowledge as it is.
LEMMA KnowsAsBefore ==
    ASSUME AnalystInv, UNCHANGED <<degraded, lacks>>
    PROVE  degraded' \in BOOLEAN /\ lacks' \subseteq Analyst!Lacks /\ Honest'
BY DEF AnalystInv, AnalystTyped, RunTyped, Honest

LEMMA CallsAsBefore ==
    ASSUME AnalystInv, UNCHANGED <<calls, dbCalls>>
    PROVE  CallsTyped'
BY DEF AnalystInv, AnalystTyped, CallsTyped, Querying

LEMMA AnalystDeltas ==
    ASSUME Analyst!BoundsAssumption, AnalystInv, Analyst!Delta
    PROVE  AnalystInv'
<1>1. /\ step \in Analyst!UnderWay /\ step' \in Analyst!UnderWay
      /\ said' = Append(said, turn) /\ streamed' = Append(streamed, turn) /\ client' = Append(client, turn)
      /\ UNCHANGED <<turn, calls, dbCalls, degraded, lacks, answer, cache, asks>>
  BY DEF Analyst!Delta, Analyst!UnderWay
<1>2. turn \in 0 .. MaxSteps /\ turn \in 0 .. MaxSteps + 1
  BY AnalystBounds DEF AnalystInv, AnalystTyped, RunTyped
<1>3. said' \in Texts /\ streamed' \in Texts /\ client' = streamed'
  BY <1>1, <1>2 DEF AnalystInv, InStep, AnalystTyped, TextsTyped, Texts
<1> QED
  BY <1>1, <1>2, <1>3, KnowsAsBefore, CallsAsBefore, AnalystRuns

LEMMA AnalystCallsTools ==
    ASSUME Analyst!BoundsAssumption, AnalystInv, Analyst!CallTools
    PROVE  AnalystInv'
<1>1. CallsTyped'
  BY CallsStart
<1>2. /\ step \in Analyst!UnderWay /\ step' \in Analyst!UnderWay
      /\ streamed' = <<>> /\ client' = (IF streamed = <<>> THEN client ELSE <<>>)
      /\ UNCHANGED <<turn, said, answer, cache, asks>>
  BY DEF Analyst!CallTools, Analyst!UnderWay
<1>3. said' \in Texts /\ streamed' \in Texts /\ client' = streamed' /\ turn' \in 0 .. MaxSteps
  BY <1>2, EmptyText DEF AnalystInv, InStep, AnalystTyped, TextsTyped, RunTyped
<1>4. degraded' \in BOOLEAN /\ lacks' \subseteq Analyst!Lacks /\ Honest'
  <2>1. PICK reasons \in SUBSET Analyst!Lacks : Analyst!Misses(reasons)
    <3>1. Analyst!Misses({}) \/ Analyst!Misses({"budget"})
      BY DEF Analyst!CallTools
    <3> QED
      BY <3>1 DEF Analyst!Lacks
  <2> QED
    BY <2>1, MissesStep DEF AnalystInv, AnalystTyped
<1> QED
  BY <1>1, <1>2, <1>3, <1>4, AnalystRuns

LEMMA AnalystReturns ==
    ASSUME Analyst!BoundsAssumption, AnalystInv, step = "tools", NEW i \in DOMAIN calls, Analyst!Returns(i), dbCalls' = dbCalls,
           degraded' \in BOOLEAN /\ lacks' \subseteq Analyst!Lacks /\ Honest'
    PROVE  AnalystInv'
<1>1. /\ calls' = [calls EXCEPT ![i] = "returned"]
      /\ UNCHANGED <<step, turn, said, streamed, client, answer, cache, asks>>
  BY DEF Analyst!Returns
<1>2. CallsTyped'
  <2>1. /\ calls' \in Seq(Analyst!CallStates) /\ Len(calls') <= MaxCalls
        /\ Cardinality(Querying(calls')) <= dbCalls
    BY <1>1, CallReturns DEF AnalystInv
  <2> QED
    BY <2>1 DEF AnalystInv, AnalystTyped, CallsTyped
<1> QED
  BY <1>1, <1>2, AnalystCalls

LEMMA AnalystLooks ==
    ASSUME Analyst!BoundsAssumption, AnalystInv, NEW i \in DOMAIN calls, Analyst!Look(i)
    PROVE  AnalystInv'
<1>1. step = "tools" /\ calls[i] = "column_values"
  BY DEF Analyst!Look
<1>2. CASE /\ dbCalls < MaxQueries /\ dbCalls' = dbCalls + 1
           /\ calls' = [calls EXCEPT ![i] = "column_values_query"]
           /\ UNCHANGED <<step, turn, said, streamed, client, answer, cache, asks, degraded, lacks>>
  <2>1. /\ calls' \in Seq(Analyst!CallStates) /\ Len(calls') <= MaxCalls
        /\ Cardinality(Querying(calls')) <= dbCalls + 1
    BY <1>1, <1>2, CallLooks DEF AnalystInv
  <2>2. dbCalls' \in 0 .. MaxQueries
    BY <1>2, AnalystBounds DEF AnalystInv, AnalystTyped, CallsTyped
  <2>3. CallsTyped'
    BY <1>2, <2>1, <2>2 DEF CallsTyped
  <2> QED
    BY <1>1, <1>2, <2>3, KnowsAsBefore, AnalystCalls
<1>3. CASE Analyst!Misses({"budget"}) /\ Analyst!Returns(i) /\ UNCHANGED dbCalls
  <2>1. {"budget"} \in SUBSET Analyst!Lacks
    BY DEF Analyst!Lacks
  <2> QED
    BY <1>1, <1>3, <2>1, MissesStep, AnalystReturns DEF AnalystInv, AnalystTyped
<1> QED
  BY <1>2, <1>3 DEF Analyst!Look

LEMMA AnalystTurns ==
    ASSUME Analyst!BoundsAssumption, AnalystInv, Analyst!NextTurn
    PROVE  AnalystInv'
<1>1. /\ step = "tools" /\ step \in Analyst!UnderWay /\ step' \in Analyst!UnderWay
      /\ calls' = <<>> /\ said' = <<>>
      /\ UNCHANGED <<streamed, dbCalls, degraded, lacks, client, answer, cache, asks>>
  BY DEF Analyst!NextTurn, Analyst!UnderWay
<1>2. turn' \in 0 .. MaxSteps
  BY AnalystBounds DEF Analyst!NextTurn, AnalystInv, AnalystTyped, RunTyped
<1>3. said' \in Texts /\ streamed' \in Texts /\ client' = streamed'
  BY <1>1, EmptyText DEF AnalystInv, InStep, AnalystTyped, TextsTyped
<1>4. CallsTyped'
  BY <1>1, NoCalls, AnalystBounds DEF AnalystInv, AnalystTyped, CallsTyped
<1> QED
  BY <1>1, <1>2, <1>3, <1>4, KnowsAsBefore, AnalystRuns

LEMMA AnalystFinishes ==
    ASSUME Analyst!BoundsAssumption, AnalystInv, Analyst!Finish \/ Analyst!FinishSpent
    PROVE  AnalystInv'
<1>1. CASE Analyst!Finish
  <2>1. said \in Texts /\ {} \in SUBSET Analyst!Lacks /\ step \in Analyst!UnderWay /\ Analyst!Answers(said, {})
    BY <1>1 DEF Analyst!Finish, Analyst!UnderWay, AnalystInv, AnalystTyped, TextsTyped
  <2> QED
    BY <2>1, AnswersStep
<1>2. CASE Analyst!FinishSpent
  <2>1. PICK final \in {<<>>, <<Analyst!LastTurn>>} : Analyst!Answers(final, {"steps"})
    BY <1>2 DEF Analyst!FinishSpent
  <2>2. MaxSteps + 1 \in 0 .. MaxSteps + 1
    BY AnalystBounds
  <2>3. <<MaxSteps + 1>> \in Texts
    BY <2>2 DEF Texts
  <2>4. final \in Texts
    BY <2>1, <2>3, EmptyText DEF Analyst!LastTurn
  <2>5. {"steps"} \in SUBSET Analyst!Lacks /\ step \in Analyst!UnderWay
    BY <1>2 DEF Analyst!FinishSpent, Analyst!UnderWay, Analyst!Lacks
  <2> QED
    BY <2>1, <2>4, <2>5, AnswersStep
<1> QED
  BY <1>1, <1>2

LEMMA AnalystFails ==
    ASSUME Analyst!BoundsAssumption, AnalystInv, Analyst!Fail
    PROVE  AnalystInv'
<1>1. /\ step' = "failed" /\ turn' = 0 /\ said' = <<>> /\ streamed' = <<>> /\ calls' = <<>>
      /\ dbCalls' = 0 /\ degraded' = FALSE /\ lacks' = {} /\ client' = <<>>
      /\ UNCHANGED <<answer, cache, asks>>
  BY DEF Analyst!Fail, Analyst!NewRun
<1>2. TextsTyped'
  BY <1>1, EmptyText DEF AnalystInv, AnalystTyped, TextsTyped
<1>3. RunTyped'
  <2>1. 0 \in 0 .. MaxSteps
    BY AnalystBounds
  <2> QED
    BY <1>1, <2>1 DEF AnalystInv, AnalystTyped, RunTyped
<1>4. CallsTyped'
  BY <1>1, AnalystBounds, NoCalls DEF CallsTyped
<1>5. InStep' /\ Honest' /\ CachedText' /\ Analyst!ClientSeesAnswer' /\ Analyst!StopgapNotCached'
  BY <1>1 DEF AnalystInv, InStep, Honest, CachedText, Analyst!UnderWay, Analyst!ClientSeesAnswer, Analyst!StopgapNotCached
<1> QED
  BY <1>2, <1>3, <1>4, <1>5 DEF AnalystInv, AnalystTyped

LEMMA AnalystExpires ==
    ASSUME Analyst!BoundsAssumption, AnalystInv, Analyst!Expire
    PROVE  AnalystInv'
<1>1. cache' = Analyst!NoAnswer /\ UNCHANGED <<step, Analyst!run, client, answer, asks>>
  BY DEF Analyst!Expire
<1>2. AnalystTyped'
  BY <1>1, EmptyText DEF AnalystInv, AnalystTyped, TextsTyped, RunTyped, CallsTyped, Querying, Analyst!NoAnswer, Analyst!run
<1>3. InStep' /\ Honest' /\ CachedText' /\ Analyst!ClientSeesAnswer' /\ Analyst!StopgapNotCached'
  BY <1>1 DEF AnalystInv, InStep, Honest, CachedText, Analyst!UnderWay, Analyst!ClientSeesAnswer, Analyst!StopgapNotCached, Analyst!NoAnswer, Analyst!run
<1> QED
  BY <1>2, <1>3 DEF AnalystInv

LEMMA AnalystNext ==
    ASSUME Analyst!BoundsAssumption, AnalystInv, [Analyst!Next]_(Analyst!vars)
    PROVE  AnalystInv'
<1>1. CASE Analyst!Ask
  BY <1>1, AnalystAsks
<1>2. CASE Analyst!Expire
  BY <1>2, AnalystExpires
<1>3. CASE Analyst!Delta
  BY <1>3, AnalystDeltas
<1>4. CASE Analyst!Finish \/ Analyst!FinishSpent
  BY <1>4, AnalystFinishes
<1>5. CASE Analyst!CallTools
  BY <1>5, AnalystCallsTools
<1>6. CASE Analyst!NextTurn
  BY <1>6, AnalystTurns
<1>7. CASE Analyst!Fail
  BY <1>7, AnalystFails
<1>8. ASSUME NEW i \in DOMAIN calls, Analyst!Look(i) \/ Analyst!Return(i) \/ Analyst!DatabaseDown(i) \/ Analyst!SchemaDown(i)
      PROVE  AnalystInv'
  <2>1. CASE Analyst!Look(i)
    BY <2>1, AnalystLooks
  <2>2. CASE Analyst!Return(i)
    BY <2>2, KnowsAsBefore, AnalystReturns DEF Analyst!Return
  <2>3. CASE Analyst!DatabaseDown(i)
    <3>1. {"database"} \in SUBSET Analyst!Lacks
      BY DEF Analyst!Lacks
    <3>2. step = "tools" /\ Analyst!Misses({"database"}) /\ Analyst!Returns(i) /\ UNCHANGED dbCalls
      BY <2>3 DEF Analyst!DatabaseDown
    <3> QED
      BY <3>1, <3>2, MissesStep, AnalystReturns DEF AnalystInv, AnalystTyped
  <2>4. CASE Analyst!SchemaDown(i)
    <3>1. {"schema"} \in SUBSET Analyst!Lacks
      BY DEF Analyst!Lacks
    <3>2. step = "tools" /\ Analyst!Misses({"schema"}) /\ Analyst!Returns(i) /\ UNCHANGED dbCalls
      BY <2>4 DEF Analyst!SchemaDown
    <3> QED
      BY <3>1, <3>2, MissesStep, AnalystReturns DEF AnalystInv, AnalystTyped
  <2> QED
    BY <1>8, <2>1, <2>2, <2>3, <2>4
<1>9. CASE UNCHANGED Analyst!vars
  BY <1>9 DEF Analyst!vars, Analyst!run, AnalystInv, AnalystTyped, TextsTyped, RunTyped, CallsTyped, Querying,
     InStep, Honest, CachedText, Analyst!ClientSeesAnswer, Analyst!StopgapNotCached
<1> QED
  BY <1>1, <1>2, <1>3, <1>4, <1>5, <1>6, <1>7, <1>8, <1>9 DEF Analyst!Next, Analyst!RunStep

LEMMA AnalystInvHolds == Analyst!BoundsAssumption => (Analyst!Spec => []AnalystInv)
<1> SUFFICES ASSUME Analyst!BoundsAssumption PROVE Analyst!Spec => []AnalystInv
  OBVIOUS
<1>1. Analyst!Init => AnalystInv
  BY AnalystInit
<1>2. AnalystInv /\ [Analyst!Next]_(Analyst!vars) => AnalystInv'
  BY AnalystNext
<1> QED
  BY <1>1, <1>2, PTL DEF Analyst!Spec
-----------------------------------------------------------------------------
(* The state has its type; above all, the run stays within its queries, and  *)
(* every call that has one of them has paid for it.                          *)
THEOREM TypeCorrect == ASSUME Analyst!BoundsAssumption PROVE Analyst!Spec => []Analyst!TypeOK
<1>1. AnalystInv => Analyst!TypeOK
  BY TypedIsType DEF AnalystInv
<1> QED
  BY <1>1, AnalystInvHolds, PTL

(* "Whatever was streamed is reconciled with the final answer", however many *)
(* turns wrote text, before, between or behind their calls.                  *)
THEOREM ClientInStep == ASSUME Analyst!BoundsAssumption PROVE Analyst!Spec => []Analyst!ClientSeesAnswer
<1>1. AnalystInv => Analyst!ClientSeesAnswer
  BY DEF AnalystInv
<1> QED
  BY <1>1, AnalystInvHolds, PTL

(* "A stopgap answer must not be replayed to a retry": only one that had no  *)
(* schema to look at, which the run does not know, is cached.                *)
THEOREM StopgapsPass == ASSUME Analyst!BoundsAssumption PROVE Analyst!Spec => []Analyst!StopgapNotCached
<1>1. AnalystInv => Analyst!StopgapNotCached
  BY DEF AnalystInv
<1> QED
  BY <1>1, AnalystInvHolds, PTL
-----------------------------------------------------------------------------
(* The report inbox (ReportInbox): for any number of reports and checks, any *)
(* limits and any times, no report is passed over.                           *)
LEMMA InboxCardinality == \A S : Inbox!Cardinality(S) = Cardinality(S)
BY DEF Cardinality, Inbox!Cardinality

\* The reports are in order of their times, of which none is to come.
FiledInOrder == /\ \A q \in Inbox!Reports : createdAt[q] <= clock
                /\ \A q, r \in Inbox!Reports : q < r => createdAt[q] <= createdAt[r]

\* What makes NonePassedOver leave a report out.
Exempt(r) == \/ \E other \in Inbox!Reports \ {r} : createdAt[other] = createdAt[r]
             \/ Cardinality({other \in Inbox!Reports : createdAt[other] > createdAt[r]}) >= Inbox!Smaller(Limit, Shown)
Told(r) == r \in notified \/ \E c \in Checks : r \in check[c].left
Covered(x) == \A r \in inbox : createdAt[r] <= x /\ createdAt[r] > start => Told(r) \/ Exempt(r)

\* A time that is remembered is a report's or of a phone's first check.
Known(x) == x <= clock /\ (x > start => \E r \in Inbox!Reports : createdAt[r] = x)
Remembered == {lastSeen} \cup {check[c].since : c \in Checks}
TimesKnown == start <= clock /\ \A x \in Remembered : Known(x)
AllCovered == faults = 0 => \A x \in Remembered : Covered(x)

\* A list has all that is newer than what it was asked for, but for what is exempt.
ListsWhole ==
    \A c \in Checks : check[c].st = "listed" /\ check[c].since # Inbox!Never =>
        \A r \in inbox, l \in check[c].listed :
            createdAt[r] > check[c].since /\ createdAt[r] <= createdAt[l] => r \in Inbox!FirstOf(check[c].listed, Shown) \/ Exempt(r)
NothingLeft == \A c \in Checks : check[c].st # "notifying" => check[c].left = {}

InboxInv == Inbox!TypeOK /\ FiledInOrder /\ TimesKnown /\ AllCovered /\ ListsWhole /\ NothingLeft

CheckSteps == {"idle", "asking", "listed", "notifying"}
CheckRecord == [st : CheckSteps, since : Inbox!Times \cup {Inbox!Never}, listed : SUBSET Inbox!Reports, left : SUBSET Inbox!Reports]

LEMMA InboxBounds ==
    Inbox!BoundsAssumption => /\ MaxReports \in Nat /\ MaxTime \in Nat \ {0} /\ MaxFaults \in Nat
                               /\ Keep \in Nat \ {0} /\ Limit \in Nat \ {0} /\ Shown \in Nat \ {0}
                               /\ Inbox!Smaller(Limit, Shown) <= Limit /\ Inbox!Smaller(Limit, Shown) <= Shown
                               /\ Inbox!Smaller(Limit, Shown) \in Nat
BY DEF Inbox!BoundsAssumption, Inbox!Smaller

LEMMA FiledTyped ==
    ASSUME Inbox!BoundsAssumption, Inbox!TypeOK
    PROVE  Len(createdAt) \in Nat /\ clock \in Int /\ \A q \in Inbox!Reports : createdAt[q] \in Inbox!Times /\ createdAt[q] \in Int
<1>1. \A q \in 1 .. Len(createdAt) : createdAt[q] \in Inbox!Times
  BY DEF Inbox!TypeOK
<1>2. Inbox!Times \subseteq Int /\ clock \in Inbox!Times /\ Len(createdAt) \in Nat
  BY InboxBounds DEF Inbox!Times, Inbox!TypeOK
<1> QED
  BY <1>1, <1>2 DEF Inbox!Reports

LEMMA SomeFinite ==
    ASSUME NEW k \in Nat, NEW S \in SUBSET (1 .. k), NEW T \in SUBSET S
    PROVE  /\ IsFiniteSet(S) /\ Cardinality(S) \in Nat /\ IsFiniteSet(T) /\ Cardinality(T) \in Nat
           /\ Cardinality(T) <= Cardinality(S)
BY FS_Interval, FS_Subset, FS_CardinalityType, 0 \in Int, 1 \in Int, k \in Int

LEMMA Least ==
    ASSUME NEW S \in SUBSET Nat, S # {}
    PROVE  \E i \in S : \A j \in S : i <= j
<1>1. PICK i \in S : \A j \in S : ~(<<j, i>> \in OpToRel(<, Nat))
  BY NatLessThanWellFounded, WFMin
<1>2. \A j \in S : ~(j < i)
  BY <1>1 DEF OpToRel
<1>3. i \in Nat /\ \A j \in S : j \in Nat
  OBVIOUS
<1> QED
  BY <1>2, <1>3

(* The first n of a list are at most n: the oldest of them, and less than n  *)
(* that are newer.                                                           *)
LEMMA FirstOfSize ==
    ASSUME NEW k \in Nat, NEW S \in SUBSET (1 .. k), NEW n \in Nat
    PROVE  Inbox!FirstOf(S, n) \subseteq S /\ Cardinality(Inbox!FirstOf(S, n)) <= n
<1> DEFINE F == Inbox!FirstOf(S, n)
<1>1. F \subseteq S /\ F \in SUBSET (1 .. k)
  BY DEF Inbox!FirstOf
<1>2. CASE F = {}
  BY <1>1, <1>2, FS_EmptySet
<1>3. CASE F # {}
  <2>1. PICK m \in F : \A j \in F : m <= j
    <3> HIDE DEF F
    <3>1. F \in SUBSET Nat
      BY <1>1
    <3> QED
      BY <1>3, <3>1, Least
  <2>2. m \in Nat /\ \A j \in F : j \in Nat /\ m <= j
    BY <1>1, <2>1
  <2> DEFINE later == {j \in F : j > m}
             newer == {j \in S : j > m}
  <2>3. newer \in SUBSET (1 .. k) /\ later \in SUBSET newer
    BY <1>1
  <2>4. Cardinality(later) \in Nat /\ Cardinality(newer) \in Nat /\ IsFiniteSet(later) /\ Cardinality(later) <= Cardinality(newer)
    BY <2>3, SomeFinite
  <2>5. Cardinality(newer) < n
    BY InboxCardinality DEF Inbox!FirstOf
  <2>6. F = later \cup {m} /\ m \notin later
    <3> HIDE DEF F
    <3>1. \A j \in F : j > m \/ j = m
      BY <2>2
    <3>2. m \in F /\ ~(m > m)
      BY <2>1, <2>2
    <3> QED
      BY <3>1, <3>2
  <2>7. Cardinality(F) = Cardinality(later) + 1
    BY <2>4, <2>6, FS_AddElement
  <2> QED
    BY <1>1, <2>4, <2>5, <2>7
<1> QED
  BY <1>2, <1>3

LEMMA NotFirst ==
    ASSUME NEW k \in Nat, NEW S \in SUBSET (1 .. k), NEW n \in Nat, NEW r \in S, r \notin Inbox!FirstOf(S, n)
    PROVE  Cardinality({newer \in S : newer > r}) >= n
<1>1. {newer \in S : newer > r} \in SUBSET S
  OBVIOUS
<1>2. Cardinality({newer \in S : newer > r}) \in Nat
  BY <1>1, SomeFinite
<1> QED
  BY <1>2, InboxCardinality DEF Inbox!FirstOf

(* A report that a list has no place for is exempt: those newer are as many  *)
(* as the list has, and one of them was filed in its millisecond or all were *)
(* later.                                                                    *)
LEMMA CutIsExempt ==
    ASSUME Inbox!BoundsAssumption, Inbox!TypeOK, FiledInOrder, NEW S \in SUBSET Inbox!Reports, NEW n \in Nat,
           Inbox!Smaller(Limit, Shown) <= n, NEW r \in S, r \notin Inbox!FirstOf(S, n)
    PROVE  Exempt(r)
<1> DEFINE newer == {q \in S : q > r}
           later == {q \in Inbox!Reports : createdAt[q] > createdAt[r]}
<1>1. Len(createdAt) \in Nat /\ S \in SUBSET (1 .. Len(createdAt))
  BY DEF Inbox!TypeOK, Inbox!Reports
<1>2. Cardinality(newer) >= n
  BY <1>1, NotFirst
<1>3. CASE \E q \in newer : createdAt[q] = createdAt[r]
  <2>1. PICK q \in newer : createdAt[q] = createdAt[r]
    BY <1>3
  <2>2. q \in Inbox!Reports \ {r}
    BY <2>1 DEF Inbox!Reports
  <2> QED
    BY <2>1, <2>2 DEF Exempt
<1>4. CASE \A q \in newer : createdAt[q] # createdAt[r]
  <2>1. \A q \in newer : createdAt[q] > createdAt[r]
    BY <1>4, FiledTyped DEF FiledInOrder
  <2>2. newer \subseteq later
    BY <2>1
  <2>3. later \in SUBSET (1 .. Len(createdAt)) /\ newer \in SUBSET later
    BY <2>2 DEF Inbox!Reports
  <2>4. Cardinality(newer) \in Nat /\ Cardinality(later) \in Nat /\ Cardinality(newer) <= Cardinality(later)
    BY <1>1, <2>3, SomeFinite
  <2>5. Cardinality(later) >= Inbox!Smaller(Limit, Shown)
    <3> HIDE DEF newer, later
    <3> QED
      BY <1>2, <2>4, InboxBounds
  <2> QED
    BY <2>5 DEF Exempt
<1> QED
  BY <1>3, <1>4

LEMMA RecordTyped ==
    ASSUME Inbox!TypeOK, NEW c \in Checks
    PROVE  check[c] \in CheckRecord
BY DEF Inbox!TypeOK, CheckRecord, CheckSteps

(* The newest of a check is one of the times it is of, and none of them is   *)
(* after it.                                                                 *)
LEMMA NewestOfCheck ==
    ASSUME Inbox!BoundsAssumption, Inbox!TypeOK, FiledInOrder, TimesKnown, NEW c \in Checks
    PROVE  /\ Inbox!Newest(c) \in Inbox!Times
           /\ Inbox!Newest(c) <= clock
           /\ check[c].since = Inbox!Never => Inbox!Newest(c) = clock
           /\ check[c].since # Inbox!Never => check[c].since <= Inbox!Newest(c)
           /\ \/ Inbox!Newest(c) = (IF check[c].since = Inbox!Never THEN clock ELSE check[c].since)
              \/ \E l \in check[c].listed : Inbox!Newest(c) = createdAt[l]
<1> DEFINE base == IF check[c].since = Inbox!Never THEN clock ELSE check[c].since
           all == {createdAt[r] : r \in check[c].listed} \cup {base}
<1>1. check[c].since \in Inbox!Times \cup {Inbox!Never} /\ check[c].listed \subseteq Inbox!Reports
  BY RecordTyped DEF CheckRecord
<1>2. clock \in Inbox!Times /\ \A r \in Inbox!Reports : createdAt[r] \in Inbox!Times
  BY DEF Inbox!TypeOK, Inbox!Reports
<1>3. base \in Inbox!Times /\ base <= clock
  <2>1. check[c].since \in Remembered
    BY DEF Remembered
  <2>2. check[c].since <= clock
    BY <2>1 DEF TimesKnown, Known
  <2> QED
    BY <1>1, <1>2, <2>2 DEF Inbox!Times
<1>4. all \in SUBSET (1 .. MaxTime) /\ all # {}
  BY <1>1, <1>2, <1>3 DEF Inbox!Times
<1>5. \A x \in all : x <= clock
  BY <1>1, <1>3 DEF FiledInOrder
<1>6. \E t \in all : \A u \in all : u <= t
  BY <1>4, Greatest, InboxBounds
<1>7. Inbox!Newest(c) = Inbox!NewestOf(all)
  BY DEF Inbox!Newest
<1>8. Inbox!Newest(c) \in all /\ \A u \in all : u <= Inbox!Newest(c)
  <2> HIDE DEF all
  <2> QED
    BY <1>6, <1>7 DEF Inbox!NewestOf
<1>9. Inbox!Newest(c) \in Inbox!Times /\ Inbox!Newest(c) <= clock /\ base <= Inbox!Newest(c)
  BY <1>4, <1>5, <1>8 DEF Inbox!Times
<1>10. Inbox!Newest(c) = base \/ \E l \in check[c].listed : Inbox!Newest(c) = createdAt[l]
  BY <1>8
<1> QED
  BY <1>1, <1>2, <1>9, <1>10 DEF Inbox!Times

LEMMA NoCheckTyped ==
    Inbox!NoCheck \in CheckRecord /\ Inbox!Never \notin Inbox!Times /\ Inbox!Never = 0 /\ Cardinality({}) = 0
BY FS_EmptySet DEF Inbox!NoCheck, CheckRecord, CheckSteps, Inbox!Never, Inbox!Times

(* What a step of one check leaves of the types. *)
LEMMA OneCheckTyped ==
    ASSUME Inbox!BoundsAssumption, Inbox!TypeOK, NEW c \in Checks, NEW rec \in CheckRecord,
           Cardinality(rec.listed) <= Limit, Cardinality(rec.left) <= Shown,
           check' = [check EXCEPT ![c] = rec], UNCHANGED <<clock, createdAt, inbox>>,
           lastSeen' \in Inbox!Times \cup {Inbox!Never}, start' \in Inbox!Times \cup {Inbox!Never}, notified' \subseteq Inbox!Reports,
           faults' \in 0 .. MaxFaults
    PROVE  Inbox!TypeOK'
<1>1. Inbox!Reports' = Inbox!Reports
  BY DEF Inbox!Reports
<1>2. check \in [Checks -> CheckRecord]
  BY DEF Inbox!TypeOK, CheckRecord, CheckSteps
<1>3. check' \in [Checks -> CheckRecord]
  BY <1>2
<1>4. \A d \in Checks : check'[d] = rec \/ check'[d] = check[d]
  BY <1>2
<1>5. \A d \in Checks : Cardinality(check'[d].listed) <= Limit /\ Cardinality(check'[d].left) <= Shown
  BY <1>4, InboxCardinality DEF Inbox!TypeOK
<1>6. check' \in [Checks -> [st : {"idle", "asking", "listed", "notifying"}, since : Inbox!Times \cup {Inbox!Never},
                              listed : SUBSET Inbox!Reports, left : SUBSET Inbox!Reports]]
  BY <1>3 DEF CheckRecord, CheckSteps
<1>7. /\ clock \in Inbox!Times
      /\ createdAt \in Seq(Inbox!Times) /\ Len(createdAt) <= MaxReports
      /\ inbox \subseteq Inbox!Reports /\ Cardinality(inbox) <= Keep
  BY InboxCardinality DEF Inbox!TypeOK
<1> QED
  BY <1>1, <1>5, <1>6, <1>7, InboxCardinality DEF Inbox!TypeOK, Inbox!Times

LEMMA SubsetSize ==
    ASSUME Inbox!TypeOK, NEW S \in SUBSET Inbox!Reports, NEW T \in SUBSET S
    PROVE  Cardinality(S) \in Nat /\ Cardinality(T) \in Nat /\ Cardinality(T) <= Cardinality(S)
<1>1. Len(createdAt) \in Nat /\ S \in SUBSET (1 .. Len(createdAt))
  BY DEF Inbox!TypeOK, Inbox!Reports
<1> QED
  BY <1>1, SomeFinite

LEMMA FirstOfReports ==
    ASSUME Inbox!TypeOK, NEW S \in SUBSET Inbox!Reports, NEW n \in Nat
    PROVE  Inbox!FirstOf(S, n) \subseteq S /\ Cardinality(Inbox!FirstOf(S, n)) <= n
<1>1. Len(createdAt) \in Nat /\ S \in SUBSET (1 .. Len(createdAt))
  BY DEF Inbox!TypeOK, Inbox!Reports
<1> QED
  BY <1>1, FirstOfSize

LEMMA CheckingTyped ==
    ASSUME Inbox!BoundsAssumption, Inbox!TypeOK, FiledInOrder, TimesKnown, NEW c \in Checks, Inbox!Check(c) \/ Inbox!CheckStep(c)
    PROVE  Inbox!TypeOK'
<1> USE InboxBounds
<1>0. /\ check[c] \in CheckRecord /\ Cardinality(check[c].listed) <= Limit /\ Cardinality(check[c].left) <= Shown
      /\ lastSeen \in Inbox!Times \cup {Inbox!Never} /\ start \in Inbox!Times \cup {Inbox!Never} /\ notified \subseteq Inbox!Reports
      /\ faults \in 0 .. MaxFaults /\ inbox \subseteq Inbox!Reports
  BY RecordTyped, InboxCardinality DEF Inbox!TypeOK
<1>1. Inbox!NoCheck \in CheckRecord /\ Cardinality(Inbox!NoCheck.listed) <= Limit /\ Cardinality(Inbox!NoCheck.left) <= Shown
  BY NoCheckTyped DEF Inbox!NoCheck
<1>2. CASE Inbox!Check(c)
  <2> DEFINE rec == [Inbox!NoCheck EXCEPT !.st = "asking", !.since = lastSeen]
  <2>1. rec \in CheckRecord /\ rec.listed = {} /\ rec.left = {}
    BY <1>0 DEF CheckRecord, Inbox!NoCheck, CheckSteps
  <2>2. check' = [check EXCEPT ![c] = rec]
    BY <1>2 DEF Inbox!Check
  <2>3. Cardinality(rec.listed) <= Limit /\ Cardinality(rec.left) <= Shown
    BY <2>1, NoCheckTyped
  <2>4. UNCHANGED <<clock, createdAt, inbox, lastSeen, notified, start, faults>>
    BY <1>2 DEF Inbox!Check
  <2> HIDE DEF rec
  <2> QED
    BY <1>0, <2>1, <2>2, <2>3, <2>4, OneCheckTyped
<1>3. CASE Inbox!Listed(c)
  <2> DEFINE rec == [check[c] EXCEPT !.st = "listed", !.listed = Inbox!List(check[c].since)]
  <2>1. Inbox!List(check[c].since) \subseteq Inbox!Reports /\ Cardinality(Inbox!List(check[c].since)) <= Limit
    <3> DEFINE S == {r \in inbox : Inbox!Newer(r, check[c].since)}
    <3>1. S \in SUBSET Inbox!Reports
      BY <1>0
    <3>2. Inbox!FirstOf(S, Limit) \subseteq S /\ Cardinality(Inbox!FirstOf(S, Limit)) <= Limit
      BY <3>1, FirstOfReports
    <3> QED
      BY <3>1, <3>2 DEF Inbox!List
  <2>2. rec \in CheckRecord /\ rec.listed = Inbox!List(check[c].since) /\ rec.left = check[c].left
    BY <1>0, <2>1 DEF CheckRecord, CheckSteps
  <2>3. check' = [check EXCEPT ![c] = rec]
    BY <1>3 DEF Inbox!Listed
  <2> QED
    BY <1>0, <1>3, <2>1, <2>2, <2>3, OneCheckTyped DEF Inbox!Listed
<1>4. CASE Inbox!Offline(c)
  BY <1>0, <1>1, <1>4, OneCheckTyped DEF Inbox!Offline
<1>5. CASE Inbox!SaveSeen(c)
  <2> DEFINE new == IF check[c].since = Inbox!Never THEN {} ELSE check[c].listed
             rec == [Inbox!NoCheck EXCEPT !.st = "notifying", !.left = Inbox!FirstOf(new, Shown)]
  <2>1. new \in SUBSET Inbox!Reports
    BY <1>0 DEF CheckRecord
  <2>2. Inbox!FirstOf(new, Shown) \subseteq Inbox!Reports /\ Cardinality(Inbox!FirstOf(new, Shown)) <= Shown
    BY <2>1, FirstOfReports
  <2>3. rec \in CheckRecord /\ rec.listed = {} /\ rec.left = Inbox!FirstOf(new, Shown)
    BY <2>2, NoCheckTyped DEF CheckRecord, Inbox!NoCheck, CheckSteps
  <2>4. check' = [check EXCEPT ![c] = rec]
    BY <1>5 DEF Inbox!SaveSeen
  <2>5. Inbox!Newest(c) \in Inbox!Times
    BY NewestOfCheck
  <2>6. lastSeen' \in Inbox!Times \cup {Inbox!Never} /\ start' \in Inbox!Times \cup {Inbox!Never}
    BY <1>0, <1>5, <2>5 DEF Inbox!SaveSeen
  <2>7. notified' \subseteq Inbox!Reports /\ faults' \in 0 .. MaxFaults /\ UNCHANGED <<clock, createdAt, inbox>>
    BY <1>0, <1>5 DEF Inbox!SaveSeen
  <2>8. Cardinality(rec.listed) <= Limit /\ Cardinality(rec.left) <= Shown
    BY <2>2, <2>3, NoCheckTyped
  <2> HIDE DEF rec, new
  <2> QED
    BY <2>3, <2>4, <2>6, <2>7, <2>8, OneCheckTyped
<1>6. CASE Inbox!Notify(c)
  <2>1. PICK r \in check[c].left : /\ notified' = notified \cup {r}
                                    /\ check' = [check EXCEPT ![c].left = @ \ {r}]
    BY <1>6 DEF Inbox!Notify
  <2> DEFINE rec == [check[c] EXCEPT !.left = check[c].left \ {r}]
  <2>2. check[c].left \in SUBSET Inbox!Reports /\ check[c].left \ {r} \in SUBSET check[c].left
    BY <1>0 DEF CheckRecord
  <2>3. Cardinality(check[c].left \ {r}) <= Shown
    <3>1. Cardinality(check[c].left) \in Nat /\ Cardinality(check[c].left \ {r}) \in Nat
          /\ Cardinality(check[c].left \ {r}) <= Cardinality(check[c].left)
      BY <2>2, SubsetSize
    <3> QED
      BY <1>0, <3>1
  <2>4. rec \in CheckRecord /\ rec.listed = check[c].listed /\ rec.left = check[c].left \ {r}
    BY <1>0, <2>2 DEF CheckRecord, CheckSteps
  <2>5. check' = [check EXCEPT ![c] = rec]
    BY <2>1
  <2>6. notified' \subseteq Inbox!Reports
    BY <1>0, <2>1, <2>2
  <2>7. /\ lastSeen' \in Inbox!Times \cup {Inbox!Never} /\ start' \in Inbox!Times \cup {Inbox!Never} /\ faults' \in 0 .. MaxFaults
        /\ UNCHANGED <<clock, createdAt, inbox>>
    BY <1>0, <1>6 DEF Inbox!Notify
  <2> HIDE DEF rec
  <2> QED
    BY <1>0, <2>3, <2>4, <2>5, <2>6, <2>7, OneCheckTyped
<1>7. CASE Inbox!NotifyFails(c)
  <2>1. faults' \in 0 .. MaxFaults
    BY <1>0, <1>7 DEF Inbox!NotifyFails
  <2> QED
    BY <1>0, <1>1, <1>7, <2>1, OneCheckTyped DEF Inbox!NotifyFails
<1>8. CASE Inbox!EndCheck(c)
  BY <1>0, <1>1, <1>8, OneCheckTyped DEF Inbox!EndCheck
<1> QED
  BY <1>2, <1>3, <1>4, <1>5, <1>6, <1>7, <1>8 DEF Inbox!CheckStep

(* What filing a report leaves: the times of the reports before it, and its  *)
(* own, which is now.                                                        *)
LEMMA Filed ==
    ASSUME Inbox!BoundsAssumption, Inbox!TypeOK, Inbox!Add
    PROVE  LET n == Len(createdAt) + 1
           IN  /\ Inbox!Reports' = Inbox!Reports \cup {n} /\ n \notin Inbox!Reports /\ \A r \in Inbox!Reports : r < n
               /\ createdAt'[n] = clock /\ \A r \in Inbox!Reports : createdAt'[r] = createdAt[r]
               /\ inbox' \subseteq inbox \cup {n} /\ Cardinality(inbox') <= Keep
               /\ createdAt' \in Seq(Inbox!Times) /\ Len(createdAt') = n
<1> DEFINE n == Len(createdAt) + 1
<1>1. /\ Len(createdAt) \in Nat /\ createdAt \in Seq(Inbox!Times) /\ clock \in Inbox!Times /\ inbox \subseteq Inbox!Reports
      /\ createdAt' = Append(createdAt, clock) /\ inbox' = Inbox!FirstOf(inbox \cup {n}, Keep)
  BY DEF Inbox!TypeOK, Inbox!Add
<1>2. createdAt' \in Seq(Inbox!Times) /\ Len(createdAt') = n
  BY <1>1
<1>3. createdAt'[n] = clock /\ \A r \in 1 .. Len(createdAt) : createdAt'[r] = createdAt[r]
  BY <1>1
<1>4. /\ Inbox!Reports' = Inbox!Reports \cup {n} /\ n \notin Inbox!Reports /\ \A r \in Inbox!Reports : r < n
  <2>1. Inbox!Reports = 1 .. Len(createdAt) /\ Inbox!Reports' = 1 .. n
    BY <1>2 DEF Inbox!Reports
  <2> QED
    BY <1>1, <2>1
<1>5. inbox' \subseteq inbox \cup {n} /\ Cardinality(inbox') <= Keep
  <2>1. n \in Nat /\ inbox \cup {n} \in SUBSET (1 .. n)
    <3>1. n \in Nat /\ \A r \in inbox : r \in Nat /\ 1 <= r /\ r <= Len(createdAt)
      BY <1>1 DEF Inbox!Reports
    <3>2. \A r \in inbox \cup {n} : r \in 1 .. n
      BY <1>1, <3>1
    <3> QED
      BY <3>1, <3>2
  <2>2. Keep \in Nat
    BY InboxBounds
  <2>3. Inbox!FirstOf(inbox \cup {n}, Keep) \subseteq inbox \cup {n} /\ Cardinality(Inbox!FirstOf(inbox \cup {n}, Keep)) <= Keep
    <3> DEFINE S == inbox \cup {n}
    <3>1. S \in SUBSET (1 .. n)
      BY <2>1
    <3> HIDE DEF S
    <3>2. Inbox!FirstOf(S, Keep) \subseteq S /\ Cardinality(Inbox!FirstOf(S, Keep)) <= Keep
      BY <2>1, <2>2, <3>1, FirstOfSize
    <3> QED
      BY <3>2 DEF S
  <2> QED
    BY <1>1, <2>3
<1> QED
  BY <1>2, <1>3, <1>4, <1>5 DEF Inbox!Reports

LEMMA TypeKept ==
    ASSUME Inbox!BoundsAssumption, Inbox!TypeOK, FiledInOrder, TimesKnown, [Inbox!Next]_(Inbox!vars)
    PROVE  Inbox!TypeOK'
<1>1. CASE Inbox!Tick
  BY <1>1, InboxBounds DEF Inbox!Tick, Inbox!TypeOK, Inbox!Times, Inbox!Reports
<1>2. CASE Inbox!Add
  <2>1. check \in [Checks -> CheckRecord] /\ Inbox!Reports \subseteq Inbox!Reports'
    BY <1>2, Filed DEF Inbox!TypeOK, CheckRecord, CheckSteps
  <2>2. check' \in [Checks -> [st : CheckSteps, since : Inbox!Times \cup {Inbox!Never}, listed : SUBSET Inbox!Reports', left : SUBSET Inbox!Reports']]
    <3> DEFINE later == [st : CheckSteps, since : Inbox!Times \cup {Inbox!Never}, listed : SUBSET Inbox!Reports', left : SUBSET Inbox!Reports']
    <3>1. CheckRecord \subseteq later
      BY <2>1 DEF CheckRecord
    <3> HIDE DEF later
    <3>2. check' = check
      BY <1>2 DEF Inbox!Add
    <3>3. check \in [Checks -> later]
      BY <2>1, <3>1
    <3> QED
      BY <3>2, <3>3 DEF later
  <2>3. inbox' \subseteq Inbox!Reports' /\ notified' \subseteq Inbox!Reports' /\ Cardinality(inbox') <= Keep
    BY <1>2, <2>1, Filed DEF Inbox!TypeOK, Inbox!Add
  <2>4. createdAt' \in Seq(Inbox!Times) /\ Len(createdAt') <= MaxReports
    BY <1>2, Filed, InboxBounds DEF Inbox!Add, Inbox!TypeOK
  <2> QED
    BY <1>2, <2>2, <2>3, <2>4, InboxCardinality DEF Inbox!Add, Inbox!TypeOK, CheckSteps, Inbox!Times
<1>3. CASE Inbox!RemoveReport
  <2>1. PICK r \in inbox : inbox' = inbox \ {r}
    BY <1>3 DEF Inbox!RemoveReport
  <2>2. inbox \in SUBSET Inbox!Reports /\ inbox' \in SUBSET inbox
    BY <2>1 DEF Inbox!TypeOK
  <2>3. Cardinality(inbox) \in Nat /\ Cardinality(inbox') \in Nat /\ Cardinality(inbox') <= Cardinality(inbox)
    BY <2>2, SubsetSize
  <2>4. inbox' \subseteq Inbox!Reports /\ Cardinality(inbox') <= Keep
    BY <2>2, <2>3, InboxBounds, InboxCardinality DEF Inbox!TypeOK
  <2> QED
    BY <1>3, <2>4, InboxCardinality DEF Inbox!RemoveReport, Inbox!TypeOK, Inbox!Reports, Inbox!Times
<1>4. CASE Inbox!Kill
  <2>1. Inbox!NoCheck \in CheckRecord /\ Cardinality(Inbox!NoCheck.listed) <= Limit /\ Cardinality(Inbox!NoCheck.left) <= Shown
    BY NoCheckTyped, InboxBounds DEF Inbox!NoCheck
  <2>2. check' \in [Checks -> CheckRecord] /\ \A c \in Checks : check'[c] = Inbox!NoCheck
    BY <1>4, <2>1 DEF Inbox!Kill
  <2>3. \A c \in Checks : Cardinality(check'[c].listed) <= Limit /\ Cardinality(check'[c].left) <= Shown
    BY <2>1, <2>2
  <2>4. faults' \in 0 .. MaxFaults
    BY <1>4, InboxBounds DEF Inbox!Kill, Inbox!TypeOK
  <2>5. check' \in [Checks -> [st : {"idle", "asking", "listed", "notifying"}, since : Inbox!Times \cup {Inbox!Never},
                                listed : SUBSET Inbox!Reports, left : SUBSET Inbox!Reports]]
    BY <2>2 DEF CheckRecord, CheckSteps
  <2> QED
    BY <1>4, <2>3, <2>4, <2>5, InboxCardinality DEF Inbox!Kill, Inbox!TypeOK, Inbox!Reports, Inbox!Times
<1>5. CASE \E c \in Checks : Inbox!Check(c) \/ Inbox!CheckStep(c)
  BY <1>5, CheckingTyped
<1>6. CASE UNCHANGED Inbox!vars
  BY <1>6 DEF Inbox!vars, Inbox!TypeOK, Inbox!Reports, Inbox!Times
<1> QED
  BY <1>1, <1>2, <1>3, <1>4, <1>5, <1>6 DEF Inbox!Next

-----------------------------------------------------------------------------
(* A step of the phone that saves no time: it files nothing, and remembers   *)
(* no time it did not know.                                                  *)
LEMMA NothingSaved ==
    ASSUME Inbox!BoundsAssumption, InboxInv, UNCHANGED <<createdAt, start>>,
           clock' \in Int, clock <= clock', inbox' \subseteq inbox,
           Remembered' \subseteq Remembered \cup {Inbox!Never},
           faults' \in Nat, faults <= faults', faults' = 0 => \A r \in inbox : Told(r) => Told(r)'
    PROVE  FiledInOrder' /\ TimesKnown' /\ AllCovered'
<1>1. Inbox!Reports' = Inbox!Reports /\ \A r : Exempt(r)' <=> Exempt(r)
  BY DEF Inbox!Reports, Exempt
<1>2. FiledInOrder'
  BY <1>1, FiledTyped DEF InboxInv, FiledInOrder
<1>3. lastSeen \in Int /\ start \in Int /\ start >= 0 /\ clock \in Int /\ clock >= 1 /\ faults \in Nat
  BY InboxBounds DEF InboxInv, Inbox!TypeOK, Inbox!Times, Inbox!Never
<1>4. \A x \in Remembered : x \in Int
  BY <1>3, InboxBounds DEF InboxInv, Inbox!TypeOK, Remembered, Inbox!Times, Inbox!Never
<1>5. TimesKnown'
  <2>1. \A x \in Remembered \cup {Inbox!Never} : Known(x)'
    <3>1. \A x \in Remembered : Known(x)'
      BY <1>1, <1>3, <1>4 DEF InboxInv, TimesKnown, Known
    <3>2. Known(Inbox!Never)'
      BY <1>3 DEF Known, Inbox!Never
    <3> QED
      BY <3>1, <3>2 DEF Inbox!Never
  <2>2. start' <= clock'
    BY <1>3 DEF InboxInv, TimesKnown
  <2>3. \A x \in Remembered' : Known(x)'
    BY <2>1
  <2> QED
    BY <2>2, <2>3 DEF TimesKnown
<1>6. AllCovered'
  <2> SUFFICES ASSUME faults' = 0, NEW x \in Remembered', NEW r \in inbox',
                      createdAt[r] <= x, createdAt[r] > start
               PROVE  (Told(r) \/ Exempt(r))'
    BY DEF AllCovered, Covered
  <2>1. faults = 0
    BY <1>3
  <2>2. r \in Inbox!Reports /\ createdAt[r] \in Int
    BY FiledTyped DEF InboxInv, Inbox!TypeOK
  <2>3. x # Inbox!Never
    BY <1>3, <2>2 DEF Inbox!Never
  <2>4. Told(r) \/ Exempt(r)
    BY <2>1, <2>3 DEF InboxInv, AllCovered, Covered
  <2> QED
    BY <1>1, <2>4
<1> QED
  BY <1>2, <1>5, <1>6

\* A list is as whole after what neither lists nor files.
LEMMA ListsKept ==
    ASSUME InboxInv, UNCHANGED <<createdAt>>, inbox' \subseteq inbox,
           \A c \in Checks : \/ check'[c].st # "listed"
                              \/ /\ check[c].st = "listed" /\ check'[c].since = check[c].since
                                 /\ check'[c].listed = check[c].listed
    PROVE  ListsWhole'
<1>1. Inbox!Reports' = Inbox!Reports /\ \A r : Exempt(r)' <=> Exempt(r)
  BY DEF Inbox!Reports, Exempt
<1>2. \A c \in Checks : check'[c].st = "listed" =>
        /\ check[c].st = "listed" /\ check'[c].since = check[c].since /\ check'[c].listed = check[c].listed
        /\ Inbox!FirstOf(check'[c].listed, Shown) = Inbox!FirstOf(check[c].listed, Shown)
  OBVIOUS
<1> SUFFICES ASSUME NEW c \in Checks, check'[c].st = "listed", check'[c].since # Inbox!Never,
                    NEW r \in inbox', NEW l \in check'[c].listed,
                    createdAt'[r] > check'[c].since, createdAt'[r] <= createdAt'[l]
             PROVE  r \in Inbox!FirstOf(check'[c].listed, Shown) \/ Exempt(r)'
  BY DEF ListsWhole, Inbox!FirstOf, Inbox!Never
<1>3. r \in Inbox!FirstOf(check[c].listed, Shown) \/ Exempt(r)
  BY <1>2 DEF InboxInv, ListsWhole
<1> QED
  BY <1>1, <1>2, <1>3

\* What one check's step leaves of the others.
LEMMA OneCheck ==
    ASSUME Inbox!TypeOK, NEW c \in Checks, NEW rec, check' = [check EXCEPT ![c] = rec]
    PROVE  check'[c] = rec /\ \A d \in Checks \ {c} : check'[d] = check[d]
BY DEF Inbox!TypeOK

LEMMA FilingKept ==
    ASSUME Inbox!BoundsAssumption, InboxInv, Inbox!Add
    PROVE  FiledInOrder' /\ TimesKnown' /\ AllCovered' /\ ListsWhole' /\ NothingLeft'
<1> DEFINE n == Len(createdAt) + 1
<1>1. /\ Inbox!Reports' = Inbox!Reports \cup {n} /\ n \notin Inbox!Reports /\ \A r \in Inbox!Reports : r < n
      /\ createdAt'[n] = clock /\ \A r \in Inbox!Reports : createdAt'[r] = createdAt[r]
      /\ inbox' \subseteq inbox \cup {n}
  BY Filed DEF InboxInv
<1>2. UNCHANGED <<clock, lastSeen, check, notified, start, faults>> /\ Remembered' = Remembered
  BY DEF Inbox!Add, Remembered
<1> HIDE DEF n
<1>3. /\ clock \in Int /\ start \in Int /\ \A r \in Inbox!Reports : createdAt[r] \in Int
      /\ \A r \in Inbox!Reports : createdAt[r] <= clock /\ inbox \subseteq Inbox!Reports /\ n \in Nat
  BY FiledTyped, InboxBounds DEF InboxInv, Inbox!TypeOK, Inbox!Times, Inbox!Never, FiledInOrder, n
<1>4. FiledInOrder'
  <2>1. \A q \in Inbox!Reports \cup {n} : createdAt'[q] <= clock
    BY <1>1, <1>3
  <2>2. \A q, r \in Inbox!Reports \cup {n} : q < r => createdAt'[q] <= createdAt'[r]
    <3> SUFFICES ASSUME NEW q \in Inbox!Reports \cup {n}, NEW r \in Inbox!Reports \cup {n}, q < r
                 PROVE  createdAt'[q] <= createdAt'[r]
      OBVIOUS
    <3>1. CASE r = n
      BY <1>1, <2>1, <3>1
    <3>2. CASE r \in Inbox!Reports /\ q \in Inbox!Reports
      BY <1>1, <3>2 DEF InboxInv, FiledInOrder
    <3>3. CASE r \in Inbox!Reports /\ q = n
      <4>1. r \in Int /\ q \in Int /\ r < q
        BY <1>1, <1>3, <3>3 DEF Inbox!Reports
      <4> QED
        BY <4>1
    <3> QED
      BY <3>1, <3>2, <3>3
  <2> QED
    BY <1>1, <1>2, <2>1, <2>2 DEF FiledInOrder
<1>5. \A r \in Inbox!Reports : Exempt(r) => Exempt(r)'
  <2> SUFFICES ASSUME NEW r \in Inbox!Reports, Exempt(r) PROVE Exempt(r)'
    OBVIOUS
  <2>1. CASE \E other \in Inbox!Reports \ {r} : createdAt[other] = createdAt[r]
    BY <1>1, <2>1 DEF Exempt
  <2>2. CASE Cardinality({other \in Inbox!Reports : createdAt[other] > createdAt[r]}) >= Inbox!Smaller(Limit, Shown)
    <3> DEFINE before == {other \in Inbox!Reports : createdAt[other] > createdAt[r]}
               after == {other \in Inbox!Reports' : createdAt'[other] > createdAt'[r]}
    <3>1. before \subseteq after
      BY <1>1
    <3>2. after \in SUBSET (1 .. Len(createdAt')) /\ Len(createdAt') \in Nat
      BY TypeKept DEF InboxInv, Inbox!Next, Inbox!TypeOK, Inbox!Reports
    <3>3. Cardinality(before) \in Nat /\ Cardinality(after) \in Nat /\ Cardinality(before) <= Cardinality(after)
      <4>1. before \in SUBSET after
        BY <3>1
      <4> HIDE DEF before, after
      <4> QED
        BY <3>2, <4>1, SomeFinite
    <3>4. Cardinality(after) >= Inbox!Smaller(Limit, Shown)
      <4>1. Cardinality(before) >= Inbox!Smaller(Limit, Shown)
        BY <2>2
      <4> HIDE DEF before, after
      <4> QED
        BY <3>3, <4>1, InboxBounds
    <3> QED
      BY <3>4 DEF Exempt, Inbox!Smaller
  <2> QED
    BY <2>1, <2>2 DEF Exempt
<1>6. TimesKnown'
  <2>1. \A x \in Remembered : Known(x)'
    <3> SUFFICES ASSUME NEW x \in Remembered PROVE Known(x)'
      OBVIOUS
    <3>1. Known(x)
      BY DEF InboxInv, TimesKnown
    <3> QED
      BY <1>1, <1>2, <3>1 DEF Known
  <2> QED
    BY <1>2, <2>1 DEF InboxInv, TimesKnown
\* The new report is of now: what is remembered and not before it is a report's of now too.
<1>7. AllCovered'
  <2> SUFFICES ASSUME faults = 0, NEW x \in Remembered, NEW r \in inbox',
                      createdAt'[r] <= x, createdAt'[r] > start
               PROVE  (Told(r) \/ Exempt(r))'
    BY <1>2 DEF AllCovered, Covered
  <2>1. CASE r \in inbox
    <3>1. r \in Inbox!Reports /\ createdAt[r] = createdAt'[r]
      <4>1. r \in Inbox!Reports
        BY <2>1 DEF InboxInv, Inbox!TypeOK
      <4> QED
        BY <1>1, <4>1
    <3>2. Told(r) \/ Exempt(r)
      BY <2>1, <3>1 DEF InboxInv, AllCovered, Covered
    <3>3. Told(r) => Told(r)'
      BY <1>2 DEF Told
    <3> QED
      BY <1>5, <3>1, <3>2, <3>3
  <2>2. CASE r = n
    <3>1. Known(x)
      BY DEF InboxInv, TimesKnown
    <3>2. x \in Int
      BY InboxBounds DEF InboxInv, Inbox!TypeOK, Remembered, Inbox!Times, Inbox!Never
    <3>3. x = clock /\ x > start
      BY <1>1, <1>3, <2>2, <3>1, <3>2 DEF Known
    <3>4. PICK q \in Inbox!Reports : createdAt[q] = clock
      BY <3>1, <3>3 DEF Known
    <3>5. q \in Inbox!Reports' \ {r} /\ createdAt'[q] = createdAt'[r]
      BY <1>1, <2>2, <3>4
    <3> QED
      BY <3>5 DEF Exempt
  <2> QED
    BY <1>1, <2>1, <2>2
<1>8. ListsWhole'
  <2> SUFFICES ASSUME NEW c \in Checks, check[c].st = "listed", check[c].since # Inbox!Never,
                      NEW r \in inbox', NEW l \in check[c].listed,
                      createdAt'[r] > check[c].since, createdAt'[r] <= createdAt'[l]
               PROVE  r \in Inbox!FirstOf(check[c].listed, Shown) \/ Exempt(r)'
    BY <1>2 DEF ListsWhole, Inbox!FirstOf, Inbox!Never
  <2>1. l \in Inbox!Reports /\ createdAt'[l] = createdAt[l]
    BY <1>1, RecordTyped DEF InboxInv, CheckRecord
  <2>2. CASE r \in inbox
    <3>1. r \in Inbox!Reports /\ createdAt'[r] = createdAt[r]
      <4>1. r \in Inbox!Reports
        BY <2>2 DEF InboxInv, Inbox!TypeOK
      <4> QED
        BY <1>1, <4>1
    <3>2. r \in Inbox!FirstOf(check[c].listed, Shown) \/ Exempt(r)
      BY <2>1, <2>2, <3>1 DEF InboxInv, ListsWhole
    <3> QED
      BY <1>5, <3>1, <3>2
  <2>3. CASE r = n
    <3>1. createdAt'[l] = createdAt'[r]
      BY <1>1, <1>3, <2>1, <2>3
    <3>2. l \in Inbox!Reports' \ {r}
      BY <1>1, <2>1, <2>3
    <3> QED
      BY <3>1, <3>2 DEF Exempt
  <2> QED
    BY <1>1, <2>2, <2>3
<1>9. NothingLeft'
  BY <1>2 DEF InboxInv, NothingLeft
<1> QED
  BY <1>4, <1>6, <1>7, <1>8, <1>9

(* Saving the newest: it is a time that was known, or the phone's first; and *)
(* what it is not before was told of, is of the list, or is exempt.          *)
LEMMA SavingKept ==
    ASSUME Inbox!BoundsAssumption, InboxInv, NEW c \in Checks, Inbox!SaveSeen(c)
    PROVE  FiledInOrder' /\ TimesKnown' /\ AllCovered' /\ ListsWhole' /\ NothingLeft'
<1> DEFINE new == IF check[c].since = Inbox!Never THEN {} ELSE check[c].listed
           rec == [Inbox!NoCheck EXCEPT !.st = "notifying", !.left = Inbox!FirstOf(new, Shown)]
<1>1. /\ UNCHANGED <<clock, createdAt, inbox, notified, faults>> /\ check[c].st = "listed"
      /\ lastSeen' = Inbox!Newest(c) /\ check' = [check EXCEPT ![c] = rec]
      /\ start' = IF check[c].since = Inbox!Never /\ start < Inbox!Newest(c) THEN Inbox!Newest(c) ELSE start
  BY DEF Inbox!SaveSeen
<1>2. rec.st = "notifying" /\ rec.since = Inbox!Never /\ rec.left = Inbox!FirstOf(new, Shown)
  BY DEF Inbox!NoCheck
<1>3. check'[c] = rec /\ \A d \in Checks \ {c} : check'[d] = check[d]
  BY <1>1, OneCheck DEF InboxInv
<1> HIDE DEF rec
<1>4. Inbox!Reports' = Inbox!Reports /\ \A r : Exempt(r)' <=> Exempt(r)
  BY <1>1 DEF Inbox!Reports, Exempt
<1>5. /\ clock \in Int /\ clock >= 1 /\ start \in Int /\ start >= 0 /\ start <= clock /\ Inbox!Never = 0
      /\ \A r \in Inbox!Reports : createdAt[r] \in Int /\ createdAt[r] <= clock
      /\ inbox \subseteq Inbox!Reports /\ lastSeen \in Int /\ check[c].since \in Int /\ check[c].listed \subseteq Inbox!Reports
      /\ check[c].since \in Remembered
  BY FiledTyped, InboxBounds DEF InboxInv, Inbox!TypeOK, Inbox!Times, Inbox!Never, FiledInOrder, TimesKnown, Remembered
<1>6. /\ Inbox!Newest(c) \in Int /\ Inbox!Newest(c) <= clock
      /\ check[c].since = Inbox!Never => Inbox!Newest(c) = clock
      /\ check[c].since # Inbox!Never => check[c].since <= Inbox!Newest(c)
      /\ \/ Inbox!Newest(c) = (IF check[c].since = Inbox!Never THEN clock ELSE check[c].since)
         \/ \E l \in check[c].listed : Inbox!Newest(c) = createdAt[l]
  BY NewestOfCheck, InboxBounds DEF InboxInv, Inbox!Times
<1>7. start' \in Int /\ start <= start' /\ start' <= clock /\ (check[c].since = Inbox!Never => start' = clock)
  BY <1>1, <1>5, <1>6
<1>8. Remembered' \subseteq Remembered \cup {Inbox!Newest(c), Inbox!Never}
  BY <1>1, <1>2, <1>3 DEF Remembered, Inbox!Never
<1>9. \A x \in Remembered : x \in Int
  BY InboxBounds DEF InboxInv, Inbox!TypeOK, Remembered, Inbox!Times, Inbox!Never
<1>10. FiledInOrder'
  BY <1>1, <1>4 DEF InboxInv, FiledInOrder
<1>11. \A r : Told(r) => Told(r)'
  <2>1. check[c].left = {}
    BY <1>1 DEF InboxInv, NothingLeft
  <2> QED
    BY <1>1, <1>3, <2>1 DEF Told
<1>12. TimesKnown'
  <2>1. \A x \in Remembered : Known(x)'
    <3> SUFFICES ASSUME NEW x \in Remembered PROVE Known(x)'
      OBVIOUS
    <3>1. Known(x) /\ x \in Int
      BY <1>9 DEF InboxInv, TimesKnown
    <3> QED
      BY <1>1, <1>4, <1>5, <1>7, <3>1 DEF Known
  <2>2. Known(Inbox!Never)'
    BY <1>1, <1>5, <1>7 DEF Known, Inbox!Never
  <2>3. \A t : t = Inbox!Newest(c) => Known(t)'
    <3> SUFFICES ASSUME NEW t, t = Inbox!Newest(c) PROVE Known(t)'
      OBVIOUS
    <3>1. (t <= clock /\ (t > start' => \E r \in Inbox!Reports : createdAt[r] = t)) => Known(t)'
      BY <1>1, <1>4 DEF Known
    <3>2. CASE check[c].since = Inbox!Never
      BY <1>5, <1>6, <1>7, <3>1, <3>2
    <3>3. CASE check[c].since # Inbox!Never /\ t = check[c].since
      BY <1>5, <2>1, <3>3
    <3>4. CASE \E l \in check[c].listed : t = createdAt[l]
      BY <1>5, <1>6, <3>1, <3>4
    <3> QED
      BY <1>6, <3>2, <3>3, <3>4
  <2>4. \A x \in Remembered' : Known(x)'
    <3> SUFFICES ASSUME NEW x \in Remembered' PROVE Known(x)'
      OBVIOUS
    <3>1. x \in Remembered \/ x = Inbox!Newest(c) \/ x = Inbox!Never
      BY <1>8
    <3>2. CASE x = Inbox!Never
      BY <2>2, <3>2 DEF Inbox!Never
    <3> QED
      BY <2>1, <2>3, <3>1, <3>2
  <2> QED
    BY <1>1, <1>7, <2>4 DEF TimesKnown
<1>13. AllCovered'
  <2> SUFFICES ASSUME faults = 0, NEW x \in Remembered', NEW r \in inbox,
                      createdAt[r] <= x, createdAt[r] > start'
               PROVE  (Told(r) \/ Exempt(r))'
    BY <1>1 DEF AllCovered, Covered
  <2>1. r \in Inbox!Reports /\ createdAt[r] \in Int /\ createdAt[r] <= clock /\ createdAt[r] > start /\ createdAt[r] > Inbox!Never
    BY <1>5, <1>7
  <2>2. \A y \in Remembered : createdAt[r] <= y => (Told(r) \/ Exempt(r))'
    <3>1. \A y \in Remembered : createdAt[r] <= y => Told(r) \/ Exempt(r)
      BY <2>1 DEF InboxInv, AllCovered, Covered
    <3> QED
      BY <1>4, <1>11, <3>1
  <2>3. CASE x \in Remembered
    BY <2>2, <2>3
  <2>4. CASE x = Inbox!Never
    BY <1>5, <2>1, <2>4
  <2>5. CASE x = Inbox!Newest(c)
    <3>1. check[c].since # Inbox!Never
      BY <1>5, <1>7, <2>1
    <3>2. CASE createdAt[r] <= check[c].since
      BY <1>5, <2>2, <3>2
    <3>3. CASE createdAt[r] > check[c].since
      <4>1. PICK l \in check[c].listed : Inbox!Newest(c) = createdAt[l]
        BY <1>5, <1>6, <2>1, <2>5, <3>1, <3>3
      <4>2. r \in Inbox!FirstOf(check[c].listed, Shown) \/ Exempt(r)
        BY <1>1, <2>5, <3>1, <3>3, <4>1 DEF InboxInv, ListsWhole
      <4>3. check'[c].left = Inbox!FirstOf(check[c].listed, Shown)
        BY <1>2, <1>3, <3>1
      <4> QED
        BY <1>4, <4>2, <4>3 DEF Told
    <3> QED
      BY <1>5, <2>1, <3>2, <3>3
  <2> QED
    BY <1>8, <2>3, <2>4, <2>5
<1>14. ListsWhole'
  BY <1>1, <1>2, <1>3, ListsKept
<1>15. NothingLeft'
  BY <1>2, <1>3 DEF InboxInv, NothingLeft
<1> QED
  BY <1>10, <1>12, <1>13, <1>14, <1>15

LEMMA CheckingKept ==
    ASSUME Inbox!BoundsAssumption, InboxInv, NEW c \in Checks, Inbox!Check(c) \/ (Inbox!CheckStep(c) /\ ~Inbox!SaveSeen(c))
    PROVE  FiledInOrder' /\ TimesKnown' /\ AllCovered' /\ ListsWhole' /\ NothingLeft'
<1>0. /\ check \in [Checks -> CheckRecord] /\ clock \in Int /\ faults \in Nat
      /\ lastSeen \in Remembered /\ \A d \in Checks : check[d].since \in Remembered
  BY InboxBounds DEF InboxInv, Inbox!TypeOK, Inbox!Times, CheckRecord, CheckSteps, Remembered
<1> DEFINE Gives(rec) == check' = [check EXCEPT ![c] = rec]
<1>1. ASSUME NEW rec, Gives(rec), UNCHANGED lastSeen, rec.since \in Remembered \cup {Inbox!Never}
      PROVE  Remembered' \subseteq Remembered \cup {Inbox!Never}
  <2>1. check'[c] = rec /\ \A d \in Checks \ {c} : check'[d] = check[d]
    BY <1>1, OneCheck DEF InboxInv
  <2> SUFFICES ASSUME NEW x \in Remembered' PROVE x \in Remembered \cup {Inbox!Never}
    OBVIOUS
  <2>2. CASE x = lastSeen'
    BY <1>0, <1>1, <2>2
  <2>3. CASE \E d \in Checks : x = check'[d].since
    BY <1>0, <1>1, <2>1, <2>3
  <2> QED
    BY <2>2, <2>3 DEF Remembered
<1>2. ASSUME NEW rec, Gives(rec), UNCHANGED <<createdAt, inbox>>, rec.st # "listed",
             rec.st # "notifying" => rec.left = {}
      PROVE  ListsWhole' /\ NothingLeft'
  <2>1. check'[c] = rec /\ \A d \in Checks \ {c} : check'[d] = check[d]
    BY <1>2, OneCheck DEF InboxInv
  <2>2. ListsWhole'
    BY <1>2, <2>1, ListsKept
  <2> QED
    BY <1>2, <2>1, <2>2 DEF InboxInv, NothingLeft
\* Nothing is forgotten by a step of a check that has nothing left to tell of.
<1>3. ASSUME NEW rec, Gives(rec), UNCHANGED notified, check[c].left = {}
      PROVE  \A r : Told(r) => Told(r)'
  <2>1. \A d \in Checks \ {c} : check'[d] = check[d]
    BY <1>3, OneCheck DEF InboxInv
  <2> QED
    BY <1>3, <2>1 DEF Told
<1>4. ASSUME NEW rec, Gives(rec), UNCHANGED <<clock, createdAt, inbox, lastSeen, start, faults>>,
             rec.since \in Remembered \cup {Inbox!Never}, \A r : Told(r) => Told(r)'
      PROVE  FiledInOrder' /\ TimesKnown' /\ AllCovered'
  <2> HIDE DEF Gives
  <2>1. Remembered' \subseteq Remembered \cup {Inbox!Never}
    BY <1>1, <1>4
  <2>2. UNCHANGED <<createdAt, start>> /\ clock' \in Int /\ clock <= clock' /\ inbox' \subseteq inbox /\ faults' \in Nat /\ faults <= faults'
    BY <1>0, <1>4
  <2> QED
    BY <1>4, <2>1, <2>2, NothingSaved
<1>5. Inbox!NoCheck.st = "idle" /\ Inbox!NoCheck.since = Inbox!Never /\ Inbox!NoCheck.left = {}
  BY DEF Inbox!NoCheck
<1>6. CASE Inbox!Check(c)
  <2> DEFINE rec == [Inbox!NoCheck EXCEPT !.st = "asking", !.since = lastSeen]
  <2>1. rec.st = "asking" /\ rec.since = lastSeen /\ rec.left = {}
    BY DEF Inbox!NoCheck
  <2>2. Gives(rec) /\ check[c].left = {} /\ UNCHANGED <<clock, createdAt, inbox, lastSeen, notified, start, faults>>
    BY <1>6 DEF Inbox!Check, InboxInv, NothingLeft
  <2> HIDE DEF rec, Gives
  <2> QED
    BY <1>0, <1>2, <1>3, <1>4, <2>1, <2>2
<1>7. CASE Inbox!Listed(c)
  <2> DEFINE rec == [check[c] EXCEPT !.st = "listed", !.listed = Inbox!List(check[c].since)]
  <2>1. /\ rec.st = "listed" /\ rec.since = check[c].since /\ rec.listed = Inbox!List(check[c].since)
        /\ rec.left = check[c].left
    BY <1>0 DEF CheckRecord
  <2>2. Gives(rec) /\ check[c].left = {} /\ UNCHANGED <<clock, createdAt, inbox, lastSeen, notified, start, faults>>
    BY <1>7 DEF Inbox!Listed, InboxInv, NothingLeft
  <2>3. check'[c] = rec /\ \A d \in Checks \ {c} : check'[d] = check[d]
    BY <2>2, OneCheck DEF InboxInv
  <2> HIDE DEF rec, Gives
  <2>4. FiledInOrder' /\ TimesKnown' /\ AllCovered'
    BY <1>0, <1>3, <1>4, <2>1, <2>2
  <2>5. NothingLeft'
    BY <2>1, <2>2, <2>3 DEF InboxInv, NothingLeft
  <2>6. Inbox!Reports' = Inbox!Reports /\ \A r : Exempt(r)' <=> Exempt(r)
    BY <2>2 DEF Inbox!Reports, Exempt
  <2>7. ASSUME NEW d \in Checks, check'[d].st = "listed", check'[d].since # Inbox!Never,
               NEW r \in inbox, NEW l \in check'[d].listed,
               createdAt[r] > check'[d].since, createdAt[r] <= createdAt[l]
        PROVE  r \in Inbox!FirstOf(check'[d].listed, Shown) \/ Exempt(r)
    <3>1. CASE d = c
      <4> DEFINE S == {q \in inbox : Inbox!Newer(q, check[c].since)}
                 named == Inbox!FirstOf(S, Limit)
      <4>1. r \in S /\ S \in SUBSET Inbox!Reports
        BY <2>1, <2>3, <2>7, <3>1 DEF Inbox!Newer, InboxInv, Inbox!TypeOK
      <4>2. named \in SUBSET Inbox!Reports
        BY <4>1 DEF Inbox!FirstOf
      <4>3. check'[d].listed = named
        BY <2>1, <2>3, <3>1 DEF Inbox!List
      <4> HIDE DEF S
      <4>4. r \in named \/ Exempt(r)
        BY <4>1, CutIsExempt, InboxBounds DEF InboxInv
      <4> HIDE DEF named
      <4>5. r \in named => r \in Inbox!FirstOf(named, Shown) \/ Exempt(r)
        BY <4>2, CutIsExempt, InboxBounds DEF InboxInv
      <4> QED
        BY <4>3, <4>4, <4>5
    <3>2. CASE d # c
      BY <2>3, <2>7, <3>2 DEF InboxInv, ListsWhole
    <3> QED
      BY <3>1, <3>2
  <2>8. ListsWhole'
    BY <2>2, <2>6, <2>7 DEF ListsWhole, Inbox!FirstOf, Inbox!Never
  <2> QED
    BY <2>4, <2>5, <2>8
<1>8. CASE Inbox!Offline(c)
  <2>1. Gives(Inbox!NoCheck) /\ check[c].left = {} /\ UNCHANGED <<clock, createdAt, inbox, lastSeen, notified, start, faults>>
    BY <1>8 DEF Inbox!Offline, InboxInv, NothingLeft
  <2> HIDE DEF Gives
  <2> QED
    BY <1>2, <1>3, <1>4, <1>5, <2>1
<1>9. CASE Inbox!Notify(c)
  <2>1. PICK r \in check[c].left : /\ notified' = notified \cup {r}
                                    /\ check' = [check EXCEPT ![c].left = @ \ {r}]
    BY <1>9 DEF Inbox!Notify
  <2> DEFINE rec == [check[c] EXCEPT !.left = check[c].left \ {r}]
  <2>2. rec.st = check[c].st /\ rec.since = check[c].since /\ rec.left = check[c].left \ {r}
    BY <1>0 DEF CheckRecord
  <2>3. /\ Gives(rec) /\ check[c].st = "notifying"
        /\ UNCHANGED <<clock, createdAt, inbox, lastSeen, start, faults>>
    BY <1>9, <2>1 DEF Inbox!Notify
  <2>4. check'[c] = rec /\ \A d \in Checks \ {c} : check'[d] = check[d]
    BY <2>3, OneCheck DEF InboxInv
  <2> HIDE DEF rec, Gives
  <2>5. \A q : Told(q) => Told(q)'
    BY <2>1, <2>2, <2>4 DEF Told
  <2> QED
    BY <1>0, <1>2, <1>4, <2>2, <2>3, <2>5
<1>10. CASE Inbox!NotifyFails(c)
  <2>1. Gives(Inbox!NoCheck) /\ UNCHANGED <<clock, createdAt, inbox, lastSeen, notified, start>> /\ faults' = faults + 1
    BY <1>10 DEF Inbox!NotifyFails
  <2>2. faults' \in Nat /\ faults <= faults' /\ faults' # 0
    BY <1>0, <2>1
  <2> HIDE DEF Gives
  <2>3. Remembered' \subseteq Remembered \cup {Inbox!Never}
    BY <1>1, <1>5, <2>1
  <2>4. FiledInOrder' /\ TimesKnown' /\ AllCovered'
    BY <1>0, <2>1, <2>2, <2>3, NothingSaved
  <2> QED
    BY <1>2, <1>5, <2>1, <2>4
<1>11. CASE Inbox!EndCheck(c)
  <2>1. Gives(Inbox!NoCheck) /\ check[c].left = {} /\ UNCHANGED <<clock, createdAt, inbox, lastSeen, notified, start, faults>>
    BY <1>11 DEF Inbox!EndCheck
  <2> HIDE DEF Gives
  <2> QED
    BY <1>2, <1>3, <1>4, <1>5, <2>1
<1> QED
  BY <1>6, <1>7, <1>8, <1>9, <1>10, <1>11 DEF Inbox!CheckStep

LEMMA InboxInvHolds ==
    Inbox!BoundsAssumption => (Inbox!Spec => []InboxInv)
<1> SUFFICES ASSUME Inbox!BoundsAssumption PROVE Inbox!Spec => []InboxInv
  OBVIOUS
<1>1. Inbox!Init => InboxInv
  <2> SUFFICES ASSUME Inbox!Init PROVE InboxInv
    OBVIOUS
  <2>1. Inbox!Reports = {} /\ Remembered \subseteq {Inbox!Never} /\ createdAt \in Seq(Inbox!Times) /\ Len(createdAt) = 0
    BY DEF Inbox!Init, Inbox!Reports, Remembered, Inbox!NoCheck, Inbox!Never
  <2>2. Inbox!NoCheck \in CheckRecord /\ Inbox!NoCheck.listed = {} /\ Inbox!NoCheck.left = {} /\ Inbox!NoCheck.st = "idle" /\ Cardinality({}) = 0
    BY NoCheckTyped DEF Inbox!NoCheck
  <2>3. Inbox!TypeOK
    <3>1. 1 \in Inbox!Times /\ 0 \in 0 .. MaxFaults /\ 0 <= MaxReports /\ 0 <= Keep /\ 0 <= Limit /\ 0 <= Shown
      BY InboxBounds DEF Inbox!Times
    <3>2. check \in [Checks -> CheckRecord] /\ \A c \in Checks : check[c].listed = {} /\ check[c].left = {}
      BY <2>2 DEF Inbox!Init
    <3>3. check \in [Checks -> [st : {"idle", "asking", "listed", "notifying"}, since : Inbox!Times \cup {Inbox!Never},
                                listed : SUBSET Inbox!Reports, left : SUBSET Inbox!Reports]]
      BY <3>2 DEF CheckRecord, CheckSteps
    <3> HIDE DEF CheckRecord
    <3> QED
      BY <2>1, <2>2, <3>1, <3>2, <3>3, InboxCardinality DEF Inbox!Init, Inbox!TypeOK
  <2>4. FiledInOrder /\ TimesKnown
    BY <2>1 DEF Inbox!Init, FiledInOrder, TimesKnown, Known, Inbox!Never
  <2>5. AllCovered /\ ListsWhole /\ NothingLeft
    BY <2>2 DEF Inbox!Init, AllCovered, Covered, ListsWhole, NothingLeft
  <2> QED
    BY <2>3, <2>4, <2>5 DEF InboxInv
<1>2. InboxInv /\ [Inbox!Next]_(Inbox!vars) => InboxInv'
  <2> SUFFICES ASSUME InboxInv, [Inbox!Next]_(Inbox!vars) PROVE InboxInv'
    OBVIOUS
  <2>0. /\ Inbox!TypeOK' /\ clock \in Int /\ faults \in Nat
    BY TypeKept, InboxBounds DEF InboxInv, Inbox!TypeOK, Inbox!Times
  <2> SUFFICES FiledInOrder' /\ TimesKnown' /\ AllCovered' /\ ListsWhole' /\ NothingLeft'
    BY <2>0 DEF InboxInv
  <2>1. CASE Inbox!Tick
    <3>1. /\ clock' \in Int /\ clock <= clock'
          /\ UNCHANGED <<createdAt, inbox, lastSeen, check, notified, start, faults>>
      BY <2>0, <2>1 DEF Inbox!Tick
    <3>2. Remembered' = Remembered /\ \A r : Told(r) => Told(r)'
      BY <3>1 DEF Remembered, Told
    <3> QED
      BY <2>0, <3>1, <3>2, NothingSaved, ListsKept DEF InboxInv, NothingLeft
  <2>2. CASE Inbox!Add
    BY <2>2, FilingKept
  <2>3. CASE Inbox!RemoveReport
    <3>1. inbox' \subseteq inbox /\ UNCHANGED <<clock, createdAt, lastSeen, check, notified, start, faults>>
      BY <2>3 DEF Inbox!RemoveReport
    <3>2. Remembered' = Remembered /\ \A r : Told(r) => Told(r)'
      BY <3>1 DEF Remembered, Told
    <3> QED
      BY <2>0, <3>1, <3>2, NothingSaved, ListsKept DEF InboxInv, NothingLeft
  <2>4. CASE Inbox!Kill
    <3>1. /\ faults' = faults + 1 /\ UNCHANGED <<clock, createdAt, inbox, lastSeen, notified, start>>
          /\ \A c \in Checks : check'[c].st = "idle" /\ check'[c].since = Inbox!Never /\ check'[c].left = {}
      BY <2>4 DEF Inbox!Kill, Inbox!NoCheck
    <3>2. Remembered' \subseteq Remembered \cup {Inbox!Never}
      BY <3>1 DEF Remembered, Inbox!Never
    <3>3. faults' \in Nat /\ faults <= faults' /\ faults' # 0
      BY <2>0, <3>1
    <3>4. ListsWhole' /\ NothingLeft'
      BY <3>1, ListsKept DEF NothingLeft
    <3> QED
      BY <2>0, <3>1, <3>2, <3>3, <3>4, NothingSaved
  <2>5. CASE \E c \in Checks : Inbox!Check(c) \/ Inbox!CheckStep(c)
    BY <2>5, CheckingKept, SavingKept
  <2>6. CASE UNCHANGED Inbox!vars
    <3>1. UNCHANGED <<clock, createdAt, inbox, lastSeen, check, notified, start, faults>>
      BY <2>6 DEF Inbox!vars
    <3>2. Remembered' = Remembered /\ \A r : Told(r) => Told(r)'
      BY <3>1 DEF Remembered, Told
    <3> QED
      BY <2>0, <3>1, <3>2, NothingSaved, ListsKept DEF InboxInv, NothingLeft
  <2> QED
    BY <2>1, <2>2, <2>3, <2>4, <2>5, <2>6 DEF Inbox!Next
<1> QED
  BY <1>1, <1>2, PTL DEF Inbox!Spec

(* The inbox, the phone's memory of it and its checks keep their types, and  *)
(* no list is longer than it may be.                                         *)
THEOREM InboxTyped ==
    Inbox!BoundsAssumption => (Inbox!Spec => []Inbox!TypeOK)
<1> SUFFICES ASSUME Inbox!BoundsAssumption PROVE Inbox!Spec => []Inbox!TypeOK
  OBVIOUS
<1>1. InboxInv => Inbox!TypeOK
  BY DEF InboxInv
<1> QED
  BY <1>1, InboxInvHolds, PTL

(* No report is passed over: what the phone remembers having seen was told   *)
(* of, or is exempt, however its checks meet.                                *)
THEOREM NoReportPassedOver ==
    Inbox!BoundsAssumption => (Inbox!Spec => []Inbox!NonePassedOver)
<1> SUFFICES ASSUME Inbox!BoundsAssumption PROVE Inbox!Spec => []Inbox!NonePassedOver
  OBVIOUS
<1>1. InboxInv => Inbox!NonePassedOver
  <2> SUFFICES ASSUME InboxInv, faults = 0, NEW r \in inbox, createdAt[r] <= lastSeen, createdAt[r] > start
               PROVE  Told(r) \/ Exempt(r)
    BY InboxCardinality DEF Inbox!NonePassedOver, Told, Exempt
  <2>1. lastSeen \in Remembered
    BY DEF Remembered
  <2> QED
    BY <2>1 DEF InboxInv, AllCovered, Covered
<1> QED
  BY <1>1, InboxInvHolds, PTL
-----------------------------------------------------------------------------
(* The voice composer (VoiceComposer): for any number of starts, ends and    *)
(* drafts, a recording is sent at most once.                                 *)

StartSteps == {"permission", "preparing", "prepared", "over"}
VoiceStarts == [st : StartSteps, own : BOOLEAN]
VoiceCalls == Voice!Ended("finish") \cup Voice!Ended("cancel")
VoiceSent == [take : 0 .. MaxStarts, of : 0 .. MaxStarts, draft : 0 .. MaxDrafts]

VoiceTyped ==
    /\ mic \in {"idle", "starting", "recording", "denied"}
    /\ starts \in Seq(VoiceStarts) /\ Len(starts) <= MaxStarts
    /\ ends \in Seq(VoiceCalls) /\ Len(ends) <= MaxEnds
    /\ take \in 0 .. MaxStarts
    /\ on \in BOOLEAN /\ long \in BOOLEAN /\ finishing \in BOOLEAN /\ picking \in BOOLEAN /\ busy \in BOOLEAN
    /\ draft \in 0 .. MaxDrafts /\ drafts \in 0 .. MaxDrafts
    /\ sent \in Seq(VoiceSent)
    /\ dropped \subseteq 1 .. MaxStarts

(* A take is known only once it was prepared, so a start that prepares has   *)
(* a take nobody has seen.                                                   *)
Ready(t) == t \in DOMAIN starts /\ starts[t].st \in {"prepared", "over"}
TakesMade == /\ take # 0 => Ready(take)
             /\ take = 0 => ~on /\ \A c \in DOMAIN starts : starts[c].st # "prepared"
             /\ \A e \in DOMAIN ends : ends[e].take # 0 => Ready(ends[e].take)
             /\ \A i \in DOMAIN sent : sent[i].take # 0 => Ready(sent[i].take)
             /\ \A t \in dropped : Ready(t)

(* While a start with a take of its own is under way nothing is recorded and *)
(* no other start is; while its take is the recorder's, no other start may   *)
(* begin the recording, and the calls of finish() under way are of it.       *)
Own(t) == t # 0 /\ starts[t].own
Finished(e) == ends[e].how = "finish"
Alone == \A c \in DOMAIN starts : starts[c].own /\ starts[c].st # "over" =>
            mic # "recording" /\ \A d \in DOMAIN starts : starts[d].st # "over" => d = c
Current == Own(take) => /\ \A d \in DOMAIN starts : starts[d].st = "prepared" => d = take
                        /\ on \/ take \in dropped => starts[take].st = "over"
                        /\ take \in dropped => finishing
                        /\ \A e \in DOMAIN ends : Finished(e) /\ ends[e].st # "over" => ends[e].take = take

(* Such a take is finished by one call, only while no other call may end it, *)
(* and not when it was dropped; what was sent is of a call that is over.     *)
FinishedOnce ==
    /\ \A e \in DOMAIN ends : Finished(e) /\ Own(ends[e].take) =>
          /\ ends[e].take \notin dropped
          /\ ends[e].take = take => finishing /\ starts[take].st = "over"
    /\ \A e, f \in DOMAIN ends : Finished(e) /\ Finished(f) /\ ends[e].take = ends[f].take /\ Own(ends[e].take) => e = f
SentOnce ==
    /\ \A i \in DOMAIN sent : Own(sent[i].take) =>
          /\ sent[i].of = sent[i].take
          /\ \E e \in DOMAIN ends : Finished(e) /\ ends[e].st = "over" /\ ends[e].take = sent[i].take
    /\ \A i, j \in DOMAIN sent : sent[i].take = sent[j].take /\ Own(sent[i].take) => i = j

VoiceInv == VoiceTyped /\ TakesMade /\ Alone /\ Current /\ FinishedOnce /\ SentOnce

LEMMA VoiceBounds ==
    Voice!BoundsAssumption => MaxStarts \in Nat \ {0} /\ MaxDrafts \in Nat \ {0} /\ MaxEnds \in Nat \ {0}
BY DEF Voice!BoundsAssumption

LEMMA VoiceIsTyped == VoiceTyped => Voice!TypeOK
BY DEF VoiceTyped, Voice!TypeOK, StartSteps, VoiceStarts, VoiceCalls, VoiceSent

\* A start that goes on.
LEMMA StartKept ==
    ASSUME VoiceTyped, NEW c \in DOMAIN starts, NEW st \in StartSteps, NEW own \in BOOLEAN,
           starts' = [starts EXCEPT ![c] = [st |-> st, own |-> own]]
    PROVE  /\ starts' \in Seq(VoiceStarts) /\ Len(starts') = Len(starts) /\ DOMAIN starts' = DOMAIN starts
           /\ starts'[c].st = st /\ starts'[c].own = own /\ \A d \in DOMAIN starts \ {c} : starts'[d] = starts[d]
<1> DEFINE new == [st |-> st, own |-> own]
<1>1. new \in VoiceStarts /\ new.st = st /\ new.own = own
  BY DEF VoiceStarts
<1> HIDE DEF new
<1>2. starts \in Seq(VoiceStarts) /\ starts' = [starts EXCEPT ![c] = new]
  BY DEF VoiceTyped, new
<1> QED
  BY <1>1, <1>2

LEMMA StartStepped ==
    ASSUME VoiceTyped, NEW c \in DOMAIN starts, NEW st \in StartSteps, Voice!StartStep(c, st)
    PROVE  /\ starts' \in Seq(VoiceStarts) /\ Len(starts') = Len(starts) /\ DOMAIN starts' = DOMAIN starts
           /\ starts'[c].st = st /\ starts'[c].own = starts[c].own /\ \A d \in DOMAIN starts \ {c} : starts'[d] = starts[d]
<1>1. starts \in Seq(VoiceStarts) /\ starts[c] \in VoiceStarts /\ starts' = [starts EXCEPT ![c].st = st]
  BY DEF VoiceTyped, Voice!StartStep
<1>2. starts[c].own \in BOOLEAN /\ [starts[c] EXCEPT !.st = st] = [st |-> st, own |-> starts[c].own]
  BY <1>1 DEF VoiceStarts
<1>3. starts' = [starts EXCEPT ![c] = [st |-> st, own |-> starts[c].own]]
  BY <1>1, <1>2
<1> QED
  BY <1>2, <1>3, StartKept

\* A call that comes, and one that goes on.
LEMMA CallAdded ==
    ASSUME Voice!BoundsAssumption, VoiceTyped, NEW call \in VoiceCalls, ends' = Append(ends, call), Len(ends) < MaxEnds
    PROVE  /\ ends' \in Seq(VoiceCalls) /\ Len(ends') <= MaxEnds
           /\ DOMAIN ends' = DOMAIN ends \cup {Len(ends) + 1} /\ Len(ends) + 1 \notin DOMAIN ends
           /\ ends'[Len(ends) + 1] = call /\ \A e \in DOMAIN ends : ends'[e] = ends[e]
BY VoiceBounds DEF VoiceTyped

LEMMA CallKept ==
    ASSUME VoiceTyped, NEW e \in DOMAIN ends, NEW st \in {"stopping", "releasing", "over"}, ends' = [ends EXCEPT ![e].st = st]
    PROVE  /\ ends' \in Seq(VoiceCalls) /\ Len(ends') = Len(ends) /\ DOMAIN ends' = DOMAIN ends
           /\ \A f \in DOMAIN ends : ends'[f].how = ends[f].how /\ ends'[f].take = ends[f].take
           /\ ends'[e].st = st /\ \A f \in DOMAIN ends \ {e} : ends'[f].st = ends[f].st
<1>1. ends \in Seq(VoiceCalls) /\ ends[e] \in VoiceCalls
  BY DEF VoiceTyped
<1> DEFINE call == [ends[e] EXCEPT !.st = st]
<1>2. call \in VoiceCalls /\ call.st = st /\ call.how = ends[e].how /\ call.take = ends[e].take
  BY <1>1 DEF VoiceCalls, Voice!Ended
<1>3. ends' = [ends EXCEPT ![e] = call]
  OBVIOUS
<1> HIDE DEF call
<1> QED
  BY <1>1, <1>2, <1>3

\* The takes are as they were after a step that makes, ends and sends none.
StartsGoOn ==
    /\ DOMAIN starts \subseteq DOMAIN starts'
    /\ \A d \in DOMAIN starts : /\ starts'[d].own => starts[d].own
                                /\ starts[d].st = "over" => starts'[d].st = "over"
                                /\ starts[d].st = "prepared" => starts'[d].st \in {"prepared", "over"}
    /\ \A d \in DOMAIN starts' : starts'[d].st = "prepared" => d \in DOMAIN starts /\ starts[d].st = "prepared"
CallsGoOn ==
    /\ DOMAIN ends' = DOMAIN ends
    /\ \A f \in DOMAIN ends : ends'[f].how = ends[f].how /\ ends'[f].take = ends[f].take
                              /\ (ends[f].st = "over" => ends'[f].st = "over")
LEMMA TakesKept ==
    ASSUME VoiceInv, UNCHANGED <<take, finishing, dropped>>, on' => on, StartsGoOn, CallsGoOn,
           sent' = sent \/ \E s \in VoiceSent : s.take = 0 /\ sent' = Append(sent, s)
    PROVE  TakesMade' /\ Current' /\ FinishedOnce' /\ SentOnce'
<1>1. \A i \in DOMAIN sent' : sent'[i].take # 0 => i \in DOMAIN sent /\ sent'[i] = sent[i]
  <2>1. sent \in Seq(VoiceSent)
    BY DEF VoiceInv, VoiceTyped
  <2>2. ASSUME NEW s \in VoiceSent, s.take = 0, sent' = Append(sent, s)
        PROVE  \A i \in DOMAIN sent' : sent'[i].take # 0 => i \in DOMAIN sent /\ sent'[i] = sent[i]
    BY <2>1, <2>2
  <2> QED
    BY <2>1, <2>2
<1>2. \A t : Ready(t) => Ready(t)'
  BY DEF Ready, StartsGoOn
<1>3. \A t : Ready(t) /\ t # 0 /\ starts'[t].own => Own(t)
  BY DEF Ready, Own, StartsGoOn
<1>4. \A f \in DOMAIN ends : Finished(f)' <=> Finished(f)
  BY DEF Finished, CallsGoOn
<1>5. TakesMade'
  BY <1>1, <1>2 DEF VoiceInv, TakesMade, StartsGoOn, CallsGoOn
<1>6. Own(take)' => take # 0 /\ Own(take) /\ Ready(take) /\ take' = take
  BY <1>3 DEF VoiceInv, TakesMade, Own
<1>7. Current'
  BY <1>4, <1>6 DEF VoiceInv, Current, Ready, StartsGoOn, CallsGoOn
<1>8. \A f \in DOMAIN ends : Own(ends[f].take)' => ends'[f].take = ends[f].take /\ Own(ends[f].take) /\ Ready(ends[f].take)
  BY <1>3 DEF VoiceInv, TakesMade, Own, CallsGoOn
<1>9. FinishedOnce'
  BY <1>4, <1>8 DEF VoiceInv, FinishedOnce, Ready, StartsGoOn, CallsGoOn
<1>10. \A i \in DOMAIN sent' : Own(sent[i].take)' => i \in DOMAIN sent /\ sent'[i] = sent[i] /\ Own(sent[i].take)
  BY <1>1, <1>3 DEF VoiceInv, TakesMade, Own
<1>11. SentOnce'
  BY <1>4, <1>10 DEF VoiceInv, SentOnce, CallsGoOn
<1> QED
  BY <1>5, <1>7, <1>9, <1>11

\* The second press of the microphone, too.
LEMMA MicStep ==
    ASSUME Voice!BoundsAssumption, VoiceInv, Voice!Mic
    PROVE  VoiceInv'
<1> USE VoiceBounds
<1> DEFINE was(c) == [starts[c] EXCEPT !.own = @ /\ starts[c].st = "over"]
           before == [c \in DOMAIN starts |-> was(c)]
           alone == \A c \in DOMAIN starts : starts[c].st = "over"
           new == [st |-> "permission", own |-> alone]
<1>1. /\ mic # "starting" /\ mic # "recording" /\ Len(starts) < MaxStarts
      /\ UNCHANGED <<mic, ends, take, on, long, finishing, draft, drafts, picking, busy, sent, dropped>>
  BY DEF Voice!Mic, Voice!draftVars, Voice!Recording
<1>2. starts' = Append(before, new)
  BY DEF Voice!Mic, Voice!UnderWay
<1>3. starts \in Seq(VoiceStarts) /\ \A c \in DOMAIN starts : starts[c] \in VoiceStarts
  BY DEF VoiceInv, VoiceTyped
<1>4. \A c \in DOMAIN starts : /\ was(c) \in VoiceStarts /\ was(c).st = starts[c].st
                               /\ was(c).own <=> starts[c].own /\ starts[c].st = "over"
  BY <1>3 DEF VoiceStarts
<1>5. new \in VoiceStarts /\ new.st = "permission" /\ (new.own <=> alone)
  <2>1. alone \in BOOLEAN
    OBVIOUS
  <2> HIDE DEF alone
  <2> QED
    BY <2>1 DEF VoiceStarts, StartSteps
<1> HIDE DEF was, new
<1>6. before \in Seq(VoiceStarts) /\ Len(before) = Len(starts) /\ DOMAIN before = DOMAIN starts
  BY <1>3, <1>4
<1> PICK n : n = Len(starts) + 1
  OBVIOUS
<1>7. /\ starts' \in Seq(VoiceStarts) /\ Len(starts') <= MaxStarts
      /\ DOMAIN starts' = DOMAIN starts \cup {n} /\ n \notin DOMAIN starts
      /\ starts'[n] = new /\ \A c \in DOMAIN starts : starts'[c] = was(c)
  <2>1. \A c \in DOMAIN starts : before[c] = was(c)
    OBVIOUS
  <2> HIDE DEF before
  <2> QED
    BY <1>1, <1>2, <1>3, <1>5, <1>6, <2>1
<1> HIDE DEF before
<1>8. StartsGoOn
  BY <1>4, <1>5, <1>7 DEF StartsGoOn
<1>9. CallsGoOn
  BY <1>1 DEF CallsGoOn
<1>10. Alone'
  BY <1>1, <1>4, <1>5, <1>7 DEF Alone
<1>11. VoiceTyped'
  BY <1>1, <1>7 DEF VoiceInv, VoiceTyped
<1> QED
  BY <1>1, <1>8, <1>9, <1>10, <1>11, TakesKept DEF VoiceInv

\* Nobody knows of the take that is prepared.
LEMMA PreparedStep ==
    ASSUME Voice!BoundsAssumption, VoiceInv, NEW c \in DOMAIN starts, Voice!Prepared(c)
    PROVE  VoiceInv'
<1> DEFINE finish == \E e \in DOMAIN ends : Finished(e) /\ ends[e].st # "over"
           own == starts[c].own /\ ~finish
<1>1. /\ starts[c].st = "preparing" /\ take' = c /\ on' = FALSE /\ long' = FALSE
      /\ UNCHANGED <<mic, ends, finishing, draft, drafts, picking, busy, sent, dropped>>
  BY DEF Voice!Prepared, Voice!draftVars
<1>2. starts' = [starts EXCEPT ![c] = [st |-> "prepared", own |-> own]]
  BY DEF Voice!Prepared, Voice!Finishing, Finished
<1>3. VoiceTyped /\ starts \in Seq(VoiceStarts) /\ c \in 1 .. MaxStarts /\ c # 0
  BY VoiceBounds DEF VoiceInv, VoiceTyped
<1>4. own \in BOOLEAN
  BY <1>3 DEF VoiceStarts
<1>5. own => starts[c].own /\ ~finish
  OBVIOUS
<1> HIDE DEF own
<1>6. /\ starts' \in Seq(VoiceStarts) /\ Len(starts') = Len(starts) /\ DOMAIN starts' = DOMAIN starts
      /\ starts'[c].st = "prepared" /\ starts'[c].own = own /\ \A d \in DOMAIN starts \ {c} : starts'[d] = starts[d]
  BY <1>2, <1>3, <1>4, StartKept DEF StartSteps
<1>7. VoiceTyped'
  <2>1. on' \in BOOLEAN /\ long' \in BOOLEAN
    BY <1>1, Zenon
  <2>2. take' \in 0 .. MaxStarts
    BY <1>1, <1>3
  <2> QED
    BY <1>1, <1>3, <1>6, <2>1, <2>2 DEF VoiceTyped
<1>8. ~Ready(c) /\ \A t : Ready(t) => t \in DOMAIN starts \ {c} /\ starts'[t] = starts[t] /\ Ready(t)'
  BY <1>1, <1>6 DEF Ready
<1>9. TakesMade'
  <2>1. Ready(c)'
    BY <1>6 DEF Ready
  <2> QED
    BY <1>1, <1>3, <1>8, <2>1 DEF VoiceInv, TakesMade
<1>10. Alone'
  BY <1>1, <1>5, <1>6 DEF VoiceInv, Alone
<1>11. \A e \in DOMAIN ends : ends[e].take # c /\ (Own(ends[e].take)' => Own(ends[e].take))
  BY <1>1, <1>3, <1>8 DEF VoiceInv, TakesMade, Own
<1>12. \A i \in DOMAIN sent : Own(sent[i].take)' => Own(sent[i].take)
  BY <1>1, <1>3, <1>8 DEF VoiceInv, TakesMade, Own
<1>13. Current'
  <2> SUFFICES ASSUME own PROVE Current'
    BY <1>1, <1>6 DEF Current, Own
  <2>1. \A d \in DOMAIN starts : starts[d].st # "over" => d = c
    BY <1>1, <1>5 DEF VoiceInv, Alone
  <2>2. c \notin dropped
    BY <1>8 DEF VoiceInv, TakesMade
  <2> QED
    BY <1>1, <1>5, <1>6, <2>1, <2>2 DEF Current, Finished
<1>14. FinishedOnce'
  BY <1>1, <1>11 DEF VoiceInv, FinishedOnce, Finished
<1>15. SentOnce'
  BY <1>1, <1>12 DEF VoiceInv, SentOnce, Finished
<1> QED
  BY <1>7, <1>9, <1>10, <1>13, <1>14, <1>15 DEF VoiceInv

LEMMA RecordStep ==
    ASSUME Voice!BoundsAssumption, VoiceInv, NEW c \in DOMAIN starts, Voice!Record(c)
    PROVE  VoiceInv'
<1>1. /\ starts[c].st = "prepared" /\ Voice!StartStep(c, "over") /\ mic' = "recording" /\ on' = TRUE /\ finishing' = FALSE
      /\ UNCHANGED <<ends, take, long, draft, drafts, picking, busy, sent, dropped>>
  BY DEF Voice!Record, Voice!draftVars
<1>2. VoiceTyped
  BY DEF VoiceInv
<1>3. /\ starts' \in Seq(VoiceStarts) /\ Len(starts') = Len(starts) /\ DOMAIN starts' = DOMAIN starts
      /\ starts'[c].st = "over" /\ starts'[c].own = starts[c].own /\ \A d \in DOMAIN starts \ {c} : starts'[d] = starts[d]
  BY <1>1, <1>2, StartStepped DEF StartSteps
<1>4. VoiceTyped'
  BY <1>1, <1>2, <1>3 DEF VoiceTyped
<1>5. \A t : (Ready(t) => Ready(t)') /\ (t \in DOMAIN starts => starts'[t].own = starts[t].own)
  BY <1>3 DEF Ready
<1>6. TakesMade' /\ take # 0 /\ take \in DOMAIN starts
  BY <1>1, <1>5 DEF VoiceInv, TakesMade, Ready
<1>7. Alone'
  BY <1>1, <1>3 DEF VoiceInv, Alone
\* It is the current take, which nothing has ended yet.
<1>8. Own(take)' => /\ Own(take) /\ take = c /\ take \notin dropped
                    /\ \A e \in DOMAIN ends : Finished(e) => ends[e].take # take
  <2> SUFFICES ASSUME Own(take)' PROVE Own(take) /\ take = c /\ take \notin dropped
                                       /\ \A e \in DOMAIN ends : Finished(e) => ends[e].take # take
    OBVIOUS
  <2>1. Own(take)
    BY <1>1, <1>5, <1>6 DEF Own
  <2>2. take = c
    BY <1>1, <2>1 DEF VoiceInv, Current
  <2> QED
    BY <1>1, <2>1, <2>2 DEF VoiceInv, Current, FinishedOnce
<1>9. Current'
  BY <1>1, <1>3, <1>8 DEF VoiceInv, Current, Finished
<1>10. \A e \in DOMAIN ends : Own(ends[e].take)' => Own(ends[e].take)
  BY <1>1, <1>5 DEF VoiceInv, TakesMade, Own, Ready
<1>11. \A i \in DOMAIN sent : Own(sent[i].take)' => Own(sent[i].take)
  BY <1>1, <1>5 DEF VoiceInv, TakesMade, Own, Ready
<1>12. FinishedOnce'
  <2>1. \A e \in DOMAIN ends : Finished(e)' /\ Own(ends[e].take)' => Finished(e) /\ ends[e].take # take
    BY <1>1, <1>8 DEF Finished
  <2> QED
    BY <1>1, <1>10, <2>1 DEF VoiceInv, FinishedOnce, Finished
<1>13. SentOnce'
  BY <1>1, <1>11 DEF VoiceInv, SentOnce, Finished
<1> QED
  BY <1>4, <1>6, <1>7, <1>9, <1>12, <1>13 DEF VoiceInv

LEMMA CallTyped ==
    ASSUME VoiceTyped, NEW how \in {"finish", "cancel"}, NEW clears \in BOOLEAN
    PROVE  LET call == Voice!Call(how, clears)
           IN  call \in VoiceCalls /\ call.how = how /\ call.take = take /\ call.st = "stopping"
BY DEF VoiceTyped, Voice!Call, VoiceCalls, Voice!Ended

\* A finished call of this take, when nothing ends it yet.
LEMMA FinishStep ==
    ASSUME Voice!BoundsAssumption, VoiceInv, NEW clears \in BOOLEAN, mic = "recording", Len(ends) < MaxEnds, Voice!Finish(clears),
           UNCHANGED <<mic, starts, take, on, long, drafts, picking, busy, sent, dropped>>
    PROVE  VoiceInv'
<1>0. finishing' = TRUE /\ VoiceTyped /\ draft \in 0 .. MaxDrafts /\ 0 \in 0 .. MaxDrafts
  BY VoiceBounds DEF Voice!Finish, VoiceInv, VoiceTyped
<1>1. CASE finishing
  <2>1. UNCHANGED <<ends, finishing>> /\ draft' \in 0 .. MaxDrafts
    BY <1>0, <1>1 DEF Voice!Finish, VoiceInv, VoiceTyped, Voice!NoDraft
  <2>2. StartsGoOn /\ CallsGoOn
    BY <2>1 DEF StartsGoOn, CallsGoOn
  <2> QED
    BY <1>0, <2>1, <2>2, TakesKept DEF VoiceInv, VoiceTyped, Alone
<1>2. CASE ~finishing
  <2> DEFINE call == Voice!Call("finish", clears)
  <2> PICK n : n = Len(ends) + 1
    OBVIOUS
  <2>1. ends' = Append(ends, call) /\ UNCHANGED draft
    BY <1>2 DEF Voice!Finish
  <2>2. call \in VoiceCalls /\ call.how = "finish" /\ call.take = take /\ call.st = "stopping"
    BY <1>0, CallTyped
  <2> HIDE DEF call
  <2>3. /\ ends' \in Seq(VoiceCalls) /\ Len(ends') <= MaxEnds
        /\ DOMAIN ends' = DOMAIN ends \cup {n} /\ n \notin DOMAIN ends
        /\ ends'[n] = call /\ \A e \in DOMAIN ends : ends'[e] = ends[e]
    BY <1>0, <2>1, <2>2, CallAdded
  <2>4. VoiceTyped'
    BY <1>0, <2>1, <2>3 DEF VoiceTyped
  <2>5. TakesMade'
    BY <2>2, <2>3 DEF VoiceInv, TakesMade, Ready
  <2>6. Alone'
    BY DEF VoiceInv, Alone
  <2>7. (\A e \in DOMAIN ends : Finished(e)' <=> Finished(e)) /\ Finished(n)'
    BY <2>2, <2>3 DEF Finished
  <2>8. Own(take) => /\ starts[take].st = "over" /\ take \notin dropped
                     /\ \A e \in DOMAIN ends : Finished(e) => ends[e].take # take
    <3> SUFFICES ASSUME Own(take) PROVE starts[take].st = "over" /\ take \notin dropped
                                        /\ \A e \in DOMAIN ends : Finished(e) => ends[e].take # take
      OBVIOUS
    <3>1. take \in DOMAIN starts
      BY DEF VoiceInv, TakesMade, Own, Ready
    <3>2. starts[take].st = "over"
      BY <3>1 DEF VoiceInv, Alone, Own
    <3> QED
      BY <1>2, <3>2 DEF VoiceInv, Current, FinishedOnce
  <2>9. Current'
    BY <1>0, <2>2, <2>3, <2>7, <2>8 DEF VoiceInv, Current, Own
  <2>10. FinishedOnce'
    BY <1>0, <2>2, <2>3, <2>7, <2>8 DEF VoiceInv, FinishedOnce, Own
  <2>11. SentOnce'
    BY <2>3, <2>7 DEF VoiceInv, SentOnce, Own
  <2> QED
    BY <2>4, <2>5, <2>6, <2>9, <2>10, <2>11 DEF VoiceInv
<1> QED
  BY <1>1, <1>2, <1>0

LEMMA CancelStep ==
    ASSUME Voice!BoundsAssumption, VoiceInv, Voice!Cancel
    PROVE  VoiceInv'
<1> DEFINE call == Voice!Call("cancel", FALSE)
<1> PICK n : n = Len(ends) + 1
  OBVIOUS
<1>1. /\ Len(ends) < MaxEnds /\ ends' = Append(ends, call) /\ finishing' = TRUE
      /\ dropped' = IF on /\ ~finishing THEN dropped \cup {take} ELSE dropped
      /\ UNCHANGED <<mic, starts, take, on, long, draft, drafts, picking, busy, sent>>
  BY DEF Voice!Cancel, Voice!draftVars
<1>2. VoiceTyped
  BY DEF VoiceInv
<1>3. call \in VoiceCalls /\ call.how = "cancel" /\ call.take = take
  BY <1>2, CallTyped
<1> HIDE DEF call
<1>4. /\ ends' \in Seq(VoiceCalls) /\ Len(ends') <= MaxEnds
      /\ DOMAIN ends' = DOMAIN ends \cup {n} /\ n \notin DOMAIN ends
      /\ ends'[n] = call /\ \A e \in DOMAIN ends : ends'[e] = ends[e]
  BY <1>1, <1>2, <1>3, CallAdded
\* What is dropped now was recorded and nothing ended it.
<1>5. \A t \in dropped' : t \in dropped \/ (t = take /\ take # 0 /\ on /\ ~finishing)
  BY <1>1 DEF VoiceInv, TakesMade
<1>6. VoiceTyped'
  BY <1>1, <1>2, <1>4, <1>5 DEF VoiceTyped
<1>7. TakesMade'
  BY <1>1, <1>3, <1>4, <1>5 DEF VoiceInv, TakesMade, Ready
<1>8. Alone'
  BY <1>1 DEF VoiceInv, Alone
<1>9. \A e \in DOMAIN ends' : Finished(e)' => e \in DOMAIN ends /\ Finished(e) /\ ends'[e] = ends[e]
  BY <1>3, <1>4 DEF Finished
<1>10. Current'
  BY <1>1, <1>5, <1>9 DEF VoiceInv, Current, Own
<1>11. FinishedOnce'
  BY <1>1, <1>5, <1>9 DEF VoiceInv, FinishedOnce, Own
<1>12. SentOnce'
  <2>1. \A e \in DOMAIN ends : Finished(e) => Finished(e)'
    BY <1>4 DEF Finished
  <2> QED
    BY <1>1, <1>4, <2>1 DEF VoiceInv, SentOnce, Own
<1> QED
  BY <1>6, <1>7, <1>8, <1>10, <1>11, <1>12 DEF VoiceInv

LEMMA ReleasedStep ==
    ASSUME Voice!BoundsAssumption, VoiceInv, NEW e \in DOMAIN ends, Voice!Released(e)
    PROVE  VoiceInv'
<1>1. /\ ends[e].st = "releasing" /\ ends' = [ends EXCEPT ![e].st = "over"]
      /\ draft' = (IF ends[e].clears THEN Voice!NoDraft ELSE draft)
      /\ UNCHANGED <<mic, starts, take, on, long, finishing, drafts, picking, dropped>>
  BY DEF Voice!Released
<1>2. VoiceTyped /\ draft' \in 0 .. MaxDrafts
  BY <1>1, VoiceBounds DEF VoiceInv, VoiceTyped, Voice!NoDraft
<1>3. /\ ends' \in Seq(VoiceCalls) /\ Len(ends') = Len(ends) /\ DOMAIN ends' = DOMAIN ends
      /\ \A f \in DOMAIN ends : ends'[f].how = ends[f].how /\ ends'[f].take = ends[f].take
      /\ ends'[e].st = "over" /\ \A f \in DOMAIN ends \ {e} : ends'[f].st = ends[f].st
  BY <1>1, <1>2, CallKept
<1>4. StartsGoOn /\ CallsGoOn /\ Alone'
  BY <1>1, <1>3 DEF VoiceInv, StartsGoOn, CallsGoOn, Alone
<1>5. CASE UNCHANGED <<sent, busy>>
  <2>1. VoiceTyped'
    BY <1>1, <1>2, <1>3, <1>5 DEF VoiceTyped
  <2> QED
    BY <1>1, <1>4, <1>5, <2>1, TakesKept DEF VoiceInv
<1>6. CASE /\ ends[e].how = "finish" /\ take # 0 /\ busy' = TRUE
           /\ sent' = Append(sent, [take |-> take, of |-> ends[e].take, draft |-> ends[e].draft])
  <2> DEFINE what == [take |-> take, of |-> ends[e].take, draft |-> ends[e].draft]
  <2> PICK n : n = Len(sent) + 1
    OBVIOUS
  <2>1. ends[e] \in VoiceCalls /\ take \in 0 .. MaxStarts /\ sent \in Seq(VoiceSent)
    BY <1>2 DEF VoiceTyped
  <2>2. what \in VoiceSent /\ what.take = take /\ what.of = ends[e].take
    BY <2>1 DEF VoiceCalls, Voice!Ended, VoiceSent
  <2>3. sent' = Append(sent, what)
    BY <1>6
  <2> HIDE DEF what
  <2>4. /\ sent' \in Seq(VoiceSent) /\ DOMAIN sent' = DOMAIN sent \cup {n} /\ n \notin DOMAIN sent
        /\ sent'[n] = what /\ \A i \in DOMAIN sent : sent'[i] = sent[i]
    BY <2>1, <2>2, <2>3
  <2>5. VoiceTyped'
    BY <1>1, <1>2, <1>3, <1>6, <2>4 DEF VoiceTyped
  \* The rest is as if nothing were sent.
  <2>6. \A f \in DOMAIN ends : (Finished(f)' <=> Finished(f)) /\ (ends[f].st = "over" => ends'[f].st = "over")
    BY <1>3 DEF Finished
  <2>7. TakesMade'
    BY <1>1, <1>3, <1>6, <2>2, <2>4 DEF VoiceInv, TakesMade, Ready
  <2>8. Current'
    BY <1>1, <1>3, <2>6 DEF VoiceInv, Current, Own
  <2>9. FinishedOnce'
    BY <1>1, <1>3, <2>6 DEF VoiceInv, FinishedOnce, Own
  \* What was sent before is of calls that were over, and this one was not.
  <2>10. Finished(e)
    BY <1>6 DEF Finished
  <2>11. Own(take) => ends[e].take = take
    BY <1>1, <2>10 DEF VoiceInv, Current
  <2>12. Own(take) => \A i \in DOMAIN sent : sent[i].take # take
    BY <1>1, <2>10, <2>11 DEF VoiceInv, SentOnce, FinishedOnce
  <2>13. \A t : Own(t)' <=> Own(t)
    BY <1>1 DEF Own
  <2>14. \A i \in DOMAIN sent' : Own(sent'[i].take) =>
            /\ sent'[i].of = sent'[i].take
            /\ \E f \in DOMAIN ends' : Finished(f)' /\ ends'[f].st = "over" /\ ends'[f].take = sent'[i].take
    BY <1>3, <2>2, <2>4, <2>6, <2>10, <2>11 DEF VoiceInv, SentOnce
  <2>15. \A i, j \in DOMAIN sent' : sent'[i].take = sent'[j].take /\ Own(sent'[i].take) => i = j
    BY <2>2, <2>4, <2>12 DEF VoiceInv, SentOnce
  <2>16. SentOnce'
    BY <1>1, <2>14, <2>15 DEF SentOnce, Own
  <2> QED
    BY <1>4, <2>5, <2>7, <2>8, <2>9, <2>16 DEF VoiceInv
<1> QED
  BY <1>5, <1>6 DEF Voice!Released

LEMMA VoiceStep ==
    ASSUME Voice!BoundsAssumption, VoiceInv, Voice!Next
    PROVE  VoiceInv'
<1>0. VoiceTyped /\ MaxDrafts \in Nat
  BY VoiceBounds DEF VoiceInv
<1>1. CASE Voice!Mic
  BY <1>1, MicStep
<1>2. ASSUME NEW c \in DOMAIN starts, Voice!Asked(c) \/ Voice!CannotRecord(c)
      PROVE  VoiceInv'
  <2>1. PICK st \in {"preparing", "over"} :
               /\ Voice!StartStep(c, st) /\ starts[c].st # "over" /\ (st = "preparing" => starts[c].st = "permission")
               /\ mic' \in {"starting", "denied", mic}
               /\ UNCHANGED <<ends, take, on, long, finishing, draft, drafts, picking, busy, sent, dropped>>
    BY <1>2 DEF Voice!Asked, Voice!CannotRecord, Voice!draftVars
  <2>2. /\ starts' \in Seq(VoiceStarts) /\ Len(starts') = Len(starts) /\ DOMAIN starts' = DOMAIN starts
        /\ starts'[c].st = st /\ starts'[c].own = starts[c].own /\ \A d \in DOMAIN starts \ {c} : starts'[d] = starts[d]
    BY <1>0, <2>1, StartStepped DEF StartSteps
  <2>3. VoiceTyped'
    BY <1>0, <2>1, <2>2 DEF VoiceTyped
  <2>4. StartsGoOn
    BY <2>1, <2>2 DEF StartsGoOn
  <2>5. CallsGoOn
    BY <2>1 DEF CallsGoOn
  <2>6. Alone'
    BY <2>1, <2>2 DEF VoiceInv, Alone
  <2> QED
    BY <2>1, <2>3, <2>4, <2>5, <2>6, TakesKept DEF VoiceInv
<1>3. ASSUME NEW c \in DOMAIN starts, Voice!Prepared(c) PROVE VoiceInv'
  BY <1>3, PreparedStep
<1>4. ASSUME NEW c \in DOMAIN starts, Voice!Record(c) PROVE VoiceInv'
  BY <1>4, RecordStep
<1>5. CASE Voice!TimePasses \/ Voice!DismissDenied \/ Voice!Type \/ Voice!Attach \/ Voice!Picked \/ Voice!Answered
  <2>1. UNCHANGED <<starts, ends, take, on, finishing, sent, dropped>>
    BY <1>5 DEF Voice!TimePasses, Voice!DismissDenied, Voice!Type, Voice!Attach, Voice!Picked, Voice!Answered, Voice!voiceVars, Voice!draftVars
  <2>2. mic' \in {"idle", mic} /\ long' \in BOOLEAN /\ picking' \in BOOLEAN /\ busy' \in BOOLEAN
    BY <1>0, <1>5 DEF Voice!TimePasses, Voice!DismissDenied, Voice!Type, Voice!Attach, Voice!Picked, Voice!Answered, Voice!voiceVars, Voice!draftVars, VoiceTyped
  <2>3. draft' \in 0 .. MaxDrafts /\ drafts' \in 0 .. MaxDrafts
    BY <1>0, <1>5 DEF Voice!TimePasses, Voice!DismissDenied, Voice!Type, Voice!Attach, Voice!Picked, Voice!Answered, Voice!voiceVars, Voice!draftVars, VoiceTyped
  <2>4. VoiceTyped'
    BY <1>0, <2>1, <2>2, <2>3 DEF VoiceTyped
  <2>5. StartsGoOn /\ CallsGoOn /\ Alone'
    BY <2>1, <2>2 DEF VoiceInv, StartsGoOn, CallsGoOn, Alone
  <2> QED
    BY <2>1, <2>4, <2>5, TakesKept DEF VoiceInv
<1>6. CASE Voice!SendRecording \/ Voice!TooLong
  <2>1. /\ mic = "recording" /\ Len(ends) < MaxEnds /\ (\E clears \in BOOLEAN : Voice!Finish(clears))
        /\ UNCHANGED <<mic, starts, take, on, long, drafts, picking, busy, sent, dropped>>
    BY <1>6 DEF Voice!SendRecording, Voice!TooLong
  <2> QED
    BY <2>1, FinishStep
<1>7. CASE Voice!Cancel
  BY <1>7, CancelStep
<1>8. ASSUME NEW e \in DOMAIN ends, Voice!Stopped(e)
      PROVE  VoiceInv'
  <2>1. PICK st \in {"releasing", "over"} : ends' = [ends EXCEPT ![e].st = st]
    BY <1>8 DEF Voice!Stopped
  <2>2. /\ ends[e].st = "stopping" /\ on' \in BOOLEAN /\ (on' => on) /\ mic' \in {"idle", mic}
        /\ UNCHANGED <<starts, take, long, finishing, draft, drafts, picking, busy, sent, dropped>>
    BY <1>0, <1>8 DEF Voice!Stopped, Voice!draftVars, VoiceTyped
  <2>3. /\ ends' \in Seq(VoiceCalls) /\ Len(ends') = Len(ends) /\ DOMAIN ends' = DOMAIN ends
        /\ \A f \in DOMAIN ends : ends'[f].how = ends[f].how /\ ends'[f].take = ends[f].take
        /\ ends'[e].st = st /\ \A f \in DOMAIN ends \ {e} : ends'[f].st = ends[f].st
    BY <1>0, <2>1, CallKept
  <2>4. VoiceTyped'
    BY <1>0, <2>2, <2>3 DEF VoiceTyped
  <2>5. StartsGoOn /\ CallsGoOn /\ Alone'
    BY <2>2, <2>3 DEF VoiceInv, StartsGoOn, CallsGoOn, Alone
  <2> QED
    BY <2>2, <2>4, <2>5, TakesKept DEF VoiceInv
<1>9. ASSUME NEW e \in DOMAIN ends, Voice!Released(e) PROVE VoiceInv'
  BY <1>9, ReleasedStep
<1>10. CASE Voice!Send
  <2> DEFINE what == [take |-> 0, of |-> 0, draft |-> draft]
  <2>1. /\ sent' = Append(sent, what) /\ draft' = Voice!NoDraft /\ busy' = TRUE
        /\ UNCHANGED <<mic, starts, ends, take, on, long, finishing, drafts, picking, dropped>>
    BY <1>10 DEF Voice!Send, Voice!voiceVars
  <2>2. what \in VoiceSent /\ what.take = 0
    BY <1>0, VoiceBounds DEF VoiceTyped, VoiceSent
  <2> HIDE DEF what
  <2>3. VoiceTyped'
    BY <1>0, <2>1, <2>2 DEF VoiceTyped, Voice!NoDraft
  <2>4. StartsGoOn /\ CallsGoOn /\ Alone'
    BY <2>1 DEF VoiceInv, StartsGoOn, CallsGoOn, Alone
  <2> QED
    BY <2>1, <2>2, <2>3, <2>4, TakesKept DEF VoiceInv
<1> QED
  BY <1>1, <1>2, <1>3, <1>4, <1>5, <1>6, <1>7, <1>8, <1>9, <1>10 DEF Voice!Next

LEMMA VoiceInvHolds ==
    Voice!BoundsAssumption => (Voice!Spec => []VoiceInv)
<1> SUFFICES ASSUME Voice!BoundsAssumption PROVE Voice!Spec => []VoiceInv
  OBVIOUS
<1>1. Voice!Init => VoiceInv
  <2> SUFFICES ASSUME Voice!Init PROVE VoiceInv
    OBVIOUS
  <2>1. /\ starts = <<>> /\ ends = <<>> /\ sent = <<>> /\ take = 0 /\ dropped = {} /\ on = FALSE
        /\ mic = "idle" /\ draft = 0 /\ drafts = 0
        /\ long = FALSE /\ finishing = FALSE /\ picking = FALSE /\ busy = FALSE
    BY DEF Voice!Init, Voice!NoDraft
  <2>2. /\ starts \in Seq(VoiceStarts) /\ ends \in Seq(VoiceCalls) /\ sent \in Seq(VoiceSent)
        /\ Len(starts) = 0 /\ Len(ends) = 0 /\ DOMAIN starts = {} /\ DOMAIN ends = {} /\ DOMAIN sent = {}
    BY <2>1
  <2>3. on \in BOOLEAN /\ long \in BOOLEAN /\ finishing \in BOOLEAN /\ picking \in BOOLEAN /\ busy \in BOOLEAN
    BY <2>1
  <2>4. VoiceTyped
    BY <2>1, <2>2, <2>3, VoiceBounds DEF VoiceTyped
  <2> QED
    BY <2>1, <2>2, <2>4 DEF VoiceInv, TakesMade, Alone, Current, Own, FinishedOnce, SentOnce
<1>2. VoiceInv /\ [Voice!Next]_(Voice!vars) => VoiceInv'
  <2> SUFFICES ASSUME VoiceInv, UNCHANGED Voice!vars PROVE VoiceInv'
    BY VoiceStep
  <2>1. UNCHANGED <<mic, starts, ends, take, on, long, finishing, draft, drafts, picking, busy, sent, dropped>>
    BY DEF Voice!vars, Voice!voiceVars, Voice!draftVars
  <2>2. VoiceTyped' /\ StartsGoOn /\ CallsGoOn /\ Alone'
    BY <2>1 DEF VoiceInv, VoiceTyped, StartsGoOn, CallsGoOn, Alone
  <2> QED
    BY <2>1, <2>2, TakesKept DEF VoiceInv
<1> QED
  BY <1>1, <1>2, PTL DEF Voice!Spec

(* A recording is sent once, by the call that ended it, and never after it   *)
(* was thrown away, although the file that is sent is the recorder's of that *)
(* moment, if no other start overlapped its own and no finish() was under    *)
(* way when it was prepared: for any number of starts, ends and drafts.      *)
THEOREM RecordingSentOnce ==
    Voice!BoundsAssumption => (Voice!Spec => [](Voice!TypeOK /\ Voice!TakesSentOnce))
<1> SUFFICES ASSUME Voice!BoundsAssumption PROVE Voice!Spec => [](Voice!TypeOK /\ Voice!TakesSentOnce)
  OBVIOUS
<1>1. VoiceInv => Voice!TypeOK /\ Voice!TakesSentOnce
  <2> SUFFICES ASSUME VoiceInv PROVE Voice!TypeOK /\ Voice!TakesSentOnce
    OBVIOUS
  <2>1. Voice!TypeOK
    BY VoiceIsTyped DEF VoiceInv
  <2>2. \A i \in DOMAIN sent : Own(sent[i].take) => sent[i].of = sent[i].take /\ sent[i].take \notin dropped
    BY DEF VoiceInv, SentOnce, FinishedOnce
  <2>3. \A i, j \in DOMAIN sent : Own(sent[i].take) /\ sent[j].take = sent[i].take => i = j
    BY DEF VoiceInv, SentOnce
  <2> QED
    BY <2>1, <2>2, <2>3 DEF Own, Voice!TakesSentOnce
<1> QED
  BY <1>1, VoiceInvHolds, PTL
-----------------------------------------------------------------------------
(* The phone's settings (PhoneSettings): for any addresses and keys, the     *)
(* background uses the server the screens show, and so does the gallery.     *)

Addresses == Urls \cup {None}
Secrets == Keys \cup {None}
GalleryRequests == [key : Settings!Configs \X (0 .. MaxAttempts), live : BOOLEAN]

SettingsTyped ==
    /\ ready \in BOOLEAN /\ lost \in BOOLEAN /\ server \in Settings!Configs /\ draft \in Settings!Configs /\ look \in BOOLEAN
    /\ stored \in [url : Addresses, key : Secrets, look : BOOLEAN]
    /\ writes \in [url : Seq(Addresses), key : Seq(Secrets), look : Seq(BOOLEAN)]
    /\ check \in {"idle", "checking", "ok", "warn", "fail"} /\ tests \subseteq Settings!Configs
    /\ loaded.found \in {"nothing", "templates", "none", "error"}
    /\ lists \subseteq GalleryRequests
    /\ attempt \in 0 .. MaxAttempts /\ kills \in Nat

\* What storage will have when all that is to be written was.
LastWritten(queue, before) == IF queue = <<>> THEN before ELSE queue[Len(queue)]
StoredInTheEnd ==
    IF ready THEN ~lost => LastWritten(writes.url, stored.url) = server.url /\ LastWritten(writes.key, stored.key) = server.key
    ELSE writes.url = <<>> /\ writes.key = <<>>
(* A gallery that has not what it shows the server for is being asked for,   *)
(* and only what is asked of that server still counts.                       *)
AskedForNow == /\ \A l \in lists : l.live => l.key = Settings!Key
               /\ ready /\ Settings!loading => \E l \in lists : l.live

SettingsInv == SettingsTyped /\ StoredInTheEnd /\ AskedForNow

\* Asking again drops what was asked before.
LEMMA Reloaded ==
    ASSUME SettingsTyped, NEW cfg \in Settings!Configs, NEW n \in 0 .. MaxAttempts, Settings!Reloads(cfg, n, TRUE),
           server' = cfg, attempt' = n
    PROVE  lists' \subseteq GalleryRequests /\ AskedForNow'
<1>1. \A l \in lists : [l EXCEPT !.live = FALSE] \in GalleryRequests /\ [l EXCEPT !.live = FALSE].live = FALSE
  BY DEF SettingsTyped, GalleryRequests
<1> DEFINE new == [key |-> <<cfg, n>>, live |-> TRUE]
<1>2. new \in GalleryRequests /\ new.live = TRUE /\ new.key = <<cfg, n>>
  BY DEF GalleryRequests
<1>3. lists' = {[l EXCEPT !.live = FALSE] : l \in lists} \cup (IF cfg.url # None THEN {new} ELSE {})
  BY DEF Settings!Reloads
<1> HIDE DEF new
<1>4. lists' \subseteq GalleryRequests
  BY <1>1, <1>2, <1>3
<1>5. \A l \in lists' : l.live => l = new /\ cfg.url # None
  BY <1>1, <1>3
<1>6. cfg.url # None => new \in lists'
  BY <1>3
<1> QED
  BY <1>2, <1>4, <1>5, <1>6 DEF AskedForNow, Settings!Key, Settings!loading

LEMMA Queued ==
    ASSUME NEW S, NEW queue \in Seq(S), NEW x \in S, NEW before
    PROVE  Append(queue, x) \in Seq(S) /\ LastWritten(Append(queue, x), before) = x
<1>1. Append(queue, x) \in Seq(S) /\ Len(Append(queue, x)) = Len(queue) + 1 /\ Len(queue) \in Nat
  OBVIOUS
<1>2. Append(queue, x)[Len(queue) + 1] = x /\ Append(queue, x) # <<>>
  OBVIOUS
<1> QED
  BY <1>1, <1>2 DEF LastWritten

LEMMA Unqueued ==
    ASSUME NEW S, NEW queue \in Seq(S), queue # <<>>, NEW before
    PROVE  Tail(queue) \in Seq(S) /\ Head(queue) \in S /\ LastWritten(Tail(queue), Head(queue)) = LastWritten(queue, before)
<1>1. Tail(queue) \in Seq(S) /\ Head(queue) \in S /\ Len(Tail(queue)) = Len(queue) - 1 /\ Len(queue) \in Nat /\ Len(queue) > 0
  OBVIOUS
<1>2. CASE Len(queue) = 1
  <2>1. Tail(queue) = <<>> /\ Head(queue) = queue[1]
    <3>1. Tail(queue) \in Seq(S) /\ Len(Tail(queue)) = 0
      BY <1>1, <1>2
    <3>2. Tail(queue) = <<>>
      BY <3>1, EmptySeq
    <3> QED
      BY <3>2
  <2> QED
    BY <1>1, <1>2, <2>1 DEF LastWritten
<1>3. CASE Len(queue) > 1
  <2> DEFINE n == Len(queue) - 1
  <2>1. n \in 1 .. Len(Tail(queue)) /\ n = Len(Tail(queue)) /\ n + 1 = Len(queue)
    BY <1>1, <1>3
  <2>2. Tail(queue)[n] = queue[n + 1]
    BY <2>1, HeadTailProperties
  <2>3. Tail(queue) # <<>>
    <3> SUFFICES ASSUME Tail(queue) = <<>> PROVE FALSE
      OBVIOUS
    <3>1. Len(Tail(queue)) = Len(<<>>) /\ Len(<<>>) = 0
      BY EmptySeq
    <3>2. Len(Tail(queue)) = Len(queue) - 1 /\ Len(queue) \in Nat
      BY <1>1
    <3> QED
      BY <1>3, <3>1, <3>2
  <2> HIDE DEF n
  <2> QED
    BY <1>1, <2>1, <2>2, <2>3 DEF LastWritten
<1> QED
  BY <1>1, <1>2, <1>3

LEMMA SettingsStep ==
    ASSUME Settings!SettingsAssumption, SettingsInv, Settings!Next
    PROVE  SettingsInv'
<1>0. /\ SettingsTyped /\ MaxAttempts \in Nat /\ Settings!NoConfig \in Settings!Configs
      /\ stored \in [url : Addresses, key : Secrets, look : BOOLEAN]
      /\ writes \in [url : Seq(Addresses), key : Seq(Secrets), look : Seq(BOOLEAN)]
      /\ server \in Settings!Configs /\ draft \in Settings!Configs
  BY DEF SettingsInv, SettingsTyped, Settings!SettingsAssumption, Settings!NoConfig, Settings!Configs
<1>1. CASE Settings!List
  <2>1. PICK l \in lists : Settings!Listed(l) /\ UNCHANGED <<Settings!settingVars, Settings!formVars, attempt, saves, kills>>
    BY <1>1 DEF Settings!List
  <2>2. UNCHANGED <<ready, server, look, stored, writes, lost, draft, check, tests, attempt, kills>> /\ lists' = lists \ {l}
    BY <2>1 DEF Settings!Listed, Settings!settingVars, Settings!formVars
  <2>3. PICK found \in {"templates", "none", "error"} : loaded' = IF l.live THEN Settings!Loaded(l.key, found) ELSE loaded
    BY <2>1 DEF Settings!Listed
  <2>4. SettingsTyped' /\ StoredInTheEnd'
    BY <2>2, <2>3 DEF SettingsInv, SettingsTyped, StoredInTheEnd, Settings!Loaded
  <2>5. AskedForNow'
    <3>1. Settings!Key' = Settings!Key
      BY <2>2 DEF Settings!Key
    <3>2. CASE l.live
      <4>1. loaded' = Settings!Loaded(Settings!Key, found)
        BY <2>3, <3>2 DEF SettingsInv, AskedForNow
      <4>2. Settings!loading' = FALSE
        BY <3>1, <4>1 DEF Settings!loading, Settings!current, Settings!Loaded
      <4> QED
        BY <2>2, <3>1, <4>2 DEF SettingsInv, AskedForNow
    <3>3. CASE ~l.live
      <4>1. Settings!loading' = Settings!loading
        BY <2>2, <2>3, <3>1, <3>3 DEF Settings!loading, Settings!current
      <4> QED
        BY <2>2, <3>1, <3>3, <4>1 DEF SettingsInv, AskedForNow
    <3> QED
      BY <3>2, <3>3
  <2> QED
    BY <2>4, <2>5 DEF SettingsInv
<1>2. CASE Settings!Reload
  <2>1. /\ ready /\ kills + attempt < MaxAttempts /\ attempt' = attempt + 1 /\ Settings!Reloads(server, attempt + 1, TRUE)
        /\ UNCHANGED <<ready, server, look, stored, writes, lost, draft, check, tests, loaded, kills>>
    BY <1>2 DEF Settings!Reload, Settings!settingVars, Settings!formVars
  <2>2. attempt + 1 \in 0 .. MaxAttempts
    BY <1>0, <2>1 DEF SettingsTyped
  <2>3. lists' \subseteq GalleryRequests /\ AskedForNow'
    BY <1>0, <2>1, <2>2, Reloaded
  <2> QED
    BY <2>1, <2>2, <2>3 DEF SettingsInv, SettingsTyped, StoredInTheEnd
<1>3. CASE Settings!Load
  <2> DEFINE cfg == [url |-> stored.url, key |-> stored.key]
  <2>1. /\ ~ready /\ ready' = TRUE /\ server' = cfg /\ look' = stored.look /\ draft' = cfg
        /\ Settings!Reloads(cfg, attempt, TRUE)
        /\ UNCHANGED <<stored, writes, lost, check, tests, attempt, loaded, kills>>
    BY <1>3 DEF Settings!Load, Settings!Reloads
  <2>2. cfg \in Settings!Configs /\ cfg.url = stored.url /\ cfg.key = stored.key /\ stored.look \in BOOLEAN
    BY <1>0 DEF Settings!Configs, Addresses, Secrets
  <2> HIDE DEF cfg
  <2>3. lists' \subseteq GalleryRequests /\ AskedForNow'
    BY <1>0, <2>1, <2>2, Reloaded DEF SettingsTyped
  <2>4. SettingsTyped'
    BY <1>0, <2>1, <2>2, <2>3 DEF SettingsTyped
  <2>5. StoredInTheEnd'
    BY <2>1, <2>2 DEF SettingsInv, StoredInTheEnd, LastWritten
  <2> QED
    BY <2>3, <2>4, <2>5 DEF SettingsInv
<1>4. CASE Settings!Done
  <2>1. /\ ready /\ server' = draft /\ Settings!Reloads(draft, attempt, TRUE)
        /\ writes' = [writes EXCEPT !.url = Append(@, draft.url), !.key = Append(@, draft.key)]
        /\ UNCHANGED <<ready, look, stored, lost, draft, check, tests, attempt, loaded, kills>>
    BY <1>4 DEF Settings!Done, Settings!save, Settings!set, Settings!formVars
  <2>2. lists' \subseteq GalleryRequests /\ AskedForNow'
    BY <1>0, <2>1, Reloaded DEF SettingsTyped
  <2>3. draft.url \in Addresses /\ draft.key \in Secrets
    BY <1>0 DEF Settings!Configs, Addresses, Secrets
  <2>4. /\ Append(writes.url, draft.url) \in Seq(Addresses) /\ Append(writes.key, draft.key) \in Seq(Secrets)
        /\ LastWritten(Append(writes.url, draft.url), stored.url) = draft.url
        /\ LastWritten(Append(writes.key, draft.key), stored.key) = draft.key
    BY <1>0, <2>3, Queued
  <2>5. /\ writes'.url = Append(writes.url, draft.url) /\ writes'.key = Append(writes.key, draft.key)
        /\ writes' \in [url : Seq(Addresses), key : Seq(Secrets), look : Seq(BOOLEAN)]
    BY <1>0, <2>1, <2>4
  <2>6. SettingsTyped'
    BY <1>0, <2>1, <2>2, <2>5 DEF SettingsTyped
  <2>7. StoredInTheEnd'
    BY <2>1, <2>4, <2>5 DEF StoredInTheEnd
  <2> QED
    BY <2>2, <2>6, <2>7 DEF SettingsInv
<1>5. CASE Settings!setAppearance
  <2>1. /\ look' = ~look /\ writes' = [writes EXCEPT !.look = Append(@, ~look)]
        /\ UNCHANGED <<ready, server, stored, lost, draft, check, tests, attempt, loaded, lists, kills>>
    BY <1>5 DEF Settings!setAppearance, Settings!formVars, Settings!galleryVars
  <2>2. (~look) \in BOOLEAN /\ Append(writes.look, ~look) \in Seq(BOOLEAN)
    <3>1. (~look) \in BOOLEAN
      OBVIOUS
    <3> QED
      BY <1>0, <3>1, Queued
  <2>3. /\ writes'.url = writes.url /\ writes'.key = writes.key
        /\ writes' \in [url : Seq(Addresses), key : Seq(Secrets), look : Seq(BOOLEAN)]
    BY <1>0, <2>1, <2>2
  <2>4. SettingsTyped'
    BY <1>0, <2>1, <2>2, <2>3 DEF SettingsTyped
  <2> QED
    BY <2>1, <2>3, <2>4 DEF SettingsInv, StoredInTheEnd, AskedForNow, Settings!Key, Settings!loading, Settings!current
<1>6. ASSUME NEW name \in DOMAIN writes, Settings!Write(name)
      PROVE  SettingsInv'
  <2>1. /\ writes[name] # <<>> /\ writes' = [writes EXCEPT ![name] = Tail(@)]
        /\ UNCHANGED <<ready, server, look, draft, check, tests, attempt, loaded, lists, kills>>
        /\ \/ stored' = [stored EXCEPT ![name] = Head(writes[name])] /\ UNCHANGED lost
           \/ lost' = TRUE /\ UNCHANGED stored
    BY <1>6 DEF Settings!Write, Settings!formVars, Settings!galleryVars
  <2>2. name \in {"url", "key", "look"}
    BY <1>0
  <2>3. /\ Tail(writes[name]) \in Seq(IF name = "url" THEN Addresses ELSE IF name = "key" THEN Secrets ELSE BOOLEAN)
        /\ Head(writes[name]) \in (IF name = "url" THEN Addresses ELSE IF name = "key" THEN Secrets ELSE BOOLEAN)
        /\ LastWritten(Tail(writes[name]), Head(writes[name])) = LastWritten(writes[name], stored[name])
    BY <1>0, <2>1, <2>2, Unqueued
  <2>4. /\ writes' \in [url : Seq(Addresses), key : Seq(Secrets), look : Seq(BOOLEAN)]
        /\ writes'[name] = Tail(writes[name]) /\ \A other \in {"url", "key"} \ {name} : writes'[other] = writes[other]
    BY <1>0, <2>1, <2>2, <2>3
  <2>5. /\ stored' \in [url : Addresses, key : Secrets, look : BOOLEAN] /\ lost' \in BOOLEAN
        /\ ~lost' => /\ ~lost /\ stored'[name] = Head(writes[name])
                     /\ \A other \in {"url", "key"} \ {name} : stored'[other] = stored[other]
    <3>1. CASE stored' = [stored EXCEPT ![name] = Head(writes[name])] /\ UNCHANGED lost
      <4>1. stored' \in [url : Addresses, key : Secrets, look : BOOLEAN]
        BY <1>0, <2>2, <2>3, <3>1
      <4>2. /\ stored'[name] = Head(writes[name])
            /\ \A other \in {"url", "key"} \ {name} : stored'[other] = stored[other]
        BY <1>0, <2>2, <3>1
      <4>3. lost' \in BOOLEAN /\ (~lost' => ~lost)
        BY <1>0, <3>1 DEF SettingsTyped
      <4> QED
        BY <4>1, <4>2, <4>3
    <3>2. CASE lost' = TRUE /\ UNCHANGED stored
      BY <1>0, <3>2
    <3> QED
      BY <2>1, <3>1, <3>2
  <2>6. SettingsTyped'
    BY <1>0, <2>1, <2>4, <2>5 DEF SettingsTyped
  <2>7. StoredInTheEnd'
    <3>1. CASE ~ready
      <4>1. name \notin {"url", "key"}
        BY <2>1, <3>1 DEF SettingsInv, StoredInTheEnd
      <4> QED
        BY <2>1, <2>4, <3>1, <4>1 DEF SettingsInv, StoredInTheEnd
    <3>2. CASE ready
      <4>1. ~lost' => \A other \in {"url", "key"} : LastWritten(writes'[other], stored'[other]) = LastWritten(writes[other], stored[other])
        BY <2>3, <2>4, <2>5
      <4> QED
        BY <2>1, <2>5, <3>2, <4>1 DEF SettingsInv, StoredInTheEnd
    <3> QED
      BY <3>1, <3>2
  <2> QED
    BY <2>1, <2>6, <2>7 DEF SettingsInv, AskedForNow, Settings!Key, Settings!loading, Settings!current
<1>7. CASE Settings!Kill
  <2>1. /\ ready' = FALSE /\ server' = Settings!NoConfig /\ look' = FALSE /\ writes' = Settings!Idle /\ lost' = FALSE
        /\ draft' = Settings!NoConfig /\ check' = "idle" /\ tests' = {} /\ attempt' = 0 /\ loaded' = Settings!Loaded(<<>>, "nothing") /\ lists' = {}
        /\ kills' = kills + 1 /\ UNCHANGED stored
    BY <1>7 DEF Settings!Kill
  <2>2. /\ Settings!Idle \in [url : Seq(Addresses), key : Seq(Secrets), look : Seq(BOOLEAN)] /\ Settings!Idle.url = <<>> /\ Settings!Idle.key = <<>>
        /\ 0 \in 0 .. MaxAttempts /\ kills' \in Nat
    BY <1>0, <2>1 DEF Settings!Idle, SettingsTyped
  <2> QED
    BY <1>0, <2>1, <2>2 DEF SettingsInv, SettingsTyped, StoredInTheEnd, AskedForNow, Settings!Loaded
<1>8. CASE Settings!Type \/ Settings!Test \/ Settings!Tested
  <2>1. UNCHANGED <<ready, server, look, stored, writes, lost, attempt, loaded, lists, kills>>
    BY <1>8 DEF Settings!Type, Settings!Test, Settings!Tested, Settings!settingVars, Settings!galleryVars
  <2>2. draft' \in Settings!Configs /\ check' \in {"idle", "checking", "ok", "warn", "fail"} /\ tests' \subseteq Settings!Configs
    BY <1>0, <1>8 DEF Settings!Type, Settings!Test, Settings!Tested, SettingsTyped
  <2> QED
    BY <2>1, <2>2 DEF SettingsInv, SettingsTyped, StoredInTheEnd, AskedForNow, Settings!Key, Settings!loading, Settings!current
<1> QED
  BY <1>1, <1>2, <1>3, <1>4, <1>5, <1>6, <1>7, <1>8 DEF Settings!Next

LEMMA SettingsInvHolds ==
    Settings!SettingsAssumption => (Settings!Init /\ [][Settings!Next]_(Settings!vars) => []SettingsInv)
<1> SUFFICES ASSUME Settings!SettingsAssumption PROVE Settings!Init /\ [][Settings!Next]_(Settings!vars) => []SettingsInv
  OBVIOUS
<1>1. Settings!Init => SettingsInv
  <2> SUFFICES ASSUME Settings!Init PROVE SettingsInv
    OBVIOUS
  <2>1. /\ Settings!Idle \in [url : Seq(Addresses), key : Seq(Secrets), look : Seq(BOOLEAN)] /\ Settings!Idle.url = <<>> /\ Settings!Idle.key = <<>>
        /\ 0 \in 0 .. MaxAttempts /\ kills \in Nat
    BY DEF Settings!Idle, Settings!SettingsAssumption, Settings!Init
  <2> QED
    BY <2>1 DEF Settings!Init, SettingsInv, SettingsTyped, StoredInTheEnd, AskedForNow, Settings!Loaded, Settings!NoConfig, Settings!Configs, Addresses, Secrets
<1>2. SettingsInv /\ [Settings!Next]_(Settings!vars) => SettingsInv'
  <2> SUFFICES ASSUME SettingsInv, UNCHANGED Settings!vars PROVE SettingsInv'
    BY SettingsStep
  <2>1. UNCHANGED <<ready, server, look, stored, writes, lost, draft, check, tests, attempt, loaded, lists, saves, kills>>
    BY DEF Settings!vars, Settings!settingVars, Settings!formVars, Settings!galleryVars
  <2> QED
    BY <2>1 DEF SettingsInv, SettingsTyped, StoredInTheEnd, AskedForNow, Settings!Key, Settings!loading, Settings!current
<1> QED
  BY <1>1, <1>2, PTL

(* When all is written, the check that runs without the screens talks to the *)
(* server the screens show, with its key.                                    *)
THEOREM BackgroundUsesServer ==
    Settings!SettingsAssumption => (Settings!Init /\ [][Settings!Next]_(Settings!vars) => [](Settings!TypeOK /\ Settings!BackgroundAgrees))
<1> SUFFICES ASSUME Settings!SettingsAssumption PROVE Settings!Init /\ [][Settings!Next]_(Settings!vars) => [](Settings!TypeOK /\ Settings!BackgroundAgrees)
  OBVIOUS
<1>1. SettingsInv => Settings!TypeOK /\ Settings!BackgroundAgrees
  <2> SUFFICES ASSUME SettingsInv PROVE Settings!TypeOK /\ Settings!BackgroundAgrees
    OBVIOUS
  <2>1. Settings!TypeOK
    BY DEF SettingsInv, SettingsTyped, Settings!TypeOK, Addresses, Secrets, GalleryRequests
  <2>2. Settings!BackgroundAgrees
    <3> SUFFICES ASSUME ready, writes = Settings!Idle, ~lost PROVE Settings!loadServerConfig = server
      BY DEF Settings!BackgroundAgrees
    <3>1. stored.url = server.url /\ stored.key = server.key
      BY DEF SettingsInv, StoredInTheEnd, LastWritten, Settings!Idle
    <3>2. server \in [url : Urls \cup {None}, key : Keys \cup {None}]
      BY DEF SettingsInv, SettingsTyped, Settings!Configs
    <3> QED
      BY <3>1, <3>2 DEF Settings!loadServerConfig
  <2> QED
    BY <2>1, <2>2
<1> QED
  BY <1>1, SettingsInvHolds, PTL

(* The gallery waits only for an answer that is still coming, and an error   *)
(* it shows is of the server it shows.                                       *)
THEOREM GalleryShowsServer ==
    Settings!SettingsAssumption => (Settings!Init /\ [][Settings!Next]_(Settings!vars) => []Settings!GalleryOfServer)
<1> SUFFICES ASSUME Settings!SettingsAssumption PROVE Settings!Init /\ [][Settings!Next]_(Settings!vars) => []Settings!GalleryOfServer
  OBVIOUS
<1>1. SettingsInv => Settings!GalleryOfServer
  <2> SUFFICES ASSUME SettingsInv PROVE Settings!GalleryOfServer
    OBVIOUS
  <2>1. ready /\ Settings!loading => \E l \in lists : l.live /\ l.key = Settings!Key
    BY DEF SettingsInv, AskedForNow
  <2>2. Settings!error => loaded.key[1] = server
    BY DEF Settings!error, Settings!current, Settings!Key
  <2> QED
    BY <2>1, <2>2 DEF Settings!GalleryOfServer
<1> QED
  BY <1>1, SettingsInvHolds, PTL
-----------------------------------------------------------------------------
(* bench.service.ts, the list of saved runs (RunList): for any names,        *)
(* listings and number of writes, the list says what was on the disk.        *)

ReportFiles == [there : BOOLEAN, whole : BOOLEAN, version : Nat, mtime : Nat]

(* A listing's record: what it found in memory is whatever Memory gives.     *)
Listing(call) == [todo |-> call.todo, seen |-> call.seen, stats |-> call.stats, was |-> call.was, disk |-> call.disk]
ListTyped ==
    /\ time \in Nat /\ file \in [Ids -> ReportFiles] /\ cache \in [Ids -> [mtime : Nat, version : Nat]]
    /\ since \in [Lists -> [Ids -> SUBSET Nat]]
    /\ list = [l \in Lists |-> Listing(list[l])]
    /\ \A l \in Lists : /\ list[l].todo \subseteq Ids /\ list[l].stats \in [Ids -> Nat]
                        /\ list[l].was \in [Ids -> ReportFiles] /\ list[l].disk \subseteq Ids \X Nat

(* Times of change only grow: what was noted of a report is never newer than *)
(* the report, and older than one that is being written.                     *)
FilesDated ==
    \A d \in Ids : /\ file[d].mtime <= time /\ file[d].version <= time /\ cache[d].mtime <= time
                   /\ file[d].whole => file[d].there
                   /\ file[d].there /\ ~file[d].whole => cache[d].mtime < file[d].mtime
                   /\ file[d].whole /\ Saved!Hit(d) => cache[d].version = file[d].version

(* What a listing that is under way has, and what it still looks for.        *)
ListingSound ==
    \A l \in Lists, d \in Ids :
        /\ list[l].was[d].version <= time /\ list[l].stats[d] <= time
        /\ \A v \in Nat : <<d, v>> \in list[l].disk => v \in since[l][d]
        /\ list[l] # Saved!Idle =>
             /\ file[d].whole => file[d].version \in since[l][d]
             /\ file[d].there /\ ~file[d].whole /\ list[l].was[d].whole => file[d].version # list[l].was[d].version
             /\ file[d].whole /\ file[d] = list[l].was[d] /\ d \notin list[l].seen =>
                  d \in list[l].todo \/ <<d, file[d].version>> \in list[l].disk

ListInv == ListTyped /\ FilesDated /\ ListingSound

\* A report that is remembered as it is on the disk is whole, and is remembered rightly.
LEMMA HitIsNow ==
    ASSUME ListInv, NEW d \in Ids, file[d].there, Saved!Hit(d)
    PROVE  file[d].whole /\ cache[d].version = file[d].version
<1>1. file[d] \in ReportFiles /\ cache[d] \in [mtime : Nat, version : Nat]
  BY DEF ListInv, ListTyped
<1>2. ~(cache[d].mtime < file[d].mtime)
  BY <1>1 DEF Saved!Hit, ReportFiles
<1> QED
  BY <1>1, <1>2 DEF ListInv, FilesDated, ReportFiles

LEMMA IdleTyped ==
    /\ Saved!Idle.todo \subseteq Ids /\ Saved!Idle.stats \in [Ids -> Nat] /\ Saved!Idle.was \in [Ids -> ReportFiles]
    /\ Saved!Idle.disk = {} /\ (\A d \in Ids : Saved!Idle.stats[d] = 0) /\ Saved!Idle = Listing(Saved!Idle) /\ \A d \in Ids : Saved!Idle.was[d].version = 0
<1>1. Saved!NoFile \in ReportFiles /\ Saved!NoFile.version = 0
  BY DEF Saved!NoFile, ReportFiles
<1> QED
  BY <1>1 DEF Saved!Idle, Listing

LEMMA ListInit ==
    ASSUME Saved!ListAssumption, Saved!Init
    PROVE  ListInv
<1>1. Saved!NoFile \in ReportFiles /\ Saved!NoFile.version = 0 /\ Saved!NoFile.mtime = 0 /\ Saved!NoFile.whole = FALSE /\ Saved!NoFile.there = FALSE
  BY DEF Saved!NoFile, ReportFiles
<1>2. Saved!NoEntry \in [mtime : Nat, version : Nat] /\ Saved!NoEntry.mtime = 0
  BY DEF Saved!NoEntry
<1>3. /\ \A d \in Ids : file[d] = Saved!NoFile /\ cache[d] = Saved!NoEntry
      /\ \A l \in Lists : list[l] = Saved!Idle
  BY DEF Saved!Init
<1>4. ListTyped
  BY <1>1, <1>2, <1>3, IdleTyped DEF Saved!Init, ListTyped
<1>5. FilesDated
  BY <1>1, <1>2, <1>3 DEF Saved!Init, FilesDated
<1>6. ListingSound
  BY <1>3, IdleTyped DEF Saved!Init, ListingSound
<1> QED
  BY <1>4, <1>5, <1>6 DEF ListInv

(* A listing's step on one report d, which leaves the files alone: what it   *)
(* pushes was whole while the list was made, and what it skips is not whole. *)
LEMMA Looked ==
    ASSUME ListInv, NEW l \in Lists, NEW d \in Ids, list[l] # Saved!Idle, UNCHANGED <<file, since, time>>,
           \/ Saved!Push(l, d, file[d].version) /\ file[d].whole
           \/ Saved!Skip(l, d) /\ ~file[d].whole
    PROVE  /\ ListingSound'
           /\ list' = [c \in Lists |-> Listing(list'[c])]
           /\ \A c \in Lists : /\ list'[c].todo \subseteq Ids /\ list'[c].stats \in [Ids -> Nat]
                               /\ list'[c].was \in [Ids -> ReportFiles] /\ list'[c].disk \subseteq Ids \X Nat
<1>0. /\ list = [c \in Lists |-> Listing(list[c])] /\ file[d] \in ReportFiles
      /\ list[l].todo \subseteq Ids /\ list[l].stats \in [Ids -> Nat]
      /\ list[l].was \in [Ids -> ReportFiles] /\ list[l].disk \subseteq Ids \X Nat
  BY DEF ListInv, ListTyped
<1>1. file[d].version \in Nat
  BY <1>0 DEF ReportFiles
<1>2. /\ list'[l].todo = list[l].todo \ {d} /\ list'[l].seen = list[l].seen /\ list'[l].was = list[l].was
      /\ list'[l].stats = [list[l].stats EXCEPT ![d] = 0] /\ list'[l] = Listing(list'[l])
      /\ list'[l].disk = IF file[d].whole THEN list[l].disk \cup {<<d, file[d].version>>} ELSE list[l].disk
  <2>1. list[l] = Listing(list[l])
    BY <1>0
  <2>2. CASE Saved!Push(l, d, file[d].version) /\ file[d].whole
    <3>1. list'[l] = [list[l] EXCEPT !.todo = @ \ {d}, !.stats[d] = 0, !.disk = @ \cup {<<d, file[d].version>>}]
      BY <1>0, <2>2 DEF Saved!Push
    <3> QED
      BY <2>1, <2>2, <3>1 DEF Listing
  <2>3. CASE Saved!Skip(l, d) /\ ~file[d].whole
    <3>1. list'[l] = [list[l] EXCEPT !.todo = @ \ {d}, !.stats[d] = 0]
      BY <1>0, <2>3 DEF Saved!Skip
    <3> QED
      BY <2>1, <2>3, <3>1 DEF Listing
  <2> QED
    BY <2>2, <2>3
<1>3. \A c \in Lists \ {l} : list'[c] = list[c]
  BY <1>0 DEF Saved!Push, Saved!Skip
<1>4. list' = [c \in Lists |-> list'[c]]
  BY <1>0 DEF Saved!Push, Saved!Skip
<1>5. \A c \in Lists : /\ list'[c].todo \subseteq Ids /\ list'[c].stats \in [Ids -> Nat]
                       /\ list'[c].was \in [Ids -> ReportFiles] /\ list'[c].disk \subseteq Ids \X Nat
                       /\ list'[c] = Listing(list'[c])
  <2>1. list'[l].disk \subseteq Ids \X Nat
    BY <1>0, <1>1, <1>2
  <2>2. \A c \in Lists \ {l} : list'[c] = Listing(list'[c])
    BY <1>0, <1>3 DEF Listing
  <2>3. \A c \in Lists \ {l} : /\ list'[c].todo \subseteq Ids /\ list'[c].stats \in [Ids -> Nat]
                                /\ list'[c].was \in [Ids -> ReportFiles] /\ list'[c].disk \subseteq Ids \X Nat
    BY <1>3 DEF ListInv, ListTyped
  <2>4. list'[l].todo \subseteq Ids /\ list'[l].stats \in [Ids -> Nat] /\ list'[l].was \in [Ids -> ReportFiles]
    BY <1>0, <1>2
  <2> QED
    BY <1>2, <2>1, <2>2, <2>3, <2>4
<1>6. ListingSound'
  <2> SUFFICES ASSUME NEW c \in Lists, NEW e \in Ids
               PROVE  /\ list'[c].was[e].version <= time /\ list'[c].stats[e] <= time
                      /\ \A v \in Nat : <<e, v>> \in list'[c].disk => v \in since[c][e]
                      /\ list'[c] # Saved!Idle =>
                           /\ file[e].whole => file[e].version \in since[c][e]
                           /\ file[e].there /\ ~file[e].whole /\ list'[c].was[e].whole => file[e].version # list'[c].was[e].version
                           /\ file[e].whole /\ file[e] = list'[c].was[e] /\ e \notin list'[c].seen =>
                                e \in list'[c].todo \/ <<e, file[e].version>> \in list'[c].disk
    BY DEF ListingSound
  <2>1. CASE c # l
    BY <1>3, <2>1 DEF ListInv, ListingSound
  <2>2. CASE c = l
    <3>1. /\ \A f \in Ids : /\ list[l].was[f].version <= time /\ list[l].stats[f] <= time
                            /\ \A v \in Nat : <<f, v>> \in list[l].disk => v \in since[l][f]
          /\ file[d].whole => file[d].version \in since[l][d]
      BY DEF ListInv, ListingSound
    <3>2. /\ file[e].whole => file[e].version \in since[l][e]
          /\ file[e].there /\ ~file[e].whole /\ list[l].was[e].whole => file[e].version # list[l].was[e].version
          /\ file[e].whole /\ file[e] = list[l].was[e] /\ e \notin list[l].seen =>
               e \in list[l].todo \/ <<e, file[e].version>> \in list[l].disk
      BY DEF ListInv, ListingSound
    <3>3. list'[l].was[e].version <= time /\ list'[l].stats[e] <= time
      BY <1>0, <1>2, <3>1 DEF ListInv, ListTyped
    <3>4. ASSUME NEW v \in Nat, <<e, v>> \in list'[l].disk
          PROVE  v \in since[l][e]
      <4>1. CASE <<e, v>> \in list[l].disk
        BY <3>1, <4>1
      <4>2. CASE file[d].whole /\ <<e, v>> = <<d, file[d].version>>
        BY <3>1, <4>2
      <4> QED
        BY <1>2, <3>4, <4>1, <4>2
    <3>5. file[e].whole /\ file[e] = list[l].was[e] /\ e \notin list[l].seen =>
              e \in list'[l].todo \/ <<e, file[e].version>> \in list'[l].disk
      BY <1>2, <3>2
    <3> QED
      BY <1>2, <2>2, <3>2, <3>3, <3>4, <3>5
  <2> QED
    BY <2>1, <2>2
<1> QED
  BY <1>4, <1>5, <1>6

LEMMA ListStep ==
    ASSUME Saved!ListAssumption, ListInv, Saved!Next
    PROVE  ListInv'
<1>0. /\ time \in Nat /\ file \in [Ids -> ReportFiles] /\ cache \in [Ids -> [mtime : Nat, version : Nat]]
      /\ since \in [Lists -> [Ids -> SUBSET Nat]] /\ list = [c \in Lists |-> Listing(list[c])]
      /\ \A c \in Lists : list[c].was \in [Ids -> ReportFiles]
  BY DEF ListInv, ListTyped
<1>1. ASSUME NEW d \in Ids, Saved!Start(d) \/ Saved!Done(d) \/ Saved!Fails(d)
      PROVE  ListInv'
  <2>1. UNCHANGED <<file, cache, list, since, time>>
    BY <1>1 DEF Saved!Start, Saved!Done, Saved!Fails
  <2> QED
    BY <2>1 DEF ListInv, ListTyped, FilesDated, ListingSound, Saved!Hit
<1>2. ASSUME NEW d \in Ids, Saved!Write(d)
      PROVE  ListInv'
  <2> DEFINE new == [there |-> TRUE, whole |-> FALSE, version |-> time + 1, mtime |-> time + 1]
  <2>1. /\ time' = time + 1 /\ file' = [file EXCEPT ![d] = new] /\ UNCHANGED <<cache, list, since>>
    BY <1>2 DEF Saved!Write
  <2>2. new \in ReportFiles /\ new.whole = FALSE /\ new.version = time + 1 /\ new.mtime = time + 1
    BY <1>0 DEF ReportFiles
  <2> HIDE DEF new
  <2>3. file'[d] = new /\ \A e \in Ids \ {d} : file'[e] = file[e]
    BY <1>0, <2>1
  <2>4. ListTyped'
    BY <1>0, <2>1, <2>2 DEF ListInv, ListTyped
  <2>5. FilesDated'
    <3> SUFFICES ASSUME NEW e \in Ids
                 PROVE  /\ file'[e].mtime <= time' /\ file'[e].version <= time' /\ cache[e].mtime <= time'
                        /\ file'[e].whole => file'[e].there
                        /\ file'[e].there /\ ~file'[e].whole => cache[e].mtime < file'[e].mtime
                        /\ file'[e].whole /\ Saved!Hit(e)' => cache[e].version = file'[e].version
      BY <2>1 DEF FilesDated
    <3>1. file[e] \in ReportFiles /\ cache[e] \in [mtime : Nat, version : Nat] /\ time \in Nat
      BY <1>0
    <3>2. CASE e = d
      BY <2>1, <2>2, <2>3, <3>1, <3>2 DEF ListInv, FilesDated
    <3>3. CASE e # d
      BY <2>1, <2>3, <3>1, <3>3 DEF ListInv, FilesDated, Saved!Hit, ReportFiles
    <3> QED
      BY <3>2, <3>3
  <2>6. ListingSound'
    <3> SUFFICES ASSUME NEW c \in Lists, NEW e \in Ids
                 PROVE  /\ list[c].was[e].version <= time' /\ list[c].stats[e] <= time'
                        /\ \A v \in Nat : <<e, v>> \in list[c].disk => v \in since[c][e]
                        /\ list[c] # Saved!Idle =>
                             /\ file'[e].whole => file'[e].version \in since[c][e]
                             /\ file'[e].there /\ ~file'[e].whole /\ list[c].was[e].whole => file'[e].version # list[c].was[e].version
                             /\ file'[e].whole /\ file'[e] = list[c].was[e] /\ e \notin list[c].seen =>
                                  e \in list[c].todo \/ <<e, file'[e].version>> \in list[c].disk
      BY <2>1 DEF ListingSound
    <3>1. list[c].was[e] \in ReportFiles
      BY <1>0
    <3>2. /\ list[c].was[e].version \in Nat /\ list[c].was[e].version <= time
          /\ list[c].stats[e] \in Nat /\ list[c].stats[e] <= time
      BY <3>1 DEF ListInv, ListTyped, ListingSound, ReportFiles
    <3>3. CASE e = d
      <4>1. \A v \in Nat : <<e, v>> \in list[c].disk => v \in since[c][e]
        BY DEF ListInv, ListingSound
      <4>2. file'[e].whole = FALSE /\ file'[e].version = time + 1
        BY <2>2, <2>3, <3>3
      <4>3. file'[e].version # list[c].was[e].version /\ list[c].was[e].version <= time' /\ list[c].stats[e] <= time'
        BY <1>0, <2>1, <3>2, <4>2
      <4> QED
        BY <4>1, <4>2, <4>3
    <3>4. CASE e # d
      BY <1>0, <2>1, <2>3, <3>2, <3>4 DEF ListInv, ListingSound
    <3> QED
      BY <3>3, <3>4
  <2> QED
    BY <2>4, <2>5, <2>6 DEF ListInv
<1>3. ASSUME NEW d \in Ids, Saved!Written(d)
      PROVE  ListInv'
  <2>1. PICK t \in {time, time + 1} \cap (0 .. MaxTime) : time' = t /\ file' = [file EXCEPT ![d].whole = TRUE, ![d].mtime = t]
    BY <1>3 DEF Saved!Written
  <2>2. /\ file[d].there /\ ~file[d].whole /\ UNCHANGED <<cache, list>>
        /\ since' = [c \in Lists |-> [since[c] EXCEPT ![d] = @ \cup {file[d].version}]]
    BY <1>3 DEF Saved!Written
  <2> DEFINE new == [file[d] EXCEPT !.whole = TRUE, !.mtime = t]
  <2>3. file' = [file EXCEPT ![d] = new] /\ file[d] \in ReportFiles /\ t \in Nat /\ t >= time
    <3>1. t \in Nat /\ t >= time
      BY <1>0, <2>1
    <3>2. file[d] \in ReportFiles /\ file' = [file EXCEPT ![d] = new]
      BY <1>0, <2>1
    <3> QED
      BY <3>1, <3>2
  <2>4. new \in ReportFiles /\ new.whole = TRUE /\ new.there = TRUE /\ new.version = file[d].version /\ new.mtime = t
    BY <2>2, <2>3 DEF ReportFiles
  <2> HIDE DEF new
  <2>5. file'[d] = new /\ \A e \in Ids \ {d} : file'[e] = file[e]
    BY <1>0, <2>3
  <2>6. file[d].version \in Nat
    BY <2>3 DEF ReportFiles
  <2>7. /\ since' \in [Lists -> [Ids -> SUBSET Nat]]
        /\ \A c \in Lists, e \in Ids : since[c][e] \subseteq since'[c][e]
        /\ \A c \in Lists : file[d].version \in since'[c][d]
    BY <1>0, <2>2, <2>6
  <2>8. ListTyped'
    <3>1. file' \in [Ids -> ReportFiles]
      BY <1>0, <2>3, <2>4
    <3> QED
      BY <2>1, <2>2, <2>3, <2>7, <3>1 DEF ListInv, ListTyped
  <2>9. FilesDated'
    <3> SUFFICES ASSUME NEW e \in Ids
                 PROVE  /\ file'[e].mtime <= time' /\ file'[e].version <= time' /\ cache[e].mtime <= time'
                        /\ file'[e].whole => file'[e].there
                        /\ file'[e].there /\ ~file'[e].whole => cache[e].mtime < file'[e].mtime
                        /\ file'[e].whole /\ cache[e].version # 0 /\ cache[e].mtime = file'[e].mtime => cache[e].version = file'[e].version
      BY <2>2 DEF FilesDated, Saved!Hit
    <3>1. /\ file[e] \in ReportFiles /\ cache[e] \in [mtime : Nat, version : Nat] /\ time \in Nat
          /\ file[e].mtime <= time /\ file[e].version <= time /\ cache[e].mtime <= time
      BY <1>0 DEF ListInv, FilesDated
    <3>2. CASE e = d
      <4>1. cache[d].mtime < file[d].mtime
        BY <2>2 DEF ListInv, FilesDated
      <4>2. cache[d].mtime \in Nat /\ file[d].mtime \in Nat /\ file[d].version \in Nat
        BY <3>1, <3>2 DEF ReportFiles
      <4>3. file'[e].mtime = t /\ file'[e].version = file[d].version /\ file'[e].whole /\ file'[e].there
        BY <2>4, <2>5, <3>2
      <4>4. cache[e].mtime < t /\ file[d].version <= t
        BY <2>3, <3>1, <3>2, <4>1, <4>2
      <4> QED
        BY <2>1, <2>3, <3>2, <4>2, <4>3, <4>4
    <3>3. CASE e # d
      <4>1. file'[e] = file[e] /\ time' = t /\ time <= t
        BY <2>1, <2>3, <2>5, <3>3
      <4>2. file[e].mtime <= t /\ file[e].version <= t /\ cache[e].mtime <= t
        BY <2>3, <3>1, <4>1 DEF ReportFiles
      <4> QED
        BY <4>1, <4>2 DEF ListInv, FilesDated, Saved!Hit
    <3> QED
      BY <3>2, <3>3
  <2>10. ListingSound'
    <3> SUFFICES ASSUME NEW c \in Lists, NEW e \in Ids
                 PROVE  /\ list[c].was[e].version <= time' /\ list[c].stats[e] <= time'
                        /\ \A v \in Nat : <<e, v>> \in list[c].disk => v \in since'[c][e]
                        /\ list[c] # Saved!Idle =>
                             /\ file'[e].whole => file'[e].version \in since'[c][e]
                             /\ file'[e].there /\ ~file'[e].whole /\ list[c].was[e].whole => file'[e].version # list[c].was[e].version
                             /\ file'[e].whole /\ file'[e] = list[c].was[e] /\ e \notin list[c].seen =>
                                  e \in list[c].todo \/ <<e, file'[e].version>> \in list[c].disk
      BY <2>2 DEF ListingSound
    <3>1. list[c].was[e] \in ReportFiles
      BY <1>0
    <3>2. /\ list[c].was[e].version \in Nat /\ list[c].was[e].version <= t
          /\ list[c].stats[e] \in Nat /\ list[c].stats[e] <= t
      <4>1. /\ list[c].was[e].version \in Nat /\ list[c].was[e].version <= time
            /\ list[c].stats[e] \in Nat /\ list[c].stats[e] <= time
        BY <3>1 DEF ListInv, ListTyped, ListingSound, ReportFiles
      <4> QED
        BY <1>0, <2>3, <4>1
    <3>3. \A v \in Nat : <<e, v>> \in list[c].disk => v \in since'[c][e]
      BY <2>7 DEF ListInv, ListingSound
    <3>4. CASE e = d
      <4>1. list[c] # Saved!Idle /\ list[c].was[d].whole => file[d].version # list[c].was[d].version
        BY <2>2 DEF ListInv, ListingSound
      <4>2. list[c] # Saved!Idle => file'[d] # list[c].was[d]
        BY <2>4, <2>5, <4>1
      <4> QED
        BY <2>1, <2>4, <2>5, <2>7, <3>2, <3>3, <3>4, <4>2
    <3>5. CASE e # d
      BY <2>1, <2>5, <2>7, <3>2, <3>3, <3>5 DEF ListInv, ListingSound
    <3> QED
      BY <3>4, <3>5
  <2> QED
    BY <2>8, <2>9, <2>10 DEF ListInv
<1>4. ASSUME NEW d \in Ids, Saved!Remove(d)
      PROVE  ListInv'
  <2>1. /\ file' = [file EXCEPT ![d] = Saved!NoFile] /\ cache' = [cache EXCEPT ![d] = Saved!NoEntry] /\ UNCHANGED <<list, since, time>>
    BY <1>4 DEF Saved!Remove
  <2>2. Saved!NoFile \in ReportFiles /\ Saved!NoFile.version = 0 /\ Saved!NoFile.mtime = 0 /\ Saved!NoFile.whole = FALSE /\ Saved!NoFile.there = FALSE
    BY DEF Saved!NoFile, ReportFiles
  <2>3. Saved!NoEntry \in [mtime : Nat, version : Nat] /\ Saved!NoEntry.mtime = 0
    BY DEF Saved!NoEntry
  <2>4. /\ file'[d] = Saved!NoFile /\ cache'[d] = Saved!NoEntry
        /\ \A e \in Ids \ {d} : file'[e] = file[e] /\ cache'[e] = cache[e]
    BY <1>0, <2>1
  <2>5. ListTyped'
    BY <1>0, <2>1, <2>2, <2>3 DEF ListInv, ListTyped
  <2>6. FilesDated'
    BY <1>0, <2>1, <2>2, <2>3, <2>4 DEF ListInv, FilesDated, Saved!Hit
  <2>7. ListingSound'
    <3> SUFFICES ASSUME NEW c \in Lists, NEW e \in Ids
                 PROVE  /\ list[c].was[e].version <= time /\ list[c].stats[e] <= time
                        /\ \A v \in Nat : <<e, v>> \in list[c].disk => v \in since[c][e]
                        /\ list[c] # Saved!Idle =>
                             /\ file'[e].whole => file'[e].version \in since[c][e]
                             /\ file'[e].there /\ ~file'[e].whole /\ list[c].was[e].whole => file'[e].version # list[c].was[e].version
                             /\ file'[e].whole /\ file'[e] = list[c].was[e] /\ e \notin list[c].seen =>
                                  e \in list[c].todo \/ <<e, file'[e].version>> \in list[c].disk
      BY <2>1 DEF ListingSound
    <3>1. CASE e = d
      BY <2>2, <2>4, <3>1 DEF ListInv, ListingSound
    <3>2. CASE e # d
      BY <2>4, <3>2 DEF ListInv, ListingSound
    <3> QED
      BY <3>1, <3>2
  <2> QED
    BY <2>5, <2>6, <2>7 DEF ListInv
<1>5. ASSUME NEW l \in Lists, Saved!Begin(l)
      PROVE  ListInv'
  <2> DEFINE listed == {Saved!Memory[i] : i \in DOMAIN Saved!Memory}
             todo == {d \in Ids : file[d].there} \ listed
             new == [Saved!Idle EXCEPT !.seen = listed, !.todo = todo, !.was = file]
             whole == [d \in Ids |-> IF file[d].whole THEN {file[d].version} ELSE {}]
  <2>1. /\ list' = [list EXCEPT ![l] = new] /\ since' = [since EXCEPT ![l] = whole] /\ UNCHANGED <<file, cache, time>>
    BY <1>5 DEF Saved!Begin
  <2>3. \A d \in Ids : file[d] \in ReportFiles /\ file[d].version \in Nat
    BY <1>0 DEF ReportFiles
  <2>4. /\ whole \in [Ids -> SUBSET Nat]
        /\ \A d \in Ids : file[d].whole => file[d].version \in whole[d]
    BY <2>3
  <2>5. todo \subseteq Ids /\ \A d \in Ids : file[d].there /\ d \notin listed => d \in todo
    OBVIOUS
  <2> HIDE DEF todo, whole, listed
  <2>2. /\ new.seen = listed /\ new.todo = todo /\ new.was = file /\ new.disk = {} /\ new.stats \in [Ids -> Nat]
        /\ new = Listing(new) /\ \A f \in Ids : new.stats[f] = 0
    <3>1. new = [Saved!Idle EXCEPT !.seen = listed, !.todo = todo, !.was = file]
      OBVIOUS
    <3> HIDE DEF new
    <3>2. new.seen = listed /\ new.todo = todo /\ new.was = file /\ new.disk = {} /\ new.stats = Saved!Idle.stats
      BY <3>1 DEF Saved!Idle
    <3>3. new = Listing(new)
      BY <3>1 DEF Saved!Idle, Listing
    <3> QED
      BY <3>2, <3>3, IdleTyped
  <2> HIDE DEF new
  <2>6. /\ list'[l] = new /\ since'[l] = whole
        /\ \A c \in Lists \ {l} : list'[c] = list[c] /\ since'[c] = since[c]
        /\ since' \in [Lists -> [Ids -> SUBSET Nat]] /\ list' = [c \in Lists |-> list'[c]]
    BY <1>0, <2>1, <2>4
  <2>7. ListTyped'
    <3>1. \A c \in Lists : list'[c] = Listing(list'[c])
      BY <1>0, <2>2, <2>6
    <3>2. list' = [c \in Lists |-> Listing(list'[c])]
      BY <2>6, <3>1
    <3>3. \A c \in Lists : /\ list'[c].todo \subseteq Ids /\ list'[c].stats \in [Ids -> Nat]
                           /\ list'[c].was \in [Ids -> ReportFiles] /\ list'[c].disk \subseteq Ids \X Nat
      BY <1>0, <2>2, <2>5, <2>6 DEF ListInv, ListTyped
    <3> QED
      BY <1>0, <2>1, <2>6, <3>2, <3>3 DEF ListTyped
  <2>8. FilesDated'
    BY <2>1 DEF ListInv, FilesDated, Saved!Hit
  <2>9. ListingSound'
    <3> SUFFICES ASSUME NEW c \in Lists, NEW e \in Ids
                 PROVE  /\ list'[c].was[e].version <= time /\ list'[c].stats[e] <= time
                        /\ \A v \in Nat : <<e, v>> \in list'[c].disk => v \in since'[c][e]
                        /\ list'[c] # Saved!Idle =>
                             /\ file[e].whole => file[e].version \in since'[c][e]
                             /\ file[e].there /\ ~file[e].whole /\ list'[c].was[e].whole => file[e].version # list'[c].was[e].version
                             /\ file[e].whole /\ file[e] = list'[c].was[e] /\ e \notin list'[c].seen =>
                                  e \in list'[c].todo \/ <<e, file[e].version>> \in list'[c].disk
      BY <2>1 DEF ListingSound
    <3>1. CASE c = l
      <4>1. file[e].version <= time /\ (file[e].whole => file[e].there) /\ time \in Nat /\ file[e] \in ReportFiles
        BY <1>0 DEF ListInv, FilesDated
      <4>2. /\ list'[c].was = file /\ list'[c].disk = {} /\ list'[c].stats[e] = 0
            /\ list'[c].seen = listed /\ list'[c].todo = todo
        BY <2>2, <2>6, <3>1
      <4>3. file[e].whole => file[e].version \in since'[c][e]
        BY <2>4, <2>6, <3>1
      <4> QED
        BY <2>5, <4>1, <4>2, <4>3
    <3>2. CASE c # l
      BY <2>6, <3>2 DEF ListInv, ListingSound
    <3> QED
      BY <3>1, <3>2
  <2> QED
    BY <2>7, <2>8, <2>9 DEF ListInv
<1>6. ASSUME NEW l \in Lists, NEW d \in Ids, Saved!Stat(l, d)
      PROVE  ListInv'
  <2>1. UNCHANGED <<file, cache, since, time>> /\ d \in list[l].todo
    BY <1>6 DEF Saved!Stat
  <2>2. list[l] # Saved!Idle
    BY <2>1 DEF Saved!Idle
  <2>3. FilesDated'
    BY <2>1 DEF ListInv, FilesDated, Saved!Hit
  <2>4. CASE ~file[d].there
    <3>1. Saved!Skip(l, d) /\ ~file[d].whole
      BY <1>6, <2>4 DEF Saved!Stat, ListInv, FilesDated
    <3> QED
      BY <1>0, <2>1, <2>2, <2>3, <3>1, Looked DEF ListInv, ListTyped
  <2>5. CASE file[d].there /\ Saved!Hit(d)
    <3>1. Saved!Push(l, d, file[d].version) /\ file[d].whole
      BY <1>6, <2>5, HitIsNow DEF Saved!Stat
    <3> QED
      BY <1>0, <2>1, <2>2, <2>3, <3>1, Looked DEF ListInv, ListTyped
  <2>6. CASE file[d].there /\ ~Saved!Hit(d)
    <3>1. list' = [list EXCEPT ![l].stats[d] = file[d].mtime]
      BY <1>6, <2>6 DEF Saved!Stat
    <3>2. list[l] = Listing(list[l]) /\ list[l].stats \in [Ids -> Nat] /\ file[d].mtime \in Nat
      BY <1>0 DEF ListInv, ListTyped, ReportFiles
    <3>3. /\ list'[l] = [list[l] EXCEPT !.stats[d] = file[d].mtime] /\ \A c \in Lists \ {l} : list'[c] = list[c]
          /\ list' = [c \in Lists |-> list'[c]]
      BY <1>0, <3>1
    <3>4. /\ list'[l].todo = list[l].todo /\ list'[l].seen = list[l].seen /\ list'[l].was = list[l].was
          /\ list'[l].disk = list[l].disk /\ list'[l].stats = [list[l].stats EXCEPT ![d] = file[d].mtime]
          /\ list'[l] = Listing(list'[l])
      BY <3>2, <3>3 DEF Listing
    <3>5. ListTyped'
      <4>1. \A c \in Lists : list'[c] = Listing(list'[c])
        BY <1>0, <3>3, <3>4 DEF Listing
      <4>2. list' = [c \in Lists |-> Listing(list'[c])]
        BY <3>3, <4>1
      <4>3. list'[l].stats \in [Ids -> Nat]
        BY <3>2, <3>4
      <4>4. \A c \in Lists : /\ list'[c].todo \subseteq Ids /\ list'[c].stats \in [Ids -> Nat]
                             /\ list'[c].was \in [Ids -> ReportFiles] /\ list'[c].disk \subseteq Ids \X Nat
        BY <3>3, <3>4, <4>3 DEF ListInv, ListTyped
      <4> QED
        BY <1>0, <2>1, <4>2, <4>4 DEF ListTyped
    <3>6. ListingSound'
      <4>1. \A e \in Ids : list'[l].stats[e] <= time
        BY <3>2, <3>4 DEF ListInv, FilesDated, ListingSound
      <4>2. \A c \in Lists : /\ list'[c].todo = list[c].todo /\ list'[c].seen = list[c].seen
                             /\ list'[c].was = list[c].was /\ list'[c].disk = list[c].disk
                             /\ (list'[c] # Saved!Idle => list[c] # Saved!Idle) /\ \A e \in Ids : list'[c].stats[e] <= time
        BY <2>2, <3>3, <3>4, <4>1 DEF ListInv, ListingSound
      <4> QED
        BY <2>1, <4>2 DEF ListInv, ListingSound
    <3> QED
      BY <2>3, <3>5, <3>6 DEF ListInv
  <2> QED
    BY <2>4, <2>5, <2>6
<1>7. ASSUME NEW l \in Lists, NEW d \in Ids, Saved!Read(l, d)
      PROVE  ListInv'
  <2>1. UNCHANGED <<file, since, time>> /\ list[l].stats[d] # 0
    BY <1>7 DEF Saved!Read
  <2>2. list[l] # Saved!Idle
    BY <2>1 DEF Saved!Idle
  <2>3. PICK noted \in Nat : Saved!Noted(l, d) = [mtime |-> noted, version |-> file[d].version] /\ noted = list[l].stats[d]
    BY DEF ListInv, ListTyped, Saved!Noted
  <2>4. file[d] \in ReportFiles /\ file[d].version \in Nat /\ noted <= time
    BY <1>0, <2>3 DEF ListInv, ListingSound, ReportFiles
  <2>5. \/ Saved!Push(l, d, file[d].version) /\ file[d].whole
        \/ Saved!Skip(l, d) /\ ~file[d].whole
    BY <1>7 DEF Saved!Read
  <2>6. /\ ListingSound' /\ list' = [c \in Lists |-> Listing(list'[c])]
        /\ \A c \in Lists : /\ list'[c].todo \subseteq Ids /\ list'[c].stats \in [Ids -> Nat]
                            /\ list'[c].was \in [Ids -> ReportFiles] /\ list'[c].disk \subseteq Ids \X Nat
    BY <2>1, <2>2, <2>5, Looked
  <2>7. CASE file[d].whole
    <3> DEFINE new == [mtime |-> noted, version |-> file[d].version]
    <3>1. cache' = [cache EXCEPT ![d] = new]
      BY <1>7, <2>3, <2>7 DEF Saved!Read
    <3>2. new \in [mtime : Nat, version : Nat] /\ new.mtime = noted /\ new.version = file[d].version
      BY <2>4
    <3> HIDE DEF new
    <3>3. cache'[d] = new /\ \A e \in Ids \ {d} : cache'[e] = cache[e]
      BY <1>0, <3>1
    <3>4. ListTyped'
      BY <1>0, <2>1, <2>6, <3>1, <3>2 DEF ListTyped
    <3>5. FilesDated'
      BY <2>1, <2>4, <2>7, <3>2, <3>3 DEF ListInv, FilesDated, Saved!Hit
    <3> QED
      BY <2>6, <3>4, <3>5 DEF ListInv
  <2>8. CASE ~file[d].whole
    <3>1. UNCHANGED cache
      BY <1>7, <2>8 DEF Saved!Read
    <3> QED
      BY <1>0, <2>1, <2>6, <3>1 DEF ListInv, ListTyped, FilesDated, Saved!Hit
  <2> QED
    BY <2>7, <2>8
<1>8. ASSUME NEW l \in Lists, Saved!Sent(l)
      PROVE  ListInv'
  <2> DEFINE none == [d \in Ids |-> {}]
  <2>1. /\ list' = [list EXCEPT ![l] = Saved!Idle] /\ since' = [since EXCEPT ![l] = none] /\ UNCHANGED <<file, cache, time>>
    BY <1>8 DEF Saved!Sent
  <2>2. none \in [Ids -> SUBSET Nat]
    OBVIOUS
  <2> HIDE DEF none
  <2>3. /\ list'[l] = Saved!Idle /\ \A c \in Lists \ {l} : list'[c] = list[c] /\ since'[c] = since[c]
        /\ since' \in [Lists -> [Ids -> SUBSET Nat]] /\ list' = [c \in Lists |-> list'[c]]
    BY <1>0, <2>1, <2>2
  <2>4. ListTyped'
    <3>1. \A c \in Lists : list'[c] = Listing(list'[c])
      BY <1>0, <2>3, IdleTyped
    <3>2. list' = [c \in Lists |-> Listing(list'[c])]
      BY <2>3, <3>1
    <3>3. \A c \in Lists : /\ list'[c].todo \subseteq Ids /\ list'[c].stats \in [Ids -> Nat]
                           /\ list'[c].was \in [Ids -> ReportFiles] /\ list'[c].disk \subseteq Ids \X Nat
      BY <2>3, IdleTyped DEF ListInv, ListTyped
    <3> QED
      BY <1>0, <2>1, <2>3, <3>2, <3>3 DEF ListTyped
  <2>5. FilesDated'
    BY <2>1 DEF ListInv, FilesDated, Saved!Hit
  <2>6. ListingSound'
    BY <1>0, <2>1, <2>3, IdleTyped DEF ListInv, ListingSound
  <2> QED
    BY <2>4, <2>5, <2>6 DEF ListInv
<1> QED
  BY <1>1, <1>2, <1>3, <1>4, <1>5, <1>6, <1>7, <1>8 DEF Saved!Next

(* What the bench's list says of a saved report is what the report said at   *)
(* some time while the list was made, and a report that was whole all along  *)
(* is in it: for any number of listings, names and writes.                   *)
THEOREM ListOfNow ==
    Saved!ListAssumption => (Saved!Init /\ [][Saved!Next]_(Saved!vars) => []Saved!ListIsOfNow)
<1> SUFFICES ASSUME Saved!ListAssumption PROVE Saved!Init /\ [][Saved!Next]_(Saved!vars) => []Saved!ListIsOfNow
  OBVIOUS
<1>1. Saved!Init => ListInv
  BY ListInit
<1>2. ListInv /\ [Saved!Next]_(Saved!vars) => ListInv'
  <2> SUFFICES ASSUME ListInv, UNCHANGED Saved!vars PROVE ListInv'
    BY ListStep
  <2>1. UNCHANGED <<status, active, recent, file, cache, list, since, time>>
    BY DEF Saved!vars
  <2> QED
    BY <2>1 DEF ListInv, ListTyped, FilesDated, ListingSound, Saved!Hit
<1>3. ListInv => Saved!ListIsOfNow
  <2> SUFFICES ASSUME ListInv PROVE Saved!ListIsOfNow
    OBVIOUS
  <2>1. ASSUME NEW l \in Lists, NEW e \in list[l].disk
        PROVE  e[2] \in since[l][e[1]]
    <3>1. PICK d \in Ids, v \in Nat : e = <<d, v>>
      BY DEF ListInv, ListTyped
    <3> QED
      BY <3>1 DEF ListInv, ListingSound
  <2>2. \A d \in Ids : file[d].whole /\ Saved!Hit(d) => cache[d].version = file[d].version
    BY DEF ListInv, FilesDated
  <2>3. \A l \in Lists, d \in Ids :
           list[l] # Saved!Idle /\ list[l].todo = {} /\ file[d].whole /\ file[d] = list[l].was[d] /\ d \notin list[l].seen =>
               <<d, file[d].version>> \in list[l].disk
    BY DEF ListInv, ListingSound
  <2> QED
    BY <2>1, <2>2, <2>3 DEF Saved!ListIsOfNow
<1> QED
  BY <1>1, <1>2, <1>3, PTL
-----------------------------------------------------------------------------
(* model-pricing.service.ts (ModelPrices): for any number of days and calls, *)
(* whatever the lists lack.                                                  *)

PricedCall == [on : 0 .. MaxDay, st : {"looks", "waits", "none", "priced"}, early : BOOLEAN, by : -1 .. MaxDay]
PriceTyped == /\ day \in 0 .. MaxDay /\ loadedAt \in -1 .. MaxDay /\ inflight \in BOOLEAN
              /\ prices \in -1 .. MaxDay /\ lacking \subseteq 0 .. MaxDay /\ failed \subseteq 0 .. MaxDay
              /\ calls \in Seq(PricedCall)

(* A load under way was begun today, so its list will count as today's; a    *)
(* list is that of the last load, unless that failed; a call that waits      *)
(* ended today; and a call may look up its price when PricesStay allows the  *)
(* list there is.                                                            *)
Dated == /\ loadedAt <= day /\ prices <= day
         /\ inflight => loadedAt = day
         /\ loadedAt # -1 /\ ~inflight => prices = loadedAt \/ loadedAt \in failed
CallDated(c, newest, reading, today, without, unread) ==
    /\ c.st = "looks" => newest >= c.on \/ c.early \/ c.on \in unread
    /\ c.st = "waits" => reading /\ c.on = today
    /\ c.st \in {"none", "priced"} => c.by >= c.on \/ c.early \/ c.on \in unread
    /\ c.st = "none" => c.by = -1 \/ c.by \in without
CallsDated == \A i \in DOMAIN calls : CallDated(calls[i], prices, inflight, day, lacking, failed)
PriceInv == PriceTyped /\ Dated /\ CallsDated

LEMMA PriceStep ==
    ASSUME Prices!PriceAssumption, PriceInv, Prices!Next
    PROVE  PriceInv'
<1>0. /\ day \in 0 .. MaxDay /\ loadedAt \in -1 .. MaxDay /\ inflight \in BOOLEAN /\ prices \in -1 .. MaxDay
      /\ lacking \subseteq 0 .. MaxDay /\ failed \subseteq 0 .. MaxDay /\ calls \in Seq(PricedCall) /\ MaxDay \in Nat
      /\ Dated /\ DOMAIN calls = 1 .. Len(calls) /\ Len(calls) \in Nat
      /\ \A i \in DOMAIN calls : calls[i] \in PricedCall /\ CallDated(calls[i], prices, inflight, day, lacking, failed)
  BY DEF PriceInv, PriceTyped, CallsDated, Prices!PriceAssumption
<1>1. CASE Prices!Estimate
  <2> DEFINE call == [on |-> day, st |-> IF Prices!Fresh THEN "looks" ELSE "waits",
                      early |-> Prices!Fresh /\ inflight, by |-> -1]
  <2>1. /\ calls' = Append(calls, call) /\ UNCHANGED <<day, prices, lacking, failed>>
        /\ IF Prices!Fresh \/ inflight THEN UNCHANGED <<loadedAt, inflight>> ELSE loadedAt' = day /\ inflight' = TRUE
    BY <1>1 DEF Prices!Estimate, Prices!Never
  <2>2. Prices!Fresh => loadedAt = day
    BY <1>0 DEF Prices!Fresh, Prices!Never, Dated
  <2>3. inflight => Prices!Fresh
    BY <1>0 DEF Prices!Fresh, Prices!Never, Dated
  <2>4. Prices!Fresh /\ ~inflight => prices = day \/ day \in failed
    BY <1>0, <2>2 DEF Dated, Prices!Fresh, Prices!Never
  <2>5. Prices!Fresh \in BOOLEAN
    BY DEF Prices!Fresh
  <2>6. call \in PricedCall
    BY <1>0, <2>5 DEF PricedCall
  <2>7. loadedAt' \in -1 .. MaxDay /\ inflight' \in BOOLEAN /\ (inflight => inflight')
    <3>1. CASE Prices!Fresh \/ inflight
      BY <1>0, <2>1, <3>1
    <3>2. CASE ~(Prices!Fresh \/ inflight)
      <4>1. loadedAt' = day /\ inflight' = TRUE
        BY <2>1, <3>2
      <4> QED
        BY <1>0, <4>1
    <3> QED
      BY <3>1, <3>2
  <2>8. CallDated(call, prices', inflight', day', lacking', failed')
    <3>1. CASE Prices!Fresh
      <4>1. call.st = "looks" /\ call.on = day /\ (call.early <=> inflight)
        BY <3>1, <2>5
      <4>2. prices >= day \/ inflight \/ day \in failed
        BY <1>0, <2>4, <3>1
      <4> HIDE DEF call
      <4> QED
        BY <2>1, <4>1, <4>2 DEF CallDated
    <3>2. CASE ~Prices!Fresh
      <4>1. call.st = "waits" /\ call.on = day
        BY <3>2
      <4>2. inflight' = TRUE
        BY <2>1, <2>3, <3>2
      <4> HIDE DEF call
      <4> QED
        BY <2>1, <4>1, <4>2 DEF CallDated
    <3> QED
      BY <3>1, <3>2
  <2> HIDE DEF call
  <2>9. /\ calls' \in Seq(PricedCall)
        /\ \A i \in DOMAIN calls' : calls'[i] = call \/ (i \in DOMAIN calls /\ calls'[i] = calls[i])
    BY <1>0, <2>1, <2>6
  <2>10. \A i \in DOMAIN calls : CallDated(calls[i], prices', inflight', day', lacking', failed')
    BY <1>0, <2>1, <2>7 DEF CallDated
  <2>11. CallsDated'
    BY <2>8, <2>9, <2>10 DEF CallsDated
  <2>12. Dated'
    BY <1>0, <2>1 DEF Dated, Prices!Fresh, Prices!Never
  <2> QED
    BY <1>0, <2>1, <2>7, <2>9, <2>11, <2>12 DEF PriceInv, PriceTyped
<1>2. ASSUME NEW i \in DOMAIN calls, Prices!Price(i)
      PROVE  PriceInv'
  <2> DEFINE state == IF prices = -1 \/ prices \in lacking THEN "none" ELSE "priced"
             call == [on |-> calls[i].on, st |-> state, early |-> calls[i].early, by |-> prices]
  <2>1. /\ calls[i].st = "looks" /\ calls' = [calls EXCEPT ![i].st = state, ![i].by = prices]
        /\ UNCHANGED <<day, loadedAt, inflight, prices, lacking, failed>>
    BY <1>2 DEF Prices!Price, Prices!Never
  <2>2. calls[i] = [on |-> calls[i].on, st |-> calls[i].st, early |-> calls[i].early, by |-> calls[i].by]
    BY <1>0 DEF PricedCall
  <2>3. [[calls[i] EXCEPT !.st = state] EXCEPT !.by = prices] = call
    <3>1. ASSUME NEW o, NEW s, NEW e, NEW b, calls[i] = [on |-> o, st |-> s, early |-> e, by |-> b]
          PROVE  [[calls[i] EXCEPT !.st = state] EXCEPT !.by = prices] = [on |-> o, st |-> state, early |-> e, by |-> prices]
      <4> DEFINE first == [calls[i] EXCEPT !.st = state]
      <4>1. first = [on |-> o, st |-> state, early |-> e, by |-> b]
        BY <3>1
      <4> HIDE DEF first
      <4>2. [first EXCEPT !.by = prices] = [on |-> o, st |-> state, early |-> e, by |-> prices]
        BY <4>1
      <4> QED
        BY <4>2 DEF first
    <3> QED
      BY <2>2, <3>1
  <2>4. call \in PricedCall /\ CallDated(call, prices', inflight', day', lacking', failed')
    BY <1>0, <2>1 DEF PricedCall, CallDated
  <2>5. calls' = [calls EXCEPT ![i] = [[calls[i] EXCEPT !.st = state] EXCEPT !.by = prices]]
    BY <1>0, <2>1
  <2> HIDE DEF call, state
  <2>6. /\ calls' \in Seq(PricedCall) /\ DOMAIN calls' = DOMAIN calls
        /\ \A k \in DOMAIN calls : calls'[k] = IF k = i THEN call ELSE calls[k]
    BY <1>0, <2>3, <2>4, <2>5
  <2>7. CallsDated'
    <3>1. \A k \in DOMAIN calls : CallDated(calls[k], prices', inflight', day', lacking', failed')
      BY <1>0, <2>1
    <3> QED
      BY <2>4, <2>6, <3>1 DEF CallsDated
  <2> QED
    BY <1>0, <2>1, <2>6, <2>7 DEF PriceInv, PriceTyped, Dated
<1>3. CASE Prices!Loaded \/ Prices!LoadFails
  <2> DEFINE woken(c) == IF c.st = "waits" THEN [c EXCEPT !.st = "looks"] ELSE c
  <2>1. /\ inflight /\ inflight' = FALSE /\ UNCHANGED <<day, loadedAt>>
        /\ calls' = [i \in DOMAIN calls |-> woken(calls[i])]
        /\ \/ prices' = day /\ lacking' \in {lacking, lacking \cup {day}} /\ failed' = failed
           \/ failed' = failed \cup {day} /\ UNCHANGED <<prices, lacking>>
    BY <1>3 DEF Prices!Loaded, Prices!LoadFails, Prices!Woken
  <2>2. /\ lacking \subseteq lacking' /\ failed \subseteq failed' /\ (prices' = day \/ day \in failed')
        /\ prices <= prices' /\ prices' <= day /\ prices' \in -1 .. MaxDay
        /\ lacking' \subseteq 0 .. MaxDay /\ failed' \subseteq 0 .. MaxDay
    BY <1>0, <2>1 DEF Dated
  <2>3. ASSUME NEW c \in PricedCall, CallDated(c, prices, inflight, day, lacking, failed)
        PROVE  woken(c) \in PricedCall /\ CallDated(woken(c), prices', inflight', day', lacking', failed')
    <3>1. CASE c.st = "waits"
      <4>1. c = [on |-> c.on, st |-> c.st, early |-> c.early, by |-> c.by] /\ c.on = day
        BY <2>3, <3>1 DEF PricedCall, CallDated
      <4>2. woken(c) = [on |-> c.on, st |-> "looks", early |-> c.early, by |-> c.by]
        BY <3>1, <4>1
      <4>3. woken(c) \in PricedCall /\ woken(c).st = "looks" /\ woken(c).on = day /\ c.on = day
        BY <4>1, <4>2 DEF PricedCall
      <4> HIDE DEF woken
      <4> QED
        BY <1>0, <2>1, <2>2, <4>3 DEF CallDated
    <3>2. CASE c.st # "waits"
      <4>1. woken(c) = c /\ c.on \in 0 .. MaxDay /\ c.by \in -1 .. MaxDay
        BY <3>2 DEF PricedCall
      <4> HIDE DEF woken
      <4> QED
        BY <1>0, <2>1, <2>2, <2>3, <3>2, <4>1 DEF CallDated
    <3> QED
      BY <3>1, <3>2
  <2> HIDE DEF woken
  <2>4. /\ DOMAIN calls' = DOMAIN calls /\ calls' \in Seq(PricedCall)
        /\ \A i \in DOMAIN calls' : calls'[i] = woken(calls[i])
    <3>1. \A i \in DOMAIN calls : woken(calls[i]) \in PricedCall
      BY <1>0, <2>3
    <3> QED
      BY <1>0, <2>1, <3>1
  <2>6. CallsDated'
    BY <1>0, <2>3, <2>4 DEF CallsDated
  <2>7. Dated'
    BY <1>0, <2>1, <2>2 DEF Dated
  <2> QED
    BY <1>0, <2>1, <2>2, <2>4, <2>6, <2>7 DEF PriceInv, PriceTyped
<1>4. CASE Prices!DayPasses
  <2>1. /\ day' = day + 1 /\ day + 1 \in 0 .. MaxDay /\ ~inflight
        /\ UNCHANGED <<loadedAt, inflight, prices, lacking, failed, calls>>
    BY <1>0, <1>4 DEF Prices!DayPasses
  <2>2. CallsDated'
    <3>1. ~inflight
      BY <2>1
    <3> QED
      BY <1>0, <2>1, <3>1 DEF CallsDated, CallDated
  <2> QED
    BY <1>0, <2>1, <2>2 DEF PriceInv, PriceTyped, Dated
<1> QED
  BY <1>1, <1>2, <1>3, <1>4 DEF Prices!Next

(* A call is priced by a list of its day or later, unless that day's list    *)
(* could not be read or it did not wait for it, and has no price only if no  *)
(* list was ever read or the one it was given has none for its model: for    *)
(* any number of days and calls.                                             *)
THEOREM OnceRead ==
    Prices!PriceAssumption => (Prices!Init /\ [][Prices!Next]_(Prices!priceVars) => [](Prices!TypeOK /\ Prices!PricesStay))
<1> SUFFICES ASSUME Prices!PriceAssumption PROVE Prices!Init /\ [][Prices!Next]_(Prices!priceVars) => [](Prices!TypeOK /\ Prices!PricesStay)
  OBVIOUS
<1>1. Prices!Init => PriceInv
  <2> SUFFICES ASSUME Prices!Init PROVE PriceInv
    OBVIOUS
  <2>1. calls = <<>> /\ calls \in Seq(PricedCall) /\ DOMAIN calls = {}
    BY DEF Prices!Init
  <2> QED
    <3>1. day = 0 /\ loadedAt = -1 /\ inflight = FALSE /\ prices = -1 /\ lacking = {} /\ failed = {} /\ MaxDay \in Nat
      BY DEF Prices!Init, Prices!Never, Prices!PriceAssumption
    <3>2. PriceTyped
      <4>1. day \in 0 .. MaxDay /\ loadedAt \in -1 .. MaxDay /\ prices \in -1 .. MaxDay
        BY <3>1
      <4>2. inflight \in BOOLEAN /\ lacking \subseteq 0 .. MaxDay /\ failed \subseteq 0 .. MaxDay
        BY <3>1, Zenon
      <4> QED
        BY <2>1, <4>1, <4>2 DEF PriceTyped
    <3> QED
      BY <2>1, <3>1, <3>2 DEF PriceInv, Dated, CallsDated
<1>2. PriceInv /\ [Prices!Next]_(Prices!priceVars) => PriceInv'
  <2> SUFFICES ASSUME PriceInv, UNCHANGED Prices!priceVars PROVE PriceInv'
    BY PriceStep
  <2> QED
    BY DEF Prices!priceVars, PriceInv, PriceTyped, Dated, CallsDated, CallDated
<1>3. PriceInv => Prices!TypeOK /\ Prices!PricesStay
  <2> SUFFICES ASSUME PriceInv PROVE Prices!TypeOK /\ Prices!PricesStay
    OBVIOUS
  <2>1. \A i \in DOMAIN calls : calls[i] \in PricedCall /\ CallDated(calls[i], prices, inflight, day, lacking, failed)
    BY DEF PriceInv, PriceTyped, CallsDated
  <2> QED
    BY <2>1 DEF PriceInv, PriceTyped, PricedCall, Dated, CallDated, Prices!TypeOK, Prices!PricesStay, Prices!Never
<1> QED
  BY <1>1, <1>2, <1>3, PTL
-----------------------------------------------------------------------------
(* The bench's web page (WebBench): for any datasets, limits and requests.   *)
LEMMA WebCardinality == \A S : Web!Cardinality(S) = Cardinality(S) /\ (Web!IsFiniteSet(S) <=> IsFiniteSet(S))
BY DEF Cardinality, Web!Cardinality, IsFiniteSet, Web!IsFiniteSet

Forms == [file : Files, prefill : BOOLEAN, cases : Files \cup {Web!Nowhere}, topic : BOOLEAN, subset : SUBSET Earlier.cases,
          models : 0 .. MaxModels, repeats : {1, 2}, starting : BOOLEAN, error : BOOLEAN, usageFrom : Files \cup {Web!Nowhere}]
FormRequests == [file : Files, live : BOOLEAN]
WebTyped ==
    /\ form \in Forms /\ loads \subseteq FormRequests /\ usages \subseteq FormRequests
    /\ picker \in [latest : Nat, open : SUBSET Nat, shown : Nat]
    /\ list \in [latest : Nat, open : SUBSET Nat, shown : Nat, loading : BOOLEAN]
    /\ play \in [asked : Nat, open : SUBSET Nat, shown : Nat, busy : BOOLEAN]

\* What still counts was asked for the dataset that is chosen.
FormAsksForFile ==
    /\ \A r \in loads \cup usages : r.live => r.file = form.file
    /\ form.cases \in {Web!Nowhere, form.file} /\ form.usageFrom \in {Web!Nowhere, form.file}
SentAsShown ==
    \A s \in sent : /\ s.caseIds \subseteq CasesOf[s.dataset] /\ s.shown <= Cap
                    /\ s.shown = s.models * s.repeats * Cardinality(IF s.caseIds = {} THEN CasesOf[s.dataset] ELSE s.caseIds)
\* A list on the page was asked for before every request that is open.
NewestShown ==
    /\ \A i \in picker.open : i \in 1 .. picker.latest /\ i # picker.shown
    /\ picker.shown <= picker.latest /\ list.shown <= list.latest /\ play.shown <= play.asked
    /\ \A i \in list.open : i \in 1 .. list.latest
    /\ \A i \in play.open : i \in 1 .. play.asked
    /\ list.loading <=> list.latest \in list.open

WebInv == WebTyped /\ FormAsksForFile /\ SentAsShown /\ NewestShown

LEMMA BlankForm ==
    ASSUME Web!WebAssumption, NEW prefill \in BOOLEAN
    PROVE  /\ Web!Blank(prefill) \in Forms /\ Web!Blank(prefill).cases = Web!Nowhere /\ Web!Blank(prefill).usageFrom = Web!Nowhere
           /\ Web!Request(Web!Blank(prefill).file) \in FormRequests /\ Web!Request(Web!Blank(prefill).file).file = Web!Blank(prefill).file
<1>1. (IF prefill THEN Earlier.file ELSE First) \in Files /\ 0 \in 0 .. MaxModels
  BY DEF Web!WebAssumption
<1>2. Web!Blank(prefill) \in Forms /\ Web!Blank(prefill).cases = Web!Nowhere /\ Web!Blank(prefill).usageFrom = Web!Nowhere
  BY <1>1 DEF Web!Blank, Forms
<1>3. Web!Blank(prefill).file \in Files
  BY <1>2 DEF Forms
<1> QED
  BY <1>2, <1>3 DEF Web!Request, FormRequests

LEMMA DeadRequests ==
    ASSUME NEW requests, requests \subseteq FormRequests, NEW f \in Files
    PROVE  /\ Web!Dead(requests) \cup {Web!Request(f)} \subseteq FormRequests
           /\ \A r \in Web!Dead(requests) \cup {Web!Request(f)} : r.live => r.file = f
<1>1. \A r \in requests : [r EXCEPT !.live = FALSE] \in FormRequests /\ [r EXCEPT !.live = FALSE].live = FALSE
  BY DEF FormRequests
<1>2. Web!Request(f) \in FormRequests /\ Web!Request(f).file = f
  BY DEF Web!Request, FormRequests
<1> QED
  BY <1>1, <1>2 DEF Web!Dead

(* The form's steps leave the lists alone.                                   *)
LEMMA FormStep ==
    ASSUME Web!WebAssumption, WebInv, Web!FormNext
    PROVE  WebInv'
<1>0. /\ form \in Forms /\ loads \subseteq FormRequests /\ usages \subseteq FormRequests
      /\ form.file \in Files /\ form.cases \in {Web!Nowhere, form.file} /\ form.usageFrom \in {Web!Nowhere, form.file}
      /\ \A r \in loads \cup usages : r.live => r.file = form.file
  BY DEF WebInv, WebTyped, FormAsksForFile, Forms
<1>1. UNCHANGED <<picker, play, list>>
  BY DEF Web!FormNext, Web!ChooseFile, Web!CasesAnswer, Web!CasesFail, Web!UsageAnswers, Web!Edit, Web!Start, Web!Started, Web!Rerun, Web!StartRefused, Web!Anew, Web!Rest
<1>2. NewestShown' /\ (form' \in Forms /\ loads' \subseteq FormRequests /\ usages' \subseteq FormRequests => WebTyped')
  BY <1>1 DEF WebInv, WebTyped, NewestShown
<1>3. ASSUME UNCHANGED sent PROVE SentAsShown'
  BY <1>3 DEF WebInv, SentAsShown
<1>4. ASSUME NEW f \in Files, Web!ChooseFile(f)
      PROVE  WebInv'
  <2>1. /\ form' = [form EXCEPT !.file = f, !.cases = Web!Nowhere, !.topic = FALSE, !.usageFrom = Web!Nowhere]
        /\ loads' = Web!Dead(loads) \cup {Web!Request(f)} /\ usages' = Web!Dead(usages) \cup {Web!Request(f)} /\ UNCHANGED sent
    BY <1>4 DEF Web!ChooseFile
  <2>2. form' \in Forms /\ form'.file = f /\ form'.cases = Web!Nowhere /\ form'.usageFrom = Web!Nowhere
    BY <1>0, <2>1 DEF Forms
  <2>3. /\ loads' \subseteq FormRequests /\ usages' \subseteq FormRequests
        /\ \A r \in loads' \cup usages' : r.live => r.file = f
    BY <1>0, <2>1, DeadRequests
  <2> QED
    BY <1>2, <1>3, <2>1, <2>2, <2>3 DEF WebInv, FormAsksForFile
<1>5. ASSUME NEW r \in loads, Web!CasesAnswer(r)
      PROVE  WebInv'
  <2> DEFINE subset == IF form.prefill /\ Earlier.file = r.file THEN Earlier.cases ELSE {}
  <2>1. /\ loads' = loads \ {r} /\ UNCHANGED <<usages, sent>>
        /\ form' = IF r.live THEN [form EXCEPT !.cases = r.file, !.subset = subset] ELSE form
    BY <1>5 DEF Web!CasesAnswer
  <2>2. subset \in SUBSET Earlier.cases
    OBVIOUS
  <2> HIDE DEF subset
  <2>3. form' \in Forms /\ form'.file = form.file /\ form'.cases \in {Web!Nowhere, form.file} /\ form'.usageFrom = form.usageFrom
    <3>1. CASE r.live
      <4>1. r.file = form.file /\ form' = [form EXCEPT !.cases = form.file, !.subset = subset]
        BY <1>0, <2>1, <3>1
      <4> QED
        BY <1>0, <2>2, <4>1 DEF Forms
    <3>2. CASE ~r.live
      BY <1>0, <2>1, <3>2
    <3> QED
      BY <3>1, <3>2
  <2> QED
    BY <1>0, <1>2, <1>3, <2>1, <2>3 DEF WebInv, FormAsksForFile
<1>6. ASSUME NEW r \in loads, Web!CasesFail(r)
      PROVE  WebInv'
  <2>1. /\ loads' = loads \ {r} /\ UNCHANGED <<usages, sent>>
        /\ form' \in {form, [form EXCEPT !.error = TRUE]}
    BY <1>6 DEF Web!CasesFail
  <2>2. form' \in Forms /\ form'.file = form.file /\ form'.cases = form.cases /\ form'.usageFrom = form.usageFrom
    BY <1>0, <2>1 DEF Forms
  <2> QED
    BY <1>0, <1>2, <1>3, <2>1, <2>2 DEF WebInv, FormAsksForFile
<1>7. ASSUME NEW r \in usages, Web!UsageAnswers(r)
      PROVE  WebInv'
  <2>1. /\ usages' = usages \ {r} /\ UNCHANGED <<loads, sent>>
        /\ form' = form \/ (r.live /\ form' = [form EXCEPT !.usageFrom = r.file])
    BY <1>7 DEF Web!UsageAnswers
  <2>2. r.live => r.file = form.file
    BY <1>0
  <2>3. form' \in Forms /\ form'.file = form.file /\ form'.cases = form.cases /\ form'.usageFrom \in {Web!Nowhere, form.file}
    BY <1>0, <2>1, <2>2 DEF Forms
  <2> QED
    BY <1>0, <1>2, <1>3, <2>1, <2>3 DEF WebInv, FormAsksForFile
<1>8. CASE Web!Edit \/ Web!StartRefused
  <2>1. UNCHANGED <<loads, usages, sent>>
    BY <1>8 DEF Web!Edit, Web!StartRefused
  <2>2. form' \in Forms /\ form'.file = form.file /\ form'.cases = form.cases /\ form'.usageFrom = form.usageFrom
    <3>1. CASE form' = [form EXCEPT !.topic = ~@]
      BY <1>0, <3>1 DEF Forms
    <3>2. CASE form' = [form EXCEPT !.subset = {}]
      BY <1>0, <3>2 DEF Forms
    <3>3. CASE form' = [form EXCEPT !.repeats = 3 - @]
      <4>1. form.repeats \in {1, 2}
        BY <1>0 DEF Forms
      <4>2. 3 - form.repeats \in {1, 2}
        BY <4>1
      <4> QED
        BY <1>0, <3>3, <4>2 DEF Forms
    <3>4. ASSUME NEW n \in 0 .. MaxModels, form' = [form EXCEPT !.models = n]
          PROVE  form' \in Forms /\ form'.file = form.file /\ form'.cases = form.cases /\ form'.usageFrom = form.usageFrom
      BY <1>0, <3>4 DEF Forms
    <3>5. CASE form' = [form EXCEPT !.starting = FALSE, !.error = TRUE]
      BY <1>0, <3>5 DEF Forms
    <3> QED
      BY <1>8, <3>1, <3>2, <3>3, <3>4, <3>5 DEF Web!Edit, Web!StartRefused
  <2> QED
    BY <1>0, <1>2, <1>3, <2>1, <2>2 DEF WebInv, FormAsksForFile
<1>9. CASE Web!Start
  <2> DEFINE shown == Web!Runs
             ids == IF form.subset # {} \/ form.topic THEN Web!selected ELSE {}
             run == [dataset |-> form.file, models |-> form.models, repeats |-> form.repeats, shown |-> shown, caseIds |-> ids]
  <2>1. /\ Web!selected # {} /\ shown <= Cap /\ form' = [form EXCEPT !.starting = TRUE, !.error = FALSE]
        /\ sent' = sent \cup {run} /\ UNCHANGED <<loads, usages>>
    BY <1>9 DEF Web!Start
  <2>2. form' \in Forms /\ form'.file = form.file /\ form'.cases = form.cases /\ form'.usageFrom = form.usageFrom
    BY <1>0, <2>1 DEF Forms
  <2>3. form.cases = form.file /\ Web!selected \subseteq CasesOf[form.file]
    BY <1>0, <2>1 DEF Web!selected
  <2>4. IsFiniteSet(Web!selected) /\ Cardinality(Web!selected) \in Nat
    BY <1>0, <2>3, FS_Subset, FS_CardinalityType, WebCardinality DEF Web!WebAssumption
  <2>5. ids \subseteq CasesOf[form.file] /\ Web!selected = IF ids = {} THEN CasesOf[form.file] ELSE ids
    BY <2>1, <2>3 DEF Web!selected
  <2>6. shown = form.models * form.repeats * Cardinality(Web!selected)
    <3>1. form.models \in Nat /\ form.repeats \in Nat
      BY <1>0 DEF Forms, Web!WebAssumption
    <3> QED
      BY <2>4, <3>1, WebCardinality DEF Web!Runs
  <2>7. /\ run.dataset = form.file /\ run.models = form.models /\ run.repeats = form.repeats /\ run.shown = shown /\ run.caseIds = ids
    OBVIOUS
  <2> HIDE DEF shown, ids, run
  <2>8. SentAsShown'
    BY <2>1, <2>5, <2>6, <2>7 DEF WebInv, SentAsShown
  <2> QED
    BY <1>0, <1>2, <2>1, <2>2, <2>8 DEF WebInv, FormAsksForFile
<1>10. ASSUME NEW prefill \in BOOLEAN, Web!Anew(prefill)
       PROVE  WebInv'
  <2>1. /\ form' = Web!Blank(prefill) /\ UNCHANGED sent
        /\ loads' = Web!Dead(loads) \cup {Web!Request(form'.file)} /\ usages' = Web!Dead(usages) \cup {Web!Request(form'.file)}
    BY <1>10 DEF Web!Anew
  <2>2. form' \in Forms /\ form'.cases = Web!Nowhere /\ form'.usageFrom = Web!Nowhere
    BY <2>1, BlankForm
  <2>3. PICK f \in Files : form'.file = f
    BY <2>2 DEF Forms
  <2>4. /\ loads' \subseteq FormRequests /\ usages' \subseteq FormRequests
        /\ \A r \in loads' \cup usages' : r.live => r.file = f
    BY <1>0, <2>1, <2>3, DeadRequests
  <2> QED
    BY <1>2, <1>3, <2>1, <2>2, <2>3, <2>4 DEF WebInv, FormAsksForFile
<1> QED
  BY <1>4, <1>5, <1>6, <1>7, <1>8, <1>9, <1>10 DEF Web!FormNext, Web!Started, Web!Rerun

LEMMA ListsStep ==
    ASSUME Web!WebAssumption, WebInv, Web!ListsNext
    PROVE  WebInv'
<1>0. /\ picker \in [latest : Nat, open : SUBSET Nat, shown : Nat]
      /\ list \in [latest : Nat, open : SUBSET Nat, shown : Nat, loading : BOOLEAN]
      /\ play \in [asked : Nat, open : SUBSET Nat, shown : Nat, busy : BOOLEAN]
      /\ NewestShown
  BY DEF WebInv, WebTyped
<1>1. UNCHANGED <<form, loads, usages, sent>>
  BY DEF Web!ListsNext, Web!refreshModels, Web!ModelsAnswer, Web!reload, Web!useAsync, Web!ask, Web!PlayAnswers, Web!Aside
<1>2. /\ FormAsksForFile' /\ SentAsShown'
      /\ /\ picker' \in [latest : Nat, open : SUBSET Nat, shown : Nat]
         /\ list' \in [latest : Nat, open : SUBSET Nat, shown : Nat, loading : BOOLEAN]
         /\ play' \in [asked : Nat, open : SUBSET Nat, shown : Nat, busy : BOOLEAN]
         => WebTyped'
  BY <1>1 DEF WebInv, WebTyped, FormAsksForFile, SentAsShown
<1>3. CASE Web!refreshModels
  <2>1. /\ picker' = [picker EXCEPT !.latest = @ + 1, !.open = @ \cup {picker.latest + 1}] /\ UNCHANGED <<play, list>>
    BY <1>3 DEF Web!refreshModels
  <2>2. /\ picker' \in [latest : Nat, open : SUBSET Nat, shown : Nat]
        /\ picker'.latest = picker.latest + 1 /\ picker'.open = picker.open \cup {picker.latest + 1} /\ picker'.shown = picker.shown
    <3> DEFINE n == picker.latest + 1
               open == picker.open \cup {n}
    <3>1. n \in Nat /\ open \in SUBSET Nat
      BY <1>0
    <3>2. picker' = [picker EXCEPT !.latest = n, !.open = open]
      BY <2>1
    <3> HIDE DEF n, open
    <3>3. /\ picker'.latest = n /\ picker'.open = open /\ picker'.shown = picker.shown
          /\ picker' \in [latest : Nat, open : SUBSET Nat, shown : Nat]
      BY <1>0, <3>1, <3>2
    <3> QED
      BY <3>1, <3>3 DEF n, open
  <2>3. NewestShown'
    BY <1>0, <2>1, <2>2 DEF NewestShown
  <2> QED
    BY <1>0, <1>2, <2>1, <2>2, <2>3 DEF WebInv
<1>4. ASSUME NEW i \in picker.open, Web!ModelsAnswer(i)
      PROVE  WebInv'
  <2>1. PICK shown \in {i, picker.shown} :
          picker' = [picker EXCEPT !.open = @ \ {i}, !.shown = IF i = picker.latest THEN shown ELSE @]
    BY <1>4 DEF Web!ModelsAnswer
  <2>2. UNCHANGED <<play, list>>
    BY <1>4 DEF Web!ModelsAnswer
  <2>3. i \in Nat /\ i <= picker.latest
    BY <1>0 DEF NewestShown
  <2>4. /\ picker' \in [latest : Nat, open : SUBSET Nat, shown : Nat]
        /\ picker'.latest = picker.latest /\ picker'.open = picker.open \ {i} /\ picker'.shown \in {i, picker.shown}
    BY <1>0, <2>1, <2>3
  <2>5. NewestShown'
    BY <1>0, <2>2, <2>3, <2>4 DEF NewestShown
  <2> QED
    BY <1>0, <1>2, <2>2, <2>4, <2>5 DEF WebInv
<1>5. CASE Web!reload
  <2>1. list' = [list EXCEPT !.latest = @ + 1, !.open = @ \cup {list.latest + 1}, !.loading = TRUE] /\ UNCHANGED <<picker, play>>
    BY <1>5 DEF Web!reload
  <2>2. /\ list' \in [latest : Nat, open : SUBSET Nat, shown : Nat, loading : BOOLEAN]
        /\ list'.latest = list.latest + 1 /\ list'.open = list.open \cup {list.latest + 1} /\ list'.shown = list.shown /\ list'.loading = TRUE
    <3> DEFINE n == list.latest + 1
               open == list.open \cup {n}
    <3>1. n \in Nat /\ open \in SUBSET Nat
      BY <1>0
    <3>2. list' = [list EXCEPT !.latest = n, !.open = open, !.loading = TRUE]
      BY <2>1
    <3> HIDE DEF n, open
    <3>3. /\ list'.latest = n /\ list'.open = open /\ list'.shown = list.shown /\ list'.loading = TRUE
          /\ list' \in [latest : Nat, open : SUBSET Nat, shown : Nat, loading : BOOLEAN]
      BY <1>0, <3>1, <3>2
    <3> QED
      BY <3>1, <3>3 DEF n, open
  <2>3. NewestShown'
    BY <1>0, <2>1, <2>2 DEF NewestShown
  <2> QED
    BY <1>0, <1>2, <2>1, <2>2, <2>3 DEF WebInv
<1>6. ASSUME NEW i \in list.open, Web!useAsync(i)
      PROVE  WebInv'
  <2>1. PICK shown \in {i, list.shown} :
          list' = IF i = list.latest THEN [list EXCEPT !.open = @ \ {i}, !.shown = shown, !.loading = FALSE]
                  ELSE [list EXCEPT !.open = @ \ {i}]
    BY <1>6 DEF Web!useAsync
  <2>2. UNCHANGED <<picker, play>>
    BY <1>6 DEF Web!useAsync
  <2>3. i \in Nat /\ i <= list.latest /\ shown \in Nat /\ shown <= list.latest
    BY <1>0 DEF NewestShown
  <2>4. /\ list' \in [latest : Nat, open : SUBSET Nat, shown : Nat, loading : BOOLEAN]
        /\ list'.latest = list.latest /\ list'.open = list.open \ {i} /\ list'.shown \in {shown, list.shown}
        /\ list'.loading = (i # list.latest /\ list.loading)
    <3>1. CASE i = list.latest
      BY <1>0, <2>1, <2>3, <3>1
    <3>2. CASE i # list.latest
      BY <1>0, <2>1, <2>3, <3>2
    <3> QED
      BY <3>1, <3>2
  <2>5. NewestShown'
    BY <1>0, <2>2, <2>3, <2>4 DEF NewestShown
  <2> QED
    BY <1>0, <1>2, <2>2, <2>4, <2>5 DEF WebInv
<1>7. ASSUME NEW keys \in BOOLEAN, Web!ask(keys)
      PROVE  WebInv'
  <2>1. play' = [play EXCEPT !.asked = @ + 1, !.open = @ \cup {play.asked + 1}, !.busy = TRUE] /\ UNCHANGED <<picker, list>>
    BY <1>7 DEF Web!ask
  <2>2. /\ play' \in [asked : Nat, open : SUBSET Nat, shown : Nat, busy : BOOLEAN]
        /\ play'.asked = play.asked + 1 /\ play'.open = play.open \cup {play.asked + 1} /\ play'.shown = play.shown
    <3> DEFINE n == play.asked + 1
               open == play.open \cup {n}
    <3>1. n \in Nat /\ open \in SUBSET Nat
      BY <1>0
    <3>2. play' = [play EXCEPT !.asked = n, !.open = open, !.busy = TRUE]
      BY <2>1
    <3> HIDE DEF n, open
    <3>3. /\ play'.asked = n /\ play'.open = open /\ play'.shown = play.shown
          /\ play' \in [asked : Nat, open : SUBSET Nat, shown : Nat, busy : BOOLEAN]
      BY <1>0, <3>1, <3>2
    <3> QED
      BY <3>1, <3>3 DEF n, open
  <2>3. NewestShown'
    BY <1>0, <2>1, <2>2 DEF NewestShown
  <2> QED
    BY <1>0, <1>2, <2>1, <2>2, <2>3 DEF WebInv
<1>8. ASSUME NEW i \in play.open, Web!PlayAnswers(i)
      PROVE  WebInv'
  <2>1. PICK shown \in {i, play.shown} : play' = [play EXCEPT !.open = @ \ {i}, !.shown = shown, !.busy = FALSE]
    BY <1>8 DEF Web!PlayAnswers
  <2>2. UNCHANGED <<picker, list>>
    BY <1>8 DEF Web!PlayAnswers
  <2>3. shown \in Nat /\ shown <= play.asked
    BY <1>0 DEF NewestShown
  <2>4. /\ play' \in [asked : Nat, open : SUBSET Nat, shown : Nat, busy : BOOLEAN]
        /\ play'.asked = play.asked /\ play'.open = play.open \ {i} /\ play'.shown = shown
    BY <1>0, <2>1, <2>3
  <2>5. NewestShown'
    BY <1>0, <2>2, <2>3, <2>4 DEF NewestShown
  <2> QED
    BY <1>0, <1>2, <2>2, <2>4, <2>5 DEF WebInv
<1> QED
  BY <1>3, <1>4, <1>5, <1>6, <1>7, <1>8 DEF Web!ListsNext

(* A run is what its page said when it was started, its cases and their use  *)
(* are the chosen dataset's however late the other datasets answer, and the  *)
(* history says that it loads exactly while its latest request is under way: *)
(* for any datasets, limits and number of requests.                          *)
THEOREM RunsShown ==
    Web!WebAssumption => (Web!Init /\ [][Web!Next]_(Web!webVars) => [](Web!TypeOK /\ Web!RunsAsShown))
<1> SUFFICES ASSUME Web!WebAssumption PROVE Web!Init /\ [][Web!Next]_(Web!webVars) => [](Web!TypeOK /\ Web!RunsAsShown)
  OBVIOUS
<1>1. Web!Init => WebInv
  <2> SUFFICES ASSUME Web!Init PROVE WebInv
    OBVIOUS
  <2>1. form \in Forms /\ form.file = First /\ form.cases = Web!Nowhere /\ form.usageFrom = Web!Nowhere
    BY BlankForm DEF Web!Init, Web!Blank
  <2>2. Web!Request(First) \in FormRequests /\ Web!Request(First).file = First
    BY DEF Web!WebAssumption, Web!Request, FormRequests
  <2>3. loads \subseteq FormRequests /\ usages \subseteq FormRequests /\ \A r \in loads \cup usages : r.file = First
    BY <2>2 DEF Web!Init
  <2>4. /\ picker \in [latest : Nat, open : SUBSET Nat, shown : Nat]
        /\ list \in [latest : Nat, open : SUBSET Nat, shown : Nat, loading : BOOLEAN]
        /\ play \in [asked : Nat, open : SUBSET Nat, shown : Nat, busy : BOOLEAN]
    BY DEF Web!Init
  <2>5. NewestShown
    BY DEF Web!Init, NewestShown
  <2> QED
    BY <2>1, <2>3, <2>4, <2>5 DEF Web!Init, WebInv, WebTyped, FormAsksForFile, SentAsShown
<1>2. WebInv /\ [Web!Next]_(Web!webVars) => WebInv'
  <2> SUFFICES ASSUME WebInv, UNCHANGED Web!webVars PROVE WebInv'
    BY FormStep, ListsStep DEF Web!Next
  <2> QED
    BY DEF Web!webVars, WebInv, WebTyped, FormAsksForFile, SentAsShown, NewestShown
<1>3. WebInv => Web!TypeOK /\ Web!RunsAsShown
  <2> SUFFICES ASSUME WebInv PROVE Web!TypeOK /\ Web!RunsAsShown
    OBVIOUS
  <2>1. /\ form \in Forms /\ \A r \in loads \cup usages : r \in FormRequests
        /\ picker.shown \in Nat /\ picker.latest \in Nat /\ list.shown \in Nat /\ list.latest \in Nat
        /\ play.shown \in Nat /\ play.asked \in Nat
    BY DEF WebInv, WebTyped
  <2>2. Web!TypeOK
    BY <2>1 DEF WebInv, NewestShown, Web!TypeOK, Forms, FormRequests
  <2> QED
    BY <2>2, WebCardinality DEF WebInv, FormAsksForFile, SentAsShown, NewestShown, Web!RunsAsShown
<1> QED
  BY <1>1, <1>2, <1>3, PTL
-----------------------------------------------------------------------------
(* mdf/export (MdfExport): for any tables, imports and processes, however    *)
(* they end, what the server opens is whole unless two imports of one        *)
(* process wrote at once.                                                    *)

CopiedTable == [name : DOMAIN Computed, rows : {1, 2}, evaluated : BOOLEAN]
ImportCopy == [version : {1, 2}, tables : Seq(CopiedTable), keys : BOOLEAN, flushed : BOOLEAN, alone : BOOLEAN]
NotRunning == {"idle", "done", "failed", "killed"}
ImportJob == [st : Export!Running \cup NotRunning, in : Processes \cup {Export!Nobody},
              warnings : SUBSET DOMAIN Computed, verify : BOOLEAN]
ExportTyped ==
    /\ source \in {1, 2} /\ output \in Imports \cup {Export!Nobody}
    /\ job \in [Imports -> ImportJob] /\ file \in [Imports -> ImportCopy]
    /\ temp \in [Processes -> Imports \cup {Export!Nobody}]

\* An import's database has as much in it as its step says, each table with its
\* rows, and the import reports the columns that stayed NULL.
Copied(copy) == /\ Len(copy.tables) <= Len(Tables)
                /\ \A i \in DOMAIN copy.tables : copy.tables[i].name = Tables[i] /\ copy.tables[i].rows = copy.version
Reported(copy, warnings) == \A i \in DOMAIN copy.tables : ~copy.tables[i].evaluated => copy.tables[i].name \in warnings
Progress(j, copy) ==
    /\ Copied(copy) /\ Reported(copy, j.warnings)
    /\ j.st = "tables" => Len(copy.tables) < Len(Tables)
    /\ j.st \in {"keys", "checkpoint", "rename"} => Len(copy.tables) = Len(Tables)
    /\ j.st \in {"checkpoint", "rename"} => copy.keys
    /\ j.st = "rename" => copy.flushed
    /\ j.st \in {"verify", "done"} => Export!Whole(copy)

(* What is at a temporary name is of an import of that process, and while    *)
(* that one had the name for itself no other of them writes; a failed import *)
(* left there is whole.                                                      *)
NamedBy == /\ \A i \in Imports : job[i].st # "idle" => job[i].in \in Processes
           /\ \A p \in Processes : temp[p] # Export!Nobody => job[temp[p]].st # "idle" /\ job[temp[p]].in = p
           /\ output # Export!Nobody => job[output].st # "idle"
NamedAlone == \A p \in Processes : temp[p] # Export!Nobody /\ file[temp[p]].alone =>
                 \A j \in Imports : job[j].in = p /\ job[j].st \in Export!Writes => j = temp[p]
LeftWhole == \A i \in Imports : job[i].st = "failed" /\ temp[job[i].in] = i => Export!Whole(file[i])
OutputSound == /\ output # Export!Nobody /\ file[output].alone => Export!Whole(file[output])
               /\ \A i \in Imports : job[i].st = "verify" => output # Export!Nobody
VerdictsSound == \A v \in verdicts : v.file.alone => Export!Whole(v.file)

ExportInv == /\ ExportTyped /\ (\A i \in Imports : Progress(job[i], file[i]))
             /\ NamedBy /\ NamedAlone /\ LeftWhole /\ OutputSound /\ VerdictsSound

\* The types the two sides of the comparison write alike are all but one.
LEMMA FormsShared == {type \in Export!Types : Export!tsqlCanonical(type) # Export!duckCanonical(type)} = {"sql_variant"}
<1>1. \A type \in {"tinyint", "smallint", "int", "bigint", "decimal", "numeric", "money", "smallmoney"} : Export!tsqlCanonical(type) = "digits" /\ Export!duckCanonical(type) = "digits"
  BY DEF Export!tsqlCanonical, Export!duckCanonical, Export!duckType
<1>2. \A type \in {"float", "real"} : Export!tsqlCanonical(type) = "number" /\ Export!duckCanonical(type) = "number"
  BY DEF Export!tsqlCanonical, Export!duckCanonical, Export!duckType
<1>3. \A type \in {"datetime", "smalldatetime", "datetime2", "datetimeoffset", "time"} : Export!tsqlCanonical(type) = "micros" /\ Export!duckCanonical(type) = "micros"
  BY DEF Export!tsqlCanonical, Export!duckCanonical, Export!duckType
<1>4. /\ Export!tsqlCanonical("bit") = Export!duckCanonical("bit") /\ Export!tsqlCanonical("date") = Export!duckCanonical("date")
      /\ Export!tsqlCanonical("uniqueidentifier") = Export!duckCanonical("uniqueidentifier")
  BY DEF Export!tsqlCanonical, Export!duckCanonical, Export!duckType
<1>5. \A type \in {"varchar", "text", "nvarchar", "ntext"} : Export!tsqlCanonical(type) = "bytes" /\ Export!duckCanonical(type) = "bytes"
  BY DEF Export!tsqlCanonical, Export!duckCanonical, Export!duckType, Export!textHex
<1>9. \A type \in {"char", "nchar"} : Export!tsqlCanonical(type) = "trimmed bytes" /\ Export!duckCanonical(type) = "trimmed bytes"
  BY DEF Export!tsqlCanonical, Export!duckCanonical, Export!duckType, Export!textHex
<1>6. \A type \in {"binary", "varbinary", "image", "timestamp"} : Export!tsqlCanonical(type) = "bytes" /\ Export!duckCanonical(type) = "bytes"
  BY DEF Export!tsqlCanonical, Export!duckCanonical, Export!duckType
<1>7. Export!tsqlCanonical("sql_variant") = "digits" /\ Export!duckCanonical("sql_variant") = "escaped bytes"
  BY DEF Export!tsqlCanonical, Export!duckCanonical, Export!duckType
<1>8. \A type \in Export!Types : type # "sql_variant" => Export!tsqlCanonical(type) = Export!duckCanonical(type)
  <2> DEFINE Alike(type) == Export!tsqlCanonical(type) = Export!duckCanonical(type)
  <2>1. \A type \in {"tinyint", "smallint", "int", "bigint", "decimal", "numeric", "money", "smallmoney", "float", "real"} : Alike(type)
    BY <1>1, <1>2
  <2>2. \A type \in {"datetime", "smalldatetime", "datetime2", "datetimeoffset", "time"} : Alike(type)
    BY <1>3
  <2>3. \A type \in {"bit", "date", "uniqueidentifier"} : Alike(type)
    BY <1>4
  <2>4. \A type \in {"varchar", "text", "nvarchar", "ntext", "char", "nchar", "binary", "varbinary", "image", "timestamp"} : Alike(type)
    BY <1>5, <1>6, <1>9
  <2> HIDE DEF Alike
  <2>5. \A type \in Export!Types : type # "sql_variant" => Alike(type)
    BY <2>1, <2>2, <2>3, <2>4 DEF Export!Types
  <2> QED
    BY <2>5 DEF Alike
<1> QED
  BY <1>7, <1>8 DEF Export!Types

\* What a step of one import has to show of it, of the names and of the output.
LEMMA OneImport ==
    ASSUME Export!ExportAssumption, ExportInv, NEW i \in Imports, NEW record \in ImportJob, NEW copy \in ImportCopy,
           job' = [job EXCEPT ![i] = record], file' = [file EXCEPT ![i] = copy], UNCHANGED source,
           job[i].st # "idle", record.st # "idle", record.in = job[i].in,
           record.st \in Export!Writes => job[i].st \in Export!Writes,
           Progress(record, copy), copy.alone = file[i].alone, Export!Whole(file[i]) => Export!Whole(copy),
           temp' \in [Processes -> Imports \cup {Export!Nobody}], \A p \in Processes : temp'[p] \in {temp[p], Export!Nobody},
           record.st = "failed" /\ temp'[record.in] = i => Export!Whole(copy),
           \/ output' = output
           \/ /\ output' \in Imports /\ job[output'].st # "idle"
              /\ file[output'].alone => Export!Whole(file[output']),
           record.st = "verify" => output' # Export!Nobody,
           VerdictsSound'
    PROVE  ExportInv'
<1>0. /\ source \in {1, 2} /\ output \in Imports \cup {Export!Nobody} /\ Export!Nobody \notin Imports
      /\ job \in [Imports -> ImportJob] /\ file \in [Imports -> ImportCopy]
      /\ temp \in [Processes -> Imports \cup {Export!Nobody}]
  BY DEF ExportInv, ExportTyped, Export!ExportAssumption
<1>1. /\ job'[i] = record /\ file'[i] = copy
      /\ \A j \in Imports \ {i} : job'[j] = job[j] /\ file'[j] = file[j]
  BY <1>0
<1>2. job' \in [Imports -> ImportJob] /\ file' \in [Imports -> ImportCopy]
  BY <1>0
<1>3. ExportTyped'
  BY <1>0, <1>2 DEF ExportTyped
<1>4. \A j \in Imports : Progress(job'[j], file'[j])
  BY <1>1 DEF ExportInv
<1>5. \A j \in Imports : /\ job'[j].in = job[j].in /\ (job'[j].st = "idle" <=> job[j].st = "idle")
                         /\ job'[j].st \in Export!Writes => job[j].st \in Export!Writes
                         /\ file'[j].alone = file[j].alone /\ (Export!Whole(file[j]) => Export!Whole(file'[j]))
  BY <1>1
<1>6. NamedBy'
  BY <1>0, <1>3, <1>5 DEF ExportInv, NamedBy, ExportTyped
<1>7. NamedAlone'
  BY <1>0, <1>5 DEF ExportInv, NamedAlone
<1>8. LeftWhole'
  <2> SUFFICES ASSUME NEW j \in Imports, job'[j].st = "failed", temp'[job'[j].in] = j PROVE Export!Whole(file'[j])
    BY DEF LeftWhole, Export!Whole
  <2>1. job'[j].in \in Processes
    BY <1>5, <1>6 DEF NamedBy
  <2>2. CASE j = i
    BY <1>1, <2>2
  <2>3. CASE j # i
    BY <1>0, <1>1, <2>1, <2>3 DEF ExportInv, LeftWhole
  <2> QED
    BY <2>2, <2>3
<1>9. OutputSound'
  <2>1. output' # Export!Nobody /\ file'[output'].alone => Export!Whole(file'[output'])
    BY <1>0, <1>5 DEF ExportInv, OutputSound
  <2>2. \A j \in Imports : job'[j].st = "verify" => output' # Export!Nobody
    BY <1>0, <1>1 DEF ExportInv, OutputSound
  <2> QED
    BY <2>1, <2>2 DEF OutputSound, Export!Whole
<1>10. \A j \in Imports : Progress(job[j], file[j])'
  BY <1>4 DEF Progress, Copied, Reported, Export!Whole
<1> QED
  BY <1>3, <1>6, <1>7, <1>8, <1>9, <1>10 DEF ExportInv

LEMMA VerdictsStay == ExportInv /\ UNCHANGED verdicts => VerdictsSound'
BY DEF ExportInv, VerdictsSound, Export!Whole

\* The job and the database of an import, field by field.
LEMMA ImportFields ==
    ASSUME ExportInv, NEW i \in Imports
    PROVE  /\ job[i] \in ImportJob /\ file[i] \in ImportCopy /\ Progress(job[i], file[i])
           /\ job[i] = [st |-> job[i].st, in |-> job[i].in, warnings |-> job[i].warnings, verify |-> job[i].verify]
           /\ file[i] = [version |-> file[i].version, tables |-> file[i].tables, keys |-> file[i].keys,
                         flushed |-> file[i].flushed, alone |-> file[i].alone]
           /\ job = [job EXCEPT ![i] = job[i]] /\ file = [file EXCEPT ![i] = file[i]]
           /\ \A st : Export!Step(i, st) => job' = [job EXCEPT ![i] = [job[i] EXCEPT !.st = st]]
<1>1. job \in [Imports -> ImportJob] /\ file \in [Imports -> ImportCopy] /\ Progress(job[i], file[i])
  BY DEF ExportInv, ExportTyped
<1>2. job[i] \in ImportJob /\ file[i] \in ImportCopy
  BY <1>1
<1>3. job = [job EXCEPT ![i] = job[i]] /\ file = [file EXCEPT ![i] = file[i]]
  BY <1>1
<1> QED
  BY <1>1, <1>2, <1>3 DEF ImportJob, ImportCopy, Export!Step

LEMMA StartStep ==
    ASSUME Export!ExportAssumption, ExportInv, NEW i \in Imports, NEW p \in Processes, Export!Start(i, p)
    PROVE  ExportInv'
<1> DEFINE nobodyElse == Export!Beside(p) = {}
           copy == [version |-> source, tables |-> <<>>, keys |-> FALSE, flushed |-> FALSE, alone |-> nobodyElse]
<1>0. /\ source \in {1, 2} /\ output \in Imports \cup {Export!Nobody} /\ Export!Nobody \notin Imports
      /\ job \in [Imports -> ImportJob] /\ file \in [Imports -> ImportCopy]
      /\ temp \in [Processes -> Imports \cup {Export!Nobody}] /\ Len(Tables) \in Nat /\ Len(Tables) > 0
  BY DEF ExportInv, ExportTyped, Export!ExportAssumption
<1>1. PICK verify \in BOOLEAN : job' = [job EXCEPT ![i] = [st |-> "tables", in |-> p, warnings |-> {}, verify |-> verify]]
  BY DEF Export!Start
<1> DEFINE record == [st |-> "tables", in |-> p, warnings |-> {}, verify |-> verify]
<1>2. [Export!Blank(source) EXCEPT !.alone = nobodyElse] = copy
  <2> DEFINE blank == Export!Blank(source)
             no == FALSE
             yes == TRUE
  <2>1. blank = [version |-> source, tables |-> <<>>, keys |-> no, flushed |-> no, alone |-> yes]
    BY DEF Export!Blank
  <2> HIDE DEF nobodyElse, blank, no, yes
  <2>2. [blank EXCEPT !.alone = nobodyElse] = [version |-> source, tables |-> <<>>, keys |-> no, flushed |-> no, alone |-> nobodyElse]
    BY <2>1
  <2> QED
    BY <2>2 DEF blank, no
<1>3. /\ job[i].st = "idle" /\ temp' = [temp EXCEPT ![p] = i] /\ UNCHANGED <<source, output, verdicts>>
      /\ file' = [j \in Imports |-> IF j = i THEN copy
                                    ELSE IF j \in Export!Beside(p) THEN [file[j] EXCEPT !.alone = FALSE] ELSE file[j]]
  BY <1>2 DEF Export!Start
<1>4. copy \in ImportCopy /\ Copied(copy) /\ Reported(copy, {}) /\ Len(copy.tables) = 0 /\ (copy.alone <=> nobodyElse)
  <2>1. nobodyElse \in BOOLEAN /\ <<>> \in Seq(CopiedTable)
    OBVIOUS
  <2> HIDE DEF nobodyElse
  <2> QED
    BY <1>0, <2>1 DEF ImportCopy, Copied, Reported
<1>5. record \in ImportJob /\ record.st = "tables" /\ record.in = p /\ record.warnings = {}
  BY DEF ImportJob, Export!Running, Export!Writes
<1>6. Progress(record, copy)
  BY <1>0, <1>4, <1>5 DEF Progress
<1> HIDE DEF record, copy, nobodyElse
<1>7. job'[i] = record /\ file'[i] = copy /\ (\A j \in Imports \ {i} : job'[j] = job[j])
  BY <1>0, <1>1, <1>3 DEF record
<1>8. \A j \in Imports \ {i} :
         /\ file'[j] \in ImportCopy /\ (file'[j].alone => file[j].alone /\ j \notin Export!Beside(p))
         /\ (Export!Whole(file[j]) <=> Export!Whole(file'[j]))
         /\ \A r \in ImportJob : Progress(r, file[j]) => Progress(r, file'[j])
  <2> SUFFICES ASSUME NEW j \in Imports \ {i}
               PROVE  /\ file'[j] \in ImportCopy /\ (file'[j].alone => file[j].alone /\ j \notin Export!Beside(p))
                      /\ (Export!Whole(file[j]) <=> Export!Whole(file'[j]))
                      /\ \A r \in ImportJob : Progress(r, file[j]) => Progress(r, file'[j])
    OBVIOUS
  <2>1. file[j] \in ImportCopy
    BY <1>0
  <2>2. CASE j \notin Export!Beside(p)
    BY <1>3, <2>1, <2>2
  <2>3. CASE j \in Export!Beside(p)
    <3>1. file'[j] = [file[j] EXCEPT !.alone = FALSE]
      BY <1>3, <2>3
    <3>2. /\ file'[j] \in ImportCopy /\ file'[j].alone = FALSE /\ file'[j].tables = file[j].tables
          /\ file'[j].version = file[j].version /\ file'[j].keys = file[j].keys /\ file'[j].flushed = file[j].flushed
      BY <2>1, <3>1 DEF ImportCopy
    <3> QED
      BY <3>2 DEF Export!Whole, Progress, Copied, Reported
  <2> QED
    BY <2>2, <2>3
<1>9. ExportTyped'
  <2>1. job' \in [Imports -> ImportJob] /\ temp' \in [Processes -> Imports \cup {Export!Nobody}]
    BY <1>0, <1>1, <1>3, <1>5 DEF record
  <2>2. file' \in [Imports -> ImportCopy]
    <3>1. \A j \in Imports : file'[j] \in ImportCopy
      BY <1>4, <1>7, <1>8
    <3>2. file' = [j \in Imports |-> file'[j]]
      BY <1>3
    <3> QED
      BY <3>1, <3>2
  <2> QED
    BY <1>0, <1>3, <2>1, <2>2 DEF ExportTyped
<1>10. \A j \in Imports : Progress(job[j], file[j])'
  <2>1. \A j \in Imports : Progress(job'[j], file'[j])
    BY <1>0, <1>6, <1>7, <1>8 DEF ExportInv
  <2> QED
    BY <2>1 DEF Progress, Copied, Reported, Export!Whole
<1>11. temp'[p] = i /\ \A q \in Processes \ {p} : temp'[q] = temp[q]
  BY <1>0, <1>3
<1>12. output # i /\ \A q \in Processes : temp[q] # i
  BY <1>0, <1>3 DEF ExportInv, NamedBy
<1>13. NamedBy'
  BY <1>0, <1>3, <1>5, <1>7, <1>11, <1>12 DEF ExportInv, NamedBy
<1>14. NamedAlone'
  <2> SUFFICES ASSUME NEW q \in Processes, temp'[q] # Export!Nobody, file'[temp'[q]].alone,
                      NEW j \in Imports, job'[j].in = q, job'[j].st \in Export!Writes
               PROVE  j = temp'[q]
    BY DEF NamedAlone, Export!Writes, Export!Nobody
  <2>1. CASE q = p
    <3>1. Export!Beside(p) = {}
      BY <1>4, <1>7, <1>11, <2>1 DEF nobodyElse
    <3> QED
      BY <1>7, <1>11, <2>1, <3>1 DEF Export!Beside
  <2>2. CASE q # p
    <3>1. temp'[q] = temp[q] /\ temp[q] \in Imports \ {i} /\ j # i
      BY <1>0, <1>5, <1>7, <1>11, <1>12, <2>2
    <3> QED
      BY <1>7, <1>8, <3>1 DEF ExportInv, NamedAlone
  <2> QED
    BY <2>1, <2>2
<1>15. LeftWhole'
  <2> SUFFICES ASSUME NEW j \in Imports, job'[j].st = "failed", temp'[job'[j].in] = j PROVE Export!Whole(file'[j])
    BY DEF LeftWhole, Export!Whole
  <2>1. j # i /\ job'[j] = job[j]
    BY <1>5, <1>7
  <2>2. job[j].in \in Processes /\ job[j].in # p
    BY <1>11, <2>1 DEF ExportInv, NamedBy
  <2> QED
    BY <1>8, <1>11, <2>1, <2>2 DEF ExportInv, LeftWhole
<1>16. OutputSound'
  <2>1. output' # Export!Nobody /\ file'[output'].alone => Export!Whole(file'[output'])
    BY <1>0, <1>3, <1>8, <1>12 DEF ExportInv, OutputSound
  <2>2. \A j \in Imports : job'[j].st = "verify" => output' # Export!Nobody
    BY <1>3, <1>5, <1>7 DEF ExportInv, OutputSound
  <2> QED
    BY <2>1, <2>2 DEF OutputSound, Export!Whole
<1> QED
  BY <1>3, <1>9, <1>10, <1>13, <1>14, <1>15, <1>16, VerdictsStay DEF ExportInv

LEMMA TableStep ==
    ASSUME Export!ExportAssumption, ExportInv, NEW i \in Imports, Export!exportTable(i)
    PROVE  ExportInv'
<1> DEFINE k == Len(file[i].tables) + 1
           table == Tables[k]
<1>1. PICK evaluated \in BOOLEAN :
         /\ file' = [file EXCEPT ![i].tables = Append(@, [name |-> table, rows |-> file[i].version, evaluated |-> evaluated])]
         /\ job' = [job EXCEPT ![i].st = IF k = Len(Tables) THEN "keys" ELSE @,
                               ![i].warnings = IF evaluated THEN @ ELSE @ \cup {table}]
  BY DEF Export!exportTable
<1>2. job[i].st = "tables" /\ UNCHANGED <<source, temp, output, verdicts>>
  BY DEF Export!exportTable
<1>3. /\ job[i] \in ImportJob /\ file[i] \in ImportCopy /\ Progress(job[i], file[i])
      /\ job[i] = [st |-> job[i].st, in |-> job[i].in, warnings |-> job[i].warnings, verify |-> job[i].verify]
      /\ file[i] = [version |-> file[i].version, tables |-> file[i].tables, keys |-> file[i].keys,
                    flushed |-> file[i].flushed, alone |-> file[i].alone]
      /\ job \in [Imports -> ImportJob] /\ file \in [Imports -> ImportCopy]
  BY ImportFields DEF ExportInv, ExportTyped
<1>4. /\ Tables \in Seq(DOMAIN Computed) /\ Len(Tables) \in Nat /\ file[i].tables \in Seq(CopiedTable)
      /\ Len(file[i].tables) \in Nat /\ Len(file[i].tables) < Len(Tables) /\ file[i].version \in {1, 2}
      /\ job[i].warnings \subseteq DOMAIN Computed
  BY <1>2, <1>3 DEF Progress, ImportCopy, ImportJob, Export!ExportAssumption
<1>5. k \in Nat /\ k <= Len(Tables) /\ table \in DOMAIN Computed
  BY <1>4
<1> DEFINE new == [name |-> table, rows |-> file[i].version, evaluated |-> evaluated]
           tables == Append(file[i].tables, new)
           warnings == IF evaluated THEN job[i].warnings ELSE job[i].warnings \cup {table}
           st == IF k = Len(Tables) THEN "keys" ELSE "tables"
           copy == [version |-> file[i].version, tables |-> tables, keys |-> file[i].keys,
                    flushed |-> file[i].flushed, alone |-> file[i].alone]
           record == [st |-> st, in |-> job[i].in, warnings |-> warnings, verify |-> job[i].verify]
<1>6. new \in CopiedTable /\ new.name = table /\ new.rows = file[i].version /\ new.evaluated = evaluated
  BY <1>4, <1>5 DEF CopiedTable
<1>7. warnings \subseteq DOMAIN Computed /\ job[i].warnings \subseteq warnings /\ (~evaluated => table \in warnings)
  BY <1>4, <1>5
<1> HIDE DEF new, warnings
<1>8. /\ tables \in Seq(CopiedTable) /\ Len(tables) = k /\ DOMAIN tables = 1 .. k /\ tables[k] = new
      /\ \A n \in DOMAIN tables : n = k \/ (n \in DOMAIN file[i].tables /\ tables[n] = file[i].tables[n])
  BY <1>4, <1>6
<1> HIDE DEF tables
<1>9. /\ copy \in ImportCopy /\ copy.tables = tables /\ copy.version = file[i].version /\ copy.alone = file[i].alone
      /\ record \in ImportJob /\ record.warnings = warnings /\ record.in = job[i].in
      /\ record.st = st
  BY <1>3, <1>7, <1>8 DEF ImportCopy, ImportJob, Export!Running, Export!Writes
<1>10. file' = [file EXCEPT ![i] = copy]
  <2>1. [file[i] EXCEPT !.tables = tables] = copy
    BY <1>3
  <2> HIDE DEF copy
  <2> QED
    BY <1>1, <1>3, <2>1 DEF tables, new
<1>11. job' = [job EXCEPT ![i] = record]
  <2>1. [[job[i] EXCEPT !.st = st] EXCEPT !.warnings = warnings] = record
    <3>1. ASSUME NEW a, NEW b, NEW c, NEW d, job[i] = [st |-> a, in |-> b, warnings |-> c, verify |-> d]
          PROVE  [[job[i] EXCEPT !.st = st] EXCEPT !.warnings = warnings] = [st |-> st, in |-> b, warnings |-> warnings, verify |-> d]
      <4> DEFINE first == [job[i] EXCEPT !.st = st]
      <4>1. first = [st |-> st, in |-> b, warnings |-> c, verify |-> d]
        BY <3>1
      <4> HIDE DEF first
      <4>2. [first EXCEPT !.warnings = warnings] = [st |-> st, in |-> b, warnings |-> warnings, verify |-> d]
        BY <4>1
      <4> QED
        BY <4>2 DEF first
    <3> QED
      BY <1>3, <3>1
  <2>2. job' = [job EXCEPT ![i] = [[job[i] EXCEPT !.st = st] EXCEPT !.warnings = warnings]]
    BY <1>1, <1>2, <1>3 DEF warnings
  <2> QED
    BY <2>1, <2>2
<1> HIDE DEF copy, record
<1>12. Copied(copy)
  BY <1>3, <1>4, <1>5, <1>6, <1>8, <1>9 DEF Progress, Copied
<1>13. Reported(copy, warnings)
  BY <1>3, <1>6, <1>7, <1>8, <1>9 DEF Progress, Reported
<1>14. st \in {"tables", "keys"} /\ (st = "keys" <=> k = Len(Tables))
  OBVIOUS
<1> HIDE DEF st
<1>15. Progress(record, copy)
  BY <1>4, <1>5, <1>8, <1>9, <1>12, <1>13, <1>14 DEF Progress
<1>16. ~Export!Whole(file[i])
  BY <1>4 DEF Export!Whole
<1>17. record.st # "idle" /\ record.st # "failed" /\ record.st # "verify" /\ job[i].st # "idle" /\ job[i].st \in Export!Writes
  BY <1>2, <1>9, <1>14 DEF Export!Writes
<1>18. temp' \in [Processes -> Imports \cup {Export!Nobody}] /\ \A p \in Processes : temp'[p] \in {temp[p], Export!Nobody}
  BY <1>2 DEF ExportInv, ExportTyped
<1> QED
  BY <1>2, <1>9, <1>10, <1>11, <1>15, <1>16, <1>17, <1>18, OneImport, VerdictsStay

\* A step that only goes on, or fails.
LEMMA ImportGoesOn ==
    ASSUME Export!ExportAssumption, ExportInv, NEW i \in Imports, NEW st \in Export!Running \cup NotRunning, Export!Step(i, st),
           UNCHANGED <<source, file>>, job[i].st # "idle", st # "idle",
           st \in Export!Writes => job[i].st \in Export!Writes,
           Progress([job[i] EXCEPT !.st = st], file[i]),
           temp' \in [Processes -> Imports \cup {Export!Nobody}], \A p \in Processes : temp'[p] \in {temp[p], Export!Nobody},
           st = "failed" /\ temp'[job[i].in] = i => Export!Whole(file[i]),
           \/ output' = output
           \/ /\ output' \in Imports /\ job[output'].st # "idle"
              /\ file[output'].alone => Export!Whole(file[output']),
           st = "verify" => output' # Export!Nobody,
           VerdictsSound'
    PROVE  ExportInv'
<1>1. job[i] \in ImportJob /\ file[i] \in ImportCopy /\ file' = [file EXCEPT ![i] = file[i]]
      /\ job' = [job EXCEPT ![i] = [job[i] EXCEPT !.st = st]]
  BY ImportFields
<1> DEFINE record == [job[i] EXCEPT !.st = st]
<1>2. record \in ImportJob /\ record.st = st /\ record.in = job[i].in
  BY <1>1 DEF ImportJob
<1> HIDE DEF record
<1>3. job' = [job EXCEPT ![i] = record] /\ Progress(record, file[i])
  BY <1>1 DEF record
<1> QED
  BY <1>1, <1>2, <1>3, OneImport

\* What goes on says as much of its database as its new step asks for.
LEMMA StepProgress ==
    ASSUME ExportInv, NEW i \in Imports, NEW st \in Export!Running \cup NotRunning,
           \/ st = "failed"
           \/ st \in {"verify", "done"} /\ job[i].st \in {"rename", "verify"}
    PROVE  Progress([job[i] EXCEPT !.st = st], file[i]) /\ (job[i].st = "rename" => Export!Whole(file[i]))
<1>1. job[i] \in ImportJob /\ Progress(job[i], file[i])
  BY ImportFields
<1>2. [job[i] EXCEPT !.st = st].st = st /\ [job[i] EXCEPT !.st = st].warnings = job[i].warnings
  BY <1>1 DEF ImportJob
<1>3. job[i].st \in {"rename", "verify"} => Export!Whole(file[i])
  BY <1>1 DEF Progress, Copied, Export!Whole
<1> QED
  BY <1>1, <1>2, <1>3 DEF Progress

LEMMA RenameStep ==
    ASSUME Export!ExportAssumption, ExportInv, NEW i \in Imports, Export!Rename(i)
    PROVE  ExportInv'
<1> DEFINE p == job[i].in
           named == temp[p]
<1>1. job[i].st = "rename" /\ temp' = [temp EXCEPT ![p] = Export!Nobody] /\ UNCHANGED <<source, file, verdicts>>
  BY DEF Export!Rename
<1>2. p \in Processes /\ temp \in [Processes -> Imports \cup {Export!Nobody}] /\ Export!Nobody \notin Imports
  BY <1>1 DEF ExportInv, NamedBy, ExportTyped, Export!ExportAssumption
<1>3. temp' \in [Processes -> Imports \cup {Export!Nobody}] /\ (\A q \in Processes : temp'[q] \in {temp[q], Export!Nobody})
      /\ temp'[p] = Export!Nobody
  BY <1>1, <1>2
<1>4. VerdictsSound'
  BY <1>1, VerdictsStay
<1>5. CASE named = Export!Nobody
  <2>1. Export!Step(i, "failed") /\ UNCHANGED output
    BY <1>5 DEF Export!Rename
  <2>2. Progress([job[i] EXCEPT !.st = "failed"], file[i]) /\ "failed" \in Export!Running \cup NotRunning /\ "failed" \notin Export!Writes
    BY StepProgress DEF NotRunning, Export!Writes
  <2> QED
    BY <1>1, <1>2, <1>3, <1>4, <2>1, <2>2, ImportGoesOn
<1>6. CASE named # Export!Nobody
  <2>1. PICK st \in {"verify", "done"} : Export!Step(i, st)
    BY <1>6 DEF Export!Rename
  <2>2. output' = named
    BY <1>6 DEF Export!Rename
  <2>3. Progress([job[i] EXCEPT !.st = st], file[i]) /\ st \in Export!Running \cup NotRunning /\ Export!Whole(file[i])
        /\ st \notin Export!Writes /\ st # "failed" /\ st # "idle"
    <3>1. st \in Export!Running \cup NotRunning /\ st \notin Export!Writes /\ st # "failed" /\ st # "idle"
      BY DEF Export!Running, NotRunning, Export!Writes
    <3> QED
      BY <1>1, <3>1, StepProgress
  \* What had the name for itself is this import's.
  <2>4. named \in Imports /\ job[named].st # "idle" /\ (file[named].alone => Export!Whole(file[named]))
    <3>1. named \in Imports /\ job[named].st # "idle"
      BY <1>2, <1>6 DEF ExportInv, NamedBy
    <3>2. file[named].alone => i = named
      BY <1>1, <1>2, <1>6 DEF ExportInv, NamedAlone, Export!Writes
    <3> QED
      BY <2>3, <3>1, <3>2
  <2>5. output' # Export!Nobody /\ output' \in Imports /\ job[output'].st # "idle"
        /\ (file[output'].alone => Export!Whole(file[output']))
    BY <1>2, <2>2, <2>4
  <2> HIDE DEF named, p
  <2> QED
    BY <1>1, <1>3, <1>4, <2>1, <2>3, <2>5, ImportGoesOn
<1> QED
  BY <1>5, <1>6

LEMMA ExportStep ==
    ASSUME Export!ExportAssumption, ExportInv, Export!Next
    PROVE  ExportInv'
<1>0. /\ temp \in [Processes -> Imports \cup {Export!Nobody}] /\ Export!Nobody \notin Imports
      /\ job \in [Imports -> ImportJob] /\ file \in [Imports -> ImportCopy]
  BY DEF ExportInv, ExportTyped, Export!ExportAssumption
<1>1. CASE Export!Changes
  <2>1. source' = 2 /\ UNCHANGED <<job, file, temp, output, verdicts>>
    BY <1>1 DEF Export!Changes
  <2>2. ExportTyped' /\ \A i \in Imports : Progress(job[i], file[i])'
    BY <2>1 DEF ExportInv, ExportTyped, Progress, Copied, Reported, Export!Whole
  <2> QED
    BY <2>1, <2>2, VerdictsStay DEF ExportInv, NamedBy, NamedAlone, LeftWhole, OutputSound, Export!Whole
<1>2. ASSUME NEW i \in Imports, NEW p \in Processes, Export!Start(i, p) PROVE ExportInv'
  BY <1>2, StartStep
<1>3. ASSUME NEW i \in Imports, Export!exportTable(i) PROVE ExportInv'
  BY <1>3, TableStep
<1>4. ASSUME NEW i \in Imports, Export!writeKeys(i) \/ Export!Checkpoint(i) PROVE ExportInv'
  <2>1. PICK st \in {"checkpoint", "rename"}, keys \in {TRUE}, flushed \in BOOLEAN :
           /\ Export!Step(i, st) /\ UNCHANGED <<source, temp, output, verdicts>>
           /\ file' = [file EXCEPT ![i] = [version |-> file[i].version, tables |-> file[i].tables, keys |-> keys,
                                           flushed |-> flushed, alone |-> file[i].alone]]
           /\ job[i].st \in {"keys", "checkpoint"} /\ (st = "rename" => flushed) /\ (file[i].flushed => flushed)
    <3>1. /\ job[i] \in ImportJob /\ file[i] \in ImportCopy /\ Progress(job[i], file[i])
          /\ file[i] = [version |-> file[i].version, tables |-> file[i].tables, keys |-> file[i].keys,
                        flushed |-> file[i].flushed, alone |-> file[i].alone]
      BY ImportFields
    <3>2. CASE Export!writeKeys(i)
      <4>1. /\ Export!Step(i, "checkpoint") /\ job[i].st = "keys" /\ UNCHANGED <<source, temp, output, verdicts>>
            /\ file' = [file EXCEPT ![i] = [file[i] EXCEPT !.keys = TRUE]]
        BY <1>0, <3>2 DEF Export!writeKeys
      <4>2. [file[i] EXCEPT !.keys = TRUE] = [version |-> file[i].version, tables |-> file[i].tables, keys |-> TRUE,
                                              flushed |-> file[i].flushed, alone |-> file[i].alone]
        <5> DEFINE written == TRUE
        <5> HIDE DEF written
        <5>1. [file[i] EXCEPT !.keys = written] = [version |-> file[i].version, tables |-> file[i].tables, keys |-> written,
                                                   flushed |-> file[i].flushed, alone |-> file[i].alone]
          BY <3>1
        <5> QED
          BY <5>1 DEF written
      <4>3. file[i].flushed \in BOOLEAN
        BY <3>1 DEF ImportCopy
      <4> QED
        BY <4>1, <4>2, <4>3
    <3>3. CASE Export!Checkpoint(i)
      <4>1. /\ Export!Step(i, "rename") /\ job[i].st = "checkpoint" /\ UNCHANGED <<source, temp, output, verdicts>>
            /\ file' = [file EXCEPT ![i] = [file[i] EXCEPT !.flushed = TRUE]]
        BY <1>0, <3>3 DEF Export!Checkpoint
      <4>2. file[i].keys = TRUE
        BY <3>1, <4>1 DEF Progress, ImportCopy
      <4>3. [file[i] EXCEPT !.flushed = TRUE] = [version |-> file[i].version, tables |-> file[i].tables, keys |-> TRUE,
                                              flushed |-> TRUE, alone |-> file[i].alone]
        <5> DEFINE written == TRUE
        <5> HIDE DEF written
        <5>1. [file[i] EXCEPT !.flushed = written] = [version |-> file[i].version, tables |-> file[i].tables, keys |-> file[i].keys,
                                                      flushed |-> written, alone |-> file[i].alone]
          BY <3>1
        <5> QED
          BY <4>2, <5>1 DEF written
      <4> QED
        BY <4>1, <4>3
    <3> QED
      BY <1>4, <3>2, <3>3
  <2> DEFINE copy == [version |-> file[i].version, tables |-> file[i].tables, keys |-> keys,
                      flushed |-> flushed, alone |-> file[i].alone]
             record == [job[i] EXCEPT !.st = st]
  <2>2. /\ job[i] \in ImportJob /\ file[i] \in ImportCopy /\ Progress(job[i], file[i])
        /\ job' = [job EXCEPT ![i] = record]
    BY <2>1, ImportFields
  <2>3. record \in ImportJob /\ record.st = st /\ record.in = job[i].in /\ record.warnings = job[i].warnings
    BY <2>2 DEF ImportJob, Export!Running, Export!Writes
  <2>4. /\ copy \in ImportCopy /\ copy.version = file[i].version /\ copy.tables = file[i].tables /\ copy.keys
        /\ copy.flushed = flushed /\ copy.alone = file[i].alone
    BY <2>2 DEF ImportCopy
  <2> HIDE DEF copy, record
  <2>5. Progress(record, copy)
    BY <2>1, <2>2, <2>3, <2>4 DEF Progress, Copied, Reported
  <2>6. Export!Whole(file[i]) => Export!Whole(copy)
    BY <2>1, <2>4 DEF Export!Whole
  <2>7. record.st # "idle" /\ record.st # "failed" /\ record.st # "verify" /\ job[i].st # "idle" /\ job[i].st \in Export!Writes
    BY <2>1, <2>3 DEF Export!Writes
  <2>8. temp' \in [Processes -> Imports \cup {Export!Nobody}] /\ \A p \in Processes : temp'[p] \in {temp[p], Export!Nobody}
    BY <1>0, <2>1
  <2>9. file' = [file EXCEPT ![i] = copy]
    BY <2>1 DEF copy
  <2> QED
    BY <2>1, <2>2, <2>3, <2>4, <2>5, <2>6, <2>7, <2>8, <2>9, OneImport, VerdictsStay
<1>5. ASSUME NEW i \in Imports, Export!Fail(i) PROVE ExportInv'
  <2>1. /\ job[i].st \in {"tables", "keys", "checkpoint"} /\ Export!Step(i, "failed")
        /\ temp' = [temp EXCEPT ![job[i].in] = Export!Nobody] /\ UNCHANGED <<source, file, output, verdicts>>
    BY <1>5 DEF Export!Fail
  <2>2. job[i].in \in Processes
    BY <2>1 DEF ExportInv, NamedBy
  <2>3. /\ temp' \in [Processes -> Imports \cup {Export!Nobody}] /\ (\A q \in Processes : temp'[q] \in {temp[q], Export!Nobody})
        /\ temp'[job[i].in] # i
    BY <1>0, <2>1, <2>2
  <2>4. Progress([job[i] EXCEPT !.st = "failed"], file[i]) /\ "failed" \in Export!Running \cup NotRunning /\ "failed" \notin Export!Writes
    BY StepProgress DEF NotRunning, Export!Writes
  <2> QED
    BY <2>1, <2>3, <2>4, ImportGoesOn, VerdictsStay
<1>6. ASSUME NEW i \in Imports, Export!Rename(i) PROVE ExportInv'
  BY <1>6, RenameStep
<1>7. ASSUME NEW i \in Imports, Export!RenameFails(i) PROVE ExportInv'
  <2>1. job[i].st = "rename" /\ Export!Step(i, "failed") /\ UNCHANGED <<source, file, temp, output, verdicts>>
    BY <1>7 DEF Export!RenameFails
  <2>2. /\ Progress([job[i] EXCEPT !.st = "failed"], file[i]) /\ Export!Whole(file[i])
        /\ "failed" \in Export!Running \cup NotRunning /\ "failed" \notin Export!Writes
    BY <2>1, StepProgress DEF NotRunning, Export!Writes
  <2> QED
    BY <1>0, <2>1, <2>2, ImportGoesOn, VerdictsStay
<1>8. ASSUME NEW i \in Imports, Export!verifyAgainstSqlServer(i) PROVE ExportInv'
  <2>1. /\ job[i].st = "verify" /\ Export!Step(i, "done") /\ UNCHANGED <<source, file, temp, output>>
        /\ \E same : verdicts' = verdicts \cup {[same |-> same, file |-> file[output]]}
    BY <1>8 DEF Export!verifyAgainstSqlServer
  <2>2. Progress([job[i] EXCEPT !.st = "done"], file[i]) /\ "done" \in Export!Running \cup NotRunning /\ "done" \notin Export!Writes
    BY <2>1, StepProgress DEF NotRunning, Export!Writes
  <2>3. VerdictsSound'
    <3>1. file[output].alone => Export!Whole(file[output])
      BY <2>1 DEF ExportInv, OutputSound
    <3>2. \A v \in verdicts' : v \in verdicts \/ v.file = file[output]
      BY <2>1
    <3>3. \A v \in verdicts' : v.file.alone => Export!Whole(v.file)
      BY <3>1, <3>2 DEF ExportInv, VerdictsSound
    <3> QED
      BY <3>3 DEF VerdictsSound, Export!Whole
  <2> QED
    BY <1>0, <2>1, <2>2, <2>3, ImportGoesOn
<1>9. ASSUME NEW p \in Processes, Export!Kill(p) PROVE ExportInv'
  <2>1. /\ UNCHANGED <<source, file, temp, output, verdicts>>
        /\ job' = [i \in Imports |-> IF job[i].in = p /\ job[i].st \in Export!Running THEN [job[i] EXCEPT !.st = "killed"] ELSE job[i]]
    BY <1>9 DEF Export!Kill
  <2>2. \A i \in Imports : /\ job'[i] \in ImportJob /\ job'[i].in = job[i].in /\ job'[i].warnings = job[i].warnings
                           /\ job'[i].st = job[i].st \/ (job'[i].st = "killed" /\ job[i].st \in Export!Running)
    BY <1>0, <2>1 DEF ImportJob, NotRunning
  <2>3. job' \in [Imports -> ImportJob]
    <3>1. job' = [i \in Imports |-> job'[i]]
      BY <2>1
    <3> QED
      BY <2>2, <3>1
  <2>4. ExportTyped'
    BY <2>1, <2>3 DEF ExportInv, ExportTyped
  <2>5. \A i \in Imports : Progress(job[i], file[i])'
    <3>1. \A i \in Imports : Progress(job'[i], file[i])
      BY <2>2 DEF ExportInv, Progress
    <3> QED
      BY <2>1, <3>1 DEF Progress, Copied, Reported, Export!Whole
  <2>6. \A i \in Imports : job'[i].st = "idle" => job[i].st = "idle"
    BY <2>2
  <2>7. \A i \in Imports : job[i].st = "idle" => job'[i].st = "idle"
    BY <2>2 DEF Export!Running, Export!Writes
  <2>8. NamedBy'
    BY <1>0, <2>1, <2>2, <2>6, <2>4 DEF ExportInv, NamedBy, ExportTyped
  <2>9. NamedAlone'
    <3>1. \A i \in Imports : job'[i].st \in Export!Writes => job[i].st \in Export!Writes
      BY <2>2 DEF Export!Writes
    <3> QED
      BY <2>1, <2>2, <3>1 DEF ExportInv, NamedAlone
  <2>10. LeftWhole' /\ OutputSound'
    BY <2>1, <2>2 DEF ExportInv, LeftWhole, OutputSound, Export!Whole
  <2> QED
    BY <2>1, <2>4, <2>5, <2>8, <2>9, <2>10, VerdictsStay DEF ExportInv
<1> QED
  BY <1>1, <1>2, <1>3, <1>4, <1>5, <1>6, <1>7, <1>8, <1>9 DEF Export!Next

LEMMA ExportInvHolds ==
    Export!ExportAssumption => (Export!Init /\ [][Export!Next]_(Export!exportVars) => []ExportInv)
<1> SUFFICES ASSUME Export!ExportAssumption PROVE Export!Init /\ [][Export!Next]_(Export!exportVars) => []ExportInv
  OBVIOUS
<1>1. Export!Init => ExportInv
  <2> SUFFICES ASSUME Export!Init PROVE ExportInv
    OBVIOUS
  <2>1. /\ source = 1 /\ output = Export!Nobody /\ verdicts = {} /\ job = [i \in Imports |-> Export!Idle]
        /\ file = [i \in Imports |-> Export!Blank(1)] /\ temp = [p \in Processes |-> Export!Nobody]
    BY DEF Export!Init
  <2>2. Export!Idle \in ImportJob /\ Export!Idle.st = "idle" /\ Export!Blank(1) \in ImportCopy /\ Export!Blank(1).tables = <<>>
    <3>1. <<>> \in Seq(CopiedTable)
      OBVIOUS
    <3> QED
      BY <3>1 DEF Export!Idle, Export!Blank, ImportJob, ImportCopy, NotRunning
  <2>3. ExportTyped
    BY <2>1, <2>2 DEF ExportTyped
  <2>4. Progress(Export!Idle, Export!Blank(1))
    <3>1. Len(Tables) \in Nat /\ Len(<<>>) = 0 /\ DOMAIN <<>> = {}
      BY DEF Export!ExportAssumption
    <3> QED
      BY <2>2, <3>1 DEF Progress, Copied, Reported
  <2>5. \A i \in Imports : job[i] = Export!Idle /\ file[i] = Export!Blank(1)
    BY <2>1
  <2> QED
    BY <2>1, <2>2, <2>3, <2>4, <2>5 DEF ExportInv, NamedBy, NamedAlone, LeftWhole, OutputSound, VerdictsSound
<1>2. ExportInv /\ [Export!Next]_(Export!exportVars) => ExportInv'
  <2> SUFFICES ASSUME ExportInv, UNCHANGED Export!exportVars PROVE ExportInv'
    BY ExportStep
  <2>1. UNCHANGED <<source, job, file, temp, output, verdicts>>
    BY DEF Export!exportVars
  <2>2. ExportTyped' /\ \A i \in Imports : Progress(job[i], file[i])'
    BY <2>1 DEF ExportInv, ExportTyped, Progress, Copied, Reported, Export!Whole
  <2> QED
    BY <2>1, <2>2, VerdictsStay DEF ExportInv, NamedBy, NamedAlone, LeftWhole, OutputSound, Export!Whole
<1> QED
  BY <1>1, <1>2, PTL

(* Unless another import of its process wrote meanwhile, an import is seen   *)
(* at the output only whole, and one that failed leaves nothing in part; and *)
(* the NULL columns of what the server opens are in the report of the import *)
(* that wrote it: for any tables, imports and processes.                     *)
THEOREM ExportWhole ==
    Export!ExportAssumption => (Export!Init /\ [][Export!Next]_(Export!exportVars) => [](Export!TypeOK /\ Export!OutputWhole))
<1> SUFFICES ASSUME Export!ExportAssumption PROVE Export!Init /\ [][Export!Next]_(Export!exportVars) => [](Export!TypeOK /\ Export!OutputWhole)
  OBVIOUS
<1>1. ExportInv => Export!TypeOK /\ Export!OutputWhole
  <2> SUFFICES ASSUME ExportInv PROVE Export!TypeOK /\ Export!OutputWhole
    OBVIOUS
  <2>1. Export!TypeOK
    BY DEF ExportInv, ExportTyped, ImportJob, Export!TypeOK, NotRunning
  <2>2. ASSUME output # Export!Nobody
        PROVE  /\ file[output].alone => Export!Whole(file[output])
               /\ \A k \in DOMAIN file[output].tables :
                     ~file[output].tables[k].evaluated => file[output].tables[k].name \in job[output].warnings
    <3>1. output \in Imports
      BY <2>2 DEF ExportInv, ExportTyped
    <3> QED
      BY <2>2, <3>1 DEF ExportInv, OutputSound, Progress, Reported
  <2>3. \A i \in Imports : job[i].st \in {"failed", "done"} /\ file[i].alone /\ temp[job[i].in] = i => Export!Whole(file[i])
    BY DEF ExportInv, LeftWhole, Progress
  <2> QED
    BY <2>1, <2>2, <2>3 DEF Export!OutputWhole
<1> QED
  BY <1>1, ExportInvHolds, PTL

(* A verification that finds all tables identical saw an import complete,    *)
(* unless another of its process wrote beside it, and all types but one are  *)
(* compared in a form both sides share.                                      *)
THEOREM ExportVerified ==
    Export!ExportAssumption => (Export!Init /\ [][Export!Next]_(Export!exportVars) => []Export!VerifiedWhole)
<1> SUFFICES ASSUME Export!ExportAssumption PROVE Export!Init /\ [][Export!Next]_(Export!exportVars) => []Export!VerifiedWhole
  OBVIOUS
<1>1. ExportInv => Export!VerifiedWhole
  BY FormsShared DEF ExportInv, VerdictsSound, Export!VerifiedWhole
<1> QED
  BY <1>1, ExportInvHolds, PTL
-----------------------------------------------------------------------------
(* Lists that are filtered by position, or sorted: the place of an element   *)
(* is the number of those that are not behind it.                            *)
Place(S, key, i) == Cardinality({j \in S : key[j] <= key[i]})

LEMMA Placed ==
    ASSUME NEW S, IsFiniteSet(S), NEW key \in [S -> Int], \A i, j \in S : key[i] = key[j] => i = j
    PROVE  /\ \A i \in S : Place(S, key, i) \in 1 .. Cardinality(S)
           /\ \A i, j \in S : key[i] < key[j] => Place(S, key, i) < Place(S, key, j)
           /\ \A n \in 1 .. Cardinality(S) : \E i \in S : Place(S, key, i) = n
<1> DEFINE Upto(i) == {j \in S : key[j] <= key[i]}
<1>0. Cardinality(S) \in Nat
  BY FS_CardinalityType
<1>1. \A i \in S : IsFiniteSet(Upto(i)) /\ Cardinality(Upto(i)) \in Nat /\ Cardinality(Upto(i)) <= Cardinality(S) /\ i \in Upto(i)
  BY FS_Subset, FS_CardinalityType
<1>2. ASSUME NEW i \in S PROVE Cardinality(Upto(i)) \in 1 .. Cardinality(S)
  <2>1. Upto(i) # {} /\ IsFiniteSet(Upto(i)) /\ Cardinality(Upto(i)) \in Nat /\ Cardinality(Upto(i)) <= Cardinality(S)
    BY <1>1
  <2>2. Cardinality(Upto(i)) # 0
    BY <2>1, FS_EmptySet
  <2> QED
    BY <2>1, <2>2, <1>0
<1>3. ASSUME NEW i \in S, NEW j \in S, key[i] < key[j] PROVE Cardinality(Upto(i)) < Cardinality(Upto(j))
  <2>1. \A k \in S : key[k] \in Int
    OBVIOUS
  <2>2. Upto(i) \subseteq Upto(j) /\ j \in Upto(j) /\ j \notin Upto(i)
    BY <1>3, <2>1
  <2>3. IsFiniteSet(Upto(j)) /\ IsFiniteSet(Upto(i)) /\ Cardinality(Upto(i)) \in Nat
    BY <1>1
  <2>4. Upto(i) \cup {j} \subseteq Upto(j) /\ Cardinality(Upto(i) \cup {j}) = Cardinality(Upto(i)) + 1
    BY <2>2, <2>3, FS_AddElement
  <2>5. Cardinality(Upto(i) \cup {j}) <= Cardinality(Upto(j))
    BY <2>3, <2>4, FS_Subset
  <2>6. Cardinality(Upto(j)) \in Nat
    BY <1>1
  <2> HIDE DEF Upto
  <2> QED
    BY <2>3, <2>4, <2>5, <2>6
<1> DEFINE place == [i \in S |-> Cardinality(Upto(i))]
           T == 1 .. Cardinality(S)
<1>4. place \in Injection(S, T)
  <2> SUFFICES ASSUME NEW i \in S, NEW j \in S, place[i] = place[j] PROVE i = j
    <3>1. place \in [S -> T]
      BY <1>2
    <3> QED
      BY <3>1 DEF Injection, IsInjective
  <2>1. key[i] \in Int /\ key[j] \in Int /\ Cardinality(Upto(i)) = Cardinality(Upto(j)) /\ Cardinality(Upto(i)) \in Nat
    BY <1>1
  <2>2. ~(key[i] < key[j]) /\ ~(key[j] < key[i])
    <3> HIDE DEF Upto
    <3> QED
      BY <1>3, <2>1
  <2> QED
    BY <2>1, <2>2
<1>5. IsFiniteSet(T) /\ Cardinality(T) = Cardinality(S)
  BY <1>0, FS_Interval, 1 \in Int, Cardinality(S) \in Int
<1>6. place \in Surjection(S, T)
  BY <1>4, <1>5, FS_Injection
<1>7. \A n \in T : \E i \in S : Cardinality(Upto(i)) = n
  BY <1>6 DEF Surjection
<1> QED
  BY <1>2, <1>3, <1>7 DEF Place

(* What a list keeps of its positions, in their order.                       *)
Kept(items, kept) == [n \in 1 .. Cardinality(kept) |-> items[CHOOSE i \in kept : Cardinality({j \in kept : j <= i}) = n]]
Position(kept, n) == CHOOSE i \in kept : Cardinality({j \in kept : j <= i}) = n

LEMMA KeptInOrder ==
    ASSUME NEW k \in Nat, NEW kept \in SUBSET (1 .. k)
    PROVE  /\ Cardinality(kept) \in 0 .. k
           /\ \A n \in 1 .. Cardinality(kept) : Position(kept, n) \in kept
           /\ \A m, n \in 1 .. Cardinality(kept) : m < n => Position(kept, m) < Position(kept, n)
           /\ \A i \in kept : \E n \in 1 .. Cardinality(kept) : i = Position(kept, n)
<1>1. IsFiniteSet(kept) /\ Cardinality(kept) \in 0 .. k
  <2>1. IsFiniteSet(1 .. k) /\ Cardinality(1 .. k) = k
    BY FS_Interval, 1 \in Int, k \in Int
  <2>2. IsFiniteSet(kept) /\ Cardinality(kept) <= k
    <3>1. kept \subseteq 1 .. k
      OBVIOUS
    <3> QED
      BY <2>1, <3>1, FS_Subset
  <2>3. Cardinality(kept) \in Nat
    BY <2>2, FS_CardinalityType
  <2> QED
    BY <2>2, <2>3
<1> DEFINE key == [i \in kept |-> i]
<1>2. key \in [kept -> Int] /\ \A i, j \in kept : key[i] = key[j] => i = j
  OBVIOUS
<1>3. \A i \in kept : Place(kept, key, i) = Cardinality({j \in kept : j <= i})
  <2> TAKE i \in kept
  <2>1. {j \in kept : key[j] <= key[i]} = {j \in kept : j <= i}
    OBVIOUS
  <2> QED
    BY <2>1 DEF Place
<1>4. /\ \A i \in kept : Place(kept, key, i) \in 1 .. Cardinality(kept)
      /\ \A i, j \in kept : key[i] < key[j] => Place(kept, key, i) < Place(kept, key, j)
      /\ \A n \in 1 .. Cardinality(kept) : \E i \in kept : Place(kept, key, i) = n
  <2> HIDE DEF key
  <2> QED
    BY <1>1, <1>2, Placed
<1> DEFINE place(i) == Cardinality({j \in kept : j <= i})
<1>5. /\ \A i \in kept : place(i) \in 1 .. Cardinality(kept)
      /\ \A i, j \in kept : i < j => place(i) < place(j)
      /\ \A n \in 1 .. Cardinality(kept) : \E i \in kept : place(i) = n
  BY <1>3, <1>4
<1>6. \A n \in 1 .. Cardinality(kept) : Position(kept, n) \in kept /\ place(Position(kept, n)) = n
  BY <1>5 DEF Position
<1> HIDE DEF place
<1>7. \A i \in kept : i \in Int
  OBVIOUS
<1>8. ASSUME NEW m \in 1 .. Cardinality(kept), NEW n \in 1 .. Cardinality(kept), m < n
      PROVE  Position(kept, m) < Position(kept, n)
  <2>1. /\ Position(kept, m) \in kept /\ Position(kept, n) \in kept
        /\ place(Position(kept, m)) = m /\ place(Position(kept, n)) = n
    BY <1>6
  <2> DEFINE p == Position(kept, m)
             q == Position(kept, n)
  <2>2. p \in kept /\ q \in kept /\ place(p) = m /\ place(q) = n /\ p \in Int /\ q \in Int /\ m \in Int /\ n \in Int
    <3>1. 1 .. Cardinality(kept) \subseteq Int
      OBVIOUS
    <3> QED
      BY <1>7, <2>1, <3>1
  <2> HIDE DEF p, q
  <2>3. ~(q < p)
    <3>1. q < p => n < m
      BY <1>5, <2>2
    <3> QED
      BY <1>8, <2>2, <3>1
  <2>4. p # q
    BY <1>8, <2>2
  <2>5. p < q
    BY <2>2, <2>3, <2>4
  <2> QED
    BY <2>5 DEF p, q
<1>9. ASSUME NEW i \in kept PROVE \E n \in 1 .. Cardinality(kept) : i = Position(kept, n)
  <2>1. /\ place(i) \in 1 .. Cardinality(kept) /\ Position(kept, place(i)) \in kept
        /\ place(Position(kept, place(i))) = place(i)
    BY <1>5, <1>6
  <2> DEFINE j == Position(kept, place(i))
  <2>2. j \in kept /\ place(j) = place(i) /\ place(i) \in Int /\ i \in Int /\ j \in Int
    <3>1. 1 .. Cardinality(kept) \subseteq Int
      OBVIOUS
    <3> QED
      BY <1>7, <2>1, <3>1
  <2> HIDE DEF j
  <2>3. ~(i < j) /\ ~(j < i)
    BY <1>5, <2>2
  <2>4. i = j
    BY <2>2, <2>3
  <2> QED
    BY <2>1, <2>4 DEF j
<1> QED
  BY <1>1, <1>6, <1>8, <1>9

LEMMA KeptIs ==
    ASSUME NEW S, NEW items \in Seq(S), NEW kept \in SUBSET DOMAIN items
    PROVE  /\ Cardinality(kept) \in 0 .. Len(items)
           /\ Kept(items, kept) \in Seq(S) /\ Len(Kept(items, kept)) = Cardinality(kept)
           /\ DOMAIN Kept(items, kept) = 1 .. Cardinality(kept)
           /\ \A n \in 1 .. Cardinality(kept) : Position(kept, n) \in kept /\ Kept(items, kept)[n] = items[Position(kept, n)]
           /\ \A m, n \in 1 .. Cardinality(kept) : m < n => Position(kept, m) < Position(kept, n)
           /\ \A i \in kept : \E n \in 1 .. Cardinality(kept) : i = Position(kept, n)
<1>1. Len(items) \in Nat /\ DOMAIN items = 1 .. Len(items) /\ \A i \in DOMAIN items : items[i] \in S
  OBVIOUS
<1>2. /\ Cardinality(kept) \in 0 .. Len(items)
      /\ \A n \in 1 .. Cardinality(kept) : Position(kept, n) \in kept
      /\ \A m, n \in 1 .. Cardinality(kept) : m < n => Position(kept, m) < Position(kept, n)
      /\ \A i \in kept : \E n \in 1 .. Cardinality(kept) : i = Position(kept, n)
  BY <1>1, KeptInOrder
<1>3. Kept(items, kept) = [n \in 1 .. Cardinality(kept) |-> items[Position(kept, n)]]
  BY DEF Kept, Position
<1>4. \A n \in 1 .. Cardinality(kept) : items[Position(kept, n)] \in S
  BY <1>1, <1>2
<1>5. Cardinality(kept) \in Nat
  BY <1>1, <1>2
<1> DEFINE card == Cardinality(kept)
           result == [n \in 1 .. card |-> items[Position(kept, n)]]
<1>6. result \in Seq(S) /\ Len(result) = card
  <2> HIDE DEF card
  <2>1. card \in Nat /\ \A n \in 1 .. card : items[Position(kept, n)] \in S
    BY <1>4, <1>5 DEF card
  <2>2. result \in [1 .. card -> S]
    BY <2>1
  <2>3. result \in Seq(S)
    BY <2>1, <2>2, SeqDef
  <2>4. DOMAIN result = 1 .. card
    OBVIOUS
  <2> HIDE DEF result
  <2> QED
    BY <2>1, <2>3, <2>4, LenProperties
<1> QED
  BY <1>2, <1>3, <1>6
-----------------------------------------------------------------------------
(* push.service.ts (PushDevices): for any devices, chunks, reports and      *)
(* faults.                                                                   *)
LEMMA PushCardinality == \A S : Push!Cardinality(S) = Cardinality(S) /\ (Push!IsFiniteSet(S) <=> IsFiniteSet(S))
BY DEF Cardinality, Push!Cardinality, IsFiniteSet, Push!IsFiniteSet

Each(items) == {items[i] : i \in DOMAIN items}
Once(items) == \A i, j \in DOMAIN items : items[i] = items[j] => i = j

(* A send has no device twice, it has those that were enrolled when it read  *)
(* the list, and it posts to all of them before the report counts as sent.   *)
Report == {r \in [st : {"sending", "sent", "failed"}, to : Seq(Tokens), posted : Nat, dead : SUBSET Tokens,
                  enrolled : SUBSET Tokens] :
              /\ r.posted <= Len(r.to) /\ r.dead \subseteq Each(r.to) /\ Once(r.to) /\ Each(r.to) = r.enrolled
              /\ r.st = "sent" => r.posted = Len(r.to)}

PushTyped == /\ devices \in Seq(Tokens) /\ installed \subseteq Tokens /\ known \subseteq Tokens
             /\ reports \in Seq(Report) /\ Len(reports) <= MaxReports
             /\ seen \in [Tokens -> 0 .. Len(reports)] /\ leftOut \in [Tokens -> SUBSET DOMAIN reports]
             /\ pushFaults \in 0 .. MaxFaults
Listed == Once(devices) /\ Each(devices) = enrolled
PushInv == PushTyped /\ Listed

LEMMA EachOnce ==
    ASSUME NEW S, IsFiniteSet(S), NEW items \in Seq(S), Once(items)
    PROVE  Cardinality(Each(items)) = Len(items) /\ Len(items) <= Cardinality(S)
<1>1. Len(items) \in Nat /\ DOMAIN items = 1 .. Len(items) /\ items \in [1 .. Len(items) -> S]
  OBVIOUS
<1>2. IsFiniteSet(1 .. Len(items)) /\ Cardinality(1 .. Len(items)) = Len(items)
  BY <1>1, FS_Interval, 1 \in Int, Len(items) \in Int
<1>3. items \in Bijection(1 .. Len(items), Each(items))
  BY <1>1 DEF Bijection, Injection, Surjection, IsInjective, Each, Once
<1>4. Cardinality(Each(items)) = Len(items)
  BY <1>2, <1>3, FS_Bijection DEF ExistsBijection
<1>5. Each(items) \subseteq S
  BY <1>1 DEF Each
<1> QED
  BY <1>4, <1>5, FS_Subset

\* What is left of a list that has each of its elements once.
Left(items, taken) == Kept(items, {i \in DOMAIN items : items[i] \notin taken})

LEMMA LeftOnce ==
    ASSUME NEW S, NEW items \in Seq(S), Once(items), NEW taken
    PROVE  LET rest == Left(items, taken) IN rest \in Seq(S) /\ Once(rest) /\ Each(rest) = Each(items) \ taken
<1> DEFINE kept == {i \in DOMAIN items : items[i] \notin taken}
           rest == Kept(items, kept)
<1>0. Left(items, taken) = rest
  BY DEF Left
<1>1. kept \in SUBSET DOMAIN items
  OBVIOUS
<1>2. /\ Cardinality(kept) \in 0 .. Len(items)
      /\ rest \in Seq(S) /\ DOMAIN rest = 1 .. Cardinality(kept)
      /\ \A n \in 1 .. Cardinality(kept) : Position(kept, n) \in kept /\ rest[n] = items[Position(kept, n)]
      /\ \A m, n \in 1 .. Cardinality(kept) : m < n => Position(kept, m) < Position(kept, n)
      /\ \A i \in kept : \E n \in 1 .. Cardinality(kept) : i = Position(kept, n)
  <2> HIDE DEF kept
  <2> QED
    BY <1>1, KeptIs
<1>3. \A i \in kept : i \in DOMAIN items /\ i \in Int /\ items[i] \notin taken
  OBVIOUS
<1>4. \A i \in DOMAIN items : items[i] \notin taken => i \in kept
  OBVIOUS
<1> HIDE DEF kept, rest
<1>5. ASSUME NEW m \in DOMAIN rest, NEW n \in DOMAIN rest, rest[m] = rest[n] PROVE m = n
  <2>1. m \in 1 .. Cardinality(kept) /\ n \in 1 .. Cardinality(kept) /\ m \in Int /\ n \in Int
    BY <1>2
  <2>2. Position(kept, m) = Position(kept, n) /\ Position(kept, m) \in Int
    BY <1>2, <1>3, <1>5, <2>1 DEF Once
  <2>3. ~(m < n) /\ ~(n < m)
    BY <1>2, <2>1, <2>2
  <2> QED
    BY <2>1, <2>3
<1>6. Each(rest) = Each(items) \ taken
  <2>1. ASSUME NEW n \in DOMAIN rest PROVE rest[n] \in Each(items) \ taken
    BY <1>2, <1>3 DEF Each
  <2>2. ASSUME NEW i \in DOMAIN items, items[i] \notin taken PROVE \E n \in DOMAIN rest : rest[n] = items[i]
    BY <1>2, <1>4, <2>2
  <2> QED
    BY <2>1, <2>2 DEF Each
<1> QED
  BY <1>0, <1>2, <1>5, <1>6 DEF Once, rest

\* What filter() leaves of the devices.
LEMMA WithoutThem ==
    ASSUME PushInv, NEW tokens
    PROVE  /\ Push!Without(tokens) \in Seq(Tokens) /\ Once(Push!Without(tokens))
           /\ Each(Push!Without(tokens)) = Each(devices) \ tokens
<1>1. devices \in Seq(Tokens) /\ Once(devices)
  BY DEF PushInv, PushTyped, Listed
<1>2. Push!Without(tokens) = Left(devices, tokens)
  BY DEF Push!Without, Push!Only, Left, Kept, Cardinality, Push!Cardinality
<1> QED
  BY <1>1, <1>2, LeftOnce

LEMMA Appended ==
    ASSUME NEW S, NEW items \in Seq(S), NEW x \in S
    PROVE  /\ Append(items, x) \in Seq(S) /\ Each(Append(items, x)) = Each(items) \cup {x}
           /\ Once(items) /\ x \notin Each(items) => Once(Append(items, x))
<1>1. /\ Append(items, x) \in Seq(S) /\ Len(items) \in Nat /\ DOMAIN items = 1 .. Len(items)
      /\ DOMAIN Append(items, x) = 1 .. Len(items) + 1 /\ Append(items, x)[Len(items) + 1] = x
      /\ \A i \in 1 .. Len(items) : Append(items, x)[i] = items[i]
  OBVIOUS
<1>2. \A i \in 1 .. Len(items) + 1 : i = Len(items) + 1 \/ i \in 1 .. Len(items)
  BY <1>1
<1>3. 1 .. Len(items) \subseteq 1 .. Len(items) + 1 /\ Len(items) + 1 \in 1 .. Len(items) + 1
  BY <1>1
<1> QED
  BY <1>1, <1>2, <1>3 DEF Each, Once

LEMMA RegisterStep ==
    ASSUME Push!PushAssumption, PushInv, NEW t \in Tokens, Push!registerPush(t)
    PROVE  PushInv'
<1>1. /\ devices' = Append(Push!Without({t}), t) /\ enrolled' = enrolled \cup {t}
      /\ known' \in {known, known \cup {t}} /\ UNCHANGED <<installed, reports, seen, leftOut, pushFaults>>
  BY DEF Push!registerPush, Push!register
<1>2. devices' \in Seq(Tokens) /\ Each(devices') = Each(devices) \cup {t} /\ Once(devices')
  BY WithoutThem, Appended, <1>1
<1>3. known' \subseteq Tokens
  BY <1>1 DEF PushInv, PushTyped
<1> QED
  BY <1>1, <1>2, <1>3 DEF PushInv, PushTyped, Listed

LEMMA FaultStep ==
    ASSUME Push!PushAssumption, PushInv, Push!Fault
    PROVE  pushFaults' \in 0 .. MaxFaults
BY DEF Push!PushAssumption, PushInv, PushTyped, Push!Fault

(* A report that is replaced by one of the kind.                             *)
LEMMA ReportStep ==
    ASSUME PushInv, NEW r \in DOMAIN reports, NEW new \in Report, reports' = [reports EXCEPT ![r] = new],
           UNCHANGED <<seen, leftOut>>
    PROVE  /\ reports' \in Seq(Report) /\ Len(reports') <= MaxReports
           /\ seen' \in [Tokens -> 0 .. Len(reports')] /\ leftOut' \in [Tokens -> SUBSET DOMAIN reports']
<1>1. reports \in Seq(Report)
  BY DEF PushInv, PushTyped
<1>2. reports' \in Seq(Report) /\ Len(reports') = Len(reports) /\ DOMAIN reports' = DOMAIN reports
  BY <1>1
<1> QED
  BY <1>2 DEF PushInv, PushTyped

LEMMA PostStep ==
    ASSUME Push!PushAssumption, PushInv, NEW r \in DOMAIN reports, Push!Post(r)
    PROVE  PushInv'
<1> DEFINE was == reports[r]
           upTo == IF was.posted + Chunk > Len(was.to) THEN Len(was.to) ELSE was.posted + Chunk
           chunk == {was.to[i] : i \in was.posted + 1 .. upTo}
<1>1. /\ was.st = "sending" /\ was.posted + 1 <= Len(was.to)
      /\ UNCHANGED <<devices, installed, known, enrolled, seen, leftOut, pushFaults>>
      /\ \E dead \in SUBSET (chunk \ installed) :
             reports' = [reports EXCEPT ![r].posted = upTo, ![r].dead = @ \cup dead]
  BY DEF Push!Post
<1>2. PICK dead \in SUBSET (chunk \ installed) : reports' = [reports EXCEPT ![r].posted = upTo, ![r].dead = @ \cup dead]
  BY <1>1
<1>3. /\ was \in Report /\ reports \in Seq(Report) /\ was.to \in Seq(Tokens) /\ was.posted \in Nat
      /\ was.dead \subseteq Tokens /\ was.dead \subseteq Each(was.to) /\ Once(was.to)
      /\ Each(was.to) = was.enrolled /\ was.enrolled \subseteq Tokens
      /\ was = [st |-> was.st, to |-> was.to, posted |-> was.posted, dead |-> was.dead, enrolled |-> was.enrolled]
  BY DEF PushInv, PushTyped, Report
<1>4. Len(was.to) \in Nat /\ DOMAIN was.to = 1 .. Len(was.to) /\ Chunk \in Nat \ {0}
  BY <1>3 DEF Push!PushAssumption
<1> HIDE DEF was
<1>5. upTo \in Nat /\ upTo <= Len(was.to)
  BY <1>1, <1>3, <1>4
<1>6. chunk \subseteq Each(was.to)
  <2>1. was.posted + 1 .. upTo \subseteq DOMAIN was.to
    BY <1>3, <1>4, <1>5
  <2> QED
    BY <2>1 DEF Each
<1>7. dead \subseteq Each(was.to)
  BY <1>6
<1> HIDE DEF upTo, chunk
<1> DEFINE new == [st |-> "sending", to |-> was.to, posted |-> upTo, dead |-> was.dead \cup dead, enrolled |-> was.enrolled]
<1>8. new \in Report
  BY <1>3, <1>5, <1>7 DEF Report
<1>9. reports' = [reports EXCEPT ![r] = new]
  <2>1. reports' = [reports EXCEPT ![r] = [[was EXCEPT !.posted = upTo] EXCEPT !.dead = @ \cup dead]]
    BY <1>2, <1>3 DEF was
  <2>2. [[was EXCEPT !.posted = upTo] EXCEPT !.dead = @ \cup dead] = new
    <3>1. ASSUME NEW a, NEW b, NEW c, NEW d, was = [st |-> "sending", to |-> a, posted |-> b, dead |-> c, enrolled |-> d]
          PROVE  [[was EXCEPT !.posted = upTo] EXCEPT !.dead = @ \cup dead] = new
      <4> DEFINE first == [was EXCEPT !.posted = upTo]
                 second == [first EXCEPT !.dead = @ \cup dead]
      <4>1. first = [st |-> "sending", to |-> a, posted |-> upTo, dead |-> c, enrolled |-> d]
        BY <3>1
      <4> HIDE DEF first
      <4>2. second = [st |-> "sending", to |-> a, posted |-> upTo, dead |-> c \cup dead, enrolled |-> d]
        BY <4>1
      <4>3. was.to = a /\ was.dead = c /\ was.enrolled = d
        BY <3>1
      <4> QED
        BY <4>2, <4>3 DEF first
    <3> QED
      BY <1>1, <1>3, <3>1 DEF was
  <2> QED
    BY <2>1, <2>2
<1> HIDE DEF new
<1>10. UNCHANGED <<seen, leftOut>>
  BY <1>1
<1> QED
  BY <1>1, <1>8, <1>9, <1>10, ReportStep DEF PushInv, PushTyped, Listed

LEMMA PostedStep ==
    ASSUME Push!PushAssumption, PushInv, NEW r \in DOMAIN reports, Push!Posted(r)
    PROVE  PushInv'
<1>1. /\ reports[r].posted = Len(reports[r].to) /\ devices' = Push!Without(reports[r].dead)
      /\ enrolled' = enrolled \ reports[r].dead /\ reports' = [reports EXCEPT ![r].st = "sent"]
      /\ UNCHANGED <<installed, known, seen, leftOut, pushFaults>>
  BY DEF Push!Posted, Push!Forget
<1>2. reports[r] \in Report /\ reports \in Seq(Report)
  BY DEF PushInv, PushTyped
<1> DEFINE new == [reports[r] EXCEPT !.st = "sent"]
<1>3. new \in Report
  BY <1>1, <1>2 DEF Report
<1>4. reports' = [reports EXCEPT ![r] = new] /\ UNCHANGED <<seen, leftOut>>
  BY <1>1, <1>2
<1> HIDE DEF new
<1>5. devices' \in Seq(Tokens) /\ Once(devices') /\ Each(devices') = Each(devices) \ reports[r].dead
  BY <1>1, WithoutThem
<1>6. Listed'
  BY <1>1, <1>5 DEF PushInv, Listed
<1> QED
  BY <1>1, <1>3, <1>4, <1>5, <1>6, ReportStep DEF PushInv, PushTyped

LEMMA SendStep ==
    ASSUME Push!PushAssumption, PushInv, Push!Send
    PROVE  PushInv'
<1> DEFINE state == IF devices = <<>> THEN "sent" ELSE "sending"
           new == [st |-> state, to |-> devices, posted |-> 0, dead |-> {}, enrolled |-> enrolled]
<1>1. /\ Len(reports) < MaxReports /\ reports' = Append(reports, new)
      /\ UNCHANGED <<devices, installed, known, enrolled, seen, leftOut, pushFaults>>
  BY DEF Push!Send
<1>2. /\ devices \in Seq(Tokens) /\ Once(devices) /\ Each(devices) = enrolled /\ Len(devices) \in Nat
      /\ enrolled \subseteq Tokens /\ reports \in Seq(Report)
  BY DEF PushInv, PushTyped, Listed, Each
<1>3. state \in {"sending", "sent"} /\ (state = "sent" => Len(devices) = 0)
  BY <1>2
<1> HIDE DEF state
<1>4. new \in Report
  BY <1>2, <1>3 DEF Report
<1> HIDE DEF new
<1>5. /\ reports' \in Seq(Report) /\ Len(reports') = Len(reports) + 1 /\ Len(reports) \in Nat
      /\ DOMAIN reports \subseteq DOMAIN reports'
  BY <1>1, <1>2, <1>4
<1>6. Len(reports') <= MaxReports
  BY <1>1, <1>5 DEF Push!PushAssumption
<1>7. seen' \in [Tokens -> 0 .. Len(reports')]
  BY <1>1, <1>5 DEF PushInv, PushTyped
<1>8. leftOut' \in [Tokens -> SUBSET DOMAIN reports']
  BY <1>1, <1>5 DEF PushInv, PushTyped
<1> QED
  BY <1>1, <1>5, <1>6, <1>7, <1>8 DEF PushInv, PushTyped, Listed

LEMMA CheckStep ==
    ASSUME PushInv, NEW t \in Tokens, Push!Check(t)
    PROVE  PushInv'
<1>1. /\ seen' = [seen EXCEPT ![t] = Len(reports)]
      /\ leftOut' = [leftOut EXCEPT ![t] = IF t \in known THEN @ \cup (seen[t] + 1 .. Len(reports)) ELSE @]
      /\ UNCHANGED <<devices, installed, known, reports, enrolled, pushFaults>>
  BY DEF Push!Check
<1>2. Len(reports) \in Nat /\ DOMAIN reports = 1 .. Len(reports) /\ seen[t] \in Nat /\ leftOut[t] \subseteq DOMAIN reports
  BY DEF PushInv, PushTyped
<1>3. seen' \in [Tokens -> 0 .. Len(reports)]
  BY <1>1, <1>2 DEF PushInv, PushTyped
<1>4. leftOut[t] \cup (seen[t] + 1 .. Len(reports)) \subseteq DOMAIN reports
  BY <1>2
<1>5. leftOut' \in [Tokens -> SUBSET DOMAIN reports]
  BY <1>1, <1>2, <1>4 DEF PushInv, PushTyped
<1> QED
  BY <1>1, <1>3, <1>5 DEF PushInv, PushTyped, Listed

LEMMA PushStep ==
    ASSUME Push!PushAssumption, PushInv, [Push!Next]_(Push!vars)
    PROVE  PushInv'
<1>1. CASE Push!Send
  BY <1>1, SendStep
<1>2. ASSUME NEW t \in Tokens, Push!registerPush(t) PROVE PushInv'
  BY <1>2, RegisterStep
<1>3. ASSUME NEW t \in Tokens, Push!RegisterElsewhere(t) PROVE PushInv'
  <2>1. Push!Fault /\ known' = known \cup {t} /\ UNCHANGED <<devices, installed, reports, enrolled, seen, leftOut>>
    BY <1>3 DEF Push!RegisterElsewhere
  <2> QED
    BY <2>1, FaultStep DEF PushInv, PushTyped, Listed
<1>4. ASSUME NEW t \in Tokens, Push!unregister(t) PROVE PushInv'
  <2>1. /\ Push!Fault /\ devices' = Push!Without({t}) /\ enrolled' = enrolled \ {t}
        /\ UNCHANGED <<installed, known, reports, seen, leftOut>>
    BY <1>4 DEF Push!unregister
  <2>2. devices' \in Seq(Tokens) /\ Once(devices') /\ Each(devices') = Each(devices) \ {t}
    BY <2>1, WithoutThem
  <2> QED
    BY <2>1, <2>2, FaultStep DEF PushInv, PushTyped, Listed
<1>5. ASSUME NEW t \in Tokens, Push!RemoveApp(t) PROVE PushInv'
  <2>1. /\ Push!Fault /\ installed' = installed \ {t} /\ known' = known \ {t}
        /\ UNCHANGED <<devices, reports, enrolled, seen, leftOut>>
    BY <1>5 DEF Push!RemoveApp
  <2> QED
    BY <2>1, FaultStep DEF PushInv, PushTyped, Listed
<1>6. ASSUME NEW t \in Tokens, Push!InstallAgain(t) PROVE PushInv'
  <2>1. /\ installed' = installed \cup {t} /\ seen' = [seen EXCEPT ![t] = Len(reports)]
        /\ UNCHANGED <<devices, known, reports, enrolled, leftOut, pushFaults>>
    BY <1>6 DEF Push!InstallAgain
  <2>2. seen' \in [Tokens -> 0 .. Len(reports)]
    BY <2>1 DEF PushInv, PushTyped
  <2> QED
    BY <2>1, <2>2 DEF PushInv, PushTyped, Listed
<1>7. ASSUME NEW t \in Tokens, Push!Check(t) PROVE PushInv'
  BY <1>7, CheckStep
<1>8. ASSUME NEW r \in Push!Reports, Push!Post(r) PROVE PushInv'
  BY <1>8, PostStep DEF Push!Reports
<1>9. ASSUME NEW r \in Push!Reports, Push!Posted(r) PROVE PushInv'
  BY <1>9, PostedStep DEF Push!Reports
<1>10. ASSUME NEW r \in Push!Reports, Push!PostFails(r) PROVE PushInv'
  <2>1. /\ Push!Fault /\ reports' = [reports EXCEPT ![r].st = "failed"]
        /\ UNCHANGED <<devices, installed, known, enrolled, seen, leftOut>>
    BY <1>10 DEF Push!PostFails
  <2> DEFINE new == [reports[r] EXCEPT !.st = "failed"]
  <2>2. r \in DOMAIN reports /\ reports[r] \in Report /\ reports \in Seq(Report)
    BY DEF PushInv, PushTyped, Push!Reports
  <2>3. new \in Report
    BY <2>2 DEF Report
  <2>4. reports' = [reports EXCEPT ![r] = new] /\ UNCHANGED <<seen, leftOut>>
    BY <2>1, <2>2
  <2> HIDE DEF new
  <2> QED
    BY <2>1, <2>2, <2>3, <2>4, ReportStep, FaultStep DEF PushInv, PushTyped, Listed
<1>11. CASE UNCHANGED Push!vars
  BY <1>11 DEF Push!vars, PushInv, PushTyped, Listed
<1> QED
  BY <1>1, <1>2, <1>3, <1>4, <1>5, <1>6, <1>7, <1>8, <1>9, <1>10, <1>11 DEF Push!Next

(* A report that a phone left out, counting on the push, was posted to it,   *)
(* and once, if its registration was stored before the send read the devices *)
(* and not taken back, and no post of the send failed, whatever registers    *)
(* and is forgotten while sends are under way: for any devices, chunks,      *)
(* reports and faults.                                                       *)
THEOREM PushedOnce ==
    Push!PushAssumption => (Push!Init /\ [][Push!Next]_(Push!vars) => [](Push!TypeOK /\ Push!PushedOrOwn))
<1> SUFFICES ASSUME Push!PushAssumption PROVE Push!Init /\ [][Push!Next]_(Push!vars) => [](Push!TypeOK /\ Push!PushedOrOwn)
  OBVIOUS
<1>1. Push!Init => PushInv
  <2> SUFFICES ASSUME Push!Init PROVE PushInv
    OBVIOUS
  <2>1. /\ devices = <<>> /\ reports = <<>> /\ devices \in Seq(Tokens) /\ reports \in Seq(Report) /\ Len(reports) = 0
        /\ DOMAIN devices = {} /\ enrolled = {} /\ installed = Tokens /\ known = {} /\ pushFaults = 0
    BY DEF Push!Init
  <2>2. seen \in [Tokens -> 0 .. Len(reports)] /\ leftOut \in [Tokens -> SUBSET DOMAIN reports]
    BY <2>1 DEF Push!Init
  <2>3. Listed
    BY <2>1 DEF Listed, Once, Each
  <2> QED
    BY <2>1, <2>2, <2>3 DEF Push!PushAssumption, PushInv, PushTyped
<1>2. PushInv /\ [Push!Next]_(Push!vars) => PushInv'
  BY PushStep
<1>3. PushInv => Push!TypeOK /\ Push!PushedOrOwn
  <2> SUFFICES ASSUME PushInv PROVE Push!TypeOK /\ Push!PushedOrOwn
    OBVIOUS
  <2>1. ASSUME NEW r \in DOMAIN reports
        PROVE  /\ reports[r].st \in {"sending", "sent", "failed"} /\ reports[r].to \in Seq(Tokens)
               /\ reports[r].posted \in 0 .. Len(reports[r].to)
               /\ reports[r].dead \subseteq Push!ToSet(reports[r].to) /\ reports[r].enrolled \subseteq Tokens
               /\ Push!IsInjective(reports[r].to)
               /\ reports[r].st = "sent" =>
                     \A t \in reports[r].enrolled : \E i \in 1 .. reports[r].posted : reports[r].to[i] = t
    <3>1. reports[r] \in Report
      BY DEF PushInv, PushTyped
    <3>2. reports[r].to \in Seq(Tokens) /\ DOMAIN reports[r].to = 1 .. Len(reports[r].to) /\ Len(reports[r].to) \in Nat
      BY <3>1 DEF Report
    <3> QED
      BY <3>1, <3>2 DEF Report, Push!ToSet, Each, Once, Push!IsInjective
  <2>2. enrolled \subseteq Tokens
    BY DEF PushInv, PushTyped, Listed, Each
  <2>3. Push!TypeOK
    BY <2>1, <2>2 DEF PushInv, PushTyped, Push!TypeOK, Push!Reports
  <2>4. Push!PushedOrOwn
    <3>1. \A t \in Tokens : leftOut[t] \subseteq DOMAIN reports
      BY DEF PushInv, PushTyped
    <3> QED
      BY <2>1, <3>1 DEF Push!PushedOrOwn, Push!Reports
  <2> QED
    BY <2>3, <2>4
<1> QED
  BY <1>1, <1>2, <1>3, PTL
-----------------------------------------------------------------------------
(* chat-reducer.ts (ChatList): for any conversations, questions and answers. *)
LEMMA ChatsCardinality == \A S : Chats!Cardinality(S) = Cardinality(S) /\ (Chats!IsFiniteSet(S) <=> IsFiniteSet(S))
BY DEF Cardinality, Chats!Cardinality, IsFiniteSet, Chats!IsFiniteSet

ChatMessage == [question : Nat, at : Nat, status : {"pending", "done", "error", "stopped"}, text : Nat,
                details : SUBSET Chats!Details]
Conversation == [updatedAt : Nat, title : Nat, messages : Seq(ChatMessage)]

ChatsTyped == /\ hydrated \in BOOLEAN /\ now \in Nat
              /\ conversations \in [Chats!Exists -> Conversation] /\ Chats!Exists \subseteq Ids
              /\ order \in Seq(Ids) /\ activeId \in Chats!Exists \cup {Chats!NoId}
NewestFirst == /\ Once(order) /\ Each(order) = Chats!Exists
               /\ \A i, j \in DOMAIN order : i < j => conversations[order[i]].updatedAt > conversations[order[j]].updatedAt
               /\ \A c \in Chats!Exists : conversations[c].updatedAt <= now

\* The messages of a conversation are in the order of their questions.
InTurn(messages) == /\ \A i, j \in DOMAIN messages : i < j => messages[i].at < messages[j].at
                    /\ \A i \in DOMAIN messages : messages[i].at <= now
AskedInTurn == \A c \in Chats!Exists : InTurn(conversations[c].messages)
NothingRead == ~hydrated => Chats!Exists = {}

ChatsInv == ChatsTyped /\ NewestFirst /\ AskedInTurn /\ NothingRead

\* One message, and perhaps the title, is exchanged.
LEMMA MessageStep ==
    ASSUME ChatsInv, NEW c \in Chats!Exists, NEW i \in DOMAIN conversations[c].messages, NEW m \in ChatMessage, NEW t \in Nat,
           m.at = conversations[c].messages[i].at,
           conversations[c].messages[i].status = "pending" \/ m.status = "pending",
           conversations' = [conversations EXCEPT ![c] =
               [updatedAt |-> conversations[c].updatedAt, title |-> t, messages |-> [conversations[c].messages EXCEPT ![i] = m]]],
           UNCHANGED <<hydrated, order, activeId, now>>
    PROVE  ChatsInv' /\ Chats!SettledStays
<1> DEFINE was == conversations[c].messages
           messages == [was EXCEPT ![i] = m]
           chat == [updatedAt |-> conversations[c].updatedAt, title |-> t, messages |-> messages]
<1>1. /\ conversations \in [Chats!Exists -> Conversation] /\ conversations[c] \in Conversation
      /\ was \in Seq(ChatMessage)
  BY DEF ChatsInv, ChatsTyped, Conversation
<1>2. /\ messages \in Seq(ChatMessage) /\ DOMAIN messages = DOMAIN was /\ messages[i] = m
      /\ \A j \in DOMAIN was : j # i => messages[j] = was[j]
  BY <1>1
<1>3. InTurn(was)
  BY DEF ChatsInv, AskedInTurn
<1> HIDE DEF messages
<1>4. chat \in Conversation /\ chat.updatedAt = conversations[c].updatedAt /\ chat.messages = messages
  BY <1>1, <1>2 DEF Conversation
<1>5. conversations' = [conversations EXCEPT ![c] = chat]
  BY DEF messages
<1> HIDE DEF chat
<1>6. /\ conversations' \in [Chats!Exists -> Conversation] /\ Chats!Exists' = Chats!Exists
      /\ conversations'[c] = chat /\ \A x \in Chats!Exists : x # c => conversations'[x] = conversations[x]
      /\ \A x \in Chats!Exists : conversations'[x].updatedAt = conversations[x].updatedAt
  BY <1>1, <1>4, <1>5 DEF Chats!Exists
<1>7. ChatsTyped'
  BY <1>6 DEF ChatsInv, ChatsTyped
<1>8. NewestFirst'
  BY <1>6 DEF ChatsInv, NewestFirst, Once, Each
<1>9. AskedInTurn'
  <2>1. InTurn(messages)
    <3>1. \A j \in DOMAIN was : messages[j].at = was[j].at
      BY <1>2
    <3> QED
      BY <1>2, <1>3, <3>1 DEF InTurn
  <2>2. now' = now
    OBVIOUS
  <2> QED
    BY <1>4, <1>6, <2>1, <2>2 DEF ChatsInv, AskedInTurn, InTurn
<1>10. NothingRead'
  BY <1>6 DEF ChatsInv, NothingRead
<1>11. Chats!SettledStays
  <2> SUFFICES ASSUME NEW x \in Chats!Exists, NEW j \in DOMAIN conversations[x].messages,
                      conversations[x].messages[j].status # "pending"
               PROVE  conversations'[x].messages[j] = conversations[x].messages[j] \/ conversations'[x].messages[j].status = "pending"
    BY DEF Chats!SettledStays
  <2>1. CASE x # c
    BY <1>6, <2>1
  <2>2. CASE x = c /\ j # i
    BY <1>2, <1>4, <1>6, <2>2
  <2>3. CASE x = c /\ j = i
    BY <1>2, <1>4, <1>6, <2>3
  <2> QED
    BY <2>1, <2>2, <2>3
<1> QED
  BY <1>7, <1>8, <1>9, <1>10, <1>11 DEF ChatsInv

\* The same of updateMessage().
LEMMA UpdateStep ==
    ASSUME ChatsInv, NEW c \in Chats!Exists, NEW i \in DOMAIN conversations[c].messages, NEW m \in ChatMessage,
           m.at = conversations[c].messages[i].at,
           conversations[c].messages[i].status = "pending" \/ m.status = "pending",
           Chats!updateMessage(c, i, m), UNCHANGED <<hydrated, order, activeId, now>>
    PROVE  ChatsInv' /\ Chats!SettledStays
<1>1. conversations \in [Chats!Exists -> Conversation] /\ conversations[c] \in Conversation
  BY DEF ChatsInv, ChatsTyped
<1>2. conversations[c].title \in Nat
  BY <1>1 DEF Conversation
<1> DEFINE messages == [conversations[c].messages EXCEPT ![i] = m]
           chat == [conversations[c] EXCEPT !.messages = messages]
<1>3. conversations' = [conversations EXCEPT ![c] = chat]
  BY <1>1 DEF Chats!updateMessage, Conversation
<1>4. chat = [updatedAt |-> conversations[c].updatedAt, title |-> conversations[c].title, messages |-> messages]
  <2> HIDE DEF messages
  <2>1. ASSUME NEW a, NEW b, NEW d, conversations[c] = [updatedAt |-> a, title |-> b, messages |-> d]
        PROVE  chat = [updatedAt |-> a, title |-> b, messages |-> messages]
    BY <2>1
  <2>2. conversations[c] = [updatedAt |-> conversations[c].updatedAt, title |-> conversations[c].title, messages |-> conversations[c].messages]
    BY <1>1 DEF Conversation
  <2> QED
    BY <2>1, <2>2
<1> HIDE DEF chat
<1>5. conversations' = [conversations EXCEPT ![c] = [updatedAt |-> conversations[c].updatedAt, title |-> conversations[c].title, messages |-> messages]]
  BY <1>3, <1>4
<1> QED
  BY <1>2, <1>5, MessageStep

LEMMA TypedMessage ==
    ASSUME ChatsInv, NEW c \in Chats!Exists, NEW i \in DOMAIN conversations[c].messages
    PROVE  conversations[c].messages[i] \in ChatMessage
<1>1. conversations[c] \in Conversation
  BY DEF ChatsInv, ChatsTyped
<1>2. conversations[c].messages \in Seq(ChatMessage)
  BY <1>1 DEF Conversation
<1> QED
  BY <1>2

LEMMA RetryStep ==
    ASSUME ChatsInv, NEW c \in Chats!Exists, NEW i \in DOMAIN conversations[c].messages, Chats!Retry(c, i)
    PROVE  ChatsInv' /\ Chats!SettledStays
<1> DEFINE was == conversations[c].messages[i]
           m == Chats!Asked(was.question, was.at)
<1>1. was \in ChatMessage
  BY TypedMessage
<1>2. m \in ChatMessage /\ m.at = was.at /\ m.status = "pending"
  BY <1>1 DEF Chats!Asked, ChatMessage
<1>3. Chats!updateMessage(c, i, m) /\ UNCHANGED <<hydrated, order, activeId, now>>
  BY DEF Chats!Retry
<1> HIDE DEF m
<1> QED
  BY <1>2, <1>3, UpdateStep

LEMMA EventStep ==
    ASSUME Chats!ListAssumption, ChatsInv, NEW c \in Chats!Exists, NEW i \in DOMAIN conversations[c].messages, Chats!Events(c, i)
    PROVE  ChatsInv' /\ Chats!SettledStays
<1> DEFINE was == conversations[c].messages[i]
<1>1. was \in ChatMessage
  BY TypedMessage
<1>2. was.status = "pending" /\ UNCHANGED <<hydrated, order, activeId, now>>
  BY DEF Chats!Events, Chats!Stream
<1>3. PICK m \in {[was EXCEPT !.text = @ + 1], [was EXCEPT !.text = 0]} : Chats!updateMessage(c, i, m)
  BY DEF Chats!Events, Chats!Stream
<1> HIDE DEF was
<1>4. m \in ChatMessage /\ m.at = was.at
  BY <1>1 DEF ChatMessage
<1> QED
  BY <1>2, <1>3, <1>4, UpdateStep DEF was

LEMMA SettleStep ==
    ASSUME Chats!ListAssumption, ChatsInv, NEW c \in Chats!Exists, NEW i \in DOMAIN conversations[c].messages, Chats!Settles(c, i)
    PROVE  ChatsInv' /\ Chats!SettledStays
<1> DEFINE was == conversations[c].messages[i]
<1>1. was \in ChatMessage
  BY TypedMessage
<1>2. was.status = "pending" /\ UNCHANGED <<hydrated, order, activeId, now>>
  BY DEF Chats!Settles, Chats!Answer, Chats!Fail
<1>3. CASE Chats!Fail(c, i)
  <2>1. PICK st \in {"error", "stopped"} : Chats!updateMessage(c, i, [was EXCEPT !.status = st])
    BY <1>3 DEF Chats!Fail
  <2> DEFINE m == [was EXCEPT !.status = st]
  <2>2. m \in ChatMessage /\ m.at = was.at
    <3> HIDE DEF was
    <3> QED
      BY <1>1 DEF ChatMessage
  <2> HIDE DEF m
  <2>3. Chats!updateMessage(c, i, m)
    BY <2>1 DEF m
  <2> QED
    BY <1>2, <2>2, <2>3, UpdateStep
<1>4. CASE Chats!Answer(c, i)
  <2>1. PICK heard \in {0, was.at} : \E details \in Chats!Details :
           conversations' = [conversations EXCEPT
               ![c].messages[i] = [was EXCEPT !.question = IF heard # 0 THEN heard ELSE was.question, !.status = "done",
                                              !.text = 1, !.details = {details}],
               ![c].title = IF @ = 0 THEN heard ELSE @]
    BY <1>4 DEF Chats!Answer
  <2>2. PICK details \in Chats!Details :
           conversations' = [conversations EXCEPT
               ![c].messages[i] = [was EXCEPT !.question = IF heard # 0 THEN heard ELSE was.question, !.status = "done",
                                              !.text = 1, !.details = {details}],
               ![c].title = IF @ = 0 THEN heard ELSE @]
    BY <2>1
  <2> DEFINE q == IF heard # 0 THEN heard ELSE was.question
             m == [was EXCEPT !.question = q, !.status = "done", !.text = 1, !.details = {details}]
             t == IF conversations[c].title = 0 THEN heard ELSE conversations[c].title
             messages == [conversations[c].messages EXCEPT ![i] = m]
  <2>3. conversations \in [Chats!Exists -> Conversation] /\ conversations[c] \in Conversation
    BY DEF ChatsInv, ChatsTyped
  <2>4. heard \in Nat /\ q \in Nat
    <3> HIDE DEF was
    <3> QED
      BY <1>1 DEF ChatMessage
  <2>5. t \in Nat
    BY <2>3, <2>4 DEF Conversation
  <2>6. m \in ChatMessage /\ m.at = was.at
    <3> HIDE DEF was, q
    <3> QED
      BY <1>1, <2>4 DEF ChatMessage
  <2>7. conversations' = [conversations EXCEPT ![c] = [[@ EXCEPT !.messages = messages] EXCEPT !.title = t]]
    <3>1. conversations' = [conversations EXCEPT ![c].messages[i] = m, ![c].title = IF @ = 0 THEN heard ELSE @]
      BY <2>2
    <3> HIDE DEF m
    <3> QED
      BY <2>3, <3>1 DEF Conversation
  <2> HIDE DEF m, t, q
  <2>8. [[conversations[c] EXCEPT !.messages = messages] EXCEPT !.title = t]
        = [updatedAt |-> conversations[c].updatedAt, title |-> t, messages |-> messages]
    <3> HIDE DEF messages
    <3>1. ASSUME NEW a, NEW b, NEW d, conversations[c] = [updatedAt |-> a, title |-> b, messages |-> d]
          PROVE  [[conversations[c] EXCEPT !.messages = messages] EXCEPT !.title = t] = [updatedAt |-> a, title |-> t, messages |-> messages]
      <4> DEFINE first == [conversations[c] EXCEPT !.messages = messages]
      <4>1. first = [updatedAt |-> a, title |-> b, messages |-> messages]
        BY <3>1
      <4> HIDE DEF first
      <4>2. [first EXCEPT !.title = t] = [updatedAt |-> a, title |-> t, messages |-> messages]
        BY <4>1
      <4> QED
        BY <4>2 DEF first
    <3>2. conversations[c] = [updatedAt |-> conversations[c].updatedAt, title |-> conversations[c].title, messages |-> conversations[c].messages]
      BY <2>3 DEF Conversation
    <3> QED
      BY <3>1, <3>2
  <2>9. conversations' = [conversations EXCEPT ![c] = [updatedAt |-> conversations[c].updatedAt, title |-> t, messages |-> messages]]
    BY <2>3, <2>7, <2>8
  <2> QED
    BY <1>2, <2>5, <2>6, <2>9, MessageStep
<1> QED
  BY <1>3, <1>4 DEF Chats!Settles

(* The others of the list, in their order.                                   *)
LEMMA OthersKept ==
    ASSUME ChatsInv, NEW c
    PROVE  /\ Chats!Others(c) \in Seq(Ids) /\ Once(Chats!Others(c)) /\ Each(Chats!Others(c)) = Each(order) \ {c}
           /\ \A m, n \in DOMAIN Chats!Others(c) : m < n =>
                  conversations[Chats!Others(c)[m]].updatedAt > conversations[Chats!Others(c)[n]].updatedAt
<1> DEFINE kept == {i \in DOMAIN order : order[i] # c}
           rest == Kept(order, kept)
<1>1. order \in Seq(Ids) /\ kept \in SUBSET DOMAIN order /\ Once(order)
  BY DEF ChatsInv, ChatsTyped, NewestFirst
<1>2. Chats!Others(c) = rest
  BY DEF Chats!Others, Chats!Only, Kept, Cardinality, Chats!Cardinality
<1>3. /\ Cardinality(kept) \in 0 .. Len(order)
      /\ rest \in Seq(Ids) /\ DOMAIN rest = 1 .. Cardinality(kept)
      /\ \A n \in 1 .. Cardinality(kept) : Position(kept, n) \in kept /\ rest[n] = order[Position(kept, n)]
      /\ \A m, n \in 1 .. Cardinality(kept) : m < n => Position(kept, m) < Position(kept, n)
      /\ \A i \in kept : \E n \in 1 .. Cardinality(kept) : i = Position(kept, n)
  <2> HIDE DEF kept
  <2> QED
    BY <1>1, KeptIs
<1>4. \A i \in kept : i \in DOMAIN order /\ i \in Int /\ order[i] # c
  BY <1>1
<1>5. \A i \in DOMAIN order : order[i] # c => i \in kept
  OBVIOUS
<1> HIDE DEF kept, rest
<1>6. ASSUME NEW m \in DOMAIN rest, NEW n \in DOMAIN rest, m < n
      PROVE  conversations[rest[m]].updatedAt > conversations[rest[n]].updatedAt /\ rest[m] # rest[n]
  <2>1. /\ m \in 1 .. Cardinality(kept) /\ n \in 1 .. Cardinality(kept) /\ Position(kept, m) \in kept /\ Position(kept, n) \in kept
        /\ Position(kept, m) < Position(kept, n) /\ rest[m] = order[Position(kept, m)] /\ rest[n] = order[Position(kept, n)]
    BY <1>3, <1>6
  <2>2. Position(kept, m) \in DOMAIN order /\ Position(kept, n) \in DOMAIN order /\ Position(kept, m) # Position(kept, n)
    BY <1>4, <2>1
  <2> QED
    BY <1>1, <2>1, <2>2 DEF ChatsInv, NewestFirst, Once
<1>7. Each(rest) = Each(order) \ {c}
  <2>1. ASSUME NEW n \in DOMAIN rest PROVE rest[n] \in Each(order) \ {c}
    BY <1>3, <1>4 DEF Each
  <2>2. ASSUME NEW i \in DOMAIN order, order[i] # c PROVE \E n \in DOMAIN rest : rest[n] = order[i]
    BY <1>3, <1>5, <2>2
  <2> QED
    BY <2>1, <2>2 DEF Each
<1>8. ASSUME NEW m \in DOMAIN rest, NEW n \in DOMAIN rest, rest[m] = rest[n] PROVE m = n
  <2>1. m \in Int /\ n \in Int
    BY <1>3
  <2> QED
    BY <1>6, <1>8, <2>1
<1> QED
  BY <1>2, <1>3, <1>6, <1>7, <1>8 DEF Once

LEMMA DeleteStep ==
    ASSUME ChatsInv, NEW c \in Ids, Chats!Delete(c)
    PROVE  ChatsInv' /\ Chats!SettledStays
<1>1. /\ c \in Chats!Exists /\ conversations' = [x \in Chats!Exists \ {c} |-> conversations[x]]
      /\ order' = Chats!Others(c) /\ activeId' = (IF activeId = c THEN Chats!NoId ELSE activeId)
      /\ UNCHANGED <<hydrated, now>>
  BY DEF Chats!Delete
<1>2. Chats!Exists' = Chats!Exists \ {c} /\ \A x \in Chats!Exists \ {c} : conversations'[x] = conversations[x]
  BY <1>1 DEF Chats!Exists
<1>3. /\ order' \in Seq(Ids) /\ Once(order') /\ Each(order') = Each(order) \ {c}
      /\ \A m, n \in DOMAIN order' : m < n => conversations[order'[m]].updatedAt > conversations[order'[n]].updatedAt
  BY <1>1, OthersKept
<1>4. Each(order') = Chats!Exists' /\ \A n \in DOMAIN order' : order'[n] \in Chats!Exists'
  BY <1>2, <1>3 DEF ChatsInv, NewestFirst, Each
<1>5. ChatsTyped'
  BY <1>1, <1>2, <1>3 DEF ChatsInv, ChatsTyped
<1>6. NewestFirst'
  BY <1>1, <1>2, <1>3, <1>4 DEF ChatsInv, NewestFirst
<1>7. AskedInTurn' /\ NothingRead'
  BY <1>1, <1>2 DEF ChatsInv, AskedInTurn, InTurn, NothingRead
<1>8. Chats!SettledStays
  BY <1>2 DEF Chats!SettledStays, Chats!Exists
<1> QED
  BY <1>5, <1>6, <1>7, <1>8 DEF ChatsInv

LEMMA AskStep ==
    ASSUME Chats!ListAssumption, ChatsInv, NEW typed \in BOOLEAN, Chats!Ask(typed)
    PROVE  ChatsInv' /\ Chats!SettledStays
<1> DEFINE fresh == Ids \ Chats!Exists
           c == IF activeId # Chats!NoId THEN activeId ELSE CHOOSE x \in fresh : TRUE
           q == IF typed THEN now + 1 ELSE 0
           message == Chats!Asked(q, now + 1)
           old == IF c \in Chats!Exists THEN conversations[c].messages ELSE <<>>
           chat == IF c \in Chats!Exists
                   THEN [conversations[c] EXCEPT !.updatedAt = now + 1, !.messages = Append(@, message)]
                   ELSE [updatedAt |-> now + 1, title |-> q, messages |-> <<message>>]
<1>1. /\ hydrated /\ (activeId # Chats!NoId \/ fresh # {})
      /\ now' = now + 1 /\ conversations' = Chats!With(c, chat) /\ order' = Chats!touch(c) /\ activeId' = c /\ hydrated' = hydrated
  BY DEF Chats!Ask
<1>2. now \in Nat /\ conversations \in [Chats!Exists -> Conversation] /\ Chats!Exists \subseteq Ids /\ activeId \in Chats!Exists \cup {Chats!NoId}
  BY DEF ChatsInv, ChatsTyped
<1>3. c \in Ids
  BY <1>1, <1>2
<1> HIDE DEF c
<1>4. message \in ChatMessage /\ message.at = now + 1 /\ message.status = "pending" /\ q \in Nat
  BY <1>2 DEF Chats!Asked, ChatMessage
<1> HIDE DEF message, q
<1>5. old \in Seq(ChatMessage) /\ InTurn(old)
  <2>1. CASE c \in Chats!Exists
    <3>1. conversations[c] \in Conversation
      BY <1>2, <2>1
    <3> QED
      BY <2>1, <3>1 DEF Conversation, ChatsInv, AskedInTurn
  <2>2. CASE c \notin Chats!Exists
    BY <2>2 DEF InTurn
  <2> QED
    BY <2>1, <2>2
<1> DEFINE messages == Append(old, message)
<1>6. /\ messages \in Seq(ChatMessage) /\ DOMAIN messages = 1 .. Len(old) + 1 /\ DOMAIN old = 1 .. Len(old) /\ Len(old) \in Nat
      /\ messages[Len(old) + 1] = message /\ \A j \in DOMAIN old : messages[j] = old[j]
  BY <1>4, <1>5
<1>7. chat \in Conversation /\ chat.updatedAt = now + 1 /\ chat.messages = messages
  <2>1. CASE c \in Chats!Exists
    <3>1. conversations[c] \in Conversation
      BY <1>2, <2>1
    <3> HIDE DEF messages
    <3>2. ASSUME NEW a \in Nat, NEW b \in Nat, NEW d \in Seq(ChatMessage), conversations[c] = [updatedAt |-> a, title |-> b, messages |-> d]
          PROVE  chat = [updatedAt |-> now + 1, title |-> b, messages |-> messages]
      <4> DEFINE first == [conversations[c] EXCEPT !.updatedAt = now + 1]
      <4>1. first = [updatedAt |-> now + 1, title |-> b, messages |-> d]
        BY <3>2
      <4> HIDE DEF first
      <4>2. [first EXCEPT !.messages = Append(@, message)] = [updatedAt |-> now + 1, title |-> b, messages |-> Append(d, message)]
        BY <4>1
      <4>3. old = d
        BY <2>1, <3>2
      <4>4. chat = [first EXCEPT !.messages = Append(@, message)]
        BY <2>1 DEF first
      <4> QED
        BY <4>2, <4>3, <4>4 DEF messages
    <3>3. PICK a \in Nat, b \in Nat, d \in Seq(ChatMessage) : conversations[c] = [updatedAt |-> a, title |-> b, messages |-> d]
      BY <3>1 DEF Conversation
    <3>4. chat = [updatedAt |-> now + 1, title |-> b, messages |-> messages]
      BY <3>2, <3>3
    <3> HIDE DEF chat
    <3> QED
      BY <1>2, <1>6, <3>4 DEF Conversation
  <2>2. CASE c \notin Chats!Exists
    <3>1. old = <<>> /\ messages = <<message>>
      BY <1>4, <2>2
    <3>2. chat = [updatedAt |-> now + 1, title |-> q, messages |-> messages]
      BY <2>2, <3>1
    <3> HIDE DEF chat, messages
    <3> QED
      BY <1>2, <1>4, <1>6, <3>2 DEF Conversation
  <2> QED
    BY <2>1, <2>2
<1>8. ASSUME NEW i \in DOMAIN messages, NEW j \in DOMAIN messages
      PROVE  /\ i < j => messages[i].at < messages[j].at
             /\ messages[i].at <= now + 1
  <2> HIDE DEF messages
  <2>1. \A k \in DOMAIN old : old[k].at \in Nat /\ old[k].at <= now
    <3>1. \A k \in DOMAIN old : old[k] \in ChatMessage
      BY <1>5
    <3> QED
      BY <1>5, <3>1 DEF InTurn, ChatMessage
  <2>2. (i \in DOMAIN old \/ i = Len(old) + 1) /\ (j \in DOMAIN old \/ j = Len(old) + 1) /\ i \in Nat /\ j \in Nat
    BY <1>6
  <2>3. ASSUME i < j PROVE messages[i].at < messages[j].at
    <3>1. i \in DOMAIN old
      BY <1>6, <2>2, <2>3
    <3>2. CASE j \in DOMAIN old
      BY <1>5, <1>6, <2>3, <3>1, <3>2 DEF InTurn
    <3>3. CASE j = Len(old) + 1
      BY <1>2, <1>4, <1>6, <2>1, <3>1, <3>3
    <3> QED
      BY <2>2, <3>2, <3>3
  <2>4. messages[i].at <= now + 1
    BY <1>2, <1>4, <1>6, <2>1, <2>2
  <2> QED
    BY <2>3, <2>4
<1>9. \A i \in DOMAIN old : messages[i] = old[i]
  BY <1>6
<1> HIDE DEF chat, messages
<1>10. /\ conversations' = [x \in Chats!Exists \cup {c} |-> IF x = c THEN chat ELSE conversations[x]]
       /\ Chats!Exists' = Chats!Exists \cup {c} /\ conversations'[c] = chat
       /\ \A x \in Chats!Exists : x # c => conversations'[x] = conversations[x]
  BY <1>1 DEF Chats!With, Chats!Exists
<1> DEFINE others == Chats!Others(c)
<1>11. /\ others \in Seq(Ids) /\ Once(others) /\ Each(others) = Chats!Exists \ {c}
       /\ \A m, n \in DOMAIN others : m < n => conversations[others[m]].updatedAt > conversations[others[n]].updatedAt
  BY OthersKept DEF ChatsInv, NewestFirst
<1> HIDE DEF others
<1>12. /\ order' = <<c>> \o others /\ order' \in Seq(Ids) /\ Len(others) \in Nat /\ DOMAIN order' = 1 .. Len(others) + 1
       /\ order'[1] = c /\ \A n \in 2 .. Len(others) + 1 : n - 1 \in DOMAIN others /\ order'[n] = others[n - 1]
  <2>1. order' = <<c>> \o others
    BY <1>1 DEF Chats!touch, others
  <2>2. <<c>> \in Seq(Ids) /\ Len(<<c>>) = 1 /\ <<c>>[1] = c
    BY <1>3
  <2> DEFINE s == <<c>>
             all == s \o others
  <2>3. s \in Seq(Ids) /\ Len(s) = 1 /\ s[1] = c
    BY <2>2
  <2> HIDE DEF s
  <2>4. all \in Seq(Ids) /\ Len(all) = 1 + Len(others) /\ Len(others) \in Nat /\ DOMAIN others = 1 .. Len(others)
    BY <1>11, <2>3, ConcatProperties
  <2>5. \A n \in 1 .. Len(others) + 1 : all[n] = IF n <= 1 THEN s[n] ELSE others[n - 1]
    <3>1. \A n \in 1 .. Len(s) + Len(others) : all[n] = IF n <= Len(s) THEN s[n] ELSE others[n - Len(s)]
      BY <1>11, <2>3, ConcatProperties
    <3>2. Len(s) + Len(others) = Len(others) + 1 /\ Len(s) = 1
      BY <2>3, <2>4
    <3> HIDE DEF all
    <3> QED
      BY <3>1, <3>2
  <2>6. order' = all
    BY <2>1 DEF s
  <2> HIDE DEF all
  <2>7. DOMAIN all = 1 .. Len(others) + 1
    BY <2>4
  <2>8. all[1] = c
    BY <2>3, <2>4, <2>5
  <2>9. \A n \in 2 .. Len(others) + 1 : n - 1 \in DOMAIN others /\ all[n] = others[n - 1]
    BY <2>4, <2>5
  <2> QED
    BY <2>1, <2>4, <2>6, <2>7, <2>8, <2>9
<1>13. \A n \in DOMAIN order' : n = 1 \/ n \in 2 .. Len(others) + 1
  BY <1>12
<1>14. \A n \in DOMAIN others : others[n] \in Chats!Exists /\ others[n] # c
  BY <1>11 DEF Each
<1>15. ASSUME NEW m \in DOMAIN order', NEW n \in DOMAIN order', m < n
       PROVE  order'[m] # order'[n] /\ conversations'[order'[m]].updatedAt > conversations'[order'[n]].updatedAt
  <2>1. n \in 2 .. Len(others) + 1 /\ n - 1 \in DOMAIN others /\ order'[n] = others[n - 1]
    BY <1>12, <1>13, <1>15
  <2>2. others[n - 1] \in Chats!Exists /\ others[n - 1] # c /\ conversations'[others[n - 1]] = conversations[others[n - 1]]
    BY <1>10, <1>14, <2>1
  <2>3. CASE m = 1
    <3>1. conversations[others[n - 1]].updatedAt <= now /\ conversations[others[n - 1]].updatedAt \in Nat
      BY <1>2, <2>2 DEF ChatsInv, NewestFirst, Conversation
    <3> QED
      BY <1>2, <1>7, <1>10, <1>12, <2>1, <2>2, <2>3, <3>1
  <2>4. CASE m \in 2 .. Len(others) + 1
    <3>1. m - 1 \in DOMAIN others /\ order'[m] = others[m - 1] /\ m - 1 < n - 1 /\ m - 1 # n - 1
      BY <1>12, <1>15, <2>1, <2>4
    <3>2. conversations'[others[m - 1]] = conversations[others[m - 1]]
      BY <1>10, <1>14, <3>1
    <3>3. others[m - 1] # others[n - 1]
      BY <1>11, <2>1, <3>1 DEF Once
    <3> QED
      BY <1>11, <2>1, <2>2, <3>1, <3>2, <3>3
  <2> QED
    BY <1>13, <2>3, <2>4
<1>16. Once(order')
  <2>1. \A m \in DOMAIN order' : m \in Int
    BY <1>12
  <2> QED
    BY <1>15, <2>1 DEF Once
<1>17. Each(order') = Chats!Exists'
  <2>1. ASSUME NEW x \in Chats!Exists \cup {c} PROVE \E n \in DOMAIN order' : order'[n] = x
    <3>1. CASE x = c
      <4>1. 1 \in DOMAIN order' /\ order'[1] = c
        BY <1>12
      <4> QED
        BY <3>1, <4>1
    <3>2. CASE x # c
      <4>1. PICK n \in DOMAIN others : others[n] = x
        BY <1>11, <2>1, <3>2 DEF Each
      <4>2. n + 1 \in 2 .. Len(others) + 1 /\ n + 1 \in DOMAIN order' /\ (n + 1) - 1 = n
        BY <1>11, <1>12
      <4> QED
        BY <1>12, <4>1, <4>2
    <3> QED
      BY <3>1, <3>2
  <2>2. \A n \in DOMAIN order' : order'[n] \in Chats!Exists \cup {c}
    BY <1>12, <1>13, <1>14
  <2> QED
    BY <1>10, <2>1, <2>2 DEF Each
<1>18. ChatsTyped'
  <2>1. conversations' \in [Chats!Exists' -> Conversation]
    BY <1>2, <1>7, <1>10
  <2> QED
    BY <1>1, <1>2, <1>3, <1>10, <1>12, <2>1 DEF ChatsInv, ChatsTyped
<1>19. \A x \in Chats!Exists' : conversations'[x].updatedAt <= now'
  <2>1. \A x \in Chats!Exists : conversations[x].updatedAt <= now /\ conversations[x].updatedAt \in Nat
    BY <1>2 DEF ChatsInv, NewestFirst, Conversation
  <2> QED
    BY <1>1, <1>2, <1>7, <1>10, <2>1
<1>20. NewestFirst'
  BY <1>15, <1>16, <1>17, <1>19 DEF NewestFirst
<1>21. AskedInTurn'
  <2> SUFFICES ASSUME NEW x \in Chats!Exists'
               PROVE  /\ \A i, j \in DOMAIN conversations'[x].messages : i < j => conversations'[x].messages[i].at < conversations'[x].messages[j].at
                      /\ \A i \in DOMAIN conversations'[x].messages : conversations'[x].messages[i].at <= now'
    BY DEF AskedInTurn, InTurn
  <2>1. CASE x = c
    BY <1>1, <1>7, <1>8, <1>10, <2>1
  <2>2. CASE x # c
    <3>1. x \in Chats!Exists /\ conversations'[x] = conversations[x] /\ conversations[x] \in Conversation
      BY <1>2, <1>10, <2>2
    <3>2. InTurn(conversations[x].messages)
      BY <3>1 DEF ChatsInv, AskedInTurn
    <3>3. \A i \in DOMAIN conversations[x].messages : conversations[x].messages[i].at \in Nat
      <4>1. conversations[x].messages \in Seq(ChatMessage)
        BY <3>1 DEF Conversation
      <4>2. \A i \in DOMAIN conversations[x].messages : conversations[x].messages[i] \in ChatMessage
        BY <4>1
      <4> QED
        BY <4>2 DEF ChatMessage
    <3> QED
      BY <1>1, <1>2, <3>1, <3>2, <3>3 DEF InTurn
  <2> QED
    BY <2>1, <2>2
<1>22. NothingRead'
  BY <1>1 DEF NothingRead
<1>23. Chats!SettledStays
  <2> SUFFICES ASSUME NEW x \in Chats!Exists, NEW i \in DOMAIN conversations[x].messages
               PROVE  conversations'[x].messages[i] = conversations[x].messages[i]
    BY DEF Chats!SettledStays
  <2>1. CASE x = c
    BY <1>7, <1>9, <1>10, <2>1
  <2> QED
    BY <1>10, <2>1
<1> QED
  BY <1>18, <1>20, <1>21, <1>22, <1>23 DEF ChatsInv

(* hydrate sorts what was read: each conversation once, the newest first.    *)
LEMMA SortedOnce ==
    ASSUME NEW chats, IsFiniteSet(DOMAIN chats), \A x \in DOMAIN chats : chats[x].updatedAt \in Nat,
           \A x, y \in DOMAIN chats : chats[x].updatedAt = chats[y].updatedAt => x = y
    PROVE  /\ Chats!newestFirst(chats) \in Seq(DOMAIN chats) /\ Once(Chats!newestFirst(chats))
           /\ Each(Chats!newestFirst(chats)) = DOMAIN chats
           /\ \A m, n \in DOMAIN Chats!newestFirst(chats) : m < n =>
                  chats[Chats!newestFirst(chats)[m]].updatedAt > chats[Chats!newestFirst(chats)[n]].updatedAt
<1> DEFINE all == DOMAIN chats
           card == Cardinality(all)
           key == [x \in all |-> 0 - chats[x].updatedAt]
           place(x) == Cardinality({y \in all : chats[y].updatedAt >= chats[x].updatedAt})
           at(n) == CHOOSE x \in all : place(x) = n
           sorted == [n \in 1 .. card |-> at(n)]
<1>1. Chats!newestFirst(chats) = sorted
  BY DEF Chats!newestFirst, Cardinality, Chats!Cardinality
<1>2. key \in [all -> Int] /\ \A x, y \in all : key[x] = key[y] => x = y
  OBVIOUS
<1>3. \A x \in all : Place(all, key, x) = place(x)
  <2> TAKE x \in all
  <2>1. {y \in all : key[y] <= key[x]} = {y \in all : chats[y].updatedAt >= chats[x].updatedAt}
    OBVIOUS
  <2> QED
    BY <2>1 DEF Place
<1>4. /\ \A x \in all : Place(all, key, x) \in 1 .. card
      /\ \A x, y \in all : key[x] < key[y] => Place(all, key, x) < Place(all, key, y)
      /\ \A n \in 1 .. card : \E x \in all : Place(all, key, x) = n
  <2> HIDE DEF key
  <2> QED
    BY <1>2, Placed
<1>5. \A x, y \in all : key[x] < key[y] <=> chats[x].updatedAt > chats[y].updatedAt
  OBVIOUS
<1> HIDE DEF key, place
<1>6. \A n \in 1 .. card : at(n) \in all /\ place(at(n)) = n
  BY <1>3, <1>4
<1> HIDE DEF at
<1>7. card \in Nat
  BY FS_CardinalityType
<1> HIDE DEF card
<1>8. sorted \in Seq(all) /\ DOMAIN sorted = 1 .. card
  <2>1. sorted \in [1 .. card -> all]
    BY <1>6
  <2>2. sorted \in Seq(all)
    BY <1>7, <2>1, SeqDef
  <2> QED
    BY <2>2
<1>9. ASSUME NEW m \in DOMAIN sorted, NEW n \in DOMAIN sorted, m < n
      PROVE  chats[sorted[m]].updatedAt > chats[sorted[n]].updatedAt /\ sorted[m] # sorted[n]
  <2>1. m \in 1 .. card /\ n \in 1 .. card /\ m \in Int /\ n \in Int
    BY <1>7, <1>8
  <2> DEFINE a == at(m)
             b == at(n)
  <2>2. a \in all /\ b \in all /\ place(a) = m /\ place(b) = n /\ sorted[m] = a /\ sorted[n] = b
    BY <1>6, <2>1
  <2> HIDE DEF a, b
  <2>3. chats[a].updatedAt \in Nat /\ chats[b].updatedAt \in Nat
    BY <2>2
  <2>4. ~(chats[b].updatedAt > chats[a].updatedAt)
    <3>1. chats[b].updatedAt > chats[a].updatedAt => n < m
      BY <1>3, <1>4, <1>5, <2>2
    <3> QED
      BY <1>9, <2>1, <3>1
  <2>5. a # b
    BY <1>9, <2>1, <2>2
  <2>6. chats[a].updatedAt # chats[b].updatedAt
    BY <2>2, <2>5
  <2> HIDE DEF sorted
  <2> QED
    BY <2>2, <2>3, <2>4, <2>5, <2>6
<1>10. Each(sorted) = all
  <2>1. ASSUME NEW x \in all PROVE \E n \in DOMAIN sorted : sorted[n] = x
    <3>1. place(x) \in 1 .. card
      BY <1>3, <1>4
    <3> DEFINE y == at(place(x))
    <3>2. y \in all /\ place(y) = place(x) /\ sorted[place(x)] = y
      BY <1>6, <3>1
    <3> HIDE DEF y
    <3>3. place(x) \in Int
      BY <1>7, <3>1
    <3>4. ~(chats[x].updatedAt > chats[y].updatedAt) /\ ~(chats[y].updatedAt > chats[x].updatedAt)
      BY <1>3, <1>4, <1>5, <3>2, <3>3
    <3>5. chats[x].updatedAt \in Nat /\ chats[y].updatedAt \in Nat
      BY <3>2
    <3>6. chats[x].updatedAt = chats[y].updatedAt
      <4> DEFINE u == chats[x].updatedAt
                 v == chats[y].updatedAt
      <4>1. u \in Nat /\ v \in Nat /\ ~(u > v) /\ ~(v > u)
        BY <3>4, <3>5
      <4> HIDE DEF u, v
      <4>2. u = v
        BY <4>1
      <4> QED
        BY <4>2 DEF u, v
    <3>7. x = y
      BY <3>2, <3>6
    <3> HIDE DEF sorted
    <3> QED
      BY <1>8, <3>1, <3>2, <3>7
  <2> HIDE DEF sorted
  <2>2. \A n \in DOMAIN sorted : sorted[n] \in all
    <3>1. \A S : \A s \in Seq(S) : \A n \in DOMAIN s : s[n] \in S
      OBVIOUS
    <3> QED
      BY <1>8, <3>1
  <2> QED
    BY <2>1, <2>2 DEF Each
<1> HIDE DEF sorted
<1>11. Once(sorted)
  <2>1. \A m \in DOMAIN sorted : m \in Int
    BY <1>8
  <2> QED
    BY <1>9, <2>1 DEF Once
<1> QED
  BY <1>1, <1>8, <1>9, <1>10, <1>11

LEMMA Numbered ==
    ASSUME NEW S, IsFiniteSet(S)
    PROVE  /\ Chats!SetToSeq(S) \in Seq(S) /\ Once(Chats!SetToSeq(S)) /\ Each(Chats!SetToSeq(S)) = S
<1> DEFINE D == 1 .. Cardinality(S)
           injective(f) == \A a, b \in DOMAIN f : f[a] = f[b] => a = b
<1>1. Chats!SetToSeq(S) = CHOOSE f \in [D -> S] : injective(f)
  BY DEF Chats!SetToSeq, Chats!IsInjective, Cardinality, Chats!Cardinality
<1>2. Cardinality(S) \in Nat /\ IsFiniteSet(D) /\ Cardinality(D) = Cardinality(S)
  <2>1. Cardinality(S) \in Nat
    BY FS_CardinalityType
  <2> QED
    BY <2>1, FS_Interval, 1 \in Int, Cardinality(S) \in Int
<1>3. PICK g : g \in Bijection(D, S)
  BY <1>2, FS_SameCardinalityBij DEF ExistsBijection
<1>4. g \in [D -> S] /\ injective(g)
  BY <1>3 DEF Bijection, Injection, IsInjective
<1> DEFINE f == Chats!SetToSeq(S)
<1>5. f \in [D -> S] /\ injective(f)
  BY <1>1, <1>4
<1> HIDE DEF f
<1>6. f \in Injection(D, S)
  BY <1>5 DEF Injection, IsInjective
<1>7. f \in Surjection(D, S)
  BY <1>2, <1>6, FS_Injection
<1>8. f \in Seq(S)
  BY <1>2, <1>5, SeqDef
<1>9. Each(f) = S
  BY <1>5, <1>7 DEF Surjection, Each
<1> QED
  BY <1>5, <1>8, <1>9 DEF Once, f

LEMMA HydrateStep ==
    ASSUME Chats!ListAssumption, ChatsInv, Chats!Hydrate
    PROVE  ChatsInv' /\ Chats!SettledStays
<1> DEFINE number(ids, c) == CHOOSE n \in DOMAIN ids : ids[n] = c
           first(k) == [Chats!Asked(k, k) EXCEPT !.status = "done", !.text = 1]
           asStored(k) == [updatedAt |-> k, title |-> k, messages |-> <<first(k)>>]
<1>1. PICK read \in SUBSET Ids :
          /\ now' = Len(Chats!SetToSeq(read))
          /\ conversations' = [c \in read |-> asStored(number(Chats!SetToSeq(read), c))]
          /\ order' = Chats!newestFirst([c \in read |-> asStored(number(Chats!SetToSeq(read), c))])
  BY DEF Chats!Hydrate
<1>2. ~hydrated /\ hydrated' = TRUE /\ activeId' = activeId
  BY DEF Chats!Hydrate
<1>3. Chats!Exists = {} /\ activeId = Chats!NoId
  BY <1>2 DEF ChatsInv, NothingRead, ChatsTyped
<1>4. IsFiniteSet(read)
  BY ChatsCardinality, FS_Subset DEF Chats!ListAssumption
<1> DEFINE ids == Chats!SetToSeq(read)
           k(c) == number(ids, c)
           chats == [c \in read |-> asStored(k(c))]
<1>5. ids \in Seq(read) /\ Once(ids) /\ Each(ids) = read
  BY <1>4, Numbered
<1>6. conversations' = chats /\ order' = Chats!newestFirst(chats) /\ now' = Len(ids)
  BY <1>1
<1> HIDE DEF ids
<1>7. Len(ids) \in Nat /\ DOMAIN ids = 1 .. Len(ids)
  BY <1>5
<1>8. ASSUME NEW c \in read PROVE k(c) \in 1 .. Len(ids) /\ ids[k(c)] = c /\ k(c) \in Nat /\ k(c) <= Len(ids)
  <2>1. \E n \in DOMAIN ids : ids[n] = c
    BY <1>5 DEF Each
  <2>2. k(c) \in DOMAIN ids /\ ids[k(c)] = c
    BY <2>1
  <2> HIDE DEF k
  <2> QED
    BY <1>7, <2>2
<1>9. \A c, d \in read : k(c) = k(d) => c = d
  BY <1>8
<1> HIDE DEF k
<1>10. ASSUME NEW n \in Nat
       PROVE  /\ asStored(n) \in Conversation /\ asStored(n).updatedAt = n /\ asStored(n).messages = <<first(n)>>
              /\ first(n).at = n /\ DOMAIN asStored(n).messages = {1} /\ asStored(n).messages[1] = first(n)
  <2> DEFINE asked == Chats!Asked(n, n)
             settled == [asked EXCEPT !.status = "done"]
  <2>0. asked = [question |-> n, at |-> n, status |-> "pending", text |-> 0, details |-> {}]
    BY DEF Chats!Asked
  <2>a. settled = [question |-> n, at |-> n, status |-> "done", text |-> 0, details |-> {}]
    <3> HIDE DEF asked
    <3> QED
      BY <2>0
  <2>b. first(n) = [settled EXCEPT !.text = 1]
    OBVIOUS
  <2>1. first(n) = [question |-> n, at |-> n, status |-> "done", text |-> 1, details |-> {}]
    <3> HIDE DEF first, settled
    <3> QED
      BY <2>a, <2>b
  <2>2. first(n) \in ChatMessage /\ first(n).at = n
    BY <2>1 DEF ChatMessage
  <2> HIDE DEF first
  <2>3. <<first(n)>> \in Seq(ChatMessage) /\ DOMAIN <<first(n)>> = {1} /\ <<first(n)>>[1] = first(n)
    BY <2>2
  <2> QED
    BY <2>2, <2>3 DEF Conversation
<1> HIDE DEF asStored
<1>11. /\ DOMAIN chats = read /\ chats \in [read -> Conversation]
       /\ \A c \in read : chats[c] = asStored(k(c)) /\ chats[c].updatedAt = k(c)
  BY <1>8, <1>10
<1> HIDE DEF chats
<1>12. /\ order' \in Seq(read) /\ Once(order') /\ Each(order') = read
       /\ \A m, n \in DOMAIN order' : m < n => chats[order'[m]].updatedAt > chats[order'[n]].updatedAt
  <2>1. IsFiniteSet(DOMAIN chats) /\ \A c \in DOMAIN chats : chats[c].updatedAt \in Nat
    BY <1>4, <1>8, <1>11
  <2>2. \A c, d \in DOMAIN chats : chats[c].updatedAt = chats[d].updatedAt => c = d
    BY <1>9, <1>11
  <2> QED
    BY <1>6, <1>11, <2>1, <2>2, SortedOnce
<1>13. Chats!Exists' = read
  BY <1>6, <1>11 DEF Chats!Exists
<1>14. ChatsTyped'
  <2>1. order' \in Seq(Ids)
    BY <1>12
  <2> QED
    BY <1>2, <1>3, <1>6, <1>7, <1>11, <1>13, <2>1 DEF ChatsTyped
<1>15. NewestFirst'
  BY <1>6, <1>8, <1>11, <1>12, <1>13 DEF NewestFirst
<1>16. AskedInTurn'
  <2> SUFFICES ASSUME NEW c \in read
               PROVE  /\ \A i, j \in DOMAIN chats[c].messages : i < j => chats[c].messages[i].at < chats[c].messages[j].at
                      /\ \A i \in DOMAIN chats[c].messages : chats[c].messages[i].at <= now'
    BY <1>6, <1>13 DEF AskedInTurn, InTurn
  <2>0. k(c) \in Nat /\ k(c) <= now' /\ chats[c] = asStored(k(c))
    BY <1>6, <1>8, <1>11
  <2>1. DOMAIN chats[c].messages = {1} /\ chats[c].messages[1].at = k(c) /\ k(c) <= now'
    BY <2>0, <1>10
  <2> QED
    BY <2>1
<1>17. NothingRead'
  BY <1>2 DEF NothingRead
<1>18. Chats!SettledStays
  BY <1>3 DEF Chats!SettledStays
<1> QED
  BY <1>14, <1>15, <1>16, <1>17, <1>18 DEF ChatsInv

\* Another conversation is opened, or none.
LEMMA OpenStep ==
    ASSUME ChatsInv, activeId' \in Chats!Exists \cup {Chats!NoId}, UNCHANGED <<hydrated, conversations, order, now>>
    PROVE  ChatsInv' /\ Chats!SettledStays
<1>1. Chats!Exists' = Chats!Exists
  BY DEF Chats!Exists
<1>2. ChatsTyped'
  BY <1>1 DEF ChatsInv, ChatsTyped
<1>3. NewestFirst' /\ NothingRead'
  BY <1>1 DEF ChatsInv, NewestFirst, NothingRead
<1>4. AskedInTurn'
  BY <1>1 DEF ChatsInv, AskedInTurn, InTurn
<1>5. Chats!SettledStays
  BY DEF Chats!SettledStays
<1> QED
  BY <1>2, <1>3, <1>4, <1>5 DEF ChatsInv

LEMMA ChatsStep ==
    ASSUME Chats!ListAssumption, ChatsInv, [Chats!Next]_(Chats!vars)
    PROVE  ChatsInv' /\ (Chats!SettledStays \/ UNCHANGED Chats!vars)
<1>1. CASE Chats!Hydrate
  BY <1>1, HydrateStep
<1>2. CASE Chats!New
  BY <1>2, OpenStep DEF Chats!New
<1>3. ASSUME NEW typed \in BOOLEAN, Chats!Ask(typed) PROVE ChatsInv' /\ Chats!SettledStays
  BY <1>3, AskStep
<1>4. ASSUME NEW c \in Ids, Chats!Select(c) PROVE ChatsInv' /\ Chats!SettledStays
  BY <1>4, OpenStep DEF Chats!Select
<1>5. ASSUME NEW c \in Ids, Chats!Delete(c) PROVE ChatsInv' /\ Chats!SettledStays
  BY <1>5, DeleteStep
<1>6. ASSUME NEW c \in Chats!Exists, NEW i \in DOMAIN conversations[c].messages,
             Chats!Retry(c, i) \/ Chats!Events(c, i) \/ Chats!Settles(c, i)
      PROVE  ChatsInv' /\ Chats!SettledStays
  BY <1>6, RetryStep, EventStep, SettleStep
<1>7. CASE UNCHANGED Chats!vars
  <2>1. UNCHANGED <<hydrated, conversations, order, now, activeId>>
    BY <1>7 DEF Chats!vars
  <2>2. activeId' \in Chats!Exists \cup {Chats!NoId}
    BY <2>1 DEF ChatsInv, ChatsTyped
  <2> QED
    BY <1>7, <2>1, <2>2, OpenStep
<1> QED
  BY <1>1, <1>2, <1>3, <1>4, <1>5, <1>6, <1>7 DEF Chats!Next

(* A question's context is the last of the answers kept from before it.      *)
LEMMA ContextBefore ==
    ASSUME Chats!ListAssumption, ChatsInv
    PROVE  Chats!ContextIsBefore
<1> SUFFICES ASSUME NEW c \in Chats!Exists, NEW i \in 1 .. Len(conversations[c].messages) + 1
             PROVE  LET ms == conversations[c].messages
                        turns == Chats!contextFor(ms, i)
                    IN  /\ Len(turns) <= Limit
                        /\ \A k \in DOMAIN turns : /\ turns[k].status = "done"
                                                   /\ i <= Len(ms) => turns[k].at < ms[i].at
                                                   /\ k > 1 => turns[k - 1].at < turns[k].at
                        /\ \A k \in 1 .. i - 1 : ms[k].status = "done" /\ ms[k].question # 0 =>
                               ms[k] \in Chats!ToSet(turns) \/ (Len(turns) = Limit /\ ms[k].at < turns[1].at)
  BY DEF Chats!ContextIsBefore
<1> DEFINE ms == conversations[c].messages
           kept == {k \in 1 .. i - 1 : ms[k].status = "done" /\ ms[k].question # 0}
           answered == Kept(ms, kept)
           card == Cardinality(kept)
           skip == IF card > Limit THEN card - Limit ELSE 0
           turns == Chats!contextFor(ms, i)
<1>1. ms \in Seq(ChatMessage)
  <2>1. conversations[c] \in Conversation
    BY DEF ChatsInv, ChatsTyped
  <2> QED
    BY <2>1 DEF Conversation
<1>2. \A a, b \in DOMAIN ms : a < b => ms[a].at < ms[b].at
  BY DEF ChatsInv, AskedInTurn, InTurn
<1>3. Chats!Only(ms, kept) = answered
  BY DEF Chats!Only, Kept, Cardinality, Chats!Cardinality
<1>4. turns = Chats!LastOf(answered, Limit)
  BY <1>3 DEF Chats!contextFor
<1> HIDE DEF ms, turns, answered
<1>5. Len(ms) \in Nat /\ DOMAIN ms = 1 .. Len(ms) /\ i \in 1 .. Len(ms) + 1 /\ Limit \in Nat \ {0}
  BY <1>1 DEF ms, Chats!ListAssumption
<1>6. kept \in SUBSET DOMAIN ms
  BY <1>5
<1>7. \A k \in kept : k \in 1 .. i - 1 /\ k \in DOMAIN ms /\ ms[k].status = "done" /\ ms[k].question # 0
  BY <1>5
<1>8. \A k \in 1 .. i - 1 : ms[k].status = "done" /\ ms[k].question # 0 => k \in kept
  OBVIOUS
<1> HIDE DEF kept
<1>9. /\ card \in 0 .. Len(ms)
      /\ answered \in Seq(ChatMessage) /\ Len(answered) = card /\ DOMAIN answered = 1 .. card
      /\ \A n \in 1 .. card : Position(kept, n) \in kept /\ answered[n] = ms[Position(kept, n)]
      /\ \A m, n \in 1 .. card : m < n => Position(kept, m) < Position(kept, n)
      /\ \A k \in kept : \E n \in 1 .. card : k = Position(kept, n)
  BY <1>1, <1>6, KeptIs DEF answered
<1> HIDE DEF card
<1>10. card \in Nat /\ skip \in Nat /\ skip <= card /\ card - skip <= Limit /\ (skip > 0 => card - skip = Limit)
  BY <1>5, <1>9
<1>11. turns = SubSeq(answered, skip + 1, card)
  BY <1>4, <1>5, <1>9, <1>10 DEF Chats!LastOf
<1> HIDE DEF skip
<1>12. Len(turns) = card - skip /\ DOMAIN turns = 1 .. card - skip /\ \A k \in 1 .. card - skip : turns[k] = answered[k + skip]
  BY <1>9, <1>10, <1>11
<1> DEFINE pos(k) == Position(kept, k + skip)
<1>13. ASSUME NEW k \in 1 .. card - skip
       PROVE  /\ k \in Int /\ k + skip \in 1 .. card
              /\ pos(k) \in kept /\ turns[k] = ms[pos(k)] /\ pos(k) \in DOMAIN ms /\ pos(k) < i /\ pos(k) \in Int
  <2>1. k + skip \in 1 .. card
    BY <1>10
  <2>2. pos(k) \in kept /\ turns[k] = ms[pos(k)]
    BY <1>9, <1>12, <2>1
  <2> HIDE DEF pos
  <2> QED
    BY <1>5, <1>7, <2>1, <2>2
<1>14. ASSUME NEW k \in 1 .. card - skip
       PROVE  /\ turns[k].status = "done"
              /\ i <= Len(ms) => turns[k].at < ms[i].at
              /\ k > 1 => turns[k - 1].at < turns[k].at
  <2>1. turns[k].status = "done"
    BY <1>7, <1>13
  <2>2. ASSUME i <= Len(ms) PROVE turns[k].at < ms[i].at
    <3>1. i \in DOMAIN ms
      BY <1>5, <2>2
    <3> HIDE DEF pos
    <3> QED
      BY <1>2, <1>13, <3>1
  <2>3. ASSUME k > 1 PROVE turns[k - 1].at < turns[k].at
    <3>1. k - 1 \in 1 .. card - skip /\ (k - 1) + skip < k + skip
      BY <1>10, <2>3
    <3>2. pos(k - 1) < pos(k)
      BY <1>9, <1>13, <3>1
    <3> HIDE DEF pos
    <3> QED
      BY <1>2, <1>13, <3>1, <3>2
  <2> QED
    BY <2>1, <2>2, <2>3
<1>15. ASSUME NEW k \in 1 .. i - 1, ms[k].status = "done", ms[k].question # 0
       PROVE  ms[k] \in Chats!ToSet(turns) \/ (Len(turns) = Limit /\ ms[k].at < turns[1].at)
  <2>1. k \in kept /\ k \in DOMAIN ms
    BY <1>7, <1>8, <1>15
  <2>2. PICK n \in 1 .. card : k = Position(kept, n)
    BY <1>9, <2>1
  <2>3. CASE n > skip
    <3>1. n - skip \in 1 .. card - skip /\ (n - skip) + skip = n
      BY <1>10, <2>3
    <3>2. turns[n - skip] = ms[k] /\ n - skip \in DOMAIN turns
      BY <1>12, <1>13, <2>2, <3>1
    <3> QED
      BY <3>2 DEF Chats!ToSet
  <2>4. CASE ~(n > skip)
    <3>1. skip > 0 /\ card - skip = Limit /\ 1 \in 1 .. card - skip
      BY <1>5, <1>10, <2>4
    <3>2. n < 1 + skip /\ 1 + skip \in 1 .. card
      BY <1>10, <2>4, <3>1
    <3>3. k < pos(1)
      BY <1>9, <2>2, <3>2
    <3> HIDE DEF pos
    <3>4. turns[1] = ms[pos(1)] /\ pos(1) \in DOMAIN ms
      BY <1>13, <3>1
    <3>5. ms[k].at < turns[1].at
      BY <1>2, <2>1, <3>3, <3>4
    <3> QED
      BY <1>12, <3>1, <3>5
  <2> QED
    BY <2>3, <2>4
<1>16. Len(turns) <= Limit
  BY <1>10, <1>12
<1> HIDE DEF pos
<1> QED
  BY <1>12, <1>14, <1>15, <1>16 DEF ms, turns

(* The list of a state of the invariant is as the model says.                *)
LEMMA ListAsShown ==
    ASSUME Chats!ListAssumption, ChatsInv
    PROVE  Chats!ListInOrder
<1>1. order \in Seq(Ids) /\ Once(order) /\ Each(order) = Chats!Exists
  BY DEF ChatsInv, ChatsTyped, NewestFirst
<1>2. Chats!ToSet(order) = Chats!Exists
  BY <1>1 DEF Chats!ToSet, Each
<1>3. Len(order) = Cardinality(Chats!Exists)
  BY <1>1, EachOnce, ChatsCardinality DEF Chats!ListAssumption
<1>4. Len(order) = Chats!Cardinality(Chats!Exists)
  BY <1>3, ChatsCardinality
<1> QED
  BY <1>2, <1>4 DEF ChatsInv, ChatsTyped, NewestFirst, Chats!ListInOrder

LEMMA ChatsStart == Chats!Init => ChatsInv
<1> SUFFICES ASSUME Chats!Init PROVE ChatsInv
  OBVIOUS
<1>1. conversations = <<>> /\ order = <<>> /\ hydrated = FALSE /\ activeId = Chats!NoId /\ now = 0
  BY DEF Chats!Init
<1>2. Chats!Exists = {}
  BY <1>1 DEF Chats!Exists
<1>3. conversations \in [Chats!Exists -> Conversation]
  BY <1>1, <1>2
<1>4. order \in Seq(Ids) /\ DOMAIN order = {}
  BY <1>1
<1>5. ChatsTyped
  BY <1>1, <1>2, <1>3, <1>4 DEF ChatsTyped
<1>6. NewestFirst
  BY <1>2, <1>4 DEF NewestFirst, Once, Each
<1>7. AskedInTurn /\ NothingRead
  BY <1>2 DEF AskedInTurn, NothingRead
<1> QED
  BY <1>5, <1>6, <1>7 DEF ChatsInv

(* chat-reducer.ts: whatever is asked, asked again, answered, stopped,       *)
(* deleted or opened, and in any order, the list has each conversation once, *)
(* the newest first, and a question is asked with the nearest answers that   *)
(* were there before it, in their order. (MCFrontEnds!ConversationsKept.)    *)
THEOREM ListShownInOrder ==
    Chats!ListAssumption => (Chats!Init /\ [][Chats!Next]_(Chats!vars) => [](Chats!ListInOrder /\ Chats!ContextIsBefore))
<1> SUFFICES ASSUME Chats!ListAssumption
             PROVE  Chats!Init /\ [][Chats!Next]_(Chats!vars) => [](Chats!ListInOrder /\ Chats!ContextIsBefore)
  OBVIOUS
<1>1. ChatsInv /\ [Chats!Next]_(Chats!vars) => ChatsInv'
  BY ChatsStep
<1>2. ChatsInv => Chats!ListInOrder /\ Chats!ContextIsBefore
  BY ContextBefore, ListAsShown
<1> QED
  BY <1>1, <1>2, ChatsStart, PTL

(* chat-reducer.ts: an answer that came, failed or was stopped is changed    *)
(* only by asking again; late events of its request leave it.                *)
THEOREM SettledKept ==
    Chats!ListAssumption => (Chats!Init /\ [][Chats!Next]_(Chats!vars) => [][Chats!SettledStays]_(Chats!vars))
<1> SUFFICES ASSUME Chats!ListAssumption
             PROVE  Chats!Init /\ [][Chats!Next]_(Chats!vars) => [][Chats!SettledStays]_(Chats!vars)
  OBVIOUS
<1>1. ChatsInv /\ [Chats!Next]_(Chats!vars) => ChatsInv'
  BY ChatsStep
<1>2. ChatsInv /\ [Chats!Next]_(Chats!vars) => [Chats!SettledStays]_(Chats!vars)
  BY ChatsStep
<1> QED
  BY <1>1, <1>2, ChatsStart, PTL
-----------------------------------------------------------------------------
(* bench.service.ts, the playground (BenchPipelines): for any settings,      *)
(* models, questions and limits.                                             *)
LEMMA BenchCardinality == \A S : Bench!Cardinality(S) = Cardinality(S) /\ (Bench!IsFiniteSet(S) <=> IsFiniteSet(S))
BY DEF Cardinality, Bench!Cardinality, IsFiniteSet, Bench!IsFiniteSet

LEMMA EnteredOneByOne ==
    ASSUME NEW k \in Nat, NEW models \in [1 .. k -> Models]
    PROVE  \E at : /\ at[0] = Bench!State
                   /\ \A n \in 1 .. k : at[n] = Bench!Enter(at[n - 1], models[n])
                   /\ Bench!Entered(models) = at[k]
<1> DEFINE Steps(f, m) == f = [n \in 0 .. m |-> IF n = 0 THEN Bench!State ELSE Bench!Enter(f[n - 1], models[n])]
           at == CHOOSE f : Steps(f, k)
<1>1. Len(models) = k
  OBVIOUS
<1>2. Bench!Entered(models) = at[k]
  BY <1>1 DEF Bench!Entered
<1>3. \A m \in 0 .. k : \E f : Steps(f, m)
  <2> DEFINE Unfilled == {m \in 0 .. k : ~\E f : Steps(f, m)}
  <2> SUFFICES Unfilled = {}
    OBVIOUS
  <2> SUFFICES ASSUME Unfilled # {} PROVE FALSE
    OBVIOUS
  <2>1. PICK m \in Unfilled : \A n \in Unfilled : m <= n
    <3>1. Unfilled \in SUBSET Nat
      OBVIOUS
    <3> HIDE DEF Unfilled
    <3> QED
      BY <3>1, Least
  <2>2. m \in 0 .. k /\ ~\E f : Steps(f, m)
    BY <2>1
  <2>3. CASE m = 0
    <3>1. Steps([n \in 0 .. 0 |-> Bench!State], 0)
      OBVIOUS
    <3> QED
      BY <2>2, <2>3, <3>1
  <2>4. CASE m # 0
    <3>1. m - 1 \in 0 .. k /\ m - 1 \notin Unfilled
      BY <2>1, <2>2, <2>4
    <3>2. PICK g : Steps(g, m - 1)
      BY <3>1
    <3> DEFINE f == [n \in 0 .. m |-> IF n = m THEN Bench!Enter(g[m - 1], models[m]) ELSE g[n]]
    <3>3. ASSUME NEW n \in 0 .. m
          PROVE  f[n] = IF n = 0 THEN Bench!State ELSE Bench!Enter(f[n - 1], models[n])
      <4>1. CASE n = m
        BY <2>2, <2>4, <3>3, <4>1
      <4>2. CASE n # m
        <5>1. n \in 0 .. m - 1 /\ f[n] = g[n] /\ (n # 0 => n - 1 \in 0 .. m /\ f[n - 1] = g[n - 1])
          BY <2>2, <2>4, <3>3, <4>2
        <5> HIDE DEF f
        <5> QED
          BY <3>2, <5>1
      <4> QED
        BY <4>1, <4>2
    <3>4. Steps(f, m)
      BY <3>3
    <3> QED
      BY <2>2, <3>4
  <2> QED
    BY <2>3, <2>4
<1>4. Steps(at, k)
  <2>1. \E f : Steps(f, k)
    BY <1>3
  <2> QED
    BY <2>1
<1> HIDE DEF at
<1>5. at[0] = Bench!State
  BY <1>4
<1>6. \A n \in 1 .. k : at[n] = Bench!Enter(at[n - 1], models[n])
  BY <1>4
<1> QED
  BY <1>2, <1>5, <1>6

AnyEntry == [setting : Models, busy : Nat, pipe : {"starting", "ready", "failed"}, close : {"no", "asked", "closed"}]
AnyCall == [entry : Nat, st : {"waiting", "asking", "done"}]
Using(cs, e) == {u \in Questions \X (1 .. MaxModels) :
                   u[2] \in DOMAIN cs[u[1]] /\ cs[u[1]][u[2]].entry = e /\ cs[u[1]][u[2]].st # "done"}
\* The longest that the list of pipelines gets.
Most == IF MaxPipelines >= MaxModels * Cardinality(Questions) THEN MaxPipelines ELSE MaxModels * Cardinality(Questions)

(* Of pipelines es, of which c are kept, and calls cs: also of those between *)
(* two models of a question.                                                 *)
CallsSound(es, cs) ==
    /\ cs \in [Questions -> Seq(AnyCall)]
    /\ \A q \in Questions : /\ Len(cs[q]) <= MaxModels
                            /\ \A i \in DOMAIN cs[q] : /\ cs[q][i].entry \in 0 .. Len(es)
                                                       /\ cs[q][i].st # "done" => cs[q][i].entry \in DOMAIN es
Counted(es, cs) == \A e \in DOMAIN es : es[e].busy = Cardinality(Using(cs, e))
Pooled(es, c) == /\ c \in Seq(DOMAIN es) /\ Once(c)
                 /\ \A e \in DOMAIN es : es[e].busy > 0 => e \in Each(c)
                 /\ \A e, f \in Each(c) : es[e].setting = es[f].setting => e = f
                 /\ Len(c) <= Most
Accounted(es, c, cs) == es \in Seq(AnyEntry) /\ CallsSound(es, cs) /\ Counted(es, cs) /\ Pooled(es, c)
KeptOpen(es, c) == \A e \in DOMAIN es : e \in Each(c) <=> es[e].close = "no"

BenchInv == /\ Accounted(entries, cached, calls)
            /\ running \in BOOLEAN /\ (running => KeptOpen(entries, cached)) /\ Len(entries) <= MaxEntries

LEMMA UsingFinite ==
    ASSUME Bench!BoundsAssumption, NEW cs, NEW e
    PROVE  /\ IsFiniteSet(Using(cs, e)) /\ Cardinality(Using(cs, e)) \in Nat
           /\ IsFiniteSet(Questions \X (1 .. MaxModels))
           /\ Cardinality(Questions \X (1 .. MaxModels)) = Cardinality(Questions) * MaxModels
           /\ Cardinality(Questions) \in Nat /\ MaxModels \in Nat \ {0} /\ MaxPipelines \in Nat \ {0}
<1>1. IsFiniteSet(Questions) /\ MaxModels \in Nat \ {0} /\ MaxPipelines \in Nat \ {0}
  BY BenchCardinality DEF Bench!BoundsAssumption
<1>2. IsFiniteSet(1 .. MaxModels) /\ Cardinality(1 .. MaxModels) = MaxModels
  BY <1>1, FS_Interval, 1 \in Int, MaxModels \in Int
<1>3. /\ IsFiniteSet(Questions \X (1 .. MaxModels))
      /\ Cardinality(Questions \X (1 .. MaxModels)) = Cardinality(Questions) * MaxModels
  BY <1>1, <1>2, FS_Product
<1>4. IsFiniteSet(Using(cs, e))
  BY <1>3, FS_Subset DEF Using
<1> QED
  BY <1>1, <1>3, <1>4, FS_CardinalityType

\* One more call of a question, of the pipeline e.
OneMore(cs, q, e) == [cs EXCEPT ![q] = Append(cs[q], [entry |-> e, st |-> "waiting"])]

LEMMA CallEntered ==
    ASSUME Bench!BoundsAssumption, NEW es, NEW cs, CallsSound(es, cs), NEW e \in DOMAIN es, es \in Seq(AnyEntry),
           NEW q \in Questions, Len(cs[q]) < MaxModels
    PROVE  LET after == OneMore(cs, q, e)
           IN  /\ CallsSound(es, after)
               /\ Cardinality(Using(after, e)) = Cardinality(Using(cs, e)) + 1
               /\ \A f : f # e => Using(after, f) = Using(cs, f)
<1>0. MaxModels \in Nat \ {0} /\ IsFiniteSet(Using(cs, e))
  BY UsingFinite
<1> DEFINE call == [entry |-> e, st |-> "waiting"]
           longer == Append(cs[q], call)
           after == OneMore(cs, q, e)
<1>1. /\ cs \in [Questions -> Seq(AnyCall)] /\ cs[q] \in Seq(AnyCall) /\ Len(cs[q]) \in Nat /\ DOMAIN es = 1 .. Len(es)
      /\ Len(es) \in Nat
  BY DEF CallsSound
<1>2. call \in AnyCall /\ call.entry = e /\ call.st = "waiting"
  BY <1>1 DEF AnyCall
<1> HIDE DEF call
<1>3. /\ longer \in Seq(AnyCall) /\ Len(longer) = Len(cs[q]) + 1 /\ DOMAIN longer = 1 .. Len(cs[q]) + 1
      /\ DOMAIN cs[q] = 1 .. Len(cs[q]) /\ longer[Len(cs[q]) + 1] = call
      /\ \A i \in DOMAIN cs[q] : longer[i] = cs[q][i]
  BY <1>1, <1>2
<1>4. \A i \in DOMAIN longer : i \in DOMAIN cs[q] \/ i = Len(cs[q]) + 1
  BY <1>1, <1>3
<1>5. \A i \in DOMAIN cs[q] : i \in DOMAIN longer /\ i # Len(cs[q]) + 1
  BY <1>1, <1>3
<1> HIDE DEF longer
<1>a. after = [cs EXCEPT ![q] = longer]
  BY DEF longer, call, OneMore
<1> HIDE DEF after
<1>6. after \in [Questions -> Seq(AnyCall)] /\ after[q] = longer /\ \A p \in Questions : p # q => after[p] = cs[p]
  BY <1>1, <1>3, <1>a
<1>7. CallsSound(es, after)
  <2> SUFFICES ASSUME NEW p \in Questions
               PROVE  /\ Len(after[p]) <= MaxModels
                      /\ \A i \in DOMAIN after[p] : /\ after[p][i].entry \in 0 .. Len(es)
                                                    /\ after[p][i].st # "done" => after[p][i].entry \in DOMAIN es
    BY <1>6 DEF CallsSound
  <2>1. CASE p # q
    BY <1>6, <2>1 DEF CallsSound
  <2>2. CASE p = q
    <3>1. Len(longer) <= MaxModels
      BY <1>0, <1>1, <1>3
    <3>2. e \in 0 .. Len(es)
      BY <1>1
    <3> QED
      BY <1>2, <1>3, <1>4, <1>6, <2>2, <3>1, <3>2 DEF CallsSound
  <2> QED
    BY <2>1, <2>2
<1> DEFINE u == <<q, Len(cs[q]) + 1>>
<1>8. u \in Questions \X (1 .. MaxModels) /\ u[1] = q /\ u[2] = Len(cs[q]) + 1 /\ u[2] \notin DOMAIN cs[q]
  BY <1>0, <1>1, <1>3
<1>9. ASSUME NEW f, NEW v \in Questions \X (1 .. MaxModels)
      PROVE  v \in Using(after, f) <=> v \in Using(cs, f) \/ (v = u /\ f = e)
  <2>0. v[1] \in Questions /\ v = <<v[1], v[2]>>
    OBVIOUS
  <2>1. CASE v[1] # q
    BY <1>6, <1>8, <2>0, <2>1 DEF Using
  <2>2. CASE v[1] = q /\ v[2] # Len(cs[q]) + 1
    <3>1. v # u
      BY <1>8, <2>2
    <3>2. v[2] \in DOMAIN longer <=> v[2] \in DOMAIN cs[q]
      BY <1>4, <1>5, <2>2
    <3>3. v[2] \in DOMAIN cs[q] => longer[v[2]] = cs[q][v[2]]
      BY <1>3
    <3> QED
      BY <1>6, <2>2, <3>1, <3>2, <3>3 DEF Using
  <2>3. CASE v[1] = q /\ v[2] = Len(cs[q]) + 1
    <3>1. v = u
      BY <2>0, <2>3
    <3>2. v \notin Using(cs, f)
      BY <1>8, <3>1 DEF Using
    <3>3. v \in Using(after, f) <=> f = e
      BY <1>1, <1>2, <1>3, <1>6, <2>3 DEF Using
    <3> QED
      BY <3>1, <3>2, <3>3
  <2> QED
    BY <2>1, <2>2, <2>3
<1>10. \A f : f # e => Using(after, f) = Using(cs, f)
  <2> TAKE f
  <2> HAVE f # e
  <2>1. Using(after, f) \subseteq Questions \X (1 .. MaxModels) /\ Using(cs, f) \subseteq Questions \X (1 .. MaxModels)
    BY DEF Using
  <2>2. \A v \in Questions \X (1 .. MaxModels) : v \in Using(after, f) <=> v \in Using(cs, f)
    BY <1>9
  <2> QED
    BY <2>1, <2>2, Zenon
<1>11. Using(after, e) = Using(cs, e) \cup {u} /\ u \notin Using(cs, e)
  <2>1. Using(after, e) \subseteq Questions \X (1 .. MaxModels) /\ Using(cs, e) \subseteq Questions \X (1 .. MaxModels)
    BY DEF Using
  <2>2. u \notin Using(cs, e)
    BY <1>8 DEF Using
  <2> HIDE DEF u
  <2> QED
    BY <1>8, <1>9, <2>1, <2>2
<1>12. Cardinality(Using(after, e)) = Cardinality(Using(cs, e)) + 1
  BY <1>0, <1>11, FS_AddElement
<1> QED
  BY <1>7, <1>10, <1>12 DEF after

LEMMA OneMoreUse ==
    ASSUME NEW was \in AnyEntry, NEW es \in Seq(AnyEntry), NEW e \in DOMAIN es
    PROVE  /\ was.busy \in Nat /\ [was EXCEPT !.busy = was.busy + 1] \in AnyEntry
           /\ [was EXCEPT !.busy = was.busy + 1].setting = was.setting
           /\ [was EXCEPT !.busy = was.busy + 1].close = was.close
           /\ [was EXCEPT !.busy = was.busy + 1].busy = was.busy + 1
BY DEF AnyEntry

\* One element is exchanged.
LEMMA Exchanged ==
    ASSUME NEW S, NEW items \in Seq(S), NEW i \in DOMAIN items, NEW x \in S
    PROVE  LET after == [items EXCEPT ![i] = x]
           IN  /\ after \in Seq(S) /\ DOMAIN after = DOMAIN items /\ Len(after) = Len(items)
               /\ after[i] = x /\ \A j \in DOMAIN items : j # i => after[j] = items[j]
OBVIOUS

\* A use of e is counted.
Busier(es, e) == [es EXCEPT ![e].busy = @ + 1]

LEMMA UseCounted ==
    ASSUME Bench!BoundsAssumption, NEW es \in Seq(AnyEntry), NEW cs, CallsSound(es, cs), Counted(es, cs),
           NEW e \in DOMAIN es, NEW q \in Questions, Len(cs[q]) < MaxModels
    PROVE  LET used == Busier(es, e)
               after == OneMore(cs, q, e)
           IN  /\ used \in Seq(AnyEntry) /\ DOMAIN used = DOMAIN es /\ Len(used) = Len(es)
               /\ \A f \in DOMAIN es : /\ used[f].setting = es[f].setting /\ used[f].close = es[f].close
                                       /\ used[f].busy > 0 => f = e \/ es[f].busy > 0
               /\ CallsSound(used, after) /\ Counted(used, after)
<1> DEFINE used == Busier(es, e)
           after == OneMore(cs, q, e)
           one == [es[e] EXCEPT !.busy = es[e].busy + 1]
<1>1. es[e] \in AnyEntry /\ \A f \in DOMAIN es : es[f] \in AnyEntry
  OBVIOUS
<1>2. /\ one \in AnyEntry /\ one.setting = es[e].setting /\ one.close = es[e].close /\ one.busy = es[e].busy + 1
      /\ es[e].busy \in Nat
  BY <1>1, OneMoreUse
<1>3. used = [es EXCEPT ![e] = one]
  BY DEF Busier
<1> HIDE DEF one, used, after
<1>4. /\ used \in Seq(AnyEntry) /\ DOMAIN used = DOMAIN es /\ Len(used) = Len(es)
      /\ used[e] = one /\ \A f \in DOMAIN es : f # e => used[f] = es[f]
  BY ONLY es \in Seq(AnyEntry), e \in DOMAIN es, <1>2, <1>3, Exchanged
<1>5. /\ CallsSound(es, after)
      /\ Cardinality(Using(after, e)) = Cardinality(Using(cs, e)) + 1
      /\ \A f : f # e => Using(after, f) = Using(cs, f)
  BY CallEntered DEF after
<1>6. CallsSound(used, after)
  BY <1>4, <1>5 DEF CallsSound
<1>7. Counted(used, after)
  <2> SUFFICES ASSUME NEW f \in DOMAIN es PROVE used[f].busy = Cardinality(Using(after, f))
    BY <1>4 DEF Counted
  <2>1. CASE f = e
    BY <1>2, <1>4, <1>5, <2>1 DEF Counted
  <2>2. CASE f # e
    BY <1>4, <1>5, <2>2 DEF Counted
  <2> QED
    BY <2>1, <2>2
<1> QED
  BY <1>2, <1>4, <1>6, <1>7 DEF used, after

\* A list that has each of its elements once, with one of them at its end.
ToEnd(items, e) == Append(Kept(items, {i \in DOMAIN items : items[i] # e}), e)

LEMMA MovedLast ==
    ASSUME NEW S, IsFiniteSet(S), NEW items \in Seq(S), Once(items), NEW e \in S
    PROVE  LET moved == ToEnd(items, e)
           IN  /\ moved \in Seq(S) /\ Once(moved) /\ Each(moved) = Each(items) \cup {e}
               /\ Len(moved) = Cardinality(Each(items) \cup {e})
<1> DEFINE moved == ToEnd(items, e)
           rest == Left(items, {e})
<1>1. {i \in DOMAIN items : items[i] # e} = {i \in DOMAIN items : items[i] \notin {e}}
  OBVIOUS
<1>a. moved = Append(rest, e)
  BY <1>1 DEF ToEnd, Left
<1> HIDE DEF moved
<1>2. rest \in Seq(S) /\ Once(rest) /\ Each(rest) = Each(items) \ {e}
  BY LeftOnce
<1> HIDE DEF rest
<1>3. moved \in Seq(S) /\ Once(moved) /\ Each(moved) = Each(items) \cup {e}
  BY ONLY <1>2, <1>a, e \in S, Appended
<1>4. Len(moved) = Cardinality(Each(items) \cup {e})
  BY <1>3, EachOnce
<1> QED
  BY <1>3, <1>4 DEF moved

\* Pipelines es, of which c are kept, on which a model of a question enters e:
\* one of those kept, or one more.
Entering(es, c, cs, e) ==
    /\ es \in Seq(AnyEntry) /\ c \in Seq(DOMAIN es) /\ Once(c) /\ CallsSound(es, cs) /\ Counted(es, cs)
    /\ e \in DOMAIN es
    /\ \A f \in DOMAIN es : es[f].busy > 0 => f \in Each(c) \cup {e}
    /\ \A f, g \in Each(c) \cup {e} : es[f].setting = es[g].setting => f = g
    /\ \A f \in DOMAIN es : f \in Each(c) \cup {e} <=> es[f].close = "no"
    /\ Cardinality(Each(c) \cup {e}) <= Most
Steady(at, cs) == Accounted(at.entries, at.cached, cs) /\ KeptOpen(at.entries, at.cached)

\* entry.busy++ on an entry of the map, or on the one that comes to it.
LEMMA UsedStep ==
    ASSUME Bench!BoundsAssumption, NEW at, NEW cs, NEW e, Entering(at.entries, at.cached, cs, e),
           NEW q \in Questions, Len(cs[q]) < MaxModels
    PROVE  /\ Steady(Bench!Used(at, e), OneMore(cs, q, e))
           /\ Bench!Used(at, e).used = Append(at.used, e) /\ Len(Bench!Used(at, e).entries) = Len(at.entries)
<1> DEFINE es == at.entries
           c == at.cached
           u == Bench!Used(at, e)
<1>0. /\ es \in Seq(AnyEntry) /\ c \in Seq(DOMAIN es) /\ Once(c) /\ CallsSound(es, cs) /\ Counted(es, cs)
      /\ e \in DOMAIN es
      /\ \A f \in DOMAIN es : es[f].busy > 0 => f \in Each(c) \cup {e}
      /\ \A f, g \in Each(c) \cup {e} : es[f].setting = es[g].setting => f = g
      /\ \A f \in DOMAIN es : f \in Each(c) \cup {e} <=> es[f].close = "no"
      /\ Cardinality(Each(c) \cup {e}) <= Most
  BY DEF Entering
<1> DEFINE used == Busier(es, e)
           moved == ToEnd(c, e)
           after == OneMore(cs, q, e)
<1>1. u.entries = used /\ u.cached = moved /\ u.used = Append(at.used, e)
  <2>1. Bench!Only(c, {i \in DOMAIN c : c[i] # e}) = Kept(c, {i \in DOMAIN c : c[i] # e})
    BY DEF Bench!Only, Kept, Cardinality, Bench!Cardinality
  <2> QED
    BY <2>1 DEF Bench!Used, Busier, ToEnd
<1> HIDE DEF u, es, c
<1>2. /\ used \in Seq(AnyEntry) /\ DOMAIN used = DOMAIN es /\ Len(used) = Len(es)
      /\ \A f \in DOMAIN es : /\ used[f].setting = es[f].setting /\ used[f].close = es[f].close
                              /\ used[f].busy > 0 => f = e \/ es[f].busy > 0
      /\ CallsSound(used, after) /\ Counted(used, after)
  BY <1>0, UseCounted
<1>3. IsFiniteSet(DOMAIN es)
  <2>1. DOMAIN es = 1 .. Len(es) /\ Len(es) \in Nat
    BY <1>0
  <2> QED
    BY <2>1, FS_Interval, 1 \in Int, Len(es) \in Int
<1>4. /\ moved \in Seq(DOMAIN es) /\ Once(moved) /\ Each(moved) = Each(c) \cup {e}
      /\ Len(moved) = Cardinality(Each(c) \cup {e})
  BY <1>0, <1>3, MovedLast
<1>5. Each(c) \cup {e} \subseteq DOMAIN es
  BY <1>0 DEF Each
<1> HIDE DEF used, moved, after
<1>6. Pooled(used, moved)
  BY <1>0, <1>2, <1>4, <1>5 DEF Pooled
<1>7. KeptOpen(used, moved)
  BY <1>0, <1>2, <1>4 DEF KeptOpen
<1> QED
  BY <1>1, <1>2, <1>6, <1>7 DEF Accounted, Steady, after, u, es

(* While a question has a model to come, the pipelines in use are fewer than *)
(* the models of all questions.                                              *)
LEMMA BusyFew ==
    ASSUME Bench!BoundsAssumption, NEW es \in Seq(AnyEntry), NEW cs, CallsSound(es, cs), Counted(es, cs),
           NEW q \in Questions, Len(cs[q]) < MaxModels
    PROVE  LET inUse == {e \in DOMAIN es : es[e].busy > 0}
           IN  IsFiniteSet(inUse) /\ Cardinality(inUse) \in Nat /\ Cardinality(inUse) + 1 <= MaxModels * Cardinality(Questions)
<1> DEFINE inUse == {e \in DOMAIN es : es[e].busy > 0}
           all == Questions \X (1 .. MaxModels)
           needing == {u \in all : /\ u[2] \in DOMAIN cs[u[1]] /\ cs[u[1]][u[2]].st # "done"
                                  /\ cs[u[1]][u[2]].entry \in inUse}
           own == [u \in needing |-> cs[u[1]][u[2]].entry]
           last == <<q, MaxModels>>
<1>1. /\ IsFiniteSet(all) /\ Cardinality(all) = Cardinality(Questions) * MaxModels
      /\ Cardinality(Questions) \in Nat /\ MaxModels \in Nat \ {0}
  BY UsingFinite
<1>2. cs[q] \in Seq(AnyCall) /\ Len(cs[q]) \in Nat /\ DOMAIN cs[q] = 1 .. Len(cs[q])
  BY DEF CallsSound
<1>3. last \in all /\ last[1] = q /\ last[2] = MaxModels /\ MaxModels \notin DOMAIN cs[q]
  BY <1>1, <1>2
<1>4. last \notin needing
  BY <1>3
<1>5. needing \in SUBSET (all \ {last})
  BY <1>4
<1>6. IsFiniteSet(all \ {last}) /\ Cardinality(all \ {last}) = Cardinality(all) - 1
  <2> HIDE DEF all, last
  <2> QED
    BY <1>1, <1>3, FS_RemoveElement
<1>7. IsFiniteSet(needing) /\ Cardinality(needing) <= Cardinality(all) - 1 /\ Cardinality(needing) \in Nat
  <2> HIDE DEF needing
  <2>1. IsFiniteSet(needing) /\ Cardinality(needing) <= Cardinality(all \ {last})
    BY <1>5, <1>6, FS_Subset
  <2> QED
    BY <1>6, <2>1, FS_CardinalityType
<1>8. ASSUME NEW e \in inUse PROVE \E u \in needing : own[u] = e
  <2>1. e \in DOMAIN es /\ es[e].busy > 0
    OBVIOUS
  <2>2. Cardinality(Using(cs, e)) > 0
    BY <2>1 DEF Counted
  <2>3. Using(cs, e) # {}
    <3> SUFFICES ASSUME Using(cs, e) = {} PROVE FALSE
      OBVIOUS
    <3>1. Cardinality(Using(cs, e)) = 0
      BY FS_EmptySet
    <3> HIDE DEF inUse, needing, own, all
    <3> QED
      BY <2>2, <3>1
  <2>4. PICK u : u \in Using(cs, e)
    BY <2>3
  <2>5. u \in all /\ u[2] \in DOMAIN cs[u[1]] /\ cs[u[1]][u[2]].entry = e /\ cs[u[1]][u[2]].st # "done"
    BY <2>4 DEF Using
  <2> HIDE DEF inUse
  <2> QED
    BY <2>5
<1>9. own \in Surjection(needing, inUse)
  <2>1. own \in [needing -> inUse]
    <3> HIDE DEF inUse
    <3> QED
      OBVIOUS
  <2> HIDE DEF own, needing, inUse
  <2> QED
    BY <1>8, <2>1 DEF Surjection
<1> HIDE DEF own, needing, inUse, all
<1>10. IsFiniteSet(inUse) /\ Cardinality(inUse) <= Cardinality(needing)
  BY <1>7, <1>9, FS_Surjection
<1>11. Cardinality(inUse) \in Nat
  BY <1>10, FS_CardinalityType
<1>12. Cardinality(Questions) * MaxModels = MaxModels * Cardinality(Questions)
  BY <1>1
<1> DEFINE total == MaxModels * Cardinality(Questions)
<1>13. total \in Int /\ Cardinality(all) = total
  BY <1>1, <1>12
<1> HIDE DEF total
<1>14. Cardinality(inUse) + 1 <= total
  BY <1>7, <1>10, <1>11, <1>13
<1> QED
  BY <1>10, <1>11, <1>14 DEF inUse, total

(* What is evicted is idle, and is enough unless all that remains is used.   *)
LEMMA EvictedFew ==
    ASSUME Bench!BoundsAssumption, NEW at, NEW es \in Seq(AnyEntry), NEW c \in Seq(DOMAIN es), at.entries = es, at.cached = c, Once(c)
    PROVE  LET evicted == Bench!Evicted(at)
           IN  /\ evicted \subseteq Each(c) /\ \A e \in evicted : es[e].busy = 0
               /\ \/ Cardinality(Each(c) \ evicted) + 1 <= MaxPipelines
                  \/ \A e \in Each(c) \ evicted : es[e].busy > 0
<1> DEFINE idle == {i \in DOMAIN c : es[c[i]].busy = 0}
           idlers == Kept(c, idle)
           card == Cardinality(idle)
           over == Len(c) + 1 - MaxPipelines
           evicted == Bench!Evicted(at)
<1>1. evicted = {idlers[i] : i \in {j \in DOMAIN idlers : j <= over}}
  <2>1. Bench!Only(c, idle) = idlers
    BY DEF Bench!Only, Kept, Cardinality, Bench!Cardinality
  <2> QED
    BY <2>1 DEF Bench!Evicted
<1>2. /\ Len(c) \in Nat /\ DOMAIN c = 1 .. Len(c) /\ MaxPipelines \in Nat \ {0}
      /\ \A i \in DOMAIN c : c[i] \in DOMAIN es /\ es[c[i]].busy \in Nat
  <2>1. \A i \in DOMAIN c : c[i] \in DOMAIN es
    OBVIOUS
  <2>2. \A e \in DOMAIN es : es[e] \in AnyEntry
    OBVIOUS
  <2> QED
    BY <2>1, <2>2 DEF Bench!BoundsAssumption, AnyEntry
<1>3. \A i \in idle : i \in DOMAIN c /\ i \in Int /\ es[c[i]].busy = 0
  BY <1>2
<1>4. \A i \in DOMAIN c : es[c[i]].busy = 0 => i \in idle
  OBVIOUS
<1>5. idle \in SUBSET DOMAIN c
  OBVIOUS
<1> HIDE DEF idle, evicted
<1>6. /\ card \in 0 .. Len(c) /\ DOMAIN idlers = 1 .. card
      /\ \A n \in 1 .. card : Position(idle, n) \in idle /\ idlers[n] = c[Position(idle, n)]
      /\ \A m, n \in 1 .. card : m < n => Position(idle, m) < Position(idle, n)
      /\ \A i \in idle : \E n \in 1 .. card : i = Position(idle, n)
  BY <1>5, KeptIs
<1> HIDE DEF idlers, card
<1>7. card \in Nat /\ over \in Int
  BY <1>2, <1>6
<1>8. \A n \in 1 .. card : idlers[n] \in Each(c) /\ es[idlers[n]].busy = 0
  BY <1>3, <1>6 DEF Each
<1>9. evicted \subseteq Each(c) /\ \A e \in evicted : es[e].busy = 0
  BY <1>1, <1>6, <1>8
<1>10. IsFiniteSet(Each(c)) /\ Cardinality(Each(c)) = Len(c)
  <2>1. IsFiniteSet(DOMAIN es)
    <3>1. DOMAIN es = 1 .. Len(es) /\ Len(es) \in Nat
      OBVIOUS
    <3> QED
      BY <3>1, FS_Interval, 1 \in Int, Len(es) \in Int
  <2>2. Each(c) \in SUBSET DOMAIN es
    BY <1>2 DEF Each
  <2> QED
    BY <2>1, <2>2, EachOnce, FS_Subset
<1> HIDE DEF over
<1>11. CASE over <= 0
  <2>1. evicted = {}
    BY <1>1, <1>6, <1>7, <1>11
  <2>2. Each(c) \ evicted = Each(c)
    BY <2>1
  <2>3. Cardinality(Each(c) \ evicted) = Len(c)
    BY <1>10, <2>2
  <2>4. Len(c) + 1 <= MaxPipelines
    BY <1>2, <1>11 DEF over
  <2>5. Cardinality(Each(c) \ evicted) + 1 <= MaxPipelines
    BY <2>3, <2>4
  <2> QED
    BY <1>9, <2>5 DEF evicted
<1>12. CASE over > 0 /\ over <= card
  <2> DEFINE first == 1 .. over
             evict == [n \in first |-> idlers[n]]
  <2>1. \A n \in first : n \in 1 .. card /\ n \in Int
    BY <1>7, <1>12
  <2>2. ASSUME NEW m \in first, NEW n \in first, evict[m] = evict[n] PROVE m = n
    <3>1. /\ c[Position(idle, m)] = c[Position(idle, n)] /\ Position(idle, m) \in DOMAIN c /\ Position(idle, n) \in DOMAIN c
          /\ Position(idle, m) \in Int
      BY <1>3, <1>6, <2>1, <2>2
    <3>2. Position(idle, m) = Position(idle, n)
      BY <3>1 DEF Once
    <3>3. ~(m < n) /\ ~(n < m)
      BY <1>6, <2>1, <3>1, <3>2
    <3> QED
      BY <2>1, <3>3
  <2>3. evicted = {evict[n] : n \in first}
    <3>1. \A n : n \in {j \in DOMAIN idlers : j <= over} <=> n \in first
      BY <1>6, <1>7, <1>12
    <3> QED
      BY <1>1, <3>1
  <2>4. evict \in Bijection(first, evicted)
    <3> HIDE DEF evict, first
    <3>1. evict \in [first -> evicted]
      BY <2>3 DEF evict
    <3> QED
      BY <2>2, <2>3, <3>1 DEF Bijection, Injection, Surjection, IsInjective
  <2>5. IsFiniteSet(first) /\ Cardinality(first) = over
    BY <1>7, <1>12, FS_Interval, 1 \in Int, over \in Int
  <2> HIDE DEF first, evict
  <2>6. Cardinality(evicted) = over
    BY <2>4, <2>5, FS_Bijection DEF ExistsBijection
  <2>7. Each(c) \cap evicted = evicted
    BY <1>9
  <2>8. Cardinality(Each(c) \ evicted) = Len(c) - over
    <3>1. Cardinality(Each(c) \ evicted) = Cardinality(Each(c)) - Cardinality(Each(c) \cap evicted)
      BY <1>10, FS_Difference
    <3> QED
      BY <1>10, <2>6, <2>7, <3>1
  <2>9. Cardinality(Each(c) \ evicted) + 1 = MaxPipelines
    BY <1>2, <2>8 DEF over
  <2>10. Cardinality(Each(c) \ evicted) + 1 <= MaxPipelines
    BY <1>2, <2>9
  <2> QED
    BY <1>9, <2>10 DEF evicted
<1>13. CASE over > card
  <2>1. ASSUME NEW n \in 1 .. card PROVE idlers[n] \in evicted
    <3>1. n \in DOMAIN idlers /\ n <= over
      BY <1>6, <1>7, <1>13
    <3> QED
      BY <1>1, <3>1
  <2>2. ASSUME NEW e \in Each(c) \ evicted PROVE es[e].busy > 0
    <3>1. PICK i \in DOMAIN c : c[i] = e
      BY DEF Each
    <3>2. i \notin idle
      BY <1>6, <2>1, <2>2, <3>1
    <3> QED
      BY <1>2, <1>4, <3>1, <3>2
  <2> QED
    BY <1>9, <2>2 DEF evicted
<1> QED
  BY <1>7, <1>11, <1>12, <1>13

\* A hit: the entry moves to the end of the map.
LEMMA HitStep ==
    ASSUME Bench!BoundsAssumption, NEW at, NEW cs, Steady(at, cs), NEW e \in Each(at.cached),
           NEW q \in Questions, Len(cs[q]) < MaxModels
    PROVE  /\ Steady(Bench!Used(at, e), OneMore(cs, q, e))
           /\ Bench!Used(at, e).used = Append(at.used, e) /\ Len(Bench!Used(at, e).entries) = Len(at.entries)
<1> DEFINE es == at.entries
           c == at.cached
<1>0. Accounted(es, c, cs) /\ KeptOpen(es, c) /\ e \in Each(c)
  BY DEF Steady
<1> HIDE DEF es, c
<1>1. /\ es \in Seq(AnyEntry) /\ c \in Seq(DOMAIN es) /\ Once(c) /\ CallsSound(es, cs) /\ Counted(es, cs)
      /\ \A f \in DOMAIN es : es[f].busy > 0 => f \in Each(c)
      /\ \A f, g \in Each(c) : es[f].setting = es[g].setting => f = g
      /\ Len(c) <= Most
  BY <1>0 DEF Accounted, Pooled
<1>2. Each(c) \cup {e} = Each(c)
  BY <1>0
<1>3. e \in DOMAIN es
  BY <1>0, <1>1 DEF Each
<1>4. Cardinality(Each(c) \cup {e}) <= Most
  <2>1. IsFiniteSet(DOMAIN es)
    <3>1. DOMAIN es = 1 .. Len(es) /\ Len(es) \in Nat
      BY <1>1
    <3> QED
      BY <3>1, FS_Interval, 1 \in Int, Len(es) \in Int
  <2>2. Cardinality(Each(c)) = Len(c)
    BY <1>1, <2>1, EachOnce
  <2> QED
    BY <1>1, <1>2, <2>2
<1>5. \A f \in DOMAIN es : f \in Each(c) \cup {e} <=> es[f].close = "no"
  BY <1>0, <1>2 DEF KeptOpen
<1>6. /\ \A f \in DOMAIN es : es[f].busy > 0 => f \in Each(c) \cup {e}
      /\ \A f, g \in Each(c) \cup {e} : es[f].setting = es[g].setting => f = g
  BY <1>1, <1>2
<1>7. Entering(es, c, cs, e)
  BY <1>1, <1>3, <1>4, <1>5, <1>6 DEF Entering
<1> QED
  BY <1>7, UsedStep DEF es, c

\* A miss: some are evicted, and a new one comes.
LEMMA MissStep ==
    ASSUME Bench!BoundsAssumption, NEW at, NEW cs, Steady(at, cs), NEW setting \in Models,
           \A x \in Each(at.cached) : at.entries[x].setting # setting, NEW q \in Questions, Len(cs[q]) < MaxModels,
           NEW e, e = Len(at.entries) + 1
    PROVE  LET u == Bench!Used(Bench!Made(at, setting), e)
           IN  /\ Steady(u, OneMore(cs, q, e)) /\ u.used = Append(at.used, e)
               /\ Len(u.entries) = Len(at.entries) + 1
<1> DEFINE es == at.entries
           c == at.cached
           evicted == Bench!Evicted(at)
           closed(x) == [es[x] EXCEPT !.close = "asked"]
           kept == [x \in DOMAIN es |-> IF x \in evicted THEN closed(x) ELSE es[x]]
           new == [setting |-> setting, busy |-> 0, pipe |-> "starting", close |-> "no"]
           more == Append(kept, new)
           rest == Left(c, evicted)
           made == Bench!Made(at, setting)
<1>1. /\ es \in Seq(AnyEntry) /\ c \in Seq(DOMAIN es) /\ Once(c) /\ CallsSound(es, cs) /\ Counted(es, cs)
      /\ \A f \in DOMAIN es : es[f].busy > 0 => f \in Each(c)
      /\ \A f, g \in Each(c) : es[f].setting = es[g].setting => f = g
      /\ Len(c) <= Most
  BY DEF Steady, Accounted, Pooled
<1>2. made.entries = more /\ made.cached = rest /\ made.used = at.used
  <2>1. Bench!Only(c, {i \in DOMAIN c : c[i] \notin evicted}) = rest
    BY DEF Bench!Only, Left, Kept, Cardinality, Bench!Cardinality
  <2> QED
    BY <2>1 DEF Bench!Made
<1>3. /\ evicted \subseteq Each(c) /\ \A x \in evicted : es[x].busy = 0
      /\ \/ Cardinality(Each(c) \ evicted) + 1 <= MaxPipelines
         \/ \A x \in Each(c) \ evicted : es[x].busy > 0
  BY <1>1, EvictedFew
<1>a. /\ KeptOpen(es, c) /\ e = Len(es) + 1 /\ \A x \in Each(c) : es[x].setting # setting
  BY DEF Steady
<1> HIDE DEF made, evicted, es, c
<1>4. Len(es) \in Nat /\ DOMAIN es = 1 .. Len(es) /\ e \notin DOMAIN es /\ Each(c) \subseteq DOMAIN es
  BY <1>1, <1>a DEF Each
<1>5. ASSUME NEW x \in DOMAIN es
      PROVE  /\ closed(x) \in AnyEntry /\ closed(x).setting = es[x].setting /\ closed(x).busy = es[x].busy
             /\ closed(x).close = "asked" /\ es[x] \in AnyEntry
  <2>1. es[x] \in AnyEntry
    BY <1>1
  <2>2. \A was \in AnyEntry : /\ [was EXCEPT !.close = "asked"] \in AnyEntry
                              /\ [was EXCEPT !.close = "asked"].setting = was.setting
                              /\ [was EXCEPT !.close = "asked"].busy = was.busy
                              /\ [was EXCEPT !.close = "asked"].close = "asked"
    BY ONLY DEF AnyEntry
  <2> QED
    BY <2>1, <2>2
<1> HIDE DEF closed
<1>6. new \in AnyEntry /\ new.setting = setting /\ new.busy = 0 /\ new.close = "no"
  BY DEF AnyEntry
<1> HIDE DEF new
<1>7. kept \in Seq(AnyEntry) /\ Len(kept) = Len(es) /\ DOMAIN kept = DOMAIN es
  <2>1. kept \in [1 .. Len(es) -> AnyEntry]
    BY <1>4, <1>5
  <2>2. kept \in Seq(AnyEntry)
    BY <1>4, <2>1, SeqDef
  <2>3. DOMAIN kept = 1 .. Len(es)
    BY <1>4
  <2> HIDE DEF kept
  <2> QED
    BY <1>4, <2>2, <2>3, LenProperties
<1>8. \A x \in DOMAIN es : /\ kept[x].setting = es[x].setting /\ kept[x].busy = es[x].busy
                           /\ kept[x].close = IF x \in evicted THEN "asked" ELSE es[x].close
  BY <1>5
<1> HIDE DEF kept
<1>9. /\ more \in Seq(AnyEntry) /\ Len(more) = Len(es) + 1 /\ DOMAIN more = 1 .. Len(es) + 1
      /\ more[e] = new /\ \A x \in DOMAIN es : more[x] = kept[x]
  BY <1>4, <1>6, <1>7, <1>a
<1>10. /\ \A x \in DOMAIN more : x \in DOMAIN es \/ x = e
       /\ DOMAIN es \subseteq DOMAIN more /\ e \in DOMAIN more
  BY <1>4, <1>9, <1>a
<1> HIDE DEF more
<1>11. rest \in Seq(DOMAIN es) /\ Once(rest) /\ Each(rest) = Each(c) \ evicted
  BY <1>1, LeftOnce
<1>12. rest \in Seq(DOMAIN more)
  BY <1>10, <1>11
<1> HIDE DEF rest
<1>13. CallsSound(more, cs)
  <2>1. 0 .. Len(es) \subseteq 0 .. Len(more)
    BY <1>4, <1>9
  <2> QED
    BY <1>1, <1>10, <2>1 DEF CallsSound
<1>14. Counted(more, cs)
  <2>1. Using(cs, e) = {}
    <3> SUFFICES ASSUME NEW u \in Using(cs, e) PROVE FALSE
      OBVIOUS
    <3>1. u[1] \in Questions /\ u[2] \in DOMAIN cs[u[1]] /\ cs[u[1]][u[2]].entry = e /\ cs[u[1]][u[2]].st # "done"
      BY DEF Using
    <3> QED
      BY <1>1, <1>4, <3>1 DEF CallsSound
  <2>2. Cardinality(Using(cs, e)) = 0
    BY <2>1, FS_EmptySet
  <2>3. \A x \in DOMAIN es : more[x].busy = Cardinality(Using(cs, x))
    BY <1>1, <1>8, <1>9 DEF Counted
  <2> QED
    BY <1>6, <1>9, <1>10, <2>2, <2>3 DEF Counted
<1>15. \A x \in DOMAIN more : more[x].busy > 0 => x \in Each(rest) \cup {e}
  <2> TAKE x \in DOMAIN more
  <2>1. CASE x = e
    BY <2>1
  <2>2. CASE x \in DOMAIN es
    <3>1. more[x].busy = es[x].busy
      BY <1>8, <1>9, <2>2
    <3>2. x \in evicted => ~(es[x].busy > 0)
      BY <1>3
    <3> QED
      BY <1>1, <1>11, <2>2, <3>1, <3>2
  <2> QED
    BY <1>10, <2>1, <2>2
<1>16. \A x, y \in Each(rest) \cup {e} : more[x].setting = more[y].setting => x = y
  <2>1. \A x \in Each(rest) : more[x].setting = es[x].setting /\ x \in Each(c) /\ es[x].setting # setting
    BY <1>4, <1>8, <1>9, <1>11, <1>a
  <2>2. more[e].setting = setting
    BY <1>6, <1>9
  <2> QED
    BY <1>1, <2>1, <2>2
<1>17. \A x \in DOMAIN more : x \in Each(rest) \cup {e} <=> more[x].close = "no"
  <2> TAKE x \in DOMAIN more
  <2>1. CASE x = e
    BY <1>6, <1>9, <2>1
  <2>2. CASE x \in DOMAIN es
    <3>1. more[x].close = IF x \in evicted THEN "asked" ELSE es[x].close
      BY <1>8, <1>9, <2>2
    <3>2. x # e
      BY <1>4, <2>2
    <3> QED
      BY <1>11, <1>a, <2>2, <3>1, <3>2 DEF KeptOpen
  <2> QED
    BY <1>10, <2>1, <2>2
<1>18. Cardinality(Each(rest) \cup {e}) <= Most
  <2>1. IsFiniteSet(DOMAIN es) /\ IsFiniteSet(Each(rest)) /\ e \notin Each(rest)
    <3>1. IsFiniteSet(DOMAIN es)
      BY <1>4, FS_Interval, 1 \in Int, Len(es) \in Int
    <3>2. Each(rest) \in SUBSET DOMAIN es
      BY <1>4, <1>11
    <3>3. IsFiniteSet(Each(rest))
      BY <3>1, <3>2, FS_Subset
    <3> QED
      BY <1>4, <3>1, <3>2, <3>3
  <2> DEFINE remaining == Cardinality(Each(rest))
             total == MaxModels * Cardinality(Questions)
  <2>2. Cardinality(Each(rest) \cup {e}) = remaining + 1 /\ remaining \in Nat
    BY <2>1, FS_AddElement, FS_CardinalityType
  <2>3. MaxPipelines \in Nat /\ total \in Nat
    <3>1. MaxPipelines \in Nat /\ MaxModels \in Nat /\ Cardinality(Questions) \in Nat
      BY UsingFinite
    <3> QED
      BY <3>1
  <2>4. remaining + 1 <= MaxPipelines \/ remaining + 1 <= total
    <3>1. CASE \A x \in Each(c) \ evicted : es[x].busy > 0
      <4> DEFINE inUse == {x \in DOMAIN es : es[x].busy > 0}
      <4>1. IsFiniteSet(inUse) /\ Cardinality(inUse) \in Nat /\ Cardinality(inUse) + 1 <= total
        BY <1>1, BusyFew
      <4>2. Each(rest) \in SUBSET inUse
        BY <1>4, <1>11, <3>1
      <4> HIDE DEF inUse
      <4>3. remaining <= Cardinality(inUse)
        BY <4>1, <4>2, FS_Subset
      <4> HIDE DEF remaining, total
      <4> QED
        BY <2>2, <2>3, <4>1, <4>3
    <3>2. CASE Cardinality(Each(c) \ evicted) + 1 <= MaxPipelines
      BY <1>11, <3>2
    <3> QED
      BY <1>3, <3>1, <3>2
  <2>5. Most = IF MaxPipelines >= total THEN MaxPipelines ELSE total
    BY DEF Most
  <2> HIDE DEF remaining, total
  <2> QED
    BY <2>2, <2>3, <2>4, <2>5
<1>19. Entering(more, rest, cs, e)
  BY <1>1, <1>9, <1>10, <1>11, <1>12, <1>13, <1>14, <1>15, <1>16, <1>17, <1>18 DEF Entering
<1>20. /\ Steady(Bench!Used(made, e), OneMore(cs, q, e)) /\ Bench!Used(made, e).used = Append(made.used, e)
       /\ Len(Bench!Used(made, e).entries) = Len(more)
  BY <1>2, <1>19, UsedStep
<1> QED
  BY <1>2, <1>9, <1>20 DEF made, es

\* pipeline() for one more model of a question.
LEMMA EnterStep ==
    ASSUME Bench!BoundsAssumption, NEW at, NEW cs, Steady(at, cs), NEW setting \in Models,
           NEW q \in Questions, Len(cs[q]) < MaxModels
    PROVE  \E e \in Nat : /\ Steady(Bench!Enter(at, setting), OneMore(cs, q, e))
                          /\ Bench!Enter(at, setting).used = Append(at.used, e)
<1> DEFINE hits == {x \in Bench!ToSet(at.cached) : at.entries[x].setting = setting}
<1>1. Bench!ToSet(at.cached) = Each(at.cached)
  BY DEF Bench!ToSet, Each
<1>2. Len(at.entries) \in Nat /\ Each(at.cached) \subseteq Nat
  BY DEF Steady, Accounted, Pooled, Each
<1>3. CASE hits = {}
  <2> DEFINE e == Len(at.entries) + 1
  <2>1. Bench!Enter(at, setting) = Bench!Used(Bench!Made(at, setting), e)
    BY <1>3 DEF Bench!Enter
  <2>2. \A x \in Each(at.cached) : at.entries[x].setting # setting
    BY <1>1, <1>3
  <2>3. e \in Nat
    BY <1>2
  <2> QED
    BY <2>1, <2>2, <2>3, MissStep
<1>4. CASE hits # {}
  <2> DEFINE e == CHOOSE x \in hits : TRUE
  <2>1. Bench!Enter(at, setting) = Bench!Used(at, e)
    BY <1>4 DEF Bench!Enter
  <2>2. e \in Each(at.cached)
    BY <1>1, <1>4
  <2> HIDE DEF e
  <2> QED
    BY <1>2, <2>1, <2>2, HitStep
<1> QED
  BY <1>3, <1>4

\* The calls of a question's models so far.
Waiting(used) == [i \in DOMAIN used |-> [entry |-> used[i], st |-> "waiting"]]
Asks(cs, q, used) == [cs EXCEPT ![q] = Waiting(used)]

LEMMA AsksOneMore ==
    ASSUME NEW cs, DOMAIN cs = Questions, NEW q \in Questions, NEW used \in Seq(Nat), NEW e \in Nat
    PROVE  /\ OneMore(Asks(cs, q, used), q, e) = Asks(cs, q, Append(used, e))
           /\ Len(Asks(cs, q, used)[q]) = Len(used)
<1> DEFINE call == [entry |-> e, st |-> "waiting"]
           T == [entry : Nat, st : {"waiting"}]
           longer == Append(Waiting(used), call)
<1>1. Asks(cs, q, used)[q] = Waiting(used)
  BY DEF Asks
<1>2. Len(used) \in Nat /\ DOMAIN used = 1 .. Len(used)
  OBVIOUS
<1>3. Waiting(used) \in Seq(T) /\ Len(Waiting(used)) = Len(used)
  <2>1. Waiting(used) \in [1 .. Len(used) -> T]
    BY <1>2 DEF Waiting
  <2> HIDE DEF T
  <2>2. Waiting(used) \in Seq(T)
    BY <1>2, <2>1, SeqDef
  <2> QED
    BY <1>2, <2>1, <2>2, LenProperties
<1>4. Append(Waiting(used), call) = Waiting(Append(used, e))
  <2>1. call \in T
    OBVIOUS
  <2>2. /\ DOMAIN Append(used, e) = 1 .. Len(used) + 1 /\ Append(used, e)[Len(used) + 1] = e
        /\ \A i \in 1 .. Len(used) : Append(used, e)[i] = used[i]
    OBVIOUS
  <2> HIDE DEF call
  <2>3. /\ DOMAIN Append(Waiting(used), call) = 1 .. Len(used) + 1 /\ Append(Waiting(used), call)[Len(used) + 1] = call
        /\ \A i \in 1 .. Len(used) : Append(Waiting(used), call)[i] = Waiting(used)[i]
    BY <1>3, <2>1
  <2>4. \A i \in 1 .. Len(used) + 1 : i \in 1 .. Len(used) \/ i = Len(used) + 1
    BY <1>2
  <2>5. Waiting(Append(used, e)) = [i \in 1 .. Len(used) + 1 |-> [entry |-> Append(used, e)[i], st |-> "waiting"]]
    BY <2>2 DEF Waiting
  <2>6. \A i \in 1 .. Len(used) : Waiting(used)[i] = [entry |-> used[i], st |-> "waiting"]
    BY <1>2 DEF Waiting
  <2>7. \A i \in 1 .. Len(used) + 1 : Append(Waiting(used), call)[i] = [entry |-> Append(used, e)[i], st |-> "waiting"]
    BY <2>2, <2>3, <2>4, <2>6 DEF call
  <2>8. longer \in Seq(T)
    <3> HIDE DEF T
    <3> QED
      BY <1>3, <2>1
  <2>a. DOMAIN longer = 1 .. Len(used) + 1
    BY <2>3
  <2>9. longer \in [1 .. Len(used) + 1 -> T]
    <3> HIDE DEF T, longer
    <3> QED
      BY <2>8, <2>a
  <2>10. longer = [i \in 1 .. Len(used) + 1 |-> longer[i]]
    <3> HIDE DEF T, longer
    <3> QED
      BY <2>9
  <2> QED
    BY <2>5, <2>7, <2>10
<1>5. OneMore(Asks(cs, q, used), q, e) = [Asks(cs, q, used) EXCEPT ![q] = Waiting(Append(used, e))]
  BY <1>1, <1>4 DEF OneMore
<1>6. [Asks(cs, q, used) EXCEPT ![q] = Waiting(Append(used, e))] = Asks(cs, q, Append(used, e))
  BY DEF Asks
<1> QED
  BY <1>1, <1>3, <1>5, <1>6

\* compare(): what its models enter, one after the other.
LEMMA EnteredSteady ==
    ASSUME Bench!BoundsAssumption, NEW cs, DOMAIN cs = Questions, NEW q \in Questions,
           Steady(Bench!State, Asks(cs, q, <<>>)), NEW k \in 1 .. MaxModels, NEW models \in [1 .. k -> Models]
    PROVE  LET after == Bench!Entered(models)
           IN  after.used \in Seq(Nat) /\ Len(after.used) = k /\ Steady(after, Asks(cs, q, after.used))
<1>0. MaxModels \in Nat \ {0} /\ k \in Nat /\ k <= MaxModels
  BY UsingFinite
<1>1. PICK at : /\ at[0] = Bench!State
                /\ \A n \in 1 .. k : at[n] = Bench!Enter(at[n - 1], models[n])
                /\ Bench!Entered(models) = at[k]
  BY <1>0, EnteredOneByOne
<1> DEFINE Good(n) == at[n].used \in Seq(Nat) /\ Len(at[n].used) = n /\ Steady(at[n], Asks(cs, q, at[n].used))
           Unsteady == {n \in 0 .. k : ~Good(n)}
<1>2. Good(0)
  <2>1. at[0].used = <<>>
    BY <1>1 DEF Bench!State
  <2> QED
    BY <1>1, <2>1
<1>3. ASSUME NEW n \in 1 .. k, Good(n - 1) PROVE Good(n)
  <2> DEFINE was == at[n - 1]
             used == was.used
  <2>1. /\ used \in Seq(Nat) /\ Len(used) = n - 1 /\ Steady(was, Asks(cs, q, used))
        /\ at[n] = Bench!Enter(was, models[n]) /\ models[n] \in Models
    BY <1>1, <1>3
  <2> HIDE DEF was, used
  <2>2. Len(Asks(cs, q, used)[q]) < MaxModels
    BY <1>0, <2>1, AsksOneMore, 0 \in Nat
  <2>3. PICK e \in Nat : /\ Steady(at[n], OneMore(Asks(cs, q, used), q, e))
                         /\ at[n].used = Append(was.used, e)
    BY <2>1, <2>2, EnterStep
  <2>4. OneMore(Asks(cs, q, used), q, e) = Asks(cs, q, Append(used, e))
    BY <2>1, AsksOneMore
  <2>5. Append(used, e) \in Seq(Nat) /\ Len(Append(used, e)) = n
    BY <2>1
  <2> QED
    BY <2>3, <2>4, <2>5 DEF used
<1>4. Unsteady = {}
  <2> SUFFICES ASSUME Unsteady # {} PROVE FALSE
    OBVIOUS
  <2>1. PICK n \in Unsteady : \A m \in Unsteady : n <= m
    <3>1. Unsteady \in SUBSET Nat
      OBVIOUS
    <3> HIDE DEF Unsteady
    <3> QED
      BY <1>0, <3>1, Least
  <2>2. n \in 0 .. k /\ ~Good(n)
    BY <2>1
  <2>3. n # 0
    BY <1>2, <2>2
  <2>4. n \in 1 .. k /\ n - 1 \in 0 .. k /\ n - 1 \notin Unsteady
    BY <1>0, <2>1, <2>2, <2>3
  <2>5. Good(n - 1)
    BY <2>4
  <2> HIDE DEF Good
  <2> QED
    BY <1>3, <2>2, <2>4, <2>5
<1>5. Good(k)
  BY <1>0, <1>4
<1> QED
  BY <1>1, <1>5

Idle(cs, q) == \A i \in DOMAIN cs[q] : cs[q][i].st = "done"

LEMMA CompareStep ==
    ASSUME Bench!BoundsAssumption, BenchInv, NEW q \in Questions, Bench!Compare(q)
    PROVE  BenchInv'
<1>1. PICK k \in 1 .. MaxModels : \E models \in [1 .. k -> Models] :
          LET after == Bench!Entered(models)
          IN  /\ Len(after.entries) <= MaxEntries
              /\ entries' = after.entries /\ cached' = after.cached
              /\ calls' = [calls EXCEPT ![q] = [i \in 1 .. k |-> [entry |-> after.used[i], st |-> "waiting"]]]
  BY DEF Bench!Compare
<1>2. PICK models \in [1 .. k -> Models] :
          LET after == Bench!Entered(models)
          IN  /\ Len(after.entries) <= MaxEntries
              /\ entries' = after.entries /\ cached' = after.cached
              /\ calls' = [calls EXCEPT ![q] = [i \in 1 .. k |-> [entry |-> after.used[i], st |-> "waiting"]]]
  BY <1>1
<1> DEFINE after == Bench!Entered(models)
           none == Asks(calls, q, <<>>)
<1>3. Accounted(entries, cached, calls) /\ KeptOpen(entries, cached) /\ Idle(calls, q) /\ running' = running /\ running
  BY DEF BenchInv, Bench!Compare, Idle
<1>4. calls \in [Questions -> Seq(AnyCall)] /\ DOMAIN calls = Questions
  BY <1>3 DEF Accounted, CallsSound
<1>5. none \in [Questions -> Seq(AnyCall)] /\ none[q] = <<>> /\ \A p \in Questions : p # q => none[p] = calls[p]
  <2>1. Waiting(<<>>) = <<>>
    BY DEF Waiting
  <2>2. none = [calls EXCEPT ![q] = <<>>]
    BY <2>1 DEF Asks
  <2> DEFINE nil == <<>>
  <2>3. nil \in Seq(AnyCall) /\ none = [calls EXCEPT ![q] = nil]
    BY <2>2
  <2> HIDE DEF none, nil
  <2>4. none \in [Questions -> Seq(AnyCall)] /\ none[q] = nil /\ \A p \in Questions : p # q => none[p] = calls[p]
    BY <1>4, <2>3
  <2> QED
    BY <2>4 DEF nil
<1> HIDE DEF none
<1>6. ASSUME NEW e PROVE Using(none, e) = Using(calls, e)
  <2>1. ASSUME NEW v \in Questions \X (1 .. MaxModels) PROVE v \in Using(none, e) <=> v \in Using(calls, e)
    <3>1. v[1] \in Questions
      OBVIOUS
    <3>2. CASE v[1] = q
      BY <1>3, <1>5, <3>2 DEF Using, Idle
    <3>3. CASE v[1] # q
      BY <1>5, <3>1, <3>3 DEF Using
    <3> QED
      BY <3>2, <3>3
  <2>2. Using(none, e) \subseteq Questions \X (1 .. MaxModels) /\ Using(calls, e) \subseteq Questions \X (1 .. MaxModels)
    BY DEF Using
  <2> QED
    BY <2>1, <2>2, Zenon
<1>7. CallsSound(entries, none)
  <2>1. MaxModels \in Nat
    BY UsingFinite
  <2> SUFFICES ASSUME NEW p \in Questions
               PROVE  /\ Len(none[p]) <= MaxModels
                      /\ \A i \in DOMAIN none[p] : /\ none[p][i].entry \in 0 .. Len(entries)
                                                   /\ none[p][i].st # "done" => none[p][i].entry \in DOMAIN entries
    BY <1>5 DEF CallsSound
  <2>2. CASE p = q
    BY <1>5, <2>1, <2>2
  <2>3. CASE p # q
    BY <1>3, <1>5, <2>3 DEF Accounted, CallsSound
  <2> QED
    BY <2>2, <2>3
<1>8. Steady(Bench!State, none)
  BY <1>3, <1>6, <1>7 DEF Steady, Accounted, Counted, Bench!State
<1>9. after.used \in Seq(Nat) /\ Len(after.used) = k /\ Steady(after, Asks(calls, q, after.used))
  BY <1>4, <1>8, EnteredSteady DEF none
<1> HIDE DEF after
<1>10. Asks(calls, q, after.used) = calls'
  <2>1. DOMAIN after.used = 1 .. k
    BY <1>9
  <2>2. calls' = [calls EXCEPT ![q] = [i \in 1 .. k |-> [entry |-> after.used[i], st |-> "waiting"]]]
    BY <1>2 DEF after
  <2> QED
    BY <2>1, <2>2 DEF Asks, Waiting
<1>11. entries' = after.entries /\ cached' = after.cached /\ Len(after.entries) <= MaxEntries
  BY <1>2 DEF after
<1>12. Accounted(entries', cached', calls') /\ KeptOpen(entries', cached') /\ Len(entries') <= MaxEntries
  BY <1>9, <1>10, <1>11 DEF Steady
<1>13. running' \in BOOLEAN
  BY <1>3
<1> QED
  BY <1>12, <1>13 DEF BenchInv, Accounted, KeptOpen, CallsSound, Counted, Pooled, Using, Once, Each, Most

\* What changes of the entries, with the settings and the uses as they are.
LEMMA SameUses ==
    ASSUME NEW es, NEW c, NEW cs, Accounted(es, c, cs), NEW after \in Seq(AnyEntry), DOMAIN after = DOMAIN es, Len(after) = Len(es),
           \A e \in DOMAIN es : after[e].setting = es[e].setting /\ after[e].busy = es[e].busy
    PROVE  Accounted(after, c, cs)
<1>1. es \in Seq(AnyEntry) /\ CallsSound(es, cs) /\ Counted(es, cs) /\ Pooled(es, c)
  BY DEF Accounted
<1>2. Each(c) \subseteq DOMAIN es
  BY <1>1 DEF Pooled, Each
<1>3. Pooled(after, c)
  BY <1>1, <1>2 DEF Pooled
<1>4. Counted(after, cs)
  BY <1>1 DEF Counted
<1>5. CallsSound(after, cs)
  BY <1>1 DEF CallsSound
<1> QED
  BY <1>3, <1>4, <1>5 DEF Accounted

\* A call of a question changes.
Became(cs, q, i, call) == [cs EXCEPT ![q] = [cs[q] EXCEPT ![i] = call]]

LEMMA CallChanged ==
    ASSUME NEW es, NEW cs, CallsSound(es, cs), NEW q \in Questions, NEW i \in DOMAIN cs[q],
           NEW call \in AnyCall, call.entry \in 0 .. Len(es), call.st # "done" => call.entry \in DOMAIN es
    PROVE  LET after == Became(cs, q, i, call)
           IN  /\ CallsSound(es, after)
               /\ \A f : \A v \in Questions \X (1 .. MaxModels) :
                     v \in Using(after, f) <=> IF v = <<q, i>> THEN call.entry = f /\ call.st # "done" ELSE v \in Using(cs, f)
<1> DEFINE after == Became(cs, q, i, call)
           of == [cs[q] EXCEPT ![i] = call]
<1>1. cs \in [Questions -> Seq(AnyCall)] /\ cs[q] \in Seq(AnyCall)
  BY DEF CallsSound
<1>2. /\ of \in Seq(AnyCall) /\ DOMAIN of = DOMAIN cs[q] /\ Len(of) = Len(cs[q])
      /\ of[i] = call /\ \A j \in DOMAIN cs[q] : j # i => of[j] = cs[q][j]
  BY <1>1, Exchanged
<1>3. after = [cs EXCEPT ![q] = of]
  BY DEF Became
<1> HIDE DEF of, after
<1>4. after \in [Questions -> Seq(AnyCall)] /\ after[q] = of /\ \A p \in Questions : p # q => after[p] = cs[p]
  BY <1>1, <1>2, <1>3
<1>5. CallsSound(es, after)
  <2> SUFFICES ASSUME NEW p \in Questions
               PROVE  /\ Len(after[p]) <= MaxModels
                      /\ \A j \in DOMAIN after[p] : /\ after[p][j].entry \in 0 .. Len(es)
                                                    /\ after[p][j].st # "done" => after[p][j].entry \in DOMAIN es
    BY <1>4 DEF CallsSound
  <2>1. CASE p # q
    BY <1>4, <2>1 DEF CallsSound
  <2>2. CASE p = q
    <3>1. Len(of) <= MaxModels
      BY <1>2 DEF CallsSound
    <3>2. ASSUME NEW j \in DOMAIN of
          PROVE  of[j].entry \in 0 .. Len(es) /\ (of[j].st # "done" => of[j].entry \in DOMAIN es)
      BY <1>2 DEF CallsSound
    <3> QED
      BY <1>4, <2>2, <3>1, <3>2
  <2> QED
    BY <2>1, <2>2
<1>6. ASSUME NEW f, NEW v \in Questions \X (1 .. MaxModels)
      PROVE  v \in Using(after, f) <=> IF v = <<q, i>> THEN call.entry = f /\ call.st # "done" ELSE v \in Using(cs, f)
  <2>1. v[1] \in Questions /\ v = <<v[1], v[2]>>
    OBVIOUS
  <2>2. CASE v[1] # q
    BY <1>4, <2>1, <2>2 DEF Using
  <2>3. CASE v[1] = q /\ v[2] # i
    BY <1>2, <1>4, <2>1, <2>3 DEF Using
  <2>4. CASE v[1] = q /\ v[2] = i
    BY <1>2, <1>4, <2>1, <2>4 DEF Using
  <2> QED
    BY <2>2, <2>3, <2>4
<1> QED
  BY <1>5, <1>6 DEF after

\* A call is done: entry.busy-- behind it.
Less(es, e) == [es EXCEPT ![e].busy = @ - 1]

LEMMA CallDone ==
    ASSUME Bench!BoundsAssumption, NEW es, NEW c, NEW cs, Accounted(es, c, cs),
           NEW q \in Questions, NEW i \in DOMAIN cs[q], cs[q][i].st # "done"
    PROVE  LET e == cs[q][i].entry
               less == Less(es, e)
           IN  /\ e \in DOMAIN es /\ Accounted(less, c, Became(cs, q, i, Bench!Done)) /\ Len(less) = Len(es)
               /\ KeptOpen(es, c) => KeptOpen(less, c)
<1> DEFINE e == cs[q][i].entry
           u == <<q, i>>
           after == Became(cs, q, i, Bench!Done)
           one == [es[e] EXCEPT !.busy = es[e].busy - 1]
           less == Less(es, e)
<1>1. es \in Seq(AnyEntry) /\ CallsSound(es, cs) /\ Counted(es, cs) /\ Pooled(es, c)
  BY DEF Accounted
<1>2. e \in DOMAIN es
  BY <1>1 DEF CallsSound
<1>3. u \in Questions \X (1 .. MaxModels)
  <2>1. cs[q] \in Seq(AnyCall) /\ Len(cs[q]) <= MaxModels
    BY <1>1 DEF CallsSound
  <2>2. MaxModels \in Nat
    BY UsingFinite
  <2>3. i \in 1 .. MaxModels
    BY <2>1, <2>2
  <2> QED
    BY <2>3
<1>4. Bench!Done \in AnyCall /\ Bench!Done.entry = 0 /\ Bench!Done.st = "done"
  BY DEF AnyCall, Bench!Done
<1>5. Len(es) \in Nat /\ 0 \in 0 .. Len(es)
  BY <1>1
<1>6. /\ CallsSound(es, after)
      /\ \A f : \A v \in Questions \X (1 .. MaxModels) :
            v \in Using(after, f) <=> IF v = u THEN Bench!Done.entry = f /\ Bench!Done.st # "done" ELSE v \in Using(cs, f)
  BY <1>1, <1>4, <1>5, CallChanged
<1> HIDE DEF after
<1>7. \A f : Using(after, f) \subseteq Questions \X (1 .. MaxModels) /\ Using(cs, f) \subseteq Questions \X (1 .. MaxModels)
  BY DEF Using
<1>8. u \in Using(cs, e)
  BY <1>3 DEF Using
<1>9. ASSUME NEW f, f # e PROVE Using(after, f) = Using(cs, f)
  <2>1. u \notin Using(cs, f)
    BY <1>9 DEF Using
  <2> HIDE DEF u, e
  <2>2. \A v \in Questions \X (1 .. MaxModels) : v \in Using(after, f) <=> v \in Using(cs, f)
    BY <1>4, <1>6, <2>1
  <2> QED
    BY <1>7, <2>2, Zenon
<1>10. Using(after, e) = Using(cs, e) \ {u}
  <2> HIDE DEF u, e
  <2>1. \A v \in Questions \X (1 .. MaxModels) : v \in Using(after, e) <=> v \in Using(cs, e) /\ v # u
    BY <1>4, <1>6
  <2> QED
    BY <1>7, <2>1
<1>11. IsFiniteSet(Using(cs, e)) /\ Cardinality(Using(cs, e)) \in Nat /\ Cardinality(Using(after, e)) \in Nat
  BY UsingFinite
<1>12. Cardinality(Using(after, e)) = Cardinality(Using(cs, e)) - 1
  <2> HIDE DEF u, e
  <2> QED
    BY <1>8, <1>10, <1>11, FS_RemoveElement
<1>13. es[e] \in AnyEntry /\ es[e].busy = Cardinality(Using(cs, e)) /\ es[e].busy - 1 \in Nat
  <2>1. es[e].busy = Cardinality(Using(cs, e))
    BY <1>1, <1>2 DEF Counted
  <2> QED
    BY <1>1, <1>2, <1>11, <1>12, <2>1
<1>14. one \in AnyEntry /\ one.setting = es[e].setting /\ one.close = es[e].close /\ one.busy = es[e].busy - 1
  <2>1. \A was \in AnyEntry, n \in Nat :
           /\ [was EXCEPT !.busy = n] \in AnyEntry /\ [was EXCEPT !.busy = n].setting = was.setting
           /\ [was EXCEPT !.busy = n].close = was.close /\ [was EXCEPT !.busy = n].busy = n
    BY ONLY DEF AnyEntry
  <2> HIDE DEF e
  <2> QED
    BY <1>13, <2>1
<1>15. less = [es EXCEPT ![e] = one]
  BY DEF Less
<1> HIDE DEF e, u, one, less
<1>16. /\ less \in Seq(AnyEntry) /\ DOMAIN less = DOMAIN es /\ Len(less) = Len(es)
       /\ less[e] = one /\ \A f \in DOMAIN es : f # e => less[f] = es[f]
  BY <1>1, <1>2, <1>14, <1>15, Exchanged
<1>17. Counted(less, after)
  <2> SUFFICES ASSUME NEW f \in DOMAIN es PROVE less[f].busy = Cardinality(Using(after, f))
    BY <1>16 DEF Counted
  <2>1. CASE f = e
    BY <1>12, <1>13, <1>14, <1>16, <2>1
  <2>2. CASE f # e
    BY <1>1, <1>9, <1>16, <2>2 DEF Counted
  <2> QED
    BY <2>1, <2>2
<1>18. CallsSound(less, after)
  BY <1>6, <1>16 DEF CallsSound
<1>19. \A f \in DOMAIN es : /\ less[f].setting = es[f].setting /\ less[f].close = es[f].close
                            /\ less[f].busy > 0 => es[f].busy > 0
  <2> TAKE f \in DOMAIN es
  <2>1. CASE f = e
    BY <1>13, <1>14, <1>16, <2>1 DEF AnyEntry
  <2>2. CASE f # e
    BY <1>16, <2>2
  <2> QED
    BY <2>1, <2>2
<1>20. Pooled(less, c)
  <2>1. Each(c) \subseteq DOMAIN es
    BY <1>1 DEF Pooled, Each
  <2> QED
    BY <1>1, <1>16, <1>19, <2>1 DEF Pooled
<1>21. KeptOpen(es, c) => KeptOpen(less, c)
  BY <1>16, <1>19 DEF KeptOpen
<1> QED
  BY <1>2, <1>16, <1>17, <1>18, <1>20, <1>21 DEF Accounted, e, less, after

LEMMA BenchNext ==
    ASSUME Bench!BoundsAssumption, BenchInv, [Bench!Next]_(Bench!vars)
    PROVE  BenchInv'
<1>1. /\ Accounted(entries, cached, calls) /\ running \in BOOLEAN /\ (running => KeptOpen(entries, cached))
      /\ Len(entries) <= MaxEntries
      /\ entries \in Seq(AnyEntry) /\ cached \in Seq(DOMAIN entries) /\ CallsSound(entries, calls)
  BY DEF BenchInv, Accounted, Pooled
<1>2. \A e \in DOMAIN entries : entries[e] \in AnyEntry
  BY <1>1
<1>a. DOMAIN entries = Bench!Entries /\ Len(entries) \in Nat
  BY <1>1 DEF Bench!Entries
<1>3. ASSUME Accounted(entries', cached', calls'), running' \in BOOLEAN, running' => KeptOpen(entries', cached'),
             Len(entries') <= MaxEntries
      PROVE  BenchInv'
  BY <1>3 DEF BenchInv, Accounted, KeptOpen, CallsSound, Counted, Pooled, Using, Once, Each, Most
<1>4. ASSUME NEW e \in DOMAIN entries, NEW one \in AnyEntry, one.setting = entries[e].setting, one.busy = entries[e].busy,
             one.close = "no" <=> entries[e].close = "no", entries' = [entries EXCEPT ![e] = one],
             UNCHANGED <<cached, calls, running>>
      PROVE  BenchInv'
  <2>1. /\ entries' \in Seq(AnyEntry) /\ DOMAIN entries' = DOMAIN entries /\ Len(entries') = Len(entries)
        /\ entries'[e] = one /\ \A f \in DOMAIN entries : f # e => entries'[f] = entries[f]
    BY <1>1, <1>4, Exchanged
  <2>2. \A f \in DOMAIN entries : /\ entries'[f].setting = entries[f].setting /\ entries'[f].busy = entries[f].busy
                                  /\ entries'[f].close = "no" <=> entries[f].close = "no"
    BY <1>4, <2>1
  <2>3. Accounted(entries', cached, calls)
    BY <1>1, <2>1, <2>2, SameUses
  <2>4. running => KeptOpen(entries', cached)
    BY <1>1, <2>1, <2>2 DEF KeptOpen
  <2> QED
    BY <1>1, <1>3, <1>4, <2>1, <2>3, <2>4
<1>5. ASSUME NEW e \in Bench!Entries, Bench!Starts(e) PROVE BenchInv'
  <2>1. PICK end \in {"ready", "failed"} : entries' = [entries EXCEPT ![e] = [entries[e] EXCEPT !.pipe = end]]
    BY <1>5 DEF Bench!Starts
  <2> DEFINE one == [entries[e] EXCEPT !.pipe = end]
  <2>2. /\ one \in AnyEntry /\ one.setting = entries[e].setting /\ one.busy = entries[e].busy
        /\ one.close = entries[e].close
    BY <1>2, <1>a DEF AnyEntry
  <2> HIDE DEF one
  <2> QED
    BY <1>4, <1>5, <1>a, <2>1, <2>2 DEF Bench!Starts, one
<1>6. ASSUME NEW e \in Bench!Entries, Bench!Closes(e) PROVE BenchInv'
  <2> DEFINE one == [entries[e] EXCEPT !.close = "closed"]
  <2>1. entries' = [entries EXCEPT ![e] = one] /\ entries[e].close = "asked" /\ UNCHANGED <<cached, calls, running>>
    BY <1>6 DEF Bench!Closes
  <2>2. one \in AnyEntry /\ one.setting = entries[e].setting /\ one.busy = entries[e].busy /\ one.close = "closed"
    BY <1>2, <1>a DEF AnyEntry
  <2> HIDE DEF one
  <2> QED
    BY <1>4, <1>a, <2>1, <2>2
<1>7. ASSUME Bench!Shutdown PROVE BenchInv'
  <2> DEFINE asked(e) == [entries[e] EXCEPT !.close = "asked"]
             after == [e \in Bench!Entries |-> IF e \in Bench!ToSet(cached) THEN asked(e) ELSE entries[e]]
  <2>1. ASSUME NEW e \in DOMAIN entries
        PROVE  asked(e) \in AnyEntry /\ asked(e).setting = entries[e].setting /\ asked(e).busy = entries[e].busy
    BY <1>2 DEF AnyEntry
  <2>2. entries' = after /\ running' = FALSE /\ UNCHANGED <<cached, calls>>
    BY <1>7 DEF Bench!Shutdown
  <2> HIDE DEF asked
  <2>3. after \in [1 .. Len(entries) -> AnyEntry]
    BY <1>2, <1>a, <2>1 DEF Bench!Entries
  <2>4. after \in Seq(AnyEntry) /\ DOMAIN after = DOMAIN entries
    BY <1>a, <2>3, SeqDef DEF Bench!Entries
  <2>5. \A e \in DOMAIN entries : after[e].setting = entries[e].setting /\ after[e].busy = entries[e].busy
    BY <1>a, <2>1
  <2> HIDE DEF after
  <2>6. Len(after) = Len(entries)
    BY <1>a, <2>3, <2>4, LenProperties
  <2>7. Accounted(after, cached, calls)
    BY <1>1, <2>4, <2>5, <2>6, SameUses
  <2> QED
    BY <1>1, <1>3, <2>2, <2>6, <2>7
<1>8. ASSUME NEW q \in Questions, NEW i \in DOMAIN calls[q], calls[q][i].st # "done",
             entries' = Less(entries, calls[q][i].entry), calls' = Became(calls, q, i, Bench!Done), UNCHANGED <<cached, running>>
      PROVE  BenchInv'
  <2> DEFINE less == Less(entries, calls[q][i].entry)
  <2>1. /\ Accounted(less, cached, Became(calls, q, i, Bench!Done)) /\ Len(less) = Len(entries)
        /\ KeptOpen(entries, cached) => KeptOpen(less, cached)
    BY <1>1, <1>8, CallDone
  <2> HIDE DEF less
  <2>2. Accounted(entries', cached', calls') /\ Len(entries') = Len(entries)
    BY <1>8, <2>1 DEF less
  <2>3. running' => KeptOpen(entries', cached')
    BY <1>1, <1>8, <2>1 DEF less
  <2> QED
    BY <1>1, <1>3, <1>8, <2>2, <2>3
<1>9. ASSUME NEW q \in Questions, NEW i \in DOMAIN calls[q], Bench!Answers(q, i) PROVE BenchInv'
  <2>1. /\ calls[q][i].st # "done" /\ UNCHANGED <<cached, running>>
        /\ calls' = Became(calls, q, i, Bench!Done) /\ entries' = Less(entries, calls[q][i].entry)
    BY <1>9 DEF Bench!Answers, Became, Less
  <2> QED
    BY <1>8, <2>1
<1>10. ASSUME NEW q \in Questions, NEW i \in DOMAIN calls[q], Bench!Awaits(q, i) PROVE BenchInv'
  <2> DEFINE call == [calls[q][i] EXCEPT !.st = "asking"]
  <2>1. calls[q][i].st = "waiting" /\ UNCHANGED <<cached, running>>
    BY <1>10 DEF Bench!Awaits
  <2>2. CASE entries[calls[q][i].entry].pipe = "ready"
    <3>1. calls' = Became(calls, q, i, call) /\ entries' = entries
      BY <1>10, <2>2 DEF Bench!Awaits, Became
    <3>2. calls[q] \in Seq(AnyCall) /\ calls[q][i].entry \in 0 .. Len(entries) /\ calls[q][i].entry \in DOMAIN entries
      BY <1>1, <2>1 DEF CallsSound
    <3>3. call \in AnyCall /\ call.entry = calls[q][i].entry /\ call.st = "asking"
      <4>1. \A was \in AnyCall : /\ [was EXCEPT !.st = "asking"] \in AnyCall
                                 /\ [was EXCEPT !.st = "asking"].entry = was.entry
                                 /\ [was EXCEPT !.st = "asking"].st = "asking"
        BY ONLY DEF AnyCall
      <4>2. calls[q][i] \in AnyCall
        BY <3>2
      <4> QED
        BY <4>1, <4>2
    <3> HIDE DEF call
    <3> DEFINE after == Became(calls, q, i, call)
    <3>4. /\ CallsSound(entries, after)
          /\ \A f : \A v \in Questions \X (1 .. MaxModels) :
                v \in Using(after, f) <=> IF v = <<q, i>> THEN call.entry = f /\ call.st # "done" ELSE v \in Using(calls, f)
      BY <1>1, <3>2, <3>3, CallChanged
    <3> HIDE DEF after
    <3>5. ASSUME NEW f PROVE Using(after, f) = Using(calls, f)
      <4>1. <<q, i>> \in Questions \X (1 .. MaxModels) => (<<q, i>> \in Using(calls, f) <=> calls[q][i].entry = f)
        BY <2>1 DEF Using
      <4>2. \A v \in Questions \X (1 .. MaxModels) : v \in Using(after, f) <=> v \in Using(calls, f)
        BY <3>3, <3>4, <4>1
      <4>3. Using(after, f) \subseteq Questions \X (1 .. MaxModels) /\ Using(calls, f) \subseteq Questions \X (1 .. MaxModels)
        BY DEF Using
      <4> QED
        BY <4>2, <4>3, Zenon
    <3>6. Accounted(entries, cached, after)
      BY <1>1, <3>4, <3>5 DEF Accounted, Counted
    <3>7. Accounted(entries', cached', calls') /\ (running' => KeptOpen(entries', cached')) /\ Len(entries') = Len(entries)
      BY <1>1, <2>1, <3>1, <3>6 DEF after
    <3> QED
      BY <1>1, <1>3, <2>1, <3>7
  <2>3. CASE entries[calls[q][i].entry].pipe # "ready"
    <3>1. calls' = Became(calls, q, i, Bench!Done) /\ entries' = Less(entries, calls[q][i].entry)
      BY <1>10, <2>3 DEF Bench!Awaits, Became, Less
    <3>2. calls[q][i].st # "done"
      BY <2>1
    <3> QED
      BY <1>8, <2>1, <3>1, <3>2
  <2> QED
    BY <2>2, <2>3
<1>11. CASE UNCHANGED Bench!vars
  <2>1. entries' = entries /\ cached' = cached /\ calls' = calls /\ running' = running
    BY <1>11 DEF Bench!vars
  <2> QED
    BY <1>1, <1>3, <2>1
<1> QED
  BY <1>5, <1>6, <1>7, <1>9, <1>10, <1>11, CompareStep DEF Bench!Next

LEMMA BenchInit ==
    ASSUME Bench!BoundsAssumption, Bench!Init
    PROVE  BenchInv
<1>1. entries = <<>> /\ cached = <<>> /\ running = TRUE /\ calls = [q \in Questions |-> <<>>]
  BY DEF Bench!Init
<1>2. MaxModels \in Nat /\ MaxPipelines \in Nat /\ MaxEntries \in Nat /\ Cardinality(Questions) \in Nat
  BY UsingFinite DEF Bench!BoundsAssumption
<1>3. entries \in Seq(AnyEntry) /\ DOMAIN entries = {} /\ Len(entries) = 0 /\ cached \in Seq(DOMAIN entries) /\ Len(cached) = 0
      /\ DOMAIN cached = {}
  BY <1>1
<1>4. calls \in [Questions -> Seq(AnyCall)] /\ \A q \in Questions : Len(calls[q]) = 0 /\ DOMAIN calls[q] = {}
  <2> DEFINE nil == <<>>
  <2>1. nil \in Seq(AnyCall) /\ Len(nil) = 0 /\ DOMAIN nil = {}
    OBVIOUS
  <2>2. calls = [q \in Questions |-> nil]
    BY <1>1
  <2> HIDE DEF nil
  <2> QED
    BY <2>1, <2>2
<1>5. CallsSound(entries, calls)
  BY <1>2, <1>4 DEF CallsSound
<1>6. Pooled(entries, cached)
  <2>1. 0 <= Most
    <3> DEFINE total == MaxModels * Cardinality(Questions)
    <3>1. Most = IF MaxPipelines >= total THEN MaxPipelines ELSE total
      BY DEF Most
    <3>2. total \in Nat
      BY <1>2
    <3> HIDE DEF total
    <3> QED
      BY <1>2, <3>1, <3>2
  <2> QED
    BY <1>3, <2>1 DEF Pooled, Once, Each
<1> QED
  BY <1>1, <1>2, <1>3, <1>5, <1>6 DEF BenchInv, Accounted, Counted, KeptOpen

\* What the invariant says of the model's own properties.
LEMMA BenchSays ==
    ASSUME Bench!BoundsAssumption, BenchInv
    PROVE  Bench!TypeOK /\ Bench!PipelinesAccounted
<1>1. /\ entries \in Seq(AnyEntry) /\ CallsSound(entries, calls) /\ Counted(entries, calls) /\ Pooled(entries, cached)
      /\ running \in BOOLEAN /\ (running => KeptOpen(entries, cached)) /\ Len(entries) <= MaxEntries
  BY DEF BenchInv, Accounted
<1>2. DOMAIN entries = Bench!Entries /\ Len(entries) \in Nat /\ DOMAIN entries = 1 .. Len(entries)
  BY <1>1 DEF Bench!Entries
<1> DEFINE total == MaxModels * Cardinality(Questions)
<1>3. total \in Nat /\ MaxPipelines \in Nat /\ MaxModels \in Nat /\ MaxEntries \in Nat
  <2>1. MaxModels \in Nat /\ MaxPipelines \in Nat /\ Cardinality(Questions) \in Nat /\ MaxEntries \in Nat
    BY UsingFinite DEF Bench!BoundsAssumption
  <2> QED
    BY <2>1
<1>4. \A e \in DOMAIN entries : entries[e].busy \in 0 .. total
  <2> TAKE e \in DOMAIN entries
  <2>1. /\ IsFiniteSet(Questions \X (1 .. MaxModels)) /\ Cardinality(Using(calls, e)) \in Nat
        /\ Cardinality(Questions \X (1 .. MaxModels)) = Cardinality(Questions) * MaxModels
        /\ Cardinality(Questions) \in Nat /\ MaxModels \in Nat
    BY UsingFinite
  <2>2. Using(calls, e) \subseteq Questions \X (1 .. MaxModels)
    BY DEF Using
  <2>3. Cardinality(Using(calls, e)) <= Cardinality(Questions) * MaxModels
    BY <2>1, <2>2, FS_Subset
  <2>4. Cardinality(Questions) * MaxModels = total
    BY <2>1
  <2>5. entries[e].busy = Cardinality(Using(calls, e))
    BY <1>1 DEF Counted
  <2> HIDE DEF total
  <2>6. Cardinality(Using(calls, e)) <= total
    BY <2>3, <2>4
  <2> QED
    BY <1>3, <2>1, <2>5, <2>6
<1>5. entries \in Seq(Bench!Entry)
  <2>1. Bench!Entry = [setting : Models, busy : 0 .. total, pipe : {"starting", "ready", "failed"}, close : {"no", "asked", "closed"}]
    BY BenchCardinality DEF Bench!Entry
  <2> HIDE DEF total
  <2>2. \A e \in DOMAIN entries : entries[e] \in Bench!Entry
    <3> TAKE e \in DOMAIN entries
    <3>1. entries[e] \in AnyEntry /\ entries[e].busy \in 0 .. total
      BY <1>1, <1>4
    <3>2. \A x \in AnyEntry : x.busy \in 0 .. total => x \in Bench!Entry
      BY <2>1 DEF AnyEntry
    <3> QED
      BY <3>1, <3>2
  <2> QED
    BY <1>1, <2>2
<1>6. calls \in [Questions -> Seq(Bench!Call)]
  <2>1. ASSUME NEW q \in Questions PROVE calls[q] \in Seq(Bench!Call)
    <3>1. calls[q] \in Seq(AnyCall) /\ \A i \in DOMAIN calls[q] : calls[q][i].entry \in 0 .. MaxEntries
      <4>1. 0 .. Len(entries) \subseteq 0 .. MaxEntries
        BY <1>1, <1>2, <1>3
      <4> QED
        BY <1>1, <4>1 DEF CallsSound
    <3>2. \A x \in AnyCall : x.entry \in 0 .. MaxEntries => x \in Bench!Call
      BY DEF AnyCall, Bench!Call
    <3>3. \A i \in DOMAIN calls[q] : calls[q][i] \in Bench!Call
      BY <3>1, <3>2
    <3> QED
      BY <3>1, <3>3
  <2>2. calls \in [Questions -> Seq(AnyCall)]
    BY <1>1 DEF CallsSound
  <2> QED
    BY <2>1, <2>2
<1>7. Bench!TypeOK
  <2>1. cached \in Seq(Bench!Entries) /\ Bench!IsInjective(cached)
    BY <1>1, <1>2 DEF Pooled, Once, Bench!IsInjective
  <2> QED
    BY <1>1, <1>5, <1>6, <2>1 DEF Bench!TypeOK
<1>8. Bench!ToSet(cached) = Each(cached)
  BY DEF Bench!ToSet, Each
<1>9. \A e : Bench!Uses(e) = Using(calls, e)
  BY DEF Bench!Uses, Using
<1>10. Bench!Max({MaxPipelines, MaxModels * Bench!Cardinality(Questions)}) = Most
  <2>1. MaxModels * Bench!Cardinality(Questions) = total
    BY BenchCardinality
  <2>2. Most = IF MaxPipelines >= total THEN MaxPipelines ELSE total
    BY DEF Most
  <2> HIDE DEF total
  <2> QED
    BY <1>3, <2>1, <2>2 DEF Bench!Max
<1>11. ASSUME running PROVE Bench!PipelinesAccounted
  <2>1. \A e \in Bench!Entries : /\ entries[e].busy = Bench!Cardinality(Bench!Uses(e))
                                 /\ entries[e].busy > 0 => e \in Bench!ToSet(cached)
                                 /\ e \in Bench!ToSet(cached) <=> entries[e].close = "no"
    BY <1>1, <1>2, <1>8, <1>9, <1>11, BenchCardinality DEF Counted, Pooled, KeptOpen
  <2>2. \A e, f \in Bench!ToSet(cached) : entries[e].setting = entries[f].setting => e = f
    BY <1>1, <1>8 DEF Pooled
  <2>3. Len(cached) <= Bench!Max({MaxPipelines, MaxModels * Bench!Cardinality(Questions)})
    BY <1>1, <1>10 DEF Pooled
  <2> QED
    BY <2>1, <2>2, <2>3 DEF Bench!PipelinesAccounted
<1> QED
  BY <1>7, <1>11 DEF Bench!PipelinesAccounted

(* bench.service.ts: while the process runs, compare() closes or drops no    *)
(* pipeline that a question uses, what it drops is closed, a setting has one *)
(* pipeline, each use is counted whatever fails, and no more are kept than   *)
(* the limit, or than all questions can use at once. (Of                     *)
(* MCFrontEnds!PipelinesAccounted.)                                          *)
THEOREM PipelinesCounted ==
    ASSUME Bench!BoundsAssumption
    PROVE  Bench!Spec => [](Bench!TypeOK /\ Bench!PipelinesAccounted)
<1>1. Bench!Init => BenchInv
  BY BenchInit
<1>2. BenchInv /\ [Bench!Next]_(Bench!vars) => BenchInv'
  BY BenchNext
<1>3. BenchInv => Bench!TypeOK /\ Bench!PipelinesAccounted
  BY BenchSays
<1> QED
  BY <1>1, <1>2, <1>3, PTL DEF Bench!Spec
=============================================================================
