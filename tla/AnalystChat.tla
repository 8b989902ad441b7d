---------------------------- MODULE AnalystChat ----------------------------
(* query/analyst: a question answered by an agent that queries the data     *)
(* with tools, several at once, within a budget of steps and of database    *)
(* calls, while its text is streamed to the client; and the cached answer   *)
(* that the same question gets when it is asked again.                      *)
(*                                                                          *)
(* A text is the sequence of its pieces, and a piece is the turn it was     *)
(* written in. The agent is the Agents SDK's Runner, external: it starts a  *)
(* turn's tools together, and the next turn when all have returned. The     *)
(* model's routes are LlmFailover, schema and data are SchemaReload.        *)
EXTENDS Integers, Sequences, FiniteSets

CONSTANTS MaxSteps,   \* AGENT_MAX_STEPS
          MaxQueries, \* AGENT_MAX_QUERIES
          MaxCalls,   \* tool calls the model makes in one turn
          MaxAsks

BoundsAssumption == {MaxSteps, MaxQueries, MaxCalls, MaxAsks} \subseteq Nat \ {0}

VARIABLES step,     \* of the request
          turn,     \* the model's turns so far
          said,     \* the text of this turn
          streamed, \* what streamRun() has sent and not withdrawn
          client,   \* what the client shows
          answer,   \* the response's
          calls,    \* the turn's tool calls
          dbCalls, degraded,
          lacks,    \* what the answer has to do without
          cache,    \* the answer cached for the question
          asks

run == <<turn, said, streamed, calls, dbCalls, degraded, lacks>>
vars == <<step, run, client, answer, cache, asks>>

NoAnswer == [text |-> <<>>, lacks |-> {}]
Phrase == <<0>>             \* PHRASES
LastTurn == MaxSteps + 1    \* the turn without tools
Lacks == {"database", "budget", "steps", "text", "schema"}
CallStates == {"run_sql", "column_values", "column_values_query", "schema", "returned"}
UnderWay == {"turn", "tools", "spent"}

TypeOK ==
    /\ step \in {"idle", "done", "failed"} \cup UnderWay
    /\ turn \in 0 .. MaxSteps
    /\ {said, streamed, client, answer, cache.text} \subseteq Seq(0 .. LastTurn)
    /\ calls \in Seq(CallStates) /\ Len(calls) <= MaxCalls
    /\ dbCalls \in 0 .. MaxQueries
    /\ Cardinality({i \in DOMAIN calls : calls[i] \in {"run_sql", "column_values_query"}}) <= dbCalls
    /\ degraded \in BOOLEAN /\ lacks \subseteq Lacks /\ cache.lacks \subseteq Lacks
    /\ asks \in 0 .. MaxAsks

NewRun(turns) == /\ turn' = turns
                 /\ said' = <<>> /\ streamed' = <<>> /\ calls' = <<>>
                 /\ dbCalls' = 0 /\ degraded' = FALSE /\ lacks' = {}

Init == /\ step = "idle" /\ turn = 0 /\ said = <<>> /\ streamed = <<>> /\ client = <<>> /\ answer = <<>>
        /\ calls = <<>> /\ dbCalls = 0 /\ degraded = FALSE /\ lacks = {}
        /\ cache = NoAnswer /\ asks = 0
-----------------------------------------------------------------------------
(* chat() *)

\* The cached answer is sent as one piece.
Ask == /\ step \notin UnderWay
       /\ asks < MaxAsks
       /\ asks' = asks + 1
       /\ client' = cache.text /\ answer' = cache.text
       /\ \/ cache = NoAnswer /\ step' = "turn" /\ NewRun(1)
          \/ cache # NoAnswer /\ step' = "done" /\ NewRun(0)
       /\ UNCHANGED cache

Expire == /\ cache # NoAnswer
          /\ cache' = NoAnswer
          /\ UNCHANGED <<step, run, client, answer, asks>>

\* The model does not answer, or the client closes its connection, which aborts
\* the run: what its tools still bring changes nothing any more.
Fail == /\ step \in UnderWay
        /\ step' = "failed"
        /\ NewRun(0)
        /\ client' = <<>>
        /\ UNCHANGED <<answer, cache, asks>>
-----------------------------------------------------------------------------
(* streamRun() *)

\* A turn's text, or more of it behind the first of its tool calls.
Delta == /\ \/ step = "turn" /\ said = <<>>
            \/ step = "tools" /\ Len(said) < 2
         /\ said' = Append(said, turn)
         /\ streamed' = Append(streamed, turn)
         /\ client' = Append(client, turn)
         /\ UNCHANGED <<step, turn, calls, dbCalls, degraded, lacks, answer, cache, asks>>

\* Mutant: the final answer is sent behind what was streamed.
ReconcileAppends(final) == client' = IF final = streamed THEN client ELSE client \o final

\* What was streamed gives way to a final answer that differs from it.
Reconcile(final) ==
    client' = CASE final = streamed -> client
                [] final # streamed /\ streamed # <<>> -> final
                [] OTHER -> client \o final

\* Mutant: an answer with too few queries is as good as any.
StopgapsButBudget == Lacks \ {"schema", "budget"}

\* A tool that cannot read the schema throws: the SDK tells the model, and the
\* run does not know.
Stopgaps == Lacks \ {"schema"}

\* What the answer has to do without, and whether the run knows.
Misses(reasons) == /\ lacks' = lacks \cup reasons
                   /\ degraded' = (degraded \/ reasons \cap Stopgaps # {})

\* An empty answer is replaced by a phrase, behind what the client shows.
Answers(final, reasons) ==
    /\ step' = "done"
    /\ IF final # <<>>
       THEN /\ answer' = final
            /\ Reconcile(final)
            /\ Misses(reasons)
       ELSE /\ answer' = Phrase
            /\ client' = IF streamed = <<>> THEN client \o Phrase ELSE Phrase
            /\ Misses(reasons \cup {"text"})
    /\ cache' = IF degraded' THEN cache ELSE [text |-> answer', lacks |-> lacks']
    /\ UNCHANGED <<turn, said, streamed, calls, dbCalls, asks>>

\* A turn without tool calls.
Finish == /\ step = "turn"
          /\ Answers(said, {})

\* Out of steps: one more turn without tools, which is not streamed.
FinishSpent == /\ step = "spent"
               /\ \E final \in {<<>>, <<LastTurn>>} : Answers(final, {"steps"})
-----------------------------------------------------------------------------
(* The tools *)

\* Mutant: the calls of a turn all see the budget that was left before it.
GrantedTogether(sql) == IF dbCalls < MaxQueries THEN sql ELSE {}
\* takeQuery(): each call counts those before it.
Granted(sql) == {i \in sql : dbCalls + Cardinality({j \in sql : j <= i}) <= MaxQueries}

\* The turn's tool calls start in their order, up to their first await: run_sql
\* takes a query of the budget, or returns that it is spent.
CallTools ==
    /\ step = "turn"
    /\ \E n \in 1 .. MaxCalls : \E wanted \in [1 .. n -> {"run_sql", "column_values", "schema"}] :
          LET sql == {i \in 1 .. n : wanted[i] = "run_sql"}
              granted == Granted(sql)
          IN  /\ calls' = [i \in 1 .. n |-> IF i \in sql \ granted THEN "returned" ELSE wanted[i]]
              /\ dbCalls' = dbCalls + Cardinality(granted)
              /\ Misses(IF granted = sql THEN {} ELSE {"budget"})
    /\ step' = "tools"
    /\ streamed' = <<>>
    /\ client' = IF streamed = <<>> THEN client ELSE <<>>
    /\ UNCHANGED <<turn, said, answer, cache, asks>>

Returns(i) == /\ calls' = [calls EXCEPT ![i] = "returned"]
              /\ UNCHANGED <<step, turn, said, streamed, client, answer, cache, asks>>

\* column_values has found its column and takes a query too.
Look(i) == /\ step = "tools" /\ calls[i] = "column_values"
           /\ \/ /\ dbCalls < MaxQueries
                 /\ dbCalls' = dbCalls + 1
                 /\ calls' = [calls EXCEPT ![i] = "column_values_query"]
                 /\ UNCHANGED <<step, turn, said, streamed, client, answer, cache, asks, degraded, lacks>>
              \/ /\ dbCalls = MaxQueries
                 /\ Misses({"budget"})
                 /\ Returns(i)
                 /\ UNCHANGED dbCalls

\* A query has run or failed, the tables were described, or there is no such
\* column: the model can make up for what went wrong.
Return(i) == /\ step = "tools" /\ calls[i] # "returned"
             /\ Returns(i)
             /\ UNCHANGED <<dbCalls, degraded, lacks>>

DatabaseDown(i) == /\ step = "tools" /\ calls[i] \in {"run_sql", "column_values_query"}
                   /\ Misses({"database"})
                   /\ Returns(i)
                   /\ UNCHANGED dbCalls

SchemaDown(i) == /\ step = "tools" /\ calls[i] \in {"column_values", "schema"}
                 /\ Misses({"schema"})
                 /\ Returns(i)
                 /\ UNCHANGED dbCalls

NextTurn == /\ step = "tools"
            /\ \A i \in DOMAIN calls : calls[i] = "returned"
            /\ calls' = <<>> /\ said' = <<>>
            /\ IF turn < MaxSteps THEN step' = "turn" /\ turn' = turn + 1
                                  ELSE step' = "spent" /\ UNCHANGED turn
            /\ UNCHANGED <<streamed, dbCalls, degraded, lacks, client, answer, cache, asks>>

RunStep == \/ Finish \/ FinishSpent \/ CallTools \/ NextTurn \/ Fail
           \/ \E i \in DOMAIN calls : Look(i) \/ Return(i) \/ DatabaseDown(i) \/ SchemaDown(i)

Next == Ask \/ Expire \/ Delta \/ RunStep

Spec == Init /\ [][Next]_vars
Fairness == WF_vars(RunStep)
-----------------------------------------------------------------------------
(* "Whatever was streamed is reconciled with the final answer": when the    *)
(* response arrives, the client shows its text, once and nothing else,      *)
(* whichever turns had written text before, between or behind their calls.  *)
ClientSeesAnswer == step = "done" => client = answer /\ answer # <<>>

(* "A stopgap answer must not be replayed to a retry": the cached answer    *)
(* had its queries, its steps and a database that answered. (That a tool    *)
(* could not read the schema is not known to the run: such an answer is     *)
(* cached.)                                                                 *)
StopgapNotCached == cache.lacks \subseteq {"schema"}

(* Every question is answered or fails, for tools that return.              *)
Ended == step \notin UnderWay
=============================================================================
