---------------------------- MODULE AskPipeline ----------------------------
(* query/ask.service.ts with query-cache.service.ts and                     *)
(* translator.service.ts: a question becomes SQL, the SQL a result, the     *)
(* result an answer, with two caches, candidates that vote, repairs, a      *)
(* second look by the smart tier, and a recheck of empty results. It runs   *)
(* on the engine and the schema of SchemaReload, which a refresh exchanges  *)
(* meanwhile.                                                               *)
(*                                                                          *)
(* What a model writes is one of Texts or a refusal, for the schema its     *)
(* prompt showed. A query runs if that is the schema of the data; its       *)
(* result is its text and the version of the data, so two texts never       *)
(* agree by chance. Prompts, examples, conversations and wording are left   *)
(* out, and so are the parts of a key that no request here differs in.      *)
EXTENDS SchemaReload, Sequences

CONSTANTS Asks,        \* the clients, each of which asks again and again
          QuestionOf,  \* of each client: its question
          Smart,       \* the clients that ask for the smart tier
          Texts,       \* what a model may write as SQL
          Empty,       \* the texts whose result has no rows
          Wrong,       \* the texts the guard or the database refuses
          MaxRepairs,  \* ASK_MAX_REPAIRS
          Candidates,  \* ASK_SQL_CANDIDATES
          Translated   \* the clients that ask in Urdu, when the schema does not fit into
                       \* the prompt and tables have to be picked

ASSUME AskAssumption == /\ Smart \cup Translated \subseteq Asks
                        /\ Empty \subseteq Texts /\ Wrong \subseteq Texts
                        /\ MaxRepairs \in Nat /\ Candidates \in Nat \ {0}

VARIABLES ask,      \* the request of each client
          sqlTier,  \* the SQL cache
          answers   \* the answer cache

askVars == <<ask, sqlTier, answers>>
vars == <<sourceVars, askVars>>

Refusal == "CANNOT_ANSWER"
NoSql == [text |-> "none", schema |-> "none"]
NoResult == [text |-> "none", version |-> -1]
NoAnswer == [sql |-> NoSql, result |-> NoResult, refused |-> "no"]
Schemas == {SchemaOf[v] : v \in Versions}
Sqls == [text : Texts, schema : Schemas]
Results == [text : Texts, version : Versions]
Answers == [sql : Sqls \cup {NoSql}, result : Results \cup {NoResult}, refused : {"no", "asked", "smart"}]
Keys == Schemas \X {QuestionOf[a] : a \in Asks}
MostRounds == (IF MaxRepairs = 0 THEN 2 ELSE 1 + MaxRepairs) + 1
Done == {"answered", "failed"}
Stages == {"idle", "hash", "context", "cached", "cachedPhrase", "generate", "execute",
                         "recheck", "phrase"} \cup Done

\* A request as it is in progress, and as it ended.
Request == [st : Stages, on : Promises \cup {None}, key : Schemas \cup {"none"},
            shown : Schemas \cup {"none"}, round : 0 .. MostRounds, most : 1 .. MostRounds,
            force : BOOLEAN, tier : {"asked", "smart"},
            drafts : [1 .. Candidates -> Texts \cup {Refusal}]
                       \cup [1 .. 1 -> Texts \cup {Refusal}] \cup {<<>>},
            chosen : Sqls \cup {NoSql}, result : Results \cup {NoResult},
            rechecks : BOOLEAN, skips : BOOLEAN, answer : Answers]

TypeOK == /\ SourceTypeOK
          /\ ask \in [Asks -> Request]
          /\ sqlTier \in [Keys -> Sqls \cup {NoSql}]
          /\ answers \in [Keys -> Answers]

NewAsk(stage) ==
        [st |-> stage, skips |-> FALSE, on |-> None, key |-> "none", shown |-> "none", round |-> 0,
         most |-> 1 + MaxRepairs, force |-> FALSE, tier |-> "asked", drafts |-> <<>>,
         chosen |-> NoSql, result |-> NoResult, rechecks |-> FALSE, answer |-> NoAnswer]

Init == /\ SourceInit
        /\ ask = [a \in Asks |-> NewAsk("idle")]
        /\ sqlTier = [k \in Keys |-> NoSql]
        /\ answers = [k \in Keys |-> NoAnswer]

Key(a) == <<ask[a].key, QuestionOf[a]>>
Goes(a, stage) == ask' = [ask EXCEPT ![a].st = stage, ![a].on = None]
\* Nothing else of a request is kept than its response.
Ends(a, stage, answer) == ask' = [ask EXCEPT ![a] = [NewAsk(stage) EXCEPT !.answer = answer]]
Throws(a) == Ends(a, "failed", NoAnswer) /\ UNCHANGED <<sqlTier, answers>>

Ask(a) == /\ ask[a].st \in {"idle"} \cup Done
          /\ ask' = [ask EXCEPT ![a] = NewAsk("hash")]
          /\ UNCHANGED <<sourceVars, sqlTier, answers>>
-----------------------------------------------------------------------------
(* Reading the schema, and the answer cache *)

\* hash(), contextFor() and, before the first round, snapshot(), of which the
\* prompt only shows the database's name.
Ensures(a) == \/ ask[a].st \in {"hash", "context"}
              \/ ask[a].st = "generate" /\ ask[a].round = 0

\* ensure() without a schema in memory.
AwaitSchema(a) == /\ Ensures(a)
                  /\ ask[a].on = None /\ loaded = None
                  /\ \E i \in Promises : /\ Join(i)
                                         /\ ask' = [ask EXCEPT ![a].on = i]
                  /\ UNCHANGED <<mdf, inode, target, tmp, open, duck, loaded, refresh, faults,
                                 sqlTier, answers>>

SchemaLost(a) == /\ Ensures(a)
                 /\ ask[a].on # None
                 /\ load[ask[a].on].st = "failed"
                 /\ Throws(a)
                 /\ UNCHANGED sourceVars

\* The load whose schema ensure() gives the request.
Ensured(a) == IF ask[a].on # None THEN ask[a].on ELSE loaded
HasSchema(a) == Ensured(a) # None /\ load[Ensured(a)].st = "done"
SchemaFor(a) == SchemaOf[load[Ensured(a)].columns]

\* hash(), then, unless the request says noCache, the answer cache.
Hash(a) ==
    /\ ask[a].st = "hash" /\ HasSchema(a)
    /\ \E noCache \in BOOLEAN :
          LET hit == answers[<<SchemaFor(a), QuestionOf[a]>>]
          IN  IF ~noCache /\ hit # NoAnswer
              THEN Ends(a, "answered", hit)
              ELSE ask' = [ask EXCEPT ![a].key = SchemaFor(a), ![a].skips = noCache,
                                      ![a].on = None, ![a].st = "context"]
    /\ UNCHANGED <<sourceVars, sqlTier, answers>>

\* After contextFor(): the SQL cache, or a new query.
Looks(a) == IF ~ask[a].skips /\ sqlTier[Key(a)] # NoSql THEN "cached" ELSE "generate"

\* contextFor(). When it is read again after a translation only the second
\* reading counts, so a translation is a delay here, and a call that may fail.
Context(a) ==
    /\ ask[a].st = "context" /\ HasSchema(a)
    /\ ask' = [ask EXCEPT ![a].shown = SchemaFor(a), ![a].on = None, ![a].skips = FALSE,
                          ![a].chosen = IF Looks(a) = "cached" THEN sqlTier[Key(a)] ELSE NoSql,
                          ![a].st = Looks(a)]
    /\ UNCHANGED <<sourceVars, sqlTier, answers>>
-----------------------------------------------------------------------------
(* Running SQL *)

Runnable(drafts) == {i \in DOMAIN drafts : drafts[i] # Refusal}
Runs(a, stage) == ask[a].st = stage /\ IsOpen(Given(ask[a].on))

\* readOnlyQuery() asks duckdb() for the engine.
AwaitQuery(a) == /\ \/ ask[a].st = "cached"
                    \/ ask[a].st = "execute" /\ Runnable(ask[a].drafts) # {}
                 /\ ask[a].on = None /\ ~IsOpen(duck)
                 /\ \E o \in Promises : /\ Engine(o)
                                        /\ ask' = [ask EXCEPT ![a].on = o]
                 /\ UNCHANGED <<mdf, target, tmp, load, loading, loaded, refresh, faults, sqlTier, answers>>

DataFor(a) == inode[open[Given(ask[a].on)].file].holds
Succeeds(sql, version) == sql.text \notin Wrong /\ sql.schema = SchemaOf[version]
ResultOf(sql, version) == [text |-> sql.text, version |-> version]

\* The cached SQL has run, or it is generated anew.
RunCached(a) ==
    /\ Runs(a, "cached")
    /\ IF Succeeds(ask[a].chosen, DataFor(a))
       THEN ask' = [ask EXCEPT ![a].st = "cachedPhrase", ![a].on = None,
                               ![a].result = ResultOf(ask[a].chosen, DataFor(a))]
       ELSE ask' = [ask EXCEPT ![a].st = "generate", ![a].on = None, ![a].chosen = NoSql]
    /\ UNCHANGED <<sourceVars, sqlTier, answers>>

\* No engine: not a failure of the SQL, and nothing is tried again for it,
\* unless the SQL came from the cache.
EngineLost(a) ==
    /\ ask[a].st \in {"cached", "execute"}
    /\ ask[a].on # None
    /\ open[ask[a].on].st = "failed"
    /\ IF ask[a].st = "cached"
       THEN /\ ask' = [ask EXCEPT ![a].st = "generate", ![a].on = None, ![a].chosen = NoSql]
            /\ UNCHANGED <<sqlTier, answers>>
       ELSE Throws(a)
    /\ UNCHANGED sourceVars
-----------------------------------------------------------------------------
(* round(): candidates, and the one most agree with *)

SqlOf(a, text) == [text |-> text, schema |-> ask[a].shown]
Ok(a, drafts) == {i \in Runnable(drafts) : Succeeds(SqlOf(a, drafts[i]), DataFor(a))}
Votes(a, drafts, i) == Cardinality({j \in Ok(a, drafts) :
                          ResultOf(SqlOf(a, drafts[j]), DataFor(a)) = ResultOf(SqlOf(a, drafts[i]), DataFor(a))})
\* Ties go to the earliest candidate.
Winners(a, drafts) == {i \in Ok(a, drafts) : \A j \in Ok(a, drafts) :
                          \/ Votes(a, drafts, i) > Votes(a, drafts, j)
                          \/ Votes(a, drafts, i) = Votes(a, drafts, j) /\ i <= j}

IsLast(a) == ask[a].round + 1 = ask[a].most
TierOf(a) == IF ask[a].force \/ (IsLast(a) /\ ask[a].round + 1 > 1) \/ a \in Smart THEN "smart" ELSE "asked"

\* The models' answers of the next round are there.
Generate(a) ==
    /\ ask[a].st = "generate"
    /\ ask[a].round < ask[a].most
    /\ ask[a].round = 0 => HasSchema(a)
    /\ \E drafts \in [1 .. (IF ask[a].round = 0 THEN Candidates ELSE 1) -> Texts \cup {Refusal}] :
          ask' = [ask EXCEPT ![a].round = @ + 1, ![a].tier = TierOf(a), ![a].drafts = drafts,
                             ![a].st = "execute", ![a].on = None]
    /\ UNCHANGED <<sourceVars, sqlTier, answers>>

\* finish(): the response is cached whatever noCache says.
Finish(a, answer) == /\ Ends(a, "answered", answer)
                     /\ answers' = [answers EXCEPT ![Key(a)] = answer]

\* Mutant: a refusal of any tier is the answer.
RefusedAtOnce(a) ==
    /\ ask[a].st = "execute"
    /\ ask[a].on = None
    /\ ~ask[a].rechecks
    /\ Runnable(ask[a].drafts) = {}
    /\ Finish(a, [NoAnswer EXCEPT !.refused = ask[a].tier])
    /\ UNCHANGED <<sourceVars, sqlTier>>

\* A refusal of the cheap tier is worth one look by the smart one, whose own
\* refusal is the answer.
Refused(a) ==
    /\ ask[a].st = "execute"
    /\ ask[a].on = None
    /\ ~ask[a].rechecks
    /\ Runnable(ask[a].drafts) = {}
    /\ IF ask[a].tier # "smart"
       THEN /\ ask' = [ask EXCEPT ![a].st = "generate", ![a].force = TRUE, ![a].drafts = <<>>,
                         ![a].most = IF @ > ask[a].round + 1 THEN @ ELSE ask[a].round + 1]
            /\ UNCHANGED answers
       ELSE Finish(a, [NoAnswer EXCEPT !.refused = ask[a].tier])
    /\ UNCHANGED <<sourceVars, sqlTier>>

\* setSql(), and on to the phrasing.
Settles(a, sql, result) ==
    /\ ask' = [ask EXCEPT ![a] = [NewAsk("phrase") EXCEPT !.key = ask[a].key,
                                                                 !.chosen = sql, !.result = result]]
    /\ sqlTier' = [sqlTier EXCEPT ![Key(a)] = sql]

\* Mutant: an empty recheck is rechecked in its turn.
WonAgain(a) ==
    /\ Runs(a, "execute")
    /\ Ok(a, ask[a].drafts) # {}
    /\ ask' = [ask EXCEPT ![a].st = "recheck", ![a].on = None, ![a].drafts = <<>>]
    /\ UNCHANGED <<sourceVars, sqlTier, answers>>

\* A candidate won: an empty result of a filter or a join is looked at again,
\* anything else is settled.
Won(a) ==
    /\ Runs(a, "execute")
    /\ ~ask[a].rechecks
    /\ \E i \in Winners(a, ask[a].drafts) :
       LET sql == SqlOf(a, ask[a].drafts[i])
       IN  IF sql.text \in Empty
           THEN /\ ask' = [ask EXCEPT ![a].st = "recheck", ![a].on = None, ![a].chosen = sql,
                                      ![a].drafts = <<>>, ![a].result = ResultOf(sql, DataFor(a))]
                /\ UNCHANGED sqlTier
           ELSE Settles(a, sql, ResultOf(sql, DataFor(a)))
    /\ UNCHANGED <<sourceVars, answers>>

\* Mutant: the text is cached before it is known to run.
RoundFailsCached(a) ==
    /\ Runs(a, "execute")
    /\ ~ask[a].rechecks
    /\ Runnable(ask[a].drafts) # {} /\ Ok(a, ask[a].drafts) = {}
    /\ Goes(a, "generate")
    /\ sqlTier' = [sqlTier EXCEPT ![Key(a)] = SqlOf(a, ask[a].drafts[1])]
    /\ UNCHANGED <<sourceVars, answers>>

\* Mutant: a round that failed does not count.
RoundFailsUncounted(a) ==
    /\ Runs(a, "execute")
    /\ ~ask[a].rechecks
    /\ Runnable(ask[a].drafts) # {} /\ Ok(a, ask[a].drafts) = {}
    /\ ask' = [ask EXCEPT ![a].st = "generate", ![a].on = None, ![a].round = @ - 1]
    /\ UNCHANGED <<sourceVars, sqlTier, answers>>

\* Every candidate failed: the last round's failure is the response, and any
\* other is shown to the model.
RoundFails(a) ==
    /\ Runs(a, "execute")
    /\ ~ask[a].rechecks
    /\ Runnable(ask[a].drafts) # {} /\ Ok(a, ask[a].drafts) = {}
    /\ IF ask[a].round = ask[a].most
       THEN Ends(a, "failed", NoAnswer)
       ELSE ask' = [ask EXCEPT ![a].st = "generate", ![a].on = None, ![a].drafts = <<>>]
    /\ UNCHANGED <<sourceVars, sqlTier, answers>>

\* One more round on the smart tier.
Recheck(a) ==
    /\ ask[a].st = "recheck"
    /\ \E text \in Texts \cup {Refusal} :
          ask' = [ask EXCEPT ![a].round = @ + 1, ![a].tier = "smart", ![a].drafts = <<text>>,
                             ![a].rechecks = TRUE, ![a].st = "execute"]
    /\ UNCHANGED <<sourceVars, sqlTier, answers>>

\* It replaces the result only by that of another query that ran; a refusal
\* runs nothing.
Rechecked(a) ==
    /\ ask[a].rechecks
    /\ \/ Runs(a, "execute") /\ Runnable(ask[a].drafts) # {}
       \/ ask[a].st = "execute" /\ ask[a].on = None /\ Runnable(ask[a].drafts) = {}
    /\ LET sql == SqlOf(a, ask[a].drafts[1])
       IN  IF Runnable(ask[a].drafts) # {} /\ sql # ask[a].chosen /\ Succeeds(sql, DataFor(a))
           THEN Settles(a, sql, ResultOf(sql, DataFor(a)))
           ELSE Settles(a, ask[a].chosen, ask[a].result)
    /\ UNCHANGED <<sourceVars, answers>>
-----------------------------------------------------------------------------
(* phrase() and failing models *)

Phrase(a) == /\ ask[a].st \in {"phrase", "cachedPhrase"}
             /\ Finish(a, [sql |-> ask[a].chosen, result |-> ask[a].result, refused |-> "no"])
             /\ UNCHANGED <<sourceVars, sqlTier>>

\* No provider answers: the request fails, but for cached SQL, which is then
\* generated anew.
ModelFails(a) ==
    /\ \/ ask[a].st \in {"generate", "recheck", "phrase", "cachedPhrase"}
       \/ ask[a].st = "context" /\ a \in Translated
    /\ Fails
    /\ IF ask[a].st = "cachedPhrase"
       THEN ask' = [ask EXCEPT ![a].st = "generate", ![a].chosen = NoSql, ![a].result = NoResult]
       ELSE Ends(a, "failed", NoAnswer)
    /\ UNCHANGED <<mdf, inode, target, tmp, open, duck, load, loading, loaded, refresh, sqlTier, answers>>

\* DELETE /query/cache.
Clear == /\ sqlTier' = [k \in Keys |-> NoSql]
         /\ answers' = [k \in Keys |-> NoAnswer]
         /\ answers' # answers
         /\ UNCHANGED <<sourceVars, ask>>

\* An entry's time to live or its place in the cache ends.
Expire(k) == \/ /\ sqlTier[k] # NoSql
                /\ sqlTier' = [sqlTier EXCEPT ![k] = NoSql]
                /\ UNCHANGED <<sourceVars, ask, answers>>
             \/ /\ answers[k] # NoAnswer
                /\ answers' = [answers EXCEPT ![k] = NoAnswer]
                /\ UNCHANGED <<sourceVars, ask, sqlTier>>

AskStep(a) == \/ AwaitSchema(a) \/ SchemaLost(a) \/ Hash(a) \/ Context(a)
              \/ AwaitQuery(a) \/ RunCached(a) \/ EngineLost(a) \/ Generate(a) \/ Refused(a) \/ Won(a)
              \/ RoundFails(a) \/ Recheck(a) \/ Rechecked(a) \/ Phrase(a) \/ ModelFails(a)

\* The engines requests wait for or use.
Used == {ask[a].on : a \in {b \in Asks : ask[b].st \in {"cached", "execute"}}}

Next == \/ SourceStep(Used) /\ UNCHANGED askVars
        \/ \E a \in Asks : Ask(a) \/ AskStep(a)
        \/ Clear
        \/ \E k \in Keys : Expire(k)

Spec == Init /\ [][Next]_vars

(* Fairness: a conversion, an open, a query and a model call end (each has a *)
(* time limit or is finite work), and what awaits a promise goes on when it  *)
(* settles. Nobody has to ask, refresh, clear or replace anything.           *)
SourceProgress == \/ \E o \in Promises : OpenStep(o)
                  \/ \E i \in Promises : LoadStep(i)
                  \/ \E r \in Refreshes : RefreshStep(r)
Fairness == /\ WF_vars(SourceProgress /\ UNCHANGED askVars)
            /\ \A a \in Asks : WF_vars(AskStep(a))
FairSpec == Spec /\ Fairness
-----------------------------------------------------------------------------
(* The SQL cache holds validated SQL: what ran on some version of the data, *)
(* through every repair, recheck and refresh.                               *)
CachedSqlRan == \A k \in Keys : sqlTier[k] # NoSql => sqlTier[k].text \notin Wrong

(* "One smart-tier look is cheaper than a wrong no": nothing is refused, and *)
(* no refusal cached, before the smart tier has looked at it; any other      *)
(* answer, cached ones included, goes with the result of the SQL it shows.   *)
AnswersEarned ==
    \A answer \in {ask[a].answer : a \in Asks} \cup {answers[k] : k \in Keys} :
        /\ answer.refused # "asked"
        /\ answer.sql # NoSql => /\ answer.sql.text = answer.result.text
                                 /\ answer.sql.schema = SchemaOf[answer.result.version]

(* Every question is answered or fails, and so does every refresh: however  *)
(* often opens, loads, queries and rounds fail or are exchanged meanwhile,  *)
(* again and again nobody is kept waiting.                                  *)
QuestionsEnd == []<>(/\ \A a \in Asks : ask[a].st \in {"idle"} \cup Done
                     /\ \A r \in Refreshes : refresh[r].st \notin {"opening", "loading"})
=============================================================================
