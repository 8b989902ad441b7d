------------------------------ MODULE EvalScoring -----------------------------
(* The evaluation of eval/, beside its runs (BenchRuns). From runner.ts,    *)
(* dataset.ts, engine.ts, pipeline.ts and cli.ts: which cases are asked,    *)
(* with which settings, and what a reply is worth; a result is a name, and  *)
(* two match as ResultComparison says, here a reason for each. From         *)
(* metrics.ts and the web bench's lib/stats.ts: what is said of the models  *)
(* from the results of their runs; the two count on their own, the server   *)
(* for its report, the page for its matrix and estimates.                   *)
(*                                                                          *)
(* A run's result is [id, variant, repeat, verdict, rescued]: the verdict of*)
(* one that ended in a provider error is "lost". Rates are pairs of counts. *)
EXTENDS Integers, Sequences, FiniteSets, SequencesExt, FiniteSetsExt

Scored(results) == SelectSeq(results, LAMBDA r : r.verdict # "lost")
Correct(results) == SelectSeq(results, LAMBDA r : r.verdict = "correct")
Ids(results) == {results[k].id : k \in DOMAIN results}
OfCase(results, id) == SelectSeq(results, LAMBDA r : r.id = id)
OfVariant(results, v) == SelectSeq(results, LAMBDA r : r.variant = v)
pct(results) == <<Len(Correct(results)), Len(results)>>

percentile(values, p) ==
    LET sorted == SortSeq(values, <)  n == Len(values)
        ceil == (p * n + 99) \div 100
    IN  IF n = 0 THEN 0 ELSE sorted[Min({n, Max({1, ceil})})]

\* Of one variant. A case nobody scored does not count.
summarize(all) ==
    LET results == Scored(all)
        cases == Ids(results)
        repeats == {all[k].repeat : k \in DOMAIN all}
        verdicts(id) == {OfCase(results, id)[k].verdict : k \in DOMAIN OfCase(results, id)}
        ofRepeat(k) == SelectSeq(results, LAMBDA r : r.repeat = k)
        first == SelectSeq(Correct(results), LAMBDA r : ~r.rescued)
    IN  [cases |-> Cardinality(cases),
         infraErrors |-> Len(all) - Len(results),
         perRepeat |-> [k \in {j \in repeats : ofRepeat(j) # <<>>} |-> pct(ofRepeat(k))],
         passAtK |-> Cardinality({id \in cases : "correct" \in verdicts(id)}),
         passAllK |-> Cardinality({id \in cases : verdicts(id) = {"correct"}}),
         stable |-> Cardinality({id \in cases : Cardinality(verdicts(id)) = 1}),
         firstTry |-> <<Len(first), Len(results)>>,
         rescued |-> Len(Correct(results)) - Len(first),
         byCase |-> [id \in cases |-> pct(OfCase(results, id))]]

\* The majority counts a lost run as one that was not correct.
Majority(rate) == rate[1] * 2 > rate[2]
flips(baseline, other, results) ==
    LET a == OfVariant(results, baseline)  b == OfVariant(results, other)
        ok(of, id) == Majority(pct(OfCase(of, id)))
    IN  {<<id, IF ok(b, id) THEN "fixed" ELSE "broken">> :
            id \in {i \in Ids(a) \cap Ids(b) : ok(a, i) # ok(b, i)}}

\* One row of the page's matrix: of each variant, its scored runs of a case.
Cell(results, id, v) == pct(Scored(OfCase(OfVariant(results, v), id)))
caseMatrix(results, variants) ==
    LET verdicts(id) == {Majority(Cell(results, id, v)) : v \in {w \in variants : Cell(results, id, w)[2] > 0}}
    IN  [id \in Ids(results) |-> [cells |-> [v \in variants |-> Cell(results, id, v)],
                                  disagree |-> Cardinality(verdicts(id)) > 1,
                                  allWrong |-> verdicts(id) = {FALSE}]]

\* Of points [cost, accuracy], the ones on the front, cheapest first.
pareto(points) ==
    LET order == SetToSortSeq(DOMAIN points, LAMBDA i, j :
                    \/ points[i].cost < points[j].cost
                    \/ points[i].cost = points[j].cost /\ points[i].accuracy > points[j].accuracy
                    \/ points[i] = points[j] /\ i < j)
    IN  SelectSeq(order, LAMBDA p : \A k \in DOMAIN order :
                              (\E j \in DOMAIN order : order[j] = p /\ k < j) => points[order[k]].accuracy < points[p].accuracy)

\* A price is [prompt, cached, completion], each maybe unknown (-1).
Unknown == -1
perCase(usage, info) ==
    IF Unknown \in {info.prompt, info.completion} THEN Unknown
    ELSE (usage.prompt - usage.cached) * info.prompt + usage.completion * info.completion
         + usage.cached * (IF info.cached = Unknown THEN info.prompt ELSE info.cached)
estimateCost(models, usage, caseRuns) ==
    LET perModel == [m \in DOMAIN models |-> IF perCase(usage, models[m]) = Unknown THEN Unknown
                                             ELSE caseRuns * perCase(usage, models[m])]
    IN  IF \E m \in DOMAIN models : perModel[m] = Unknown THEN Unknown
        ELSE SumFunction(perModel)
-----------------------------------------------------------------------------
(* What the report and the page say of the same results agrees: every       *)
(* scored run is counted once on both sides, a case solved every time was   *)
(* solved some time, and the two name the same cases as changed when no run *)
(* was lost to a provider.                                                  *)
MetricsAgree(results, variants) ==
    LET summary(v) == summarize(OfVariant(results, v))
        matrix == caseMatrix(results, variants)
        lost == {k \in DOMAIN results : results[k].verdict = "lost"}
    IN  /\ \A v \in variants :
              LET s == summary(v) IN
              /\ \A id \in DOMAIN s.byCase : matrix[id].cells[v] = s.byCase[id]
              /\ SumFunction([k \in DOMAIN s.perRepeat |-> s.perRepeat[k][2]]) + s.infraErrors = Len(OfVariant(results, v))
              /\ s.passAllK <= s.passAtK /\ s.passAtK <= s.cases
              /\ s.stable >= s.passAllK + (s.cases - s.passAtK)
              /\ s.firstTry[1] + s.rescued = SumFunction([k \in DOMAIN s.perRepeat |-> s.perRepeat[k][1]])
        /\ \A a, b \in variants : lost = {} /\ a # b =>
              {f[1] : f \in flips(a, b, results)} \subseteq {id \in DOMAIN matrix : matrix[id].disagree}
        /\ \A id \in DOMAIN matrix : ~(matrix[id].disagree /\ matrix[id].allWrong)

(* At least p per cent of the values are at most the percentile, and it is  *)
(* the least such value.                                                    *)
PercentileHolds(values, p) ==
    LET reached(v) == 100 * Len(SelectSeq(values, LAMBDA x : x <= v)) >= p * Len(values)
    IN  values # <<>> => /\ percentile(values, p) \in Range(values)
                         /\ reached(percentile(values, p))
                         /\ \A v \in Range(values) : reached(v) => percentile(values, p) <= v

(* A model is off the front only when another is as cheap and as accurate,  *)
(* and no two on it are such that one beats the other.                      *)
ParetoHolds(points) ==
    LET front == Range(pareto(points))
        beats(p, q) == points[p].cost <= points[q].cost /\ points[p].accuracy >= points[q].accuracy
    IN  /\ \A q \in DOMAIN points \ front : \E p \in front : beats(p, q)
        /\ \A p, q \in front : beats(p, q) => p = q
-----------------------------------------------------------------------------
(* A case: its reasons to be wrong *)

Mismatches == {"row_count", "missing_column", "values", "order", "no_result"}
Refusals == {"false_refusal", "missed_refusal"}
Category(reason) ==
    CASE reason \in {"row_count", "no_result"} -> "wrong_rows" [] reason = "missing_column" -> "wrong_columns"
      [] reason = "values" -> "wrong_values" [] OTHER -> "wrong_order"
-----------------------------------------------------------------------------
(* The dataset: the cases, the reference query for each engine, the choice. *)

ValidCase(c) == c.expect = "refusal" \/ c.gold # "none"
ValidDataset(cases) == /\ Len(cases) > 0
                       /\ \A i \in DOMAIN cases : ValidCase(cases[i])
                       /\ \A i, j \in DOMAIN cases : cases[i].id = cases[j].id => i = j

goldFor(c, engine) == IF engine = "duckdb" /\ c.goldDuckdb # "none" THEN c.goldDuckdb ELSE c.gold
\* wanted or filter are empty when not given.
selectCases(cases, filter, wanted) ==
    SelectSeq(cases, LAMBDA c : /\ wanted = {} \/ c.id \in wanted
                                /\ filter = {} \/ ({c.id} \cup c.tags) \cap filter # {})

\* Of each case with a reference query: its result and what is wrong with it.
computeGold(cases, engine, db) ==
    [c \in {cases[i] : i \in {k \in DOMAIN cases : goldFor(cases[k], engine) # "none"}} |->
        LET r == db[goldFor(c, engine)]
        IN  [result |-> r, problem |-> IF r = "fails" THEN "failed" ELSE IF r = "cut" THEN "truncated"
                                       ELSE IF r = "empty" THEN "empty" ELSE "none"]]
-----------------------------------------------------------------------------
(* Settings: a variant's over the run's over the process's; features only.  *)

evalBaseEnv(env) == [env EXCEPT !.cache = "off", !.examples = "none"]
ABLATION == [baseline |-> [hints |-> "off", recheck |-> "off", fewshot |-> "0", candidates |-> "1"],
             valueHints |-> [hints |-> "on", recheck |-> "off", fewshot |-> "0"],
             emptyRecheck |-> [hints |-> "off", recheck |-> "on", fewshot |-> "0"],
             fewShot |-> [hints |-> "off", recheck |-> "off", fewshot |-> "3", examples |-> "dataset"],
             vote3 |-> [hints |-> "off", recheck |-> "off", fewshot |-> "0", candidates |-> "3"]]
settings(overrides, env) == LET base == evalBaseEnv(env)
                            IN  [k \in DOMAIN base |-> IF k \in DOMAIN overrides THEN overrides[k] ELSE base[k]]
\* The pipeline on the command line is for variants that pick none.
pipelineOf(overrides, given) == IF "pipeline" \in DOMAIN overrides THEN overrides.pipeline ELSE given
-----------------------------------------------------------------------------
(* The score: a reply fails, or shows results; each matches or says why not. *)

isTransient(error) == error.message \in {"limited", "outage", "timeout", "dropped"}
errorCategory(error) ==
    CASE error.code = "SQL_ERROR" -> "sql_error" [] error.code = "UNSAFE_SQL" -> "unsafe_sql"
      [] error.code \in {"LLM_ERROR", "LLM_UNAVAILABLE"} /\ isTransient(error) -> "llm_error" [] OTHER -> "other_error"

Score(verdict, category, shown) == [verdict |-> verdict, category |-> category, shown |-> shown]

runCase(c, reply) ==
    LET hits == {i \in DOMAIN reply.shown : reply.shown[i] = "match"}
        hit == CHOOSE i \in hits : \A j \in hits : i <= j
    IN  IF reply.failed THEN Score("error", errorCategory(reply.error), 0)
        ELSE IF c.expect = "refusal"
             THEN IF reply.shown = <<>> THEN Score("correct", "correct", 0) ELSE Score("wrong", "missed_refusal", 1)
        ELSE IF reply.shown = <<>> THEN Score("wrong", "false_refusal", 0)
        ELSE IF hits # {} THEN Score("correct", "correct", hit)
        ELSE Score("wrong", Category(reply.shown[1]), 1)

\* Only the lines of an answer outside its tables are judged, unless there are
\* none: lines are <<is a table row, language>>.
answerLanguageOk(c, lines) ==
    LET prose == SelectSeq(lines, LAMBDA l : ~l[1])
        judged == IF prose = <<>> THEN lines ELSE prose
    IN  judged[1][2] = c.language

\* A provider's trouble is waited out three times before it is recorded; tried
\* is what each attempt brings.
recorded(c, tried) ==
    LET good == {i \in 1 .. 4 : runCase(c, tried[i]).category # "llm_error"}
    IN  runCase(c, tried[IF good = {} THEN 4 ELSE CHOOSE i \in good : \A j \in good : i <= j])
-----------------------------------------------------------------------------
\* A case counts as correct exactly if one of the results shown is the
\* reference's, or nothing was shown and nothing should be; nothing a provider
\* does for up to three attempts changes a score, and an error is
\* infrastructure, which accuracy leaves out, only if all four attempts were
\* (runner.ts, engine.ts).
ScoreHolds(c, tried) ==
    LET s == recorded(c, tried)
        answered == {i \in 1 .. 4 : ~(tried[i].failed /\ errorCategory(tried[i].error) = "llm_error")}
        last == tried[CHOOSE i \in answered : \A j \in answered : i <= j]
    IN  /\ s.verdict = "correct" <=> s.category = "correct"
        /\ s.category \in Refusals => s.verdict = "wrong"
        /\ s.category = "llm_error" <=> answered = {}
        /\ answered # {} /\ ~last.failed =>
              (s.verdict = "correct" <=> IF c.expect = "refusal" THEN last.shown = <<>>
                                         ELSE \E i \in DOMAIN last.shown : last.shown[i] = "match")
        /\ s.verdict = "correct" /\ c.expect = "result" => last.shown[s.shown] = "match"

\* Every case of a valid dataset has a reference for either engine or expects
\* none, a run is refused when a reference is missing, cut or empty, and a
\* filter never brings a case in twice or out of order (dataset.ts, engine.ts,
\* cli.ts).
DatasetHolds(cases, filter, wanted, engine, db) ==
    LET chosen == selectCases(cases, filter, wanted)
        gold == computeGold(chosen, engine, db)
    IN  ValidDataset(cases) =>
          /\ \A i \in DOMAIN chosen : chosen[i].expect = "result" => chosen[i] \in DOMAIN gold
          /\ (\A c \in DOMAIN gold : gold[c].problem = "none") =>
               \A i \in DOMAIN chosen : chosen[i].expect = "result" => gold[chosen[i]].result = "rows"
          /\ \A i, j \in DOMAIN chosen : i < j =>
               \E k, l \in DOMAIN cases : k < l /\ cases[k] = chosen[i] /\ cases[l] = chosen[j]

\* An ablation's variant differs from the bare baseline in its own feature
\* alone, when the settings the process runs with vote over one candidate
\* (cli.ts: only two variants set the candidates themselves).
AblationHolds(env) ==
    LET differ(v) == {k \in DOMAIN env : settings(ABLATION[v], env)[k] # settings(ABLATION.baseline, env)[k]}
    IN  env.candidates = "1" => /\ differ("valueHints") = {"hints"} /\ differ("emptyRecheck") = {"recheck"}
                                /\ differ("fewShot") = {"fewshot", "examples"} /\ differ("vote3") = {"candidates"}
=============================================================================
