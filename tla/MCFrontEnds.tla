----------------------------- MODULE MCFrontEnds -----------------------------
(* The parts of the program beside the store, the scheduler, the failover,   *)
(* the runs and the ask pipeline, each on a small instance of its own. They  *)
(* share no state in the program, and none here: a behaviour is of one       *)
(* machine, chosen at the start, whose variables v1, v2, ... are. The        *)
(* algorithms without state are the machine "input", which takes no step.    *)
EXTENDS Integers, Sequences, FiniteSets

(* The inputs over which the algorithms are checked against what they are   *)
(* for. An input is a tuple that begins with the name of its kind.          *)

Compare == INSTANCE ResultComparison
Scoring == INSTANCE EvalScoring
Chart == INSTANCE ChartChoice WITH
    MAX_SERIES <- 1, MAX_GROUPED <- 1, MAX_POINTS <- 3, MAX_BARS <- 2, MAX_DONUT <- 2,
    COLUMNS_MAX <- 1, COLUMNS_PREFERRED_MAX <- 2
Decoding == INSTANCE MdfDecoding WITH MicroDigits <- 1, DayMicros <- 30, MaxDepth <- 2
Templates == INSTANCE ReportTemplates
Media == INSTANCE MediaQuestion
Context == INSTANCE SchemaContext WITH
    Akin <- {<<"sale", "sales">>, <<"sales", "sale">>}, Private <- {"phone"}, NoteWords <- {"figure"},
    Limit <- 1, MaxChars <- 4, MinBudget <- 1, MaxDistinct <- 2, MaxColumns <- 2, MaxTableRows <- 3
Messages == INSTANCE WhatsAppMessages WITH PAGE <- 9, MaxText <- 4096, CutAt <- 4000
Forms == INSTANCE ScheduleForm
Setup == INSTANCE ServerSetup
Provider == INSTANCE ProviderRequest
Markdown == INSTANCE AnswerText

UpTo(n, S) == UNION {[1 .. k -> S] : k \in 0 .. n}
From1To(n, S) == UpTo(n, S) \ {<<>>}
-----------------------------------------------------------------------------
(* Results, metrics and charts *)

TablesOf(cells) == UpTo(2, [1 .. 2 -> cells])
CompareInputs ==
    {<<"results", g, p, o>> : g \in TablesOf({Compare!Null, Compare!Num(0), Compare!Num(3)}),
                              p \in TablesOf({Compare!Null, Compare!Num(1), Compare!Num(3)}), o \in BOOLEAN}
    \cup {<<"shown", q>> : q \in UNION {[1 .. n -> [title : {1, 2}, ok : BOOLEAN, display : BOOLEAN,
                                                    empty : BOOLEAN, replaces : 0 .. n]] : n \in 1 .. 2}}

\* Two runs of one case and one run of another, by two models.
Runs == ({"q1"} \X {"a", "b"} \X {0, 1}) \cup ({"q2"} \X {"a", "b"} \X {0})
Result(r, v) == [id |-> r[1], variant |-> r[2], repeat |-> r[3], verdict |-> v, rescued |-> r[3] = 1]
Results(graded) == LET S == Scoring!SetToSeq(DOMAIN graded) IN [i \in DOMAIN S |-> Result(S[i], graded[S[i]])]
MetricsInputs ==
    {<<"runs", g>> : g \in UNION {[S -> {"correct", "wrong", "lost"}] : S \in SUBSET Runs}}
    \cup {<<"times", t, p>> : t \in UpTo(4, 1 .. 3), p \in {30, 50, 95, 100}}
    \cup {<<"points", q>> : q \in UpTo(3, [cost : 1 .. 3, accuracy : 1 .. 3])}

Table(names, rows) == {[names |-> names, rows |-> r] : r \in rows}
Cells(n) == {Chart!Num(k) : k \in n}
Words(n) == {Chart!Text(k) : k \in n}
Charted ==
    Table(<<"label", "label", "amount">>, From1To(3, Words(1 .. 2) \X Words(4 .. 6) \X Cells({1, 2})))
    \cup Table(<<"month", "label", "amount">>, From1To(3, Cells(1 .. 2) \X Words(4 .. 6) \X Cells({-1, 2})))
    \* Rows that share a cell.
    \cup Table(<<"month", "label", "amount">>, [1 .. 4 -> Cells(1 .. 2) \X Words(4 .. 5) \X Cells({2})])
    \cup Table(<<"label", "label", "amount">>, [1 .. 4 -> Words(1 .. 2) \X Words(4 .. 5) \X Cells({2})])
    \cup Table(<<"label", "amount", "share">>, From1To(3, Words(1 .. 2) \X Cells({1, 3}) \X Cells({25, 75})))
    \cup Table(<<"label", "amount", "id">>, From1To(3, Words(1 .. 2) \X (Cells({-1, 30}) \cup {Chart!Null}) \X Cells({7})))
    \cup Table(<<"year", "amount", "amount">>, From1To(3, Cells({23, 24}) \X Cells({0, 3}) \X Cells({1, 40})))
Asked == {<<TRUE, "auto">>, <<FALSE, "auto">>, <<FALSE, "line">>, <<FALSE, "stacked">>, <<TRUE, "donut">>}
ChartInputs == {<<"chart", r, a[1], a[2]>> : r \in Charted, a \in Asked}
-----------------------------------------------------------------------------
(* The data file *)

RecordInputs == [before : {<<>>, <<255>>}, type : {0, 2}, fixed : {<<>>, <<1, 2>>}, nulls : SUBSET {1, 2, 9},
                 columnCount : {2, 9}, var : UpTo(2, [data : {<<>>, <<7>>, <<8, 9>>}, complex : BOOLEAN])]
LobInputs == {[size |-> 4, cuts |-> c, grouped |-> g] : c \in SUBSET (1 .. 3), g \in SUBSET (1 .. 4)}
TimeInputs == {t \in [day : 0 .. 2, lastDay : {2}, ticks : 0 .. 40 \cup 280 .. 299, scale : 0 .. 2] :
                  t.ticks < 3 * 10^t.scale}
TypeInputs == [xtype : {34, 35, 36, 40, 41, 42, 43, 48, 52, 56, 58, 59, 60, 61, 62, 98, 99, 104, 106, 108, 122, 127, 165, 167, 173,
                        175, 189, 231, 239, 241}, precision : {0, 1, 9, 10, 19, 28, 29, 38},
               scale : {0, 3}, value : {<<>>, <<1, 2>>}]
NumberInputs == [unscaled : {-120, -7, 0, 5, 10, 999, 1000}, scale : 0 .. 4, literal : {0, 1, 3, 4, 8, 10, 25, 40, 60, 125}]
DecodingInputs ==
    {<<"record", i>> : i \in {r \in RecordInputs : r.nulls \subseteq 1 .. r.columnCount}}
    \cup {<<"lob", i>> : i \in {l \in LobInputs : \A g \in l.grouped : g <= Cardinality(l.cuts) + 1}}
    \cup {<<"moment", i>> : i \in TimeInputs} \cup {<<"type", i>> : i \in TypeInputs}
    \cup {<<"number", i>> : i \in NumberInputs}
    \cup {<<"rows", a, b>> : a \in UpTo(3, 1 .. 3), b \in UpTo(3, 1 .. 3)}

Column(kind, name) == [kind |-> kind, name |-> name, nullable |-> TRUE]
Columns3(kinds) == [c \in 1 .. 3 |-> Column(kinds[c], <<"a", "b", "c">>[c])]
Parent(kinds, pk, included, shipped, compressed) ==
    [name |-> "t1", shipped |-> shipped, heap |-> FALSE, compressed |-> compressed, columns |-> Columns3(kinds),
     pk |-> pk, included |-> included, fks |-> <<>>]
Child(fks) == [name |-> "t2", shipped |-> FALSE, heap |-> TRUE, compressed |-> FALSE,
               columns |-> <<Column("stored", "a"), Column("dropped", "d"), Column("stored", "b")>>, pk |-> <<>>, included |-> {}, fks |-> fks]
PrimaryKeys(kinds) == {k \in UpTo(2, {c \in 1 .. 3 : kinds[c] # "dropped"}) : Len(k) = 2 => k[1] # k[2]}
References(pk) == {<<>>} \cup IF pk = <<>> THEN {} ELSE {<<[from |-> f, table |-> 1, to |-> pk]>> : f \in {g \in [DOMAIN pk -> {1, 3}] : Len(pk) = 2 => g[1] # g[2]}}
CatalogInputs ==
    UNION {{<<"catalog", <<Parent(ks, pk, i, s, z), Child(f)>>, e, d>> :
              f \in References(pk), i \in SUBSET ({c \in 1 .. 3 : ks[c] # "dropped"} \ {pk[k] : k \in DOMAIN pk}),
              s \in BOOLEAN, z \in BOOLEAN, e \in {{}, {"t1"}}, d \in {{}, {"a"}}}
           : <<ks, pk>> \in UNION {{ks} \X PrimaryKeys(ks) : ks \in {k \in [1 .. 3 -> {"stored", "computed", "dropped"}] : k[1] = "stored"}}}
-----------------------------------------------------------------------------
(* The server's questions, reports and messages *)

\* Two winters, the second after a leap year.
Days == {Templates!DateOf(n) : n \in Templates!DayNumber(<<2023, 12, 20>>) .. Templates!DayNumber(<<2025, 1, 5>>)}
Param(name, type, default, min, max) == [name |-> name, type |-> type, default |-> default, min |-> min, max |-> max]
Params == {Param("from", "date", Templates!Word("prev_month_start"), 0, 0),
           Param("to", "date", Templates!Word("prev_month_end"), 0, 0),
           Param("days", "number", Templates!Given("number", 30, <<>>, TRUE), 1, 60)}
Values == {Templates!Word("today")}
          \cup {Templates!Given(g[1], g[2], g[3], g[4]) :
                   g \in {<<"today", 0, <<>>, FALSE>>, <<"iso", 0, <<2024, 2, 29>>, TRUE>>, <<"iso", 0, <<2023, 2, 29>>, TRUE>>,
                          <<"relative", -7, <<>>, TRUE>>, <<"number", 5, <<>>, TRUE>>, <<"number", 61, <<>>, TRUE>>,
                          <<"blank", 0, <<>>, TRUE>>, <<"other", 0, <<>>, TRUE>>}}
Part(name, sign, n, by) == [name |-> name, sign |-> sign, n |-> n, by |-> by]
Parts == <<Part("from", 0, 0, ""), Part("to", 1, 1, ""), Part("now", -1, 0, "days"), Part("days", 0, 0, ""),
           Part("days", 1, 1, ""), Part("absent", 0, 0, "")>>
Dialects == {"tsql", "duckdb"}
Written == [sql : {{}, {"tsql"}, Dialects}, sqlDuckdb : {{}, {"duckdb"}}, dialect : {""}, question : BOOLEAN, summary : BOOLEAN]
           \cup UNION {[sql : {{d}, Dialects}, sqlDuckdb : {{}}, dialect : {d}, question : BOOLEAN, summary : BOOLEAN] : d \in Dialects}
TemplateInputs ==
    {<<"word", d>> : d \in Days}
    \cup {<<"params", g, d>> : g \in UNION {[D -> Values] : D \in {n \in SUBSET {"from", "to", "days", "odd"} : Cardinality(n) <= 2}},
                               d \in {<<2024, 1, 1>>, <<2024, 3, 31>>}}
    \cup {<<"template", t, d, v, w, m>> : t \in Written, d \in Dialects, v \in {<<>>, [x |-> 1]}, w \in BOOLEAN, m \in BOOLEAN}

Said(words, language) == [says |-> words, in |-> language]
Spoken(words, language) == Media!Reply(Said(words, language), 3)
Gemini == {Media!Fault("error"), Spoken("g", "ur"), Media!Reply(Media!Silent, 2)}
OpenAi == {Media!Fault("error"), Spoken("o", "hi"), Spoken("o", "ur"), Media!Reply(Media!NoText, 4)}
Vision == [readable : BOOLEAN, question : {Media!NoText, Said("q", "en")}, display : {Media!NoText},
           written : {Media!NoText, Said("w", "ur")}, language : {"ur"}, tokens : {7}]
MediaReplies == [gemini : (Gemini \cup {Media!Fault("refused")}) \X {Media!Fault("error"), Spoken("g", "ur")},
                 openai : OpenAi \X {Media!Fault("error"), Spoken("p", "ur")}, vision : Vision]
MediaInputs ==
    {<<"media", t, l, a, i, r, o>> : t \in {Media!NoText, Said("t", "en")}, l \in {"auto", "ur"}, a \in BOOLEAN, i \in BOOLEAN, r \in MediaReplies,
        o \in {Media!transcribers(keys, "gemini") : keys \in {{"gemini"}, {"openai", "gemini"}}}}
    \cup {<<"language", l, w>> : l \in {<<8, 0>>, <<8, 2>>, <<8, 3>>, <<8, 5>>, <<0, 0>>}, w \in UpTo(2, {1, 4} \X BOOLEAN \X BOOLEAN)}

Object(k, name, view) == [object |-> k, id |-> k, name |-> name, view |-> view, digits |-> k]
OneColumn(object, name, short) == [object |-> object, name |-> name, short |-> short, identity |-> FALSE]
Databases ==
    {[objects |-> [k \in 1 .. 3 |-> Object(k, names[k], k = view)], pks |-> pk, fks |-> fk,
      columns |-> [k \in 1 .. 3 |-> OneColumn(k, {"code"}, k # 2)] \o <<OneColumn(1, c, TRUE)>>] :
        view \in {0, 2}, names \in [1 .. 3 -> {{"sale"}, {"sale", "line"}, {"town"}}], pk \in {{<<1, {"code"}>>}},
        fk \in {<<>>, <<<<1, {"code"}, 3>>, <<2, {"code"}, 1>>>>}, c \in {{"phone"}, {"figure"}}}
SchemaConfigs == {[include |-> {}, exclude |-> e, deny |-> d, notes |-> n] :
                     e \in {{}, {3}}, d \in {{{"phone"}}}, n \in {{}, {<<2>>, <<1, {"code"}>>}}}
Sampled == {[at \in (1 .. 3) \X {{"code"}, {"phone"}, {"sale"}, {"figure"}} |-> v] :
               v \in {<<"code", "personal">>, <<"fails">>, <<"code", "long", "code">>}}
ContextInputs == {<<"schema", db, cfg, v, q>> : db \in Databases, cfg \in SchemaConfigs, v \in Sampled,
                                                q \in {{"sales"}, {"sale", "line"}, {"code", "town"}}}

Shown == [rowCount : {0, 1, 7, 12}, columns : {1, 3}, chars : {200}]
MessageInputs ==
    {<<"menu", n>> : n \in 0 .. 30}
    \cup {<<"send", c, l, t, w, r, m, f>> : c \in BOOLEAN, l \in {0, 10}, t \in Messages!Replies, w \in BOOLEAN,
              r \in Messages!Replies, m \in {-1, 0, 5, 9}, f \in {-1, 0, 5, 9}}
    \cup {<<"message", t, n, a, s>> : t \in {0, 20}, n \in {0, 100}, a \in {0, 90, 3950, 5000}, s \in UpTo(2, Shown)}

AnswerLines == {{}, {"fence"}, {"heading"}, {"rule", "delimiter"}, {"pipe", "words"}, {"pipe", "delimiter"}, {"bullet"},
                {"bullet", "pipe"}, {"number"}, {"number", "indented"}, {"indented", "words"}, {"indented", "fence"}, {"words"}}
AnswerInputs == {<<"spans", t>> : t \in UpTo(6, {"a", " ", "star", "tick"}) \cup UpTo(4, {"a", " ", "star", "tick", "low", "bar"})}
                \cup {<<"blocks", l>> : l \in UpTo(3, AnswerLines)
                                        \cup UpTo(4, {{}, {"fence"}, {"rule", "delimiter"}, {"pipe", "words"}, {"bullet"}, {"indented", "words"}, {"words"}})}

Question(norm, tokens) == [norm |-> norm, tokens |-> tokens]
Asks == {Question(1, {"a", "b"}), Question(2, {"b", "a"}), Question(3, {"a"}), Question(4, {"b", "c", "d", "e", "f", "g", "h", "i"}),
         Question(5, {}), Question(6, {"c"})}
Verified(q) == [question |-> q, sql |-> 1]
PromptInputs ==
    {<<"examples", [i \in DOMAIN s |-> Verified(s[i])], e, n, q, k>> :
        s \in {t \in UpTo(2, Asks) : \A i, j \in DOMAIN t : t[i] = t[j] => i = j}, e \in [question : Asks, sql : {2}],
        n \in {1, 6}, q \in Asks, k \in 0 .. 2}
    \cup {<<"table", c, t, m>> : c \in UpTo(4, {<<>>, <<-2>>, <<0>>, <<3>>}), t \in BOOLEAN, m \in 1 .. 3}
-----------------------------------------------------------------------------
(* Forms, axes, settings, requests and scores *)

Offered == {[id |-> "sales", title |-> 5, alert |-> FALSE], [id |-> "stock", title |-> 6, alert |-> TRUE]}
FormOf(name, mode, template, question, when, app, phones, rows, language) ==
    [name |-> name, mode |-> mode, template |-> template, params |-> "default", question |-> question, kind |-> when[1],
     time |-> when[2], weekdays |-> when[3], day |-> when[4], language |-> language, app |-> app, phones |-> phones,
     rows |-> rows, enabled |-> TRUE]
Nine == <<"daily", <<9, 0>>, {1}, 1>>
FormSet ==
    {FormOf(n, m, t, q, Nine, a, p, r, Forms!Unset) : n \in {0, 4, 81}, m \in {"report", "question"}, t \in {"", "stock", "old"}, q \in {2, 3, 2001},
        a \in BOOLEAN, p \in {<<>>, <<12>>, <<12, 7>>, [i \in 1 .. 21 |-> 12]}, r \in {Forms!Unset, "no"}}
    \cup {FormOf(4, "report", "stock", 2, <<k, t, w, d>>, TRUE, <<>>, r, l) :
             k \in {"daily", "weekly", "monthly"}, t \in {<<9, 0>>, <<23, 59>>, <<24, 0>>, <<8, 60>>}, w \in {{}, {0}, {1, 6}},
             d \in {1, 25, Forms!Last}, r \in {Forms!Unset, "no", "yes"}, l \in {Forms!Unset, "ur"}}
Frequency(type, times, weekdays, days) == [type : {type}, time : times, weekdays : weekdays, day : days]
Frequencies == Frequency("daily", {<<9, 0>>, <<0, 0>>, <<23, 59>>}, {{}}, {0})
               \cup Frequency("weekly", {<<9, 0>>, <<0, 0>>}, {{0}, {1}, {0, 6}, {1, 2, 3}}, {0})
               \cup Frequency("monthly", {<<9, 0>>, <<23, 59>>}, {{}}, {1, 15, 25, Forms!Last})
Dates == {<<2024, 2, 28>>, <<2024, 2, 29>>, <<2023, 2, 28>>, <<2024, 12, 31>>, <<2025, 1, 25>>, <<2025, 4, 30>>}
FormInputs ==
    {<<"form", f, e, l>> : f \in FormSet, e \in BOOLEAN, l \in {"auto", "ur-Latn"}}
    \cup {<<"runs at", f, d, m>> : f \in Frequencies, d \in Dates, m \in {0, 540, 1439}}
    \cup {<<"field", [min |-> a, max |-> b], n, t, i>> : a \in {0, 1}, b \in {1, 60}, n \in 0 .. 61, t \in {0, 1, 60, 999}, i \in {29, 30}}

Magnitudes == {0, 5, 99, 100, 999, 1000, 1001, 1005, 9994, 9995, 10049, 99949, 99950, 999499, 999500, 1000000, 99949999,
               99950000, 999499999, 999500000, 1000000000}
AxisInputs ==
    {<<"axis", v>> : v \in From1To(3, {-2600, -1000, 0, 1, 7, 10, 99, 100, 101, 1000, 12345})}
    \cup {<<"ticks", n, w, p>> : n \in 1 .. 40, w \in {20, 44, 60, 100, 300}, p \in {44, 56}}
    \cup {<<"short", n, m>> : n \in Magnitudes, m \in {0, 1000, 9999, 100000, 999500, 999500001}}
    \cup {<<"stack", v, w, c>> : v \in From1To(3, {0, 1, 5, 50, 700}), w \in {130, 80}, c \in BOOLEAN}
    \cup UNION {{<<"marks", w, x, v, s, k>> : w \in {160, 240, 768}, x \in {10, 200}, v \in {52, 78},
                    s \in [1 .. n -> {0, 1, 200}], k \in 0 .. n} : n \in 1 .. 3}

Texts(name) == {Setup!Unset} \cup {Setup!Set(t, p) : t \in {name, ""}, p \in BOOLEAN}
Environments ==
    [NODE_ENV : {Setup!Unset, Setup!Set("", FALSE), Setup!Set("production", FALSE), Setup!Set("test", FALSE), Setup!Set("production", TRUE)},
     API_KEY : Texts("k"), ALLOW_NO_API_KEY : Texts("true") \cup {Setup!Set("yes", FALSE)},
     DB_DENY_COLUMNS : UpTo(1, {"", "c"}), LLM_FALLBACK_ORDER : UpTo(2, {"", "openrouter", "other"})]
Nets == {"answers", "fails", "late", "stopped"}
Message(done, question, answer, sql) == [done |-> done, question |-> question, answer |-> answer, sql |-> sql]
Long == Message(TRUE, 2000, 9000, 20000)
Conversations ==
    [1 .. 3 -> {Long, Message(TRUE, 1, 0, 0), Message(FALSE, 2000, 5000, 1), Message(TRUE, 0, 1, 1), Message(TRUE, 2001, 1, 0)}]
    \cup [1 .. 7 -> {Long, Message(FALSE, 1, 0, 0)}] \cup {[k \in 1 .. 13 |-> Message(TRUE, 1, 2, 3)]}
SetupInputs ==
    {<<"setup", e, h>> : e \in {r \in Environments : r.DB_DENY_COLUMNS = <<>> \/ r.LLM_FALLBACK_ORDER = <<>>}, h \in {"", "k", "w"}}
    \cup {<<"connection", [url |-> u, key |-> k], s, <<m, n>>, b>> :
             u \in {"", "u"}, k \in {"", "k", "w"}, s \in {"", "k"}, m \in Nets, n \in Nets, b \in BOOLEAN}
    \cup {<<"follow-up", c, n>> : c \in Conversations, n \in {0, 1, 2, 2000, 2001}}

Providers == {"openai", "openrouter"}
Requests == [cacheKey : BOOLEAN, effort : {"unset", "low"}, sort : BOOLEAN, tools : BOOLEAN, temperature : BOOLEAN, responses : BOOLEAN]
Refusable == SUBSET {"temperature", "reasoning_effort", "reasoning", "store", "parallel_tool_calls"}
ProviderInputs ==
    {<<"fixes", p, q, [none |-> n, unsupported |-> u]>> : p \in Providers, q \in Requests, n \in BOOLEAN, u \in Refusable}
    \cup {<<"learns", p, q, u>> : p \in Providers, q \in Requests, u \in Refusable}
    \cup {<<"books", c>> : c \in UpTo(2, [provider : Providers, fails : BOOLEAN, tokens : {1}, reported : {{}, {2}}, estimated : {{}, {3}}])}

Failed(code, message) == [failed |-> TRUE, shown |-> <<>>, error |-> [code |-> code, message |-> message]]
Answered(verdicts) == [failed |-> FALSE, shown |-> verdicts, error |-> [code |-> "", message |-> ""]]
Tries == {Failed("SQL_ERROR", "timeout"), Failed("LLM_ERROR", "limited"), Failed("LLM_ERROR", "rejected"), Answered(<<>>),
          Answered(<<"match">>), Answered(<<"values", "match">>), Answered(<<"row_count", "order">>)}
CaseOf == [id : {"a", "b"}, expect : {"result", "refusal"}, gold : {"none", "g"}, goldDuckdb : {"none", "d"}, tags : {{}, {"t"}}, language : {"en"}]
ScoringInputs ==
    {<<"score", c, t>> : c \in {k \in CaseOf : k.id = "a" /\ k.tags = {}}, t \in [1 .. 4 -> Tries]}
    \cup {<<"dataset", c, f, w, e, d>> :
             c \in {k \in CaseOf \X CaseOf : k[1].expect = "result"}, f \in {{}, {"t"}}, w \in {{}, {"b"}}, e \in {"mssql", "duckdb"},
             d \in [{"g", "d"} -> {"rows", "fails"}] \cup {[x \in {"g", "d"} |-> "empty"]}}
    \cup {<<"ablation", a>> : a \in [hints : {"on", "off"}, recheck : {"on", "off"}, fewshot : {"0", "3"}, candidates : {"1", "3"},
                                     examples : {"none", "some"}, cache : {"on"}]}
-----------------------------------------------------------------------------
(* Prices, the parts of an answer's time, and what a list says of a dataset *)

Model(id, text, prompt, completion) == [id |-> id, text |-> text, prompt |-> prompt, completion |-> completion]
Router == {Model("openai/g", TRUE, 1, 2), Model("openai/d", TRUE, -1, 2), Model("x", TRUE, 0, 0), Model("img", FALSE, 1, 1)}
Own(id, chat, alias) == [id |-> id, chat |-> chat, alias |-> alias]
Account == {Own("g", TRUE, ""), Own("g-1", TRUE, "g"), Own("d-1", TRUE, "d"), Own("t", FALSE, "")}
Routed == [i \in {"g", "g-1", "d-1", "d", "h"} |-> CASE i = "g" -> "openai/g" [] i = "d" -> "openai/d" [] OTHER -> "?"]
Chosen == {c \in [Providers -> {<<"g", "g-1">>, <<"h", "d">>, <<"x", "x">>}] : c["openai"] # <<"x", "x">>}
Used == UpTo(2, [known : BOOLEAN, cost : {2, 3}])
Named == From1To(3, [model : {"m", "n"}, effort : {"", "high"}, label : {"", "m"}, provider : {"openai"}])
PriceInputs ==
    {<<"models", r, a, k, c>> : r \in SUBSET Router, a \in SUBSET Account, k \in SUBSET Providers, c \in Chosen}
    \cup {<<"usage", a, b>> : a \in Used, b \in Used} \cup {<<"names", m, f>> : m \in Named, f \in {<<>>, [candidates |-> "3"]}}
SpentInputs == {<<"time", t, m, d, x>> : t \in 0 .. 6, m \in 0 .. 6, d \in 0 .. 6, x \in 0 .. 6}
ListInputs == {<<"datasets", c, e>> : c \in UpTo(2, [gold : 0 .. 2, goldDuckdb : 0 .. 2, tsqlOnly : BOOLEAN]), e \in {"mssql", "duckdb"}}
-----------------------------------------------------------------------------
(* What is claimed of an input, for the algorithms without state. *)

ReadingHolds(input) ==
    CASE input[1] = "record" -> Decoding!RecordHolds(input[2])
      [] input[1] = "lob" -> Decoding!LobHolds(input[2])
      [] input[1] = "moment" -> Decoding!TimesHold(input[2])
      [] input[1] = "type" -> Decoding!TypesHold(input[2])
      [] input[1] = "number" -> Decoding!NumbersHold(input[2])
      [] input[1] = "rows" -> Decoding!RowsHold(input[2], input[3])
      [] input[1] = "catalog" -> Decoding!CatalogHolds(input[2], input[3], input[4])
      [] OTHER -> TRUE

ResultsHold(input) ==
    CASE input[1] = "results" -> Compare!ComparisonAgrees(input[2], input[3], input[4])
      [] input[1] = "shown" -> Compare!ShownHolds(input[2])
      [] input[1] = "runs" -> Scoring!MetricsAgree(Results(input[2]), {"a", "b"})
      [] input[1] = "times" -> Scoring!PercentileHolds(input[2], input[3])
      [] input[1] = "points" -> Scoring!ParetoHolds(input[2])
      [] input[1] = "chart" -> Chart!ChartHolds(input[2], input[3], input[4])
      [] input[1] = "score" -> Scoring!ScoreHolds(input[2], input[3])
      [] input[1] = "dataset" -> Scoring!DatasetHolds(input[2], input[3], input[4], input[5], input[6])
      [] input[1] = "ablation" -> Scoring!AblationHolds(input[2])
      [] OTHER -> TRUE

QuestionsHold(input) ==
    CASE input[1] = "word" -> Templates!WordsHold(input[2])
      [] input[1] = "params" -> Templates!ParamsHold(Params, input[2], input[3], Parts)
      [] input[1] = "template" -> Templates!RunHolds(input[2], input[3], input[4], input[5], input[6])
      [] input[1] = "media" -> Media!MediaHolds(input[2], input[3], input[4], input[5], input[6], input[7])
      [] input[1] = "language" -> Media!LanguageHolds(input[2][1], input[2][2], input[3])
      [] input[1] = "schema" -> Context!ContextHolds(input[2], input[3], input[4], input[5])
      [] input[1] = "examples" -> Context!RetrievalHolds(input[2], input[3], input[4], input[5], input[6])
      [] input[1] = "table" -> Context!TableHolds(input[2], input[3], input[4])
      [] input[1] = "menu" -> Messages!MenuHolds([k \in 1 .. input[2] |-> k])
      [] input[1] = "send" -> Messages!DeliveryHolds(input[2], input[3], input[4], input[5], input[6], input[7], input[8], 6)
      [] input[1] = "message" -> Messages!MessageHolds(input[2], input[3], input[4], input[5])
      [] OTHER -> TRUE

ScreensHold(input) ==
    CASE input[1] = "form" -> Forms!FormHolds(input[2], Offered, input[3], input[4], "en", TRUE)
      [] input[1] = "runs at" -> Forms!RunsWhenSaid(input[2], input[3], input[4])
      [] input[1] = "field" -> Forms!FieldsHold(input[2], input[3], input[4], Templates!Given("iso", 0, <<2024, 2, input[5]>>, TRUE), Templates!Word("today"))
      [] input[1] = "axis" -> Chart!AxisHolds([i \in DOMAIN input[2] |-> input[2][i] * 1000])
      [] input[1] = "ticks" -> Chart!TicksHold(input[2], input[3], input[4])
      [] input[1] = "short" -> Chart!ShortHolds(input[2], input[3])
      [] input[1] = "stack" -> Chart!Total(input[2]) > 0 => Chart!StackHolds(input[2], input[3], input[4])
      [] input[1] = "spans" -> Markdown!SpansHold(input[2])
      [] input[1] = "blocks" -> Markdown!BlocksHold(input[2])
      [] input[1] = "marks" -> Chart!Total(input[5]) > 0 => Chart!MarksHold(input[2], input[3], input[4], input[5], input[6])
      [] OTHER -> TRUE

RequestsHold(input) ==
    CASE input[1] = "setup" -> Setup!SetupHolds(input[2], input[3])
      [] input[1] = "connection" -> Setup!ConnectionHolds(input[2], [starts |-> TRUE, key |-> input[3]], input[4], input[5])
      [] input[1] = "follow-up" -> Setup!FollowUpAccepted(input[2], input[3])
      [] input[1] = "fixes" -> Provider!FixesHold(input[2], input[3], input[4])
      [] input[1] = "learns" -> Provider!LearningEnds(input[2], input[3], input[4])
      [] input[1] = "books" -> Provider!BookedHolds(input[2])
      [] OTHER -> TRUE
-----------------------------------------------------------------------------
(* The machines *)

VARIABLES machine, v1, v2, v3, v4, v5, v6, v7, v8, v9, v10, v11, v12, v13, v14

Off == "-"
\* The variables behind the first n, which a machine with n of them does not use.
After13 == <<v14>>
After12 == <<v13, After13>>
After8 == <<v9, v10, v11, v12, After12>>
After7 == <<v8, After8>>
After6 == <<v7, After7>>
After5 == <<v6, After6>>
After4 == <<v5, After5>>
After1 == <<v2, v3, v4, After4>>
vars == <<machine, v1, After1>>

Off13 == v14 = Off
Off12 == v13 = Off /\ Off13
Off8 == v9 = Off /\ v10 = Off /\ v11 = Off /\ v12 = Off /\ Off12
Off7 == v8 = Off /\ Off8
Off6 == v7 = Off /\ Off7
Off5 == v6 = Off /\ Off6
Off4 == v5 = Off /\ Off5
Off1 == v2 = Off /\ v3 = Off /\ v4 = Off /\ Off4
-----------------------------------------------------------------------------
Phone == INSTANCE MobileChats WITH
    Chats <- {"c1"}, MaxAnswers <- 2, MaxFaults <- 1, MaxKills <- 1, MaxSaves <- 1,
    stored <- v1, legacy <- v2, phase <- v3, chats <- v4, moving <- v5, saved <- v6, writable <- v7,
    inflight <- v8, timer <- v9, saves <- v10, todo <- v11, deleted <- v12, faults <- v13, kills <- v14
List == INSTANCE ChatList WITH
    Ids <- {"x", "y"}, MaxAsks <- 3, MaxPieces <- 1, Limit <- 1, Tokens <- 2,
    hydrated <- v1, conversations <- v2, order <- v3, activeId <- v4, now <- v5
Stream == INSTANCE EventStream WITH
    MaxEvents <- 2, MaxChunk <- 3, IdleTicks <- 2,
    serving <- v1, emitted <- v2, status <- v3, wire <- v4, conn <- v5, streams <- v6, pending <- v7,
    buffer <- v8, handled <- v9, outcome <- v10, idle <- v11, silent <- v12
Voice == INSTANCE VoiceComposer WITH
    MaxStarts <- 2, MaxDrafts <- 1, MaxEnds <- 2,
    mic <- v1, starts <- v2, ends <- v3, take <- v4, on <- v5, long <- v6, finishing <- v7, draft <- v8,
    drafts <- v9, picking <- v10, busy <- v11, sent <- v12, dropped <- v13
Preferences == INSTANCE PhoneSettings WITH
    Urls <- {"a"}, Keys <- {"k"}, None <- "none", MaxSaves <- 2, MaxAttempts <- 1, MaxKills <- 1,
    ready <- v1, server <- v2, look <- v3, stored <- v4, writes <- v5, draft <- v6, check <- v7, tests <- v8,
    attempt <- v9, loaded <- v10, lists <- v11, lost <- v12, saves <- v13, kills <- v14
Inbox == INSTANCE ReportInbox WITH
    MaxReports <- 2, MaxTime <- 3, Keep <- 2, Limit <- 2, Shown <- 2, Checks <- {"app", "task"}, MaxFaults <- 1,
    clock <- v1, createdAt <- v2, inbox <- v3, lastSeen <- v4, check <- v5, notified <- v6, start <- v7, faults <- v8
Push == INSTANCE PushDevices WITH
    Tokens <- {"p", "q"}, Chunk <- 1, MaxReports <- 2, MaxFaults <- 1,
    devices <- v1, installed <- v2, known <- v3, reports <- v4, enrolled <- v5, seen <- v6, leftOut <- v7, pushFaults <- v8
Analyst == INSTANCE AnalystChat WITH
    MaxSteps <- 3, MaxQueries <- 2, MaxCalls <- 2, MaxAsks <- 2,
    step <- v1, turn <- v2, said <- v3, streamed <- v4, client <- v5, answer <- v6, calls <- v7, dbCalls <- v8,
    degraded <- v9, lacks <- v10, cache <- v11, asks <- v12
WhatsApp == INSTANCE WhatsAppChat WITH
    MaxMessages <- 3, Numbers <- {"n1", "n2"}, Allowed <- {"n1"}, MaxTurns <- 2, MaxRestarts <- 1,
    job <- v1, from <- v2, kind <- v3, seen <- v4, refused <- v5, conversations <- v6, conv <- v7, turns <- v8,
    context <- v9, remembered <- v10, before <- v11, crowded <- v12, left <- v13, restarts <- v14
Bench == INSTANCE BenchPipelines WITH
    Settings <- {"s1", "s2"}, MaxPipelines <- 1, MaxModels <- 2, Questions <- {"q1", "q2"}, MaxEntries <- 3,
    entries <- v1, cached <- v2, calls <- v3, running <- v4
Saved == INSTANCE RunList WITH
    Ids <- {"r"}, Lists <- {"l", "k"}, MaxTime <- 3,
    status <- v1, active <- v2, recent <- v3, file <- v4, cache <- v5, list <- v6, since <- v7, time <- v8
Prices == INSTANCE ModelPrices WITH
    MaxDay <- 2, MaxCalls <- 3,
    day <- v1, loadedAt <- v2, inflight <- v3, prices <- v4, lacking <- v5, failed <- v6, calls <- v7
Web == INSTANCE WebBench WITH
    Files <- {"a", "b"}, CasesOf <- [f \in {"a", "b"} |-> IF f = "a" THEN {1, 2} ELSE {3}], Tagged <- {1}, First <- "a",
    Earlier <- [file |-> "a", cases |-> {2}], Cap <- 3, MaxModels <- 1, MaxCalls <- 2, MaxSent <- 1,
    form <- v1, loads <- v2, usages <- v3, sent <- v4, picker <- v5, play <- v6, list <- v7
Mdf == INSTANCE MdfTable WITH
    Rows <- {"r1", "r2"}, MaxColumns <- 2, PageCount <- 3, ExtentSize <- 2, SlotCount <- 1,
    columns <- v1, page <- v2, singles <- v3, extents <- v4, table <- v5
Export == INSTANCE MdfExport WITH
    Imports <- {"i1", "i2"}, Processes <- {"server", "cli"}, Tables <- <<"a", "b">>, Computed <- [t \in {"a", "b"} |-> t = "b"],
    source <- v1, job <- v2, file <- v3, temp <- v4, output <- v5, verdicts <- v6

ASSUME InstancesAssumption ==
    /\ Phone!BoundsAssumption /\ List!ListAssumption /\ Stream!BoundsAssumption /\ Voice!BoundsAssumption
    /\ Preferences!SettingsAssumption /\ Inbox!BoundsAssumption /\ Push!PushAssumption /\ Analyst!BoundsAssumption
    /\ WhatsApp!BoundsAssumption /\ Bench!BoundsAssumption /\ Saved!ListAssumption /\ Mdf!BoundsAssumption
    /\ Export!ExportAssumption /\ Prices!PriceAssumption /\ Web!WebAssumption
-----------------------------------------------------------------------------
InitInput ==
    \/ v1 \in CompareInputs \/ v1 \in MetricsInputs \/ v1 \in ChartInputs \/ v1 \in DecodingInputs
    \/ v1 \in CatalogInputs \/ v1 \in TemplateInputs \/ v1 \in MediaInputs \/ v1 \in ContextInputs
    \/ v1 \in MessageInputs \/ v1 \in FormInputs \/ v1 \in AxisInputs \/ v1 \in SetupInputs \/ v1 \in ProviderInputs
    \/ v1 \in ScoringInputs \/ v1 \in PriceInputs \/ v1 \in SpentInputs \/ v1 \in ListInputs
    \/ v1 \in AnswerInputs \/ v1 \in PromptInputs

Init == \/ machine = "input" /\ InitInput /\ Off1
        \/ machine = "phone" /\ Phone!Init
        \/ machine = "list" /\ List!Init /\ Off5
        \/ machine = "stream" /\ Stream!Init /\ Off12
        \/ machine = "voice" /\ Voice!Init /\ Off13
        \/ machine = "settings" /\ Preferences!Init
        \/ machine = "inbox" /\ Inbox!Init /\ Off8
        \/ machine = "push" /\ Push!Init /\ Off8
        \/ machine = "analyst" /\ Analyst!Init /\ Off12
        \/ machine = "whatsapp" /\ WhatsApp!Init
        \/ machine = "bench" /\ Bench!Init /\ Off4
        \/ machine = "saved" /\ Saved!Init /\ Off8
        \/ machine = "prices" /\ Prices!Init /\ Off7
        \/ machine \in {"form", "lists"} /\ Web!Init /\ Off7
        \/ machine = "mdf" /\ Mdf!Init /\ Off5
        \/ machine = "export" /\ Export!Init /\ Off6

Of(name, action, rest) == machine = name /\ action /\ UNCHANGED <<machine, rest>>

Next == \/ Of("phone", Phone!Next, <<>>)
        \/ Of("list", List!Next, After5)
        \/ Of("stream", Stream!Next, After12)
        \/ Of("voice", Voice!Next, After13)
        \/ Of("settings", Preferences!Next, <<>>)
        \/ Of("inbox", Inbox!Next, After8)
        \/ Of("push", Push!Next, After8)
        \/ Of("analyst", Analyst!Next, After12)
        \/ Of("whatsapp", WhatsApp!Next, <<>>)
        \/ Of("bench", Bench!Next, After4)
        \/ Of("saved", Saved!Next, After8)
        \/ Of("prices", Prices!Next, After7)
        \/ Of("form", Web!FormNext, After7)
        \/ Of("lists", Web!ListsNext, After7)
        \/ Of("mdf", Mdf!Next, After5)
        \/ Of("export", Export!Next, After6)

\* The fairness the components state, each for its own machine.
Fairness ==
    /\ WF_vars(Of("phone", Phone!Loads, <<>>)) /\ WF_vars(Of("phone", Phone!Save, <<>>)) /\ WF_vars(Of("phone", Phone!Saving, <<>>))
    /\ \A i \in Phone!Answers : WF_vars(Of("phone", Phone!Comes("c1", i), <<>>))
    /\ WF_vars(Of("stream", Stream!Tick, After12)) /\ WF_vars(Of("stream", Stream!Closed, After12))
    /\ WF_vars(Of("analyst", Analyst!RunStep, After12))
    /\ \A m \in WhatsApp!Messages : WF_vars(Of("whatsapp", WhatsApp!JobStep(m), <<>>))
Spec == Init /\ [][Next]_vars /\ Fairness
-----------------------------------------------------------------------------
(* Every variable of a component keeps its type.                             *)
TypeOK ==
    /\ machine = "phone" => Phone!TypeOK
    /\ machine = "list" => List!TypeOK
    /\ machine = "stream" => Stream!TypeOK
    /\ machine = "voice" => Voice!TypeOK
    /\ machine = "settings" => Preferences!TypeOK
    /\ machine = "inbox" => Inbox!TypeOK
    /\ machine = "push" => Push!TypeOK
    /\ machine = "analyst" => Analyst!TypeOK
    /\ machine = "whatsapp" => WhatsApp!TypeOK
    /\ machine = "bench" => Bench!TypeOK
    /\ machine = "saved" => Saved!TypeOK
    /\ machine = "prices" => Prices!TypeOK
    /\ machine \in {"form", "lists"} => Web!TypeOK
    /\ machine = "mdf" => Mdf!TypeOK
    /\ machine = "export" => Export!TypeOK

(* "Chat persistence that never destroys what it cannot read": a stored      *)
(* conversation goes only when the user deleted it and is written over only  *)
(* by its continuation, or when it could not be read by the old format's;    *)
(* the old format's value goes when what it had whole is stored, whatever    *)
(* fails and wherever the app is ended (chat-store.ts, MobileChats); and an  *)
(* answer that settled is changed by no event that comes late                *)
(* (chat-reducer.ts, ChatList).                                              *)
ConversationsKept == [][/\ machine = "phone" => Phone!KeptUntilDeleted
                        /\ machine = "list" => List!SettledStays]_vars

(* What the phone shows, what it stores and what is under way agree: a       *)
(* pending answer has its request, a quiet store holds what is shown, and a  *)
(* conversation that was deleted stays so (MobileChats); the list's order,   *)
(* and what a follow-up is sent (ChatList); a take whose start overlapped no *)
(* other call is sent once, and none that was thrown away (VoiceComposer);   *)
(* background checks and gallery belong to the server that is set            *)
(* (PhoneSettings).                                                          *)
PhoneInStep ==
    /\ machine = "phone" => Phone!PendingHasRequest /\ Phone!ShownIsStored /\ Phone!ErasedStays
    /\ machine = "list" => List!ListInOrder /\ List!ContextIsBefore
    /\ machine = "voice" => Voice!TakesSentOnce
    /\ machine = "settings" => Preferences!BackgroundAgrees /\ Preferences!GalleryOfServer

(* No report is passed over: neither by the app's and the background task's  *)
(* checks, whose times race the server's (ReportInbox), nor by a phone that  *)
(* leaves its own notification out and is registered in time with the push   *)
(* service, whatever registers or is forgotten meanwhile (PushDevices).      *)
NonePassedOver ==
    /\ machine = "inbox" => Inbox!NonePassedOver
    /\ machine = "push" => Push!PushedOrOwn

(* What the analyst wrote is what the client shows: the streamed turns are   *)
(* reconciled with the final answer (AnalystChat), and however the           *)
(* connection cuts the events the client is given all of them in order       *)
(* (EventStream).                                                            *)
ClientSeesAnswer ==
    /\ machine = "analyst" => Analyst!ClientSeesAnswer
    /\ machine = "stream" => Stream!EventsArrive

(* "A stopgap answer must not be replayed to a retry": what the analyst's    *)
(* cache holds was answered with queries, steps and a database left          *)
(* (AnalystChat, analyst.service.ts).                                           *)
StopgapNotCached == machine = "analyst" => Analyst!StopgapNotCached

(* "Follow-ups keep context": a WhatsApp question is sent with the turns of  *)
(* its own number, each once and none that it should have left out, however  *)
(* messages, resets, expiry and restarts interleave (WhatsAppChat).          *)
FollowUpSeesHistory == machine = "whatsapp" => WhatsApp!FollowUpSeesHistory

(* What the bench keeps is accounted for: pipelines while questions use them *)
(* (BenchPipelines), the saved runs its list shows (RunList), the list a     *)
(* call is priced by (ModelPrices) and the runs the page starts (WebBench).  *)
PipelinesAccounted ==
    /\ machine = "bench" => Bench!PipelinesAccounted
    /\ machine = "saved" => Saved!ListIsOfNow
    /\ machine = "prices" => Prices!PricesStay
    /\ machine \in {"form", "lists"} => Web!RunsAsShown

(* Nothing waits forever: the phone's answers settle, unless the body of a   *)
(* response stops coming, and its saves end (MobileChats), the analyst       *)
(* answers or fails (AnalystChat), a question's stream ends though server    *)
(* and network fall silent, and with it the abandoned run (EventStream), and *)
(* every accepted WhatsApp message is answered or given up (WhatsAppChat).   *)
EverythingEnds ==
    /\ \A i \in Phone!Answers : []<>(machine = "phone" => Phone!Settled("c1", i))
    /\ []<>(/\ machine = "phone" => Phone!Quiet
            /\ machine = "analyst" => Analyst!Ended
            /\ machine = "stream" => Stream!StreamEnded
            /\ machine = "whatsapp" => WhatsApp!Handled)

(* The reader returns the tables of the data file (MdfTable), its records,   *)
(* fragments, types and catalog read back as they were written               *)
(* (MdfDecoding), and the server opens no half-written export and none that  *)
(* verified against something else (MdfExport).                              *)
MdfReadsRows ==
    /\ machine = "mdf" => Mdf!ReadsTable
    /\ machine = "export" => Export!OutputWhole /\ Export!VerifiedWhole
    /\ machine = "input" => ReadingHolds(v1)

(* The algorithms do what they are for, over the inputs above: comparing and *)
(* scoring results, metrics, charts and axes, report templates and schedule  *)
(* forms, voice and photo questions, the schema text of a prompt, messages,  *)
(* the server's settings, and the requests to the model providers with what  *)
(* they cost.                                                                *)
AlgorithmsAgree ==
    machine = "input" =>
        /\ ResultsHold(v1) /\ QuestionsHold(v1) /\ ScreensHold(v1) /\ RequestsHold(v1)
        /\ v1[1] = "models" => Prices!ListHolds(v1[2], v1[3], Routed, v1[4], v1[5])
        /\ v1[1] = "usage" => Prices!UsageHolds(v1[2], v1[3])
        /\ v1[1] = "names" => Prices!NamesHold(v1[2], v1[3])
        /\ v1[1] = "datasets" => Saved!DatasetsHold(v1[2], v1[3])
        /\ v1[1] = "time" => LET s == List!TimeSplit(v1[2], v1[3], v1[4], v1[5])
                             IN  v1[3] + v1[4] <= v1[2] /\ v1[5] <= v1[3] => s.model + s.db + s.media + s.other = v1[2]
=============================================================================
