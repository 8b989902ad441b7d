--------------------------- MODULE ReportTemplates ---------------------------
(* reports/template.ts and what templates.service.ts and the phone's        *)
(* lib/reports.ts do with it: date words, parameters, placeholders and the  *)
(* choice of the SQL. A date is <<year, month, day>>; a template's SQL is a *)
(* sequence of texts and placeholders; wording and icons are left out.      *)
EXTENDS Integers, Sequences, FiniteSets

Error == [type |-> "error"]
IsError(v) == v.type = "error"
Date(date) == [type |-> "date", date |-> date]
Number(n) == [type |-> "number", n |-> n]
Text == [type |-> "text"]
-----------------------------------------------------------------------------
(* The calendar *)

Leap(y) == (y % 4 = 0 /\ y % 100 # 0) \/ y % 400 = 0
DaysIn(y, m) == CASE m = 2 -> IF Leap(y) THEN 29 ELSE 28 [] m \in {4, 6, 9, 11} -> 30 [] OTHER -> 31
Before(m) == <<0, 31, 59, 90, 120, 151, 181, 212, 243, 273, 304, 334>>[m]
DayNumber(date) ==
    LET y == date[1] - 1
    IN  365 * y + y \div 4 - y \div 100 + y \div 400
        + Before(date[2]) + (IF Leap(date[1]) /\ date[2] > 2 THEN 1 ELSE 0) + date[3]
DateOf(n) ==
    LET y == CHOOSE k \in n \div 366 .. (n \div 365) + 1 : DayNumber(<<k, 1, 1>>) <= n /\ n < DayNumber(<<k + 1, 1, 1>>)
        m == CHOOSE k \in 1 .. 12 : DayNumber(<<y, k, 1>>) <= n /\ n < DayNumber(<<y, k, 1>>) + DaysIn(y, k)
    IN  <<y, m, n - DayNumber(<<y, m, 1>>) + 1>>

addDays(date, days) == DateOf(DayNumber(date) + days)
validIso(date) == date[2] \in 1 .. 12 /\ date[3] \in 1 .. DaysIn(date[1], date[2])
\* 0 is Monday.
Weekday(date) == (DayNumber(date) - 1) % 7
-----------------------------------------------------------------------------
(* Date words: what is given is a word, "+Nd", a date, a number, blank or    *)
(* something else; `exact` is false for spaces and capitals.                *)

Words == {"today", "yesterday", "week_start", "month_start", "prev_month_start", "prev_month_end", "year_start"}
Given(kind, n, date, exact) == [kind |-> kind, n |-> n, date |-> date, exact |-> exact]
Word(w) == Given(w, 0, <<>>, TRUE)

wordDate(word, today) ==
    LET y == today[1]  m == today[2]
    IN  CASE word = "today" -> today
          [] word = "yesterday" -> addDays(today, -1)
          [] word = "week_start" -> addDays(today, -Weekday(today))
          [] word = "month_start" -> <<y, m, 1>>
          [] word = "prev_month_start" -> IF m = 1 THEN <<y - 1, 12, 1>> ELSE <<y, m - 1, 1>>
          [] word = "prev_month_end" -> addDays(<<y, m, 1>>, -1)
          [] OTHER -> <<y, 1, 1>>

resolveDate(given, today) ==
    IF given.kind \in Words THEN Date(wordDate(given.kind, today))
    ELSE IF given.kind = "relative" THEN Date(addDays(today, given.n))
    ELSE IF given.kind = "iso" /\ validIso(given.date) THEN Date(given.date)
    ELSE Error

\* The phone's: for display only, so what it does not know stays as it is.
shownDate(given, today) ==
    IF ~given.exact THEN Text
    ELSE IF given.kind \in Words THEN
         LET y == today[1]  m == today[2]
         IN  Date(CASE given.kind = "today" -> today
                    [] given.kind = "yesterday" -> addDays(today, -1)
                    [] given.kind = "week_start" -> addDays(today, -Weekday(today))
                    [] given.kind = "month_start" -> <<y, m, 1>>
                    [] given.kind = "prev_month_start" -> IF m = 1 THEN <<y - 1, 12, 1>> ELSE <<y, m - 1, 1>>
                    [] given.kind = "prev_month_end" -> addDays(<<y, m, 1>>, -1)
                    [] OTHER -> <<y, 1, 1>>)
    ELSE IF given.kind = "relative" THEN Date(addDays(today, given.n))
    ELSE IF given.kind = "iso" THEN Date(given.date)
    ELSE Text

datePresets(name, default) ==
    IF default.kind = "relative" /\ default.n > 0 THEN {Given("relative", 30, <<>>, TRUE), Given("relative", 90, <<>>, TRUE)}
    ELSE IF default.kind \in {"week_start", "month_start", "prev_month_start", "year_start"} \/ name = "from"
         THEN {Word(w) : w \in {"today", "week_start", "month_start", "prev_month_start", "year_start"}}
    ELSE IF name = "to" THEN {Word("today"), Word("yesterday"), Word("prev_month_end")}
    ELSE {Word("today"), Word("yesterday")}
-----------------------------------------------------------------------------
(* Parameters and placeholders *)

\* A blank is the number 0.
numberOf(param, given) ==
    IF given.kind \notin {"number", "blank"} THEN Error
    ELSE IF given.n < param.min \/ given.n > param.max THEN Error
    ELSE Number(given.n)

resolveParams(params, given, today) ==
    LET raw(p) == IF p.name \in DOMAIN given THEN given[p.name] ELSE p.default
        value(p) == IF p.type = "date" THEN resolveDate(raw(p), today) ELSE numberOf(p, raw(p))
        names == {p.name : p \in params}
    IN  IF DOMAIN given \subseteq names /\ \A p \in params : ~IsError(value(p))
        THEN [n \in names \cup {"now"} |-> IF n = "now" THEN Date(today) ELSE value(CHOOSE p \in params : p.name = n)]
        ELSE <<>>

Shift(v, sign, n) == Date(addDays(v.date, sign * n))
\* sign is 0 when there is no offset; an offset is a number or a name.
Literal(part, values) ==
    LET v == values[part.name]
        n == IF part.by = "" THEN Number(part.n)
             ELSE IF part.by \in DOMAIN values THEN values[part.by] ELSE Error
    IN  IF part.name \notin DOMAIN values THEN Error
        ELSE IF part.sign = 0 THEN v
        ELSE IF v.type = "date" /\ n.type = "number" THEN Shift(v, part.sign, n.n)
        ELSE Error

\* Of each placeholder: what is put in its place.
renderSql(parts, values) == [i \in DOMAIN parts |-> Literal(parts[i], values)]

\* A name that is not known stays; a number is not shifted.
renderQuestion(parts, values) ==
    [i \in DOMAIN parts |->
        IF parts[i].name \notin DOMAIN values THEN Text
        ELSE IF values[parts[i].name].type = "number" THEN values[parts[i].name]
        ELSE Literal(parts[i], values)]
-----------------------------------------------------------------------------
(* Which SQL: a text says the dialects it runs in; "" there is none          *)

sqlFor(t, dialect) ==
    IF t.dialect # "" THEN (IF t.dialect = dialect THEN (IF t.sql # {} THEN t.sql ELSE t.sqlDuckdb) ELSE {})
    ELSE IF dialect = "tsql" THEN t.sql
    ELSE IF t.sqlDuckdb # {} THEN t.sqlDuckdb
    ELSE IF "duckdb" \in t.sql THEN t.sql ELSE {}

runnable(t, dialect) == sqlFor(t, dialect) # {} \/ t.question

\* run(): by its SQL, the summary optional and allowed to fail, or by the ask pipeline.
run(t, dialect, values, wanted, modelUp) ==
    IF values = <<>> THEN [by |-> "refused"]
    ELSE IF sqlFor(t, dialect) = {} THEN [by |-> IF modelUp THEN "ask" ELSE "failed"]
    ELSE [by |-> "sql", rows |-> TRUE, answer |-> wanted /\ t.summary /\ modelUp]
-----------------------------------------------------------------------------
(* Date words mean calendar periods that fit together: the week begins on a  *)
(* Monday not in the future, the month before is that month, whole, and ends *)
(* where this one begins; and the phone shows the dates the server will use. *)
WordsHold(today) ==
    LET at(w) == DayNumber(resolveDate(Word(w), today).date)  now == DayNumber(today)
    IN  /\ at("week_start") \in now - 6 .. now /\ at("week_start") % 7 = 1
        /\ at("prev_month_end") + 1 = at("month_start") /\ at("month_start") <= now
        /\ at("prev_month_end") - at("prev_month_start") \in 27 .. 30
        /\ now - at("month_start") < 31 /\ now - at("year_start") \in 0 .. 365
        /\ \A w \in {"week_start", "month_start", "prev_month_start", "prev_month_end", "year_start"} :
               validIso(resolveDate(Word(w), today).date)
        /\ \A name \in {"from", "to", "day"}, w \in Words : \A p \in datePresets(name, Word(w)) :
               shownDate(p, today) = resolveDate(p, today)

(* What reaches the SQL is a valid date or a number in its range, for        *)
(* whatever is given; a half-open range up to {{to+1}} holds the days from   *)
(* `from` to `to` and no other; the question names the dates of the SQL.     *)
ParamsHold(params, given, today, parts) ==
    LET values == resolveParams(params, given, today)
        sql == renderSql(parts, values)
        question == renderQuestion(parts, values)
    IN  values # <<>> =>
        /\ \A p \in params : \/ p.type = "date" /\ validIso(values[p.name].date)
                             \/ p.type = "number" /\ values[p.name].n \in p.min .. p.max
        /\ \A i \in DOMAIN parts : /\ sql[i].type \in {"date", "number", "error"}
                                   /\ sql[i].type = "date" => validIso(sql[i].date) /\ question[i] = sql[i]
        /\ \A i \in DOMAIN parts : parts[i].sign = 1 /\ parts[i].by = "" /\ parts[i].n = 1 /\ ~IsError(sql[i]) =>
               DayNumber(sql[i].date) = DayNumber(values[parts[i].name].date) + 1

(* A report never runs SQL its engine cannot run, is listed only when it can *)
(* be answered, and keeps its rows when the model is down.                   *)
RunHolds(t, dialect, values, wanted, modelUp) ==
    LET r == run(t, dialect, values, wanted, modelUp)
    IN  /\ sqlFor(t, dialect) # {} => dialect \in sqlFor(t, dialect)
        /\ runnable(t, dialect) /\ values # <<>> => \/ r.by = "sql" /\ r.rows
                                                    \/ t.question /\ (modelUp => r.by = "ask")
=============================================================================
