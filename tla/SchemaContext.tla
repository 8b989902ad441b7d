---------------------------- MODULE SchemaContext ----------------------------
(* What a question's prompt is given. database/schema/: from the catalog's  *)
(* recordsets to the schema text: buildSnapshot(), the filters, the notes   *)
(* and the value hints, the ranking of the tables and contextFor(); a name  *)
(* is the set of its words, a text as long as the tables and columns it     *)
(* names. The verified examples of examples.service.ts: a question is       *)
(* [norm (its normal form), tokens]. The result tables of result-format.ts: *)
(* a cell is <<number>> or <<>>.                                            *)
EXTENDS Integers, Sequences, SequencesExt, FiniteSetsExt

CONSTANTS Akin,        \* pairs of words of four letters that begin alike
          Private,     \* words of SCHEMA_VALUE_HINTS_EXCLUDE
          NoteWords,   \* what a note says
          Limit,       \* SCHEMA_MAX_TABLES
          MaxChars,    \* SCHEMA_FULL_CONTEXT_MAX_CHARS
          MinBudget,   \* the least the index of names is given
          MaxDistinct, MaxColumns, MaxTableRows

None == 0
-----------------------------------------------------------------------------
(* The recordsets: objects [object, id, view, digits] (of its row count),   *)
(* columns [object, name, short, identity], pks <<object, name>>, fks       *)
(* <<object, name, id it references>>.                                      *)

\* Of a column with two references, the last.
fkMap(fks, object, name) ==
    LET refs == SelectSeq(fks, LAMBDA f : f[1] = object /\ f[2] = name)
    IN  IF refs = <<>> THEN None ELSE Last(refs)[3]

buildSnapshot(db) ==
    [t \in DOMAIN db.objects |->
        LET o == db.objects[t]
            own == SelectSeq(db.columns, LAMBDA c : c.object = o.object)
        IN  [id |-> o.id, name |-> o.name, view |-> o.view, digits |-> IF o.view THEN 0 ELSE o.digits, words |-> {},
             columns |-> [k \in DOMAIN own |->
                 [name |-> own[k].name, short |-> own[k].short, identity |-> own[k].identity,
                  pk |-> <<o.object, own[k].name>> \in db.pks, fk |-> fkMap(db.fks, o.object, own[k].name),
                  words |-> {}, hint |-> <<>>]]]]

applySchemaNotes(t, notes) ==
    [t EXCEPT !.words = IF <<t.id>> \in notes THEN @ \cup NoteWords ELSE @,
              !.columns = [k \in DOMAIN @ |-> IF <<t.id, @[k].name>> \in notes
                                              THEN [@[k] EXCEPT !.words = @ \cup NoteWords] ELSE @[k]]]

\* An empty SCHEMA_INCLUDE includes everything.
applyFilters(tables, cfg) ==
    LET kept == SelectSeq(tables, LAMBDA t : (cfg.include = {} \/ t.id \in cfg.include) /\ t.id \notin cfg.exclude)
        visible(t) == [t EXCEPT !.columns = SelectSeq(@, LAMBDA c : c.name \notin cfg.deny)]
    IN  [i \in DOMAIN kept |-> applySchemaNotes(visible(kept[i]), cfg.notes)]
-----------------------------------------------------------------------------
(* Value hints: what the columns hold is values [column <<id, name>> ->     *)
(* sequence of "code", "personal" or "long"], or "fails"                    *)

hintCandidates(tables) ==
    LET worth(t) == IF t.view \/ t.digits \notin 1 .. MaxTableRows THEN <<>>
                    ELSE SelectSeq(t.columns, LAMBDA c : /\ c.short /\ ~c.pk /\ c.fk = None /\ ~c.identity
                                                         /\ c.name \cap Private = {})
        all == FlattenSeq([i \in DOMAIN tables |->
                   LET w == worth(tables[i]) IN [k \in DOMAIN w |-> <<tables[i].id, w[k].name>>]])
    IN  Range(SubSeq(all, 1, Min({MaxColumns, Len(all)})))

toHint(values) ==
    LET fit == SelectSeq(values, LAMBDA v : v # "long")
        personal == SelectSeq(fit, LAMBDA v : v = "personal")
    IN  IF \/ Len(values) > MaxDistinct
           \/ personal # <<>> /\ 3 * Len(personal) >= Len(fit)
        THEN <<>> ELSE fit

\* "Fills column.values in place", of the filtered tables: a column with a
\* note is a copy, and what is filled there is not kept.
sampleValues(tables, cfg, values) ==
    LET candidates == hintCandidates(applyFilters(tables, cfg))
        hint(t, c) == LET at == <<t.id, c.name>> IN
                      IF at \in candidates \ cfg.notes /\ values[at] # <<"fails">> THEN toHint(values[at]) ELSE <<>>
        filled(t) == [k \in DOMAIN t.columns |-> [t.columns[k] EXCEPT !.hint = hint(t, t.columns[k])]]
    IN  [i \in DOMAIN tables |-> [tables[i] EXCEPT !.columns = filled(tables[i])]]

introspect(db, cfg, values) == sampleValues(buildSnapshot(db), cfg, values)
prepare(raw, cfg) == applyFilters(raw, cfg)
-----------------------------------------------------------------------------
(* SchemaRetriever *)

ColumnTokens(t) == UNION {t.columns[k].name : k \in DOMAIN t.columns}
DescTokens(t) == t.words \cup UNION {t.columns[k].words : k \in DOMAIN t.columns}

\* In hundredths, a row count's digits counting 5 each.
Score(t, q) ==
    LET word(w) == (IF w \in t.name THEN 400 ELSE IF \E n \in t.name : <<w, n>> \in Akin THEN 200 ELSE 0)
                   + (IF w \in ColumnTokens(t) THEN 100 ELSE 0) + (IF w \in DescTokens(t) THEN 100 ELSE 0)
        score == MapThenSumSet(word, q)
    IN  IF score > 0 THEN score + 5 * t.digits ELSE 0

Named(t, q) == t.name # {} /\ t.name \subseteq q
\* A table is picked once, while there is room.
Pick(picked, more, room) ==
    FoldLeft(LAMBDA p, i : IF i \in Range(p) \/ Len(p) >= room THEN p ELSE Append(p, i), picked, more)

Scored(tables, q) == SetToSortSeq({i \in DOMAIN tables : Score(tables[i], q) > 0}, LAMBDA i, j :
                         \/ Score(tables[i], q) > Score(tables[j], q)
                         \/ Score(tables[i], q) = Score(tables[j], q) /\ i < j)

\* What a table's columns reference, among the tables there are.
Targets(tables, i) ==
    LET at(c) == {j \in DOMAIN tables : tables[j].id = c.fk}
        found == SelectSeq(tables[i].columns, LAMBDA c : at(c) # {})
    IN  [k \in DOMAIN found |-> Min(at(found[k]))]

Ranked(tables, q, scored) ==
    LET named == SelectSeq(scored, LAMBDA i : Named(tables[i], q))
        best == Pick(Pick(<<>>, named, Limit), scored, Limit)
        joined == FlattenSeq([k \in 1 .. Min({3, Len(scored)}) |-> Targets(tables, scored[k])])
    IN  Pick(best, joined, Limit + 3)
rank(tables, q) == Ranked(tables, q, Scored(tables, q))
-----------------------------------------------------------------------------
Size(t) == 1 + Len(t.columns)
Sizes(tables) == MapThenSumSet(LAMBDA i : Size(tables[i]), DOMAIN tables)

Largest(tables) == LET order == SetToSortSeq(DOMAIN tables, LAMBDA i, j :
                                    \/ tables[i].digits > tables[j].digits
                                    \/ tables[i].digits = tables[j].digits /\ i < j)
                   IN  SubSeq(order, 1, Min({Limit, Len(order)}))

\* The tables in detail, the names of others, and whether that list is cut.
InContext(tables, picked) ==
    LET rest == SelectSeq([i \in DOMAIN tables |-> i], LAMBDA i : i \notin Range(picked))
        budget == Max({MinBudget, MaxChars - Sizes([k \in DOMAIN picked |-> tables[picked[k]]])})
    IN  IF Sizes(tables) <= MaxChars
        THEN [full |-> TRUE, detail |-> [i \in DOMAIN tables |-> i], names |-> <<>>, cut |-> FALSE]
        ELSE [full |-> FALSE, detail |-> picked, names |-> SubSeq(rest, 1, Min({budget, Len(rest)})),
              cut |-> Len(rest) > budget]
contextFor(tables, q) ==
    LET ranked == rank(tables, q) IN InContext(tables, IF ranked = <<>> THEN Largest(tables) ELSE ranked)
-----------------------------------------------------------------------------
Shows(tables, ctx, cfg, q) ==
    LET detailed == Range(ctx.detail)
        asked == {i \in DOMAIN tables : Named(tables[i], q)}
        scored == Scored(tables, q)
    IN  /\ detailed \cup Range(ctx.names) = DOMAIN tables \/ ctx.cut
        /\ detailed \cap Range(ctx.names) = {} /\ IsInjective(ctx.detail)
        /\ ~ctx.full => /\ Len(ctx.detail) <= Limit + 3
                        /\ Cardinality(asked) <= Limit => asked \subseteq detailed
                        /\ scored # <<>> => \/ Range(Targets(tables, scored[1])) \subseteq detailed
                                            \/ Len(ctx.detail) = Limit + 3
        /\ \A i \in DOMAIN tables :
              /\ tables[i].id \notin cfg.exclude /\ (cfg.include # {} => tables[i].id \in cfg.include)
              /\ \A k \in DOMAIN tables[i].columns :
                    LET c == tables[i].columns[k] IN
                    /\ c.name \notin cfg.deny
                    /\ c.hint # <<>> => /\ ~c.pk /\ c.fk = None /\ c.name \cap Private = {}
                                        /\ Len(c.hint) <= MaxDistinct
                                        /\ 3 * Len(SelectSeq(c.hint, LAMBDA v : v = "personal")) < Len(c.hint)

(* What a prompt shows of a schema: every table of it in detail, by name or *)
(* behind "+more"; in detail the ones a question names in full, and what    *)
(* its best match refers to, so that it can be joined. A withheld table or  *)
(* column shows nowhere, nor by what it holds, and no key, name or number   *)
(* of a person is a hint.                                                   *)
ContextHolds(db, cfg, values, q) ==
    \A tables \in {prepare(introspect(db, cfg, values), cfg)} : Shows(tables, contextFor(tables, q), cfg, q)
-----------------------------------------------------------------------------
(* ExamplesService: an example is [question, sql], its id the normal form   *)

add(items, example) == Append(SelectSeq(items, LAMBDA i : i.question.norm # example.question.norm), example)
remove(items, norm) == SelectSeq(items, LAMBDA i : i.question.norm # norm)

\* The Dice coefficient is 2 * Shared / Both.
Shared(q, e) == Cardinality(q.tokens \cap e.question.tokens)
Both(q, e) == Cardinality(q.tokens) + Cardinality(e.question.tokens)
Closer(q, d, e) == Shared(q, d) * Both(q, e) > Shared(q, e) * Both(q, d)
Near(q, e) == e.question.norm # q.norm /\ 10 * Shared(q, e) >= Both(q, e)

\* The closest k, of equally close ones the earlier.
retrieve(items, q, k) ==
    LET near == SelectSeq(items, LAMBDA e : Near(q, e))
        order == SetToSortSeq(DOMAIN near, LAMBDA i, j : Closer(q, near[i], near[j])
                                                         \/ (~Closer(q, near[j], near[i]) /\ i < j))
        ranked == [i \in DOMAIN near |-> near[order[i]]]
    IN  IF q.tokens = {} THEN <<>> ELSE SubSeq(ranked, 1, Min({k, Len(ranked)}))
-----------------------------------------------------------------------------
(* result-format.ts *)

Numbers(column) == FlattenSeq(column)
\* No statistics (<<>>) of a column that is mostly empty.
numericStats(column) ==
    LET n == Numbers(column) IN
    IF n = <<>> \/ 2 * Len(n) < Len(column) THEN <<>>
    ELSE <<[min |-> Min(Range(n)), max |-> Max(Range(n)), sum |-> FoldLeft(LAMBDA a, v : a + v, 0, n), nonNull |-> Len(n),
          zeros |-> Len(SelectSeq(n, LAMBDA v : v = 0)), negatives |-> Len(SelectSeq(n, LAMBDA v : v < 0))]>>

\* Of one column: the cells shown and what the notes say.
toPromptTable(column, truncated, maxRows) ==
    LET sampled == Len(column) > maxRows
    IN  [shown |-> SubSeq(column, 1, Min({maxRows, Len(column)})),
         notes |-> {n \in {"first", "cap", "stats"} : CASE n = "cap" -> truncated
                                                        [] n = "first" -> sampled
                                                        [] n = "stats" -> sampled /\ numericStats(column) # <<>>},
         stats |-> IF sampled THEN numericStats(column) ELSE <<>>]
-----------------------------------------------------------------------------
(* "The question itself is never returned, so a stored example cannot leak  *)
(* its own answer", however it is spaced or ended; what is returned is as   *)
(* close as anything left out, also after an example was verified again,    *)
(* which replaces it, or removed.                                           *)
RetrievalHolds(stored, example, norm, q, k) ==
    \A items \in {stored, add(stored, example), remove(add(stored, example), norm)} :
        LET got == retrieve(items, q, k)
            left == {e \in Range(items) : Near(q, e)} \ Range(got)
        IN  /\ \A e \in Range(got) : e \in Range(items) /\ e.question.norm # q.norm /\ e.question.tokens \cap q.tokens # {}
            /\ left # {} /\ q.tokens # {} => Len(got) = k /\ \A e \in Range(got), o \in left : ~Closer(q, o, e)
              /\ \A i, j \in DOMAIN items : items[i].question.norm = items[j].question.norm => i = j

(* A model that is not shown every row is told so, and can tell from the    *)
(* statistics what is in the rows it never sees: the rest of the sum, and   *)
(* how many of them are zero or negative.                                   *)
TableHolds(column, truncated, maxRows) ==
    LET t == toPromptTable(column, truncated, maxRows)
        hidden == Numbers(SubSeq(column, maxRows + 1, Len(column)))
        sum(s) == FoldLeft(LAMBDA a, v : a + v, 0, s)
        count(s, p(_)) == Len(SelectSeq(s, p))
    IN  /\ Len(t.shown) < Len(column) \/ truncated => t.notes \cap {"first", "cap"} # {}
        /\ \A s \in Range(t.stats) :
              /\ sum(hidden) = s.sum - sum(Numbers(t.shown))
              /\ count(hidden, LAMBDA v : v = 0) = s.zeros - count(Numbers(t.shown), LAMBDA v : v = 0)
              /\ count(hidden, LAMBDA v : v < 0) = s.negatives - count(Numbers(t.shown), LAMBDA v : v < 0)
              /\ \A v \in Range(hidden) : v \in s.min .. s.max
=============================================================================
