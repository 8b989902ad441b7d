--------------------------- MODULE ResultComparison --------------------------
(* query/result-compare.ts, agreement() of bench.service.ts, shown() of     *)
(* analyst.run.ts: when two results are the same answer, and which results  *)
(* are shown under one.                                                     *)
(*                                                                          *)
(* A result is a sequence of rows, a row a sequence of cells that are       *)
(* already normalized: null, a text or a number in steps of half the        *)
(* absolute tolerance. The relative tolerance is left out.                  *)
EXTENDS Integers, Sequences, FiniteSets, SequencesExt

Null == <<>>
Text(t) == <<"s", t>>
Num(n) == <<"n", n>>
IsNum(c) == c # Null /\ c[1] = "n"

absTol == 2
Abs(n) == IF n < 0 THEN -n ELSE n
cellsEqual(a, b) == \/ a = b
                    \/ IsNum(a) /\ IsNum(b) /\ Abs(a[2] - b[2]) <= absTol

\* Numbers are rounded to the tolerance, so that the order is stable under it.
sortKey(c) == IF IsNum(c) THEN <<"n", (c[2] + 1) \div 2>> ELSE c

Keys(row) == [k \in DOMAIN row |-> sortKey(row[k])]

Rank(key) == IF key = Null THEN -1 ELSE IF key[1] = "n" THEN key[2] ELSE 100 + key[2]
\* The first difference decides.
Before(x, y) == \/ \E k \in DOMAIN x \cap DOMAIN y : /\ Rank(x[k]) < Rank(y[k])
                                                     /\ \A j \in 1 .. k - 1 : x[j] = y[j]
                \/ IsStrictPrefix(x, y)
Order(S, x) == SetToSortSeq(S, LAMBDA i, j : Before(x[i], x[j]) \/ (x[i] = x[j] /\ i < j))

\* By localeCompare, for which the character that stands for null is not there.
Collated(row) == SelectSeq(Keys(row), LAMBDA k : k # Null)
\* The sort is stable.
Sorted(rows) == LET order == Order(DOMAIN rows, [i \in DOMAIN rows |-> Collated(rows[i])])
                IN  [k \in DOMAIN rows |-> rows[order[k]]]

AllEqual(x, y) == /\ Len(x) = Len(y)
                  /\ \A i \in DOMAIN x : \A k \in DOMAIN x[i] : cellsEqual(x[i][k], y[i][k])

\* Of rows, and with rows of one cell of a column's vector.
rowsEqual(gold, pred, ordered) == IF ordered THEN AllEqual(gold, pred)
                                  ELSE Len(gold) = Len(pred) /\ AllEqual(Sorted(gold), Sorted(pred))

Columns(rows) == IF rows = <<>> THEN {} ELSE DOMAIN rows[1]
Vector(rows, c) == [i \in DOMAIN rows |-> <<rows[i][c]>>]
Projected(rows, mapping) == [i \in DOMAIN rows |-> [k \in DOMAIN mapping |-> rows[i][mapping[k]]]]

\* The assignments the search tries: of columns of the same values, one each.
Assignments(gold, pred) == {f \in [Columns(gold) -> Columns(pred)] :
                               /\ IsInjective(f)
                               /\ \A c \in Columns(gold) : rowsEqual(Vector(gold, c), Vector(pred, f[c]), FALSE)}

\* Mutant: the columns match one by one.
compareColumns(gold, pred, ordered) ==
    IF Len(gold) # Len(pred) THEN "row_count"
    ELSE IF gold = <<>> \/ Assignments(gold, pred) # {} THEN "match"
    ELSE "values"

compareResults(gold, pred, ordered) ==
    LET candidates(c) == {d \in Columns(pred) : rowsEqual(Vector(gold, c), Vector(pred, d), FALSE)}
        found(inOrder) == \E f \in Assignments(gold, pred) : rowsEqual(gold, Projected(pred, f), inOrder)
    IN  IF Len(gold) # Len(pred) THEN "row_count"
        ELSE IF gold = <<>> THEN "match"
        ELSE IF \E c \in Columns(gold) : candidates(c) = {} THEN "missing_column"
        ELSE IF found(ordered) THEN "match"
        ELSE IF ordered /\ found(FALSE) THEN "order"
        ELSE "values"

\* Columns in the order of their sorted values, then the rows in order.
resultFingerprint(rows) ==
    LET keys == [i \in DOMAIN rows |-> Keys(rows[i])]
        InOrder(x) == [k \in DOMAIN x |-> x[Order(DOMAIN x, x)[k]]]
        values == [c \in Columns(rows) |-> [i \in DOMAIN rows |-> InOrder(Vector(keys, c))[i][1]]]
    IN  InOrder(Projected(keys, Order(Columns(rows), values)))

\* Of the results of some models: who gave the same answer, the largest group.
Agree(a, b) == compareResults(a, b, FALSE) = "match" \/ compareResults(b, a, FALSE) = "match"
Groups(results) == {g \in SUBSET DOMAIN results : \A i, j \in g : i = j \/ Agree(results[i], results[j])}
consensus(results) ==
    LET largest == {g \in Groups(results) : \A h \in Groups(results) : Cardinality(h) <= Cardinality(g)}
    IN  {g \in largest : Cardinality(g) > 1}
-----------------------------------------------------------------------------
(* The results under an answer, in query order: title (its key), ok (it     *)
(* ran), display, empty, and replaces: an earlier or later query, or 0.     *)
MAX_SHOWN == 3

Replaced(queries) == {queries[q].replaces : q \in {r \in DOMAIN queries : queries[r].ok /\ queries[r].replaces # r}}

shown(queries) ==
    LET displayed == {q \in DOMAIN queries : queries[q].display /\ queries[q].ok /\ q \notin Replaced(queries)}
        current == {q \in displayed : \A r \in displayed : queries[r].title = queries[q].title => r <= q}
        kept == {q \in current : ~queries[q].empty \/ \A r \in current : r <= q}
    IN  {q \in kept : Cardinality({r \in kept : r > q}) < MAX_SHOWN}

-----------------------------------------------------------------------------
(* Results that are the same up to their order and extra columns: some      *)
(* columns of pred, in some order of its rows, are gold's.                  *)
Matches(gold, pred, ordered, Equal(_, _)) ==
    /\ Len(gold) = Len(pred)
    /\ gold # <<>> =>
         \E f \in {g \in [Columns(gold) -> Columns(pred)] : IsInjective(g)},
            p \in IF ordered THEN {[i \in DOMAIN gold |-> i]} ELSE {q \in [DOMAIN gold -> DOMAIN gold] : IsInjective(q)} :
               \A i \in DOMAIN gold : \A c \in Columns(gold) : Equal(gold[i][c], pred[p[i]][f[c]])
SameKey(a, b) == sortKey(a) = sortKey(b)
TellApart(rows) ==
    /\ \A i, j \in DOMAIN rows : Collated(rows[i]) = Collated(rows[j]) => Keys(rows[i]) = Keys(rows[j])
    /\ \A c, d \in Columns(rows) : c = d \/ Sorted(Vector(rows, c)) # Sorted(Vector(rows, d))

(* A match is an alignment of all columns and all rows at once: values of    *)
(* different rows are never mixed into one. Whatever is the same after      *)
(* rounding is found, in any order, unless rows differ only in the place of *)
(* their nulls, and the verdict "wrong order" is given when the rows are    *)
(* right. Two candidate queries whose             *)
(* fingerprints are equal gave the same answer, and no order of the rows or *)
(* of columns that can be told apart makes them differ.                     *)
ComparisonAgrees(gold, pred, ordered) ==
    LET verdict == compareResults(gold, pred, ordered)
        same == Matches(gold, pred, FALSE, SameKey) /\ Columns(gold) = Columns(pred)
    IN  /\ verdict = "match" => Matches(gold, pred, ordered, cellsEqual)
        /\ Matches(gold, pred, ordered, SameKey) /\ TellApart(gold) => verdict = "match"
        /\ verdict = "order" => ordered /\ Matches(gold, pred, FALSE, cellsEqual)
        /\ resultFingerprint(gold) = resultFingerprint(pred) => same
        /\ same /\ TellApart(gold) => resultFingerprint(gold) = resultFingerprint(pred)

(* What is shown under an answer was not corrected by anything that ran, no *)
(* two of it have one title, and an empty result stands only at the end. A  *)
(* correction that fails takes nothing away: unless every displayed result  *)
(* was replaced, the last that was not is shown.                            *)
ShownHolds(queries) ==
    LET tables == shown(queries)
        corrects(r, q) == r # q /\ queries[r].ok /\ queries[r].replaces = q
        standing == {q \in DOMAIN queries : queries[q].ok /\ queries[q].display /\ ~\E r \in DOMAIN queries : corrects(r, q)}
    IN  /\ tables \subseteq standing /\ Cardinality(tables) <= MAX_SHOWN
        /\ \A q, r \in tables : queries[q].title = queries[r].title => q = r
        /\ \A q \in tables : queries[q].empty => \A r \in tables : r <= q
        /\ standing # {} => \E q \in tables : \A r \in standing : r <= q
=============================================================================
