----------------------------- MODULE ChartChoice -----------------------------
(* lib/chart.ts and components/Chart.tsx of the phone app: how a result is   *)
(* drawn, and the axes and marks it is drawn with. A column's name is the    *)
(* class its patterns put it in, an axis label the value it stands for;      *)
(* colors, words and number formats are left out.                            *)
EXTENDS Integers, Sequences, FiniteSets, SequencesExt, FiniteSetsExt

CONSTANTS MAX_SERIES, MAX_GROUPED, MAX_POINTS, MAX_BARS, MAX_DONUT, COLUMNS_MAX, COLUMNS_PREFERRED_MAX

Null == <<>>
Num(n) == <<"n", n>>
Text(t) == <<"s", t>>
\* "amount" and "share" are measures by name, "previous" is the amount of an
\* earlier period.
Names == {"amount", "previous", "share", "id", "year", "month", "label"}
Grain(name) == CASE name = "year" -> 1 [] name = "month" -> 3 [] OTHER -> 0
ValueOf(cell) == IF cell = Null THEN 0 ELSE cell[2]
Table == "table"
NotLong == "not long"
Sum(values) == SumFunction(values)
Peak(values) == Max({IF v < 0 THEN -v ELSE v : v \in Range(values)})
Positive(values) == \A v \in Range(values) : v >= 0

numericColumn(rows, c) == /\ \E i \in DOMAIN rows : rows[i][c] # Null /\ rows[i][c][1] = "n"
                          /\ \A i \in DOMAIN rows : rows[i][c] = Null \/ rows[i][c][1] = "n"
Numeric(r) == {c \in DOMAIN r.names : numericColumn(r.rows, c)}
Times(r) == {c \in DOMAIN r.names : Grain(r.names[c]) > 0}
Id(r) == {c \in DOMAIN r.names : r.names[c] = "id"}
Measures(r) == Numeric(r) \ (Times(r) \cup Id(r))
\* The finest time column, a name before its number.
Axis(r) == LET finest == {c \in Times(r) : \A d \in Times(r) : Grain(r.names[d]) <= Grain(r.names[c])}
               named == finest \ Numeric(r)
           IN  IF named # {} THEN Min(named) ELSE Min(finest)
Column(r, c) == [i \in DOMAIN r.rows |-> ValueOf(r.rows[i][c])]

growthOf(values) ==
    LET n == Len(values)
        change(from) == IF n >= 2 /\ from # 0 THEN <<values[n] - from, Peak(<<from>>)>> ELSE <<>>
    IN  [change |-> IF n >= 2 THEN change(values[n - 1]) ELSE <<>>, overall |-> change(values[1]),
         peak |-> Min({i \in DOMAIN values : \A j \in DOMAIN values : values[j] <= values[i]})]

\* One row of a value and its previous period, in either order.
statOf(r) ==
    LET c == CHOOSE d \in DOMAIN r.names : r.names[d] # "previous"
        value == ValueOf(r.rows[1][c])  previous == ValueOf(r.rows[1][3 - c])
    IN  [kind |-> "stat", value |-> value, previous |-> previous,
         change |-> IF previous = 0 THEN <<>> ELSE <<value - previous, Peak(<<previous>>)>>]

OneRow(r) ==
    LET columns == DOMAIN r.names
        earlier == {c \in columns : r.names[c] = "previous"}
    IN  IF Len(r.names) = 2 /\ Cardinality(earlier) = 1 /\ Numeric(r) \ Id(r) = columns THEN statOf(r)
        ELSE IF Len(r.names) \in 2 .. 4 /\ Measures(r) = columns
        THEN [kind |-> "kpis", values |-> [c \in columns |-> ValueOf(r.rows[1][c])]]
        ELSE [kind |-> Table]

\* The share columns go, and measures that would be flat on the first one's scale.
comparable(r, series) ==
    LET amounts == SelectSeq(series, LAMBDA c : r.names[c] # "share")
        kept == IF amounts = <<>> THEN <<series[1]>> ELSE amounts
        lead == Peak(Column(r, kept[1]))
    IN  IF Len(series) < 2 THEN series
        ELSE SelectSeq(kept, LAMBDA c : \/ c = kept[1]
                                        \/ /\ lead > 0 /\ 10 * Peak(Column(r, c)) >= lead
                                           /\ Peak(Column(r, c)) <= 10 * lead)

\* In percent, or as ratios: 0 when they are not shares of one whole.
wholeFromShares(amounts, shares) ==
    LET scale == IF Sum(shares) <= 1 THEN 1 ELSE 100
        estimates == SortSeq(SelectSeq([i \in DOMAIN amounts |->
                         IF shares[i] > 0 THEN (amounts[i] * scale) \div shares[i] ELSE -1], LAMBDA e : e >= 0), <)
    IN  IF Sum(shares) <= 0 \/ 100 * Sum(shares) > 101 * scale \/ estimates = <<>> THEN 0
        ELSE estimates[Len(estimates) \div 2 + 1]
-----------------------------------------------------------------------------
(* Long rows: x, a second dimension and one measure                         *)

Distinct(seq) == SelectSeq([i \in DOMAIN seq |-> <<i, seq[i]>>],
                           LAMBDA p : \A j \in 1 .. p[1] - 1 : seq[j] # p[2])
Keys(rows, c) == LET q == Distinct([i \in DOMAIN rows |-> rows[i][c]]) IN [i \in DOMAIN q |-> q[i][2]]
RowsAt(r, x, key) == {i \in DOMAIN r.rows : r.rows[i][x] = key}

Cell(r, x, dim, m, key, d) ==
    MapThenSumSet(LAMBDA i : ValueOf(r.rows[i][m]), {i \in RowsAt(r, x, key) : r.rows[i][dim] = d})

\* dims in the order of their totals, byDim the values of each; the last are
\* summed up in one.
Series(dims, byDim, keep) ==
    LET shown == IF Len(dims) > keep + 1 THEN keep ELSE Len(dims)
        head == [k \in 1 .. shown |-> [name |-> dims[k], values |-> byDim[k]]]
        rest == [name |-> "other", values |-> [i \in DOMAIN byDim[1] |->
                    MapThenSumSet(LAMBDA k : byDim[k][i], shown + 1 .. Len(dims))]]
    IN  IF shown < Len(dims) THEN Append(head, rest) ELSE head

Drawn(r, x, dim, xKeys, dims, byDim, order, isTime, prefer) ==
    LET positive == \A k \in DOMAIN dims : Positive(byDim[k])
        grouped == ~isTime /\ prefer # "stacked" /\ Len(dims) <= MAX_GROUPED
        stack == /\ positive /\ prefer # "line" /\ Len(xKeys) <= COLUMNS_PREFERRED_MAX
                 /\ prefer = "stacked" \/ Len(xKeys) <= COLUMNS_MAX
        kind == IF isTime THEN (IF stack THEN "stacked" ELSE "trend")
                ELSE IF grouped THEN "bars" ELSE IF positive THEN "stacked" ELSE Table
        sorted(seq) == [k \in DOMAIN dims |-> seq[order[k]]]
    IN  IF Len(xKeys) < 2 \/ Len(xKeys) > (IF isTime THEN MAX_POINTS ELSE MAX_BARS) THEN [kind |-> Table]
        ELSE IF \A key \in Range(xKeys) : Cardinality({r.rows[i][dim] : i \in RowsAt(r, x, key)}) = 1 THEN [kind |-> NotLong]
        ELSE IF kind = Table THEN [kind |-> Table]
        ELSE [kind |-> kind, labels |-> xKeys,
              series |-> Series(sorted(dims), sorted(byDim), IF grouped THEN MAX_GROUPED ELSE MAX_SERIES)]

ByTotal(byDim) == SetToSortSeq(DOMAIN byDim, LAMBDA a, b : \/ Sum(byDim[a]) > Sum(byDim[b])
                                                          \/ (Sum(byDim[a]) = Sum(byDim[b]) /\ a < b))

Pivoted(r, x, dim, m, isTime, prefer) ==
    LET found == Keys(r.rows, x)
        xs == IF isTime THEN SortSeq(found, LAMBDA a, b : ValueOf(a) < ValueOf(b)) ELSE found
        ds == Keys(r.rows, dim)
        byDim == [k \in DOMAIN ds |-> [i \in DOMAIN xs |-> Cell(r, x, dim, m, xs[i], ds[k])]]
    IN  Drawn(r, x, dim, xs, ds, byDim, ByTotal(byDim), isTime, prefer)

pivotLong(r, prefer) ==
    LET text == (DOMAIN r.names \ Numeric(r)) \ (Times(r) \cup Id(r))
        m == Min(Measures(r))
    IN  IF Cardinality(Measures(r)) # 1 THEN [kind |-> NotLong]
        ELSE IF Times(r) # {} /\ Cardinality(text) = 1 THEN Pivoted(r, Axis(r), Min(text), m, TRUE, prefer)
        ELSE IF Times(r) = {} /\ Cardinality(text) = 2 THEN Pivoted(r, Min(text), Max(text), m, FALSE, prefer)
        ELSE [kind |-> NotLong]
-----------------------------------------------------------------------------
Donut(r, labels, values, shares) ==
    LET whole == IF shares = {} THEN 0 ELSE wholeFromShares(values, Column(r, Min(shares)))
    IN  IF 1000 * (whole - Sum(values)) > 5 * whole
        THEN [kind |-> "donut", labels |-> Append(labels, "other"), total |-> whole,
              series |-> <<[name |-> "amount", values |-> Append(values, whole - Sum(values))]>>]
        ELSE [kind |-> "donut", labels |-> labels, total |-> Sum(values), series |-> <<[name |-> "amount", values |-> values]>>]

\* The other results: one axis, up to three measures.
Flat(r, wantsShare, prefer) ==
    LET text == DOMAIN r.names \ Numeric(r)
        onTime == Times(r) # {}
        x == IF onTime THEN Axis(r) ELSE Min(text)
        found == SetToSortSeq(Measures(r) \ {x}, <)
        measures == SubSeq(found, 1, Min({3, Len(found)}))
        kept == comparable(r, measures)
        series == [k \in DOMAIN kept |-> [name |-> r.names[kept[k]], values |-> Column(r, kept[k])]]
        labels == [i \in DOMAIN r.rows |-> r.rows[i][x]]
        single == Len(series) = 1
        positive == \A k \in DOMAIN series : Positive(series[k].values)
        shares == {c \in Range(measures) : r.names[c] = "share"}
        most == IF prefer \in {"column", "bar"} THEN COLUMNS_PREFERRED_MAX ELSE COLUMNS_MAX
        Spec(kind) == [kind |-> kind, labels |-> labels, series |-> series]
    IN  IF \/ ~onTime /\ Cardinality(text) # 1
           \/ measures = <<>>
           \/ text \ (Times(r) \cup {x}) # {}
        THEN [kind |-> Table]
        ELSE IF onTime THEN Spec(IF single /\ positive /\ Len(labels) <= most /\ prefer # "line" THEN "columns" ELSE "trend")
        ELSE IF Len(labels) > MAX_BARS THEN [kind |-> Table]
        ELSE IF /\ single /\ positive /\ Sum(series[1].values) > 0
                /\ Len(labels) \in 2 .. MAX_DONUT
                /\ prefer = "donut" \/ (prefer # "bar" /\ (wantsShare \/ shares # {}))
        THEN Donut(r, labels, series[1].values, shares)
        ELSE Spec("bars")

inferChart(r, wantsShare, prefer) ==
    LET pivot == pivotLong(r, prefer)
    IN  IF r.rows = <<>> THEN [kind |-> Table]
        ELSE IF Len(r.rows) = 1 THEN OneRow(r)
        ELSE IF pivot.kind # NotLong THEN pivot
        ELSE IF Len(r.rows) > MAX_POINTS \/ Len(r.names) < 2 THEN [kind |-> Table]
        ELSE Flat(r, wantsShare, prefer)

\* The column a table draws bars in, and whether its rows are a ranking.
magnitudeColumn(r) ==
    LET fit == {c \in Measures(r) : Positive(Column(r, c))}
    IN  IF Len(r.rows) < 3 \/ fit = {} THEN 0 ELSE IF Peak(Column(r, Min(fit))) > 0 THEN Min(fit) ELSE 0
isRanking(r, c) == LET v == Column(r, c) IN
    /\ Numeric(r) # DOMAIN r.names
    /\ \A i \in 2 .. Len(v) : v[i] <= v[i - 1]
    /\ v[1] > v[Len(v)]
-----------------------------------------------------------------------------
Shows(r, spec, long) ==
    LET at(i) == MapThenSumSet(LAMBDA k : spec.series[k].values[i], DOMAIN spec.series)
        inRows(label) == {i \in DOMAIN r.rows : \E c \in DOMAIN r.names \ Measures(r) : r.rows[i][c] = label}
        measured(i) == MapThenSumSet(LAMBDA c : ValueOf(r.rows[i][c]), Measures(r))
    IN  Len(r.rows) > 1 /\ spec.kind # Table =>
          /\ \A k \in DOMAIN spec.series : Len(spec.series[k].values) = Len(spec.labels)
          /\ long => /\ \A i \in DOMAIN spec.labels : at(i) = MapThenSumSet(measured, inRows(spec.labels[i]))
                     /\ Cardinality(Range(spec.labels)) = Len(spec.labels)
                     /\ Len(spec.series) <= Max({MAX_SERIES, MAX_GROUPED}) + 1
          /\ ~long => \E x \in DOMAIN r.names, m \in Measures(r) : \A i \in DOMAIN r.rows :
                          spec.labels[i] = r.rows[i][x] /\ spec.series[1].values[i] = ValueOf(r.rows[i][m])
          /\ spec.kind \in {"stacked", "donut", "columns"} => \A k \in DOMAIN spec.series : Positive(spec.series[k].values)
          /\ spec.kind = "donut" => Sum(spec.series[1].values) = spec.total /\ Len(spec.labels) <= MAX_DONUT + 1
          /\ Len(spec.labels) <= MAX_POINTS

(* A chart shows the result's numbers, all of them and once: at a label the *)
(* series add up to the rows of that label, however many were folded into   *)
(* "other". Shares add up to their whole and are drawn of positive numbers  *)
(* only, as are stacks; and no chart has more series, slices or points than *)
(* can be read.                                                             *)
ChartHolds(r, wantsShare, prefer) ==
    Shows(r, inferChart(r, wantsShare, prefer), pivotLong(r, prefer).kind # NotLong)
-----------------------------------------------------------------------------
(* Axes, ticks, marks and short numbers (components/Chart.tsx, lib/chart.ts): *)
(* numbers are integers; those of an axis count thousandths, and a length    *)
(* within a plot counts 1/max of a pixel, where max is the end of its axis.  *)

Thousandths == 1000
Abs(n) == IF n < 0 THEN -n ELSE n
AtLeast(low, n) == IF n < low THEN low ELSE n
AtMost(high, n) == IF n > high THEN high ELSE n
Total(values) == FoldLeft(LAMBDA a, b : a + b, 0, values)
-----------------------------------------------------------------------------
(* Axes *)

\* From 10: the largest power of ten that is not more than v.
Base(v) == Max({b \in {10, 100, 1000, 10000, 100000, 1000000, 10000000, 100000000} : b <= v})
niceMax(v) == IF v <= 0 THEN Thousandths
              ELSE Min({m \in {Base(v), 2 * Base(v), (5 * Base(v)) \div 2, 5 * Base(v), 10 * Base(v)} : v <= m})

lineDomain(values) ==
    LET lo == Min(Range(values))  hi == Max(Range(values))
        span == IF hi # lo THEN hi - lo ELSE IF hi # 0 THEN Abs(hi) ELSE Thousandths
        step == niceMax(span \div 4) \div 2
        top == -((-hi) \div step) * step
    IN  IF lo >= 0 /\ 2 * lo < hi THEN [min |-> 0, max |-> niceMax(hi)]
        ELSE [min |-> (lo \div step) * step, max |-> IF top = 0 THEN step ELSE top]

Every(n, plotW, per) == LET fit == AtLeast(1, plotW \div per) IN AtLeast(1, (n + fit - 1) \div fit)
showTick(k, n, every) == k = n - 1 \/ (k % every = 0 /\ n - 1 - k >= every)
Ticks(n, plotW, per) == {k \in 0 .. n - 1 : showTick(k, n, Every(n, plotW, per))}
-----------------------------------------------------------------------------
(* Short numbers: of n / 1000 in thousandths, the digits kept and the unit   *)

Rounded(n, to) == ((n + to \div 2) \div to) * to
\* n counts thousandths: two, one or no decimals.
fmt(n) == Rounded(n, IF n >= 100000 THEN 1000 ELSE IF n >= 10000 THEN 100 ELSE 10)
\* Units of a thousand, from n whole.
compactNumber(n) ==
    IF 2 * n >= 1999 * 1000000 THEN [unit |-> "B", digits |-> fmt(n \div 1000000)]
    ELSE IF 2 * n >= 1999 * 1000 THEN [unit |-> "M", digits |-> fmt(n \div 1000)]
    ELSE IF 2 * n >= 1999 THEN [unit |-> "K", digits |-> fmt(n)]
    ELSE [unit |-> "", digits |-> fmt(n * 1000)]
UnitOf(c) == CASE c.unit = "" -> 1 [] c.unit = "K" -> 1000 [] c.unit = "M" -> 1000000 [] c.unit = "B" -> 1000000000

\* Of a ratio in thousandths: the percentage in tenths; from ten on, whole.
percent(ratio) == [up |-> ratio >= 0, tenths |-> IF Abs(ratio) >= 100 THEN Rounded(Abs(ratio), 10) ELSE Abs(ratio)]
-----------------------------------------------------------------------------
(* Marks *)

\* A column or bar from zero: what is not zero has two pixels.
Length(v, max, plot) == AtLeast(IF v > 0 THEN 2 * max ELSE 0, v * plot)

\* Of two values at bands a and b: whether both labels have room.
labelRoom(a, b, band, chars) == 10 * Abs(a - b) * band >= 36 * chars + 60

\* The selected period, the last when none is, and its change: <<>> without a
\* previous value.
Readout(values, sel) ==
    LET i == IF sel = 0 THEN Len(values) ELSE sel
        prev == IF i > 1 THEN values[i - 1] ELSE 0
    IN  [at |-> i, change |-> IF prev = 0 THEN <<>> ELSE <<values[i] - prev, Abs(prev)>>]
pressed(sel, k) == IF sel = k THEN 0 ELSE k

\* Horizontal bars: the labels' column, the plot and where the longest value begins.
BarColumns(width, widest, valueW) ==
    LET labelW == AtMost(150, AtMost((width * 38) \div 100, AtLeast(64, widest + 10)))
    IN  [labelW |-> labelW, plotW |-> AtLeast(10, width - labelW - valueW - 8)]

\* A stack: of each part that is not zero, where it is drawn, one pixel of
\* surface between.
stack(values, max, plot, columns) ==
    LET visible == SelectSeq([i \in DOMAIN values |-> i], LAMBDA i : values[i] > 0)
        before(j) == Total([k \in 1 .. j - 1 |-> values[visible[k]]]) * plot
        from(j) == before(j) + IF j > 1 THEN max ELSE 0
        to(j) == before(j) + values[visible[j]] * plot - IF j < Len(visible) THEN max ELSE 0
        drawn(j) == AtLeast(max, to(j) - from(j))
    IN  [j \in DOMAIN visible |->
            IF columns /\ j < Len(visible) THEN [of |-> visible[j], from |-> to(j) - drawn(j), to |-> to(j)]
            ELSE [of |-> visible[j], from |-> from(j), to |-> from(j) + drawn(j)]]

\* A turn is 6283 thousandths of its radius; gaps of 30. Lengths count 1/total.
donutArcs(values, total) ==
    [i \in DOMAIN values |->
        LET a0 == 6283 * Total(SubSeq(values, 1, i - 1))
            a1 == 6283 * Total(SubSeq(values, 1, i))
        IN  [from |-> a0, to |-> AtLeast(a0, a1 - IF Len(values) > 1 THEN 30 * total ELSE 0)]]
-----------------------------------------------------------------------------
(* An axis holds every value it is drawn for, with a range that is empty     *)
(* only when all of them are the same (then the line is drawn at the bottom) *)
(* and is not much larger than they are.                                     *)
AxisHolds(values) ==
    LET d == lineDomain(values)  lo == Min(Range(values))  hi == Max(Range(values))
    IN  /\ d.min <= d.max /\ (lo # hi => d.min < d.max) /\ d.min <= lo /\ hi <= d.max
        /\ hi > 0 => niceMax(hi) >= hi /\ 2 * niceMax(hi) <= 5 * hi
        /\ d.min # 0 => 2 * (d.max - d.min) <= 5 * AtLeast(1, IF hi = lo THEN Abs(hi) ELSE hi - lo)

(* The last label is on the axis, and no two labels are closer than the      *)
(* width that was counted for one, however many there are; when the plot is  *)
(* as narrow as one label, one is left.                                      *)
TicksHold(n, plotW, per) ==
    LET ticks == Ticks(n, plotW, per)
    IN  /\ n - 1 \in ticks
        /\ \A a, b \in ticks : a < b => b - a >= Every(n, plotW, per)
        /\ plotW >= per => (Every(n, plotW, per) * plotW) >= per * n \/ Cardinality(ticks) * per <= plotW + per

(* A short number has three digits before its unit at most, is within half a *)
(* percent of what it stands for, and grows with it.                         *)
ShortHolds(n, m) ==
    LET c == compactNumber(n)  value(x) == compactNumber(x).digits * (UnitOf(compactNumber(x)) \div 1000)
    IN  /\ c.digits < 1000 * Thousandths
        /\ n >= 1000 => 200 * Abs(value(n) - n) <= n
        /\ n <= m /\ n >= 1000 => value(n) <= value(m)
        /\ percent(n).tenths % 10 = 0 \/ percent(n).tenths < 100

(* Every part of a total that is not zero is drawn, in its order, within two *)
(* pixels of its place, and parts that have the room do not overlap; the     *)
(* whole is as long as the total on the axis it is drawn on.                 *)
StackHolds(values, plot, columns) ==
    LET total == Total(values)  max == niceMax(total * Thousandths)  s == stack([i \in DOMAIN values |-> values[i] * Thousandths], max, plot, columns)
        place(j) == Total([i \in 1 .. s[j].of |-> values[i]]) * Thousandths * plot
    IN  /\ {s[j].of : j \in DOMAIN s} = {i \in DOMAIN values : values[i] > 0}
        /\ \A j \in DOMAIN s : /\ s[j].to - s[j].from >= max
                               /\ Abs(s[j].to - place(j)) <= 2 * max
                               /\ s[j].from >= -(2 * max) /\ s[j].to <= plot * max + 2 * max
        /\ \A j \in 2 .. Len(s) :
               /\ s[j - 1].of < s[j].of
               /\ values[s[j].of] * Thousandths * plot >= 3 * max /\ values[s[j - 1].of] * Thousandths * plot >= 3 * max => s[j - 1].to < s[j].from
        /\ total > 0 => Length(total * Thousandths, max, plot) <= plot * max

(* Bars and their values stay within the width; the parts of a ring do not   *)
(* overlap, none is turned round, and they end within the turn.              *)
MarksHold(width, widest, valueW, values, sel) ==
    LET b == BarColumns(width, widest, valueW)  arcs == donutArcs(values, Total(values))  r == Readout(values, sel)
    IN  /\ width >= 160 => b.labelW + b.plotW + valueW + 8 <= width
        /\ \A i \in DOMAIN arcs : /\ arcs[i].from <= arcs[i].to
                                  /\ i > 1 => arcs[i - 1].to <= arcs[i].from
                                  /\ arcs[i].to <= 6283 * Total(values)
        /\ r.at = (IF sel = 0 THEN Len(values) ELSE sel)
        /\ r.change # <<>> => r.change[2] > 0
        /\ pressed(pressed(sel, 1), 1) \in {sel, 0, 1}
=============================================================================
