----------------------------- MODULE MdfDecoding -----------------------------
(* mdf/record.ts, lob.ts, types.ts, computed.ts and the comparison of        *)
(* verify.ts: what the reader makes of bytes. The definitions named Written  *)
(* are external: what SQL Server puts into the file. They are used by the    *)
(* properties, which read back what was written.                             *)
(*                                                                           *)
(* MicroDigits and DayMicros stand for 6 and 86 400 000 000.                 *)
EXTENDS Integers, Sequences, FiniteSets, SequencesExt, FiniteSetsExt

CONSTANTS MicroDigits, DayMicros, MaxDepth

Error == <<-1>>
Bytes(buf, from, length) == SubSeq(buf, from + 1, from + length)
\* Little-endian.
uintLE(buf, offset, length) == FoldRight(LAMBDA b, acc : acc * 256 + b, Bytes(buf, offset, length), 0)
UInt16(buf, offset) == uintLE(buf, offset, 2)
Bit(n, k) == (n \div 2^k) % 2 = 1
Ceil(n, d) == (n + d - 1) \div d
-----------------------------------------------------------------------------
(* RecordView: a record's columns                                           *)

RecordView(buf, start) ==
    LET fixedEnd == UInt16(buf, start + 2)
        columnCount == UInt16(buf, start + fixedEnd)
        bitmap == start + fixedEnd + 2
        vars == bitmap + IF Bit(buf[start + 1], 4) THEN Ceil(columnCount, 8) ELSE 0
        varCount == IF Bit(buf[start + 1], 5) THEN UInt16(buf, vars) ELSE 0
    IN  [buf |-> buf, start |-> start, type |-> (buf[start + 1] \div 2) % 8,
         columnCount |-> columnCount,
         nullBitmap |-> IF Bit(buf[start + 1], 4) THEN bitmap ELSE -1,
         varEnds |-> [i \in 1 .. varCount |-> UInt16(buf, vars + 2 * i)],
         varDataStart |-> IF Bit(buf[start + 1], 5) THEN vars + 2 + 2 * varCount ELSE vars]

isNull(rec, bit) == /\ rec.nullBitmap >= 0
                    /\ Bit(rec.buf[rec.nullBitmap + (bit - 1) \div 8 + 1], (bit - 1) % 8)

\* The high bit of an end marks an off-row value, and is no part of it.
varColumn(rec, index) ==
    IF index > Len(rec.varEnds) THEN <<>>
    ELSE LET raw == rec.varEnds[index]
             begin == IF index = 1 THEN rec.varDataStart ELSE rec.start + (rec.varEnds[index - 1] % 32768)
         IN  <<[data |-> Bytes(rec.buf, begin, rec.start + (raw % 32768) - begin), complex |-> raw >= 32768]>>

LE2(n) == <<n % 256, n \div 256>>
WrittenRecord(type, fixed, nulls, columnCount, var) ==
    LET bitmap == [k \in 1 .. Ceil(columnCount, 8) |->
                      SumSet({2^((bit - 1) % 8) : bit \in {b \in nulls : (b - 1) \div 8 = k - 1}})]
        head == <<2 * type + 16 + (IF var = <<>> THEN 0 ELSE 32), 0>> \o LE2(4 + Len(fixed)) \o fixed
                \o LE2(columnCount) \o bitmap
        dataStart == Len(head) + 2 + 2 * Len(var)
        end(i) == dataStart + SumFunction([k \in 1 .. i |-> Len(var[k].data)])
    IN  IF var = <<>> THEN head
        ELSE head \o LE2(Len(var))
             \o FlattenSeq([i \in DOMAIN var |-> LE2(end(i) + IF var[i].complex THEN 32768 ELSE 0)])
             \o FlattenSeq([i \in DOMAIN var |-> var[i].data])

(* Whatever precedes it on its page, a record is read as it was written: its *)
(* type, which columns are null, and each variable column's bytes, off-row   *)
(* or not.                                                                   *)
RecordHolds(in) ==
    LET buf == in.before \o WrittenRecord(in.type, in.fixed, in.nulls, in.columnCount, in.var)
        rec == RecordView(buf, Len(in.before))
    IN  /\ rec.type = in.type /\ rec.columnCount = in.columnCount
        /\ \A bit \in 1 .. in.columnCount : isNull(rec, bit) <=> bit \in in.nulls
        /\ \A i \in 1 .. Len(in.var) + 1 : varColumn(rec, i) = IF i \in DOMAIN in.var THEN <<in.var[i]>> ELSE <<>>
-----------------------------------------------------------------------------
(* LobReader: the file's fragments are a function of their row ids           *)

checked(data, expected) == IF data # Error /\ Len(data) = expected THEN data ELSE Error

Concat(parts) == IF Error \in Range(parts) THEN Error ELSE FlattenSeq(parts)
LastSize(links) == IF links = <<>> THEN 0 ELSE links[Len(links)].size

RECURSIVE readNode(_, _, _)
readNode(file, id, depth) ==
    IF depth > MaxDepth \/ id \notin DOMAIN file THEN Error
    ELSE IF file[id].type = "data" THEN file[id].data
    ELSE LET links == file[id].links
         IN  checked(Concat([k \in DOMAIN links |-> readNode(file, links[k].id, depth + 1)]), LastSize(links))

\* An inline root's links, or the one of a row-overflow pointer.
readComplex(file, links) ==
    checked(Concat([k \in DOMAIN links |-> readNode(file, links[k].id, 0)]), LastSize(links))

\* A value of size bytes, in fragments of two levels: cuts are where they end.
WrittenLob(size, cuts, grouped) ==
    LET ends == SetToSortSeq(cuts \cup {size}, <)
        chunk(k) == LET from == IF k = 1 THEN 0 ELSE ends[k - 1] IN [b \in 1 .. ends[k] - from |-> from + b]
        leaf == [k \in DOMAIN ends |-> [type |-> "data", data |-> chunk(k)]]
        first(g) == IF g = 1 THEN 0 ELSE ends[g - 1]
        inner == [k \in {Len(ends) + j : j \in grouped} |->
                     [type |-> "node", links |-> <<[id |-> k - Len(ends), size |-> Len(chunk(k - Len(ends)))]>>]]
    IN  [file |-> [k \in DOMAIN leaf \cup DOMAIN inner |-> IF k \in DOMAIN leaf THEN leaf[k] ELSE inner[k]],
         links |-> [k \in DOMAIN ends |-> [id |-> IF k \in grouped THEN Len(ends) + k ELSE k, size |-> ends[k]]]]

(* A value comes back whole and in order from any tree of fragments, and     *)
(* from a damaged one - a fragment gone, cut short or its own descendant -   *)
(* as an error, never as other bytes.                                        *)
LobHolds(in) ==
    LET lob == WrittenLob(in.size, in.cuts, in.grouped)
        value == [b \in 1 .. in.size |-> b]
        without(id) == [k \in DOMAIN lob.file \ {id} |-> lob.file[k]]
        short(id) == [lob.file EXCEPT ![id].data = Tail(@)]
        looped(id) == [lob.file EXCEPT ![id].links[1].id = id]
    IN  /\ readComplex(lob.file, lob.links) = value
        /\ \A id \in DOMAIN lob.file :
              /\ readComplex(without(id), lob.links) = Error
              /\ IF lob.file[id].type = "data" THEN readComplex(short(id), lob.links) = Error
                 ELSE readComplex(looped(id), lob.links) = Error
-----------------------------------------------------------------------------
(* decodeTypeInfo and decodeValue                                            *)

Decimals == {106, 108}
TimeTypes == {41, 42, 43}
Strings == {165, 167, 173, 175, 231, 239}
decimalBytes(precision) == IF precision <= 9 THEN 5 ELSE IF precision <= 19 THEN 9 ELSE IF precision <= 28 THEN 13 ELSE 17
timeBytes(scale) == IF scale <= 2 THEN 3 ELSE IF scale <= 4 THEN 4 ELSE 5

MaxTypes == {98, 241}  \* sql_variant and xml, of no declared length
FIXED_LENGTH == [t \in {34, 35, 36, 40, 48, 52, 56, 58, 59, 60, 61, 62, 99, 104, 122, 127, 189} |->
    CASE t \in {34, 35, 36, 99} -> 16 [] t = 40 -> 3 [] t \in {48, 104} -> 1 [] t = 52 -> 2
      [] t \in {56, 58, 59, 122} -> 4 [] OTHER -> 8]

decodeTypeInfo(ti) ==
    LET xtype == ti % 256  hi == ti \div 256
        Info(length, precision, scale) == [xtype |-> xtype, length |-> length, precision |-> precision, scale |-> scale]
    IN  IF xtype \in Decimals THEN Info(decimalBytes(hi % 256), hi % 256, (hi \div 256) % 256)
        ELSE IF xtype \in TimeTypes
        THEN Info(timeBytes(hi % 256) + (CASE xtype = 41 -> 0 [] xtype = 42 -> 3 [] xtype = 43 -> 5), 0, hi % 256)
        ELSE IF xtype \in Strings THEN Info(IF hi % 65536 = 0 THEN -1 ELSE hi % 65536, 0, 0)
        ELSE IF xtype \in MaxTypes THEN Info(-1, 0, 0)
        ELSE IF xtype \in DOMAIN FIXED_LENGTH THEN Info(FIXED_LENGTH[xtype], 0, 0)
        ELSE Error

\* Ticks of a scale finer than a microsecond are rounded half up.
timeMicros(ticks, scale) == IF scale <= MicroDigits THEN ticks * 10^(MicroDigits - scale)
                            ELSE LET div == 10^(scale - MicroDigits) IN (ticks + div \div 2) \div div

TimeOf(ticks, scale) == Min({timeMicros(ticks, scale), DayMicros - 1})

\* Carries into the next day, except past the last one.
DateTime2(day, ticks, scale, lastDay) ==
    LET micros == timeMicros(ticks, scale)
    IN  day * DayMicros + IF day = lastDay /\ micros >= DayMicros THEN DayMicros - 1 ELSE micros

\* 1/300 of a second, in microseconds.
DateTimeMicros(ticks) == (ticks * 10000 + 1) \div 3

\* The base type's properties precede a variant's value.
variantHeader(xtype) == 2 + (IF xtype \in {167, 175, 231, 239} THEN 6
                             ELSE IF xtype \in {165, 173} \cup Decimals THEN 2
                             ELSE IF xtype \in TimeTypes THEN 1 ELSE 0)
decodeSqlVariant(buf) == Bytes(buf, variantHeader(buf[1]), Len(buf) - variantHeader(buf[1]))

\* DecimalValue.toString: the digits before and after the point.
DecimalText(unscaled, scale) ==
    LET RECURSIVE digitsOf(_)
        digitsOf(n) == IF n < 10 THEN <<n>> ELSE Append(digitsOf(n \div 10), n % 10)
        digits == digitsOf(IF unscaled < 0 THEN -unscaled ELSE unscaled)
        padded == [k \in 1 .. Max({0, scale + 1 - Len(digits)}) |-> 0] \o digits
    IN  [negative |-> unscaled < 0, int |-> SubSeq(padded, 1, Len(padded) - scale),
         frac |-> SubSeq(padded, Len(padded) - scale + 1, Len(padded))]

\* The reciprocal of m / 10^d, as r / 10^(k): none if it does not terminate.
exactReciprocal(m, d) ==
    LET power(p) == Max({e \in 0 .. 10 : m % p^e = 0})
        k == Max({power(2), power(5)})
    IN  IF m = 0 \/ m # 2^power(2) * 5^power(5) THEN <<>> ELSE <<10^(d + k) \div m, k>>

\* Multiset difference of two lists of rows.
compareRows(ours, theirs) ==
    LET count(rows, key) == Cardinality({i \in DOMAIN rows : rows[i] = key})
        keys == Range(ours) \cup Range(theirs)
        over(a, b) == MapThenSumSet(LAMBDA key : Max({0, count(a, key) - count(b, key)}), keys)
    IN  [missing |-> over(theirs, ours), extra |-> over(ours, theirs)]

(* Times keep their order and are off by at most half a microsecond, except  *)
(* where rounding would leave the last day; a time of day stays in its day.  *)
TimesHold(in) ==
    LET instant == DateTime2(in.day, in.ticks, in.scale, in.lastDay)
        finest == 10^MicroDigits  unit == 10^in.scale
        exact == in.day * DayMicros * unit + in.ticks * finest
        off == instant * unit - exact
    IN  /\ in.day = in.lastDay \/ 2 * off \in -unit .. unit
        /\ instant < (in.lastDay + 1) * DayMicros
        /\ \A t \in 0 .. in.ticks : DateTime2(in.day, t, in.scale, in.lastDay) <= instant
        /\ TimeOf(in.ticks, in.scale) \in 0 .. DayMicros - 1
        /\ 3 * DateTimeMicros(in.ticks) - 10000 * in.ticks \in -1 .. 1

(* A type is read back with its precision and scale, its bytes hold as many  *)
(* digits or ticks, and a variant's value is what follows its properties.    *)
TypesHold(in) ==
    LET ti == in.xtype + 256 * in.precision + 65536 * in.scale
        type == decodeTypeInfo(ti)
        properties == [k \in 1 .. variantHeader(in.xtype) |-> IF k = 1 THEN in.xtype ELSE 0]
    IN  /\ in.xtype \in Decimals => /\ type.precision = in.precision /\ type.scale = in.scale
                                    /\ type.length > decimalBytes(1) => in.precision > 9
                                    /\ 1000 * in.precision <= 2408 * (type.length - 1)
        /\ in.xtype \in TimeTypes => type.scale = in.precision
        /\ type.length > 0 \/ (in.xtype \in Strings \cup MaxTypes /\ type.length = -1)
        /\ in.xtype \in Strings /\ in.precision > 0 => type.length = in.precision + 256 * in.scale
        /\ decodeSqlVariant(properties \o in.value) = in.value

(* A number's text and its reciprocal are exact, and tables differ by what   *)
(* is left when equal rows are paired off.                                   *)
NumbersHold(in) ==
    LET text == DecimalText(in.unscaled, in.scale)
        value(digits) == FoldLeft(LAMBDA acc, n : acc * 10 + n, 0, digits)
        r == exactReciprocal(in.literal, in.scale)
    IN  /\ (IF text.negative THEN -1 ELSE 1) * (value(text.int) * 10^in.scale + value(text.frac)) = in.unscaled
        /\ Len(text.frac) = in.scale /\ text.int # <<>>
        /\ r # <<>> => r[1] * in.literal = 10^(in.scale + r[2])
        /\ r = <<>> /\ in.literal # 0 => \A k \in 0 .. 5 : 10^k % in.literal # 0

RowsHold(ours, theirs) ==
    LET result == compareRows(ours, theirs)
    IN  /\ result = [missing |-> 0, extra |-> 0] <=> \E p \in [DOMAIN ours -> DOMAIN theirs] :
              IsInjective(p) /\ Len(ours) = Len(theirs) /\ \A i \in DOMAIN ours : ours[i] = theirs[p[i]]
        /\ Len(ours) - result.extra = Len(theirs) - result.missing
-----------------------------------------------------------------------------
(* The catalog (mdf/catalog.ts, export-duckdb.ts): the tables, columns and   *)
(* keys of a database, from the rows of its system tables, and what of them  *)
(* is copied. SystemRows is external: what SQL Server stores of a schema,    *)
(* sets of rows in no order. A name is a model value, a deny or an exclude   *)
(* pattern the set of names it matches.                                      *)
(*                                                                           *)
(* A schema is, of each table id: [name, shipped, heap, compressed, columns, *)
(* pk, included, fks]. A column is of a kind: stored, persisted (computed,   *)
(* but in the rows), computed, or dropped; columns are numbered as they were *)
(* added. pk, included and a foreign key's columns are column numbers.       *)

Ids(schema) == DOMAIN schema
Defined(table) == {c \in DOMAIN table.columns : table.columns[c].kind # "dropped"}

SystemRows(schema) ==
    LET columns == {tc \in Ids(schema) \X (1 .. 3) : tc[2] \in DOMAIN schema[tc[1]].columns}
        Col(tc) == schema[tc[1]].columns[tc[2]]
        fks == UNION {{[id |-> 10 * t + k, fk |-> schema[t].fks[k], parent |-> t] : k \in DOMAIN schema[t].fks} : t \in Ids(schema)}
    IN  [schobjs |-> {[id |-> t, name |-> schema[t].name, type |-> "U", shipped |-> schema[t].shipped, pid |-> 0] : t \in Ids(schema)}
                     \cup {[id |-> f.id, name |-> "fk", type |-> "F", shipped |-> FALSE, pid |-> f.parent] : f \in fks},
         rowsets |-> {[idmajor |-> t, idminor |-> IF schema[t].heap THEN 0 ELSE 1, compressed |-> schema[t].compressed] : t \in Ids(schema)},
         colpars |-> {[id |-> tc[1], colid |-> tc[2], name |-> Col(tc).name, computed |-> Col(tc).kind \in {"computed", "persisted"},
                       nullable |-> Col(tc).nullable] : tc \in {x \in columns : Col(x).kind # "dropped"}},
         \* The uniqueifier of a clustered index and dropped columns have storage, too.
         rscols |-> {[id |-> tc[1], rscolid |-> tc[2], dropped |-> Col(tc).kind = "dropped", uniqueifier |-> FALSE] :
                         tc \in {x \in columns : Col(x).kind # "computed"}}
                    \cup {[id |-> t, rscolid |-> 1, dropped |-> FALSE, uniqueifier |-> TRUE] : t \in {s \in Ids(schema) : ~schema[s].heap}},
         objvalues |-> {tc \in columns : Col(tc).kind \in {"computed", "persisted"}},
         idxstats |-> {[id |-> t, indid |-> 2] : t \in {s \in Ids(schema) : schema[s].pk # <<>>}},
         iscols |-> UNION {{[id |-> t, indid |-> 2, ordinal |-> k, key |-> TRUE, included |-> FALSE, intprop |-> schema[t].pk[k]] :
                                k \in DOMAIN schema[t].pk}
                           \cup {[id |-> t, indid |-> 2, ordinal |-> 0, key |-> TRUE, included |-> TRUE, intprop |-> c] : c \in schema[t].included}
                           \* A second index of the table.
                           \cup {[id |-> t, indid |-> 3, ordinal |-> 1, key |-> TRUE, included |-> FALSE, intprop |-> c] : c \in Defined(schema[t])}
                           : t \in Ids(schema)},
         objrefs |-> UNION {{[class |-> 28, depid |-> f.id, depsubid |-> k, indepid |-> f.parent, indepsubid |-> f.fk.from[k]] : k \in DOMAIN f.fk.from}
                            \cup {[class |-> 29, depid |-> f.id, depsubid |-> k, indepid |-> f.fk.table, indepsubid |-> f.fk.to[k]] : k \in DOMAIN f.fk.to}
                            : f \in fks}]
-----------------------------------------------------------------------------
(* Catalog.tables()                                                          *)

NameOf(columns, colid) == columns[CHOOSE k \in DOMAIN columns : columns[k].colid = colid].name

PrimaryKey(sys, t, columns) ==
    LET indexes == {r.indid : r \in {s \in sys.idxstats : s.id = t}}
        rows == {r \in sys.iscols : r.id = t /\ r.indid \in indexes /\ r.key /\ ~r.included}
        order == SetToSortSeq(rows, LAMBDA a, b : a.ordinal < b.ordinal)
    IN  [k \in DOMAIN order |-> NameOf(columns, order[k].intprop)]

\* Without what is dropped and the uniqueifier.
Physical(sys, t) == {r.rscolid : r \in {s \in sys.rscols : s.id = t /\ ~s.dropped /\ ~s.uniqueifier}}

ColumnDefs(sys, t) ==
    LET pars == SetToSortSeq({r \in sys.colpars : r.id = t}, LAMBDA a, b : a.colid < b.colid)
    IN  [k \in DOMAIN pars |-> [colid |-> pars[k].colid, name |-> pars[k].name, nullable |-> pars[k].nullable,
                                computed |-> pars[k].computed /\ pars[k].colid \notin Physical(sys, t)]]

UserTables(sys) == {o \in sys.schobjs : o.type = "U" /\ ~o.shipped}
IndexOf(sys, t) == IF \E r \in sys.rowsets : r.idmajor = t /\ r.idminor = 1 THEN 1 ELSE 0

\* A table this reader cannot decode, or one without storage for a column.
Undecodable(sys, t) ==
    \/ \E r \in sys.rowsets : r.idmajor = t /\ r.idminor = IndexOf(sys, t) /\ r.compressed
    \/ \E r \in sys.colpars : /\ r.id = t /\ r.colid \notin Physical(sys, t)
                              /\ ~(r.computed /\ <<t, r.colid>> \in sys.objvalues)
Refused(sys) == \E o \in UserTables(sys) : Undecodable(sys, o.id)

tables(sys) ==
    [t \in {o.id : o \in UserTables(sys)} |->
        LET columns == ColumnDefs(sys, t)
        IN  [name |-> (CHOOSE o \in UserTables(sys) : o.id = t).name, columns |-> columns,
             heap |-> IndexOf(sys, t) = 0, primaryKey |-> PrimaryKey(sys, t, columns)]]

\* Of the tables known: the two sides are paired in their order.
foreignKeys(sys, defs) ==
    LET side(fk, class) == SetToSortSeq({r \in sys.objrefs : r.class = class /\ r.depid = fk.id}, LAMBDA a, b : a.depsubid < b.depsubid)
        known(fk) == /\ fk.type = "F" /\ fk.pid \in DOMAIN defs
                     /\ side(fk, 28) # <<>> /\ Len(side(fk, 28)) = Len(side(fk, 29))
                     /\ side(fk, 29)[1].indepid \in DOMAIN defs
        names(refs) == [k \in DOMAIN refs |-> NameOf(defs[refs[1].indepid].columns, refs[k].indepsubid)]
    IN  {[table |-> fk.pid, columns |-> names(side(fk, 28)), refTable |-> side(fk, 29)[1].indepid,
          refColumns |-> names(side(fk, 29))] : fk \in {o \in sys.schobjs : known(o)}}
-----------------------------------------------------------------------------
(* exportMdfToDuckDb: tables without the excluded, columns without the       *)
(* denied, and what _meta says of their keys.                                *)
Exported(sys, exclude) == LET defs == tables(sys) IN [t \in {x \in DOMAIN defs : defs[x].name \notin exclude} |-> defs[t]]
Columns(def, deny) == SelectSeq(def.columns, LAMBDA c : c.name \notin deny)
MetaForeignKeys(sys, exclude, deny) ==
    LET copied == Exported(sys, exclude)
    IN  {fk \in foreignKeys(sys, tables(sys)) : /\ {fk.table, fk.refTable} \subseteq DOMAIN copied
                                                /\ Range(fk.columns \o fk.refColumns) \cap deny = {}}
-----------------------------------------------------------------------------
(* The catalog is the schema it was written from: every table with its       *)
(* columns in order, stored or computed, the keys with their columns in the  *)
(* order and pairs they were declared in, whatever was dropped, included in  *)
(* an index or shipped with the server; what cannot be decoded is refused.   *)
(* And _meta names no foreign key over a column or table that was not copied.*)
CatalogHolds(schema, exclude, deny) ==
    LET sys == SystemRows(schema)
        defs == tables(sys)
        user == {t \in Ids(schema) : ~schema[t].shipped}
        kept(t) == SetToSortSeq(Defined(schema[t]), <)
        name(t, c) == schema[t].columns[c].name
        declared == UNION {{[table |-> t, columns |-> [i \in DOMAIN f.from |-> name(t, f.from[i])], refTable |-> f.table,
                             refColumns |-> [i \in DOMAIN f.to |-> name(f.table, f.to[i])]] : f \in Range(schema[t].fks)} : t \in user}
        copiedNames(t) == {c.name : c \in Range(Columns(defs[t], deny))}
    IN  IF \E t \in user : schema[t].compressed THEN Refused(sys)
        ELSE /\ ~Refused(sys)
             /\ defs = [t \in user |->
                   [name |-> schema[t].name, heap |-> schema[t].heap,
                    columns |-> [k \in DOMAIN kept(t) |-> LET c == schema[t].columns[kept(t)[k]] IN
                        [colid |-> kept(t)[k], name |-> c.name, nullable |-> c.nullable, computed |-> c.kind = "computed"]],
                    primaryKey |-> [k \in DOMAIN schema[t].pk |-> name(t, schema[t].pk[k])]]]
             /\ foreignKeys(sys, defs) = {f \in declared : f.refTable \in user}
             /\ \A f \in MetaForeignKeys(sys, exclude, deny) :
                   /\ Range(f.columns) \subseteq copiedNames(f.table) /\ Range(f.refColumns) \subseteq copiedNames(f.refTable)
                   /\ {schema[f.table].name, schema[f.refTable].name} \cap exclude = {}
=============================================================================
