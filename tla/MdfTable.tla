------------------------------ MODULE MdfTable -----------------------------
(* mdf/mdf-file.ts, record.ts and rows.ts: the rows of a table, read from   *)
(* the pages of a data file. What SQL Server does to the file before it was *)
(* copied is external, as far as the reader handles it: rows are inserted,  *)
(* updated, forwarded to another page and deleted, columns added without    *)
(* rewriting the rows, and dropped.                                         *)
(*                                                                          *)
(* A record is what RecordView reads of its bytes, a value a model value,   *)
(* off-row values included (their trees are in MdfDecoding).                *)
EXTENDS Integers, Sequences, FiniteSets, SequencesExt

CONSTANTS Rows,       \* the rows' keys
          MaxColumns,
          PageCount,  \* of the file: page 0 holds no data
          ExtentSize, \* 8
          SlotCount

BoundsAssumption == {MaxColumns, PageCount, ExtentSize, SlotCount} \subseteq Nat \ {0}

VARIABLES columns,  \* by null bit; the first is the key
          page,     \* of each: whose it is, and its slots
          singles,  \* the IAM page's single-page slots
          extents,  \* and its bitmap
          table     \* what a SELECT in SQL Server returns: of each row, its values

vars == <<columns, page, singles, extents, table>>

Null == "NULL"
Empty == ""
NoRow == <<>>
Kinds == {"fixed", "var"}
Pages == 1 .. PageCount - 1
Slots == 1 .. SlotCount
ValuesOf(kind) == IF kind = "fixed" THEN {"x", Null} ELSE {"x", Empty, Null}
Deleted == [type |-> "none"]
Ghost == [type |-> "ghost"]
Stub == [type |-> "stub"]

Column == [kind : Kinds, default : {"x", Null}, dropped : BOOLEAN]
Live == {i \in DOMAIN columns : ~columns[i].dropped}

Init == /\ columns = <<[kind |-> "fixed", default |-> Null, dropped |-> FALSE]>>
        /\ \E owner \in [Pages -> {"table", "other", "index"}] :
              page = [p \in Pages |-> [owner |-> owner[p], slots |-> [s \in Slots |->
                        IF owner[p] = "table" THEN Deleted ELSE [type |-> "primary"]]]]
        /\ \E p \in Pages : page[p].owner = "table"
        /\ extents \in SUBSET (0 .. (PageCount - 1) \div ExtentSize)
        /\ singles = {p \in Pages : page[p].owner = "table" /\ p \div ExtentSize \notin extents}
        /\ table = [r \in Rows |-> NoRow]
-----------------------------------------------------------------------------
(* SQL Server *)

VarIndex(i) == Cardinality({j \in 1 .. i : columns[j].kind = "var"})

\* A record as it is written now: dropped columns are null, and variable columns
\* at its end are left out when they are empty.
Written(type, values) ==
    LET stored == [i \in DOMAIN columns |-> IF i \in Live THEN values[i] ELSE Null]
        bytes(k) == LET i == CHOOSE j \in DOMAIN columns : columns[j].kind = "var" /\ VarIndex(j) = k
                    IN  IF stored[i] = Null THEN Empty ELSE stored[i]
        count == VarIndex(Len(columns))
        kept == {k \in 1 .. count : bytes(k) # Empty}
        last == IF kept = {} THEN 0 ELSE CHOOSE k \in kept : \A j \in kept : j <= k
    IN  [type |-> type,
         columnCount |-> Len(columns),
         nulls |-> {i \in DOMAIN columns : stored[i] = Null},
         fixed |-> [i \in {j \in DOMAIN columns : columns[j].kind = "fixed"} |-> stored[i]],
         var |-> [k \in 1 .. last |-> bytes(k)]]

RowValues(r) == {[v EXCEPT ![1] = r] : v \in {w \in [DOMAIN columns -> {"x", Empty, Null}] :
                    \A i \in DOMAIN columns : w[i] \in ValuesOf(columns[i].kind)}}
Place(r) == CHOOSE ps \in Pages \X Slots : LET rec == page[ps[1]].slots[ps[2]] IN
               page[ps[1]].owner = "table" /\ rec.type \in {"primary", "forwarded"} /\ rec.fixed[1] = r
Free == {ps \in Pages \X Slots : page[ps[1]].owner = "table" /\ page[ps[1]].slots[ps[2]] = Deleted}
Put(pages, ps, rec) == [pages EXCEPT ![ps[1]].slots[ps[2]] = rec]

Insert(r) == /\ table[r] = NoRow
             /\ \E v \in RowValues(r), ps \in Free :
                   /\ table' = [table EXCEPT ![r] = v]
                   /\ page' = Put(page, ps, Written("primary", v))
             /\ UNCHANGED <<columns, singles, extents>>

\* In its place, or where there is room for it, with a stub left behind.
Update(r) == /\ table[r] # NoRow
             /\ \E v \in RowValues(r) :
                   /\ table' = [table EXCEPT ![r] = v]
                   /\ LET at == Place(r)  type == page[at[1]].slots[at[2]].type
                      IN  \/ page' = Put(page, at, Written(type, v))
                          \/ \E ps \in Free : page' = Put(Put(page, at, IF type = "primary" THEN Stub ELSE Deleted),
                                                          ps, Written("forwarded", v))
             /\ UNCHANGED <<columns, singles, extents>>

Delete(r) == /\ table[r] # NoRow
             /\ table' = [table EXCEPT ![r] = NoRow]
             /\ LET at == Place(r) IN \E left \in {Deleted, Ghost} :
                   page' = Put(page, at, left)
             /\ UNCHANGED <<columns, singles, extents>>

\* Rows that are there get the default without being written.
AddColumn == /\ Len(columns) < MaxColumns
             /\ \E c \in Column : /\ ~c.dropped
                                  /\ columns' = Append(columns, c)
                                  /\ table' = [r \in Rows |-> IF table[r] = NoRow THEN NoRow ELSE Append(table[r], c.default)]
             /\ UNCHANGED <<page, singles, extents>>

DropColumn == /\ \E i \in Live \ {1} : /\ columns' = [columns EXCEPT ![i].dropped = TRUE]
                                       /\ table' = [r \in Rows |-> IF table[r] = NoRow THEN NoRow
                                                                   ELSE [table[r] EXCEPT ![i] = Null]]
              /\ UNCHANGED <<page, singles, extents>>

Next == AddColumn \/ DropColumn \/ \E r \in Rows : Insert(r) \/ Update(r) \/ Delete(r)
Spec == Init /\ [][Next]_vars
-----------------------------------------------------------------------------
(* The reader *)

allocatedPages == singles \cup {p \in Pages : p \div ExtentSize \in extents}

pageRecords(p) == {s \in Slots : page[p].slots[s].type \in {"primary", "forwarded"}}

records == {ps \in allocatedPages \X Slots : page[ps[1]].owner = "table" /\ ps[2] \in pageRecords(ps[1])}

\* Mutant: a column is in every record.
valueStored(rec, i) ==
    IF i \in rec.nulls THEN Null
    ELSE IF columns[i].kind = "fixed" THEN (IF i \in DOMAIN rec.fixed THEN rec.fixed[i] ELSE Null)
    ELSE IF VarIndex(i) > Len(rec.var) THEN Empty
    ELSE rec.var[VarIndex(i)]

value(rec, i) ==
    IF i > rec.columnCount THEN columns[i].default
    ELSE IF i \in rec.nulls THEN Null
    ELSE IF columns[i].kind = "fixed" THEN rec.fixed[i]
    ELSE IF VarIndex(i) > Len(rec.var) THEN Empty
    ELSE rec.var[VarIndex(i)]

rows(ps) == [i \in Live |-> value(page[ps[1]].slots[ps[2]], i)]

TypeOK == /\ columns \in Seq(Column) /\ Len(columns) \in 1 .. MaxColumns
          /\ \A p \in Pages : DOMAIN page[p].slots = Slots
          /\ singles \subseteq Pages /\ extents \subseteq {p \div ExtentSize : p \in Pages}
          /\ DOMAIN table = Rows /\ \A r \in Rows : table[r] # NoRow => Len(table[r]) = Len(columns)

(* The reader returns the table: every row once, wherever its record went,  *)
(* with the values SQL Server would return, for rows from before and after  *)
(* columns came and went, and nothing of what was deleted or of others.     *)
ReadsTable ==
    LET present == {r \in Rows : table[r] # NoRow}
    IN  /\ {rows(ps) : ps \in records} = {[i \in Live |-> table[r][i]] : r \in present}
        /\ Cardinality(records) = Cardinality(present)
=============================================================================
