------------------------------ MODULE MdfExport ------------------------------
(* mdf/export-duckdb.ts, cli.ts and verify.ts: imports that write a query   *)
(* database beside the output and then put it in its place, and the check   *)
(* of the output against the SQL Server that holds the same data. The       *)
(* temporary name is the output's with the process id: imports of different *)
(* processes (the command line's) write beside each other, while two of one *)
(* process (the server's, whose reloads may overlap) share it. An import    *)
(* can fail at any step and its process be killed. Which tables and columns *)
(* are copied is MdfDecoding's, what a row holds MdfTable's and             *)
(* MdfDecoding's; here a table is its rows' version and whether its computed *)
(* columns could be evaluated.                                              *)
EXTENDS Integers, Sequences, FiniteSets

CONSTANTS Imports,    \* the imports that may be run
          Processes,  \* process ids; an id comes back after its process ended
          Tables,     \* the sequence of the tables to copy
          Computed    \* of each table: has it a computed column

Nobody == "nobody"

ExportAssumption == Tables \in Seq(DOMAIN Computed) \ {<<>>} /\ Nobody \notin Imports

VARIABLES source,    \* the version of the data file
          job,       \* of each import: where it is and what it reported
          file,      \* the database it writes
          temp,      \* whose database is at each process's temporary name
          output,    \* whose is at the name the server opens
          verdicts   \* what the verifications said, with what they compared

exportVars == <<source, job, file, temp, output, verdicts>>

\* alone: no other import wrote under the same name meanwhile.
Blank(v) == [version |-> v, tables |-> <<>>, keys |-> FALSE, flushed |-> FALSE, alone |-> TRUE]
Idle == [st |-> "idle", in |-> Nobody, warnings |-> {}, verify |-> FALSE]
Writes == {"tables", "keys", "checkpoint", "rename"}
Running == Writes \cup {"verify"}
Whole(copy) ==
    /\ Len(copy.tables) = Len(Tables) /\ copy.keys /\ copy.flushed
    /\ \A i \in DOMAIN copy.tables : copy.tables[i].name = Tables[i] /\ copy.tables[i].rows = copy.version
-----------------------------------------------------------------------------
(* How a column's value is written by both sides of the comparison, by type. *)

Types == {"tinyint", "smallint", "int", "bigint", "bit", "decimal", "numeric", "money", "smallmoney", "float", "real",
          "datetime", "smalldatetime", "datetime2", "datetimeoffset", "date", "time", "uniqueidentifier",
          "char", "varchar", "text", "nchar", "nvarchar", "ntext", "binary", "varbinary", "image", "timestamp", "sql_variant"}
\* The DuckDB type a value is appended as.
duckType(type) ==
    CASE type \in {"tinyint", "smallint", "int", "bigint"} -> "integer"
      [] type \in {"decimal", "numeric", "money", "smallmoney"} -> "decimal"
      [] type \in {"float", "real"} -> "double"
      [] type \in {"datetime", "smalldatetime", "datetime2"} -> "timestamp"
      [] type \in {"char", "varchar", "text", "nchar", "nvarchar", "ntext"} -> "text"
      [] type = "bit" -> "boolean" [] type = "datetimeoffset" -> "instant"
      [] type \in {"date", "time"} -> type
      [] type = "uniqueidentifier" -> "uuid" [] OTHER -> "blob"
\* What SQL Server renders, and what the converted file's value becomes.
tsqlCanonical(type) ==
    CASE type = "bit" -> "true/false"
      [] type \in {"datetime", "smalldatetime", "datetime2", "datetimeoffset", "time"} -> "micros"
      [] type = "date" -> "day" [] type \in {"money", "smallmoney"} -> "digits"
      [] type \in {"float", "real"} -> "number" [] type = "uniqueidentifier" -> "lower"
      [] type \in {"char", "nchar"} -> "trimmed bytes"
      [] type \in {"varchar", "nvarchar", "text", "ntext", "binary", "varbinary", "image", "timestamp"} -> "bytes"
      [] OTHER -> "digits"
\* A char is stored without its padding.
textHex(type) == IF type \in {"char", "nchar"} THEN "trimmed bytes" ELSE "bytes"
duckCanonical(type) ==
    CASE duckType(type) \in {"timestamp", "instant", "time"} -> "micros"
      [] type = "date" -> "day" [] type \in {"binary", "varbinary", "image", "timestamp"} -> "bytes"
      [] duckType(type) = "text" -> textHex(type) [] duckType(type) = "double" -> "number"
      [] duckType(type) = "boolean" -> "true/false" [] duckType(type) = "uuid" -> "lower"
      [] type = "sql_variant" -> "escaped bytes" [] OTHER -> "digits"
-----------------------------------------------------------------------------
Init == /\ source = 1 /\ job = [i \in Imports |-> Idle] /\ file = [i \in Imports |-> Blank(1)]
        /\ temp = [p \in Processes |-> Nobody] /\ output = Nobody /\ verdicts = {}

Step(i, st) == job' = [job EXCEPT ![i].st = st]
Beside(p) == {j \in Imports : job[j].in = p /\ job[j].st \in Writes}

\* What is at the temporary name is removed, whoever wrote it or still does. The
\* data file stays open: one that replaces it is not read.
Start(i, p) ==
    /\ job[i].st = "idle"
    /\ \E verify \in BOOLEAN : job' = [job EXCEPT ![i] = [st |-> "tables", in |-> p, warnings |-> {}, verify |-> verify]]
    /\ file' = [j \in Imports |-> IF j = i THEN [Blank(source) EXCEPT !.alone = Beside(p) = {}]
                                  ELSE IF j \in Beside(p) THEN [file[j] EXCEPT !.alone = FALSE] ELSE file[j]]
    /\ temp' = [temp EXCEPT ![p] = i]
    /\ UNCHANGED <<source, output, verdicts>>

\* A computed column whose formula cannot be translated or run stays NULL, with
\* a warning.
exportTable(i) ==
    /\ job[i].st = "tables"
    /\ LET k == Len(file[i].tables) + 1
           table == Tables[k]
       IN  \E evaluated \in (IF Computed[table] THEN BOOLEAN ELSE {TRUE}) :
             /\ file' = [file EXCEPT ![i].tables = Append(@, [name |-> table, rows |-> file[i].version, evaluated |-> evaluated])]
             /\ job' = [job EXCEPT ![i].st = IF k = Len(Tables) THEN "keys" ELSE @,
                                   ![i].warnings = IF evaluated THEN @ ELSE @ \cup {table}]
    /\ UNCHANGED <<source, temp, output, verdicts>>

writeKeys(i) == /\ job[i].st = "keys" /\ Step(i, "checkpoint") /\ file' = [file EXCEPT ![i].keys = TRUE]
                /\ UNCHANGED <<source, temp, output, verdicts>>

Checkpoint(i) == /\ job[i].st = "checkpoint" /\ Step(i, "rename") /\ file' = [file EXCEPT ![i].flushed = TRUE]
                 /\ UNCHANGED <<source, temp, output, verdicts>>

\* A page that cannot be read, a column that cannot be decoded, a full disk:
\* what is at the temporary name is removed.
Fail(i) == /\ job[i].st \in {"tables", "keys", "checkpoint"} /\ Step(i, "failed")
           /\ temp' = [temp EXCEPT ![job[i].in] = Nobody]
           /\ UNCHANGED <<source, file, output, verdicts>>

\* What is there becomes the output; another import may have taken it.
Rename(i) ==
    LET named == temp[job[i].in]
    IN  /\ job[i].st = "rename"
        /\ IF named = Nobody THEN Step(i, "failed") /\ UNCHANGED output
           ELSE Step(i, IF job[i].verify THEN "verify" ELSE "done") /\ output' = named
        /\ temp' = [temp EXCEPT ![job[i].in] = Nobody]
        /\ UNCHANGED <<source, file, verdicts>>

\* The output may be in use: the written file stays beside it.
RenameFails(i) == job[i].st = "rename" /\ Step(i, "failed") /\ UNCHANGED <<source, file, temp, output, verdicts>>

\* A process ends with all its imports.
Kill(p) == /\ \E i \in Imports : job[i].in = p /\ job[i].st \in Running
           /\ job' = [i \in Imports |-> IF job[i].in = p /\ job[i].st \in Running
                                         THEN [job[i] EXCEPT !.st = "killed"] ELSE job[i]]
           /\ UNCHANGED <<source, file, temp, output, verdicts>>

\* The output is opened by its path: another import may have replaced it. The
\* tables compared are those it lists itself.
verifyAgainstSqlServer(i) ==
    /\ job[i].st = "verify" /\ Step(i, "done")
    /\ LET tables == file[output].tables
           same == \A k \in DOMAIN tables : tables[k].rows = source /\ tables[k].evaluated
       IN  verdicts' = verdicts \cup {[same |-> same, file |-> file[output]]}
    /\ UNCHANGED <<source, file, temp, output>>

\* Another data file is put in the place of this one.
Changes == source = 1 /\ source' = 2 /\ UNCHANGED <<job, file, temp, output, verdicts>>

Next == \/ Changes
        \/ \E i \in Imports : \/ exportTable(i) \/ writeKeys(i) \/ Checkpoint(i) \/ Fail(i)
                              \/ Rename(i) \/ RenameFails(i) \/ verifyAgainstSqlServer(i)
        \/ \E p \in Processes : Kill(p) \/ \E i \in Imports : Start(i, p)
-----------------------------------------------------------------------------
TypeOK == /\ source \in {1, 2} /\ output \in Imports \cup {Nobody}
          /\ \A i \in Imports : /\ job[i].st \in Running \cup {"idle", "done", "failed", "killed"}
                                /\ job[i].in \in Processes \cup {Nobody}
          /\ \A p \in Processes : temp[p] \in Imports \cup {Nobody}

\* Unless another import of the same process wrote meanwhile, an import is seen
\* at the output only whole, every table with its rows and the keys, all on
\* disk, wherever it or others failed or were killed; one that failed leaves
\* nothing in part behind; and whatever the server opens, its NULL columns are
\* in the report of the import that wrote it (export-duckdb.ts).
OutputWhole ==
    /\ output # Nobody =>
          /\ file[output].alone => Whole(file[output])
          /\ \A k \in DOMAIN file[output].tables :
                ~file[output].tables[k].evaluated => file[output].tables[k].name \in job[output].warnings
    /\ \A i \in Imports : job[i].st \in {"failed", "done"} /\ file[i].alone /\ temp[job[i].in] = i
                            => Whole(file[i])

\* A verification that finds all tables identical saw an import complete, of
\* which the file itself says nothing, unless another of its process wrote
\* beside it; each type's values are compared in a form both sides share, but
\* for a sql_variant, which is copied as bytes and can never compare equal
\* (verify.ts).
VerifiedWhole ==
    /\ \A v \in verdicts : v.same /\ v.file.alone => Whole(v.file)
    /\ {type \in Types : tsqlCanonical(type) # duckCanonical(type)} = {"sql_variant"}
=============================================================================
