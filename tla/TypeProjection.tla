--------------------------- MODULE TypeProjection ---------------------------
(***************************************************************************)
(* The type OID a PostgreSQL-protocol connection announces for a result    *)
(* column (src/pg_conn.go, src/pg_types.go, and duck2pgType in the Go code *)
(* of src/Dockerfile).  RunStmt announces it in two ways: from the Go      *)
(* value of the first row (SendRowDescription, toPgValue), or, when the    *)
(* result is empty, from the engine type name the DESCRIBE side query      *)
(* returns (inferStmtOutputNamesAndTypes, SendRowDescriptionWithColumn-    *)
(* NameAndTypes, duck2pgType, pgOidFromType); DescribePrepared always      *)
(* takes the second way.  A Go panic ends the process.                     *)
(*                                                                         *)
(* A statement's result is abstracted to one column of an engine type; a   *)
(* row's value in it is NULL or the Go value the driver (go-duckdb v1.7)   *)
(* scans for that type.                                                    *)
(***************************************************************************)
EXTENDS Naturals, FiniteSets

CONSTANTS
    EngineTypes   \* engine column types of the statements clients run

\* The Go type go-duckdb scans each engine type into (the driver's contract).
GoKind ==
    [t \in {"BOOLEAN", "TINYINT", "SMALLINT", "INTEGER", "BIGINT", "HUGEINT", "FLOAT",
            "DOUBLE", "VARCHAR", "BLOB", "DECIMAL", "DATE", "TIMESTAMP", "VARCHAR[]",
            "INTEGER[]"} |->
        CASE t = "BOOLEAN" -> "bool"      [] t = "TINYINT" -> "int8"
          [] t = "SMALLINT" -> "int16"    [] t = "INTEGER" -> "int32"
          [] t = "BIGINT" -> "int64"      [] t = "HUGEINT" -> "*big.Int"
          [] t = "FLOAT" -> "float32"     [] t = "DOUBLE" -> "float64"
          [] t = "VARCHAR" -> "string"    [] t = "BLOB" -> "[]byte"
          [] t = "DECIMAL" -> "duckdb.Decimal"
          [] t \in {"DATE", "TIMESTAMP"} -> "time.Time"
          [] t = "VARCHAR[]" -> "[]any of string"
          [] t = "INTEGER[]" -> "[]any of int32"]

ASSUME EngineTypes \subseteq DOMAIN GoKind

VARIABLES
    announced,    \* engine type -> the OIDs RowDescriptions gave its columns
    crashed       \* a panic ended the process

vars == <<announced, crashed>>

\* pgTypes and typeOidMap: the protocol type names the server knows, with their OIDs.
PgTypes == [bool |-> 16, bytea |-> 17, char |-> 18, int8 |-> 20, int4 |-> 21,
            float4 |-> 700, float8 |-> 701, text |-> 25, numeric |-> 1700,
            timestamp |-> 1114]

\* pgOidFromType: the zero value 0 for a name the map lacks.
PgOidFromType(name) == IF name \in DOMAIN PgTypes THEN PgTypes[name] ELSE 0

\* duck2pgTypeMap; duck2pgType panics (logrus.Panicf) on any other type.
Duck2PgTypeMap ==
    [t \in {"BOOLEAN", "VARCHAR", "INTEGER", "BIGINT", "DOUBLE", "TIMESTAMP",
            "DECIMAL", "DATE", "VARCHAR[]"} |->
        CASE t = "BOOLEAN" -> "bool"      [] t = "VARCHAR" -> "text"
          [] t = "INTEGER" -> "int4"      [] t = "BIGINT" -> "int8"
          [] t = "DOUBLE" -> "float8"     [] t = "TIMESTAMP" -> "timestamp"
          [] t = "DECIMAL" -> "numeric"   [] t = "DATE" -> "date"
          [] t = "VARCHAR[]" -> "text"]

(***************************************************************************)
(* toPgValue: the pgType (pgTypeFromOid) of a Go value, with ok FALSE    *)
(* for a type its switch has no case for.  nil, string, time.Time and      *)
(* []any are text; int8 is "char" (18), int16 and int32 are 21, both       *)
(* floats 701.  An []any is text if every element converts.                *)
(***************************************************************************)
ToPgValue(k) ==
    LET Converted(oid) == [ok |-> TRUE, oid |-> oid] IN
    CASE k = "nil" -> Converted(25)                [] k = "bool" -> Converted(16)
      [] k = "int8" -> Converted(18)               [] k \in {"int16", "int32"} -> Converted(21)
      [] k = "int64" -> Converted(20)              [] k \in {"float32", "float64"} -> Converted(701)
      [] k \in {"string", "time.Time", "[]any of string", "[]any of int32"} -> Converted(25)
      [] k = "duckdb.Decimal" -> Converted(1700)
      [] OTHER -> [ok |-> FALSE, oid |-> 0]

Init ==
    /\ announced = [t \in EngineTypes |-> {}]
    /\ crashed = FALSE

Announce(t, oid) ==
    /\ announced' = [announced EXCEPT ![t] = @ \cup {oid}]
    /\ UNCHANGED crashed

(***************************************************************************)
(* A simple query whose result has rows: SendRowDescription with the first *)
(* row's values; a value toPgValue rejects is panic(err).                  *)
(***************************************************************************)
QueryWithRows(t, firstIsNull) ==
    /\ ~crashed
    /\ LET v == ToPgValue(IF firstIsNull THEN "nil" ELSE GoKind[t]) IN
       IF v.ok
       THEN Announce(t, v.oid)
       ELSE /\ crashed' = TRUE
            /\ UNCHANGED announced

(***************************************************************************)
(* The DESCRIBE side query, for a simple query with an empty result and    *)
(* for DescribePrepared: the OID of duck2pgType's name for the engine      *)
(* type, which panics for a type the map lacks.                            *)
(***************************************************************************)
DescribeColumns(t) ==
    /\ ~crashed
    /\ IF t \in DOMAIN Duck2PgTypeMap
       THEN Announce(t, PgOidFromType(Duck2PgTypeMap[t]))
       ELSE /\ crashed' = TRUE
            /\ UNCHANGED announced

Next ==
    \E t \in EngineTypes :
        \/ \E firstIsNull \in BOOLEAN : QueryWithRows(t, firstIsNull)
        \/ DescribeColumns(t)

Spec == Init /\ [][Next]_vars

-----------------------------------------------------------------------------
TypeOK ==
    /\ announced \in [EngineTypes -> SUBSET ({0} \cup {PgTypes[n] : n \in DOMAIN PgTypes})]
    /\ crashed \in BOOLEAN

(***************************************************************************)
(* A column's type is announced with one OID whichever way the             *)
(* RowDescription is built: from the first row, from DESCRIBE for an       *)
(* empty result, or by Describe (spec section 9 (ii): one OID per engine   *)
(* column type, consistently).                                             *)
(***************************************************************************)
OidPerColumnType == \A t \in EngineTypes : Cardinality(announced[t]) <= 1

=============================================================================
