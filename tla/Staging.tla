------------------------------ MODULE Staging ------------------------------
(***************************************************************************)
(* The use tako makes of the schema registry: POST /table makes a staging  *)
(* table for a schema, POST /upload prepares a file with a schema and      *)
(* copies it, by position, into a table made before.  Either request looks *)
(* its schema up on its own.                                               *)
(***************************************************************************)
EXTENDS SchemaRegistry

CONSTANTS
    Frames,         \* the files that are uploaded
    Submissions     \* the versions the registry's other users register: [key, schema]; the
                    \* server itself only looks schemas up

\* Columns and hubs are lists, and a data frame names no column twice.
ASSUME StagingAssumption ==
    /\ DOMAIN Files = Keys
    /\ \A s \in Submissions : s.key \in Keys /\ s.schema # None
    /\ \A raw \in ({s.schema : s \in Submissions} \union UNION {Files[k] : k \in Keys}) \ {None} :
         /\ IsSeq(raw.columns)
         /\ raw.core # None => IsSeq(raw.core)
         /\ raw.hubs # None => IsSeq(raw.hubs)
    /\ \A frame \in Frames : IsSeq(frame) /\ IsInjective(NamesOf(frame))

VARIABLES
    table,          \* the staging table, [columns, schema], or None
    task            \* the request each thread serves: [kind, frame, file, schema]

vars == <<registry, table, task>>

NoTask == [kind |-> "none", frame |-> <<>>, file |-> None, schema |-> None]

StagingInit ==
    /\ Init
    /\ table = None
    /\ task = [t \in Threads |-> NoTask]

Begin(t, kind, frame) ==
    task' = [task EXCEPT ![t] = [NoTask EXCEPT !.kind = kind, !.frame = frame]]

\* The reply of the registry has been used.
Rest(t) == thread' = [thread EXCEPT ![t] = Idle] /\ UNCHANGED <<files, schemas, versions>>

End(t) == Rest(t) /\ task' = [task EXCEPT ![t] = NoTask]

Submit(t) ==
    /\ \E s \in Submissions : Register(t, s.key, Resolve(s.schema))
    /\ Begin(t, "register", <<>>)
    /\ UNCHANGED table

Answer(t) ==
    /\ At(t, "done")
    /\ task[t].kind = "register"
    /\ End(t)
    /\ UNCHANGED table

AskTable(t) ==
    /\ \E k \in Keys : GetOrLoad(t, k)
    /\ Begin(t, "create", <<>>)
    /\ UNCHANGED table

\* CREATE TABLE IF NOT EXISTS; naming a column twice is an error.
CreateTable(t) ==
    LET schema == thread[t].schema
        columns == EnrichedColumns(schema)
        created == schema # None /\ table = None /\ IsInjective(NamesOf(columns))
    IN  /\ At(t, "done")
        /\ task[t].kind = "create"
        /\ table' = IF created THEN [columns |-> columns, schema |-> schema] ELSE table
        /\ End(t)

AskUpload(t) ==
    /\ \E k \in Keys, frame \in Frames :
         GetOrLoad(t, k) /\ Begin(t, "upload", frame)
    /\ UNCHANGED table

\* The decode task; a file that does not fit its schema is refused.
PrepareFile(t) ==
    LET schema == thread[t].schema
        accepted == schema # None /\ Accepted(schema, task[t].frame)
    IN  /\ At(t, "done")
        /\ task[t].kind = "upload"
        /\ Rest(t)
        /\ task' = [task EXCEPT ![t] = IF ~accepted THEN NoTask
                      ELSE [kind |-> "copy", frame |-> <<>>,
                            file |-> Prepare(schema, task[t].frame), schema |-> schema]]
        /\ UNCHANGED table

\* COPY matches the file with the table by position and ends the request, whether
\* the warehouse takes the rows or not.
Copy(t) ==
    /\ task[t].kind = "copy"
    /\ task' = [task EXCEPT ![t] = NoTask]
    /\ UNCHANGED <<registry, table>>

Request(t) == task[t].kind = "none" /\ (Submit(t) \/ AskTable(t) \/ AskUpload(t))
Lookup(t) == Step(t) /\ UNCHANGED <<table, task>>

\* Tables outlive the process, requests do not.
Redeploy ==
    /\ Restart
    /\ task' = [t \in Threads |-> NoTask]
    /\ UNCHANGED table

Next ==
    \/ \E t \in Threads :
         Request(t) \/ Lookup(t) \/ Answer(t) \/ CreateTable(t) \/ PrepareFile(t) \/ Copy(t)
    \/ Redeploy

Spec == StagingInit /\ [][Next]_vars

-----------------------------------------------------------------------------
(* Properties *)

\* The schemas that may ever be registered for a key: the ones its files resolve to and
\* the ones the other users submit.
Claimed(k) ==
    ({Resolve(raw) : raw \in Files[k] \ {None}}
       \union {Resolve(s.schema) : s \in {r \in Submissions : r.key = k}}) \ {None}

\* A schema that is served, recorded or about to be, was given for that very key; a
\* version is recorded once, and the table names no column twice.
TypeOK ==
    /\ \A k \in Keys : /\ files[k] \in Files[k]
                       /\ schemas[k] \in Claimed(k) \union {None}
                       /\ versions[k] \subseteq Claimed(k)
                       /\ \A r, s \in versions[k] : r.version = s.version => r = s
    /\ \A t \in Threads :
         /\ thread[t].at \in {"idle", "check", "parent", "insert", "record", "get", "done"}
         /\ At(t, "insert") \/ At(t, "record") => thread[t].schema \in Claimed(thread[t].key)
         /\ task[t].kind \in {"none", "register", "create", "upload", "copy"}
    /\ table # None => IsInjective(NamesOf(table.columns))

\* "Both the table DDL and the written Parquet derive from" the columns of the
\* schema: a file that was prepared with the schema the table was made for has the
\* columns of the table, in order, whatever the uploaded file looked like; only a
\* satellite without a business key may bring more, behind them.
FilesFitTheirTable ==
    \A t \in Threads :
      LET file == task[t].file
          mayBringMore == AllowsExtra(table.schema) /\ table.schema.key = {}
      IN  task[t].kind = "copy" /\ table # None /\ task[t].schema = table.schema =>
            IF mayBringMore THEN IsPrefix(table.columns, file) ELSE file = table.columns

\* An uploaded file is judged by the columns it brings, not by their order nor by
\* what else is in it: it is refused only if a declared column is missing or of
\* another type, the business key is not among the columns that are kept, or the
\* table would name a column twice.
JudgedByColumns ==
    \A t \in Threads :
      LET schema == thread[t].schema
          frame == task[t].frame
          kept == IF AllowsExtra(schema) THEN Names(frame) ELSE Names(schema.columns)
      IN  At(t, "done") /\ task[t].kind = "upload" /\ schema # None =>
            (Accepted(schema, frame) <=>
               /\ \A i \in DOMAIN schema.columns : Has(frame, schema.columns[i])
               /\ schema.key \subseteq kept
               /\ IsInjective(NamesOf(EnrichedColumns(schema))))
=============================================================================
