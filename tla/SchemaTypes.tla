---------------------------- MODULE SchemaTypes ----------------------------
(***************************************************************************)
(* Table schemas and what the schema crate computes from them: the columns *)
(* a schema file resolves to, the columns of the table made for it, the    *)
(* columns of a file prepared for loading, and compatibility of versions.  *)
(*                                                                         *)
(* A column is [name, type]; a frame, which is the content of an uploaded  *)
(* file, and a table are sequences of columns, in the order of a           *)
(* position-matched COPY.                                                  *)
(***************************************************************************)
EXTENDS Integers, Sequences, SequencesExt, FiniteSets

CONSTANT None

IsSeq(s) == s \in Seq(Range(s))
Names(columns) == {columns[i].name : i \in DOMAIN columns}
Has(columns, c) == \E i \in DOMAIN columns : columns[i] = c
Text(name) == [name |-> name, type |-> "String"]

HashKey(entity) == Text(entity \o "_hk")
HashDiff == Text("hashdiff")
LoadDate == [name |-> "load_date", type |-> "Datetime"]
LoadEndDate == [name |-> "load_end_date", type |-> "Datetime"]
RecordSource == Text("record_source")
LoadId == Text("load_id")

\* What a schema file must declare for its table type.
WellFormed(raw) ==
    CASE raw.type = "hub" -> /\ raw.businessKeys \notin {None, {}}
                             /\ raw.businessKeys \subseteq Names(raw.columns)
      [] raw.type = "link" -> raw.hubs # None /\ Len(raw.hubs) >= 2
      [] raw.type = "satellite" -> raw.parent # None
      [] OTHER -> TRUE

\* The declared columns between the ones the table type adds.
Scaffold(raw) ==
    CASE raw.type = "hub" ->
           <<HashKey(raw.name)>> \o raw.columns \o <<LoadDate, RecordSource>>
      [] raw.type = "link" ->
           <<HashKey(raw.name)>> \o [i \in DOMAIN raw.hubs |-> HashKey(raw.hubs[i])]
             \o <<LoadDate, RecordSource>>
      [] raw.type = "satellite" ->
           <<HashKey(raw.parent)>> \o (IF raw.core = None THEN raw.columns ELSE raw.core)
             \o <<LoadDate, LoadEndDate, RecordSource>>
      [] OTHER -> raw.columns

Resolve(raw) ==
    IF ~WellFormed(raw) THEN None
    ELSE [name |-> raw.name, version |-> raw.version, compatibility |-> raw.compatibility,
          type |-> raw.type, parent |-> raw.parent, key |-> raw.key, columns |-> Scaffold(raw)]

\* Only a satellite accepts columns it does not declare.
AllowsExtra(schema) == schema.type = "satellite"

\* The columns of the table made for a schema; a declared business key adds the
\* metadata of the raw vault.
EnrichedColumns(schema) ==
    IF schema.key = {} THEN schema.columns
    ELSE <<HashKey(schema.name)>> \o schema.columns \o <<HashDiff, LoadDate, RecordSource, LoadId>>

\* One schema reads the data of another if it has every column of it.
Reads(schema, other) == \A i \in DOMAIN other.columns : Has(schema.columns, other.columns[i])

\* The compatibility the new version asks for.
Compatible(old, new) ==
    /\ new.compatibility \in {"Backward", "Full"} => Reads(new, old)
    /\ new.compatibility \in {"Forward", "Full"} => Reads(old, new)

-----------------------------------------------------------------------------
(* Preparing an uploaded frame *)

\* The columns of the frame with these names, in the order of the names.
Select(frame, names) ==
    [i \in DOMAIN names |-> CHOOSE c \in Range(frame) : c.name = names[i]]
NamesOf(columns) == [i \in DOMAIN columns |-> columns[i].name]

\* The elements of a sequence that are in a set, in their order.
Only(s, S) ==
    LET upTo[i \in 0..Len(s)] ==
          IF i = 0 THEN <<>>
          ELSE IF s[i] \in S THEN Append(upTo[i - 1], s[i]) ELSE upTo[i - 1]
    IN  upTo[Len(s)]

MUT_Reorder(schema, frame) ==
    LET kept == IF AllowsExtra(schema) THEN Names(frame) ELSE Names(schema.columns)
    IN  Select(frame, Only(NamesOf(frame), kept))

\* The schema's columns in its order, then the others if the schema allows them.
Declared(schema, frame) == Only(NamesOf(schema.columns), Names(frame))
Others(schema, frame) ==
    Only(NamesOf(frame),
         IF AllowsExtra(schema) THEN Names(frame) \ Names(schema.columns) ELSE {})
Wanted(schema, frame) == Declared(schema, frame) \o Others(schema, frame)
Reorder(schema, frame) == Select(frame, Wanted(schema, frame))

\* No column is missing, undeclared, of another type or, unless the schema allows
\* more, out of place.
Valid(schema, frame) ==
    /\ \A i \in DOMAIN schema.columns :
         \E j \in DOMAIN frame :
           /\ frame[j] = schema.columns[i]
           /\ AllowsExtra(schema) \/ i = j
    /\ AllowsExtra(schema) \/ Names(frame) \subseteq Names(schema.columns)

MUT_Enrich(schema, frame) ==
    LET added == <<HashKey(schema.name), HashDiff, LoadDate, RecordSource, LoadId>>
    IN  IF schema.key = {} THEN frame ELSE frame \o added

\* Enrichment stamps the metadata on every row, over columns of the same names, and
\* selects the columns of the table.
Enrich(schema, frame) ==
    LET added == <<HashKey(schema.name), HashDiff, LoadDate, RecordSource, LoadId>>
        kept == {c \in Range(frame) : c.name \notin Names(added)}
    IN  IF schema.key = {} THEN frame
        ELSE Select(Only(frame, kept) \o added, NamesOf(EnrichedColumns(schema)))

\* The columns of the Parquet file an upload writes, unless the file is refused:
\* selecting a name twice is an error, and so is a business key that is not there.
Prepare(schema, frame) == Enrich(schema, Reorder(schema, frame))
Accepted(schema, frame) ==
    /\ IsInjective(Wanted(schema, frame))
    /\ Valid(schema, Reorder(schema, frame))
    /\ schema.key # {} => /\ schema.key \subseteq Names(Reorder(schema, frame))
                         /\ IsInjective(NamesOf(EnrichedColumns(schema)))
=============================================================================
