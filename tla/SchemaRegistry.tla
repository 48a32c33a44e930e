--------------------------- MODULE SchemaRegistry ---------------------------
(***************************************************************************)
(* The schema registry: the current schema of each key and the versions    *)
(* recorded for it, in two maps under two locks, filled by registrations   *)
(* and, on the first use of a key, from its file.  Every action of a       *)
(* thread is what it does under one lock, or between two.                  *)
(***************************************************************************)
EXTENDS SchemaTypes

CONSTANTS
    Threads, Keys,
    Files           \* what the schema file of each key may hold: [Keys -> sets of raw schemas],
                    \* None for no file

VARIABLES
    files,          \* the schema file of each key
    schemas,        \* the current schema of each key, or None
    versions,       \* the schemas recorded for each key, one per version
    thread          \* what each thread is doing: [at, key, schema, loading]

registry == <<files, schemas, versions, thread>>

NoSchemas == [k \in Keys |-> None]
Idle == [at |-> "idle", key |-> None, schema |-> None, loading |-> FALSE]

Init ==
    /\ files \in {f \in [Keys -> UNION {Files[k] : k \in Keys}] : \A k \in Keys : f[k] \in Files[k]}
    /\ schemas = NoSchemas
    /\ versions = [k \in Keys |-> {}]
    /\ thread = [t \in Threads |-> Idle]

Latest(k) == CHOOSE s \in versions[k] : \A r \in versions[k] : r.version <= s.version
At(t, place) == thread[t].at = place
Goto(t, place) == thread' = [thread EXCEPT ![t].at = place]
Return(t, reply) == thread' = [thread EXCEPT ![t] = [Idle EXCEPT !.at = "done", !.schema = reply]]

-----------------------------------------------------------------------------
(* register_version *)

Register(t, k, s) ==
    /\ At(t, "idle")
    /\ s # None
    /\ thread' = [thread EXCEPT ![t] = [at |-> "check", key |-> k, schema |-> s, loading |-> FALSE]]
    /\ UNCHANGED <<files, schemas, versions>>

\* Under the lock of the versions the last one is read, and then let go of.
Check(t) ==
    LET k == thread[t].key
        ok == versions[k] = {} \/ Compatible(Latest(k), thread[t].schema)
    IN  /\ At(t, "check")
        /\ IF ok THEN Goto(t, "parent") ELSE Return(t, None)
        /\ UNCHANGED <<files, schemas, versions>>

\* A satellite needs a parent that is registered, and a hub or a link.
CheckParent(t) ==
    LET s == thread[t].schema
        ok == \/ s.type # "satellite"
              \/ s.parent \in Keys /\ schemas[s.parent] # None
                   /\ schemas[s.parent].type \in {"hub", "link"}
    IN  /\ At(t, "parent")
        /\ IF ok THEN Goto(t, "insert") ELSE Return(t, None)
        /\ UNCHANGED <<files, schemas, versions>>

-----------------------------------------------------------------------------
(* insert *)

WriteCurrent(t) ==
    /\ At(t, "insert")
    /\ schemas' = [schemas EXCEPT ![thread[t].key] = thread[t].schema]
    /\ Goto(t, "record")
    /\ UNCHANGED <<files, versions>>

\* Mutant: the record of a key is its last version only.
MUT_WriteVersion(t) ==
    /\ At(t, "record")
    /\ versions' = [versions EXCEPT ![thread[t].key] = {thread[t].schema}]
    /\ IF thread[t].loading THEN Goto(t, "get") ELSE Return(t, thread[t].schema)
    /\ UNCHANGED <<files, schemas>>

\* Mutant: recorded under the schema's own name in place of its key.
MUT_WriteVersionByName(t) ==
    LET s == thread[t].schema IN
    /\ At(t, "record")
    /\ versions' = [versions EXCEPT ![s.name] =
                      {old \in @ : old.version # s.version} \union {s}]
    /\ IF thread[t].loading THEN Goto(t, "get") ELSE Return(t, s)
    /\ UNCHANGED <<files, schemas>>

\* A load goes on to read the key again.
WriteVersion(t) ==
    LET s == thread[t].schema IN
    /\ At(t, "record")
    /\ versions' = [versions EXCEPT ![thread[t].key] =
                      {old \in @ : old.version # s.version} \union {s}]
    /\ IF thread[t].loading THEN Goto(t, "get") ELSE Return(t, s)
    /\ UNCHANGED <<files, schemas>>

-----------------------------------------------------------------------------
(* get_or_load *)

GetOrLoad(t, k) ==
    /\ At(t, "idle")
    /\ thread' = [thread EXCEPT ![t] = [Idle EXCEPT !.at = "get", !.key = k]]
    /\ UNCHANGED <<files, schemas, versions>>

\* Served from the map; on a miss the file is read, once: a second miss is an error.
Get(t) ==
    LET k == thread[t].key
        file == IF files[k] = None THEN None ELSE Resolve(files[k])
    IN  /\ At(t, "get")
        /\ IF schemas[k] # None THEN Return(t, schemas[k])
           ELSE IF file = None \/ thread[t].loading THEN Return(t, None)
           ELSE thread' = [thread EXCEPT ![t] =
                  [at |-> "insert", key |-> k, schema |-> file, loading |-> TRUE]]
        /\ UNCHANGED <<files, schemas, versions>>

\* The process stops with whatever its threads were doing; the files may be other
\* ones when it starts again.
Restart ==
    /\ schemas' = NoSchemas
    /\ versions' = [k \in Keys |-> {}]
    /\ thread' = [t \in Threads |-> Idle]
    /\ \E k \in Keys, raw \in UNION {Files[j] : j \in Keys} :
         raw \in Files[k] /\ files' = [files EXCEPT ![k] = raw]

Step(t) ==
    Check(t) \/ CheckParent(t) \/ WriteCurrent(t) \/ WriteVersion(t) \/ Get(t)

-----------------------------------------------------------------------------
(* Properties *)

\* The schemas that are current for a key and not recorded yet, and the record as the
\* threads that are between the two locks will have left it.
Coming(k) == {thread[t].schema : t \in {u \in Threads : At(u, "record") /\ thread[u].key = k}}
Recorded(k) ==
    Coming(k) \union {s \in versions[k] : \A c \in Coming(k) : c.version # s.version}

\* No two threads are between the locks with different schemas of one version of a key.
\* The code does not prevent it.
NoClash ==
    \A k \in Keys : \A r, s \in Coming(k) : r.version = s.version => r = s

\* The registry is an atomic store in which a schema is recorded when it becomes
\* current: every step is one of the store or changes nothing of it, whatever other
\* threads do between insert's two locks, but for the steps that lead into a clash of
\* two inserts or out of one.
Store == INSTANCE VersionStore WITH current <- schemas, history <- [k \in Keys |-> Recorded(k)]
ImplementsStore ==
    /\ Store!Empty
    /\ [][NoClash /\ NoClash' => [Store!Next]_(Store!vars)]_registry

\* However the inserts of a key interleave, clashes included, the version it is served
\* with is in its history, or on its way there: validation never uses a version that
\* list_versions will not name.
CurrentIsRecorded ==
    \A k \in Keys : schemas[k] # None =>
        \E s \in versions[k] \union Coming(k) : s.version = schemas[k].version
=============================================================================
