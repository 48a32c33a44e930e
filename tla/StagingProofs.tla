---------------------------- MODULE StagingProofs ----------------------------
(***************************************************************************)
(* Proofs about the schema registry and the staging tables, for every set  *)
(* of threads, keys, schema files, registrations and uploaded files.       *)
(***************************************************************************)
EXTENDS Staging, SchemaTypesProofs

USE StagingAssumption

-----------------------------------------------------------------------------
(* Types *)

Working == {"check", "parent", "insert", "record"}
Places == Working \union {"idle", "get", "done"}
Thread == [at : Places, key : Keys \union {None}, schema : (UNION {Claimed(k) : k \in Keys}) \union {None},
           loading : BOOLEAN]

\* What threads carry towards the maps, and what is in them, was claimed for its key.
TypeInv ==
    /\ files \in [Keys -> UNION {Files[k] : k \in Keys}] /\ \A k \in Keys : files[k] \in Files[k]
    /\ thread \in [Threads -> Thread]
    /\ DOMAIN schemas = Keys /\ schemas = [k \in Keys |-> schemas[k]]
    /\ \A k \in Keys : schemas[k] \in Claimed(k) \union {None}
    /\ versions \in [Keys -> SUBSET UNION {Claimed(k) : k \in Keys}]
    /\ \A k \in Keys : versions[k] \subseteq Claimed(k)
    /\ \A t \in Threads : thread[t].at \in Working \union {"get"} => thread[t].key \in Keys
    /\ \A t \in Threads : thread[t].at \in Working => thread[t].schema \in Claimed(thread[t].key)

\* A thread that is sent to another place takes what it carries along; one that returns
\* takes only its reply.
LEMMA ThreadMoves ==
    ASSUME TypeInv, NEW t \in Threads
    PROVE  /\ \A place \in Places : Goto(t, place) =>
                /\ thread' \in [Threads -> Thread]
                /\ thread'[t].at = place /\ thread'[t].key = thread[t].key
                /\ thread'[t].schema = thread[t].schema /\ thread'[t].loading = thread[t].loading
                /\ \A u \in Threads \ {t} : thread'[u] = thread[u]
           /\ \A reply \in (UNION {Claimed(k) : k \in Keys}) \union {None} : Return(t, reply) =>
                /\ thread' \in [Threads -> Thread]
                /\ thread'[t].at = "done" /\ thread'[t].schema = reply
                /\ \A u \in Threads \ {t} : thread'[u] = thread[u]
<1>1. thread[t] \in Thread
  BY DEF TypeInv
<1>2. ASSUME NEW place \in Places, Goto(t, place)
      PROVE  /\ thread' \in [Threads -> Thread]
             /\ thread'[t].at = place /\ thread'[t].key = thread[t].key
             /\ thread'[t].schema = thread[t].schema /\ thread'[t].loading = thread[t].loading
             /\ \A u \in Threads \ {t} : thread'[u] = thread[u]
  <2>1. thread' = [thread EXCEPT ![t] = [thread[t] EXCEPT !.at = place]]
    BY <1>2 DEF Goto
  <2>2. [thread[t] EXCEPT !.at = place] \in Thread
    BY <1>1 DEF Thread
  <2>3. QED
    BY <1>1, <2>1, <2>2 DEF TypeInv, Thread
<1>3. ASSUME NEW reply \in (UNION {Claimed(k) : k \in Keys}) \union {None}, Return(t, reply)
      PROVE  /\ thread' \in [Threads -> Thread]
             /\ thread'[t].at = "done" /\ thread'[t].schema = reply
             /\ \A u \in Threads \ {t} : thread'[u] = thread[u]
  <2> DEFINE answered == [Idle EXCEPT !.at = "done", !.schema = reply]
  <2>1. thread' = [thread EXCEPT ![t] = answered]
    BY <1>3 DEF Return
  <2>2. Idle \in Thread
    BY DEF Idle, Thread, Places
  <2>3. answered \in Thread /\ answered.at = "done" /\ answered.schema = reply
    BY <2>2 DEF Thread, Places
  <2> HIDE DEF answered
  <2>4. thread' \in [Threads -> Thread] /\ thread'[t] = answered
        /\ \A u \in Threads \ {t} : thread'[u] = thread[u]
    BY <2>1, <2>3 DEF TypeInv
  <2>5. QED
    BY <2>3, <2>4
<1>4. QED
  BY <1>2, <1>3

\* A thread that begins or is done with something else than its own reply.
LEMMA ThreadReplaced ==
    ASSUME TypeInv, NEW t \in Threads, NEW next \in Thread, thread' = [thread EXCEPT ![t] = next]
    PROVE  /\ thread' \in [Threads -> Thread] /\ thread'[t] = next
           /\ \A u \in Threads \ {t} : thread'[u] = thread[u]
BY DEF TypeInv

\* The part of TypeInv about the threads, when one of them has moved.
LEMMA ThreadTypes ==
    ASSUME TypeInv, NEW t \in Threads, thread' \in [Threads -> Thread],
           \A u \in Threads \ {t} : thread'[u] = thread[u],
           thread'[t].at \in Working \union {"get"} => thread'[t].key \in Keys,
           thread'[t].at \in Working => thread'[t].schema \in Claimed(thread'[t].key)
    PROVE  /\ \A u \in Threads : thread'[u].at \in Working \union {"get"} => thread'[u].key \in Keys
           /\ \A u \in Threads : thread'[u].at \in Working => thread'[u].schema \in Claimed(thread'[u].key)
BY DEF TypeInv

\* The steps of a registration keep the types.
LEMMA RegistryTypes ==
    ASSUME TypeInv, NEW t \in Threads,
           Check(t) \/ CheckParent(t) \/ WriteCurrent(t) \/ WriteVersion(t) \/ Get(t)
    PROVE  TypeInv'
<1> USE DEF TypeInv
<1>1. /\ thread[t].at \in Places /\ thread[t].loading \in BOOLEAN
      /\ thread[t].schema \in (UNION {Claimed(k) : k \in Keys}) \union {None}
  BY DEF Thread
<1>2. {"insert", "parent", "record", "get", "done"} \subseteq Places
      /\ {"insert", "parent", "record"} \subseteq Working
  BY DEF Places, Working
<1>3. ASSUME UNCHANGED <<files, schemas, versions>>, At(t, "check") \/ At(t, "parent"),
             NEW place \in {"parent", "insert"}, Goto(t, place) \/ Return(t, None)
      PROVE  TypeInv'
  <2>1. thread[t].key \in Keys /\ thread[t].schema \in Claimed(thread[t].key)
    BY <1>3 DEF At, Working
  <2>2. /\ thread' \in [Threads -> Thread]
        /\ \A u \in Threads \ {t} : thread'[u] = thread[u]
        /\ \/ thread'[t].at = "done"
           \/ thread'[t].key = thread[t].key /\ thread'[t].schema = thread[t].schema
    BY <1>2, <1>3, ThreadMoves
  <2>3. "done" \notin Working \union {"get"}
    BY DEF Working
  <2>4. QED
    BY <1>3, <2>1, <2>2, <2>3, ThreadTypes
<1>4. CASE Check(t) \/ CheckParent(t)
  BY <1>3, <1>4 DEF Check, CheckParent
<1>5. CASE WriteCurrent(t)
  <2>1. thread[t].key \in Keys /\ thread[t].schema \in Claimed(thread[t].key)
    BY <1>5 DEF WriteCurrent, At, Working
  <2>2. /\ thread' \in [Threads -> Thread]
        /\ \A u \in Threads \ {t} : thread'[u] = thread[u]
        /\ thread'[t].key = thread[t].key /\ thread'[t].schema = thread[t].schema
    BY <1>2, <1>5, ThreadMoves DEF WriteCurrent
  <2>3. /\ schemas' = [schemas EXCEPT ![thread[t].key] = thread[t].schema]
        /\ UNCHANGED <<files, versions>>
    BY <1>5 DEF WriteCurrent
  <2>4. /\ DOMAIN schemas' = Keys /\ schemas' = [k \in Keys |-> schemas'[k]]
        /\ \A k \in Keys : schemas'[k] \in Claimed(k) \union {None}
    BY <2>1, <2>3
  <2>5. QED
    BY <2>1, <2>2, <2>3, <2>4, ThreadTypes
<1>6. CASE WriteVersion(t)
  <2>1. thread[t].key \in Keys /\ thread[t].schema \in Claimed(thread[t].key)
    BY <1>6 DEF WriteVersion, At, Working
  <2>2. /\ thread' \in [Threads -> Thread]
        /\ \A u \in Threads \ {t} : thread'[u] = thread[u]
        /\ \/ thread'[t].at = "get" /\ thread'[t].key = thread[t].key
           \/ thread'[t].at = "done"
    BY <1>1, <1>2, <1>6, ThreadMoves DEF WriteVersion
  <2>3. "done" \notin Working \union {"get"} /\ "get" \notin Working
    BY DEF Working
  <2>4. /\ versions' = [versions EXCEPT ![thread[t].key] =
             {old \in versions[thread[t].key] : old.version # thread[t].schema.version}
               \union {thread[t].schema}]
        /\ UNCHANGED <<files, schemas>>
    BY <1>6 DEF WriteVersion
  <2>5. \A k \in Keys : versions'[k] \subseteq Claimed(k)
    BY <2>1, <2>4
  <2>6. versions' \in [Keys -> SUBSET UNION {Claimed(k) : k \in Keys}]
    BY <2>1, <2>4
  <2>7. QED
    BY <2>1, <2>2, <2>3, <2>4, <2>5, <2>6, ThreadTypes
<1>7. CASE Get(t)
  <2> DEFINE k == thread[t].key
             file == Resolve(files[k])
  <2>1. k \in Keys /\ UNCHANGED <<files, schemas, versions>>
    BY <1>7 DEF Get, At
  <2>2. "done" \notin Working \union {"get"} /\ "get" \notin Working
    BY DEF Working
  <2>3. CASE Return(t, schemas[k]) \/ Return(t, None)
    <3>1. schemas[k] \in (UNION {Claimed(j) : j \in Keys}) \union {None}
      BY <2>1
    <3>2. /\ thread' \in [Threads -> Thread]
          /\ \A u \in Threads \ {t} : thread'[u] = thread[u]
          /\ thread'[t].at = "done"
      BY <2>3, <3>1, ThreadMoves
    <3>3. QED
      BY <2>1, <2>2, <3>2, ThreadTypes
  <2>4. CASE files[k] # None /\ file # None
             /\ thread' = [thread EXCEPT ![t] =
                             [at |-> "insert", key |-> k, schema |-> file, loading |-> TRUE]]
    <3>1. file \in Claimed(k)
      BY <2>1, <2>4 DEF Claimed
    <3> DEFINE next == [at |-> "insert", key |-> k, schema |-> file, loading |-> TRUE]
    <3>2. next \in Thread /\ next.at = "insert" /\ next.key = k /\ next.schema = file
      BY <1>2, <2>1, <3>1 DEF Thread
    <3> HIDE DEF next, file
    <3>3. thread' = [thread EXCEPT ![t] = next]
      BY <2>4 DEF next, file
    <3>4. /\ thread' \in [Threads -> Thread] /\ thread'[t] = next
          /\ \A u \in Threads \ {t} : thread'[u] = thread[u]
      BY <3>2, <3>3, ThreadReplaced
    <3>5. QED
      BY <2>1, <3>1, <3>2, <3>4, ThreadTypes
  <2>5. QED
    BY <1>7, <2>3, <2>4 DEF Get
<1>8. QED
  BY <1>4, <1>5, <1>6, <1>7

\* Every step of the registry and of the requests keeps the types.
LEMMA TypeStep ==
    ASSUME TypeInv, [Next]_vars
    PROVE  TypeInv'
<1> USE DEF TypeInv
<1>1. Idle \in Thread /\ Idle.at = "idle" /\ "idle" \notin Working \union {"get"}
  BY DEF Idle, Thread, Places, Working
<1>2. ASSUME NEW t \in Threads, Rest(t) PROVE TypeInv'
  <2>1. /\ thread' \in [Threads -> Thread] /\ thread'[t] = Idle
        /\ \A u \in Threads \ {t} : thread'[u] = thread[u]
    BY <1>1, <1>2, ThreadReplaced DEF Rest
  <2>2. UNCHANGED <<files, schemas, versions>>
    BY <1>2 DEF Rest
  <2>3. QED
    BY <1>1, <2>1, <2>2, ThreadTypes
<1>3. ASSUME NEW t \in Threads, NEW k \in Keys, GetOrLoad(t, k) PROVE TypeInv'
  <2> DEFINE next == [Idle EXCEPT !.at = "get", !.key = k]
  <2>1. next \in Thread /\ next.at = "get" /\ next.key = k /\ "get" \notin Working
    BY <1>1 DEF Thread, Places, Working
  <2>2. thread' = [thread EXCEPT ![t] = next] /\ UNCHANGED <<files, schemas, versions>>
    BY <1>3 DEF GetOrLoad
  <2> HIDE DEF next
  <2>3. /\ thread' \in [Threads -> Thread] /\ thread'[t] = next
        /\ \A u \in Threads \ {t} : thread'[u] = thread[u]
    BY <2>1, <2>2, ThreadReplaced
  <2>4. QED
    BY <2>1, <2>2, <2>3, ThreadTypes
<1>4. ASSUME NEW t \in Threads, Submit(t) PROVE TypeInv'
  <2>1. PICK s \in Submissions : Register(t, s.key, Resolve(s.schema))
    BY <1>4 DEF Submit
  <2> DEFINE schema == Resolve(s.schema)
             next == [at |-> "check", key |-> s.key, schema |-> schema, loading |-> FALSE]
  <2>2. s.key \in Keys /\ schema \in Claimed(s.key)
    BY <2>1 DEF Register, Claimed
  <2>3. next \in Thread /\ next.at = "check" /\ next.key = s.key /\ next.schema = schema
    BY <2>2 DEF Thread, Places, Working
  <2> HIDE DEF schema
  <2>4. thread' = [thread EXCEPT ![t] = next] /\ UNCHANGED <<files, schemas, versions>>
    BY <2>1 DEF Register, schema
  <2> HIDE DEF next
  <2>5. /\ thread' \in [Threads -> Thread] /\ thread'[t] = next
        /\ \A u \in Threads \ {t} : thread'[u] = thread[u]
    BY <2>3, <2>4, ThreadReplaced
  <2>6. QED
    BY <2>2, <2>3, <2>4, <2>5, ThreadTypes
<1>5. ASSUME NEW t \in Threads, AskTable(t) \/ AskUpload(t) PROVE TypeInv'
  BY <1>3, <1>5 DEF AskTable, AskUpload
<1>6. ASSUME NEW t \in Threads, Lookup(t) PROVE TypeInv'
  BY <1>6, RegistryTypes DEF Lookup, Step
<1>7. ASSUME NEW t \in Threads, Answer(t) \/ CreateTable(t) \/ PrepareFile(t) PROVE TypeInv'
  BY <1>2, <1>7 DEF Answer, CreateTable, PrepareFile, End
<1>8. ASSUME UNCHANGED <<files, schemas, versions, thread>> PROVE TypeInv'
  BY <1>8
<1>9. ASSUME NEW t \in Threads, Copy(t) PROVE TypeInv'
  BY <1>8, <1>9 DEF Copy, registry
<1>10. CASE Redeploy
  <2>1. /\ schemas' = [k \in Keys |-> None] /\ versions' = [k \in Keys |-> {}]
        /\ thread' = [t \in Threads |-> Idle]
    BY <1>10 DEF Redeploy, Restart, NoSchemas
  <2>2. PICK k \in Keys, raw \in UNION {Files[j] : j \in Keys} :
          raw \in Files[k] /\ files' = [files EXCEPT ![k] = raw]
    BY <1>10 DEF Redeploy, Restart
  <2>3. /\ files' \in [Keys -> UNION {Files[j] : j \in Keys}]
        /\ \A j \in Keys : files'[j] \in Files[j]
    BY <2>2
  <2>4. /\ DOMAIN schemas' = Keys /\ schemas' = [j \in Keys |-> schemas'[j]]
        /\ \A j \in Keys : schemas'[j] \in Claimed(j) \union {None}
        /\ versions' \in [Keys -> SUBSET UNION {Claimed(j) : j \in Keys}]
        /\ \A j \in Keys : versions'[j] \subseteq Claimed(j)
    BY <2>1
  <2>5. thread' \in [Threads -> Thread] /\ \A t \in Threads : thread'[t] = Idle
    BY <1>1, <2>1
  <2>6. QED
    BY <1>1, <2>3, <2>4, <2>5
<1>11. CASE UNCHANGED vars
  BY <1>8, <1>11 DEF vars, registry
<1>12. QED
  BY <1>4, <1>5, <1>6, <1>7, <1>9, <1>10, <1>11 DEF Next, Request

\* Nothing is registered at first, and no thread works.
LEMMA TypeInit == StagingInit => TypeInv
<1> SUFFICES ASSUME StagingInit PROVE TypeInv
  OBVIOUS
<1>1. /\ files \in {f \in [Keys -> UNION {Files[k] : k \in Keys}] : \A k \in Keys : f[k] \in Files[k]}
      /\ schemas = [k \in Keys |-> None] /\ versions = [k \in Keys |-> {}]
      /\ thread = [t \in Threads |-> Idle]
  BY DEF StagingInit, Init, NoSchemas
<1>2. Idle \in Thread /\ Idle.at = "idle" /\ "idle" \notin Working \union {"get"}
  BY DEF Idle, Thread, Places, Working
<1>3. /\ DOMAIN schemas = Keys /\ schemas = [j \in Keys |-> schemas[j]]
      /\ \A j \in Keys : schemas[j] \in Claimed(j) \union {None}
      /\ versions \in [Keys -> SUBSET UNION {Claimed(j) : j \in Keys}]
      /\ \A j \in Keys : versions[j] \subseteq Claimed(j)
  BY <1>1
<1>4. thread \in [Threads -> Thread] /\ \A t \in Threads : thread[t] = Idle
  BY <1>1, <1>2
<1>5. QED
  BY <1>1, <1>2, <1>3, <1>4 DEF TypeInv

-----------------------------------------------------------------------------
(* The atomic store *)

\* What the record of a key will be once the schemas that are coming are in it.
Merge(coming, recorded) ==
    coming \union {s \in recorded : \A c \in coming : c.version # s.version}

\* What the mapping calls recorded is that merge, before a step and after it.
LEMMA RecordedIsMerge ==
    \A k : /\ Recorded(k) = Merge(Coming(k), versions[k])
           /\ Recorded(k)' = Merge(Coming(k)', versions'[k])
BY DEF Recorded, Merge

\* A schema that becomes current takes the place of its version at once.
LEMMA MergeOneMore ==
    ASSUME NEW C, NEW V, NEW s, \A c \in C : c.version = s.version => c = s
    PROVE  Merge(C \union {s}, V) = {old \in Merge(C, V) : old.version # s.version} \union {s}
BY DEF Merge

\* Recording a schema that was coming changes nothing.
LEMMA MergeRecorded ==
    ASSUME NEW C, NEW D, NEW V, NEW s \in C, C \ {s} \subseteq D, D \subseteq C,
           \A c \in C : c.version = s.version => c = s
    PROVE  Merge(D, {old \in V : old.version # s.version} \union {s}) = Merge(C, V)
BY DEF Merge

\* Nothing that the registry's users can tell has changed.
NoWrite == UNCHANGED <<schemas, versions>> /\ \A k : Coming(k)' = Coming(k)

\* A step that touches neither map nor the threads between the locks writes nothing.
LEMMA OutsideLocks ==
    ASSUME UNCHANGED <<schemas, versions>>, NEW t \in Threads,
           \A u \in Threads \ {t} : thread'[u] = thread[u],
           thread[t].at # "record", thread'[t].at # "record"
    PROVE  NoWrite
BY DEF NoWrite, Coming, At

\* The write of the current schema is the write of the store: the schema takes its
\* version's place in the record although it is not there yet.
LEMMA CurrentIsPut ==
    ASSUME TypeInv, NoClash', NEW t \in Threads, WriteCurrent(t)
    PROVE  Store!Next
<1>k. PICK k0 \in Keys : k0 = thread[t].key
  BY DEF WriteCurrent, At, TypeInv, Working
<1>0. PICK s \in Claimed(k0) : k0 = thread[t].key /\ s = thread[t].schema
  BY <1>k DEF WriteCurrent, At, TypeInv, Working
<1> DEFINE put == {old \in Recorded(k0) : old.version # s.version} \union {s}
<1>1. thread[t].at = "insert" /\ s # None
  BY DEF WriteCurrent, At, Claimed
<1>2. /\ thread'[t].at = "record" /\ thread'[t].key = k0 /\ thread'[t].schema = s
      /\ \A u \in Threads \ {t} : thread'[u] = thread[u]
  BY <1>0, ThreadMoves DEF WriteCurrent, Places, Working
<1>3. schemas' = [schemas EXCEPT ![k0] = s] /\ schemas'[k0] = s /\ versions' = versions
  BY <1>0, <1>1 DEF WriteCurrent, TypeInv
<1>4. Coming(k0)' = Coming(k0) \union {s}
  <2>1. \A x : x \in Coming(k0)' <=>
                 \E u \in Threads : At(u, "record")' /\ thread'[u].key = k0 /\ thread'[u].schema = x
    BY DEF Coming
  <2>2. \A x : x \in Coming(k0) <=>
                 \E u \in Threads : At(u, "record") /\ thread[u].key = k0 /\ thread[u].schema = x
    BY DEF Coming
  <2>3. \A x : x \in Coming(k0)' <=> (x \in Coming(k0) \/ x = s)
    BY <1>0, <1>1, <1>2, <2>1, <2>2 DEF At
  <2>4. QED
    BY <2>3
<1>5. Recorded(k0)' = put
  <2>1. \A c \in Coming(k0) : c.version = s.version => c = s
    BY <1>0, <1>1, <1>4 DEF NoClash
  <2>2. Recorded(k0)' = Merge(Coming(k0) \union {s}, versions[k0])
    BY <1>3, <1>4, RecordedIsMerge
  <2>3. QED
    BY <2>1, <2>2, MergeOneMore, RecordedIsMerge
<1>6. ASSUME NEW k \in Keys \ {k0} PROVE Recorded(k)' = Recorded(k)
  <2>1. Coming(k)' = Coming(k)
    BY <1>0, <1>1, <1>2 DEF Coming, At
  <2>2. QED
    BY <1>3, <2>1, RecordedIsMerge
<1> HIDE DEF put
<1>7. [k \in Keys |-> Recorded(k)]' = [[k \in Keys |-> Recorded(k)] EXCEPT ![k0] = put]
  BY <1>1, <1>5, <1>6
<1>8. Store!Put(k0, s)
  <2>1. [k \in Keys |-> Recorded(k)][k0] = Recorded(k0)
    BY <1>1
  <2>2. QED
    BY <1>3, <1>7, <2>1 DEF Store!Put, put
<1>9. QED
  BY <1>1, <1>3, <1>8 DEF Store!Next

\* The write of the record is none of the store: it was foreseen.
LEMMA RecordIsForeseen ==
    ASSUME TypeInv, NoClash, NEW t \in Threads, WriteVersion(t)
    PROVE  UNCHANGED Store!vars
<1>k. PICK k0 \in Keys : k0 = thread[t].key
  BY DEF WriteVersion, At, TypeInv, Working
<1>0. PICK s \in Claimed(k0) : k0 = thread[t].key /\ s = thread[t].schema
  BY <1>k DEF WriteVersion, At, TypeInv, Working
<1>1. thread[t].at = "record"
  BY DEF WriteVersion, At
<1>2. thread'[t].at # "record" /\ \A u \in Threads \ {t} : thread'[u] = thread[u]
  <2>1. s \in (UNION {Claimed(k) : k \in Keys}) \union {None}
    OBVIOUS
  <2>2. QED
    BY <1>0, <2>1, ThreadMoves DEF WriteVersion, Places, Working
<1>3. /\ schemas' = schemas
      /\ versions' = [versions EXCEPT ![k0] =
                        {old \in versions[k0] : old.version # s.version} \union {s}]
  BY <1>0 DEF WriteVersion
<1>4. s \in Coming(k0) /\ Coming(k0)' \subseteq Coming(k0) /\ Coming(k0) \ {s} \subseteq Coming(k0)'
  <2>1. \A x : x \in Coming(k0)' <=>
                 \E u \in Threads : At(u, "record")' /\ thread'[u].key = k0 /\ thread'[u].schema = x
    BY DEF Coming
  <2>2. \A x : x \in Coming(k0) <=>
                 \E u \in Threads : At(u, "record") /\ thread[u].key = k0 /\ thread[u].schema = x
    BY DEF Coming
  <2>3. QED
    BY <1>0, <1>1, <1>2, <2>1, <2>2 DEF At
<1>5. Recorded(k0)' = Recorded(k0)
  <2>1. \A c \in Coming(k0) : c.version = s.version => c = s
    BY <1>0, <1>1, <1>4 DEF NoClash
  <2>2. versions'[k0] = {old \in versions[k0] : old.version # s.version} \union {s}
    BY <1>1, <1>3 DEF TypeInv
  <2>3. Recorded(k0)' = Merge(Coming(k0)', {old \in versions[k0] : old.version # s.version} \union {s})
    BY <2>2, RecordedIsMerge
  <2>4. QED
    BY <1>4, <2>1, <2>3, MergeRecorded, RecordedIsMerge
<1>6. ASSUME NEW k \in Keys \ {k0} PROVE Recorded(k)' = Recorded(k)
  <2>1. Coming(k)' = Coming(k)
    BY <1>0, <1>1, <1>2 DEF Coming, At
  <2>2. versions'[k] = versions[k]
    BY <1>3 DEF TypeInv
  <2>3. QED
    BY <2>1, <2>2, RecordedIsMerge
<1>7. QED
  BY <1>3, <1>5, <1>6 DEF Store!vars

\* Of all the steps only insert's two writes and a restart change what is registered.
LEMMA LockSteps ==
    ASSUME TypeInv, [Next]_vars
    PROVE  \/ \E t \in Threads : WriteCurrent(t) \/ WriteVersion(t)
           \/ /\ schemas' = [k \in Keys |-> None] /\ versions' = [k \in Keys |-> {}]
              /\ \A k : Coming(k)' = {}
           \/ NoWrite
<1>1. \A t \in Threads : thread[t] \in Thread
  BY DEF TypeInv
<1>2. ASSUME NEW t \in Threads, NEW next, thread' = [thread EXCEPT ![t] = next],
             next.at # "record", thread[t].at # "record", UNCHANGED <<schemas, versions>>
      PROVE  NoWrite
  <2>1. thread'[t] = next /\ \A u \in Threads \ {t} : thread'[u] = thread[u]
    BY <1>2 DEF TypeInv
  <2>2. QED
    BY <1>2, <2>1, OutsideLocks
<1>3. ASSUME NEW t \in Threads, NEW k \in Keys, GetOrLoad(t, k) PROVE NoWrite
  <2> DEFINE next == [Idle EXCEPT !.at = "get", !.key = k]
  <2>1. Idle \in Thread
    BY DEF Idle, Thread, Places, Working
  <2>2. next.at = "get" /\ thread' = [thread EXCEPT ![t] = next] /\ thread[t].at = "idle"
    BY <1>3, <2>1 DEF GetOrLoad, At, Thread
  <2> HIDE DEF next
  <2>3. QED
    BY <1>2, <1>3, <2>2 DEF GetOrLoad
<1>4. ASSUME NEW t \in Threads, Submit(t) PROVE NoWrite
  <2>1. PICK s \in Submissions : Register(t, s.key, Resolve(s.schema))
    BY <1>4 DEF Submit
  <2> DEFINE next == [at |-> "check", key |-> s.key, schema |-> Resolve(s.schema), loading |-> FALSE]
  <2>2. next.at = "check" /\ thread' = [thread EXCEPT ![t] = next]
        /\ thread[t].at = "idle" /\ UNCHANGED <<schemas, versions>>
    BY <2>1 DEF Register, At
  <2> HIDE DEF next
  <2>3. QED
    BY <1>2, <2>2
<1>5. ASSUME NEW t \in Threads, Rest(t), At(t, "done") PROVE NoWrite
  <2>1. Idle.at # "record"
    BY DEF Idle
  <2>2. QED
    BY <1>2, <1>5, <2>1 DEF Rest, At
<1>6. ASSUME NEW t \in Threads, Check(t) \/ CheckParent(t) PROVE NoWrite
  <2>1. /\ thread[t].at # "record" /\ UNCHANGED <<schemas, versions>>
        /\ Goto(t, "parent") \/ Goto(t, "insert") \/ Return(t, None)
    BY <1>6 DEF Check, CheckParent, At
  <2>2. thread'[t].at # "record" /\ \A u \in Threads \ {t} : thread'[u] = thread[u]
    BY <2>1, ThreadMoves DEF Places, Working
  <2>3. QED
    BY <2>1, <2>2, OutsideLocks
<1>7. ASSUME NEW t \in Threads, Get(t) PROVE NoWrite
  <2> DEFINE k == thread[t].key
  <2>1. thread[t].at = "get" /\ k \in Keys /\ UNCHANGED <<schemas, versions>>
    BY <1>7 DEF Get, At, TypeInv
  <2>2. CASE Return(t, schemas[k]) \/ Return(t, None)
    <3>1. schemas[k] \in (UNION {Claimed(j) : j \in Keys}) \union {None}
      BY <2>1 DEF TypeInv
    <3>2. thread'[t].at = "done" /\ \A u \in Threads \ {t} : thread'[u] = thread[u]
      BY <2>2, <3>1, ThreadMoves
    <3>3. QED
      BY <2>1, <3>2, OutsideLocks
  <2>3. CASE thread' = [thread EXCEPT ![t] =
               [at |-> "insert", key |-> k, schema |-> Resolve(files[k]), loading |-> TRUE]]
    <3> DEFINE next == [at |-> "insert", key |-> k, schema |-> Resolve(files[k]), loading |-> TRUE]
    <3>1. next.at = "insert" /\ thread' = [thread EXCEPT ![t] = next]
      BY <2>3
    <3> HIDE DEF next
    <3>2. QED
      BY <1>2, <2>1, <3>1
  <2>4. QED
    BY <1>7, <2>2, <2>3 DEF Get
<1>8. ASSUME NEW t \in Threads, Lookup(t) PROVE WriteCurrent(t) \/ WriteVersion(t) \/ NoWrite
  BY <1>6, <1>7, <1>8 DEF Lookup, Step
<1>9. ASSUME NEW t \in Threads, AskTable(t) \/ AskUpload(t) PROVE NoWrite
  BY <1>3, <1>9 DEF AskTable, AskUpload
<1>10. ASSUME NEW t \in Threads, Answer(t) \/ CreateTable(t) \/ PrepareFile(t)
       PROVE  NoWrite
  BY <1>5, <1>10 DEF Answer, CreateTable, PrepareFile, End
<1>11. ASSUME UNCHANGED <<schemas, versions, thread>> PROVE NoWrite
  BY <1>11 DEF NoWrite, Coming, At
<1>12. ASSUME NEW t \in Threads, Copy(t) PROVE NoWrite
  BY <1>11, <1>12 DEF Copy, registry
<1>13. CASE Redeploy
  <2>1. /\ schemas' = [k \in Keys |-> None] /\ versions' = [k \in Keys |-> {}]
        /\ thread' = [t \in Threads |-> Idle]
    BY <1>13 DEF Redeploy, Restart, NoSchemas
  <2>2. \A k : Coming(k)' = {}
    BY <2>1 DEF Coming, At, Idle
  <2>3. QED
    BY <2>1, <2>2
<1>14. CASE UNCHANGED vars
  BY <1>11, <1>14 DEF vars, registry
<1>15. QED
  BY <1>4, <1>8, <1>9, <1>10, <1>12, <1>13, <1>14 DEF Next, Request

\* Every step of the registry is a step of the store or leaves it as it is, unless two
\* inserts clash before it or after it.
LEMMA StoreStep ==
    ASSUME TypeInv, NoClash, NoClash', [Next]_vars
    PROVE  [Store!Next]_(Store!vars)
<1>1. CASE \E t \in Threads : WriteCurrent(t) \/ WriteVersion(t)
  BY <1>1, CurrentIsPut, RecordIsForeseen
<1>2. ASSUME schemas' = [k \in Keys |-> None], versions' = [k \in Keys |-> {}],
             \A k : Coming(k)' = {}
      PROVE  Store!Next
  <2>1. \A k \in Keys : Recorded(k)' = {}
    BY <1>2, RecordedIsMerge DEF Merge
  <2>2. Store!Forget
    BY <1>2, <2>1 DEF Store!Forget
  <2>3. QED
    BY <2>2 DEF Store!Next
<1>3. CASE NoWrite
  <2>1. \A k \in Keys : Recorded(k)' = Recorded(k)
    BY <1>3, RecordedIsMerge DEF NoWrite
  <2>2. QED
    BY <1>3, <2>1 DEF NoWrite, Store!vars
<1>4. QED
  BY <1>1, <1>2, <1>3, LockSteps

\* Nothing is current and nothing recorded at first.
LEMMA StoreInit == StagingInit => Store!Empty
<1> SUFFICES ASSUME StagingInit PROVE Store!Empty
  OBVIOUS
<1>1. /\ schemas = [k \in Keys |-> None] /\ versions = [k \in Keys |-> {}]
      /\ thread = [t \in Threads |-> Idle]
  BY DEF StagingInit, Init, NoSchemas
<1>2. \A k : Coming(k) = {}
  BY <1>1 DEF Coming, At, Idle
<1>3. \A k \in Keys : Recorded(k) = {}
  BY <1>1, <1>2, RecordedIsMerge DEF Merge
<1>4. QED
  BY <1>1, <1>3 DEF Store!Empty

\* Only schemas that were given for a key are ever served, recorded or carried between
\* the locks for it (insert, get_or_load, register_version), whatever versions they claim.
LEMMA TypeAlways == Spec => []TypeInv
BY TypeInit, TypeStep, PTL DEF Spec

\* insert writes the current schema under one lock and its record under another.  However
\* many threads run between the two writes, every step is one of a store that makes both
\* at once, or none of it; only where two inserts of one version clash it is not.
THEOREM RegistryIsAtomic == Spec => ImplementsStore
<1>1. TypeInv /\ [Next]_vars =>
        [NoClash /\ NoClash' => [Store!Next]_(Store!vars)]_registry
  BY StoreStep
<1>2. QED
  BY <1>1, StoreInit, TypeAlways, PTL DEF Spec, ImplementsStore

\* A behaviour without such a clash is a behaviour of the store.
THEOREM AtomicWithoutClash == Spec /\ []NoClash => Store!Spec
BY TypeInit, TypeStep, StoreInit, StoreStep, PTL DEF Spec, Store!Spec

-----------------------------------------------------------------------------
(* What is served *)

\* Of the two writes of an insert the first makes its version current and coming, and the
\* second moves it from coming to recorded; it may replace the record of another insert,
\* but only by one of the same version.
LEMMA CurrentStep ==
    ASSUME TypeInv, CurrentIsRecorded, [Next]_vars
    PROVE  CurrentIsRecorded'
<1> DEFINE Known(k) == versions[k] \union Coming(k)
<1>1. ASSUME NEW t \in Threads, WriteCurrent(t) PROVE CurrentIsRecorded'
  <2>1. PICK k0 \in Keys : k0 = thread[t].key
    BY <1>1 DEF WriteCurrent, At, TypeInv, Working
  <2> DEFINE s == thread[t].schema
  <2>2. /\ thread'[t].at = "record" /\ thread'[t].key = k0 /\ thread'[t].schema = s
        /\ \A u \in Threads \ {t} : thread'[u] = thread[u]
        /\ thread[t].at = "insert"
    BY <1>1, <2>1, ThreadMoves DEF WriteCurrent, At, Places, Working
  <2>3. /\ schemas'[k0] = s /\ versions' = versions
        /\ \A k \in Keys \ {k0} : schemas'[k] = schemas[k]
    BY <1>1, <2>1 DEF WriteCurrent, TypeInv
  <2>4. s \in Coming(k0)' /\ \A k : Coming(k) \subseteq Coming(k)'
    BY <2>2 DEF Coming, At
  <2> HIDE DEF s
  <2>5. QED
    BY <2>3, <2>4 DEF CurrentIsRecorded
<1>2. ASSUME NEW t \in Threads, WriteVersion(t) PROVE CurrentIsRecorded'
  <2>1. PICK k0 \in Keys : k0 = thread[t].key
    BY <1>2 DEF WriteVersion, At, TypeInv, Working
  <2> DEFINE s == thread[t].schema
  <2>2. \A u \in Threads \ {t} : thread'[u] = thread[u]
    <3>1. s \in (UNION {Claimed(k) : k \in Keys}) \union {None}
      BY <1>2 DEF WriteVersion, At, TypeInv, Working
    <3>2. QED
      BY <1>2, <3>1, ThreadMoves DEF WriteVersion, Places, Working
  <2>3. /\ schemas' = schemas
        /\ versions'[k0] = {old \in versions[k0] : old.version # s.version} \union {s}
        /\ \A k \in Keys \ {k0} : versions'[k] = versions[k]
    BY <1>2, <2>1 DEF WriteVersion, TypeInv
  <2>4. Coming(k0) \subseteq Coming(k0)' \union {s}
        /\ \A k \in Keys \ {k0} : Coming(k) \subseteq Coming(k)'
    BY <2>1, <2>2 DEF Coming, At
  <2> HIDE DEF s
  <2>5. \A x \in Known(k0) : \E y \in Known(k0)' : y.version = x.version
    BY <2>3, <2>4
  <2>6. \A k \in Keys \ {k0} : Known(k) \subseteq Known(k)'
    BY <2>3, <2>4
  <2>7. QED
    BY <2>3, <2>5, <2>6 DEF CurrentIsRecorded
<1>3. CASE schemas' = [k \in Keys |-> None]
  BY <1>3 DEF CurrentIsRecorded
<1>4. CASE NoWrite
  BY <1>4 DEF NoWrite, CurrentIsRecorded
<1>5. QED
  BY <1>1, <1>2, <1>3, <1>4, LockSteps

\* Whatever versions the schemas of a key claim and however their inserts interleave, the
\* version a key is served with is in its history or on its way there.
THEOREM CurrentAlwaysRecorded == Spec => []CurrentIsRecorded
<1>1. StagingInit => CurrentIsRecorded
  BY DEF StagingInit, Init, NoSchemas, CurrentIsRecorded
<1>2. QED
  BY <1>1, CurrentStep, TypeAlways, PTL DEF Spec

-----------------------------------------------------------------------------
(* Records and requests *)

\* The kinds of requests, one record per version, and a table no column of which is named
\* twice.
KindsInv == \A t \in Threads : task[t].kind \in {"none", "register", "create", "upload", "copy"}
RecordInv == \A k \in Keys : \A r, s \in versions[k] : r.version = s.version => r = s
TableInv == table # None => IsInjective(NamesOf(table.columns))
ShapeInv == DOMAIN task = Threads /\ task = [t \in Threads |-> task[t]] /\ KindsInv /\ RecordInv /\ TableInv

\* A task that is replaced is still a task.
LEMMA TaskReplaced ==
    ASSUME ShapeInv, NEW t \in Threads, NEW next, task' = [task EXCEPT ![t] = next],
           next.kind \in {"none", "register", "create", "upload", "copy"}
    PROVE  DOMAIN task' = Threads /\ task' = [u \in Threads |-> task'[u]] /\ KindsInv'
BY DEF ShapeInv, KindsInv

\* Every step keeps a record of one schema per version and a table of distinct names.
LEMMA ShapeStep ==
    ASSUME TypeInv, ShapeInv, [Next]_vars
    PROVE  ShapeInv'
<1> USE DEF ShapeInv
<1>1. ASSUME NEW t \in Threads, NEW kind \in {"register", "create", "upload"}, NEW frame,
             Begin(t, kind, frame)
      PROVE  DOMAIN task' = Threads /\ task' = [u \in Threads |-> task'[u]] /\ KindsInv'
  <2> DEFINE next == [NoTask EXCEPT !.kind = kind, !.frame = frame]
  <2>1. next.kind = kind /\ task' = [task EXCEPT ![t] = next]
    BY <1>1 DEF Begin, NoTask
  <2> HIDE DEF next
  <2>2. QED
    BY <2>1, TaskReplaced
<1>2. ASSUME NEW t \in Threads, task' = [task EXCEPT ![t] = NoTask]
      PROVE  DOMAIN task' = Threads /\ task' = [u \in Threads |-> task'[u]] /\ KindsInv'
  <2>1. NoTask.kind = "none"
    BY DEF NoTask
  <2>2. QED
    BY <1>2, <2>1, TaskReplaced
<1>3. ASSUME UNCHANGED task
      PROVE  DOMAIN task' = Threads /\ task' = [u \in Threads |-> task'[u]] /\ KindsInv'
  BY <1>3 DEF KindsInv
<1>4. ASSUME UNCHANGED versions PROVE RecordInv'
  BY <1>4 DEF RecordInv
<1>5. ASSUME UNCHANGED table PROVE TableInv'
  BY <1>5 DEF TableInv
<1>6. ASSUME NEW t \in Threads, Submit(t) \/ AskTable(t) \/ AskUpload(t) PROVE ShapeInv'
  <2>1. UNCHANGED <<versions, table>>
        /\ \E kind \in {"register", "create", "upload"} : \E frame : Begin(t, kind, frame)
    BY <1>6 DEF Submit, AskTable, AskUpload, Register, GetOrLoad
  <2>2. QED
    BY <1>1, <1>4, <1>5, <2>1
<1>7. ASSUME NEW t \in Threads, Lookup(t) PROVE ShapeInv'
  <2>1. UNCHANGED <<table, task>>
    BY <1>7 DEF Lookup
  <2>2. CASE UNCHANGED versions
    BY <1>3, <1>4, <1>5, <2>1, <2>2
  <2>3. CASE WriteVersion(t)
    <3> DEFINE k == thread[t].key
               s == thread[t].schema
    <3>1. k \in Keys
      BY <2>3 DEF WriteVersion, At, TypeInv, Working
    <3>2. versions' = [versions EXCEPT ![k] = {old \in versions[k] : old.version # s.version} \union {s}]
      BY <2>3 DEF WriteVersion
    <3> HIDE DEF k, s
    <3>3. /\ versions'[k] = {old \in versions[k] : old.version # s.version} \union {s}
          /\ \A j \in Keys \ {k} : versions'[j] = versions[j]
      BY <3>1, <3>2 DEF TypeInv
    <3>4. RecordInv'
      BY <3>3 DEF RecordInv
    <3>5. QED
      BY <1>3, <1>5, <2>1, <3>4
  <2>4. QED
    BY <1>7, <2>2, <2>3 DEF Lookup, Step, Check, CheckParent, WriteCurrent, Get
<1>8. ASSUME NEW t \in Threads, Answer(t) PROVE ShapeInv'
  BY <1>2, <1>4, <1>5, <1>8 DEF Answer, End, Rest
<1>9. ASSUME NEW t \in Threads, CreateTable(t) PROVE ShapeInv'
  <2> DEFINE columns == EnrichedColumns(thread[t].schema)
             made == [columns |-> columns, schema |-> thread[t].schema]
  <2>1. /\ UNCHANGED versions /\ task' = [task EXCEPT ![t] = NoTask]
        /\ UNCHANGED table \/ (table' = made /\ IsInjective(NamesOf(columns)))
    BY <1>9 DEF CreateTable, End, Rest
  <2>2. made.columns = columns
    OBVIOUS
  <2> HIDE DEF columns, made
  <2>3. TableInv'
    BY <2>1, <2>2 DEF TableInv
  <2>4. QED
    BY <1>2, <1>4, <2>1, <2>3
<1>10. ASSUME NEW t \in Threads, PrepareFile(t) PROVE ShapeInv'
  <2> DEFINE file == Prepare(thread[t].schema, task[t].frame)
             next == [kind |-> "copy", frame |-> <<>>, file |-> file, schema |-> thread[t].schema]
  <2>1. /\ UNCHANGED <<versions, table>>
        /\ \/ task' = [task EXCEPT ![t] = NoTask]
           \/ task' = [task EXCEPT ![t] = next]
    BY <1>10 DEF PrepareFile, Rest
  <2>2. next.kind = "copy"
    OBVIOUS
  <2> HIDE DEF next
  <2>3. CASE task' = [task EXCEPT ![t] = next]
    BY <1>4, <1>5, <2>1, <2>2, <2>3, TaskReplaced
  <2>4. QED
    BY <1>2, <1>4, <1>5, <2>1, <2>3
<1>11. ASSUME NEW t \in Threads, Copy(t) PROVE ShapeInv'
  BY <1>2, <1>4, <1>5, <1>11 DEF Copy, registry
<1>12. CASE Redeploy
  <2>1. task' = [t \in Threads |-> NoTask] /\ versions' = [k \in Keys |-> {}] /\ UNCHANGED table
    BY <1>12 DEF Redeploy, Restart
  <2>2. KindsInv' /\ RecordInv'
    BY <2>1 DEF KindsInv, RecordInv, NoTask
  <2>3. QED
    BY <1>5, <2>1, <2>2
<1>13. CASE UNCHANGED vars
  BY <1>3, <1>4, <1>5, <1>13 DEF vars, registry
<1>14. QED
  BY <1>6, <1>7, <1>8, <1>9, <1>10, <1>11, <1>12, <1>13 DEF Next, Request

\* At first nothing is recorded and there is no table.
LEMMA ShapeInit == StagingInit => ShapeInv
<1> SUFFICES ASSUME StagingInit PROVE ShapeInv
  OBVIOUS
<1>1. task = [t \in Threads |-> NoTask] /\ versions = [k \in Keys |-> {}] /\ table = None
  BY DEF StagingInit, Init
<1>2. KindsInv /\ RecordInv /\ TableInv
  BY <1>1 DEF KindsInv, RecordInv, TableInv, NoTask
<1>3. QED
  BY <1>1, <1>2 DEF ShapeInv

\* A schema reaches a map of the registry only under the key it was given for, and a
\* second one of its version only in the place of the first; and no table is made with
\* two columns of one name.
THEOREM TypeCorrect == Spec => []TypeOK
<1>1. TypeInv /\ ShapeInv => TypeOK
  <2> SUFFICES ASSUME TypeInv, ShapeInv PROVE TypeOK
    OBVIOUS
  <2>1. \A t \in Threads :
          /\ thread[t].at \in {"idle", "check", "parent", "insert", "record", "get", "done"}
          /\ At(t, "insert") \/ At(t, "record") => thread[t].schema \in Claimed(thread[t].key)
    BY DEF TypeInv, Thread, Places, Working, At
  <2>2. QED
    BY <2>1 DEF TypeInv, ShapeInv, KindsInv, RecordInv, TableInv, TypeOK
<1>2. TypeInv /\ ShapeInv /\ [Next]_vars => ShapeInv'
  BY ShapeStep
<1>3. QED
  BY <1>1, <1>2, ShapeInit, TypeAlways, PTL DEF Spec

-----------------------------------------------------------------------------
(* Files and the table *)

\* The columns a schema resolves to are a sequence.
LEMMA ConcatIsSeq ==
    ASSUME NEW s, IsSeq(s), NEW r, IsSeq(r)
    PROVE  IsSeq(s \o r)
<1>1. s \in Seq(Range(s) \union Range(r)) /\ r \in Seq(Range(s) \union Range(r))
  BY SeqMonotonic DEF IsSeq
<1>2. s \o r \in Seq(Range(s) \union Range(r))
  BY <1>1, ConcatProperties
<1>3. QED
  BY <1>2, SeqOfRange DEF IsSeq

\* Whoever claims a schema, its columns are a sequence.
LEMMA ClaimedColumns ==
    ASSUME NEW k \in Keys, NEW schema \in Claimed(k)
    PROVE  IsSeq(schema.columns)
<1>1. PICK raw : /\ schema = Resolve(raw) /\ schema # None
                 /\ IsSeq(raw.columns)
                 /\ raw.core # None => IsSeq(raw.core)
                 /\ raw.hubs # None => IsSeq(raw.hubs)
  <2>1. PICK raw : schema = Resolve(raw)
          /\ \/ raw \in Files[k] \ {None}
             \/ raw # None /\ \E s \in Submissions : raw = s.schema
    <3>1. CASE \E raw \in Files[k] \ {None} : schema = Resolve(raw)
      BY <3>1
    <3>2. CASE \E s \in Submissions : schema = Resolve(s.schema)
      BY <3>2
    <3>3. QED
      BY <3>1, <3>2 DEF Claimed
  <2>2. QED
    BY <2>1 DEF Claimed
<1>2. WellFormed(raw) /\ schema.columns = Scaffold(raw)
  BY <1>1 DEF Resolve
<1>3. \A x, y, z : IsSeq(<<x>>) /\ IsSeq(<<x, y>>) /\ IsSeq(<<x, y, z>>)
  <2>1. SUFFICES ASSUME NEW x, NEW y, NEW z
                 PROVE  IsSeq(<<x>>) /\ IsSeq(<<x, y>>) /\ IsSeq(<<x, y, z>>)
    OBVIOUS
  <2>2. <<x>> \in Seq({x, y, z}) /\ <<x, y>> \in Seq({x, y, z}) /\ <<x, y, z>> \in Seq({x, y, z})
    OBVIOUS
  <2>3. QED
    BY <2>2, SeqOfRange DEF IsSeq
<1>4. CASE raw.type = "hub"
  <2>1. Scaffold(raw) = (<<HashKey(raw.name)>> \o raw.columns) \o <<LoadDate, RecordSource>>
    BY <1>4 DEF Scaffold
  <2>2. QED
    BY <1>1, <1>2, <1>3, <2>1, ConcatIsSeq
<1>5. CASE raw.type = "link"
  <2> DEFINE keys == [i \in DOMAIN raw.hubs |-> HashKey(raw.hubs[i])]
  <2>1. Scaffold(raw) = (<<HashKey(raw.name)>> \o keys) \o <<LoadDate, RecordSource>>
    BY <1>5 DEF Scaffold
  <2>2. IsSeq(raw.hubs)
    BY <1>1, <1>2, <1>5 DEF WellFormed
  <2>3. PICK n \in Nat : DOMAIN raw.hubs = 1..n
    BY <2>2, LenProperties DEF IsSeq
  <2>4. IsSeq(keys)
    <3>1. keys \in [1..n -> Range(keys)]
      BY <2>3 DEF Range
    <3> HIDE DEF keys
    <3>2. keys \in Seq(Range(keys))
      BY <3>1
    <3>3. QED
      BY <3>2 DEF IsSeq
  <2> HIDE DEF keys
  <2>5. QED
    BY <1>2, <1>3, <2>1, <2>4, ConcatIsSeq
<1>6. CASE raw.type = "satellite"
  <2> DEFINE core == IF raw.core = None THEN raw.columns ELSE raw.core
  <2>1. Scaffold(raw) = (<<HashKey(raw.parent)>> \o core) \o <<LoadDate, LoadEndDate, RecordSource>>
    BY <1>6 DEF Scaffold
  <2>2. IsSeq(core)
    BY <1>1
  <2> HIDE DEF core
  <2>3. QED
    BY <1>2, <1>3, <2>1, <2>2, ConcatIsSeq
<1>7. CASE raw.type \notin {"hub", "link", "satellite"}
  BY <1>1, <1>2, <1>7 DEF Scaffold
<1>8. QED
  BY <1>4, <1>5, <1>6, <1>7

\* A thread that loads a file has a frame that was accepted and prepared with the schema
\* it names, and the table has the columns of the schema it was made with.
Known == UNION {Claimed(k) : k \in Keys}
FrameInv == \A t \in Threads : task[t].kind = "upload" => task[t].frame \in Frames
FileInv ==
    \A t \in Threads : task[t].kind = "copy" =>
      /\ task[t].schema \in Known
      /\ \E frame \in Frames : /\ Accepted(task[t].schema, frame)
                               /\ task[t].file = Prepare(task[t].schema, frame)
MadeInv == table # None => table.schema \in Known /\ table.columns = EnrichedColumns(table.schema)
DataInv == ShapeInv /\ FrameInv /\ FileInv /\ MadeInv

\* The task of one thread is replaced by another one.
LEMMA DataReplaced ==
    ASSUME DataInv, NEW t \in Threads, NEW next, task' = [task EXCEPT ![t] = next],
           next.kind = "upload" => next.frame \in Frames,
           next.kind = "copy" =>
             /\ next.schema \in Known
             /\ \E frame \in Frames : Accepted(next.schema, frame)
                                      /\ next.file = Prepare(next.schema, frame)
    PROVE  FrameInv' /\ FileInv'
<1>1. /\ task'[t] = next /\ \A u \in Threads \ {t} : task'[u] = task[u]
  BY DEF DataInv, ShapeInv
<1>2. FrameInv'
  BY <1>1 DEF DataInv, FrameInv
<1>3. FileInv'
  <2>1. SUFFICES ASSUME NEW u \in Threads, task'[u].kind = "copy"
                 PROVE  /\ task'[u].schema \in Known
                        /\ \E frame \in Frames : Accepted(task'[u].schema, frame)
                                                 /\ task'[u].file = Prepare(task'[u].schema, frame)
    BY DEF FileInv
  <2>2. CASE u = t
    BY <1>1, <2>1, <2>2
  <2>3. CASE u # t
    BY <1>1, <2>1, <2>3 DEF DataInv, FileInv
  <2>4. QED
    BY <2>2, <2>3
<1>4. QED
  BY <1>2, <1>3

\* Every step keeps what is known of the frames, the prepared files and the table.
LEMMA DataStep ==
    ASSUME TypeInv, DataInv, [Next]_vars
    PROVE  DataInv'
<1>0. ShapeInv'
  BY ShapeStep DEF DataInv
<1>1. ASSUME UNCHANGED table PROVE MadeInv'
  BY <1>1 DEF DataInv, MadeInv
<1>2. ASSUME UNCHANGED task PROVE FrameInv' /\ FileInv'
  BY <1>2 DEF DataInv, FrameInv, FileInv
<1>3. ASSUME NEW t \in Threads, task' = [task EXCEPT ![t] = NoTask] PROVE FrameInv' /\ FileInv'
  BY <1>3, DataReplaced DEF NoTask
<1>4. ASSUME NEW t \in Threads, NEW kind \in {"register", "create", "upload"}, NEW frame,
             kind = "upload" => frame \in Frames, Begin(t, kind, frame)
      PROVE  FrameInv' /\ FileInv'
  <2> DEFINE next == [NoTask EXCEPT !.kind = kind, !.frame = frame]
  <2>1. next.kind = kind /\ next.frame = frame /\ task' = [task EXCEPT ![t] = next]
    BY <1>4 DEF Begin, NoTask
  <2> HIDE DEF next
  <2>2. next.kind # "copy"
    BY <2>1
  <2>3. QED
    BY <1>4, <2>1, <2>2, DataReplaced
<1>5. ASSUME NEW t \in Threads, At(t, "done"), thread[t].schema # None
      PROVE  thread[t].schema \in Known
  BY <1>5 DEF TypeInv, Thread, Known
<1>6. ASSUME NEW t \in Threads, Submit(t) \/ AskTable(t) \/ AskUpload(t) PROVE DataInv'
  <2>1. UNCHANGED table
        /\ \E kind \in {"register", "create", "upload"} : \E frame :
             (kind = "upload" => frame \in Frames) /\ Begin(t, kind, frame)
    BY <1>6 DEF Submit, AskTable, AskUpload
  <2>2. QED
    BY <1>0, <1>1, <1>4, <2>1 DEF DataInv
<1>7. ASSUME NEW t \in Threads, Lookup(t) PROVE DataInv'
  BY <1>0, <1>1, <1>2, <1>7 DEF Lookup, DataInv
<1>8. ASSUME NEW t \in Threads, Answer(t) \/ Copy(t) PROVE DataInv'
  BY <1>0, <1>1, <1>3, <1>8 DEF Answer, End, Copy, DataInv
<1>9. ASSUME NEW t \in Threads, CreateTable(t) PROVE DataInv'
  <2> DEFINE schema == thread[t].schema
             made == [columns |-> EnrichedColumns(schema), schema |-> schema]
  <2>1. /\ task' = [task EXCEPT ![t] = NoTask] /\ At(t, "done")
        /\ UNCHANGED table \/ (table' = made /\ schema # None)
    BY <1>9 DEF CreateTable, End
  <2>2. made.columns = EnrichedColumns(schema) /\ made.schema = schema
    OBVIOUS
  <2>3. schema # None => schema \in Known
    BY <1>5, <2>1
  <2> HIDE DEF schema, made
  <2>4. MadeInv'
    BY <1>1, <2>1, <2>2, <2>3 DEF MadeInv
  <2>5. QED
    BY <1>0, <1>3, <2>1, <2>4 DEF DataInv
<1>10. ASSUME NEW t \in Threads, PrepareFile(t) PROVE DataInv'
  <2> DEFINE schema == thread[t].schema
             file == Prepare(schema, task[t].frame)
             next == [kind |-> "copy", frame |-> <<>>, file |-> file, schema |-> schema]
  <2>1. /\ UNCHANGED table /\ At(t, "done") /\ task[t].kind = "upload"
        /\ \/ task' = [task EXCEPT ![t] = NoTask]
           \/ /\ schema # None /\ Accepted(schema, task[t].frame)
              /\ task' = [task EXCEPT ![t] = next]
    BY <1>10 DEF PrepareFile
  <2>2. next.kind = "copy" /\ next.file = file /\ next.schema = schema
    OBVIOUS
  <2>3. task[t].frame \in Frames /\ (schema # None => schema \in Known)
    BY <1>5, <2>1 DEF DataInv, FrameInv
  <2> HIDE DEF next, schema
  <2>4. CASE schema # None /\ Accepted(schema, task[t].frame) /\ task' = [task EXCEPT ![t] = next]
    <3>1. FrameInv' /\ FileInv'
      BY <2>2, <2>3, <2>4, DataReplaced
    <3>2. QED
      BY <1>0, <1>1, <2>1, <3>1 DEF DataInv
  <2>5. QED
    BY <1>0, <1>1, <1>3, <2>1, <2>4 DEF DataInv
<1>11. CASE Redeploy
  <2>1. task' = [t \in Threads |-> NoTask] /\ UNCHANGED table
    BY <1>11 DEF Redeploy
  <2>2. FrameInv' /\ FileInv'
    BY <2>1 DEF FrameInv, FileInv, NoTask
  <2>3. QED
    BY <1>0, <1>1, <2>1, <2>2 DEF DataInv
<1>12. CASE UNCHANGED vars
  BY <1>0, <1>1, <1>2, <1>12 DEF vars, DataInv
<1>13. QED
  BY <1>6, <1>7, <1>8, <1>9, <1>10, <1>11, <1>12 DEF Next, Request

\* At first there are none of them.
LEMMA DataInit == StagingInit => DataInv
<1> SUFFICES ASSUME StagingInit PROVE DataInv
  OBVIOUS
<1>1. task = [t \in Threads |-> NoTask] /\ table = None
  BY DEF StagingInit
<1>2. FrameInv /\ FileInv /\ MadeInv
  BY <1>1 DEF FrameInv, FileInv, MadeInv, NoTask
<1>3. QED
  BY <1>2, ShapeInit DEF DataInv

\* Types and data hold together in every state.
LEMMA DataAlways == Spec => [](TypeInv /\ DataInv)
<1>1. StagingInit => TypeInv /\ DataInv
  BY TypeInit, DataInit
<1>2. TypeInv /\ DataInv /\ [Next]_vars => (TypeInv /\ DataInv)'
  BY TypeStep, DataStep
<1>3. QED
  BY <1>1, <1>2, PTL DEF Spec

\* COPY matches by position: a file that was prepared with the schema the table was made
\* with has the columns of the table in its order, whatever was uploaded and whatever
\* was registered and deployed since; only satellites without a business key may bring
\* more, behind them.
THEOREM FilesFit == Spec => []FilesFitTheirTable
<1>1. TypeInv /\ DataInv => FilesFitTheirTable
  <2> SUFFICES ASSUME DataInv, NEW t \in Threads, task[t].kind = "copy", table # None,
                      task[t].schema = table.schema
               PROVE  IF AllowsExtra(table.schema) /\ table.schema.key = {}
                      THEN IsPrefix(table.columns, task[t].file) ELSE task[t].file = table.columns
    BY DEF FilesFitTheirTable
  <2>1. PICK frame \in Frames : /\ Accepted(table.schema, frame)
                                /\ task[t].file = Prepare(table.schema, frame)
    BY DEF DataInv, FileInv
  <2>2. IsSeq(table.schema.columns) /\ table.columns = EnrichedColumns(table.schema)
    BY ClaimedColumns DEF DataInv, MadeInv, Known
  <2>3. IsSeq(frame)
    OBVIOUS
  <2>4. IF AllowsExtra(table.schema) /\ table.schema.key = {}
        THEN IsPrefix(EnrichedColumns(table.schema), Prepare(table.schema, frame))
        ELSE Prepare(table.schema, frame) = EnrichedColumns(table.schema)
    BY <2>1, <2>2, <2>3, PreparedFits
  <2>5. QED
    BY <2>1, <2>2, <2>4
<1>2. QED
  BY <1>1, DataAlways, PTL

\* The decode step refuses a file only for what the schema and the file have, never for
\* the order of its columns.
THEOREM FilesJudged == Spec => []JudgedByColumns
<1>1. TypeInv /\ DataInv => JudgedByColumns
  <2> SUFFICES ASSUME TypeInv, DataInv, NEW t \in Threads,
                      At(t, "done"), task[t].kind = "upload", thread[t].schema # None
               PROVE  LET schema == thread[t].schema
                          frame == task[t].frame
                          kept == IF AllowsExtra(schema) THEN Names(frame) ELSE Names(schema.columns)
                      IN  Accepted(schema, frame) <=>
                            /\ \A i \in DOMAIN schema.columns : Has(frame, schema.columns[i])
                            /\ schema.key \subseteq kept
                            /\ IsInjective(NamesOf(EnrichedColumns(schema)))
    BY DEF JudgedByColumns
  <2>1. thread[t].schema \in Known
    BY DEF TypeInv, Thread, Known
  <2>2. IsSeq(thread[t].schema.columns)
    BY <2>1, ClaimedColumns DEF Known
  <2>3. IsSeq(task[t].frame) /\ IsInjective(NamesOf(task[t].frame))
    BY DEF DataInv, FrameInv
  <2>4. QED
    BY <2>2, <2>3, AcceptedForItsColumns
<1>2. QED
  BY <1>1, DataAlways, PTL
=============================================================================
