--------------------------- MODULE UploadPipeline ---------------------------
(***************************************************************************)
(* tako's POST /upload: a file is decoded on a blocking thread, stored in  *)
(* the blob store, and appended to its warehouse table by a COPY on        *)
(* another blocking thread.                                                *)
(*                                                                         *)
(* The handler holds a permit from admission to its end.  Its future can   *)
(* be dropped at any await point, by the upload timeout or by the client's *)
(* disconnect: the permit goes back, but a blocking task it started, or a  *)
(* write the store has already been asked for, carries on without it.  The *)
(* handler and its three tasks are therefore separate processes here.      *)
(***************************************************************************)
EXTENDS Naturals, FiniteSets

CONSTANTS
    Uploads,   \* the requests
    Tables,    \* the destination tables
    TableOf,   \* the table each request names
    Permits,   \* MAX_CONCURRENT_UPLOADS
    PoolSize,  \* DB_MAX_CONNECTIONS
    Local,     \* is the blob store a directory, rather than S3?
    MayDrop,   \* may a handler be dropped?
    MayFail,   \* may the body, the store or the warehouse fail?
    NoBatch, Torn  \* contents of a blob that is absent, or not a whole file

ASSUME PipelineAssumption ==
    /\ IsFiniteSet(Uploads)
    /\ TableOf \in [Uploads -> Tables]
    /\ Permits \in Nat \ {0}
    /\ PoolSize \in Nat \ {0}
    /\ Local \in BOOLEAN /\ MayDrop \in BOOLEAN /\ MayFail \in BOOLEAN
    /\ NoBatch \notin Uploads /\ Torn \notin Uploads /\ NoBatch # Torn

VARIABLES
    permits,  \* free permits of upload_semaphore
    handler,  \* where the handler of each request is
    reply,    \* the answer each request was given
    decode,   \* the blocking task that parses, validates and encodes
    store,    \* the write to the blob store
    load,     \* the blocking task that runs the COPY
    blob,     \* the contents of each table's object
    rows      \* how many times each request's rows are in its table

vars == <<permits, handler, reply, decode, store, load, blob, rows>>

InHandler == {"reading", "decoding", "storing", "loading"}
Active(u) == handler[u] \in InHandler

\* The object key names only the table, so every upload to it shares the key.
Object(u) == TableOf[u]

Init ==
    /\ permits = Permits
    /\ handler = [u \in Uploads |-> "idle"]
    /\ reply = [u \in Uploads |-> "none"]
    /\ decode = [u \in Uploads |-> "none"]
    /\ store = [u \in Uploads |-> "none"]
    /\ load = [u \in Uploads |-> "none"]
    /\ blob = [t \in Tables |-> NoBatch]
    /\ rows = [u \in Uploads |-> 0]

-----------------------------------------------------------------------------
(* The handler *)

Goto(u, stage) == handler' = [handler EXCEPT ![u] = stage]

\* The handler ends, and its permit is returned.
Leave(u, answer) ==
    /\ Goto(u, "gone")
    /\ reply' = [reply EXCEPT ![u] = answer]
    /\ permits' = permits + 1

\* Mutant: no permit is needed.
MUT_Admit(u) ==
    /\ handler[u] = "idle"
    /\ permits' = permits - 1
    /\ Goto(u, "reading")
    /\ UNCHANGED <<reply, decode, store, load, blob, rows>>

Admit(u) ==
    /\ handler[u] = "idle"
    /\ permits > 0
    /\ permits' = permits - 1
    /\ Goto(u, "reading")
    /\ UNCHANGED <<reply, decode, store, load, blob, rows>>

\* try_acquire_owned fails: 503, without reading the body.
Shed(u) ==
    /\ handler[u] = "idle"
    /\ permits = 0
    /\ Goto(u, "gone")
    /\ reply' = [reply EXCEPT ![u] = "shed"]
    /\ UNCHANGED <<permits, decode, store, load, blob, rows>>

\* extract_file, the table parameter or the identifier is rejected.
RejectRequest(u) ==
    /\ handler[u] = "reading"
    /\ MayFail
    /\ Leave(u, "error")
    /\ UNCHANGED <<decode, store, load, blob, rows>>

StartDecode(u) ==
    /\ handler[u] = "reading"
    /\ Goto(u, "decoding")
    /\ decode' = [decode EXCEPT ![u] = "running"]
    /\ UNCHANGED <<permits, reply, store, load, blob, rows>>

RejectFile(u) ==
    /\ handler[u] = "decoding" /\ decode[u] = "failed"
    /\ Leave(u, "error")
    /\ UNCHANGED <<decode, store, load, blob, rows>>

\* Mutant: the outcome of the task is not looked at.
MUT_StartStore(u) ==
    /\ handler[u] = "decoding" /\ decode[u] \in {"done", "failed"}
    /\ Goto(u, "storing")
    /\ store' = [store EXCEPT ![u] = "asked"]
    /\ UNCHANGED <<permits, reply, decode, load, blob, rows>>

StartStore(u) ==
    /\ handler[u] = "decoding" /\ decode[u] = "done"
    /\ Goto(u, "storing")
    /\ store' = [store EXCEPT ![u] = "asked"]
    /\ UNCHANGED <<permits, reply, decode, load, blob, rows>>

StoreError(u) ==
    /\ handler[u] = "storing" /\ store[u] = "failed"
    /\ Leave(u, "error")
    /\ UNCHANGED <<decode, store, load, blob, rows>>

\* load_into_warehouse: the task first waits for a pooled connection.
StartLoad(u) ==
    /\ handler[u] = "storing" /\ store[u] = "done"
    /\ Goto(u, "loading")
    /\ load' = [load EXCEPT ![u] = "waiting"]
    /\ UNCHANGED <<permits, reply, decode, store, blob, rows>>

LoadError(u) ==
    /\ handler[u] = "loading" /\ load[u] = "failed"
    /\ Leave(u, "error")
    /\ UNCHANGED <<decode, store, load, blob, rows>>

\* Mutant: a COPY that failed is reported like one that did not.
MUT_Finish(u) ==
    /\ handler[u] = "loading" /\ load[u] \in {"done", "failed"}
    /\ Leave(u, "ok")
    /\ UNCHANGED <<decode, store, load, blob, rows>>

Finish(u) ==
    /\ handler[u] = "loading" /\ load[u] = "done"
    /\ Leave(u, "ok")
    /\ UNCHANGED <<decode, store, load, blob, rows>>

\* Mutant: a dropped handler keeps its permit.
MUT_Drop(u) ==
    /\ Active(u)
    /\ MayDrop
    /\ Goto(u, "gone")
    /\ reply' = [reply EXCEPT ![u] = "timeout"]
    /\ UNCHANGED <<permits, decode, store, load, blob, rows>>

\* The upload timeout (408) or a disconnect drops the handler's future.
Drop(u) ==
    /\ Active(u)
    /\ MayDrop
    /\ Leave(u, "timeout")
    /\ UNCHANGED <<decode, store, load, blob, rows>>

-----------------------------------------------------------------------------
(* The tasks, which outlive their handler *)

Decode(u) ==
    /\ decode[u] = "running"
    /\ \E end \in {"done", "failed"} :
         /\ end = "failed" => MayFail
         /\ decode' = [decode EXCEPT ![u] = end]
    /\ UNCHANGED <<permits, handler, reply, store, load, blob, rows>>

\* fs::write of a directory's file first truncates it, whatever it held.
Truncate(u) ==
    /\ Local
    /\ store[u] = "asked"
    /\ store' = [store EXCEPT ![u] = "truncated"]
    /\ blob' = [blob EXCEPT ![Object(u)] = NoBatch]
    /\ UNCHANGED <<permits, handler, reply, decode, load, rows>>

\* Somebody else's bytes are in the file, or may still get there: another write to it is
\* under way, or has ended since the file was truncated, and may be the longer one.
Overlapped(u) ==
    \/ blob[Object(u)] # NoBatch
    \/ \E v \in Uploads \ {u} : Object(v) = Object(u) /\ store[v] = "truncated"

\* S3 replaces an object at once.  A file is written over in place: a writer whose write
\* overlaps another's may leave its own file with the tail of the other's, or worse.
Write(u) ==
    /\ store[u] = IF Local THEN "truncated" ELSE "asked"
    /\ store' = [store EXCEPT ![u] = "done"]
    /\ \E content \in {u, Torn} :
         /\ content = Torn => Local /\ Overlapped(u)
         /\ blob' = [blob EXCEPT ![Object(u)] = content]
    /\ UNCHANGED <<permits, handler, reply, decode, load, rows>>

\* The store refuses the write, or the handler is gone before it is made.  S3 may have
\* replaced the object all the same, and a file may have been written in part.
WriteFails(u) ==
    /\ \/ MayFail /\ store[u] \in {"asked", "truncated"}
       \/ ~Active(u) /\ store[u] = "asked"
    /\ store' = [store EXCEPT ![u] = "failed"]
    /\ \/ UNCHANGED blob
       \/ ~Local /\ blob' = [blob EXCEPT ![Object(u)] = u]
       \/ store[u] = "truncated" /\ blob' = [blob EXCEPT ![Object(u)] = Torn]
    /\ UNCHANGED <<permits, handler, reply, decode, load, rows>>

Connections == {u \in Uploads : load[u] = "copying"}

\* Mutant: one connection is never given out.
MUT_Connect(u) ==
    /\ load[u] = "waiting"
    /\ Cardinality(Connections) < PoolSize - 1
    /\ load' = [load EXCEPT ![u] = "copying"]
    /\ UNCHANGED <<permits, handler, reply, decode, store, blob, rows>>

Connect(u) ==
    /\ load[u] = "waiting"
    /\ Cardinality(Connections) < PoolSize
    /\ load' = [load EXCEPT ![u] = "copying"]
    /\ UNCHANGED <<permits, handler, reply, decode, store, blob, rows>>

\* r2d2 gives up waiting for a connection.
PoolTimeout(u) ==
    /\ load[u] = "waiting"
    /\ Cardinality(Connections) >= PoolSize
    /\ load' = [load EXCEPT ![u] = "failed"]
    /\ UNCHANGED <<permits, handler, reply, decode, store, blob, rows>>

\* The COPY appends what the object holds now.  Its answer may be lost.
Copy(u) ==
    /\ load[u] = "copying"
    /\ blob[Object(u)] \in Uploads
    /\ rows' = [rows EXCEPT ![blob[Object(u)]] = @ + 1]
    /\ \E end \in {"done", "failed"} :
         /\ end = "failed" => MayFail
         /\ load' = [load EXCEPT ![u] = end]
    /\ UNCHANGED <<permits, handler, reply, decode, store, blob>>

\* A missing table, a statement timeout, a file that is not Parquet.
CopyFails(u) ==
    /\ load[u] = "copying"
    /\ MayFail \/ blob[Object(u)] \notin Uploads
    /\ load' = [load EXCEPT ![u] = "failed"]
    /\ UNCHANGED <<permits, handler, reply, decode, store, blob, rows>>

-----------------------------------------------------------------------------

Arrive(u) == Admit(u) \/ Shed(u)

\* The body comes at the client's pace.
ReadBody(u) == RejectRequest(u) \/ StartDecode(u)

\* What the handler does when a task of its own has ended.
Advance(u) ==
    \/ RejectFile(u) \/ StartStore(u) \/ StoreError(u) \/ StartLoad(u)
    \/ LoadError(u) \/ Finish(u)

Handle(u) == ReadBody(u) \/ Advance(u)

Work(u) ==
    \/ Decode(u) \/ Truncate(u) \/ Write(u) \/ WriteFails(u)
    \/ Connect(u) \/ PoolTimeout(u) \/ Copy(u) \/ CopyFails(u)

\* Every request has been answered and no task is left.
Quiet ==
    /\ \A u \in Uploads :
         /\ handler[u] = "gone"
         /\ decode[u] # "running"
         /\ store[u] \notin {"asked", "truncated"}
         /\ load[u] \notin {"waiting", "copying"}
    /\ UNCHANGED vars

Next == (\E u \in Uploads : Arrive(u) \/ Handle(u) \/ Drop(u) \/ Work(u)) \/ Quiet

Spec == Init /\ [][Next]_vars

\* The runtime polls every handler whose task has ended and runs every task; the store,
\* the pool and the warehouse answer.  Nothing makes a client send its body: what ends a
\* stalled one is the upload timeout.
FairSpec ==
    /\ Spec
    /\ \A u \in Uploads :
         /\ WF_vars(Advance(u)) /\ WF_vars(Work(u))
         /\ WF_vars(handler[u] = "reading" /\ Drop(u))

-----------------------------------------------------------------------------
(* Properties *)

\* The type of every variable; the semaphore never goes below zero.
TypeOK ==
    /\ permits \in Nat
    /\ handler \in [Uploads -> InHandler \union {"idle", "gone"}]
    /\ reply \in [Uploads -> {"none", "ok", "shed", "error", "timeout"}]
    /\ decode \in [Uploads -> {"none", "running", "done", "failed"}]
    /\ store \in [Uploads -> {"none", "asked", "truncated", "done", "failed"}]
    /\ load \in [Uploads -> {"none", "waiting", "copying", "done", "failed"}]
    /\ blob \in [Tables -> Uploads \union {NoBatch, Torn}]
    /\ rows \in [Uploads -> Nat]

\* Whatever early return, error or drop ends a handler, its permit comes back
\* exactly once: free permits and running handlers always add up.
PermitsConserved == permits + Cardinality({u \in Uploads : Active(u)}) = Permits

\* A file that failed to parse or validate never reaches its table, not even
\* through the COPY of another upload.
OnlyDecodedRows == \A u \in Uploads : rows[u] > 0 => decode[u] = "done"

\* An upload's rows are appended at most once, and before its 200.
Promise == INSTANCE AppendOnce
LoadsOnce == Promise!Spec

\* An upload whose table no other upload names is loaded once, whatever the others do
\* to each other's objects, to the pool and to the permits.
Alone == {u \in Uploads : \A v \in Uploads \ {u} : TableOf[v] # TableOf[u]}
AlonePromise == INSTANCE AppendOnce WITH Uploads <- Alone,
                  rows <- [u \in Alone |-> rows[u]], reply <- [u \in Alone |-> reply[u]]
AloneLoadsOnce == AlonePromise!Spec

\* An admitted upload ends, and its permit comes back: if its body stalls, by the
\* timeout; once the body is there, without its help, whoever has the connections.
HandlersEnd == \A u \in Uploads : Active(u) ~> ~Active(u)
=============================================================================
