------------------------ MODULE UploadPipelineProofs ------------------------
(***************************************************************************)
(* Proofs about the upload pipeline, for every set of uploads, number of   *)
(* permits and connections, with or without failures and dropped handlers. *)
(***************************************************************************)
EXTENDS UploadPipeline, FiniteSetTheorems, TLAPS

USE PipelineAssumption DEF InHandler, Active, Object, Goto, Leave

-----------------------------------------------------------------------------
(* Type correctness *)

\* Every step of every handler and task keeps the variables' types.
LEMMA TypeStep == TypeOK /\ [Next]_vars => TypeOK'
<1> SUFFICES ASSUME TypeOK, [Next]_vars PROVE TypeOK'
  OBVIOUS
<1> USE DEF TypeOK
<1>1. ASSUME NEW u \in Uploads, Arrive(u) PROVE TypeOK'
  BY <1>1 DEF Arrive, Admit, Shed
<1>2. ASSUME NEW u \in Uploads, Handle(u) \/ Drop(u) PROVE TypeOK'
  <2>1. CASE RejectRequest(u) \/ RejectFile(u) \/ StoreError(u) \/ LoadError(u)
             \/ Finish(u) \/ Drop(u)
    BY <2>1 DEF RejectRequest, RejectFile, StoreError, LoadError, Finish, Drop
  <2>2. CASE StartDecode(u)
    BY <2>2 DEF StartDecode
  <2>3. CASE StartStore(u)
    BY <2>3 DEF StartStore
  <2>4. CASE StartLoad(u)
    BY <2>4 DEF StartLoad
  <2>5. QED
    BY <1>2, <2>1, <2>2, <2>3, <2>4 DEF Handle, ReadBody, Advance
<1>3. ASSUME NEW u \in Uploads, Work(u) PROVE TypeOK'
  <2>1. CASE Decode(u)
    BY <2>1 DEF Decode
  <2>2. CASE Truncate(u)
    BY <2>2 DEF Truncate
  <2>3. CASE Write(u)
    BY <2>3 DEF Write
  <2>4. CASE WriteFails(u)
    BY <2>4 DEF WriteFails
  <2>5. CASE Connect(u) \/ PoolTimeout(u) \/ CopyFails(u)
    BY <2>5 DEF Connect, PoolTimeout, CopyFails
  <2>6. CASE Copy(u)
    BY <2>6 DEF Copy
  <2>7. QED
    BY <1>3, <2>1, <2>2, <2>3, <2>4, <2>5, <2>6 DEF Work
<1>4. CASE Quiet \/ UNCHANGED vars
  BY <1>4 DEF Quiet, vars
<1>5. QED
  BY <1>1, <1>2, <1>3, <1>4 DEF Next

\* Type correctness of the handlers, the tasks, the store and the tables.
THEOREM TypeCorrect == Spec => []TypeOK
<1>1. Init => TypeOK
  BY DEF Init, TypeOK
<1>2. QED
  BY <1>1, TypeStep, PTL DEF Spec

-----------------------------------------------------------------------------
(* Permits *)

\* Every step preserves the sum of free permits and running handlers.
LEMMA PermitStep ==
    ASSUME TypeOK, TypeOK', PermitsConserved, [Next]_vars
    PROVE  PermitsConserved'
<1> DEFINE S == {u \in Uploads : Active(u)}
<1> USE DEF TypeOK
<1>1. IsFiniteSet(S) /\ Cardinality(S) \in Nat
  BY FS_Subset, FS_CardinalityType
<1>2. ASSUME NEW u \in Uploads, Admit(u) PROVE PermitsConserved'
  <2>1. u \notin S /\ S' = S \union {u} /\ permits' = permits - 1
    BY <1>2 DEF Admit
  <2>2. Cardinality(S') = Cardinality(S) + 1
    BY <1>1, <2>1, FS_AddElement
  <2>3. QED
    BY <1>1, <2>1, <2>2 DEF PermitsConserved
<1>3. ASSUME NEW u \in Uploads, Active(u), permits' = permits + 1,
             handler' = [handler EXCEPT ![u] = "gone"]
      PROVE  PermitsConserved'
  <2>1. u \in S /\ S' = S \ {u}
    BY <1>3
  <2>2. Cardinality(S') = Cardinality(S) - 1
    <3> HIDE DEF S
    <3>1. Cardinality(S \ {u}) = Cardinality(S) - 1
      BY <1>1, <2>1, FS_RemoveElement
    <3>2. QED
      BY <2>1, <3>1
  <2>3. QED
    BY <1>1, <1>3, <2>2 DEF PermitsConserved
<1>4. ASSUME NEW u \in Uploads,
             RejectRequest(u) \/ RejectFile(u) \/ StoreError(u) \/ LoadError(u)
             \/ Finish(u) \/ Drop(u)
      PROVE  PermitsConserved'
  BY <1>3, <1>4 DEF RejectRequest, RejectFile, StoreError, LoadError, Finish, Drop
<1>5. ASSUME permits' = permits, \A u \in Uploads : Active(u)' <=> Active(u)
      PROVE  PermitsConserved'
  <2>1. S' = S
    BY <1>5
  <2>2. QED
    BY <1>5, <2>1 DEF PermitsConserved
<1>6. ASSUME NEW u \in Uploads,
             Shed(u) \/ StartDecode(u) \/ StartStore(u) \/ StartLoad(u)
      PROVE  PermitsConserved'
  BY <1>5, <1>6 DEF Shed, StartDecode, StartStore, StartLoad
<1>7. ASSUME NEW u \in Uploads, Work(u) PROVE PermitsConserved'
  BY <1>5, <1>7
     DEF Work, Decode, Truncate, Write, WriteFails, Connect, PoolTimeout, Copy, CopyFails
<1>8. CASE Quiet \/ UNCHANGED vars
  BY <1>5, <1>8 DEF Quiet, vars
<1>9. QED
  BY <1>2, <1>4, <1>6, <1>7, <1>8 DEF Next, Arrive, Handle, ReadBody, Advance

\* No early return, error or dropped handler leaks a permit or returns it twice,
\* so never more than Permits handlers run.
THEOREM PermitsAddUp == Spec => []PermitsConserved
<1>1. Init => PermitsConserved
  <2> SUFFICES ASSUME Init PROVE PermitsConserved
    OBVIOUS
  <2>1. {u \in Uploads : Active(u)} = {}
    BY DEF Init
  <2>2. QED
    BY <2>1, FS_EmptySet DEF Init, PermitsConserved
<1>2. TypeOK /\ TypeOK' /\ PermitsConserved /\ [Next]_vars => PermitsConserved'
  BY PermitStep
<1>3. QED
  BY <1>1, <1>2, TypeCorrect, PTL DEF Spec
-----------------------------------------------------------------------------
(* What is loaded was decoded *)

\* A file is stored only after it was decoded, and only stored files are loaded.
DecodedInv ==
    /\ \A u \in Uploads : handler[u] \in {"idle", "reading"} => store[u] = "none"
    /\ \A u \in Uploads : store[u] # "none" => decode[u] = "done"
    /\ \A t \in Tables : blob[t] \in Uploads => store[blob[t]] # "none"
    /\ \A u \in Uploads : rows[u] > 0 => store[u] # "none"

\* Every step preserves DecodedInv.
LEMMA DecodedStep == TypeOK /\ DecodedInv /\ [Next]_vars => DecodedInv'
<1> SUFFICES ASSUME TypeOK, DecodedInv, [Next]_vars PROVE DecodedInv'
  OBVIOUS
<1> USE DEF TypeOK, DecodedInv
<1>1. ASSUME decode' = decode, store' = store, blob' = blob, rows' = rows,
             \A u \in Uploads : handler'[u] \in {"idle", "reading"} =>
                                handler[u] \in {"idle", "reading"}
      PROVE  DecodedInv'
  BY <1>1
<1>2. ASSUME NEW u \in Uploads, Arrive(u) PROVE DecodedInv'
  BY <1>1, <1>2 DEF Arrive, Admit, Shed
<1>3. ASSUME NEW u \in Uploads, Handle(u) \/ Drop(u) PROVE DecodedInv'
  <2>1. CASE StartDecode(u)
    BY <2>1 DEF StartDecode
  <2>2. CASE StartStore(u)
    BY <2>2 DEF StartStore
  <2>3. CASE RejectRequest(u) \/ RejectFile(u) \/ StoreError(u) \/ LoadError(u)
             \/ Finish(u) \/ Drop(u) \/ StartLoad(u)
    BY <1>1, <2>3 DEF RejectRequest, RejectFile, StoreError, LoadError, Finish,
                      Drop, StartLoad
  <2>4. QED
    BY <1>3, <2>1, <2>2, <2>3 DEF Handle, ReadBody, Advance
<1>4. ASSUME NEW u \in Uploads, Work(u) PROVE DecodedInv'
  <2>1. CASE Decode(u)
    BY <2>1 DEF Decode
  <2>2. CASE Truncate(u) \/ Write(u) \/ WriteFails(u)
    <3>1. store[u] \in {"asked", "truncated"} /\ UNCHANGED <<handler, decode, rows>>
      BY <2>2 DEF Truncate, Write, WriteFails
    <3>2. PICK state \in {"truncated", "done", "failed"} :
            store' = [store EXCEPT ![u] = state]
      BY <2>2 DEF Truncate, Write, WriteFails
    <3>3. \A t \in Tables : blob'[t] \in Uploads => blob'[t] = u \/ blob'[t] = blob[t]
      BY <2>2 DEF Truncate, Write, WriteFails
    <3>4. QED
      BY <3>1, <3>2, <3>3
  <2>3. CASE Connect(u) \/ PoolTimeout(u) \/ CopyFails(u)
    BY <1>1, <2>3 DEF Connect, PoolTimeout, CopyFails
  <2>4. CASE Copy(u)
    BY <2>4 DEF Copy
  <2>5. QED
    BY <1>4, <2>1, <2>2, <2>3, <2>4 DEF Work
<1>5. CASE Quiet \/ UNCHANGED vars
  BY <1>1, <1>5 DEF Quiet, vars
<1>6. QED
  BY <1>2, <1>3, <1>4, <1>5 DEF Next

\* Whoever's COPY appended them, rows in a table come from a file that parsed and
\* validated.
THEOREM OnlyDecoded == Spec => []OnlyDecodedRows
<1>1. Init => DecodedInv
  BY DEF Init, DecodedInv
<1>2. TypeOK /\ DecodedInv => OnlyDecodedRows
  BY DEF TypeOK, DecodedInv, OnlyDecodedRows
<1>3. QED
  BY <1>1, <1>2, DecodedStep, TypeCorrect, PTL DEF Spec
-----------------------------------------------------------------------------
(* Uploads to tables of their own keep the promise of AppendOnce *)

\* With a table, and so an object, of its own, an upload's object holds its file
\* from the end of its write on, and its COPY, which runs once, appends that.
AloneInv ==
    /\ \A u \in Alone :
         /\ handler[u] \in {"idle", "reading", "decoding"} => store[u] = "none"
         /\ handler[u] \in {"idle", "reading", "decoding", "storing"} => load[u] = "none"
         /\ handler[u] # "gone" => reply[u] = "none"
         /\ load[u] # "none" => store[u] = "done"
         /\ store[u] = "done" => blob[TableOf[u]] \in {u, Torn}
         /\ load[u] \in {"none", "waiting", "copying"} => rows[u] = 0
         /\ load[u] = "done" => rows[u] = 1
         /\ rows[u] \in {0, 1}
    /\ \A t \in Tables : blob[t] \in Uploads => TableOf[blob[t]] = t

\* What the mapping makes of the two variables.
aloneRows == [u \in Alone |-> rows[u]]
aloneReply == [u \in Alone |-> reply[u]]

\* Changing a function at a point of T and then looking at T only is looking at T
\* and then changing it there.
LEMMA ExceptThenRestrict ==
    ASSUME NEW f, NEW T, T \subseteq DOMAIN f, NEW x \in T, NEW e
    PROVE  [v \in T |-> [f EXCEPT ![x] = e][v]] = [[v \in T |-> f[v]] EXCEPT ![x] = e]
<1> DEFINE left == [v \in T |-> [f EXCEPT ![x] = e][v]]
           right == [[v \in T |-> f[v]] EXCEPT ![x] = e]
<1>1. \A v \in T : left[v] = IF v = x THEN e ELSE f[v]
  OBVIOUS
<1>2. \A v \in T : right[v] = IF v = x THEN e ELSE f[v]
  OBVIOUS
<1>3. left = [v \in T |-> left[v]] /\ right = [v \in T |-> right[v]]
  OBVIOUS
<1>4. QED
  BY <1>1, <1>2, <1>3

\* The two variables as the mapping sees them change where they themselves do.
LEMMA AloneRowsChange ==
    ASSUME TypeOK, NEW u \in Alone, NEW e, rows' = [rows EXCEPT ![u] = e]
    PROVE  aloneRows' = [aloneRows EXCEPT ![u] = e]
<1>1. Alone \subseteq DOMAIN rows
  BY DEF Alone, TypeOK
<1>2. [v \in Alone |-> [rows EXCEPT ![u] = e][v]]
      = [[v \in Alone |-> rows[v]] EXCEPT ![u] = e]
  BY <1>1, ExceptThenRestrict
<1>3. aloneRows' = [v \in Alone |-> rows'[v]]
  BY DEF aloneRows, Alone
<1>4. QED
  BY <1>2, <1>3 DEF aloneRows

LEMMA AloneReplyChange ==
    ASSUME TypeOK, NEW u \in Alone, NEW e, reply' = [reply EXCEPT ![u] = e]
    PROVE  aloneReply' = [aloneReply EXCEPT ![u] = e]
<1>1. Alone \subseteq DOMAIN reply
  BY DEF Alone, TypeOK
<1>2. [v \in Alone |-> [reply EXCEPT ![u] = e][v]]
      = [[v \in Alone |-> reply[v]] EXCEPT ![u] = e]
  BY <1>1, ExceptThenRestrict
<1>3. aloneReply' = [v \in Alone |-> reply'[v]]
  BY DEF aloneReply, Alone
<1>4. QED
  BY <1>2, <1>3 DEF aloneReply

\* Every step preserves AloneInv, and is a step of AppendOnce for the uploads that
\* are alone or leaves what it says of them as it is.
LEMMA AloneStep ==
    ASSUME TypeOK, AloneInv, [Next]_vars
    PROVE  AloneInv' /\ [AlonePromise!Next]_<<aloneRows, aloneReply>>
<1> USE DEF TypeOK, AloneInv
<1>0. /\ Alone \subseteq Uploads
      /\ \A u \in Alone, v \in Uploads : TableOf[v] = TableOf[u] => v = u
      /\ Alone' = Alone
  BY DEF Alone
<1>1. ASSUME NEW u \in Uploads, Admit(u) \/ StartDecode(u) \/ StartStore(u) \/ StartLoad(u)
      PROVE  AloneInv' /\ UNCHANGED <<rows, reply>>
  <2>1. CASE Admit(u)
    BY <1>0, <2>1 DEF Admit
  <2>2. CASE StartDecode(u)
    BY <1>0, <2>2 DEF StartDecode
  <2>3. CASE StartStore(u)
    BY <1>0, <2>3 DEF StartStore
  <2>4. CASE StartLoad(u)
    BY <1>0, <2>4 DEF StartLoad
  <2>5. QED
    BY <1>1, <2>1, <2>2, <2>3, <2>4
<1>2. ASSUME NEW u \in Uploads,
             Shed(u) \/ RejectRequest(u) \/ RejectFile(u) \/ StoreError(u)
             \/ LoadError(u) \/ Drop(u)
      PROVE  AloneInv' /\ [AlonePromise!Next]_<<aloneRows, aloneReply>>
  <2>1. /\ handler[u] # "gone"
        /\ handler' = [handler EXCEPT ![u] = "gone"]
        /\ \E why \in {"shed", "error", "timeout"} : reply' = [reply EXCEPT ![u] = why]
        /\ UNCHANGED <<decode, store, load, blob, rows>>
    BY <1>2 DEF Shed, RejectRequest, RejectFile, StoreError, LoadError, Drop
  <2>2. AloneInv'
    BY <1>0, <2>1
  <2>3. CASE u \in Alone
    <3>1. PICK why \in {"shed", "error", "timeout"} : reply' = [reply EXCEPT ![u] = why]
      BY <2>1
    <3>2. aloneReply' = [aloneReply EXCEPT ![u] = why] /\ UNCHANGED aloneRows
      <4>1. aloneReply' = [aloneReply EXCEPT ![u] = why]
        BY <2>3, <3>1, AloneReplyChange
      <4>2. UNCHANGED aloneRows
        BY <1>0, <2>1 DEF aloneRows
      <4>3. QED
        BY <4>1, <4>2
    <3>3. aloneReply[u] = "none"
      BY <2>1, <2>3 DEF aloneReply
    <3>4. AlonePromise!Refuse(u)
      BY <3>2, <3>3 DEF AlonePromise!Refuse, aloneReply, aloneRows
    <3>5. QED
      BY <2>2, <2>3, <3>4 DEF AlonePromise!Next
  <2>4. CASE u \notin Alone
    BY <1>0, <2>1, <2>2, <2>4 DEF aloneRows, aloneReply
  <2>5. QED
    BY <2>3, <2>4
<1>3. ASSUME NEW u \in Uploads, Finish(u)
      PROVE  AloneInv' /\ [AlonePromise!Next]_<<aloneRows, aloneReply>>
  <2>1. /\ handler[u] # "gone" /\ load[u] = "done"
        /\ reply' = [reply EXCEPT ![u] = "ok"]
        /\ UNCHANGED rows
    BY <1>3 DEF Finish
  <2>2. AloneInv'
    BY <1>0, <1>3 DEF Finish
  <2>3. CASE u \in Alone
    <3>1. aloneReply' = [aloneReply EXCEPT ![u] = "ok"] /\ UNCHANGED aloneRows
      <4>1. aloneReply' = [aloneReply EXCEPT ![u] = "ok"]
        BY <2>1, <2>3, AloneReplyChange
      <4>2. UNCHANGED aloneRows
        BY <1>0, <2>1 DEF aloneRows
      <4>3. QED
        BY <4>1, <4>2
    <3>2. aloneReply[u] = "none" /\ aloneRows[u] = 1
      BY <2>1, <2>3 DEF aloneReply, aloneRows
    <3>3. AlonePromise!Accept(u)
      BY <3>1, <3>2 DEF AlonePromise!Accept, aloneReply, aloneRows
    <3>4. QED
      BY <2>2, <2>3, <3>3 DEF AlonePromise!Next
  <2>4. CASE u \notin Alone
    BY <1>0, <2>1, <2>2, <2>4 DEF aloneRows, aloneReply
  <2>5. QED
    BY <2>3, <2>4
<1>4. ASSUME NEW u \in Uploads, Decode(u) \/ Connect(u) \/ PoolTimeout(u) \/ CopyFails(u)
      PROVE  AloneInv' /\ UNCHANGED <<rows, reply>>
  BY <1>0, <1>4 DEF Decode, Connect, PoolTimeout, CopyFails
<1>5. ASSUME NEW u \in Uploads, Truncate(u) \/ Write(u) \/ WriteFails(u)
      PROVE  AloneInv' /\ UNCHANGED <<rows, reply>>
  <2>1. /\ store[u] \in {"asked", "truncated"}
        /\ UNCHANGED <<handler, reply, decode, load, rows>>
    BY <1>5 DEF Truncate, Write, WriteFails
  <2>2. PICK state \in {"truncated", "done", "failed"} :
          store' = [store EXCEPT ![u] = state]
    BY <1>5 DEF Truncate, Write, WriteFails
  <2>3. \A t \in Tables : blob'[t] # blob[t] => t = TableOf[u]
    BY <1>5 DEF Truncate, Write, WriteFails
  <2>4. /\ blob'[TableOf[u]] \in {blob[TableOf[u]], u, Torn, NoBatch}
        /\ state = "done" => blob'[TableOf[u]] \in {u, Torn}
    BY <1>5, <2>1, <2>2 DEF Truncate, Write, WriteFails
  <2>5. \A v \in Alone \ {u} : blob'[TableOf[v]] = blob[TableOf[v]]
    BY <1>0, <2>3
  <2>6. \A t \in Tables : blob'[t] \in Uploads => TableOf[blob'[t]] = t
    BY <2>3, <2>4
  <2>7. AloneInv'
    BY <1>0, <2>1, <2>2, <2>4, <2>5, <2>6
  <2>8. QED
    BY <2>1, <2>7
<1>6. ASSUME NEW u \in Uploads, Copy(u)
      PROVE  AloneInv' /\ [AlonePromise!Next]_<<aloneRows, aloneReply>>
  <2>1. CASE u \in Alone
    <3>1. blob[TableOf[u]] = u /\ rows[u] = 0
      BY <1>6, <2>1 DEF Copy
    <3>2. rows' = [rows EXCEPT ![u] = 1]
      BY <1>6, <3>1 DEF Copy
    <3>3. AloneInv'
      BY <1>0, <1>6, <3>2 DEF Copy
    <3>4. aloneRows' = [aloneRows EXCEPT ![u] = 1]
      BY <2>1, <3>2, AloneRowsChange
    <3>5. aloneRows[u] = 0 /\ UNCHANGED aloneReply
      BY <1>0, <1>6, <2>1, <3>1 DEF Copy, aloneRows, aloneReply
    <3>6. AlonePromise!AppendRows(u)
      BY <3>4, <3>5 DEF AlonePromise!AppendRows, aloneRows, aloneReply
    <3>7. QED
      BY <2>1, <3>3, <3>6 DEF AlonePromise!Next
  <2>2. CASE u \notin Alone
    <3>1. \A v \in Alone : rows'[v] = rows[v]
      BY <1>0, <1>6, <2>2 DEF Copy
    <3>2. /\ \E end \in {"done", "failed"} : load' = [load EXCEPT ![u] = end]
          /\ UNCHANGED <<handler, reply, decode, store, blob>>
      BY <1>6 DEF Copy
    <3>3. AloneInv'
      BY <1>0, <2>2, <3>1, <3>2
    <3>4. UNCHANGED <<aloneRows, aloneReply>>
      BY <1>0, <3>1, <3>2 DEF aloneRows, aloneReply
    <3>5. QED
      BY <3>3, <3>4
  <2>3. QED
    BY <2>1, <2>2
<1>7. CASE Quiet \/ UNCHANGED vars
  <2>1. AloneInv'
    BY <1>7 DEF Quiet, vars, Alone
  <2>2. UNCHANGED <<aloneRows, aloneReply>>
    BY <1>7 DEF Quiet, vars, aloneRows, aloneReply
  <2>3. QED
    BY <2>1, <2>2
<1>8. ASSUME AloneInv', UNCHANGED <<rows, reply>>
      PROVE  AloneInv' /\ [AlonePromise!Next]_<<aloneRows, aloneReply>>
  BY <1>8 DEF aloneRows, aloneReply
<1>9. QED
  BY <1>1, <1>2, <1>3, <1>4, <1>5, <1>6, <1>7, <1>8 DEF Next, Arrive, Handle, ReadBody, Advance, Work

\* An upload whose table nobody else names keeps the promise whatever fails, whichever
\* handlers are dropped and whatever uploads to shared tables do: its rows are
\* appended at most once, and before its 200.
THEOREM AloneLoadOnce == Spec => AloneLoadsOnce
<1>1. Init => AloneInv /\ AlonePromise!Init
  BY DEF Init, AloneInv, AlonePromise!Init, Alone
<1>2. TypeOK /\ AloneInv /\ [Next]_vars =>
        AloneInv' /\ [AlonePromise!Next]_<<aloneRows, aloneReply>>
  BY AloneStep
<1>3. QED
  BY <1>1, <1>2, TypeCorrect, PTL
     DEF Spec, AloneLoadsOnce, AlonePromise!Spec, aloneRows, aloneReply
=============================================================================
