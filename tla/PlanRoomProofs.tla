--------------------------- MODULE PlanRoomProofs ---------------------------
(***************************************************************************)
(* Proofs about the plan room, for every set of users and cells, however   *)
(* little the channel keeps and however many statements a save takes.      *)
(***************************************************************************)
EXTENDS PlanRoom, SequenceTheorems, FiniteSetTheorems, TLAPS

USE RoomAssumption, NoneAssumption DEF Off, NoEdits, sockets, saves, counts

-----------------------------------------------------------------------------
(* The inductive invariant, one part for each property *)

\* An event in the channel is a broadcast edit or something quieter.
Events == [cell : Cells, edit : Nat, by : Users] \union {Quiet}
Snapshots == [parent : Nat, chunks : Nat]

TypeInv ==
    /\ edits \in Nat
    /\ live \in [Cells -> 0..edits] /\ told \in [Users -> [Cells -> 0..edits]]
    /\ socket \in [Users -> {"off", "joined", "greeted", "open", "leaving"}]
    /\ inbox \in [Users -> Seq(Events)]
    /\ heard \in [Users -> SUBSET Cells]
    /\ pending \in [Users -> EditInHand \union {None}]
    /\ save \in [Users -> SaveUnderWay \union {None}]
    /\ history \in Seq(Snapshots)
    /\ lastSave \in Nat
    /\ \A u \in Users : pending[u] # None => pending[u].edit <= edits
    /\ \A u \in Users : \A i \in 1..Len(inbox[u]) : inbox[u][i].edit <= edits
    /\ \A u \in Users : Len(inbox[u]) <= Capacity + 1

\* A socket that does not follow the channel has received nothing from it.
SocketInv ==
    \A u \in Users : socket[u] # "open" => inbox[u] = <<>> /\ heard[u] = {}

\* The sockets that are up are finitely many, and they are the ones counted.
CountInv ==
    LET up == {u \in Users : socket[u] # "off"}
    IN  IsFiniteSet(up) /\ viewers = Cardinality(up)

\* An edit in the map that was not broadcast is one whose task has only that left
\* to do, so no other task ends it.
MapInv ==
    \A c \in Cells :
      \/ live[c] \in {0} \union broadcast
      \/ \E u \in Users : pending[u] # None /\ pending[u].at = "send" /\ pending[u].edit = live[c]

\* No two saves store the same snapshot; one with statements left is not whole, one
\* past them is; only whole snapshots are the last save or anyone's parent.
Whole(snapshots, id) == id = 0 \/ (id \in 1..Len(snapshots) /\ snapshots[id].chunks = Chunks)
ChainInv ==
    /\ Whole(history, lastSave)
    /\ \A id \in 1..Len(history) : history[id].parent < id /\ Whole(history, history[id].parent)
    /\ \A u \in Users : save[u] # None =>
         /\ save[u].id \in 1..Len(history)
         /\ IF save[u].at = "rows" THEN history[save[u].id].chunks < Chunks
                                   ELSE history[save[u].id].chunks = Chunks
         /\ \A v \in Users : save[v] # None /\ save[v].id = save[u].id => u = v

\* The edit of cell c a client will have been told last, once it has received what is
\* in the channel: q is what is there, h and t what it has heard about and was told.
About(event, c) == event # Quiet /\ event.cell = c
Tells(q, h, t, c, e) ==
    \/ \E i \in 1..Len(q) : /\ About(q[i], c) /\ q[i].edit = e
                           /\ \A j \in i + 1 .. Len(q) : ~About(q[j], c)
    \/ (\A j \in 1..Len(q) : ~About(q[j], c)) /\ c \in h /\ t[c] = e
WillBeTold(u, c, e) == Tells(inbox[u], heard[u], told[u], c, e)

\* Two clients that follow the channel, wherever each of them is in it, will have been
\* told the same edit of every cell both are told about.
Follows(u) == socket[u] = "open" /\ ~Lagged(u)
FollowInv ==
    \A u, v \in Users : Follows(u) /\ Follows(v) =>
      \A c \in Cells, e, f \in Nat : WillBeTold(u, c, e) /\ WillBeTold(v, c, f) => e = f

-----------------------------------------------------------------------------
(* Lemmas on the operators of the model *)

\* A set of numbers that is bounded and not empty has a greatest one, and Max is it.
LEMMA MaxOfBounded ==
    ASSUME NEW n \in Nat, NEW S \in SUBSET (0..n), S # {}
    PROVE  Max(S) \in S
<1> DEFINE Above(s) == {t \in S : t > s}
           T == {Above(s) : s \in S}
<1>1. T \subseteq FiniteSubsetsOf(S) /\ T # {}
  <2>1. IsFiniteSet(S)
    <3>1. S \in SUBSET Nat /\ \A s \in S : s <= n
      OBVIOUS
    <3>2. QED
      BY <3>1, FS_BoundedSetOfNaturals
  <2>2. \A U \in SUBSET S : IsFiniteSet(U)
    BY <2>1, FS_Subset
  <2>3. \A s \in S : Above(s) \in SUBSET S
    OBVIOUS
  <2> HIDE DEF Above
  <2>4. QED
    BY <2>2, <2>3 DEF FiniteSubsetsOf
<1>2. PICK x \in T : \A y \in T : ~(<<y, x>> \in StrictSubsetOrdering(S))
  <2> HIDE DEF T
  <2> QED BY <1>1, FS_StrictSubsetOrderingWellFounded, WFMin
<1>3. PICK m \in S : x = Above(m)
  BY <1>2
<1>4. ASSUME NEW t \in S, t > m PROVE FALSE
  <2>1. Above(t) \in T /\ Above(t) \subseteq x /\ t \in x /\ t \notin Above(t)
    <3>1. S \subseteq Nat
      OBVIOUS
    <3>2. Above(t) \in T
      OBVIOUS
    <3>3. \A s \in S : s > t => s > m
      BY <3>1, <1>4
    <3>4. ~(t > t)
      BY <3>1
    <3> HIDE DEF T
    <3>5. QED
      BY <1>3, <1>4, <3>2, <3>3, <3>4
  <2>2. <<Above(t), x>> \in StrictSubsetOrdering(S)
    BY <2>1, <1>3 DEF StrictSubsetOrdering
  <2>3. QED
    BY <1>2, <2>1, <2>2
<1>5. \E k \in S : \A s \in S : k >= s
  BY <1>4
<1>6. QED
  BY <1>5 DEF Max

\* What a client sees is a plan, and no newer than the last edit.
LEMMA SeenIsPlan ==
    ASSUME TypeInv, NEW u \in Users
    PROVE  Seen(u) \in [Cells -> Nat]
<1> USE DEF TypeInv
<1> DEFINE own(c) == {e \in Range(inbox[u]) : e.cell = c /\ e.by = u}
           typed(c) == {e \in {pending[u]} \ {None} : e.cell = c}
           ours(c) == {e.edit : e \in own(c) \union typed(c)}
<1>1. ASSUME NEW c \in Cells PROVE ours(c) \subseteq 0..edits
  <2>1. \A e \in own(c) : e.edit \in 0..edits
    <3>1. inbox[u] \in Seq(Events)
      OBVIOUS
    <3>2. \A i \in 1..Len(inbox[u]) : inbox[u][i] \in Events
      BY <3>1, ElementOfSeq
    <3>3. DOMAIN inbox[u] = 1..Len(inbox[u])
      BY <3>1, LenProperties
    <3>4. \A e \in Events : e.edit \in Nat
      BY DEF Events, Quiet
    <3>5. QED
      BY <3>2, <3>3, <3>4 DEF Range
  <2>2. \A e \in typed(c) : e.edit \in 0..edits
    BY DEF EditInHand
  <2> HIDE DEF own, typed
  <2>3. QED
    BY <2>1, <2>2
<1>2. ASSUME NEW c \in Cells
      PROVE  (IF ours(c) = {} THEN told[u][c] ELSE Max(ours(c))) \in Nat
  <2>1. told[u][c] \in Nat
    OBVIOUS
  <2>2. CASE ours(c) # {}
    <3>1. ours(c) \in SUBSET (0..edits)
      BY <1>1
    <3>2. Max(ours(c)) \in ours(c)
      <4> HIDE DEF ours
      <4> QED BY <2>2, <3>1, MaxOfBounded
    <3> HIDE DEF ours
    <3>3. QED
      BY <3>1, <3>2, <2>2
  <2> HIDE DEF ours
  <2>3. QED
    BY <2>1, <2>2
<1>3. Seen(u) = [c \in Cells |-> IF ours(c) = {} THEN told[u][c] ELSE Max(ours(c))]
  BY DEF Seen
<1>4. QED
  <2> HIDE DEF ours
  <2> QED BY <1>2, <1>3

\* Who receives an event has it behind what was there, and only who follows does.
LEMMA PublishAppends ==
    ASSUME TypeInv, NEW event \in Events, event.edit <= edits, Publish(event)
    PROVE  /\ inbox' \in [Users -> Seq(Events)]
           /\ \A u \in Users : /\ Len(inbox'[u]) <= Capacity + 1
                               /\ \A i \in 1..Len(inbox'[u]) : inbox'[u][i].edit <= edits
                               /\ socket[u] # "open" => inbox'[u] = inbox[u]
<1> USE DEF TypeInv
<1> SUFFICES ASSUME NEW u \in Users
             PROVE  /\ inbox'[u] \in Seq(Events)
                    /\ Len(inbox'[u]) <= Capacity + 1
                    /\ \A i \in 1..Len(inbox'[u]) : inbox'[u][i].edit <= edits
                    /\ socket[u] # "open" => inbox'[u] = inbox[u]
  BY DEF Publish
<1>1. CASE socket[u] = "open" /\ ~Lagged(u)
  <2>1. inbox'[u] = Append(inbox[u], event) /\ inbox[u] \in Seq(Events)
    BY <1>1 DEF Publish
  <2>2. Len(inbox[u]) <= Capacity /\ Len(inbox[u]) \in Nat
    BY <1>1, <2>1, LenProperties DEF Lagged
  <2>3. /\ inbox'[u] \in Seq(Events)
        /\ Len(inbox'[u]) = Len(inbox[u]) + 1
        /\ \A i \in 1..Len(inbox[u]) : inbox'[u][i] = inbox[u][i]
        /\ inbox'[u][Len(inbox[u]) + 1] = event
    BY <2>1, AppendProperties
  <2>4. QED
    BY <1>1, <2>2, <2>3
<1>2. CASE ~(socket[u] = "open" /\ ~Lagged(u))
  BY <1>2 DEF Publish
<1>3. QED
  BY <1>1, <1>2

\* One more statement is stored for a snapshot, and nothing else of the history moves.
LEMMA ChunkStored ==
    ASSUME TypeInv, NEW id \in 1..Len(history), history' = [history EXCEPT ![id].chunks = @ + 1]
    PROVE  /\ history' \in Seq(Snapshots)
           /\ Len(history') = Len(history)
           /\ \A i \in 1..Len(history) :
                /\ history'[i].parent = history[i].parent
                /\ history'[i].chunks = IF i = id THEN history[i].chunks + 1 ELSE history[i].chunks
<1>1. history \in Seq(Snapshots) /\ \A i \in 1..Len(history) : history[i] \in Snapshots
  BY ElementOfSeq DEF TypeInv
<1> DEFINE more == [history[id] EXCEPT !.chunks = @ + 1]
<1>2. history' = [history EXCEPT ![id] = more]
  OBVIOUS
<1>3. /\ more \in Snapshots
      /\ more.parent = history[id].parent /\ more.chunks = history[id].chunks + 1
  <2>1. history[id] \in Snapshots
    BY <1>1
  <2>2. QED
    BY <2>1 DEF Snapshots
<1> HIDE DEF more
<1>4. /\ history' \in Seq(Snapshots)
      /\ Len(history') = Len(history)
      /\ \A i \in 1..Len(history) : history'[i] = IF i = id THEN more ELSE history[i]
  BY Z3T(30), <1>1, <1>2, <1>3, ExceptSeq
<1>5. QED
  BY <1>3, <1>4

\* A snapshot is created behind those there are.
LEMMA SnapshotCreated ==
    ASSUME TypeInv, history' = Append(history, [parent |-> lastSave, chunks |-> 0])
    PROVE  /\ history' \in Seq(Snapshots)
           /\ Len(history') = Len(history) + 1
           /\ \A i \in 1..Len(history) : history'[i] = history[i]
           /\ history'[Len(history) + 1] = [parent |-> lastSave, chunks |-> 0]
<1>1. [parent |-> lastSave, chunks |-> 0] \in Snapshots
  BY DEF TypeInv, Snapshots
<1>2. QED
  BY <1>1, AppendProperties DEF TypeInv

-----------------------------------------------------------------------------
(* Types *)

\* Every step of every socket, edit and save keeps the variables' types.
LEMMA TypeStep ==
    ASSUME TypeInv, ChainInv, [Next]_vars
    PROVE  TypeInv'
<1> USE DEF TypeInv
<1>1. Quiet \in Events /\ Quiet.edit = 0
  BY DEF Events, Quiet
<1>2. ASSUME NEW u \in Users, Connect(u) \/ Cleanup(u) PROVE TypeInv'
  <2>1. Publish(Quiet)
    BY <1>2 DEF Connect, Cleanup
  <2>2. /\ inbox' \in [Users -> Seq(Events)]
        /\ \A w \in Users : /\ Len(inbox'[w]) <= Capacity + 1
                            /\ \A i \in 1..Len(inbox'[w]) : inbox'[w][i].edit <= edits
    BY <1>1, <2>1, PublishAppends
  <2>3. socket' \in [Users -> {"off", "joined", "greeted", "open", "leaving"}]
    BY <1>2 DEF Connect, Cleanup
  <2>4. UNCHANGED <<edits, live, told, heard, pending, save, history, lastSave>>
    BY <1>2 DEF Connect, Cleanup
  <2>5. QED
    BY <2>2, <2>3, <2>4
<1>3. ASSUME NEW u \in Users, SendSnapshot(u) \/ Subscribe(u) PROVE TypeInv'
  <2>1. socket' \in [Users -> {"off", "joined", "greeted", "open", "leaving"}]
    BY <1>3 DEF SendSnapshot, Subscribe
  <2>2. told' \in [Users -> [Cells -> 0..edits]]
    BY <1>3 DEF SendSnapshot, Subscribe
  <2>3. UNCHANGED <<edits, live, inbox, heard, pending, save, history, lastSave>>
    BY <1>3 DEF SendSnapshot, Subscribe
  <2>4. QED
    BY <2>1, <2>2, <2>3
<1>4. ASSUME NEW u \in Users, Relay(u) PROVE TypeInv'
  <2> DEFINE event == Head(inbox[u])
  <2>1. inbox[u] \in Seq(Events) /\ inbox[u] # <<>>
    BY <1>4 DEF Relay
  <2>2. /\ event \in Events /\ event = inbox[u][1] /\ Len(inbox[u]) >= 1
        /\ Tail(inbox[u]) \in Seq(Events)
        /\ Len(Tail(inbox[u])) = Len(inbox[u]) - 1
        /\ \A i \in 1..Len(Tail(inbox[u])) : Tail(inbox[u])[i] = inbox[u][i + 1]
    BY <2>1, HeadTailProperties, LenProperties
  <2>3. event.edit \in 0..edits
    BY <2>2 DEF Events, Quiet
  <2>4. event # Quiet => event.cell \in Cells
    BY <2>2 DEF Events
  <2>5. /\ inbox' \in [Users -> Seq(Events)]
        /\ \A w \in Users : /\ Len(inbox'[w]) <= Capacity + 1
                            /\ \A i \in 1..Len(inbox'[w]) : inbox'[w][i].edit <= edits
    BY <1>4, <2>2 DEF Relay
  <2>6. told' \in [Users -> [Cells -> 0..edits]] /\ heard' \in [Users -> SUBSET Cells]
    <3> HIDE DEF event
    <3>1. CASE event = Quiet
      BY <1>4, <3>1 DEF Relay, event
    <3>2. CASE event # Quiet
      <4>1. /\ told' = [told EXCEPT ![u][event.cell] = event.edit]
            /\ heard' = [heard EXCEPT ![u] = @ \union {event.cell}]
        BY <1>4, <3>2 DEF Relay, event
      <4>2. QED
        BY <2>3, <2>4, <3>2, <4>1
    <3>3. QED
      BY <3>1, <3>2
  <2>7. QED
    BY <1>4, <2>5, <2>6 DEF Relay
<1>5. ASSUME NEW u \in Users, Leave(u) PROVE TypeInv'
  <2>1. <<>> \in Seq(Events) /\ Len(<<>>) = 0
    OBVIOUS
  <2>2. /\ pending' \in [Users -> EditInHand \union {None}]
        /\ \A w \in Users : pending'[w] # None => pending'[w] = pending[w]
    BY <1>5 DEF Leave
  <2>3. /\ inbox' = [inbox EXCEPT ![u] = <<>>]
        /\ socket' = [socket EXCEPT ![u] = "leaving"]
        /\ told' = [told EXCEPT ![u] = NoEdits] /\ heard' = [heard EXCEPT ![u] = {}]
        /\ UNCHANGED <<edits, live, lastSave, save, history>>
    BY <1>5 DEF Leave
  <2>4. /\ inbox' \in [Users -> Seq(Events)]
        /\ \A w \in Users : /\ Len(inbox'[w]) <= Capacity + 1
                            /\ \A i \in 1..Len(inbox'[w]) : inbox'[w][i].edit <= edits
    BY <2>1, <2>3
  <2>5. \A w \in Users : pending'[w] # None => pending'[w].edit <= edits
    BY <2>2
  <2>6. QED
    BY <2>2, <2>3, <2>4, <2>5
<1>6. ASSUME NEW u \in Users, ReceiveEdit(u) PROVE TypeInv'
  <2>1. PICK c \in Cells :
          pending' = [pending EXCEPT ![u] = [at |-> "map", cell |-> c, edit |-> edits + 1]]
    BY <1>6 DEF ReceiveEdit
  <2>2. [at |-> "map", cell |-> c, edit |-> edits + 1] \in EditInHand
    BY DEF EditInHand
  <2>3. edits' = edits + 1 /\ UNCHANGED <<live, lastSave, socket, inbox, told, heard, save, history>>
    BY <1>6 DEF ReceiveEdit
  <2>4. pending' \in [Users -> EditInHand \union {None}]
    BY <2>1, <2>2
  <2>5. \A w \in Users : pending'[w] # None => pending'[w].edit <= edits'
    BY <2>1, <2>2, <2>3 DEF EditInHand
  <2>6. \A w \in Users : \A i \in 1..Len(inbox[w]) : inbox[w][i].edit <= edits + 1
    <3>1. ASSUME NEW w \in Users, NEW i \in 1..Len(inbox[w]) PROVE inbox[w][i].edit <= edits + 1
      <4>1. inbox[w][i] \in Events
        BY ElementOfSeq
      <4>2. inbox[w][i].edit \in Nat
        BY SMTT(30), <4>1 DEF Events, Quiet
      <4>3. QED
        BY <4>2
    <3>2. QED
      BY <3>1
  <2>7. live \in [Cells -> 0..edits + 1] /\ told \in [Users -> [Cells -> 0..edits + 1]]
    <3>1. \A n \in 0..edits : n \in 0..edits + 1
      OBVIOUS
    <3>2. QED
      BY <3>1
  <2>8. QED
    BY <2>3, <2>4, <2>5, <2>6, <2>7
<1>7. ASSUME NEW u \in Users, WriteEdit(u) PROVE TypeInv'
  <2>1. /\ pending[u] \in EditInHand /\ pending[u].edit \in 0..edits /\ pending[u].cell \in Cells
    BY <1>7 DEF WriteEdit, EditInHand
  <2>2. [pending[u] EXCEPT !.at = "send"] \in EditInHand
        /\ [pending[u] EXCEPT !.at = "send"].edit = pending[u].edit
    BY <2>1 DEF EditInHand
  <2>3. pending' = [pending EXCEPT ![u] = [pending[u] EXCEPT !.at = "send"]]
    BY <1>7 DEF WriteEdit
  <2>4. /\ pending' \in [Users -> EditInHand \union {None}]
        /\ \A w \in Users : pending'[w] # None => pending'[w].edit <= edits
    BY <2>1, <2>2, <2>3
  <2>5. QED
    BY <1>7, <2>1, <2>4 DEF WriteEdit
<1>8. ASSUME NEW u \in Users, BroadcastEdit(u) PROVE TypeInv'
  <2> DEFINE event == [cell |-> pending[u].cell, edit |-> pending[u].edit, by |-> u]
  <2>1. pending[u] \in EditInHand
    BY <1>8 DEF BroadcastEdit
  <2>2. event \in Events /\ event.edit <= edits
    BY <1>8, <2>1 DEF EditInHand, Events, BroadcastEdit
  <2>3. Publish(event)
    BY <1>8 DEF BroadcastEdit
  <2> HIDE DEF event
  <2>4. /\ inbox' \in [Users -> Seq(Events)]
        /\ \A w \in Users : /\ Len(inbox'[w]) <= Capacity + 1
                            /\ \A i \in 1..Len(inbox'[w]) : inbox'[w][i].edit <= edits
    BY <2>2, <2>3, PublishAppends
  <2>5. QED
    BY <1>8, <2>4 DEF BroadcastEdit
<1>9. ASSUME NEW u \in Users, BeginSave(u) PROVE TypeInv'
  <2> DEFINE begun == [at |-> "rows", id |-> Len(history) + 1, rows |-> Seen(u)]
  <2>1. begun \in SaveUnderWay
    BY SeenIsPlan, LenProperties DEF SaveUnderWay
  <2>2. history' \in Seq(Snapshots)
    BY <1>9, SnapshotCreated DEF BeginSave
  <2>3. save' = [save EXCEPT ![u] = begun]
    BY <1>9 DEF BeginSave
  <2> HIDE DEF begun
  <2>4. QED
    BY <1>9, <2>1, <2>2, <2>3 DEF BeginSave
<1>10. ASSUME NEW u \in Users, NEW place \in {"rows", "clear", "last"},
              save[u] # None, GoOn(u, place)
       PROVE  save' \in [Users -> SaveUnderWay \union {None}]
  <2>1. save[u] \in SaveUnderWay
    BY <1>10
  <2>2. [save[u] EXCEPT !.at = place] \in SaveUnderWay
    BY <2>1 DEF SaveUnderWay
  <2>3. QED
    BY <1>10, <2>2 DEF GoOn
<1>11. ASSUME NEW u \in Users, InsertRows(u) PROVE TypeInv'
  <2>1. save[u] # None /\ save[u].id \in 1..Len(history)
    BY <1>11 DEF InsertRows, AtSave, ChainInv
  <2>2. history' \in Seq(Snapshots)
    BY <1>11, <2>1, ChunkStored DEF InsertRows
  <2>3. save' \in [Users -> SaveUnderWay \union {None}]
    BY <1>10, <1>11, <2>1 DEF InsertRows
  <2>4. QED
    BY <1>11, <2>2, <2>3 DEF InsertRows
<1>12. ASSUME NEW u \in Users, ClearEdits(u) PROVE TypeInv'
  <2>1. save' \in [Users -> SaveUnderWay \union {None}]
    BY <1>10, <1>12 DEF ClearEdits, AtSave
  <2>2. QED
    BY <1>12, <2>1 DEF ClearEdits
<1>13. ASSUME NEW u \in Users, FinishSave(u) PROVE TypeInv'
  <2>1. save[u].id \in Nat
    BY <1>13 DEF FinishSave, AtSave, SaveUnderWay
  <2>2. /\ inbox' \in [Users -> Seq(Events)]
        /\ \A w \in Users : /\ Len(inbox'[w]) <= Capacity + 1
                            /\ \A i \in 1..Len(inbox'[w]) : inbox'[w][i].edit <= edits
    BY <1>1, <1>13, PublishAppends DEF FinishSave
  <2>3. QED
    BY <1>13, <2>1, <2>2 DEF FinishSave
<1>14. ASSUME NEW u \in Users, AbandonSave(u) PROVE TypeInv'
  BY <1>14 DEF AbandonSave
<1>15. CASE Restart
  <2>1. <<>> \in Seq(Events) /\ Len(<<>>) = 0
    OBVIOUS
  <2>2. QED
    BY <1>15, <2>1 DEF Restart
<1>16. CASE UNCHANGED vars
  BY <1>16 DEF vars
<1>17. QED
  BY <1>2, <1>3, <1>4, <1>5, <1>6, <1>7, <1>8, <1>9, <1>11, <1>12, <1>13, <1>14, <1>15, <1>16
     DEF Next, Socket, Edit, Save, EndOutbound, HangUp

-----------------------------------------------------------------------------
(* Sockets and viewers *)

\* A socket starts with nothing from the channel, and leaves it with nothing.
LEMMA SocketStep ==
    ASSUME TypeInv, SocketInv, [Next]_vars
    PROVE  SocketInv'
<1> USE DEF TypeInv, SocketInv
<1>1. ASSUME NEW event, Publish(event), UNCHANGED heard,
             \A u \in Users : socket'[u] # "open" => socket[u] # "open"
      PROVE  SocketInv'
  BY <1>1 DEF Publish
<1>2. ASSUME NEW u \in Users, Connect(u) \/ Cleanup(u) PROVE SocketInv'
  <2>1. \A w \in Users : socket'[w] # "open" => socket[w] # "open"
    BY <1>2 DEF Connect, Cleanup
  <2>2. QED
    BY <1>1, <1>2, <2>1 DEF Connect, Cleanup
<1>3. ASSUME NEW u \in Users,
             BroadcastEdit(u) \/ FinishSave(u)
      PROVE  SocketInv'
  BY <1>1, <1>3 DEF BroadcastEdit, FinishSave
<1>4. ASSUME NEW u \in Users, Relay(u) PROVE SocketInv'
  BY <1>4 DEF Relay
<1>5. ASSUME NEW u \in Users, SendSnapshot(u) \/ Subscribe(u) \/ Leave(u) PROVE SocketInv'
  BY <1>5 DEF SendSnapshot, Subscribe, Leave
<1>6. ASSUME NEW u \in Users,
             \/ ReceiveEdit(u) \/ WriteEdit(u) \/ BeginSave(u) \/ InsertRows(u)
             \/ ClearEdits(u) \/ AbandonSave(u)
      PROVE  SocketInv'
  BY <1>6 DEF ReceiveEdit, WriteEdit, BeginSave, InsertRows, ClearEdits, AbandonSave
<1>7. CASE Restart \/ UNCHANGED vars
  BY <1>7 DEF Restart, vars
<1>8. QED
  BY <1>2, <1>3, <1>4, <1>5, <1>6, <1>7 DEF Next, Socket, Edit, Save, EndOutbound, HangUp

\* A socket is counted when it joins and no longer when it has been cleaned up; no
\* other step changes the count or who is up.
LEMMA CountStep ==
    ASSUME TypeInv, CountInv, [Next]_vars
    PROVE  CountInv'
<1> DEFINE Up == {u \in Users : socket[u] # "off"}
<1> USE DEF TypeInv
<1>1. IsFiniteSet(Up) /\ viewers = Cardinality(Up) /\ Cardinality(Up) \in Nat
  BY FS_CardinalityType DEF CountInv
<1>2. ASSUME NEW u \in Users, Connect(u) PROVE CountInv'
  <2>1. u \notin Up /\ Up' = Up \union {u} /\ viewers' = viewers + 1
    BY <1>2 DEF Connect
  <2>2. IsFiniteSet(Up') /\ Cardinality(Up') = Cardinality(Up) + 1
    <3> HIDE DEF Up
    <3> QED BY <1>1, <2>1, FS_AddElement
  <2>3. QED
    BY <1>1, <2>1, <2>2 DEF CountInv
<1>3. ASSUME NEW u \in Users, Cleanup(u) PROVE CountInv'
  <2>1. u \in Up /\ Up' = Up \ {u} /\ viewers' = viewers - 1
    BY <1>3 DEF Cleanup
  <2>2. IsFiniteSet(Up') /\ Cardinality(Up') = Cardinality(Up) - 1
    <3> HIDE DEF Up
    <3>1. IsFiniteSet(Up \ {u}) /\ Cardinality(Up \ {u}) = Cardinality(Up) - 1
      BY <1>1, <2>1, FS_RemoveElement
    <3>2. QED
      BY <2>1, <3>1
  <2>3. QED
    BY <1>1, <2>1, <2>2 DEF CountInv
<1>4. ASSUME viewers' = viewers, \A u \in Users : socket'[u] = "off" <=> socket[u] = "off"
      PROVE  CountInv'
  <2>1. Up' = Up
    BY <1>4
  <2>2. QED
    BY <1>1, <1>4, <2>1 DEF CountInv
<1>5. ASSUME NEW u \in Users, SendSnapshot(u) \/ Subscribe(u) \/ EndOutbound(u) \/ HangUp(u)
      PROVE  CountInv'
  BY <1>4, <1>5 DEF SendSnapshot, Subscribe, EndOutbound, HangUp, Leave
<1>6. ASSUME NEW u \in Users,
             \/ Relay(u) \/ ReceiveEdit(u) \/ WriteEdit(u) \/ BroadcastEdit(u)
             \/ BeginSave(u) \/ InsertRows(u) \/ ClearEdits(u) \/ FinishSave(u) \/ AbandonSave(u)
      PROVE  CountInv'
  <2>1. viewers' = viewers /\ socket' = socket
    BY <1>6 DEF Relay, ReceiveEdit, WriteEdit, BroadcastEdit, BeginSave, InsertRows, ClearEdits,
                FinishSave, AbandonSave
  <2>2. QED
    BY <1>4, <2>1
<1>7. CASE Restart
  <2>1. Up' = {} /\ viewers' = 0
    BY <1>7 DEF Restart
  <2>2. QED
    BY <2>1, FS_EmptySet DEF CountInv
<1>8. CASE UNCHANGED vars
  BY <1>4, <1>8 DEF vars
<1>9. QED
  BY <1>2, <1>3, <1>5, <1>6, <1>7, <1>8 DEF Next, Socket, Edit, Save

-----------------------------------------------------------------------------
(* Edits *)

\* An edit gets into the map with its broadcast still to be done, and what is left to
\* be done is done: a task that ends early ends an edit that is not in the map.
LEMMA MapStep ==
    ASSUME TypeInv, MapInv, [Next]_vars
    PROVE  MapInv'
<1> USE DEF TypeInv, MapInv
<1>1. ASSUME NEW u \in Users, WriteEdit(u) PROVE MapInv'
  <2>1. /\ pending[u] \in EditInHand
        /\ pending' = [pending EXCEPT ![u] = [pending[u] EXCEPT !.at = "send"]]
    BY <1>1 DEF WriteEdit
  <2>2. /\ pending'[u] \in EditInHand /\ pending'[u] # None
        /\ pending'[u].at = "send" /\ pending'[u].edit = pending[u].edit
        /\ \A w \in Users : w # u => pending'[w] = pending[w]
    BY <2>1 DEF EditInHand
  <2>3. SUFFICES ASSUME NEW c \in Cells
                 PROVE  \/ live'[c] \in {0} \union broadcast
                        \/ \E w \in Users : pending'[w] # None /\ pending'[w].at = "send"
                                              /\ pending'[w].edit = live'[c]
    BY <1>1 DEF WriteEdit
  <2>4. CASE live'[c] = pending[u].edit
    BY <2>2, <2>4
  <2>5. CASE live'[c] = live[c]
    BY <2>2, <2>5, <1>1 DEF WriteEdit
  <2>6. QED
    BY <1>1, <2>4, <2>5 DEF WriteEdit
<1>2. ASSUME NEW u \in Users, BroadcastEdit(u) PROVE MapInv'
  BY <1>2 DEF BroadcastEdit
<1>3. ASSUME NEW u \in Users, Leave(u) PROVE MapInv'
  <2>1. /\ UNCHANGED <<live, broadcast>>
        /\ \/ pending' = pending
           \/ pending[u].at = "map" /\ pending' = [pending EXCEPT ![u] = None]
    BY <1>3 DEF Leave
  <2>2. \A w \in Users : pending[w] # None /\ pending[w].at = "send" => pending'[w] = pending[w]
    BY <2>1
  <2>3. QED
    BY ZenonT(30), <2>1, <2>2
<1>4. ASSUME NEW u \in Users, ReceiveEdit(u) PROVE MapInv'
  <2>1. UNCHANGED <<live, broadcast>> /\ pending[u] = None
        /\ \A w \in Users : w # u => pending'[w] = pending[w]
    BY <1>4 DEF ReceiveEdit
  <2>2. QED
    BY <2>1
<1>5. ASSUME NEW u \in Users, ClearEdits(u) PROVE MapInv'
  BY <1>5 DEF ClearEdits
<1>6. ASSUME NEW u \in Users,
             \/ Connect(u) \/ SendSnapshot(u) \/ Subscribe(u) \/ Relay(u) \/ Cleanup(u)
             \/ BeginSave(u) \/ InsertRows(u) \/ FinishSave(u) \/ AbandonSave(u)
      PROVE  MapInv'
  <2>1. UNCHANGED <<live, broadcast, pending>>
    BY <1>6 DEF Connect, SendSnapshot, Subscribe, Relay, Cleanup, BeginSave, InsertRows,
                FinishSave, AbandonSave
  <2>2. QED
    BY <2>1
<1>7. CASE Restart
  BY <1>7 DEF Restart
<1>8. CASE UNCHANGED vars
  <2>1. UNCHANGED <<live, broadcast, pending>>
    BY <1>8 DEF vars
  <2>2. QED
    BY <2>1
<1>9. QED
  BY <1>1, <1>2, <1>3, <1>4, <1>5, <1>6, <1>7, <1>8
     DEF Next, Socket, Edit, Save, EndOutbound, HangUp

-----------------------------------------------------------------------------
(* Snapshots *)

\* A snapshot gets its parent when it is created, from the last save, which is whole;
\* a statement stored for a snapshot nobody calls whole breaks no link; and the save
\* that ends is past all of its statements.
LEMMA ChainStep ==
    ASSUME TypeInv, ChainInv, [Next]_vars
    PROVE  ChainInv'
<1> USE DEF TypeInv
<1>1. Len(history) \in Nat
  BY LenProperties
<1>2. \A i \in 1..Len(history) : history[i].parent \in Nat /\ history[i].chunks \in Nat
  <2>1. \A i \in 1..Len(history) : history[i] \in Snapshots
    BY ElementOfSeq
  <2>2. QED
    BY <2>1 DEF Snapshots
<1>3. ASSUME NEW u \in Users, NEW place, save[u] # None, GoOn(u, place)
      PROVE  /\ save'[u].id = save[u].id /\ save'[u].at = place
             /\ \A v \in Users : v # u => save'[v] = save[v]
  <2>1. save[u] \in SaveUnderWay
    BY <1>3
  <2>2. QED
    BY <1>3, <2>1 DEF GoOn, SaveUnderWay
<1>4. ASSUME NEW u \in Users, BeginSave(u) PROVE ChainInv'
  <2>1. /\ Len(history') = Len(history) + 1
        /\ \A i \in 1..Len(history) : history'[i] = history[i]
        /\ history'[Len(history) + 1] = [parent |-> lastSave, chunks |-> 0]
    BY <1>4, SnapshotCreated DEF BeginSave
  <2>2. \A id : Whole(history, id) => Whole(history', id)
    BY <1>1, <2>1 DEF Whole
  <2>3. Whole(history', lastSave') /\ lastSave < Len(history) + 1
    BY <1>1, <1>4, <2>2 DEF ChainInv, BeginSave, Whole
  <2>4. \A id \in 1..Len(history') : history'[id].parent < id /\ Whole(history', history'[id].parent)
    <3>1. ASSUME NEW id \in 1..Len(history') PROVE history'[id].parent < id /\ Whole(history', history'[id].parent)
      <4>1. CASE id \in 1..Len(history)
        BY <2>1, <2>2, <4>1 DEF ChainInv
      <4>2. CASE id = Len(history) + 1
        <5>1. history'[id].parent = lastSave
          BY <2>1, <4>2
        <5>2. Whole(history', lastSave') /\ lastSave' = lastSave
          BY <1>4, <2>3 DEF BeginSave
        <5>3. QED
          BY <2>3, <4>2, <5>1, <5>2 DEF Whole
      <4>3. id \in 1..Len(history) \/ id = Len(history) + 1
        BY <1>1, <2>1
      <4>4. QED
        BY <4>1, <4>2, <4>3
    <3>2. QED
      BY <3>1
  <2>5. /\ save'[u].id = Len(history) + 1 /\ save'[u].at = "rows"
        /\ \A v \in Users : v # u => save'[v] = save[v]
    BY <1>4 DEF BeginSave
  <2>6. \A v \in Users : v # u /\ save[v] # None => save[v].id \in 1..Len(history)
    BY DEF ChainInv
  <2>7. ASSUME NEW v \in Users, save'[v] # None
        PROVE  /\ save'[v].id \in 1..Len(history')
               /\ IF save'[v].at = "rows" THEN history'[save'[v].id].chunks < Chunks
                                          ELSE history'[save'[v].id].chunks = Chunks
               /\ \A w \in Users : save'[w] # None /\ save'[w].id = save'[v].id => v = w
    <3>1. CASE v = u
      BY <1>1, <2>1, <2>5, <2>6, <3>1
    <3>2. CASE v # u
      <4>1. save'[v] = save[v] /\ save[v].id \in 1..Len(history)
        BY <2>5, <2>6, <2>7, <3>2
      <4>2. history'[save[v].id] = history[save[v].id]
        BY <2>1, <4>1
      <4>3. save'[u].id # save[v].id
        BY <1>1, <2>5, <4>1
      <4>4. \A w \in Users : save'[w] # None /\ save'[w].id = save'[v].id => v = w
        BY ZenonT(30), <2>5, <2>7, <4>1, <4>3 DEF ChainInv
      <4>5. QED
        BY <1>1, <2>1, <2>7, <4>1, <4>2, <4>4 DEF ChainInv
    <3>3. QED
      BY <3>1, <3>2
  <2>8. QED
    BY <2>3, <2>4, <2>7 DEF ChainInv
<1>5. ASSUME NEW u \in Users, InsertRows(u) PROVE ChainInv'
  <2> DEFINE id == save[u].id
  <2>1. save[u] # None /\ save[u].at = "rows" /\ id \in 1..Len(history) /\ history[id].chunks < Chunks
    BY <1>5 DEF InsertRows, AtSave, ChainInv
  <2>2. /\ Len(history') = Len(history)
        /\ \A i \in 1..Len(history) :
             /\ history'[i].parent = history[i].parent
             /\ history'[i].chunks = IF i = id THEN history[i].chunks + 1 ELSE history[i].chunks
    BY <1>5, <2>1, ChunkStored DEF InsertRows
  <2>3. /\ save'[u].id = id
        /\ save'[u].at = IF history'[id].chunks = Chunks THEN "clear" ELSE "rows"
        /\ \A v \in Users : v # u => save'[v] = save[v]
    <3> DEFINE place == IF history'[id].chunks = Chunks THEN "clear" ELSE "rows"
    <3>1. GoOn(u, place)
      BY <1>5 DEF InsertRows
    <3> HIDE DEF place
    <3>2. save'[u].id = save[u].id /\ save'[u].at = place /\ \A v \in Users : v # u => save'[v] = save[v]
      BY <1>3, <2>1, <3>1
    <3>3. QED
      BY <3>2 DEF place
  <2>4. \A i : Whole(history, i) => Whole(history', i)
    <3> SUFFICES ASSUME NEW i \in 1..Len(history), history[i].chunks = Chunks
                 PROVE  history'[i].chunks = Chunks
      BY <2>2 DEF Whole
    <3>1. i # id
      BY <2>1
    <3>2. QED
      BY <2>2, <3>1
  <2>5. Whole(history', lastSave')
    BY <1>5, <2>4 DEF ChainInv, InsertRows, Whole
  <2>6. \A i \in 1..Len(history') : history'[i].parent < i /\ Whole(history', history'[i].parent)
    BY <2>2, <2>4 DEF ChainInv
  <2>7. ASSUME NEW v \in Users, save'[v] # None
        PROVE  /\ save'[v].id \in 1..Len(history')
               /\ IF save'[v].at = "rows" THEN history'[save'[v].id].chunks < Chunks
                                          ELSE history'[save'[v].id].chunks = Chunks
               /\ \A w \in Users : save'[w] # None /\ save'[w].id = save'[v].id => v = w
    <3>1. \A w \in Users : save'[w] # None => save[w] # None /\ save'[w].id = save[w].id
      BY <2>1, <2>3
    <3>2. \A w \in Users : save'[w] # None /\ save'[w].id = save'[v].id => v = w
      BY <2>7, <3>1 DEF ChainInv
    <3>3. CASE v = u
      <4>1. history'[id].chunks \in Nat /\ history'[id].chunks <= Chunks
        BY <1>2, <2>1, <2>2
      <4>2. QED
        BY <2>1, <2>2, <2>3, <3>2, <3>3, <4>1
    <3>4. CASE v # u
      <4>1. save'[v] = save[v] /\ save[v] # None /\ save[v].id # id /\ save[v].id \in 1..Len(history)
        BY <2>1, <2>3, <2>7, <3>4 DEF ChainInv
      <4>2. history'[save[v].id].chunks = history[save[v].id].chunks
        BY <2>2, <4>1
      <4>3. QED
        BY <2>2, <3>2, <4>1, <4>2 DEF ChainInv
    <3>5. QED
      BY <3>3, <3>4
  <2>8. QED
    BY <2>5, <2>6, <2>7 DEF ChainInv
<1>6. ASSUME NEW u \in Users, ClearEdits(u) PROVE ChainInv'
  <2>1. save[u] # None /\ save[u].at = "clear" /\ UNCHANGED <<history, lastSave>>
    BY <1>6 DEF ClearEdits, AtSave
  <2>2. /\ save'[u].id = save[u].id /\ save'[u].at = "last"
        /\ \A v \in Users : v # u => save'[v] = save[v]
    BY <1>3, <1>6, <2>1 DEF ClearEdits
  <2>3. \A i : Whole(history, i) <=> Whole(history', i)
    BY <2>1 DEF Whole
  <2>4. \A v \in Users : /\ save'[v] # None => save[v] # None
                         /\ save'[v].id = save[v].id
                         /\ save'[v].at = "rows" <=> save[v].at = "rows"
    BY <2>1, <2>2
  <2>5. history' = history /\ lastSave' = lastSave
    BY <2>1
  <2>6. ASSUME NEW v \in Users, save'[v] # None
        PROVE  /\ save'[v].id \in 1..Len(history)
               /\ IF save'[v].at = "rows" THEN history[save'[v].id].chunks < Chunks
                                          ELSE history[save'[v].id].chunks = Chunks
               /\ \A w \in Users : save'[w] # None /\ save'[w].id = save'[v].id => v = w
    BY <2>4, <2>6 DEF ChainInv
  <2>7. QED
    BY <2>3, <2>5, <2>6 DEF ChainInv
<1>7. ASSUME NEW u \in Users, FinishSave(u) PROVE ChainInv'
  <2>1. save[u] # None /\ save[u].at = "last" /\ history' = history /\ lastSave' = save[u].id
    BY <1>7 DEF FinishSave, AtSave
  <2>2. \A i : Whole(history, i) <=> Whole(history', i)
    BY <2>1 DEF Whole
  <2>3. Whole(history, save[u].id)
    BY <2>1 DEF ChainInv, Whole
  <2>4. \A v \in Users : save'[v] # None => save[v] = save'[v]
    BY <1>7 DEF FinishSave
  <2>5. Whole(history', lastSave')
    BY <2>1, <2>3 DEF Whole
  <2>6. QED
    BY <2>1, <2>2, <2>4, <2>5 DEF ChainInv
<1>8. ASSUME NEW u \in Users, AbandonSave(u) PROVE ChainInv'
  <2>1. UNCHANGED <<history, lastSave>> /\ \A v \in Users : save'[v] # None => save[v] = save'[v]
    BY <1>8 DEF AbandonSave
  <2>2. QED
    BY <2>1 DEF ChainInv, Whole
<1>9. ASSUME NEW u \in Users,
             Connect(u) \/ SendSnapshot(u) \/ Subscribe(u) \/ Relay(u) \/ Leave(u) \/ Cleanup(u)
             \/ ReceiveEdit(u) \/ WriteEdit(u) \/ BroadcastEdit(u)
      PROVE  ChainInv'
  <2>1. UNCHANGED <<history, lastSave, save>>
    BY <1>9 DEF Connect, SendSnapshot, Subscribe, Relay, Leave, Cleanup, ReceiveEdit, WriteEdit,
                BroadcastEdit
  <2>2. QED
    BY <2>1 DEF ChainInv, Whole
<1>10. CASE Restart
  <2>1. history' = history /\ lastSave' = 0 /\ \A u \in Users : save'[u] = None
    BY <1>10 DEF Restart
  <2>2. QED
    BY <2>1 DEF ChainInv, Whole
<1>11. CASE UNCHANGED vars
  BY <1>11 DEF vars, ChainInv, Whole
<1>12. QED
  BY <1>4, <1>5, <1>6, <1>7, <1>8, <1>9, <1>10, <1>11
     DEF Next, Socket, Edit, Save, EndOutbound, HangUp

-----------------------------------------------------------------------------
(* Followers *)

\* Behind an event of another cell, or of none, a client will be told what it would
\* have been told without it; behind an event of the cell, that event's edit.
LEMMA TellsBehind ==
    ASSUME NEW q \in Seq(Events), NEW event \in Events, NEW h, NEW t, NEW c, NEW e,
           Tells(Append(q, event), h, t, c, e)
    PROVE  IF About(event, c) THEN e = event.edit ELSE Tells(q, h, t, c, e)
<1> DEFINE n == Len(q)
           r == Append(q, event)
<1>1. /\ n \in Nat /\ Len(r) = n + 1
      /\ \A i \in 1..n : r[i] = q[i]
      /\ r[n + 1] = event
  BY LenProperties, AppendProperties
<1> HIDE DEF r
<1>2. Tells(r, h, t, c, e)
  BY DEF r
<1>3. CASE About(event, c)
  <2>1. PICK i \in 1..n + 1 : /\ About(r[i], c) /\ r[i].edit = e
                              /\ \A j \in i + 1 .. n + 1 : ~About(r[j], c)
    BY <1>1, <1>2, <1>3 DEF Tells
  <2>2. i = n + 1
    BY <1>1, <1>3, <2>1
  <2>3. QED
    BY <1>1, <1>3, <2>1, <2>2
<1>4. CASE ~About(event, c)
  <2>1. ASSUME NEW i \in 1..n + 1, About(r[i], c), r[i].edit = e,
               \A j \in i + 1 .. n + 1 : ~About(r[j], c)
        PROVE  Tells(q, h, t, c, e)
    <3>1. i \in 1..n
      BY <1>1, <1>4, <2>1
    <3>2. \A j \in i + 1 .. n : j \in i + 1 .. n + 1 /\ r[j] = q[j]
      BY <1>1, <3>1
    <3>3. /\ About(q[i], c) /\ q[i].edit = e
          /\ \A j \in i + 1 .. n : ~About(q[j], c)
      BY <1>1, <2>1, <3>1, <3>2
    <3>4. QED
      BY <3>1, <3>3 DEF Tells
  <2>2. ASSUME \A j \in 1..n + 1 : ~About(r[j], c), c \in h, t[c] = e
        PROVE  Tells(q, h, t, c, e)
    <3>1. \A j \in 1..n : ~About(q[j], c)
      BY <1>1, <2>2
    <3>2. QED
      BY <2>2, <3>1 DEF Tells
  <2>3. QED
    BY <1>1, <1>2, <1>4, <2>1, <2>2 DEF Tells
<1>5. QED
  BY <1>3, <1>4

\* A client that is told the first event in the channel will in the end have been told
\* what it would have been anyway.
LEMMA TellsAhead ==
    ASSUME NEW q \in Seq(Events), q # <<>>, NEW h, NEW t, NEW h2, NEW t2, NEW c, NEW e,
           IF About(Head(q), c) THEN t2[c] = Head(q).edit
                                ELSE t2[c] = t[c] /\ (c \in h2 => c \in h),
           Tells(Tail(q), h2, t2, c, e)
    PROVE  Tells(q, h, t, c, e)
<1> DEFINE n == Len(q)
           r == Tail(q)
<1>1. /\ n \in Nat /\ n >= 1 /\ Len(r) = n - 1 /\ Head(q) = q[1]
      /\ \A i \in 1..n - 1 : r[i] = q[i + 1]
  BY LenProperties, HeadTailProperties, EmptySeq
<1> HIDE DEF r
<1>2. Tells(r, h2, t2, c, e)
  BY DEF r
<1>3. ASSUME NEW i \in 1..n - 1, About(r[i], c), r[i].edit = e,
             \A j \in i + 1 .. n - 1 : ~About(r[j], c)
      PROVE  Tells(q, h, t, c, e)
  <2>1. i + 1 \in 1..n /\ About(q[i + 1], c) /\ q[i + 1].edit = e
    BY <1>1, <1>3
  <2>2. ASSUME NEW j \in (i + 1) + 1 .. n PROVE ~About(q[j], c)
    <3>1. j - 1 \in i + 1 .. n - 1 /\ j - 1 \in 1..n - 1 /\ (j - 1) + 1 = j
      BY <1>1
    <3>2. r[j - 1] = q[j]
      BY <1>1, <3>1
    <3>3. QED
      BY <1>3, <3>1, <3>2
  <2>3. QED
    BY <2>1, <2>2 DEF Tells
<1>4. ASSUME \A j \in 1..n - 1 : ~About(r[j], c), c \in h2, t2[c] = e
      PROVE  Tells(q, h, t, c, e)
  <2>1. ASSUME NEW j \in 2..n PROVE ~About(q[j], c)
    <3>1. j - 1 \in 1..n - 1 /\ (j - 1) + 1 = j
      BY <1>1
    <3>2. r[j - 1] = q[j]
      BY <1>1, <3>1
    <3>3. QED
      BY <1>4, <3>1, <3>2
  <2>2. CASE About(Head(q), c)
    <3>1. /\ 1 \in 1..n /\ About(q[1], c) /\ q[1].edit = e
          /\ \A j \in 1 + 1 .. n : ~About(q[j], c)
      BY <1>1, <1>4, <2>1, <2>2
    <3>2. QED
      BY <3>1 DEF Tells
  <2>3. CASE ~About(Head(q), c)
    <3>1. \A j \in 1..n : ~About(q[j], c)
      BY <1>1, <2>1, <2>3
    <3>2. QED
      BY <1>4, <2>3, <3>1 DEF Tells
  <2>4. QED
    BY <2>2, <2>3
<1>5. QED
  BY <1>1, <1>2, <1>3, <1>4 DEF Tells

\* A client that still follows after an event followed before it, and has the event
\* behind what was in the channel for it.
LEMMA FollowerReceives ==
    ASSUME TypeInv, NEW event, Publish(event), NEW u \in Users,
           socket[u] = "open", ~Lagged(u)'
    PROVE  Follows(u) /\ inbox'[u] = Append(inbox[u], event)
BY DEF TypeInv, Publish, Lagged, Follows

\* Every step preserves FollowInv: an event reaches all who follow, and whoever begins
\* to follow has heard of nothing yet.
LEMMA FollowStep ==
    ASSUME TypeInv, SocketInv, FollowInv, [Next]_vars
    PROVE  FollowInv'
<1> USE DEF TypeInv
<1>1. ASSUME \A w \in Users : Follows(w)' => \A c \in Cells, e \in Nat :
               WillBeTold(w, c, e)' => Follows(w) /\ WillBeTold(w, c, e)
      PROVE  FollowInv'
  BY <1>1 DEF FollowInv
<1>2. ASSUME NEW w \in Users, UNCHANGED <<socket[w], inbox[w], told[w], heard[w]>>
      PROVE  /\ Follows(w)' => Follows(w)
             /\ \A c, e : WillBeTold(w, c, e)' => WillBeTold(w, c, e)
  BY <1>2 DEF Follows, Lagged, WillBeTold
<1>3. ASSUME NEW w \in Users, NEW event \in Events, Publish(event), NEW c, NEW e,
             socket'[w] = "open" => socket[w] = "open", told'[w] = told[w], heard'[w] = heard[w],
             Follows(w)', WillBeTold(w, c, e)'
      PROVE  Follows(w) /\ IF About(event, c) THEN e = event.edit ELSE WillBeTold(w, c, e)
  <2>1. Follows(w) /\ inbox'[w] = Append(inbox[w], event)
    BY <1>3, FollowerReceives DEF Follows
  <2>2. inbox[w] \in Seq(Events)
    OBVIOUS
  <2>3. Tells(Append(inbox[w], event), heard[w], told[w], c, e)
    BY <1>3, <2>1 DEF WillBeTold
  <2>4. IF About(event, c) THEN e = event.edit ELSE Tells(inbox[w], heard[w], told[w], c, e)
    BY <2>2, <2>3, TellsBehind
  <2>5. QED
    BY <2>1, <2>4 DEF WillBeTold
<1>4. ASSUME Publish(Quiet), told' = told, heard' = heard,
             \A w \in Users : socket'[w] = "open" => socket[w] = "open"
      PROVE  FollowInv'
  <2>1. Quiet \in Events /\ \A c : ~About(Quiet, c)
    BY DEF Events, About
  <2>2. QED
    BY <1>1, <1>3, <1>4, <2>1
<1>5. ASSUME NEW u \in Users, Connect(u) \/ Cleanup(u) \/ FinishSave(u) PROVE FollowInv'
  BY <1>4, <1>5 DEF Connect, Cleanup, FinishSave
<1>6. ASSUME NEW u \in Users,
             \A w \in Users \ {u} : UNCHANGED <<socket[w], inbox[w], told[w], heard[w]>>,
             \A c \in Cells, e \in Nat :
               Follows(u)' /\ WillBeTold(u, c, e)' => Follows(u) /\ WillBeTold(u, c, e)
      PROVE  FollowInv'
  BY ZenonT(40), <1>1, <1>2, <1>6
<1>7. ASSUME NEW u \in Users, SendSnapshot(u) \/ Leave(u) PROVE FollowInv'
  <2>1. ~Follows(u)'
    BY <1>7 DEF SendSnapshot, Leave, Follows
  <2>2. \A w \in Users \ {u} : UNCHANGED <<socket[w], inbox[w], told[w], heard[w]>>
    BY <1>7 DEF SendSnapshot, Leave
  <2>3. QED
    BY <1>6, <2>1, <2>2
<1>8. ASSUME NEW u \in Users, Subscribe(u) PROVE FollowInv'
  <2>1. inbox'[u] = <<>> /\ heard'[u] = {}
    BY <1>8 DEF Subscribe, SocketInv
  <2>2. \A c, e : ~WillBeTold(u, c, e)'
    BY <2>1, EmptySeq DEF WillBeTold, Tells
  <2>3. \A w \in Users \ {u} : UNCHANGED <<socket[w], inbox[w], told[w], heard[w]>>
    BY <1>8 DEF Subscribe
  <2>4. QED
    BY <1>6, <2>2, <2>3
<1>9. ASSUME NEW u \in Users, Relay(u) PROVE FollowInv'
  <2> DEFINE event == Head(inbox[u])
  <2>1. /\ inbox[u] \in Seq(Events) /\ inbox[u] # <<>> /\ inbox'[u] = Tail(inbox[u])
        /\ socket[u] = "open" /\ ~Lagged(u)
    BY <1>9 DEF Relay
  <2>2. event \in Events
    BY <2>1, HeadTailProperties
  <2> HIDE DEF event
  <2>3. ASSUME NEW c \in Cells
        PROVE  IF About(event, c) THEN told'[u][c] = event.edit
                                  ELSE told'[u][c] = told[u][c] /\ (c \in heard'[u] => c \in heard[u])
    <3>1. CASE event = Quiet
      BY <1>9, <3>1 DEF Relay, event, About
    <3>2. CASE event # Quiet
      <4>1. /\ told' = [told EXCEPT ![u][event.cell] = event.edit]
            /\ heard' = [heard EXCEPT ![u] = @ \union {event.cell}]
        BY <1>9, <3>2 DEF Relay, event
      <4>2. QED
        BY <2>3, <3>2, <4>1 DEF About
    <3>3. QED
      BY <3>1, <3>2
  <2>4. ASSUME NEW c \in Cells, NEW e, WillBeTold(u, c, e)' PROVE WillBeTold(u, c, e)
    <3>1. Tells(Tail(inbox[u]), heard'[u], told'[u], c, e)
      BY <2>1, <2>4 DEF WillBeTold
    <3>2. Tells(inbox[u], heard[u], told[u], c, e)
      BY <2>1, <2>3, <3>1, TellsAhead DEF event
    <3>3. QED
      BY <3>2 DEF WillBeTold
  <2>5. \A w \in Users \ {u} : UNCHANGED <<socket[w], inbox[w], told[w], heard[w]>>
    <3>1. /\ socket' = socket /\ inbox' = [inbox EXCEPT ![u] = Tail(@)]
          /\ \/ UNCHANGED <<told, heard>>
             \/ /\ told' = [told EXCEPT ![u][event.cell] = event.edit]
                /\ heard' = [heard EXCEPT ![u] = @ \union {event.cell}]
      BY <1>9 DEF Relay, event
    <3>2. QED
      BY <3>1
  <2>6. Follows(u)
    BY <2>1 DEF Follows
  <2>7. QED
    BY <1>6, <2>4, <2>5, <2>6
<1>10. ASSUME NEW u \in Users, BroadcastEdit(u) PROVE FollowInv'
  <2> DEFINE event == [cell |-> pending[u].cell, edit |-> pending[u].edit, by |-> u]
  <2>1. event \in Events
    BY <1>10 DEF BroadcastEdit, EditInHand, Events
  <2>2. Publish(event) /\ UNCHANGED <<socket, told, heard>>
    BY <1>10 DEF BroadcastEdit
  <2> HIDE DEF event
  <2>3. ASSUME NEW w \in Users, NEW c \in Cells, NEW e \in Nat, Follows(w)', WillBeTold(w, c, e)'
        PROVE  Follows(w) /\ IF About(event, c) THEN e = event.edit ELSE WillBeTold(w, c, e)
    BY <1>3, <2>1, <2>2, <2>3
  <2>4. SUFFICES ASSUME NEW v \in Users, NEW w \in Users, Follows(v)', Follows(w)',
                        NEW c \in Cells, NEW e \in Nat, NEW f \in Nat,
                        WillBeTold(v, c, e)', WillBeTold(w, c, f)'
                 PROVE  e = f
    BY DEF FollowInv
  <2>5. CASE About(event, c)
    BY <2>3, <2>4, <2>5
  <2>6. CASE ~About(event, c)
    BY <2>3, <2>4, <2>6 DEF FollowInv
  <2>7. QED
    BY <2>5, <2>6
<1>11. ASSUME NEW u \in Users,
              \/ ReceiveEdit(u) \/ WriteEdit(u) \/ BeginSave(u) \/ InsertRows(u)
              \/ ClearEdits(u) \/ AbandonSave(u)
       PROVE  FollowInv'
  <2>1. UNCHANGED <<socket, inbox, told, heard>>
    BY <1>11 DEF ReceiveEdit, WriteEdit, BeginSave, InsertRows, ClearEdits, AbandonSave
  <2>2. QED
    BY <1>1, <1>2, <2>1
<1>12. CASE Restart
  BY <1>12 DEF Restart, FollowInv, Follows
<1>13. CASE UNCHANGED vars
  <2>1. UNCHANGED <<socket, inbox, told, heard>>
    BY <1>13 DEF vars
  <2>2. QED
    BY <1>1, <1>2, <2>1
<1>14. QED
  BY <1>5, <1>7, <1>8, <1>9, <1>10, <1>11, <1>12, <1>13
     DEF Next, Socket, Edit, Save, EndOutbound, HangUp

-----------------------------------------------------------------------------
(* The theorems *)

RoomInv == TypeInv /\ SocketInv /\ CountInv /\ MapInv /\ ChainInv /\ FollowInv

\* An empty room is in order.
LEMMA RoomInit == Init => RoomInv
<1> SUFFICES ASSUME Init PROVE RoomInv
  OBVIOUS
<1>1. <<>> \in Seq(Events) /\ <<>> \in Seq(Snapshots) /\ Len(<<>>) = 0
  OBVIOUS
<1>2. TypeInv
  BY <1>1 DEF Init, TypeInv
<1>3. CountInv
  <2>1. {u \in Users : socket[u] # "off"} = {} /\ viewers = 0
    BY DEF Init
  <2>2. QED
    BY <2>1, FS_EmptySet DEF CountInv
<1>4. ChainInv
  BY <1>1 DEF Init, ChainInv, Whole
<1>5. SocketInv /\ MapInv /\ FollowInv
  BY DEF Init, SocketInv, MapInv, FollowInv, Follows
<1>6. QED
  BY <1>2, <1>3, <1>4, <1>5 DEF RoomInv

\* The parts hold together in every state of the room.
THEOREM RoomHoldsTogether == Spec => []RoomInv
<1>1. RoomInv /\ [Next]_vars => RoomInv'
  BY TypeStep, SocketStep, CountStep, MapStep, ChainStep, FollowStep DEF RoomInv
<1>2. QED
  BY <1>1, RoomInit, PTL DEF Spec

\* Type correctness of the room, and every save past its statements has stored as many
\* as it takes.
THEOREM TypeCorrect == Spec => []TypeOK
<1>1. RoomInv => TypeOK
  <2> SUFFICES ASSUME RoomInv PROVE TypeOK
    OBVIOUS
  <2> USE DEF RoomInv, TypeInv
  <2>1. DOMAIN history = 1..Len(history) /\ Len(history) \in Nat
    BY LenProperties
  <2>2. lastSave \in 0..Len(history)
    BY <2>1 DEF ChainInv, Whole
  <2>3. ASSUME NEW u \in Users, save[u] # None
        PROVE  /\ save[u].id \in DOMAIN history
               /\ save[u].at # "rows" => history[save[u].id].chunks = Chunks
    BY <2>1, <2>3 DEF ChainInv
  <2>4. \A u \in Users : Len(<<>>) <= Capacity + 1 /\ heard[u] \subseteq Cells
    OBVIOUS
  <2>5. QED
    BY <2>2, <2>3, <2>4 DEF TypeOK, SocketInv
<1>2. QED
  BY <1>1, RoomHoldsTogether, PTL

\* However sockets end, and however many of their tasks were under way, the count of
\* viewers is the number of sockets that are up.
THEOREM ViewersAddUp == Spec => []ViewersCounted
<1>1. RoomInv => ViewersCounted
  BY DEF RoomInv, CountInv, ViewersCounted
<1>2. QED
  BY <1>1, RoomHoldsTogether, PTL

\* No edit stays in the map that no event announces.
THEOREM NoEditUnannounced == Spec => []EditsAnnounced
<1>1. RoomInv => EditsAnnounced
  BY DEF RoomInv, MapInv, EditsAnnounced
<1>2. QED
  BY <1>1, RoomHoldsTogether, PTL

\* However saves fail, overtake each other or are forgotten, the chain of snapshots leads
\* from the last save through whole snapshots to the first.
THEOREM ChainIsWhole == Spec => []HistoryChains
<1>1. RoomInv => HistoryChains
  <2> SUFFICES ASSUME RoomInv PROVE HistoryChains
    OBVIOUS
  <2>1. DOMAIN history = 1..Len(history)
    BY LenProperties DEF RoomInv, TypeInv
  <2>2. QED
    BY <2>1 DEF RoomInv, ChainInv, Whole, HistoryChains
<1>2. QED
  BY <1>1, RoomHoldsTogether, PTL

\* Clients that are up to date with the channel agree on every cell both were told about,
\* whatever order its edits reached the map in.
THEOREM FollowersSeeTheSame == Spec => []FollowersAgree
<1>1. RoomInv => FollowersAgree
  <2> SUFFICES ASSUME RoomInv, NEW u \in Users, NEW v \in Users,
                      socket[u] = "open", inbox[u] = <<>>, socket[v] = "open", inbox[v] = <<>>,
                      NEW c \in heard[u] \cap heard[v]
               PROVE  told[u][c] = told[v][c]
    BY DEF FollowersAgree
  <2>1. Follows(u) /\ Follows(v)
    BY EmptySeq DEF Follows, Lagged
  <2>2. c \in Cells /\ told[u][c] \in Nat /\ told[v][c] \in Nat
    BY DEF RoomInv, TypeInv
  <2>3. WillBeTold(u, c, told[u][c]) /\ WillBeTold(v, c, told[v][c])
    BY EmptySeq DEF WillBeTold, Tells
  <2>4. QED
    BY <2>1, <2>2, <2>3 DEF RoomInv, FollowInv
<1>2. QED
  BY <1>1, RoomHoldsTogether, PTL

\* A snapshot that is stored whole is never written again, by any save that is still
\* under way or begun later, nor by a restart; and none is removed.
WholeSnapshotsStay ==
    [][\A id \in 1..Len(history) :
         id \in 1..Len(history') /\ (history[id].chunks = Chunks => history'[id] = history[id])]_history

\* Only a save's own statements write to its snapshot, and it has none left once it is
\* whole.
THEOREM WholeIsFinal == Spec => WholeSnapshotsStay
<1> DEFINE Stay == \A id \in 1..Len(history) :
                     id \in 1..Len(history') /\ (history[id].chunks = Chunks => history'[id] = history[id])
<1>1. ASSUME RoomInv, [Next]_vars PROVE Stay \/ history' = history
  <2> USE DEF RoomInv, TypeInv
  <2>1. ASSUME NEW u \in Users, BeginSave(u) PROVE Stay
    <3>1. /\ Len(history') = Len(history) + 1 /\ Len(history) \in Nat
          /\ \A i \in 1..Len(history) : history'[i] = history[i]
      BY <2>1, SnapshotCreated, LenProperties DEF BeginSave
    <3>2. QED
      BY <3>1
  <2>2. ASSUME NEW u \in Users, InsertRows(u) PROVE Stay
    <3>1. save[u].id \in 1..Len(history) /\ history[save[u].id].chunks < Chunks
      <4>1. save[u] # None /\ save[u].at = "rows"
        BY <2>2 DEF InsertRows, AtSave
      <4>2. QED
        BY <1>1, <4>1 DEF ChainInv
    <3>2. Len(history') = Len(history)
      BY <2>2, <3>1, ChunkStored DEF InsertRows
    <3>3. history[save[u].id].chunks # Chunks
      BY <3>1
    <3>4. \A i \in 1..Len(history) : i # save[u].id => history'[i] = history[i]
      BY <2>2 DEF InsertRows
    <3>5. QED
      BY <3>2, <3>3, <3>4
  <2>3. ASSUME NEW u \in Users,
               \/ Socket(u) \/ Edit(u) \/ ClearEdits(u) \/ FinishSave(u) \/ AbandonSave(u)
        PROVE  history' = history
    BY <2>3 DEF Socket, Edit, Connect, SendSnapshot, Subscribe, Relay, EndOutbound, HangUp, Leave,
                Cleanup, ReceiveEdit, WriteEdit, BroadcastEdit, ClearEdits, FinishSave, AbandonSave
  <2>4. CASE Restart \/ UNCHANGED vars
    BY <2>4 DEF Restart, vars
  <2> HIDE DEF Stay
  <2>5. QED
    BY <1>1, <2>1, <2>2, <2>3, <2>4 DEF Next, Save
<1>2. RoomInv /\ [Next]_vars => [Stay]_history
  BY <1>1
<1>3. QED
  BY <1>2, RoomHoldsTogether, PTL DEF Spec, WholeSnapshotsStay
=============================================================================
