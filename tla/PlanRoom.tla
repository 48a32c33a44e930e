------------------------------ MODULE PlanRoom ------------------------------
(***************************************************************************)
(* The room in which an allocation plan is edited together.  A socket      *)
(* sends its client the live edits of the room, then subscribes to the     *)
(* broadcast channel; an edit is put in the map and then broadcast; a save *)
(* stores the rows it was sent as a new snapshot, chunk by chunk, clears   *)
(* the live edits and becomes the parent of the next one.                  *)
(*                                                                         *)
(* An edit is a number, so that no two are equal, and a broadcast event is *)
(* an edit, its cell and its user; an event that is not an edit only takes *)
(* its place in the channel.  Edits of other columns, empty plans and      *)
(* plans over their caps are refused before they change anything.          *)
(***************************************************************************)
EXTENDS Integers, Sequences, FiniteSetsExt, SequencesExt

CONSTANTS
    Users,          \* each has at most one socket and one save in progress
    Cells,
    Capacity,       \* events the channel keeps for a receiver
    Chunks,         \* statements a save takes
    MaxEdits, MaxSaves,
    None

\* An edit its user's inbound task has received, and where it is: on its way to the
\* map or to the channel; a save, at the statement it is at.
EditInHand == [at : {"map", "send"}, cell : Cells, edit : Nat \ {0}]
SaveUnderWay == [at : {"rows", "clear", "last"}, id : Nat \ {0}, rows : [Cells -> Nat]]

ASSUME RoomAssumption == Capacity \in Nat \ {0} /\ Chunks \in Nat \ {0}
ASSUME NoneAssumption == None \notin EditInHand /\ None \notin SaveUnderWay

VARIABLES
    live,           \* the live edit of each cell, or 0
    lastSave,       \* the snapshot the room was last saved as, or 0
    viewers,
    socket,         \* the stage of each user's socket
    inbox,          \* the events in the channel for each user's receiver
    told,           \* the edit of each cell the user was last sent, or 0
    heard,          \* the cells the user was sent an event about
    pending,        \* the edit the user's inbound task is handling, or None
    save,           \* the user's save, or None
    history,        \* the snapshots in the warehouse: [parent, chunks], by id
    edits,          \* the number of edits so far
    broadcast       \* those the channel has carried

sockets == <<viewers, socket, told, heard>>
saves == <<lastSave, save, history>>
counts == <<edits, broadcast>>
vars == <<live, lastSave, viewers, socket, inbox, told, heard, pending, save, history,
          edits, broadcast>>

Off(x) == [u \in Users |-> x]
NoEdits == [c \in Cells |-> 0]
Quiet == [cell |-> None, edit |-> 0, by |-> None]

Init ==
    /\ live = NoEdits /\ lastSave = 0 /\ viewers = 0
    /\ socket = Off("off") /\ inbox = Off(<<>>) /\ told = Off(NoEdits) /\ heard = Off({})
    /\ pending = Off(None) /\ save = Off(None)
    /\ history = <<>> /\ edits = 0 /\ broadcast = {}

\* The channel with one more event, for those subscribed to it; a receiver that is
\* behind by more than the channel keeps will find that out at its next receive.
Lagged(u) == Len(inbox[u]) > Capacity
Publish(event) ==
    inbox' = [u \in Users |-> IF socket[u] = "open" /\ ~Lagged(u) THEN Append(inbox[u], event)
                              ELSE inbox[u]]

-----------------------------------------------------------------------------
(* A socket *)

Connect(u) ==
    /\ socket[u] = "off"
    /\ socket' = [socket EXCEPT ![u] = "joined"]
    /\ viewers' = viewers + 1
    /\ Publish(Quiet)
    /\ UNCHANGED <<live, told, heard, pending, saves, counts>>

SendSnapshot(u) ==
    /\ socket[u] = "joined"
    /\ \/ /\ socket' = [socket EXCEPT ![u] = "greeted"]
          /\ told' = [told EXCEPT ![u] = live]
       \/ socket' = [socket EXCEPT ![u] = "leaving"] /\ UNCHANGED told
    /\ UNCHANGED <<live, viewers, inbox, heard, pending, saves, counts>>

Subscribe(u) ==
    /\ socket[u] = "greeted"
    /\ socket' = [socket EXCEPT ![u] = "open"]
    /\ UNCHANGED <<live, viewers, inbox, told, heard, pending, saves, counts>>

\* One of the tasks of the socket has ended.  The other is aborted where it next waits:
\* an edit that waits for the map is dropped; one whose task is running may still get
\* the map, and is then broadcast, after the cleanup too and when its user is back; one
\* in the map always is.  The edits of the user's next socket wait for it here.  What
\* the client was sent is gone with it.
MUT_Leave(u) ==
    /\ socket' = [socket EXCEPT ![u] = "leaving"]
    /\ inbox' = [inbox EXCEPT ![u] = <<>>]
    /\ pending' = [pending EXCEPT ![u] = None]
    /\ told' = [told EXCEPT ![u] = NoEdits]
    /\ heard' = [heard EXCEPT ![u] = {}]
    /\ UNCHANGED <<live, viewers, saves, counts>>

Leave(u) ==
    /\ socket' = [socket EXCEPT ![u] = "leaving"]
    /\ inbox' = [inbox EXCEPT ![u] = <<>>]
    /\ told' = [told EXCEPT ![u] = NoEdits]
    /\ heard' = [heard EXCEPT ![u] = {}]
    /\ \/ UNCHANGED pending
       \/ pending[u] # None /\ pending[u].at = "map" /\ pending' = [pending EXCEPT ![u] = None]
    /\ UNCHANGED <<live, viewers, saves, counts>>

MUT_Relay(u) ==
    LET skipped == IF Lagged(u) THEN Tail(inbox[u]) ELSE inbox[u]
        event == Head(skipped)
    IN  /\ socket[u] = "open" /\ inbox[u] # <<>>
        /\ inbox' = [inbox EXCEPT ![u] = Tail(skipped)]
        /\ IF event = Quiet THEN UNCHANGED <<told, heard>>
           ELSE /\ told' = [told EXCEPT ![u][event.cell] = event.edit]
                /\ heard' = [heard EXCEPT ![u] = @ \union {event.cell}]
        /\ UNCHANGED <<live, viewers, socket, pending, saves, counts>>

\* The outbound task; it ends when its receiver has lagged.
Relay(u) ==
    LET event == Head(inbox[u]) IN
    /\ socket[u] = "open" /\ inbox[u] # <<>> /\ ~Lagged(u)
    /\ inbox' = [inbox EXCEPT ![u] = Tail(@)]
    /\ IF event = Quiet THEN UNCHANGED <<told, heard>>
       ELSE /\ told' = [told EXCEPT ![u][event.cell] = event.edit]
            /\ heard' = [heard EXCEPT ![u] = @ \union {event.cell}]
    /\ UNCHANGED <<live, viewers, socket, pending, saves, counts>>

\* It also ends when its client is gone, which a send tells it.
EndOutbound(u) == socket[u] = "open" /\ inbox[u] # <<>> /\ Leave(u)

\* The inbound task ends between two messages.
HangUp(u) == socket[u] = "open" /\ pending[u] = None /\ Leave(u)

MUT_Cleanup(u) ==
    /\ socket[u] = "leaving"
    /\ socket' = [socket EXCEPT ![u] = "off"]
    /\ Publish(Quiet)
    /\ UNCHANGED <<live, viewers, told, heard, pending, saves, counts>>

Cleanup(u) ==
    /\ socket[u] = "leaving"
    /\ socket' = [socket EXCEPT ![u] = "off"]
    /\ viewers' = viewers - 1
    /\ Publish(Quiet)
    /\ UNCHANGED <<live, told, heard, pending, saves, counts>>

-----------------------------------------------------------------------------
(* An edit: the inbound task waits for the map, writes it, and broadcasts *)

ReceiveEdit(u) ==
    /\ socket[u] = "open" /\ pending[u] = None
    /\ edits < MaxEdits
    /\ edits' = edits + 1
    /\ \E c \in Cells : pending' = [pending EXCEPT ![u] = [at |-> "map", cell |-> c, edit |-> edits + 1]]
    /\ UNCHANGED <<live, sockets, inbox, saves, broadcast>>

WriteEdit(u) ==
    /\ pending[u] # None /\ pending[u].at = "map"
    /\ live' = [live EXCEPT ![pending[u].cell] = pending[u].edit]
    /\ pending' = [pending EXCEPT ![u].at = "send"]
    /\ UNCHANGED <<sockets, inbox, saves, counts>>

BroadcastEdit(u) ==
    /\ pending[u] # None /\ pending[u].at = "send"
    /\ Publish([cell |-> pending[u].cell, edit |-> pending[u].edit, by |-> u])
    /\ broadcast' = broadcast \union {pending[u].edit}
    /\ pending' = [pending EXCEPT ![u] = None]
    /\ UNCHANGED <<live, sockets, saves, edits>>

-----------------------------------------------------------------------------
(* A save *)

\* What a client sees: the plan as it was told, under its own edits.
Seen(u) ==
    [c \in Cells |->
       LET own == {e \in Range(inbox[u]) : e.cell = c /\ e.by = u}
           typed == {e \in {pending[u]} \ {None} : e.cell = c}
           ours == {e.edit : e \in own \union typed}
       IN  IF ours = {} THEN told[u][c] ELSE Max(ours)]

\* The client sends the plan it sees; the parent is read from the room.
BeginSave(u) ==
    /\ save[u] = None /\ socket[u] = "open"
    /\ Len(history) < MaxSaves
    /\ history' = Append(history, [parent |-> lastSave, chunks |-> 0])
    /\ save' = [save EXCEPT ![u] = [at |-> "rows", id |-> Len(history) + 1, rows |-> Seen(u)]]
    /\ UNCHANGED <<live, lastSave, sockets, inbox, pending, counts>>

AtSave(u, place) == save[u] # None /\ save[u].at = place
GoOn(u, place) == save' = [save EXCEPT ![u].at = place]

MUT_InsertRows(u) ==
    /\ AtSave(u, "rows")
    /\ history' = [history EXCEPT ![save[u].id].chunks = @ + 1]
    /\ GoOn(u, "clear")
    /\ UNCHANGED <<live, lastSave, sockets, inbox, pending, counts>>

\* Every chunk is a statement of its own.
InsertRows(u) ==
    LET id == save[u].id IN
    /\ AtSave(u, "rows")
    /\ history' = [history EXCEPT ![id].chunks = @ + 1]
    /\ GoOn(u, IF history'[id].chunks = Chunks THEN "clear" ELSE "rows")
    /\ UNCHANGED <<live, lastSave, sockets, inbox, pending, counts>>

ClearEdits(u) ==
    /\ AtSave(u, "clear")
    /\ live' = NoEdits
    /\ GoOn(u, "last")
    /\ UNCHANGED <<lastSave, history, sockets, inbox, pending, counts>>

\* Nothing interrupts the request between the write and the broadcast.
FinishSave(u) ==
    /\ AtSave(u, "last")
    /\ lastSave' = save[u].id
    /\ save' = [save EXCEPT ![u] = None]
    /\ Publish(Quiet)
    /\ UNCHANGED <<live, history, sockets, pending, counts>>

\* A statement fails, or the request is dropped where it waits: what is stored stays.
AbandonSave(u) ==
    /\ save[u] # None
    /\ save' = [save EXCEPT ![u] = None]
    /\ UNCHANGED <<live, lastSave, history, sockets, inbox, pending, counts>>

-----------------------------------------------------------------------------
\* Everything but the snapshots lives in the process.
Restart ==
    /\ live' = NoEdits /\ lastSave' = 0 /\ viewers' = 0
    /\ socket' = Off("off") /\ inbox' = Off(<<>>) /\ told' = Off(NoEdits) /\ heard' = Off({})
    /\ pending' = Off(None) /\ save' = Off(None)
    /\ broadcast' = {}
    /\ UNCHANGED <<history, edits>>

Socket(u) ==
    Connect(u) \/ SendSnapshot(u) \/ Subscribe(u) \/ Relay(u) \/ EndOutbound(u) \/ HangUp(u) \/ Cleanup(u)
Edit(u) == ReceiveEdit(u) \/ WriteEdit(u) \/ BroadcastEdit(u)
Save(u) == BeginSave(u) \/ InsertRows(u) \/ ClearEdits(u) \/ FinishSave(u) \/ AbandonSave(u)

Next == Restart \/ \E u \in Users : Socket(u) \/ Edit(u) \/ Save(u)

Spec == Init /\ [][Next]_vars

-----------------------------------------------------------------------------
(* Properties *)

\* What is in the room fits together; a save past its statements has stored them all.
TypeOK ==
    /\ live \in [Cells -> 0..edits] /\ told \in [Users -> [Cells -> 0..edits]]
    /\ pending \in [Users -> EditInHand \union {None}]
    /\ save \in [Users -> SaveUnderWay \union {None}]
    /\ lastSave \in 0..Len(history)
    /\ socket \in [Users -> {"off", "joined", "greeted", "open", "leaving"}]
    /\ \A u \in Users : /\ Len(inbox[u]) <= Capacity + 1
                        /\ socket[u] # "open" => inbox[u] = <<>>
                        /\ heard[u] \subseteq Cells
                        /\ save[u] # None => /\ save[u].id \in DOMAIN history
                                             /\ save[u].at # "rows" => history[save[u].id].chunks = Chunks

\* Every socket is counted from its first step to its cleanup, and once, whichever
\* task ends it and whether it lagged, lost its peer or never got its snapshot.
ViewersCounted == viewers = Cardinality({u \in Users : socket[u] # "off"})

\* An edit is in the map only if it was broadcast, or is about to be: no way of
\* ending a socket cuts an edit in two.
EditsAnnounced ==
    \A c \in Cells : live[c] \in {0} \union broadcast
                       \union {pending[u].edit : u \in {v \in Users : pending[v] # None}}

\* Whatever order the edits of a cell reached the map in, the sockets that are up to
\* date and were sent an event about it were last sent the same edit: nobody who
\* follows the channel misses an event of it.
FollowersAgree ==
    LET UpToDate(u) == socket[u] = "open" /\ inbox[u] = <<>>
    IN  \A u, v \in {w \in Users : UpToDate(w)} : \A c \in heard[u] \cap heard[v] :
          told[u][c] = told[v][c]

\* The history hangs together: the last save and every parent are snapshots stored
\* whole, and a snapshot is younger than its parent, although saves fail half-way,
\* overtake each other and are forgotten by a restart.
HistoryChains ==
    LET Whole(id) == id = 0 \/ history[id].chunks = Chunks
    IN  /\ Whole(lastSave)
        /\ \A id \in DOMAIN history : history[id].parent < id /\ Whole(history[id].parent)

\* The live edits a save clears "have now graduated from draft to persisted".
EditsGraduate ==
    [][\A u \in Users : AtSave(u, "clear") /\ save'[u] # None /\ save'[u].at = "last" =>
         \A c \in Cells : live[c] \in {0, save[u].rows[c]}]_vars
=============================================================================
