----------------------------- MODULE AppendOnce -----------------------------
(***************************************************************************)
(* What an upload service promises of an append-only table: every upload's *)
(* rows are appended at most once, and an upload answered "ok" has had its *)
(* rows appended.  An answer that is not "ok" promises nothing: the rows   *)
(* may be there already, or come later.                                    *)
(***************************************************************************)
EXTENDS Naturals

CONSTANT Uploads

VARIABLES
    rows,  \* how many times each upload's rows are in its table
    reply  \* the answer each upload was given, "none" before it

Init ==
    /\ rows = [u \in Uploads |-> 0]
    /\ reply = [u \in Uploads |-> "none"]

AppendRows(u) ==
    /\ rows[u] = 0
    /\ rows' = [rows EXCEPT ![u] = 1]
    /\ UNCHANGED reply

Accept(u) ==
    /\ reply[u] = "none"
    /\ rows[u] = 1
    /\ reply' = [reply EXCEPT ![u] = "ok"]
    /\ UNCHANGED rows

Refuse(u) ==
    /\ reply[u] = "none"
    /\ \E why \in {"shed", "error", "timeout"} : reply' = [reply EXCEPT ![u] = why]
    /\ UNCHANGED rows

Next == \E u \in Uploads : AppendRows(u) \/ Accept(u) \/ Refuse(u)

Spec == Init /\ [][Next]_<<rows, reply>>
=============================================================================
