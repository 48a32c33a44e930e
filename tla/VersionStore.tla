---------------------------- MODULE VersionStore ----------------------------
(***************************************************************************)
(* What a schema registry promises: one atomic write makes a schema both   *)
(* the current one of its key and the one recorded under its version.      *)
(***************************************************************************)
CONSTANTS Keys, None

VARIABLES
    current,  \* the schema each key is served with, or None
    history   \* the schemas recorded for each key

vars == <<current, history>>

Empty == current = [k \in Keys |-> None] /\ history = [k \in Keys |-> {}]

\* A schema takes the place of the one recorded with its version.
Put(k, s) ==
    /\ current' = [current EXCEPT ![k] = s]
    /\ history' = [history EXCEPT ![k] = {old \in @ : old.version # s.version} \union {s}]

\* The process restarts: nothing is kept.
Forget == current' = [k \in Keys |-> None] /\ history' = [k \in Keys |-> {}]

Next == Forget \/ \E k \in Keys : current'[k] # None /\ Put(k, current'[k])

Spec == Empty /\ [][Next]_vars
=============================================================================
