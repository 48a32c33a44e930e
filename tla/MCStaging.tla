----------------------------- MODULE MCStaging -----------------------------
(***************************************************************************)
(* TLC instances of the schema registry and of tako's staging tables: two  *)
(* threads, a keyed table whose schema has further versions, a hub and its *)
(* satellite.                                                              *)
(***************************************************************************)
EXTENDS Staging, TLC

CONSTANTS t1, t2

Column(name, type) == [name |-> name, type |-> type]
ID == Column("id", "Int64")
AMOUNT == Column("amount", "Float64")
NOTE == Text("note")
EXTRA == Text("other")

Plain == [name |-> "orders", version |-> 1, compatibility |-> "None", type |-> "plain",
          key |-> {"id"}, columns |-> <<ID, AMOUNT>>,
          businessKeys |-> None, hubs |-> None, parent |-> None, core |-> None]
\* The same columns the other way round, which is compatible.
Turned == [Plain EXCEPT !.version = 2, !.compatibility = "Full", !.columns = <<AMOUNT, ID>>]
\* Another schema of the same version.
Narrowed == [Plain EXCEPT !.version = 2, !.compatibility = "Backward", !.columns = <<ID>>]
\* A hub that also asks for the metadata it already has.
KeyedHub == [Plain EXCEPT !.name = "order", !.type = "hub", !.columns = <<ID>>,
                          !.businessKeys = {"id"}]
\* A satellite under the key "notes" that is named like another key.
Satellite == [Plain EXCEPT !.name = "orders", !.type = "satellite", !.key = {}, !.columns = <<>>,
                           !.parent = "hub", !.core = <<NOTE>>]

MCFiles == [k \in Keys |-> CASE k = "orders" -> {Plain}
                             [] k = "hub" -> {None, KeyedHub}
                             [] OTHER -> {None}]
MCSubmissions == {[key |-> "orders", schema |-> Turned], [key |-> "orders", schema |-> Narrowed],
                  [key |-> "notes", schema |-> Satellite]}
HubColumns == <<HashKey("order"), ID, LoadDate, RecordSource>>
SatelliteColumns == <<HashKey("hub"), NOTE, LoadDate, LoadEndDate, RecordSource>>
MCFrames == {<<EXTRA, AMOUNT, ID>>, <<Text("id"), AMOUNT>>,
             HubColumns, <<EXTRA>> \o Reverse(SatelliteColumns)}

Symmetry == Permutations(Threads)
=============================================================================
