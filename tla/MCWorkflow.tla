----------------------------- MODULE MCWorkflow -----------------------------
(* Small instances of Workflow for TLC. *)
EXTENDS Workflow

Auto   == [quantity |-> 1, unitPrice |-> 1050, pct |-> 5]
Sales  == [quantity |-> 1, unitPrice |-> 1050, pct |-> 15]
Beyond == [quantity |-> 1, unitPrice |-> 1050, pct |-> 41]

ThreeOffers == {Auto, Sales, Beyond}
=============================================================================
