--------------------------- MODULE MCInvoiceDesk ---------------------------
(* Small instances of InvoiceDesk for TLC; the limit is 5.                 *)
EXTENDS InvoiceDesk, TLC

CONSTANTS Acme, Bolt    \* two suppliers' invoice numbers

Small == [key |-> Acme, total |-> 1, sound |-> TRUE]
Big   == [key |-> Acme, total |-> 6, sound |-> TRUE]
Other == [key |-> Bolt, total |-> 1, sound |-> TRUE]
Odd   == [key |-> Bolt, total |-> 7, sound |-> FALSE]
Off   == [key |-> Acme, total |-> 6, sound |-> FALSE]

One   == {Big}
Two   == {Small, Big}
Three == {Small, Big, Odd}
Twins == {Small, Other}
Slips == {Big, Off}

Both      == {"invoice", "expense"}
JustBills == {"invoice"}
Limit     == [kind \in Both |-> 5]
BillLimit == [kind \in JustBills |-> 5]

CallSymmetry == Permutations(Calls)
Symmetry == Permutations(Invoices) \union Permutations(Calls)
=============================================================================
