---------------------------- MODULE MCLeadToCash ----------------------------
(* Small instances of LeadToCash for TLC. *)
EXTENDS LeadToCash, TLC

(* One offer for each branch of the rules: automatic, salesperson, manager *)
(* for the discount, over the policy, over the quantity limit, manager for *)
(* the total, and one whose total is below 50,000 only because of the      *)
(* discount it asks for.                                                   *)
Auto     == [quantity |-> 1,     unitPrice |-> 1050,  pct |-> 5]
Sales    == [quantity |-> 1,     unitPrice |-> 1050,  pct |-> 15]
Managed  == [quantity |-> 1,     unitPrice |-> 1050,  pct |-> 16]
Beyond   == [quantity |-> 1,     unitPrice |-> 1050,  pct |-> 41]
Oversize == [quantity |-> 10001, unitPrice |-> 1,     pct |-> 0]
Large    == [quantity |-> 100,   unitPrice |-> 51000, pct |-> 1]
Edge     == [quantity |-> 100,   unitPrice |-> 51000, pct |-> 6]

AllOffers    == {Auto, Sales, Managed, Beyond, Oversize, Large, Edge}
SomeOffers   == {Auto, Sales, Beyond, Large}
FewOffers    == {Auto, Sales}
SomePercents == {0, 5, 15}

(* Figures typed into an invoice: those of Sales granted with 5 percent,  *)
(* that total with the discount that was asked for, a missing total and a  *)
(* missing discount.                                                       *)
SomeFigures == {[pct |-> 5, total |-> 998], [pct |-> 15, total |-> 998],
                [pct |-> 15, total |-> None], [pct |-> None, total |-> 893]}

Symmetry == Permutations(Inquiries) \union Permutations(Workers)
              \union Permutations(Approvals) \union Permutations(Quotes)
              \union Permutations(Orders) \union Permutations(Invoices)
=============================================================================
