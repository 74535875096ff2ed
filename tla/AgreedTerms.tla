---------------------------- MODULE AgreedTerms ----------------------------
(***************************************************************************)
(* What the commercial chain promises, with no extraction, token, clock or *)
(* status in sight: for each inquiry at most one deal is ever struck, by   *)
(* somebody with the authority for its discount, or the inquiry is closed  *)
(* without one; and every document carries the terms of the deal, after    *)
(* the document it follows from.  A deal and a closure are final.          *)
(***************************************************************************)
EXTENDS RulesEngine

CONSTANTS
    Inquiries,
    Terms        \* commercial terms: records with at least .inquiry and .pct

VARIABLES
    deals,       \* {[terms, by]}: what has been agreed and on whose authority
    closed,      \* inquiries whose approval was refused or ran out
    executed     \* {[kind, terms]}: the documents issued

Kinds == {"quote", "order", "invoice"}
DealRecord     == [terms : Terms, by : Roles]
DocumentRecord == [kind : Kinds, terms : Terms]

DealsOf(i) == {d \in deals : d.terms.inquiry = i}
Document(kind, t) == [kind |-> kind, terms |-> t]

(* The document a new one is made from *)
Follows(kind, t) ==
    \/ kind = "quote"   /\ (\E d \in deals : d.terms = t)
    \/ kind = "order"   /\ Document("quote", t) \in executed
    \/ kind = "invoice" /\ Document("order", t) \in executed

Init == deals = {} /\ closed = {} /\ executed = {}

Strike(d) ==
    /\ DealsOf(d.terms.inquiry) = {} /\ d.terms.inquiry \notin closed
    /\ MayGrant(d.by, d.terms.pct)
    /\ deals' = deals \union {d}
    /\ UNCHANGED <<closed, executed>>

Close(S) ==
    /\ \A i \in S : DealsOf(i) = {} /\ i \notin closed
    /\ closed' = closed \union S
    /\ UNCHANGED <<deals, executed>>

Issue(kind, t) ==
    /\ Follows(kind, t)
    /\ executed' = executed \union {Document(kind, t)}
    /\ UNCHANGED <<deals, closed>>

Next ==
    \/ \E d \in DealRecord : Strike(d)
    \/ \E S \in SUBSET Inquiries : Close(S)
    \/ \E kind \in Kinds, t \in Terms : Issue(kind, t)

Spec == Init /\ [][Next]_<<deals, closed, executed>>
=============================================================================
