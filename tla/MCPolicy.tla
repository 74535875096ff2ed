------------------------------ MODULE MCPolicy ------------------------------
(***************************************************************************)
(* The discount policy, the pricing arithmetic and the checks of figures   *)
(* over bounded requests.  A state is one priced request, or one invoice   *)
(* for it; a step changes the discount or the size of the request, so that *)
(* every request of the bounds is visited from every other, or bills it.   *)
(***************************************************************************)
EXTENDS RulesEngine, FinancialChecks

CONSTANTS Quantities, Prices, Percents,
          MaxBilled     \* the largest subtotal that is billed (TLC has 32 bits)

ASSUME RequestsAssumption ==
    /\ Quantities \subseteq Nat /\ Prices \subseteq Nat /\ Percents \subseteq 0 .. 100
    /\ None \notin Int /\ None \notin [pct : Int, total : Int]

VARIABLES found, quantity, price, pct,
          bill          \* None, or [invoice, order, refers]
vars == <<found, quantity, price, pct, bill>>

Init == /\ found \in BOOLEAN
        /\ quantity \in Quantities /\ price \in Prices /\ pct \in Percents
        /\ bill = None

AskDiscount(p) == /\ bill = None /\ pct' = p
                  /\ UNCHANGED <<found, quantity, price, bill>>
AskQuantity(q) == /\ bill = None /\ quantity' = q
                  /\ UNCHANGED <<found, price, pct, bill>>
-----------------------------------------------------------------------------
total    == Total(quantity, price, pct)
subtotal == Subtotal(quantity, price)
outcome  == Decide(found, quantity, pct, total)

(* The figures create_invoice copies from the order of this request, and   *)
(* the order as against_order() sees it                                    *)
OwnInvoice == [subtotal |-> subtotal, pct |-> HUNDREDTHS * pct,
               discount |-> DiscountAmount(quantity, price, pct), tax |-> 0,
               total |-> total, lines |-> subtotal]
OwnOrder   == [pct |-> HUNDREDTHS * pct, total |-> total]

(* A supplier's invoice for the same goods: a discount that is stated,     *)
(* hidden in an amount, or left out; figures a cent or two, or much, off.  *)
Shifted(x, by) == IF by = None \/ x + by < 0 THEN None ELSE x + by
Bill(stated, discountBy, totalBy, tax, order, refers) ==
    /\ found /\ bill = None /\ subtotal <= MaxBilled
    /\ LET discount == Shifted(OwnInvoice.discount, discountBy)
           figures  == subtotal - OrZero(discount) + OrZero(tax) IN
       bill' = [invoice |-> [subtotal |-> subtotal,
                             pct      |-> Shifted(OwnInvoice.pct, stated),
                             discount |-> discount, tax |-> tax,
                             total    |-> Shifted(figures, totalBy), lines |-> subtotal],
                order |-> order, refers |-> refers]
    /\ UNCHANGED <<found, quantity, price, pct>>

Withdraw == /\ bill # None /\ bill' = None
            /\ UNCHANGED <<found, quantity, price, pct>>

Next == \/ \E p \in Percents : AskDiscount(p)
        \/ \E q \in Quantities : AskQuantity(q)
        \/ \E stated \in {None, -1, 0, 1}, discountBy \in {None, -2, -1, 0, 1, 2, 100},
              totalBy \in {None, -2, -1, 0, 1}, tax \in {None, 7},
              order \in {None, OwnOrder}, refers \in BOOLEAN :
              Bill(stated, discountBy, totalBy, tax, order, refers)
        \/ Withdraw

Spec == Init /\ [][Next]_vars
-----------------------------------------------------------------------------
(* The table of README.md, section 3, read row by row and with its guard   *)
(* rails: exactly one row applies, and it is the one decide() answers.     *)
LARGE_ORDER == 5000000
Priced == found /\ quantity # 0 /\ quantity <= 10000
Table ==
    [human_review         |-> ~Priced,
     reject               |-> Priced /\ pct > 40,
     manager_approval     |-> Priced /\ pct <= 40 /\ (pct > 15 \/ total > LARGE_ORDER),
     salesperson_approval |-> Priced /\ pct \in 6 .. 15 /\ total <= LARGE_ORDER,
     auto_approve         |-> Priced /\ pct \in 0 .. 5 /\ total <= LARGE_ORDER]
DecisionTable == \A out \in Outcomes : Table[out] <=> out = outcome

(* An approval link always works: whoever the rules send a request to may  *)
(* grant it as asked (apply_decision's second look at the authority), and  *)
(* the roles below could not have.                                         *)
RequiredRoleCanGrant ==
    outcome \notin {"human_review", "reject"} =>
        /\ MayGrant(RequiredRole(outcome), pct)
        /\ total <= MANAGER_REVIEW_TOTAL =>
              \A role \in Roles : MayGrant(role, pct) =>
                  ROLE_MAX_PCT[RequiredRole(outcome)] <= ROLE_MAX_PCT[role]

(* The CHECK quotes_math: the discount is the exact one to within half a   *)
(* cent, so a total is never negative, never above the subtotal, and one   *)
(* more percent never makes the customer pay more.                         *)
PricesRound ==
    LET exact   == subtotal * pct
        charged == 100 * DiscountAmount(quantity, price, pct) IN
    /\ 2 * (charged - exact) <= 100 /\ 2 * (exact - charged) < 100
    /\ total \in 0 .. subtotal
    /\ pct < 100 => Total(quantity, price, pct + 1) <= total

(* What the service bills it also accepts: the figures that pricing.py and *)
(* create_invoice agree on pass the checks of financial_checks.py, with    *)
(* the order and, up to 5 %, without it.                                   *)
OwnInvoicePasses ==
    subtotal <= MaxBilled =>
        /\ FigureFindings(OwnInvoice, OwnOrder, TRUE) = {}
        /\ pct <= AUTO_APPROVE_MAX_PCT => FigureFindings(OwnInvoice, None, FALSE) = {}

(* unauthorized_discount cannot be dodged: however a discount is stated,   *)
(* hidden in an amount or rounded, what an invoice without findings takes  *)
(* off its goods is at most what was authorised, plus 2.5 cents (two       *)
(* tolerances and a rounding) or half a hundredth of a percent (a discount *)
(* worked out from its amount).  Goods for nothing have no percentage.     *)
DiscountAuthorised ==
    bill # None =>
        LET inv == bill.invoice
            takenOff == inv.subtotal + OrZero(inv.tax) - inv.total IN
        FigureFindings(inv, bill.order, bill.refers) = {} /\ inv.subtotal # 0 =>
            2 * HUNDRED_PERCENT * takenOff
              <= 2 * Authorised(bill.order) * inv.subtotal + inv.subtotal + 5 * HUNDRED_PERCENT
=============================================================================
