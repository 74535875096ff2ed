--------------------------- MODULE FinancialChecks ---------------------------
(***************************************************************************)
(* app/rules/financial_checks.py: the checks of an invoice's figures that  *)
(* nobody can override.  InvoiceDesk knows their result as "sound".        *)
(*                                                                         *)
(* An invoice says [subtotal, pct, discount, tax, total, lines]: amounts   *)
(* in cents, pct in hundredths of a percent, lines the sum of the priced   *)
(* line items; None is a field left out.  An order is [pct, total].        *)
(***************************************************************************)
EXTENDS Pricing

CONSTANT None      \* a field left out, no order

TOLERANCE          == 1
HUNDREDTHS         == 100
FREE_DISCOUNT      == 5 * HUNDREDTHS      \* AUTO_APPROVE_MAX_PCT
HUNDRED_PERCENT    == 100 * HUNDREDTHS

Differ(a, b) == a - b > TOLERANCE \/ b - a > TOLERANCE
OrZero(x)    == IF x = None THEN 0 ELSE x

(* invoice_arithmetic(): each check runs only when all its fields are there*)
DiscountAddsUp(inv) ==
    None \notin {inv.subtotal, inv.pct, inv.discount} =>
        ~Differ(Money(inv.subtotal * inv.pct, HUNDRED_PERCENT), inv.discount)
TotalAddsUp(inv) ==
    None \notin {inv.subtotal, inv.total} =>
        ~Differ(inv.subtotal - OrZero(inv.discount) + OrZero(inv.tax), inv.total)
LinesAddUp(inv) ==
    None \notin {inv.subtotal, inv.lines} => ~Differ(inv.lines, inv.subtotal)

EffectiveDiscount_Stated(inv) == inv.pct

(* effective_discount_pct(): as stated, or else worked out and rounded.    *)
EffectiveDiscount(inv) ==
    IF inv.pct # None THEN inv.pct
    ELSE IF OrZero(inv.subtotal) # 0 /\ OrZero(inv.discount) # 0
         THEN Money(inv.discount * HUNDRED_PERCENT, inv.subtotal)
         ELSE None

Exceeds_OrMeets(pct, limit) == pct # None /\ pct >= limit
Exceeds(pct, limit) == pct # None /\ pct > limit

(* against_order(): what was approved, or is automatic without an order    *)
Authorised(order)    == IF order = None THEN FREE_DISCOUNT ELSE order.pct
Unauthorised(inv, order) == Exceeds(EffectiveDiscount(inv), Authorised(order))
OrderTotalDiffers(inv, order) ==
    order # None /\ inv.total # None /\ Differ(inv.total, order.total)

(* The types of the findings; refers says that an order is referred to.    *)
FigureFindings(inv, order, refers) ==
    {t \in {"missing_field", "amount_mismatch", "unauthorized_discount"} :
       \/ t = "missing_field" /\ (None \in {inv.subtotal, inv.total} \/ (refers /\ order = None))
       \/ t = "amount_mismatch"
            /\ \/ ~DiscountAddsUp(inv) \/ ~TotalAddsUp(inv) \/ ~LinesAddUp(inv)
               \/ OrderTotalDiffers(inv, order)
       \/ t = "unauthorized_discount" /\ Unauthorised(inv, order)}
=============================================================================
