------------------------------- MODULE Pricing -------------------------------
(***************************************************************************)
(* app/services/pricing.py: the money arithmetic every document shares.    *)
(*                                                                         *)
(* Amounts are whole cents and percentages whole percents, so a Decimal    *)
(* quantized to CENTS is an integer here.  The source keeps two decimals   *)
(* of a percent; no comparison of the program can tell 5.01 from 6.        *)
(***************************************************************************)
EXTENDS Integers

CENTS_PER_PERCENT == 100

Money_Truncated(num, den) == num \div den

(* money(): ROUND_HALF_UP of the non-negative fraction num / den, in cents *)
Money(num, den) == (2 * num + den) \div (2 * den)

Subtotal(quantity, unitPrice) == quantity * unitPrice

DiscountAmount(quantity, unitPrice, pct) ==
    Money(Subtotal(quantity, unitPrice) * pct, CENTS_PER_PERCENT)

(* compute_amounts(): total = subtotal - discount_amount *)
Total(quantity, unitPrice, pct) ==
    Subtotal(quantity, unitPrice) - DiscountAmount(quantity, unitPrice, pct)
=============================================================================
