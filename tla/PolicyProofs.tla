---------------------------- MODULE PolicyProofs ----------------------------
(***************************************************************************)
(* The discount policy, pricing and the checks of figures, for requests of *)
(* any size and price.                                                     *)
(***************************************************************************)
EXTENDS MCPolicy, TLAPS

(* A request is made of natural numbers.                                   *)
RequestOK == /\ found \in BOOLEAN /\ quantity \in Nat /\ price \in Nat /\ pct \in 0 .. 100

LEMMA AlwaysRequest == Spec => []RequestOK
  <1>1. Init => RequestOK
    BY RequestsAssumption DEF Init, RequestOK
  <1>2. RequestOK /\ [Next]_vars => RequestOK'
    BY RequestsAssumption
       DEF RequestOK, Next, vars, AskDiscount, AskQuantity, Bill, Withdraw
  <1>3. QED
    BY <1>1, <1>2, PTL DEF Spec

(* money() of half-up cents: the nearest whole number, halves up.          *)
LEMMA MoneyBounds ==
    ASSUME NEW num \in Nat, NEW den \in Nat \ {0}
    PROVE  /\ Money(num, den) \in Nat
           /\ 2 * den * Money(num, den) <= 2 * num + den
           /\ 2 * num + den < 2 * den * Money(num, den) + 2 * den
  <1> DEFINE n == 2 * num + den
             d == 2 * den
  <1>1. n \in Nat /\ d \in Nat \ {0}
    OBVIOUS
  <1>2. Money(num, den) = n \div d
    BY DEF Money
  <1> HIDE DEF n, d
  <1>3. /\ n \div d \in Int /\ d * (n \div d) <= n /\ n < d * (n \div d) + d
    BY <1>1
  <1>4. n \div d >= 0
    BY <1>1
  <1>5. QED
    BY <1>2, <1>3, <1>4 DEF n, d

LEMMA MoneyPercent ==
    ASSUME NEW x \in Nat
    PROVE  /\ Money(x, 100) \in Nat
           /\ 200 * Money(x, 100) <= 2 * x + 100
           /\ 2 * x + 100 < 200 * Money(x, 100) + 200
  BY MoneyBounds DEF Money

LEMMA MoneyMonotone ==
    ASSUME NEW x \in Nat, NEW y \in Nat, x <= y
    PROVE  Money(x, 100) <= Money(y, 100)
  BY MoneyPercent

(* A subtotal, and the discount on it, are amounts of whole cents; 100     *)
(* percent of it is the subtotal itself.                                   *)
LEMMA Amounts ==
    ASSUME NEW q \in Nat, NEW p \in Nat, NEW c \in 0 .. 100
    PROVE  /\ Subtotal(q, p) \in Nat /\ Subtotal(q, p) * c \in Nat
           /\ DiscountAmount(q, p, c) \in 0 .. Subtotal(q, p)
           /\ DiscountAmount(q, p, c) = Money(Subtotal(q, p) * c, 100)
           /\ Total(q, p, c) = Subtotal(q, p) - DiscountAmount(q, p, c)
           /\ Total(q, p, c) \in Nat
  <1> DEFINE s == Subtotal(q, p)
  <1>1. s \in Nat
    BY DEF Subtotal
  <1>2. DiscountAmount(q, p, c) = Money(s * c, 100) /\ Total(q, p, c) = s - DiscountAmount(q, p, c)
    BY DEF DiscountAmount, Total, CENTS_PER_PERCENT
  <1> HIDE DEF s
  <1>3. s * c \in Nat /\ s * 100 \in Nat /\ s * c <= s * 100
    BY <1>1
  <1>4. Money(s * c, 100) \in Nat /\ Money(s * c, 100) <= Money(s * 100, 100)
    BY <1>3, MoneyPercent, MoneyMonotone
  <1>5. Money(s * 100, 100) = s
    <2>1. /\ Money(s * 100, 100) \in Nat
          /\ 200 * Money(s * 100, 100) <= 2 * (s * 100) + 100
          /\ 2 * (s * 100) + 100 < 200 * Money(s * 100, 100) + 200
      BY <1>3, MoneyPercent
    <2>2. QED
      BY <1>1, <2>1
  <1>6. QED
    BY <1>1, <1>2, <1>3, <1>4, <1>5 DEF s

LEMMA RequestAmounts ==
    ASSUME RequestOK
    PROVE  /\ subtotal \in Nat /\ subtotal * pct \in Nat /\ total \in Nat
           /\ DiscountAmount(quantity, price, pct) \in 0 .. subtotal
           /\ DiscountAmount(quantity, price, pct) = Money(subtotal * pct, 100)
           /\ total = subtotal - DiscountAmount(quantity, price, pct)
  <1>1. quantity \in Nat /\ price \in Nat /\ pct \in 0 .. 100
    BY DEF RequestOK
  <1>2. QED
    BY <1>1, Amounts DEF subtotal, total

-----------------------------------------------------------------------------
(* decide() and may_grant()                                                *)

(* decide() answers the one row of the decision table that applies, for    *)
(* every product, quantity, price and percentage.                          *)
THEOREM DecisionsFollowTable == Spec => []DecisionTable
  <1>1. RequestOK => DecisionTable
    <2> SUFFICES ASSUME RequestOK PROVE DecisionTable
      OBVIOUS
    <2>1. total \in Int
      BY RequestAmounts
    <2> DEFINE large   == total > LARGE_ORDER
               free    == pct <= 5
               routine == pct <= 15
               beyond  == pct > 40
    <2>2. outcome = IF ~Priced THEN "human_review"
                    ELSE IF beyond  THEN "reject"
                    ELSE IF large   THEN "manager_approval"
                    ELSE IF free    THEN "auto_approve"
                    ELSE IF routine THEN "salesperson_approval"
                    ELSE "manager_approval"
      BY SMT DEF RequestOK, Priced, outcome, Decide, OutcomeByDiscount,
                 AUTO_APPROVE_MAX_PCT, SALESPERSON_MAX_PCT, POLICY_MAX_PCT,
                 MANAGER_REVIEW_TOTAL, MAX_QUANTITY, LARGE_ORDER
    <2>3. /\ Table["human_review"]         <=> ~Priced
          /\ Table["reject"]               <=> Priced /\ beyond
          /\ Table["manager_approval"]     <=> Priced /\ ~beyond /\ (~routine \/ large)
          /\ Table["salesperson_approval"] <=> Priced /\ ~free /\ routine /\ ~large
          /\ Table["auto_approve"]         <=> Priced /\ free /\ ~large
      <3>1. /\ pct <= 40 <=> ~beyond
            /\ pct > 15 <=> ~routine
            /\ pct \in 6 .. 15 <=> ~free /\ routine
            /\ pct \in 0 .. 5 <=> free
            /\ total <= LARGE_ORDER <=> ~large
        BY <2>1 DEF RequestOK, LARGE_ORDER
      <3>2. pct > 40 <=> beyond
        OBVIOUS
      <3>3. total > LARGE_ORDER <=> large
        OBVIOUS
      <3> HIDE DEF large, free, routine, beyond
      <3>4. /\ Table["human_review"] = ~Priced
            /\ Table["reject"] = (Priced /\ pct > 40)
        BY Zenon DEF Table
      <3>5. Table["manager_approval"] =
              (Priced /\ pct <= 40 /\ (pct > 15 \/ total > LARGE_ORDER))
        BY Zenon DEF Table
      <3>6. /\ Table["salesperson_approval"] = (Priced /\ pct \in 6 .. 15 /\ total <= LARGE_ORDER)
            /\ Table["auto_approve"] = (Priced /\ pct \in 0 .. 5 /\ total <= LARGE_ORDER)
        BY Zenon DEF Table
      <3>7. Table["human_review"] <=> ~Priced
        BY <3>4, Zenon
      <3>8. Table["reject"] <=> Priced /\ beyond
        BY <3>2, <3>4, Zenon
      <3>9. Table["manager_approval"] <=> Priced /\ ~beyond /\ (~routine \/ large)
        <4>1. pct <= 40 /\ (pct > 15 \/ total > LARGE_ORDER)
                <=> ~beyond /\ (~routine \/ large)
          BY <3>1, <3>3
        <4>2. QED
          BY <3>5, <4>1, Zenon
      <3>10. Table["salesperson_approval"] <=> Priced /\ ~free /\ routine /\ ~large
        BY <3>1, <3>6, Zenon
      <3>11. Table["auto_approve"] <=> Priced /\ free /\ ~large
        BY <3>1, <3>6, Zenon
      <3>12. QED
        BY <3>7, <3>8, <3>9, <3>10, <3>11
    <2>4. (free => routine) /\ (routine => ~beyond)
      BY DEF RequestOK
    <2> HIDE DEF large, free, routine, beyond
    <2>5. /\ Table["human_review"] <=> outcome = "human_review"
          /\ Table["reject"] <=> outcome = "reject"
          /\ Table["manager_approval"] <=> outcome = "manager_approval"
          /\ Table["salesperson_approval"] <=> outcome = "salesperson_approval"
          /\ Table["auto_approve"] <=> outcome = "auto_approve"
      BY <2>2, <2>3, <2>4
    <2>6. QED
      BY <2>5 DEF DecisionTable, Outcomes
  <1>2. QED
    BY <1>1, AlwaysRequest, PTL

(* Whoever the rules ask may grant what was asked, and, unless the order   *)
(* is large, nobody with less authority may.                               *)
THEOREM RoleSuffices == Spec => []RequiredRoleCanGrant
  <1>1. RequestOK => RequiredRoleCanGrant
    <2> SUFFICES ASSUME RequestOK, outcome \notin {"human_review", "reject"}
                 PROVE  /\ MayGrant(RequiredRole(outcome), pct)
                        /\ total <= MANAGER_REVIEW_TOTAL =>
                              \A role \in Roles : MayGrant(role, pct) =>
                                  ROLE_MAX_PCT[RequiredRole(outcome)] <= ROLE_MAX_PCT[role]
      BY DEF RequiredRoleCanGrant
    <2>1. total \in Int
      BY RequestAmounts
    <2>2. QED
      BY <2>1, SMT DEF RequestOK, outcome, Decide, RequiredRole, Roles, MayGrant, ROLE_MAX_PCT,
                       OutcomeByDiscount, AUTO_APPROVE_MAX_PCT, SALESPERSON_MAX_PCT,
                       POLICY_MAX_PCT, MANAGER_REVIEW_TOTAL, MAX_QUANTITY
  <1>2. QED
    BY <1>1, AlwaysRequest, PTL

-----------------------------------------------------------------------------
(* pricing.py                                                              *)

(* The rounding of every price is within half a cent, totals are between   *)
(* nothing and the subtotal, and more discount never costs more.           *)
THEOREM PricesAreRounded == Spec => []PricesRound
  <1>1. RequestOK => PricesRound
    <2> SUFFICES ASSUME RequestOK PROVE PricesRound
      OBVIOUS
    <2>1. /\ subtotal \in Nat /\ subtotal * pct \in Nat
          /\ DiscountAmount(quantity, price, pct) \in 0 .. subtotal
          /\ DiscountAmount(quantity, price, pct) = Money(subtotal * pct, 100)
          /\ total = subtotal - DiscountAmount(quantity, price, pct)
      BY RequestAmounts
    <2>2. ASSUME pct < 100 PROVE Total(quantity, price, pct + 1) <= total
      <3>1. pct + 1 \in 0 .. 100
        BY <2>2 DEF RequestOK
      <3>2. /\ Total(quantity, price, pct + 1) = subtotal - Money(subtotal * (pct + 1), 100)
            /\ subtotal * (pct + 1) \in Nat
        <4> DEFINE next == pct + 1
        <4>1. quantity \in Nat /\ price \in Nat /\ next \in 0 .. 100
          BY <3>1 DEF RequestOK
        <4> HIDE DEF next
        <4>2. /\ Total(quantity, price, next) = subtotal - Money(subtotal * next, 100)
              /\ subtotal * next \in Nat
          <5>1. /\ Total(quantity, price, next)
                     = Subtotal(quantity, price) - DiscountAmount(quantity, price, next)
                /\ DiscountAmount(quantity, price, next)
                     = Money(Subtotal(quantity, price) * next, 100)
                /\ Subtotal(quantity, price) * next \in Nat
            BY <4>1, Amounts
          <5>2. QED
            BY <5>1 DEF subtotal
        <4>3. QED
          BY <4>2 DEF next
      <3>3. subtotal * pct <= subtotal * (pct + 1)
        BY <2>1 DEF RequestOK
      <3>4. /\ Money(subtotal * pct, 100) <= Money(subtotal * (pct + 1), 100)
            /\ Money(subtotal * (pct + 1), 100) \in Nat
        BY <2>1, <3>2, <3>3, MoneyMonotone, MoneyPercent
      <3>5. QED
        BY <2>1, <3>2, <3>4
    <2>3. /\ Money(subtotal * pct, 100) \in Nat
          /\ 200 * Money(subtotal * pct, 100) <= 2 * (subtotal * pct) + 100
          /\ 2 * (subtotal * pct) + 100 < 200 * Money(subtotal * pct, 100) + 200
      BY <2>1, MoneyPercent
    <2>4. total \in 0 .. subtotal
      BY <2>1
    <2>5. QED
      BY <2>1, <2>2, <2>3, <2>4 DEF PricesRound
  <1>2. QED
    BY <1>1, AlwaysRequest, PTL

-----------------------------------------------------------------------------
(* financial_checks.py                                                     *)

(* Working with hundredths of a percent changes no amount.                 *)
LEMMA HundredthsAgree ==
    ASSUME NEW x \in Nat
    PROVE  Money(100 * x, 10000) = Money(x, 100)
  <1>1. 100 * x \in Nat
    OBVIOUS
  <1> DEFINE m == Money(100 * x, 10000)
             k == Money(x, 100)
  <1>2. /\ m \in Nat /\ 20000 * m <= 2 * (100 * x) + 10000
        /\ 2 * (100 * x) + 10000 < 20000 * m + 20000
    BY <1>1, MoneyBounds
  <1>3. k \in Nat /\ 200 * k <= 2 * x + 100 /\ 2 * x + 100 < 200 * k + 200
    BY MoneyPercent
  <1> HIDE DEF m, k
  <1>4. m = k
    BY <1>2, <1>3
  <1>5. QED
    BY <1>4 DEF m, k

(* Invoices the service generates pass its own checks, whatever was sold.  *)
THEOREM OwnInvoicesPass == Spec => []OwnInvoicePasses
  <1>1. RequestOK => OwnInvoicePasses
    <2> SUFFICES ASSUME RequestOK PROVE OwnInvoicePasses
      OBVIOUS
    <2> DEFINE d == DiscountAmount(quantity, price, pct)
    <2>1. /\ subtotal \in Nat /\ subtotal * pct \in Nat /\ d \in Nat
          /\ d = Money(subtotal * pct, 100) /\ total = subtotal - d
      BY RequestAmounts
    <2>2. Money(subtotal * (100 * pct), 10000) = d
      <3>1. subtotal * (100 * pct) = 100 * (subtotal * pct)
        BY <2>1 DEF RequestOK
      <3>2. QED
        BY <2>1, <3>1, HundredthsAgree
    <2>3. OwnInvoice = [subtotal |-> subtotal, pct |-> 100 * pct, discount |-> d,
                        tax |-> 0, total |-> total, lines |-> subtotal]
      BY DEF OwnInvoice, HUNDREDTHS
    <2> HIDE DEF d
    <2>4. None \notin {subtotal, d, total, 100 * pct, 0}
      BY <2>1, RequestsAssumption DEF RequestOK
    <2>5. DiscountAddsUp(OwnInvoice)
      BY <2>1, <2>2, <2>3 DEF DiscountAddsUp, Differ, TOLERANCE, HUNDRED_PERCENT, HUNDREDTHS
    <2>6. TotalAddsUp(OwnInvoice) /\ LinesAddUp(OwnInvoice)
      BY <2>1, <2>3, <2>4 DEF TotalAddsUp, LinesAddUp, Differ, TOLERANCE, OrZero
    <2>7. EffectiveDiscount(OwnInvoice) = 100 * pct
      BY <2>3, <2>4 DEF EffectiveDiscount
    <2>8. FigureFindings(OwnInvoice, OwnOrder, TRUE) = {}
      <3>1. OwnOrder # None /\ OwnOrder.pct = 100 * pct /\ OwnOrder.total = total
        <4>1. OwnOrder = [pct |-> 100 * pct, total |-> total]
          BY DEF OwnOrder, HUNDREDTHS
        <4>2. 100 * pct \in Int /\ total \in Int
          BY <2>1 DEF RequestOK
        <4>3. QED
          BY <4>1, <4>2, RequestsAssumption
      <3>2. ~Unauthorised(OwnInvoice, OwnOrder) /\ ~OrderTotalDiffers(OwnInvoice, OwnOrder)
        BY <2>1, <2>3, <2>7, <3>1
           DEF RequestOK, Unauthorised, Authorised, Exceeds, OrderTotalDiffers, Differ, TOLERANCE
      <3>3. QED
        BY <2>3, <2>4, <2>5, <2>6, <3>1, <3>2 DEF FigureFindings
    <2>9. ASSUME pct <= AUTO_APPROVE_MAX_PCT
          PROVE  FigureFindings(OwnInvoice, None, FALSE) = {}
      <3>1. ~Unauthorised(OwnInvoice, None) /\ ~OrderTotalDiffers(OwnInvoice, None)
        BY <2>7, <2>9 DEF RequestOK, Unauthorised, Authorised, Exceeds, OrderTotalDiffers,
                          AUTO_APPROVE_MAX_PCT, FREE_DISCOUNT, HUNDREDTHS
      <3>2. QED
        BY <2>3, <2>4, <2>5, <2>6, <3>1 DEF FigureFindings
    <2>10. QED
      BY <2>8, <2>9 DEF OwnInvoicePasses
  <1>2. QED
    BY <1>1, AlwaysRequest, PTL

(* What the checks let pass, for an invoice and an order of any size.      *)
Figures == [subtotal : Nat, pct : Nat \union {None}, discount : Nat \union {None},
            tax : Nat \union {None}, total : Nat \union {None}, lines : Nat \union {None}]
Orders  == [pct : Nat, total : Nat]

LEMMA DiscountBound ==
    ASSUME NEW inv \in Figures, inv.subtotal # 0,
           NEW order \in Orders \union {None}, NEW refers \in BOOLEAN,
           FigureFindings(inv, order, refers) = {}
    PROVE  20000 * (inv.subtotal + OrZero(inv.tax) - inv.total)
              <= 2 * (Authorised(order) * inv.subtotal) + inv.subtotal + 50000
  <1> DEFINE s == inv.subtotal
             d == OrZero(inv.discount)
             a == Authorised(order)
             off == s + OrZero(inv.tax) - inv.total
  <1>1. s \in Nat \ {0} /\ d \in Nat /\ OrZero(inv.tax) \in Nat
    BY DEF Figures, OrZero
  <1>2. a \in Nat
    BY DEF Orders, Authorised, FREE_DISCOUNT, HUNDREDTHS
  <1>3. a * s \in Nat
    BY <1>1, <1>2
  <1>4. /\ inv.total # None
        /\ DiscountAddsUp(inv) /\ TotalAddsUp(inv) /\ ~Unauthorised(inv, order)
    BY DEF FigureFindings
  <1>5. off \in Int /\ off <= d + 1
    <2>1. inv.total \in Nat /\ None \notin {inv.subtotal, inv.total}
      BY <1>1, <1>4, RequestsAssumption DEF Figures
    <2>2. ~Differ(s - d + OrZero(inv.tax), inv.total)
      BY <1>4, <2>1 DEF TotalAddsUp
    <2>3. QED
      BY <1>1, <2>1, <2>2 DEF Differ, TOLERANCE
  <1>6. CASE inv.pct # None
    <2>1. inv.pct \in Nat /\ inv.pct <= a
      BY <1>2, <1>4, <1>6 DEF Figures, Unauthorised, EffectiveDiscount, Exceeds
    <2>2. inv.pct * s <= a * s /\ inv.pct * s \in Nat /\ s * inv.pct = inv.pct * s
      BY <1>1, <1>2, <2>1
    <2>3. CASE inv.discount = None
      <3>1. d = 0
        BY <2>3 DEF OrZero
      <3>2. QED
        BY <1>1, <1>3, <1>5, <3>1
    <2>4. CASE inv.discount # None
      <3> DEFINE m == Money(s * inv.pct, 10000)
      <3>1. m \in Nat /\ 20000 * m <= 2 * (s * inv.pct) + 10000
        BY <2>2, MoneyBounds
      <3>2. ~Differ(m, d)
        <4>1. None \notin {inv.subtotal, inv.pct, inv.discount} /\ d = inv.discount
          BY <1>1, <1>6, <2>4, RequestsAssumption DEF OrZero
        <4>2. QED
          BY <1>4, <4>1 DEF DiscountAddsUp, HUNDRED_PERCENT, HUNDREDTHS
      <3> HIDE DEF m
      <3>3. d <= m + 1
        BY <1>1, <3>1, <3>2 DEF Differ, TOLERANCE
      <3> HIDE DEF s, d, a, off
      <3>4. 20000 * off <= 2 * (a * s) + s + 50000
        BY <1>1, <1>3, <1>5, <2>2, <3>1, <3>3
      <3>5. QED
        BY <3>4 DEF off, s, a
    <2>5. QED
      BY <2>3, <2>4
  <1>7. CASE inv.pct = None
    <2>1. CASE d = 0
      BY <1>1, <1>3, <1>5, <2>1
    <2>2. CASE d # 0
      <3> DEFINE m == Money(d * 10000, s)
      <3>1. m \in Nat /\ 2 * (d * 10000) + s < 2 * s * m + 2 * s
        <4> DEFINE n == d * 10000
        <4>1. s \in Nat \ {0} /\ n \in Nat
          BY <1>1
        <4> HIDE DEF s, n
        <4>2. /\ Money(n, s) \in Nat
              /\ 2 * n + s < 2 * s * Money(n, s) + 2 * s
          BY <4>1, MoneyBounds
        <4>3. QED
          BY <4>2 DEF n
      <3>2. EffectiveDiscount(inv) = m
        <4>1. d = inv.discount /\ OrZero(inv.subtotal) = s
          BY <1>1, <2>2, RequestsAssumption DEF OrZero
        <4>2. QED
          BY <1>1, <1>7, <2>2, <4>1 DEF EffectiveDiscount, HUNDRED_PERCENT, HUNDREDTHS
      <3>3. m <= a
        BY <1>2, <1>4, <3>1, <3>2, RequestsAssumption DEF Unauthorised, Exceeds
      <3> HIDE DEF m
      <3>4. m * s <= a * s /\ 2 * s * m = 2 * (m * s) /\ m * s \in Nat
        BY <1>1, <1>2, <3>1, <3>3
      <3> HIDE DEF s, d, a, off
      <3>5. 20000 * off <= 2 * (a * s) + s + 50000
        BY <1>1, <1>3, <1>5, <3>1, <3>4
      <3>6. QED
        BY <3>5 DEF off, s, a
    <2>3. QED
      BY <2>1, <2>2
  <1>8. QED
    BY <1>6, <1>7

(* A bill has figures, if it has them, that are amounts.                   *)
BillOK == \/ bill = None
          \/ /\ bill.invoice \in Figures /\ bill.order \in Orders \union {None}
             /\ bill.refers \in BOOLEAN

LEMMA AlwaysBill == Spec => []BillOK
  <1>1. Init => BillOK
    BY DEF Init, BillOK
  <1>2. RequestOK /\ BillOK /\ [Next]_vars => BillOK'
    <2> SUFFICES ASSUME RequestOK, BillOK, [Next]_vars PROVE BillOK'
      OBVIOUS
    <2>1. ASSUME \E stated \in {None, -1, 0, 1}, discountBy \in {None, -2, -1, 0, 1, 2, 100},
                    totalBy \in {None, -2, -1, 0, 1}, tax \in {None, 7},
                    order \in {None, OwnOrder}, refers \in BOOLEAN :
                    Bill(stated, discountBy, totalBy, tax, order, refers)
          PROVE  BillOK'
      <3>0. PICK stated \in {None, -1, 0, 1}, discountBy \in {None, -2, -1, 0, 1, 2, 100},
                 totalBy \in {None, -2, -1, 0, 1}, tax \in {None, 7},
                 order \in {None, OwnOrder}, refers \in BOOLEAN :
                 Bill(stated, discountBy, totalBy, tax, order, refers)
        BY <2>1
      <3>1. ASSUME NEW x \in Int, NEW by \in Int \union {None}
            PROVE  Shifted(x, by) \in Nat \union {None}
        BY <3>1, RequestsAssumption DEF Shifted
      <3>2. /\ subtotal \in Nat /\ DiscountAmount(quantity, price, pct) \in Nat
            /\ total \in Nat /\ 100 * pct \in Nat
        BY RequestAmounts DEF RequestOK
      <3> DEFINE discount == Shifted(OwnInvoice.discount, discountBy)
                 figures  == subtotal - OrZero(discount) + OrZero(tax)
      <3>3. /\ OwnInvoice.discount \in Int /\ OwnInvoice.pct \in Int
            /\ OwnOrder \in Orders
        BY <3>2 DEF OwnInvoice, OwnOrder, Orders, HUNDREDTHS
      <3>4. discount \in Nat \union {None}
        <4>1. discountBy \in Int \union {None}
          OBVIOUS
        <4>2. QED
          BY <3>1, <3>3, <4>1
      <3>5. figures \in Int
        BY <3>2, <3>4 DEF OrZero
      <3>6. /\ Shifted(OwnInvoice.pct, stated) \in Nat \union {None}
            /\ Shifted(figures, totalBy) \in Nat \union {None}
        <4>1. stated \in Int \union {None} /\ totalBy \in Int \union {None}
          OBVIOUS
        <4> HIDE DEF figures
        <4>2. QED
          BY <3>1, <3>3, <3>5, <4>1
      <3>7. /\ bill'.invoice = [subtotal |-> subtotal, pct |-> Shifted(OwnInvoice.pct, stated),
                                discount |-> discount, tax |-> tax,
                                total |-> Shifted(figures, totalBy), lines |-> subtotal]
            /\ bill'.order = order /\ bill'.refers = refers
        BY <3>0 DEF Bill
      <3> HIDE DEF discount, figures
      <3>8. bill'.invoice \in Figures
        BY <3>2, <3>4, <3>6, <3>7 DEF Figures
      <3>9. QED
        BY <3>3, <3>7, <3>8 DEF BillOK
    <2>2. ASSUME UNCHANGED bill \/ bill' = None PROVE BillOK'
      BY <2>2 DEF BillOK
    <2>3. CASE UNCHANGED vars
      BY <2>2, <2>3 DEF vars
    <2>4. ASSUME Withdraw \/ \E x : AskDiscount(x) \/ AskQuantity(x) PROVE BillOK'
      BY <2>2, <2>4 DEF Withdraw, AskDiscount, AskQuantity
    <2>5. QED
      BY <2>1, <2>3, <2>4, Zenon DEF Next
  <1>3. QED
    BY <1>1, <1>2, AlwaysRequest, PTL DEF Spec

(* No supplier gets a discount that nobody authorised past the checks by   *)
(* leaving a percentage out, by rounding, or by using up the tolerances.   *)
THEOREM DiscountsAreAuthorised == Spec => []DiscountAuthorised
  <1>1. BillOK => DiscountAuthorised
    <2> SUFFICES ASSUME BillOK, bill # None, bill.invoice.subtotal # 0,
                        FigureFindings(bill.invoice, bill.order, bill.refers) = {}
                 PROVE  2 * HUNDRED_PERCENT
                            * (bill.invoice.subtotal + OrZero(bill.invoice.tax) - bill.invoice.total)
                          <= 2 * Authorised(bill.order) * bill.invoice.subtotal
                               + bill.invoice.subtotal + 5 * HUNDRED_PERCENT
      BY DEF DiscountAuthorised
    <2>1. /\ bill.invoice \in Figures /\ bill.order \in Orders \union {None}
          /\ bill.refers \in BOOLEAN
      BY DEF BillOK
    <2>2. 20000 * (bill.invoice.subtotal + OrZero(bill.invoice.tax) - bill.invoice.total)
            <= 2 * (Authorised(bill.order) * bill.invoice.subtotal)
                 + bill.invoice.subtotal + 50000
      BY <2>1, DiscountBound
    <2>3. /\ bill.invoice.subtotal \in Nat /\ Authorised(bill.order) \in Nat
      BY <2>1 DEF Figures, Orders, Authorised, FREE_DISCOUNT, HUNDREDTHS
    <2>4. 2 * HUNDRED_PERCENT = 20000 /\ 5 * HUNDRED_PERCENT = 50000
      BY DEF HUNDRED_PERCENT, HUNDREDTHS
    <2>5. 2 * Authorised(bill.order) * bill.invoice.subtotal
            = 2 * (Authorised(bill.order) * bill.invoice.subtotal)
      BY <2>3
    <2>6. QED
      BY <2>2, <2>4, <2>5
  <1>2. QED
    BY <1>1, AlwaysBill, PTL
=============================================================================
