\* Boundaries of every rule, prices that round both ways, totals around 50,000;
\* invoices up to 1,000 with figures on, just off and far off.
SPECIFICATION Spec
CONSTANTS
  None = None
  MaxBilled = 100000
  Quantities = {0, 1, 3, 99, 100, 9999, 10000, 10001}
  Prices = {0, 1, 33, 50, 501, 505}
  Percents = {0, 1, 4, 5, 6, 10, 15, 16, 39, 40, 41, 50, 99, 100}
INVARIANTS
  DecisionTable
  RequiredRoleCanGrant
  PricesRound
  OwnInvoicePasses
  DiscountAuthorised
