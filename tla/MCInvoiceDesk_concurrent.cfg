\* Two requests at a time and two invoices, typed in or captured; i2 has an Idempotency-Key and is submitted again.
SPECIFICATION Spec
CONSTANTS
  None = None
  Acme = Acme
  Bolt = Bolt
  Invoices = {i1, i2}
  Calls = {c1, c2}
  Contents <- One
  Kinds <- JustBills
  Threshold <- BillLimit
  Amounts = {5}
  FromText = {i1, i2}
  Keyed = {i2}
SYMMETRY CallSymmetry
INVARIANTS
  PassedIsClean
  PaidIsApproved
  PostedIsPaid
PROPERTIES
  FinalStaysFinal
