\* A repeated submission waits while its invoice is approved or voided.
SPECIFICATION Spec
CONSTANTS
  None = None
  Acme = Acme
  Bolt = Bolt
  Invoices = {i1}
  Calls = {c1, c2}
  Contents <- Two
  Kinds <- JustBills
  Threshold <- BillLimit
  Amounts = {}
  FromText = {}
  Keyed = {i1}
SYMMETRY CallSymmetry
PROPERTIES
  FinalIsFinal
CHECK_DEADLOCK FALSE
