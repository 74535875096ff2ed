\* An inquiry whose approval timed out is extracted again.
SPECIFICATION Spec
CONSTANTS
  None = None
  Inquiries = {i1}
  Approvals = {a1, a2}
  Quotes = {q1, q2}
  Orders = {o1, o2}
  Invoices = {v1, v2}
  Workers = {w1, w2}
  Offers <- FewOffers
  Percents <- SomePercents
  MaxAttempts = 1
  SlowWorkers = FALSE
  Corrections = {}
PROPERTIES
  TimeoutNeedsHuman
CHECK_DEADLOCK FALSE
