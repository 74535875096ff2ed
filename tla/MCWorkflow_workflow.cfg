\* One inquiry, delivered twice, with up to two calls or answers lost.
SPECIFICATION FairWorkflowSpec
CONSTANTS
  None = None
  Inquiries = {i1}
  Approvals = {a1}
  Quotes = {q1}
  Orders = {o1}
  Invoices = {v1}
  Workers = {w1, w2}
  Offers <- ThreeOffers
  Percents = {12, 20}
  MaxAttempts = 2
  SlowWorkers = FALSE
  Corrections = {}
  Executions = {e1, e2}
  MaxTries = 3
  MaxFewTries = 2
  MaxFaults = 2
INVARIANTS
  EndsAreTrue
  OneLink
PROPERTIES
  ExecutionsEnd
  GrantIsCarriedOut
CHECK_DEADLOCK FALSE
