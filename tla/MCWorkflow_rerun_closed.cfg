\* A step that fails three times, and the same message once more.
SPECIFICATION FairWorkflowSpec
CONSTANTS
  None = None
  Inquiries = {i1}
  Approvals = {a1}
  Quotes = {q1}
  Orders = {o1}
  Invoices = {v1}
  Workers = {w1, w2}
  Offers <- ThreeOffers
  Percents = {12, 20}
  MaxAttempts = 2
  SlowWorkers = FALSE
  Corrections = {}
  Executions = {e1, e2}
  MaxTries = 3
  MaxFewTries = 2
  MaxFaults = 3
PROPERTIES
  RerunContinues
CHECK_DEADLOCK FALSE
