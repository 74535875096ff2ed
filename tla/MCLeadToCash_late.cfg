\* One inquiry, and extractions that may finish after they were given up as stale. Fair
\* clocks, sweep and workers; nobody has to answer, retry or call again.
SPECIFICATION FairSpec
CONSTANTS
  None = None
  Inquiries = {i1}
  Approvals = {a1, a2}
  Quotes = {q1}
  Orders = {o1}
  Invoices = {v1}
  Workers = {w1, w2}
  Offers <- SomeOffers
  Percents <- SomePercents
  MaxAttempts = 2
  SlowWorkers = TRUE
  Corrections = {}
INVARIANTS
  ExecutedAsApproved
  OneApprovalPerInquiry
  RulingExplainsApproval
PROPERTIES
  ImplementsAgreedTerms
  NothingStaysPending
  ExtractionEnds
CHECK_DEADLOCK FALSE
