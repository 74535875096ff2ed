\* Two inquiries, two concurrent extraction calls, an offer for every branch of the
\* rules, figures finance types into invoices; no extraction outlives the stale limit.
SPECIFICATION Spec
CONSTANTS
  None = None
  Inquiries = {i1, i2}
  Approvals = {a1, a2}
  Quotes = {q1, q2}
  Orders = {o1, o2}
  Invoices = {v1, v2}
  Workers = {w1, w2}
  Offers <- AllOffers
  Percents <- SomePercents
  MaxAttempts = 2
  SlowWorkers = FALSE
  Corrections <- SomeFigures
SYMMETRY Symmetry
INVARIANTS
  TypeOK
  BilledOnce
  AuthorityRespected
  StatusMatchesRecords
  EvidenceHolds
PROPERTIES
  NoRegression
  ReviewIsSticky
CHECK_DEADLOCK FALSE
