CONSTANTS
    Calls = {c1, c2}
    Keys = {k1, k2}
    Offer = Offer
    Anonymous = Anonymous
    Ann = Ann
    Bob = Bob
    Bodies <- Messages
    Emails <- People
    Email <- Senders
    Late = FALSE
    None = None
SPECIFICATION FairSpec
INVARIANTS
    IntakeTypeOK
    AnswersAreTrue
    CustomersMatch
PROPERTIES
    StoredStays
    EveryRequestEnds
