-------------------------- MODULE LeadToCashProofs --------------------------
(***************************************************************************)
(* Proofs about LeadToCash for every set of inquiries, offers, discounts   *)
(* and workers, and whether or not extractions can outlive the stale limit.*)
(***************************************************************************)
EXTENDS LeadToCash, TLAPS

(* An invoice of the chain is changed in place: voided, or corrected.      *)
InvoiceChanged(v) ==
    VoidInvoice(v) \/ \E figures \in Corrections : CorrectInvoice(v, figures)
-----------------------------------------------------------------------------
(* Typing of the helpers *)

(* The constants: offers and discounts are what the assumptions say. *)
LEMMA OfferFields ==
    ASSUME NEW offer \in Offers
    PROVE  /\ offer.quantity \in Nat \ {0} /\ offer.unitPrice \in Nat
           /\ offer.pct \in 0 .. 100 /\ offer.pct \in Discounts
  BY OffersAssumption DEF Discounts

LEMMA DiscountRange == Discounts \subseteq 0 .. 100
  BY OffersAssumption DEF Discounts

(* terms_hash of a known inquiry, offer and discount is a known hash. *)
LEMMA TermsOfType ==
    ASSUME NEW i \in Inquiries, NEW offer \in Offers, NEW pct \in Discounts
    PROVE  TermsOf(i, offer, pct) \in Terms
  BY DEF Terms

LEMMA TermsFields ==
    ASSUME NEW t \in Terms
    PROVE  /\ t.inquiry \in Inquiries /\ t.quantity \in Nat
           /\ t.unitPrice \in Nat /\ t.pct \in 0 .. 100
  <1>1. PICK i \in Inquiries, offer \in Offers, pct \in Discounts :
           t = TermsOf(i, offer, pct)
    BY DEF Terms
  <1>2. QED
    BY <1>1, OfferFields, DiscountRange DEF TermsOf

(* compute_amounts returns an amount of whole cents. *)
LEMMA TotalType ==
    ASSUME NEW quantity \in Nat, NEW unitPrice \in Nat, NEW pct \in 0 .. 100
    PROVE  Total(quantity, unitPrice, pct) \in Int
  <1>1. quantity * unitPrice \in Nat
    OBVIOUS
  <1>2. quantity * unitPrice * pct \in Nat
    BY <1>1
  <1>3. QED
    BY <1>1, <1>2 DEF Total, Subtotal, DiscountAmount, Money, CENTS_PER_PERCENT

LEMMA TotalOfType ==
    ASSUME NEW t \in Terms
    PROVE  TotalOf(t) \in Int
  BY TermsFields, TotalType DEF TotalOf

LEMMA PricedOffer ==
    ASSUME NEW offer \in Offers
    PROVE  offer.quantity \in Nat /\ offer.pct \in Nat /\ OfferTotal(offer) \in Int
  <1>1. offer.quantity \in Nat /\ offer.unitPrice \in Nat /\ offer.pct \in 0 .. 100
    BY OfferFields
  <1>2. Total(offer.quantity, offer.unitPrice, offer.pct) \in Int
    BY <1>1, TotalType
  <1>3. QED
    BY <1>1, <1>2 DEF OfferTotal

(* The rules answer one of the five outcomes, each filed under a role. *)
LEMMA DecideType ==
    ASSUME NEW productFound, NEW quantity, NEW pct, NEW total
    PROVE  Decide(productFound, quantity, pct, total) \in Outcomes
  BY DEF Decide, OutcomeByDiscount, Outcomes

LEMMA RoleType ==
    ASSUME NEW outcome
    PROVE  RequiredRole(outcome) \in Roles
  BY DEF RequiredRole, Roles

-----------------------------------------------------------------------------
(* Type correctness: every action writes rows of the shape its table       *)
(* declares.                                                               *)
LEMMA InitTypeOK == Init => TypeOK
  BY DEF Init, TypeOK, Table, Rows, Statuses

LEMMA NewApprovalType ==
    ASSUME TypeOK, NEW i \in Inquiries, extracted[i] \in Offers,
           NEW outcome \in Outcomes \ {"human_review"}
    PROVE  /\ NewApproval(i, outcome) \in ApprovalRow
           /\ Granted(NewApproval(i, outcome)) =>
                 /\ NewApproval(i, outcome).approved # None
                 /\ NewApproval(i, outcome).hash # None
  BY NoneAssumption, RoleType, OfferFields, TermsOfType
     DEF NewApproval, ApprovalRow, Granted

LEMMA GrantedRowType ==
    ASSUME NEW row \in ApprovalRow, NEW pct \in Discounts
    PROVE  /\ GrantedRow(row, pct) \in ApprovalRow
           /\ GrantedRow(row, pct).approved # None
           /\ GrantedRow(row, pct).hash # None
  <1> DEFINE t  == TermsOf(row.inquiry, row.offer, pct)
             st == IF pct = row.offer.pct THEN "approved" ELSE "modified"
  <1>1. t \in Terms
    BY TermsOfType DEF ApprovalRow
  <1>2. st \in {"approved", "modified"}
    OBVIOUS
  <1>3. GrantedRow(row, pct) = [row EXCEPT !.status = st, !.approved = pct, !.hash = t]
    BY DEF GrantedRow
  <1> HIDE DEF t, st
  <1>4. [row EXCEPT !.status = st, !.approved = pct, !.hash = t] \in ApprovalRow
    BY <1>1, <1>2 DEF ApprovalRow
  <1>5. /\ [row EXCEPT !.status = st, !.approved = pct, !.hash = t].approved = pct
        /\ [row EXCEPT !.status = st, !.approved = pct, !.hash = t].hash = t
    BY DEF ApprovalRow
  <1>6. QED
    BY <1>1, <1>3, <1>4, <1>5, NoneAssumption

LEMMA NewQuoteType ==
    ASSUME TypeOK, NEW a \in Rows(approval), Granted(approval[a])
    PROVE  NewQuote(a) \in QuoteRow
  <1>1. approval[a] \in ApprovalRow /\ a \in Approvals
    BY DEF TypeOK, Table, Rows
  <1>2. approval[a].approved \in Discounts /\ approval[a].hash \in Terms
    BY <1>1 DEF TypeOK, ApprovalRow
  <1>3. AgreedTermsOf(approval[a]) \in Terms
    BY <1>1, <1>2, TermsOfType DEF AgreedTermsOf, ApprovalRow
  <1>4. QED
    BY <1>1, <1>2, <1>3, TotalOfType DEF NewQuote, QuoteRow, AgreedTermsOf

LEMMA NewInvoiceType ==
    ASSUME NEW o \in Orders, order[o] \in OrderRow
    PROVE  NewInvoice(o) \in InvoiceRow
  <1>1. order[o].terms.pct \in 0 .. 100 /\ order[o].total \in Int
    BY TermsFields DEF OrderRow
  <1>2. [pct |-> order[o].terms.pct, total |-> order[o].total] \in Figures
    BY <1>1 DEF Figures
  <1>3. /\ order[o].terms \in Terms /\ order[o].hash \in Terms
        /\ o \in Orders
    BY DEF OrderRow
  <1>4. QED
    BY <1>1, <1>2, <1>3 DEF NewInvoice, InvoiceRow

(* Voiding or correcting an invoice changes nothing but its row, and leaves*)
(* there what it was generated with.                                       *)
LEMMA InvoiceChange ==
    ASSUME TypeOK, NEW v \in Invoices, InvoiceChanged(v)
    PROVE  /\ v \in Rows(invoice)
           /\ UNCHANGED <<intake, timeouts, ruling, approval, quote, order, worker>>
           /\ UNCHANGED <<status, extracted, fresh, review>>
           /\ \E new \in InvoiceRow :
                 /\ invoice' = [invoice EXCEPT ![v] = new]
                 /\ new.order = invoice[v].order /\ new.terms = invoice[v].terms
                 /\ new.hash = invoice[v].hash /\ new.total = invoice[v].total
                 /\ invoice[v].void => new.void
  <1>1. /\ v \in Rows(invoice)
        /\ UNCHANGED <<intake, timeouts, ruling, approval, quote, order, worker>>
    BY DEF InvoiceChanged, VoidInvoice, CorrectInvoice
  <1>2. invoice[v] \in InvoiceRow
    BY <1>1 DEF Rows, TypeOK, Table
  <1>3. UNCHANGED <<status, extracted, fresh, review>>
    BY <1>1 DEF intake
  <1>4. CASE VoidInvoice(v)
    <2> DEFINE new == [invoice[v] EXCEPT !.void = TRUE]
    <2>1. invoice' = [invoice EXCEPT ![v] = new]
      BY <1>4 DEF VoidInvoice
    <2>2. /\ new \in InvoiceRow /\ new.void
          /\ new.order = invoice[v].order /\ new.terms = invoice[v].terms
          /\ new.hash = invoice[v].hash /\ new.total = invoice[v].total
      BY <1>2 DEF InvoiceRow
    <2> HIDE DEF new
    <2>3. QED
      BY <1>1, <1>3, <2>1, <2>2
  <1>5. ASSUME NEW figures \in Corrections, CorrectInvoice(v, figures)
        PROVE  \E new \in InvoiceRow :
                 /\ invoice' = [invoice EXCEPT ![v] = new]
                 /\ new.order = invoice[v].order /\ new.terms = invoice[v].terms
                 /\ new.hash = invoice[v].hash /\ new.total = invoice[v].total
                 /\ invoice[v].void => new.void
    <2> DEFINE new == [invoice[v] EXCEPT !.billed = figures]
    <2>1. invoice' = [invoice EXCEPT ![v] = new]
      BY <1>5 DEF CorrectInvoice
    <2>2. figures \in Figures
      BY CorrectionsAssumption
    <2>3. /\ new \in InvoiceRow /\ new.void = invoice[v].void
          /\ new.order = invoice[v].order /\ new.terms = invoice[v].terms
          /\ new.hash = invoice[v].hash /\ new.total = invoice[v].total
      BY <1>2, <2>2 DEF InvoiceRow
    <2> HIDE DEF new
    <2>4. QED
      BY <2>1, <2>3
  <1>6. QED
    BY <1>1, <1>3, <1>4, <1>5 DEF InvoiceChanged

(* Writing a row of the right shape into an approval keeps the table typed.*)
LEMMA ApprovalWritten ==
    ASSUME TypeOK, NEW a \in Approvals, NEW row \in ApprovalRow,
           Granted(row) => row.approved # None /\ row.hash # None,
           approval' = [approval EXCEPT ![a] = row]
    PROVE  /\ approval' \in Table(Approvals, ApprovalRow)
           /\ \A b \in Rows(approval') : Granted(approval'[b]) =>
                 approval'[b].approved # None /\ approval'[b].hash # None
  BY DEF TypeOK, Table, Rows

LEMMA ExpireType ==
    ASSUME TypeOK, NEW S \in SUBSET Pending, Expire(S)
    PROVE  TypeOK'
  <1>1. \A a \in S : /\ a \in Approvals
                     /\ [approval[a] EXCEPT !.status = "expired"] \in ApprovalRow
                     /\ ~Granted([approval[a] EXCEPT !.status = "expired"])
    BY DEF Pending, Rows, TypeOK, Table, ApprovalRow, Granted
  <1>2. approval' \in Table(Approvals, ApprovalRow)
    BY <1>1 DEF Expire, TypeOK, Table
  <1>3. \A a \in Rows(approval') : Granted(approval'[a]) =>
            approval'[a].approved # None /\ approval'[a].hash # None
    BY <1>1 DEF Expire, TypeOK, Table, Rows
  <1>4. status' \in [Inquiries -> Statuses]
    BY DEF Expire, TypeOK, Statuses
  <1>5. timeouts' \subseteq Approvals
    BY <1>1 DEF Expire, TypeOK
  <1>6. QED
    BY <1>2, <1>3, <1>4, <1>5 DEF Expire, documents, TypeOK, Table, Rows

LEMMA WriteResultType ==
    ASSUME TypeOK, NEW w \in Workers, worker[w] # None,
           NEW problems \in SUBSET InquiryExceptions, NEW offer \in Offers \union {None},
           WriteResult(w, problems, offer)
    PROVE  TypeOK'
  <1>1. worker[w].inquiry \in Inquiries
    BY DEF TypeOK, Table, Extraction
  <1>2. QED
    BY <1>1 DEF WriteResult, documents, TypeOK, Table, Rows, Statuses

LEMMA NextTypeOK == TypeOK /\ OfferRead /\ [Next]_vars => TypeOK'
  <1> SUFFICES ASSUME TypeOK, OfferRead, [Next]_vars PROVE TypeOK'
    OBVIOUS
  <1>1. ASSUME NEW i \in Inquiries, CreateInquiry(i) PROVE TypeOK'
    BY <1>1 DEF CreateInquiry, documents, TypeOK, Table, Rows, Statuses
  <1>2. ASSUME NEW w \in Workers, NEW i \in Inquiries, StartExtraction(w, i)
        PROVE  TypeOK'
    <2>1. [inquiry |-> i, attempt |-> 1, last |-> "none", done |-> FALSE] \in Extraction
      BY AttemptsAssumption DEF Extraction
    <2>2. worker' \in Table(Workers, Extraction)
      BY <1>2, <2>1 DEF StartExtraction, TypeOK, Table
    <2>3. QED
      BY <1>2, <2>2 DEF StartExtraction, documents, TypeOK, Rows, Statuses
  <1>3. ASSUME NEW w \in Workers, NEW kind \in {"invalid", "unavailable"},
               NEW r \in BOOLEAN, LlmFails(w, kind, r)
        PROVE  TypeOK'
    <2>1. worker[w] \in Extraction
      BY <1>3 DEF LlmFails, TypeOK, Table
    <2>2. worker' \in Table(Workers, Extraction)
      BY <1>3, <2>1, AttemptsAssumption DEF LlmFails, TypeOK, Table, Extraction
    <2>3. QED
      BY <1>3, <2>2 DEF LlmFails, intake, documents, TypeOK, Rows
  <1>4. ASSUME NEW w \in Workers, ExtractionSucceeds(w) PROVE TypeOK'
    <2>1. DataExceptions \subseteq InquiryExceptions
      BY DEF InquiryExceptions
    <2>2. QED
      BY <1>4, <2>1, WriteResultType DEF ExtractionSucceeds
  <1>5. ASSUME NEW w \in Workers, ExtractionGivesUp(w) PROVE TypeOK'
    <2>1. {IF worker[w].last = "unavailable" THEN "llm_unavailable" ELSE "invalid_ai_output"}
            \in SUBSET InquiryExceptions
      BY DEF InquiryExceptions, RETRYABLE_EXCEPTIONS
    <2>2. QED
      BY <1>5, <2>1, WriteResultType DEF ExtractionGivesUp
  <1>6. ASSUME NEW w \in Workers, ExtractionCrashes(w) PROVE TypeOK'
    BY <1>6 DEF ExtractionCrashes, intake, documents, TypeOK, Table, Rows
  <1>7. ASSUME NEW i \in Inquiries, ExtractionGoesStale(i) PROVE TypeOK'
    BY <1>7 DEF ExtractionGoesStale, documents, TypeOK, Table, Rows
  <1>8. ASSUME NEW i \in Inquiries, ReportWorkflowFailure(i) PROVE TypeOK'
    BY <1>8 DEF ReportWorkflowFailure, documents, TypeOK, Table, Rows, InquiryExceptions
  <1>9. ASSUME NEW i \in Inquiries, RunRules(i) PROVE TypeOK'
    <2> DEFINE offer   == extracted[i]
               outcome == Decide(TRUE, offer.quantity, offer.pct, OfferTotal(offer))
    <2>1. outcome \in Outcomes
      BY DecideType
    <2> HIDE DEF outcome
    <2>2. /\ ruling' = [ruling EXCEPT ![i] = outcome]
          /\ status' = [status EXCEPT ![i] = StatusAfterRuling(outcome)]
          /\ \/ /\ review' = [review EXCEPT ![i] = @ \union {"missing_field"}]
                /\ UNCHANGED approval
             \/ /\ outcome # "human_review"
                /\ \E a \in Approvals :
                      approval' = [approval EXCEPT ![a] = NewApproval(i, outcome)]
                /\ UNCHANGED review
          /\ UNCHANGED <<extracted, fresh, timeouts, documents, worker>>
      BY <1>9 DEF RunRules, outcome
    <2>3. StatusAfterRuling(outcome) \in Statuses
      BY DEF StatusAfterRuling, Statuses
    <2>4. CASE UNCHANGED approval /\ review' = [review EXCEPT ![i] = @ \union {"missing_field"}]
      BY <2>1, <2>2, <2>3, <2>4
         DEF documents, TypeOK, Table, Rows, InquiryExceptions, DataExceptions
    <2>5. ASSUME outcome # "human_review", UNCHANGED review, NEW a \in Approvals,
                 approval' = [approval EXCEPT ![a] = NewApproval(i, outcome)]
          PROVE  TypeOK'
      <3>1. extracted[i] \in Offers
        BY <1>9 DEF RunRules, MayDecide, TypeOK, OfferRead
      <3>2. /\ NewApproval(i, outcome) \in ApprovalRow
            /\ Granted(NewApproval(i, outcome)) =>
                  /\ NewApproval(i, outcome).approved # None
                  /\ NewApproval(i, outcome).hash # None
        BY <2>1, <2>5, <3>1, NewApprovalType
      <3>3. /\ approval' \in Table(Approvals, ApprovalRow)
            /\ \A b \in Rows(approval') : Granted(approval'[b]) =>
                  approval'[b].approved # None /\ approval'[b].hash # None
        BY <2>5, <3>2, ApprovalWritten
      <3>4. QED
        BY <2>1, <2>2, <2>3, <2>5, <3>3 DEF documents, TypeOK
    <2>6. QED
      BY <2>2, <2>4, <2>5
  <1>10. ASSUME NEW a \in Approvals, NEW pct \in Discounts, Grant(a, pct) PROVE TypeOK'
    <2>1. approval[a] \in ApprovalRow
      BY <1>10 DEF Grant, Decidable, TypeOK, Table
    <2>2. /\ approval' \in Table(Approvals, ApprovalRow)
          /\ \A b \in Rows(approval') : Granted(approval'[b]) =>
                approval'[b].approved # None /\ approval'[b].hash # None
      BY <1>10, <2>1, GrantedRowType, ApprovalWritten DEF Grant, UpdateApproval
    <2>3. QED
      BY <1>10, <2>2 DEF Grant, documents, TypeOK, Statuses
  <1>11. ASSUME NEW a \in Approvals, Approve(a) PROVE TypeOK'
    <2>1. approval[a].offer \in Offers
      BY <1>11 DEF Approve, Decidable, TypeOK, Table, ApprovalRow
    <2>2. QED
      BY <1>10, <1>11, <2>1, OfferFields DEF Approve
  <1>12. ASSUME NEW a \in Approvals, NEW pct \in Percents, Modify(a, pct) PROVE TypeOK'
    BY <1>10, <1>12 DEF Modify, Discounts
  <1>13. ASSUME NEW a \in Approvals, Reject(a) PROVE TypeOK'
    <2>1. approval[a] \in ApprovalRow
      BY <1>13 DEF Reject, Decidable, TypeOK, Table
    <2>2. /\ [approval[a] EXCEPT !.status = "rejected"] \in ApprovalRow
          /\ ~Granted([approval[a] EXCEPT !.status = "rejected"])
      BY <2>1 DEF ApprovalRow, Granted
    <2>3. /\ approval' \in Table(Approvals, ApprovalRow)
          /\ \A b \in Rows(approval') : Granted(approval'[b]) =>
                approval'[b].approved # None /\ approval'[b].hash # None
      BY <1>13, <2>2, ApprovalWritten DEF Reject, UpdateApproval
    <2>4. QED
      BY <1>13, <2>3 DEF Reject, documents, TypeOK, Statuses
  <1>14. ASSUME NEW a \in Approvals, DecideTooLate(a) PROVE TypeOK'
    <2>1. {a} \in SUBSET Pending
      BY <1>14 DEF DecideTooLate, Pending, Rows, TypeOK, Table
    <2>2. QED
      BY <1>14, <2>1, ExpireType DEF DecideTooLate
  <1>15. ASSUME ExpireDue PROVE TypeOK'
    BY <1>15, ExpireType DEF ExpireDue, Due
  <1>16. ASSUME NEW a \in Approvals, DeadlinePasses(a) PROVE TypeOK'
    <2>1. approval[a] \in ApprovalRow /\ approval[a].status = "pending"
      BY <1>16 DEF DeadlinePasses, Pending, Rows, TypeOK, Table
    <2>2. /\ [approval[a] EXCEPT !.overdue = TRUE] \in ApprovalRow
          /\ ~Granted([approval[a] EXCEPT !.overdue = TRUE])
          /\ approval' = [approval EXCEPT ![a] = [approval[a] EXCEPT !.overdue = TRUE]]
      BY <1>16, <2>1 DEF DeadlinePasses, ApprovalRow, Granted
    <2>3. /\ approval' \in Table(Approvals, ApprovalRow)
          /\ \A b \in Rows(approval') : Granted(approval'[b]) =>
                approval'[b].approved # None /\ approval'[b].hash # None
      BY <2>2, ApprovalWritten
    <2>4. QED
      BY <1>16, <2>3 DEF DeadlinePasses, intake, documents, TypeOK
  <1>17. ASSUME NEW i \in Inquiries, CreateQuote(i) PROVE TypeOK'
    BY <1>17, NewQuoteType DEF CreateQuote, TypeOK, Table, Rows, Statuses
  <1>18. ASSUME NEW q \in Quotes, CreateOrder(q) PROVE TypeOK'
    <2>1. quote[q] \in QuoteRow
      BY <1>18 DEF CreateOrder, Orderable, Rows, TypeOK, Table
    <2>2. NewOrder(q) \in OrderRow
      BY <2>1 DEF NewOrder, OrderRow, QuoteRow
    <2>3. quote' \in Table(Quotes, QuoteRow) /\ order' \in Table(Orders, OrderRow)
      BY <1>18, <2>1, <2>2 DEF CreateOrder, TypeOK, Table, QuoteRow
    <2>4. status' \in [Inquiries -> Statuses]
      BY <1>18 DEF CreateOrder, TypeOK, Statuses
    <2>5. QED
      BY <1>18, <2>3, <2>4 DEF CreateOrder, TypeOK, Rows
  <1>19. ASSUME NEW q \in Quotes, OrderTooLate(q) PROVE TypeOK'
    <2>1. quote[q] \in QuoteRow
      BY <1>19 DEF OrderTooLate, Orderable, Rows, TypeOK, Table
    <2>2. QED
      BY <1>19, <2>1 DEF OrderTooLate, intake, TypeOK, Table, QuoteRow, Rows
  <1>20. ASSUME NEW q \in Quotes, QuoteLapses(q) PROVE TypeOK'
    <2>1. quote[q] \in QuoteRow
      BY <1>20 DEF QuoteLapses, Rows, TypeOK, Table
    <2>2. QED
      BY <1>20, <2>1 DEF QuoteLapses, intake, TypeOK, Table, QuoteRow, Rows
  <1>21. ASSUME NEW o \in Orders, CreateInvoice(o) PROVE TypeOK'
    <2>1. order[o] \in OrderRow
      BY <1>21 DEF CreateInvoice, Billable, Rows, TypeOK, Table
    <2>2. NewInvoice(o) \in InvoiceRow
      BY <2>1, NewInvoiceType
    <2>3. QED
      BY <1>21, <2>2 DEF CreateInvoice, TypeOK, Table, Rows, Statuses
  <1>22. ASSUME NEW v \in Invoices, InvoiceChanged(v) PROVE TypeOK'
    <2>1. PICK new \in InvoiceRow : invoice' = [invoice EXCEPT ![v] = new]
      BY <1>22, InvoiceChange
    <2>2. UNCHANGED <<intake, timeouts, ruling, approval, quote, order, worker>>
      BY <1>22, InvoiceChange
    <2>3. QED
      BY <2>1, <2>2 DEF intake, TypeOK, Table, Rows
  <1>23. CASE UNCHANGED vars
    BY <1>23 DEF vars, TypeOK, Table, Rows
  <1>24. QED
    BY <1>1, <1>2, <1>3, <1>4, <1>5, <1>6, <1>7, <1>8, <1>9, <1>11, <1>12, <1>13,
       <1>14, <1>15, <1>16, <1>17, <1>18, <1>19, <1>20, <1>21, <1>22, <1>23 DEF Next, InvoiceChanged

(* Only a result without problems makes an inquiry 'extracted'. *)
LEMMA NextOfferRead == TypeOK /\ OfferRead /\ [Next]_vars => OfferRead'
  <1> SUFFICES ASSUME TypeOK, OfferRead, [Next]_vars PROVE OfferRead'
    OBVIOUS
  <1>1. ASSUME NEW w \in Workers, ExtractionSucceeds(w) PROVE OfferRead'
    <2>1. worker[w].inquiry \in Inquiries
      BY <1>1 DEF ExtractionSucceeds, TypeOK, Table, Extraction
    <2>2. QED
      BY <1>1, <2>1, NoneAssumption DEF ExtractionSucceeds, WriteResult, OfferRead, TypeOK
  <1>2. ASSUME NEW w \in Workers, ExtractionGivesUp(w) PROVE OfferRead'
    BY <1>2 DEF ExtractionGivesUp, WriteResult, OfferRead, TypeOK
  <1>3. CASE /\ UNCHANGED extracted
             /\ \A i \in Inquiries : status'[i] = "extracted" => status[i] = "extracted"
    BY <1>3 DEF OfferRead
  <1>4. ASSUME NEW i \in Inquiries, CreateInquiry(i) \/ RunRules(i) \/ CreateQuote(i)
                 \/ ExtractionGoesStale(i) \/ ReportWorkflowFailure(i)
        PROVE  OfferRead'
    BY <1>3, <1>4 DEF CreateInquiry, RunRules, StatusAfterRuling, CreateQuote,
                      ExtractionGoesStale, ReportWorkflowFailure, TypeOK
  <1>5. ASSUME NEW w \in Workers, (\E i \in Inquiries : StartExtraction(w, i))
                 \/ ExtractionCrashes(w)
                 \/ \E kind \in {"invalid", "unavailable"}, r \in BOOLEAN : LlmFails(w, kind, r)
        PROVE  OfferRead'
    BY <1>3, <1>5 DEF StartExtraction, ExtractionCrashes, LlmFails, intake, TypeOK
  <1>6. ASSUME NEW a \in Approvals, Approve(a) \/ (\E pct \in Percents : Modify(a, pct))
                 \/ Reject(a) \/ DeadlinePasses(a)
        PROVE  OfferRead'
    BY <1>3, <1>6 DEF Approve, Modify, Grant, Reject, DeadlinePasses, intake, TypeOK
  <1>7. ASSUME NEW S, Expire(S) PROVE OfferRead'
    BY <1>3, <1>7 DEF Expire
  <1>8. ASSUME NEW q \in Quotes, CreateOrder(q) \/ OrderTooLate(q) \/ QuoteLapses(q)
        PROVE  OfferRead'
    BY <1>3, <1>8 DEF CreateOrder, OrderTooLate, QuoteLapses, intake, TypeOK
  <1>9. ASSUME NEW o \in Orders, CreateInvoice(o) PROVE OfferRead'
    BY <1>3, <1>9 DEF CreateInvoice, TypeOK
  <1>10. ASSUME NEW v \in Invoices, InvoiceChanged(v) PROVE OfferRead'
    BY <1>3, <1>10, InvoiceChange DEF intake
  <1>11. CASE UNCHANGED vars
    BY <1>3, <1>11 DEF vars
  <1>12. QED
    BY <1>1, <1>2, <1>4, <1>5, <1>6, <1>7, <1>8, <1>9, <1>10, <1>11
       DEF Next, InvoiceChanged, ExpireDue, DecideTooLate

(* Type correctness of every reachable state: rows keep the shape their    *)
(* tables declare, and no approval is granted without its final terms.     *)
THEOREM TypeCorrect == Spec => []TypeOK
  <1>1. Init => TypeOK /\ OfferRead
    BY InitTypeOK DEF Init, OfferRead
  <1>2. QED
    BY <1>1, NextTypeOK, NextOfferRead, PTL DEF Spec

-----------------------------------------------------------------------------
(* The safety of the chain.  Documents rest on granted approvals, and a    *)
(* granted approval is only safe because of how its row came about: the    *)
(* ruling that created it is still the latest one, and it was pending when *)
(* a person answered.  ChainInvariant says so; it is inductive.            *)

ApprovalsSound == /\ OneApprovalPerInquiry /\ HashesAgree /\ RulingsObeyed
                  /\ RulingExplainsApproval /\ AuthorityRespected

(* What an answer, or a missing one, may make of a pending row *)
Answered(row, new) ==
    /\ new.inquiry = row.inquiry /\ new.role = row.role /\ new.offer = row.offer
    /\ Granted(new) => /\ new.approved <= row.offer.pct
                       /\ MayGrant(row.role, new.approved)
                       /\ new.hash = AgreedTermsOf(new)

PendingStep ==
    /\ UNCHANGED ruling
    /\ \A a \in Approvals :
          \/ approval'[a] = approval[a]
          \/ a \in Pending /\ approval'[a] \in ApprovalRow
                           /\ Answered(approval[a], approval'[a])

LEMMA GrantAnswers ==
    ASSUME NEW row \in ApprovalRow, NEW pct \in Discounts,
           pct <= row.offer.pct, MayGrant(row.role, pct)
    PROVE  Answered(row, GrantedRow(row, pct))
  BY DEF Answered, GrantedRow, AgreedTermsOf, TermsOf, ApprovalRow

(* A person may only answer, and the sweep only expire, what is pending.   *)
LEMMA PendingActions ==
    ASSUME TypeOK, NEW a \in Approvals
    PROVE  /\ \A pct \in Discounts : Grant(a, pct) => PendingStep
           /\ Reject(a) => PendingStep
           /\ DeadlinePasses(a) => PendingStep
           /\ \A S \in SUBSET Pending : Expire(S) => PendingStep
  <1>1. ASSUME NEW pct \in Discounts, Grant(a, pct) PROVE PendingStep
    <2>1. approval[a] \in ApprovalRow /\ a \in Pending
      BY <1>1 DEF Grant, Decidable, Pending, Rows, TypeOK, Table
    <2>2. approval'[a] = GrantedRow(approval[a], pct)
      BY <1>1 DEF Grant, UpdateApproval, TypeOK, Table
    <2>3. Answered(approval[a], approval'[a]) /\ approval'[a] \in ApprovalRow
      BY <1>1, <2>1, <2>2, GrantAnswers, GrantedRowType DEF Grant
    <2>4. \A b \in Approvals \ {a} : approval'[b] = approval[b]
      BY <1>1 DEF Grant, UpdateApproval, TypeOK, Table
    <2>5. QED
      BY <1>1, <2>1, <2>3, <2>4 DEF PendingStep, Grant
  <1>2. ASSUME Reject(a) PROVE PendingStep
    <2>1. approval[a] \in ApprovalRow /\ a \in Pending
      BY <1>2 DEF Reject, Decidable, Pending, Rows, TypeOK, Table
    <2>2. approval' = [approval EXCEPT ![a] = [approval[a] EXCEPT !.status = "rejected"]]
      BY <1>2 DEF Reject, UpdateApproval
    <2>3. approval'[a] \in ApprovalRow /\ Answered(approval[a], approval'[a])
      BY <2>1, <2>2 DEF Answered, Granted, ApprovalRow, TypeOK, Table
    <2>4. QED
      BY <1>2, <2>1, <2>2, <2>3 DEF PendingStep, Reject, TypeOK, Table
  <1>3. ASSUME DeadlinePasses(a) PROVE PendingStep
    <2>1. approval[a] \in ApprovalRow /\ a \in Pending /\ approval[a].status = "pending"
      BY <1>3 DEF DeadlinePasses, Pending, Rows, TypeOK, Table
    <2>2. approval' = [approval EXCEPT ![a] = [approval[a] EXCEPT !.overdue = TRUE]]
      BY <1>3, <2>1 DEF DeadlinePasses
    <2>3. approval'[a] \in ApprovalRow /\ Answered(approval[a], approval'[a])
      BY <2>1, <2>2 DEF Answered, Granted, ApprovalRow, TypeOK, Table
    <2>4. QED
      BY <1>3, <2>1, <2>2, <2>3 DEF PendingStep, DeadlinePasses, TypeOK, Table
  <1>4. ASSUME NEW S \in SUBSET Pending, Expire(S) PROVE PendingStep
    <2>1. ASSUME NEW b \in S
          PROVE  /\ b \in Approvals
                 /\ approval'[b] \in ApprovalRow /\ Answered(approval[b], approval'[b])
      <3>1. approval[b] \in ApprovalRow /\ b \in Approvals
        BY DEF Pending, Rows, TypeOK, Table
      <3>2. approval'[b] = [approval[b] EXCEPT !.status = "expired"]
        BY <1>4, <3>1 DEF Expire
      <3>3. QED
        BY <3>1, <3>2 DEF Answered, Granted, ApprovalRow
    <2>2. \A b \in Approvals \ S : approval'[b] = approval[b]
      BY <1>4 DEF Expire
    <2>3. UNCHANGED ruling
      BY <1>4 DEF Expire
    <2>4. QED
      BY <2>1, <2>2, <2>3 DEF PendingStep
  <1>5. QED
    BY <1>1, <1>2, <1>3, <1>4

(* Two ways to touch the approvals: a first ruling, or a pending row.      *)
LEMMA NextApproval ==
    ASSUME TypeOK, [Next]_vars
    PROVE  PendingStep \/ \E i \in Inquiries : RunRules(i)
  <1>1. UNCHANGED <<approval, ruling>> => PendingStep
    BY DEF PendingStep
  <1>2. ASSUME NEW i \in Inquiries,
               \/ CreateInquiry(i) \/ (\E w \in Workers : StartExtraction(w, i))
               \/ ExtractionGoesStale(i) \/ ReportWorkflowFailure(i) \/ CreateQuote(i)
        PROVE  PendingStep
    BY <1>1, <1>2 DEF CreateInquiry, StartExtraction, ExtractionGoesStale, CreateQuote,
                      ReportWorkflowFailure
  <1>3. ASSUME NEW w \in Workers, NEW kind, NEW r, LlmFails(w, kind, r)
        PROVE  PendingStep
    BY <1>1, <1>3 DEF LlmFails
  <1>4. ASSUME NEW a \in Approvals, Approve(a) PROVE PendingStep
    <2>1. approval[a].offer.pct \in Discounts
      BY <1>4, OfferFields DEF Approve, Decidable, TypeOK, Table, ApprovalRow
    <2>2. QED
      BY <1>4, <2>1, PendingActions DEF Approve
  <1>5. ASSUME NEW a \in Approvals, NEW pct \in Percents, Modify(a, pct) PROVE PendingStep
    BY <1>5, PendingActions DEF Modify, Discounts
  <1>6. ASSUME NEW a \in Approvals, Reject(a) \/ DeadlinePasses(a) PROVE PendingStep
    BY <1>6, PendingActions
  <1>7. ASSUME NEW a \in Approvals, DecideTooLate(a) PROVE PendingStep
    <2>1. {a} \in SUBSET Pending
      BY <1>7 DEF DecideTooLate, Pending, Rows, TypeOK, Table
    <2>2. QED
      BY <1>7, <2>1, PendingActions DEF DecideTooLate
  <1>8. ASSUME ExpireDue PROVE PendingStep
    <2>1. PICK S \in SUBSET Pending : Expire(S) /\ S # {}
      BY <1>8 DEF ExpireDue, Due
    <2>2. PICK a \in Approvals : a \in S
      BY <2>1 DEF Pending, Rows, TypeOK, Table
    <2>3. QED
      BY <2>1, <2>2, PendingActions
  <1>9. ASSUME NEW w \in Workers,
               ExtractionSucceeds(w) \/ ExtractionGivesUp(w) \/ ExtractionCrashes(w)
        PROVE  PendingStep
    BY <1>1, <1>9 DEF ExtractionSucceeds, ExtractionGivesUp, ExtractionCrashes, WriteResult
  <1>10. ASSUME NEW q \in Quotes, CreateOrder(q) \/ OrderTooLate(q) \/ QuoteLapses(q)
         PROVE  PendingStep
    BY <1>1, <1>10 DEF CreateOrder, OrderTooLate, QuoteLapses
  <1>11. ASSUME (\E o \in Orders : CreateInvoice(o)) \/ (\E v \in Invoices : InvoiceChanged(v))
         PROVE  PendingStep
    BY <1>1, <1>11, InvoiceChange DEF CreateInvoice
  <1>12. CASE UNCHANGED vars
    BY <1>1, <1>12 DEF vars
  <1>13. QED
    BY <1>2, <1>3, <1>4, <1>5, <1>6, <1>7, <1>8, <1>9, <1>10, <1>11, <1>12 DEF Next, InvoiceChanged

(* Before RunRules writes a row there is none for the inquiry; what it     *)
(* writes is the ruling and the row that the ruling asks for.              *)
LEMMA RunRulesWrites ==
    ASSUME TypeOK, OfferRead, NEW i \in Inquiries, RunRules(i)
    PROVE  \E outcome \in Outcomes :
             /\ extracted[i] \in Offers
             /\ outcome = Decide(TRUE, extracted[i].quantity, extracted[i].pct,
                                 OfferTotal(extracted[i]))
             /\ ruling' = [ruling EXCEPT ![i] = outcome]
             /\ \A a \in Rows(approval) : approval[a].inquiry # i
             /\ \/ UNCHANGED approval
                \/ /\ outcome # "human_review"
                   /\ \E a \in Approvals \ Rows(approval) :
                         approval' = [approval EXCEPT ![a] = NewApproval(i, outcome)]
  <1> DEFINE outcome == Decide(TRUE, extracted[i].quantity, extracted[i].pct,
                               OfferTotal(extracted[i]))
  <1>1. outcome \in Outcomes
    BY DecideType
  <1>2. extracted[i] \in Offers
    BY DEF RunRules, MayDecide, OfferRead, TypeOK
  <1> HIDE DEF outcome
  <1>3. /\ ruling' = [ruling EXCEPT ![i] = outcome]
        /\ \/ UNCHANGED approval
           \/ /\ outcome # "human_review"
              /\ \E a \in Approvals \ Rows(approval) :
                    approval' = [approval EXCEPT ![a] = NewApproval(i, outcome)]
    BY DEF RunRules, outcome
  <1>4. QED
    BY <1>1, <1>2, <1>3 DEF RunRules, MayDecide, outcome

(* A request the rules send to a person can be priced, and is the          *)
(* manager's when it is large.                                             *)
LEMMA DecideGuards ==
    ASSUME NEW quantity \in Nat, NEW pct \in Nat, NEW total \in Int,
           NEW outcome, outcome = Decide(TRUE, quantity, pct, total),
           outcome # "human_review", outcome # "reject"
    PROVE  /\ quantity <= MAX_QUANTITY
           /\ RequiredRole(outcome) = "manager" \/ total <= MANAGER_REVIEW_TOTAL
           /\ outcome = "auto_approve" => MayGrant("system", pct)
  BY DEF Decide, OutcomeByDiscount, RequiredRole, MayGrant, ROLE_MAX_PCT, MAX_QUANTITY,
         MANAGER_REVIEW_TOTAL, AUTO_APPROVE_MAX_PCT, SALESPERSON_MAX_PCT, POLICY_MAX_PCT

(* A row in a table after a step of pending rows has an earlier version    *)
(* with the same inquiry, role and offer.                                  *)
LEMMA PendingStepRows ==
    ASSUME TypeOK, TypeOK', PendingStep, NEW a \in Rows(approval')
    PROVE  /\ a \in Rows(approval) /\ approval[a] \in ApprovalRow /\ a \in Approvals
           /\ approval'[a].inquiry = approval[a].inquiry
           /\ approval'[a].role = approval[a].role
           /\ approval'[a].offer = approval[a].offer
           /\ \/ approval'[a] = approval[a]
              \/ approval[a].status = "pending" /\ Answered(approval[a], approval'[a])
  <1>1. a \in Approvals /\ DOMAIN approval = Approvals
    BY DEF TypeOK, Table, Rows
  <1>2. approval'[a] = approval[a] \/ (a \in Pending /\ Answered(approval[a], approval'[a]))
    BY <1>1 DEF PendingStep
  <1>3. a \in Rows(approval)
    BY <1>1, <1>2 DEF Rows, Pending
  <1>4. QED
    BY <1>1, <1>2, <1>3 DEF Rows, Pending, Answered, TypeOK, Table

LEMMA PendingStepSound ==
    ASSUME TypeOK, TypeOK', ApprovalsSound, PendingStep
    PROVE  ApprovalsSound'
  <1>1. OneApprovalPerInquiry'
    BY PendingStepRows DEF OneApprovalPerInquiry, ApprovalsSound
  <1>2. HashesAgree'
    BY PendingStepRows DEF HashesAgree, ApprovalsSound, Answered, AgreedTermsOf
  <1>3. RulingExplainsApproval'
    BY PendingStepRows DEF RulingExplainsApproval, ApprovalsSound, PendingStep
  <1>4. RulingsObeyed'
    <2> SUFFICES ASSUME NEW a \in Rows(approval')
                 PROVE  /\ ruling[approval[a].inquiry] # "human_review"
                        /\ ruling[approval[a].inquiry] = "reject"
                              => approval'[a].status = "rejected"
                        /\ approval'[a].status = "pending"
                              => ruling[approval[a].inquiry] # "auto_approve"
      BY PendingStepRows DEF RulingsObeyed, PendingStep
    <2>1. /\ ruling[approval[a].inquiry] # "human_review"
          /\ ruling[approval[a].inquiry] = "reject" => approval[a].status = "rejected"
          /\ approval[a].status = "pending" => ruling[approval[a].inquiry] # "auto_approve"
      BY PendingStepRows DEF RulingsObeyed, ApprovalsSound
    <2>2. QED
      BY <2>1, PendingStepRows
  <1>5. AuthorityRespected'
    <2> SUFFICES ASSUME NEW a \in Rows(approval'), Granted(approval'[a])
                 PROVE  /\ approval'[a].approved <= approval[a].offer.pct
                        /\ MayGrant(approval[a].role, approval'[a].approved)
                        /\ approval[a].offer.quantity <= MAX_QUANTITY
                        /\ \/ approval[a].role = "manager"
                           \/ OfferTotal(approval[a].offer) <= MANAGER_REVIEW_TOTAL
      BY PendingStepRows DEF AuthorityRespected
    <2>1. CASE approval'[a] = approval[a]
      BY <2>1, PendingStepRows DEF AuthorityRespected, ApprovalsSound
    <2>2. CASE approval[a].status = "pending" /\ Answered(approval[a], approval'[a])
      <3> DEFINE offer == approval[a].offer
                 outcome == ruling[approval[a].inquiry]
      <3>1. offer \in Offers
        BY PendingStepRows DEF ApprovalRow
      <3>2. /\ outcome = Decide(TRUE, offer.quantity, offer.pct, OfferTotal(offer))
            /\ approval[a].role = RequiredRole(outcome)
            /\ outcome # "human_review" /\ outcome # "reject"
        BY <2>2, PendingStepRows DEF ApprovalsSound, RulingExplainsApproval, RulingsObeyed
      <3>3. offer.quantity \in Nat /\ offer.pct \in Nat /\ OfferTotal(offer) \in Int
        BY <3>1, PricedOffer
      <3> HIDE DEF offer, outcome
      <3>4. /\ offer.quantity <= MAX_QUANTITY
            /\ RequiredRole(outcome) = "manager" \/ OfferTotal(offer) <= MANAGER_REVIEW_TOTAL
        BY <3>2, <3>3, DecideGuards
      <3>5. QED
        BY <2>2, <3>2, <3>4 DEF Answered, offer
    <2>3. QED
      BY <2>1, <2>2, PendingStepRows
  <1>6. QED
    BY <1>1, <1>2, <1>3, <1>4, <1>5 DEF ApprovalsSound

(* The row a ruling opens *)
OpenedBy(row, i, outcome) ==
    /\ row.inquiry = i /\ row.offer = extracted[i]
    /\ row.role = RequiredRole(outcome)
    /\ outcome = "reject" => row.status = "rejected"
    /\ row.status = "pending" => outcome # "auto_approve"
    /\ Granted(row) => /\ row.hash = AgreedTermsOf(row)
                       /\ row.approved <= row.offer.pct
                       /\ MayGrant(row.role, row.approved)
                       /\ row.offer.quantity <= MAX_QUANTITY
                       /\ OfferTotal(row.offer) <= MANAGER_REVIEW_TOTAL

LEMMA NewApprovalSound ==
    ASSUME NEW i \in Inquiries, extracted[i] \in Offers,
           NEW outcome \in Outcomes \ {"human_review"},
           outcome = Decide(TRUE, extracted[i].quantity, extracted[i].pct,
                            OfferTotal(extracted[i]))
    PROVE  OpenedBy(NewApproval(i, outcome), i, outcome)
  <1> DEFINE row   == NewApproval(i, outcome)
             offer == extracted[i]
  <1>1. /\ row.inquiry = i /\ row.offer = offer
        /\ row.role = RequiredRole(outcome)
        /\ outcome = "reject" => row.status = "rejected"
        /\ row.status = "pending" => outcome # "auto_approve"
    BY DEF NewApproval
  <1>2. ASSUME Granted(row)
        PROVE  /\ outcome = "auto_approve"
               /\ row.approved = offer.pct
               /\ row.hash = AgreedTermsOf(row)
    BY <1>2 DEF NewApproval, AgreedTermsOf, Granted
  <1>3. offer.quantity \in Nat /\ offer.pct \in Nat /\ OfferTotal(offer) \in Int
    BY PricedOffer
  <1>4. ASSUME outcome = "auto_approve"
        PROVE  /\ offer.quantity <= MAX_QUANTITY
               /\ RequiredRole(outcome) = "system"
               /\ OfferTotal(offer) <= MANAGER_REVIEW_TOTAL
               /\ MayGrant("system", offer.pct)
    <2>1. RequiredRole(outcome) = "system"
      BY <1>4 DEF RequiredRole
    <2>2. QED
      BY <1>3, <1>4, <2>1, DecideGuards
  <1>5. offer.pct <= offer.pct
    BY <1>3
  <1> HIDE DEF row, offer
  <1>6. Granted(row) => /\ row.hash = AgreedTermsOf(row)
                        /\ row.approved <= row.offer.pct
                        /\ MayGrant(row.role, row.approved)
                        /\ row.offer.quantity <= MAX_QUANTITY
                        /\ OfferTotal(row.offer) <= MANAGER_REVIEW_TOTAL
    BY <1>1, <1>2, <1>4, <1>5, Zenon
  <1>7. OpenedBy(row, i, outcome)
    BY <1>1, <1>6 DEF OpenedBy, offer
  <1>8. QED
    BY <1>7 DEF row

LEMMA RunRulesSound ==
    ASSUME TypeOK, TypeOK', OfferRead, ApprovalsSound,
           NEW i \in Inquiries, RunRules(i)
    PROVE  ApprovalsSound'
  <1>1. PICK outcome \in Outcomes :
             /\ extracted[i] \in Offers
             /\ outcome = Decide(TRUE, extracted[i].quantity, extracted[i].pct,
                                 OfferTotal(extracted[i]))
             /\ ruling' = [ruling EXCEPT ![i] = outcome]
             /\ \A a \in Rows(approval) : approval[a].inquiry # i
             /\ \/ UNCHANGED approval
                \/ /\ outcome # "human_review"
                   /\ \E a \in Approvals \ Rows(approval) :
                         approval' = [approval EXCEPT ![a] = NewApproval(i, outcome)]
    BY RunRulesWrites
  <1>2. ruling'[i] = outcome /\ \A j \in Inquiries \ {i} : ruling'[j] = ruling[j]
    BY <1>1 DEF TypeOK
  <1>3. \A a \in Rows(approval) : /\ approval[a].inquiry \in Inquiries \ {i}
                                  /\ ruling'[approval[a].inquiry] = ruling[approval[a].inquiry]
    BY <1>1, <1>2 DEF TypeOK, Table, Rows, ApprovalRow
  <1>4. CASE UNCHANGED approval
    BY <1>3, <1>4 DEF ApprovalsSound, OneApprovalPerInquiry, HashesAgree, RulingsObeyed,
                      RulingExplainsApproval, AuthorityRespected, Rows
  <1>5. ASSUME outcome # "human_review", NEW a \in Approvals \ Rows(approval),
               approval' = [approval EXCEPT ![a] = NewApproval(i, outcome)]
        PROVE  ApprovalsSound'
    <2> DEFINE row == approval'[a]
    <2>1. row = NewApproval(i, outcome)
      BY <1>5 DEF TypeOK, Table
    <2>2. \A b \in Rows(approval') : b # a => b \in Rows(approval) /\ approval'[b] = approval[b]
      <3>1. /\ DOMAIN approval = Approvals /\ DOMAIN approval' = Approvals
            /\ \A b \in Approvals \ {a} : approval'[b] = approval[b]
        BY <1>5 DEF TypeOK, Table
      <3>2. QED
        BY <3>1 DEF Rows
    <2>3. OpenedBy(row, i, outcome)
      <3>1. OpenedBy(NewApproval(i, outcome), i, outcome)
        BY <1>1, <1>5, NewApprovalSound
      <3>2. QED
        BY <2>1, <3>1
    <2>4. ruling'[row.inquiry] = outcome
      BY <1>2, <2>3 DEF OpenedBy
    <2>5. \A b \in Rows(approval') : b = a => approval'[b] = row
      OBVIOUS
    <2> HIDE DEF row
    <2>6. OneApprovalPerInquiry'
      BY <1>1, <2>2, <2>3, <2>5 DEF OneApprovalPerInquiry, ApprovalsSound, OpenedBy
    <2>7. HashesAgree'
      BY <2>2, <2>3, <2>5 DEF HashesAgree, ApprovalsSound, OpenedBy
    <2>8. RulingsObeyed'
      <3>1. /\ outcome # "human_review"
            /\ outcome = "reject" => row.status = "rejected"
            /\ row.status = "pending" => outcome # "auto_approve"
        BY <1>5, <2>3 DEF OpenedBy
      <3>2. ASSUME NEW b \in Rows(approval), approval'[b] = approval[b]
            PROVE  LET out == ruling'[approval'[b].inquiry] IN
                   /\ out # "human_review"
                   /\ out = "reject" => approval'[b].status = "rejected"
                   /\ approval'[b].status = "pending" => out # "auto_approve"
        BY <1>3, <3>2 DEF RulingsObeyed, ApprovalsSound
      <3>3. QED
        BY <2>2, <2>4, <2>5, <3>1, <3>2 DEF RulingsObeyed
    <2>9. RulingExplainsApproval'
      <3>1. ruling'[row.inquiry] = Decide(TRUE, row.offer.quantity, row.offer.pct,
                                          OfferTotal(row.offer))
        BY <1>1, <2>3, <2>4 DEF OpenedBy
      <3>2. row.role = RequiredRole(ruling'[row.inquiry])
        BY <2>3, <2>4 DEF OpenedBy
      <3>3. QED
        BY <1>3, <2>2, <2>5, <3>1, <3>2 DEF RulingExplainsApproval, ApprovalsSound
    <2>10. AuthorityRespected'
      BY <2>2, <2>3, <2>5 DEF AuthorityRespected, ApprovalsSound, OpenedBy
    <2>11. QED
      BY <2>6, <2>7, <2>8, <2>9, <2>10 DEF ApprovalsSound
  <1>6. QED
    BY <1>1, <1>4, <1>5

LEMMA InitApprovalsSound == Init => ApprovalsSound
  BY DEF Init, ApprovalsSound, OneApprovalPerInquiry, HashesAgree, RulingsObeyed,
         RulingExplainsApproval, AuthorityRespected, Rows

LEMMA NextApprovalsSound ==
    TypeOK /\ TypeOK' /\ OfferRead /\ ApprovalsSound /\ [Next]_vars => ApprovalsSound'
  BY NextApproval, PendingStepSound, RunRulesSound

-----------------------------------------------------------------------------
(* Approved = executed: no step disturbs a granted approval, and each      *)
(* document copies the terms of the one before it.                         *)
LEMMA GrantedKept ==
    ASSUME TypeOK, TypeOK', OfferRead, [Next]_vars,
           NEW a \in Rows(approval), Granted(approval[a])
    PROVE  approval'[a] = approval[a] /\ a \in Rows(approval')
  <1>1. a \in Approvals /\ a \notin Pending /\ approval[a] # None
    BY DEF TypeOK, Table, Rows, Pending, Granted
  <1>2. CASE PendingStep
    BY <1>1, <1>2 DEF PendingStep, Rows, TypeOK, Table
  <1>3. ASSUME NEW i \in Inquiries, RunRules(i) PROVE approval'[a] = approval[a]
    BY <1>1, <1>3, RunRulesWrites DEF TypeOK, Table
  <1>4. approval'[a] = approval[a]
    BY <1>2, <1>3, NextApproval
  <1>5. QED
    BY <1>1, <1>4 DEF Rows, TypeOK, Table

(* The three links of ExecutedAsApproved, each about one row *)
QuoteSound(q) ==
    /\ quote[q].approval \in Rows(approval)
    /\ Granted(QuotedApproval(q))
    /\ quote[q].terms = AgreedTermsOf(QuotedApproval(q))
    /\ quote[q].hash  = quote[q].terms
    /\ quote[q].total = TotalOf(quote[q].terms)
OrderSound(o) ==
    /\ order[o].quote \in Rows(quote)
    /\ quote[order[o].quote].status = "accepted"
    /\ order[o].terms = quote[order[o].quote].terms
    /\ order[o].hash  = quote[order[o].quote].hash
    /\ order[o].total = quote[order[o].quote].total
InvoiceSound(v) ==
    /\ invoice[v].order \in Rows(order)
    /\ invoice[v].terms = order[invoice[v].order].terms
    /\ invoice[v].hash  = order[invoice[v].order].hash
    /\ invoice[v].total = order[invoice[v].order].total

LEMMA DocumentsByRow ==
    ExecutedAsApproved <=> /\ \A q \in Rows(quote) : QuoteSound(q)
                           /\ \A o \in Rows(order) : OrderSound(o)
                           /\ \A v \in Rows(invoice) : InvoiceSound(v)
  BY DEF ExecutedAsApproved, QuoteSound, OrderSound, InvoiceSound

(* A quote whose row is not touched stays sound.                           *)
LEMMA QuoteKept ==
    ASSUME TypeOK, TypeOK', OfferRead, [Next]_vars,
           NEW q \in Rows(quote), QuoteSound(q),
           /\ quote'[q].approval = quote[q].approval
           /\ quote'[q].terms = quote[q].terms
           /\ quote'[q].hash  = quote[q].hash
           /\ quote'[q].total = quote[q].total
    PROVE  QuoteSound(q)'
  <1>1. /\ approval'[quote[q].approval] = approval[quote[q].approval]
        /\ quote[q].approval \in Rows(approval')
    BY GrantedKept DEF QuoteSound, QuotedApproval
  <1>2. QED
    BY <1>1 DEF QuoteSound, QuotedApproval

LEMMA OrderKept ==
    ASSUME NEW o \in Rows(order), OrderSound(o), order'[o] = order[o],
           order[o].quote \in Rows(quote'), quote'[order[o].quote] = quote[order[o].quote]
    PROVE  OrderSound(o)'
  BY DEF OrderSound

LEMMA InvoiceKept ==
    ASSUME NEW v \in Rows(invoice), InvoiceSound(v), invoice'[v] = invoice[v],
           invoice[v].order \in Rows(order'), order'[invoice[v].order] = order[invoice[v].order]
    PROVE  InvoiceSound(v)'
  BY DEF InvoiceSound

(* The steps that write documents; every other leaves them alone.          *)
LEMMA DocumentSteps ==
    ASSUME [Next]_vars
    PROVE  \/ UNCHANGED documents
           \/ \E i \in Inquiries : CreateQuote(i)
           \/ \E q \in Quotes : CreateOrder(q) \/ OrderTooLate(q) \/ QuoteLapses(q)
           \/ \E o \in Orders : CreateInvoice(o)
           \/ \E v \in Invoices : InvoiceChanged(v)
  <1>1. ASSUME NEW i \in Inquiries,
               \/ CreateInquiry(i) \/ (\E w \in Workers : StartExtraction(w, i))
               \/ ExtractionGoesStale(i) \/ ReportWorkflowFailure(i) \/ RunRules(i)
        PROVE  UNCHANGED documents
    BY <1>1 DEF CreateInquiry, StartExtraction, ExtractionGoesStale, RunRules,
                ReportWorkflowFailure, documents
  <1>2. ASSUME NEW w \in Workers,
               \/ ExtractionSucceeds(w) \/ ExtractionGivesUp(w) \/ ExtractionCrashes(w)
               \/ \E kind \in {"invalid", "unavailable"}, r \in BOOLEAN : LlmFails(w, kind, r)
        PROVE  UNCHANGED documents
    BY <1>2 DEF ExtractionSucceeds, ExtractionGivesUp, ExtractionCrashes, WriteResult,
                LlmFails, documents
  <1>3. ASSUME NEW a \in Approvals,
               \/ Approve(a) \/ (\E pct \in Percents : Modify(a, pct)) \/ Reject(a)
               \/ DecideTooLate(a) \/ DeadlinePasses(a)
        PROVE  UNCHANGED documents
    BY <1>3 DEF Approve, Modify, Grant, Reject, DecideTooLate, Expire, DeadlinePasses,
                documents
  <1>4. ExpireDue => UNCHANGED documents
    BY DEF ExpireDue, Expire, documents
  <1>5. UNCHANGED vars => UNCHANGED documents
    BY DEF vars, documents
  <1>6. QED
    BY <1>1, <1>2, <1>3, <1>4, <1>5 DEF Next, InvoiceChanged

LEMMA NextExecuted ==
    ASSUME TypeOK, TypeOK', OfferRead, HashesAgree, ExecutedAsApproved, [Next]_vars
    PROVE  ExecutedAsApproved'
  <1>1. /\ \A q \in Rows(quote) : QuoteSound(q)
        /\ \A o \in Rows(order) : OrderSound(o)
        /\ \A v \in Rows(invoice) : InvoiceSound(v)
    BY DocumentsByRow
  <1> DEFINE Goal == ExecutedAsApproved'
  <1>2. Goal <=> /\ \A q \in Rows(quote') : QuoteSound(q)'
                 /\ \A o \in Rows(order') : OrderSound(o)'
                 /\ \A v \in Rows(invoice') : InvoiceSound(v)'
    BY DocumentsByRow DEF ExecutedAsApproved, QuoteSound, OrderSound, InvoiceSound
  <1> HIDE DEF Goal
  <1>3. DOMAIN quote = Quotes /\ DOMAIN order = Orders /\ DOMAIN invoice = Invoices
    BY DEF TypeOK, Table
  <1>4. CASE UNCHANGED documents
    <2>1. \A q \in Rows(quote') : QuoteSound(q)'
      BY <1>1, <1>4, QuoteKept DEF documents
    <2>2. \A o \in Rows(order') : OrderSound(o)'
      <3>1. Rows(order') = Rows(order) /\ Rows(quote') = Rows(quote)
        BY <1>4 DEF documents
      <3>2. \A o \in Rows(order) : order[o].quote \in Rows(quote)
        BY <1>1 DEF OrderSound
      <3>3. QED
        BY <1>1, <1>4, <3>1, <3>2, OrderKept DEF documents
    <2>3. \A v \in Rows(invoice') : InvoiceSound(v)'
      <3>1. Rows(order') = Rows(order) /\ Rows(invoice') = Rows(invoice)
        BY <1>4 DEF documents
      <3>2. \A v \in Rows(invoice) : invoice[v].order \in Rows(order)
        BY <1>1 DEF InvoiceSound
      <3>3. QED
        BY <1>1, <1>4, <3>1, <3>2, InvoiceKept DEF documents
    <2>4. QED
      BY <1>2, <2>1, <2>2, <2>3 DEF Goal
  <1>5. ASSUME NEW i \in Inquiries, CreateQuote(i) PROVE Goal
    <2>1. PICK a \in Rows(approval), q \in Quotes \ Rows(quote) :
             /\ Granted(approval[a])
             /\ quote' = [quote EXCEPT ![q] = NewQuote(a)]
             /\ UNCHANGED <<approval, order, invoice>>
      BY <1>5 DEF CreateQuote
    <2>2. \A p \in Rows(quote') : p # q => p \in Rows(quote) /\ quote'[p] = quote[p]
      BY <1>3, <2>1 DEF Rows
    <2>3. \A p \in Rows(quote) : p # q /\ quote'[p] = quote[p] /\ p \in Rows(quote')
      BY <1>3, <2>1 DEF Rows
    <2>4. quote'[q] = NewQuote(a)
      BY <1>3, <2>1
    <2>5. QuoteSound(q)'
      <3>1. /\ NewQuote(a).approval = a
            /\ NewQuote(a).terms = AgreedTermsOf(approval[a])
            /\ NewQuote(a).hash = NewQuote(a).terms
            /\ NewQuote(a).total = TotalOf(NewQuote(a).terms)
        BY <2>1 DEF NewQuote, AgreedTermsOf, HashesAgree
      <3>2. QED
        BY <2>1, <2>4, <3>1 DEF QuoteSound, QuotedApproval
    <2>6. \A p \in Rows(quote') : QuoteSound(p)'
      BY <1>1, <2>2, <2>5, QuoteKept
    <2>7. /\ order' = order /\ Rows(order') = Rows(order)
          /\ invoice' = invoice /\ Rows(invoice') = Rows(invoice)
      BY <2>1
    <2>8. \A o \in Rows(order') : OrderSound(o)'
      <3>1. \A o \in Rows(order) : order[o].quote \in Rows(quote)
        BY <1>1 DEF OrderSound
      <3>2. QED
        BY <1>1, <2>3, <2>7, <3>1, OrderKept
    <2>9. \A v \in Rows(invoice') : InvoiceSound(v)'
      <3>1. \A v \in Rows(invoice) : invoice[v].order \in Rows(order)
        BY <1>1 DEF InvoiceSound
      <3>2. QED
        BY <1>1, <2>7, <3>1, InvoiceKept
    <2>10. QED
      BY <1>2, <2>6, <2>8, <2>9
  <1>6. ASSUME NEW q \in Quotes, CreateOrder(q) PROVE Goal
    <2>1. PICK o \in Orders \ Rows(order) : order' = [order EXCEPT ![o] = NewOrder(q)]
      BY <1>6 DEF CreateOrder
    <2>2. /\ q \in Rows(quote) /\ quote' = [quote EXCEPT ![q].status = "accepted"]
          /\ UNCHANGED <<approval, invoice>>
      BY <1>6 DEF CreateOrder, Orderable
    <2>3. quote[q] \in QuoteRow
      BY <2>2 DEF TypeOK, Table, Rows
    <2>4. \A p \in Quotes : /\ quote'[p].approval = quote[p].approval
                            /\ quote'[p].terms = quote[p].terms
                            /\ quote'[p].hash = quote[p].hash
                            /\ quote'[p].total = quote[p].total
      BY <1>3, <2>2, <2>3 DEF QuoteRow
    <2>5. /\ quote'[q].status = "accepted"
          /\ \A p \in Quotes \ {q} : quote'[p] = quote[p]
      BY <1>3, <2>2, <2>3 DEF QuoteRow
    <2>6. Rows(quote') = Rows(quote)
      <3>1. DOMAIN quote' = Quotes /\ quote'[q] \in QuoteRow
        BY <1>3, <2>2, <2>3 DEF QuoteRow
      <3>2. QED
        BY <1>3, <2>2, <2>5, <3>1, NoneAssumption DEF Rows
    <2>7. \A p \in Rows(quote') : QuoteSound(p)'
      BY <1>1, <1>3, <2>4, <2>6, QuoteKept DEF Rows
    <2>8. /\ order'[o] = NewOrder(q)
          /\ \A p \in Rows(order') : p # o => p \in Rows(order) /\ order'[p] = order[p]
          /\ \A p \in Rows(order) : p # o /\ order'[p] = order[p] /\ p \in Rows(order')
      BY <1>3, <2>1 DEF Rows
    <2>9. OrderSound(o)'
      BY <2>2, <2>4, <2>5, <2>6, <2>8 DEF OrderSound, NewOrder
    <2>10. ASSUME NEW p \in Rows(order), order'[p] = order[p] PROVE OrderSound(p)'
      <3>1. order[p].quote \in Quotes
        BY <1>1, <1>3 DEF OrderSound, Rows
      <3>2. quote'[order[p].quote].status = "accepted"
        BY <1>1, <2>5, <3>1 DEF OrderSound
      <3>3. QED
        BY <1>1, <2>4, <2>6, <2>10, <3>1, <3>2 DEF OrderSound
    <2>11. \A p \in Rows(order') : OrderSound(p)'
      BY <2>8, <2>9, <2>10
    <2>12. \A v \in Rows(invoice') : InvoiceSound(v)'
      BY <1>1, <2>2, <2>8 DEF InvoiceSound
    <2>13. QED
      BY <1>2, <2>7, <2>11, <2>12
  <1>7. ASSUME NEW q \in Quotes, quote[q] \in QuoteRow,
               NEW new \in QuoteRow, quote' = [quote EXCEPT ![q] = new],
               /\ new.approval = quote[q].approval /\ new.terms = quote[q].terms
               /\ new.hash = quote[q].hash /\ new.total = quote[q].total,
               \A o \in Rows(order) : order[o].quote # q,
               UNCHANGED <<order, invoice>>
        PROVE  Goal
    <2>1. /\ quote'[q] = new
          /\ \A p \in Quotes \ {q} : quote'[p] = quote[p]
          /\ DOMAIN quote' = Quotes
      BY <1>3, <1>7
    <2>2. Rows(quote') = Rows(quote)
      BY <1>3, <1>7, <2>1, NoneAssumption DEF Rows
    <2>3. \A p \in Rows(quote') : QuoteSound(p)'
      BY <1>1, <1>3, <1>7, <2>1, <2>2, QuoteKept DEF Rows
    <2>4. /\ order' = order /\ Rows(order') = Rows(order)
          /\ invoice' = invoice /\ Rows(invoice') = Rows(invoice)
      BY <1>7
    <2>5. \A o \in Rows(order') : OrderSound(o)'
      <3>1. \A o \in Rows(order) : /\ order[o].quote \in Rows(quote')
                                   /\ order[o].quote \in Quotes \ {q}
        BY <1>1, <1>3, <1>7, <2>2 DEF OrderSound, Rows
      <3>2. QED
        BY <1>1, <2>1, <2>4, <3>1, OrderKept
    <2>6. \A v \in Rows(invoice') : InvoiceSound(v)'
      <3>1. \A v \in Rows(invoice) : invoice[v].order \in Rows(order)
        BY <1>1 DEF InvoiceSound
      <3>2. QED
        BY <1>1, <2>4, <3>1, InvoiceKept
    <2>7. QED
      BY <1>2, <2>3, <2>5, <2>6
  <1>8. ASSUME NEW q \in Quotes, OrderTooLate(q) \/ QuoteLapses(q) PROVE Goal
    <2>1. /\ quote[q] \in QuoteRow /\ q \in Rows(quote) /\ quote[q].status = "issued"
          /\ UNCHANGED <<order, invoice>>
      BY <1>8 DEF OrderTooLate, QuoteLapses, Orderable, TypeOK, Table, Rows
    <2>2. \A o \in Rows(order) : order[o].quote # q
      BY <1>1, <2>1 DEF OrderSound
    <2>3. CASE OrderTooLate(q)
      <3> DEFINE new == [quote[q] EXCEPT !.status = "expired"]
      <3>1. quote' = [quote EXCEPT ![q] = new]
        BY <2>3 DEF OrderTooLate
      <3>2. /\ new \in QuoteRow
            /\ new.approval = quote[q].approval /\ new.terms = quote[q].terms
            /\ new.hash = quote[q].hash /\ new.total = quote[q].total
        BY <2>1 DEF QuoteRow
      <3> HIDE DEF new
      <3>3. QED
        BY <1>7, <2>1, <2>2, <3>1, <3>2
    <2>4. CASE QuoteLapses(q)
      <3> DEFINE new == [quote[q] EXCEPT !.lapsed = TRUE]
      <3>1. quote' = [quote EXCEPT ![q] = new]
        BY <2>4 DEF QuoteLapses
      <3>2. /\ new \in QuoteRow
            /\ new.approval = quote[q].approval /\ new.terms = quote[q].terms
            /\ new.hash = quote[q].hash /\ new.total = quote[q].total
        BY <2>1 DEF QuoteRow
      <3> HIDE DEF new
      <3>3. QED
        BY <1>7, <2>1, <2>2, <3>1, <3>2
    <2>5. QED
      BY <1>8, <2>3, <2>4
  <1>9. ASSUME UNCHANGED <<quote, order>>, \A v \in Rows(invoice') : InvoiceSound(v)'
        PROVE  Goal
    <2>1. Rows(order') = Rows(order) /\ Rows(quote') = Rows(quote)
      BY <1>9
    <2>2. \A q \in Rows(quote') : QuoteSound(q)'
      BY <1>1, <1>9, QuoteKept
    <2>3. \A o \in Rows(order') : OrderSound(o)'
      <3>1. \A o \in Rows(order) : order[o].quote \in Rows(quote)
        BY <1>1 DEF OrderSound
      <3>2. QED
        BY <1>1, <1>9, <2>1, <3>1, OrderKept
    <2>4. QED
      BY <1>2, <1>9, <2>2, <2>3
  <1>10. ASSUME NEW o \in Orders, CreateInvoice(o) PROVE Goal
    <2>1. PICK v \in Invoices \ Rows(invoice) : invoice' = [invoice EXCEPT ![v] = NewInvoice(o)]
      BY <1>10 DEF CreateInvoice
    <2>2. o \in Rows(order) /\ UNCHANGED <<quote, order>>
      BY <1>10 DEF CreateInvoice, Billable
    <2>3. /\ invoice'[v] = NewInvoice(o)
          /\ \A u \in Rows(invoice') : u # v => u \in Rows(invoice) /\ invoice'[u] = invoice[u]
      BY <1>3, <2>1 DEF Rows
    <2>4. InvoiceSound(v)'
      BY <2>2, <2>3 DEF InvoiceSound, NewInvoice
    <2>5. \A u \in Rows(invoice) : invoice[u].order \in Rows(order') /\ order' = order
      BY <1>1, <2>2 DEF InvoiceSound
    <2>6. \A u \in Rows(invoice') : InvoiceSound(u)'
      BY <1>1, <2>3, <2>4, <2>5, InvoiceKept
    <2>7. QED
      BY <1>9, <2>2, <2>6
  <1>11. ASSUME NEW v \in Invoices, InvoiceChanged(v) PROVE Goal
    <2>1. v \in Rows(invoice) /\ UNCHANGED <<quote, order>>
      BY <1>11, InvoiceChange
    <2>2. PICK new \in InvoiceRow :
             /\ invoice' = [invoice EXCEPT ![v] = new]
             /\ new.order = invoice[v].order /\ new.terms = invoice[v].terms
             /\ new.hash = invoice[v].hash /\ new.total = invoice[v].total
      BY <1>11, InvoiceChange
    <2>3. \A u \in Rows(invoice') : /\ u \in Rows(invoice)
                                    /\ invoice'[u].order = invoice[u].order
                                    /\ invoice'[u].terms = invoice[u].terms
                                    /\ invoice'[u].hash = invoice[u].hash
                                    /\ invoice'[u].total = invoice[u].total
      BY <1>3, <2>1, <2>2 DEF Rows
    <2>4. \A u \in Rows(invoice') : InvoiceSound(u)'
      BY <1>1, <2>1, <2>3 DEF InvoiceSound
    <2>5. QED
      BY <1>9, <2>1, <2>4
  <1>12. QED
    BY <1>4, <1>5, <1>6, <1>8, <1>10, <1>11, DocumentSteps DEF Goal

-----------------------------------------------------------------------------
(* The theorems *)

LEMMA InitChain == Init => ChainInvariant
  BY InitTypeOK, InitApprovalsSound
     DEF Init, ChainInvariant, ApprovalsSound, OfferRead, ExecutedAsApproved, Rows

LEMMA NextChain == ChainInvariant /\ [Next]_vars => ChainInvariant'
  <1> SUFFICES ASSUME ChainInvariant, [Next]_vars PROVE ChainInvariant'
    OBVIOUS
  <1>1. TypeOK /\ OfferRead /\ ApprovalsSound /\ ExecutedAsApproved
    BY DEF ChainInvariant, ApprovalsSound
  <1>2. TypeOK' /\ OfferRead'
    BY <1>1, NextTypeOK, NextOfferRead
  <1>3. ApprovalsSound'
    BY <1>1, <1>2, NextApprovalsSound
  <1>4. ExecutedAsApproved'
    BY <1>1, <1>2, NextExecuted DEF ApprovalsSound
  <1>5. QED
    BY <1>2, <1>3, <1>4 DEF ChainInvariant, ApprovalsSound

(* The inductive invariant of the chain: every ruling, approval, quote,    *)
(* order and invoice is accounted for by the one before it.                *)
THEOREM ChainCorrect == Spec => []ChainInvariant
  BY InitChain, NextChain, PTL DEF Spec

(* Approved = executed (document_service and its two triggers): whatever   *)
(* callers, late extractions and expiries do, a document only ever carries *)
(* the terms, hash and total of a granted approval.                        *)
THEOREM ExecutedIsApproved == Spec => []ExecutedAsApproved
  <1>1. ChainInvariant => ExecutedAsApproved
    BY DEF ChainInvariant
  <1>2. QED
    BY <1>1, ChainCorrect, PTL

(* run_rules never opens a second approval of an inquiry, although a late  *)
(* extraction can take a decided inquiry back to 'extracted'.              *)
THEOREM SingleApproval == Spec => []OneApprovalPerInquiry
  <1>1. ChainInvariant => OneApprovalPerInquiry
    BY DEF ChainInvariant
  <1>2. QED
    BY <1>1, ChainCorrect, PTL

(* apply_decision: nobody grants beyond the policy, the request or a role. *)
THEOREM AuthorityHolds == Spec => []AuthorityRespected
  <1>1. ChainInvariant => AuthorityRespected
    BY DEF ChainInvariant
  <1>2. QED
    BY <1>1, ChainCorrect, PTL

(* The decision that _replay reports is the one the approval came from.    *)
THEOREM RulingsExplain == Spec => []RulingExplainsApproval
  <1>1. ChainInvariant => RulingExplainsApproval
    BY DEF ChainInvariant
  <1>2. QED
    BY <1>1, ChainCorrect, PTL
=============================================================================
