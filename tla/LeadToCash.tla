----------------------------- MODULE LeadToCash -----------------------------
(***************************************************************************)
(* The commercial chain of the service: an inquiry is extracted by the AI, *)
(* decided by the rules engine, approved by a person or by the system, and *)
(* executed as quote, order and outbound invoice.                          *)
(*                                                                         *)
(* Every endpoint runs its database work in one transaction that first     *)
(* locks a row (SELECT ... FOR UPDATE) and reads everything it depends on  *)
(* under that lock: the inquiry for extraction, rules and quotes; the      *)
(* approval, then the inquiry, for decisions and expiry; the quote, then   *)
(* the inquiry, for orders; the order, then the inquiry, for invoices.     *)
(* Each transaction is therefore one action.  Extraction is the exception: *)
(* it commits several transactions with the LLM calls between them, so it  *)
(* is a worker with local state and several actions.                       *)
(*                                                                         *)
(* An operator whose name has a suffix after an underscore (Due_Early) is  *)
(* a seeded fault: the definition it precedes with one plausible mistake,  *)
(* used to show that a property can fail.  No action uses it.              *)
(*                                                                         *)
(* A call that changes nothing (a replay of a stored result, a 401, 404,   *)
(* 409 or 422) is a disabled action, that is, a stuttering step.  Callers  *)
(* (n8n, its retries, a second click) may call any endpoint at any time.   *)
(***************************************************************************)
EXTENDS RulesEngine, Pricing

CONSTANTS
    Inquiries,     \* primary keys of the inquiries table
    Approvals,     \* ... of approvals
    Quotes,        \* ... of quotes
    Orders,        \* ... of orders
    Invoices,      \* ... of outbound invoices
    Workers,       \* HTTP requests that can be inside extract_inquiry at once
    Offers,        \* what a customer can ask: [quantity, unitPrice, pct]
    Percents,      \* discounts an approver can type in a modification
    MaxAttempts,   \* 1 + llm_max_retries
    SlowWorkers,   \* can an extraction outlive STALE_EXTRACTING_AFTER?
    Corrections,   \* discount and total finance can type into an outbound invoice
    None           \* SQL NULL, and the row that is not there

ASSUME OffersAssumption ==
    /\ Offers \subseteq [quantity : Nat \ {0}, unitPrice : Nat, pct : 0 .. 100]
    /\ Percents \subseteq 0 .. 100
ASSUME AttemptsAssumption == MaxAttempts \in Nat \ {0}
ASSUME SlowAssumption == SlowWorkers \in BOOLEAN

(* The columns discount_pct and total of an invoice; both may be NULL.     *)
Figures == [pct : (0 .. 100) \union {None}, total : Int \union {None}]
ASSUME CorrectionsAssumption == Corrections \subseteq Figures

VARIABLES
    status,     \* inquiries.status; "absent" before intake
    extracted,  \* inquiries.extracted: the offer read from the message, or None
    fresh,      \* inquiries.updated_at is younger than STALE_EXTRACTING_AFTER
    review,     \* types of the open exceptions of the inquiry
    timeouts,   \* approvals with an open approval_timeout exception
    ruling,     \* outcome of the latest rule_decisions row of the inquiry
    approval,   \* the approvals table
    quote,      \* the quotes table
    order,      \* the orders table
    invoice,    \* the outbound rows of the invoices table
    worker      \* local variables of the running extract_inquiry calls

vars == <<status, extracted, fresh, review, timeouts, ruling, approval,
          quote, order, invoice, worker>>
intake     == <<status, extracted, fresh, review>>
documents  == <<quote, order, invoice>>

Statuses == {"absent", "received", "extracting", "extracted", "needs_review",
             "awaiting_approval", "approved", "rejected", "quoted", "ordered",
             "invoiced"}
FINAL_INQUIRY_STATUSES == {"awaiting_approval", "approved", "rejected",
                           "quoted", "ordered", "invoiced"}

RETRYABLE_EXCEPTIONS == {"llm_unavailable", "invalid_ai_output"}
DataExceptions       == {"missing_field", "unknown_product", "low_confidence"}
InquiryExceptions    == RETRYABLE_EXCEPTIONS \union DataExceptions
                          \union {"downstream_failure"}

(* The canonical JSON under terms_hash; SHA-256 is taken to be injective.  *)
(* The product is known by its price, and there is a single currency.      *)
TermsOf(i, offer, pct) == [inquiry |-> i, quantity |-> offer.quantity,
                           unitPrice |-> offer.unitPrice, pct |-> pct]
Discounts == Percents \union {offer.pct : offer \in Offers}
Terms     == {TermsOf(i, offer, pct) : i \in Inquiries, offer \in Offers, pct \in Discounts}
TotalOf(t) == Total(t.quantity, t.unitPrice, t.pct)

ApprovalRow == [inquiry : Inquiries, role : Roles, offer : Offers,
                status  : {"pending", "approved", "modified", "rejected", "expired"},
                approved : Discounts \union {None}, hash : Terms \union {None},
                token   : BOOLEAN,     \* token_hash is set
                overdue : BOOLEAN]     \* expires_at has passed
QuoteRow    == [approval : Approvals, terms : Terms, hash : Terms, total : Int,
                status : {"issued", "accepted", "expired"},
                lapsed : BOOLEAN]      \* valid_until has passed
OrderRow    == [quote : Quotes, terms : Terms, hash : Terms, total : Int]
InvoiceRow  == [order : Orders, terms : Terms, hash : Terms,
                total  : Int,          \* the total it was generated with
                billed : Figures,      \* discount_pct and total as they stand
                void   : BOOLEAN]
Extraction  == [inquiry : Inquiries, attempt : 1 .. MaxAttempts,
                last : {"none", "invalid", "unavailable"}, done : BOOLEAN]

ASSUME NoneAssumption ==
    /\ None \notin Offers /\ None \notin Outcomes /\ None \notin Discounts
    /\ None \notin Terms /\ None \notin ApprovalRow /\ None \notin QuoteRow
    /\ None \notin OrderRow /\ None \notin InvoiceRow /\ None \notin Extraction

Table(Keys, Row) == [Keys -> Row \union {None}]
Rows(table)      == {k \in DOMAIN table : table[k] # None}
Granted(row)     == row.status \in {"approved", "modified"}
Pending          == {a \in Rows(approval) : approval[a].status = "pending"}

Init ==
    /\ status    = [i \in Inquiries |-> "absent"]
    /\ extracted = [i \in Inquiries |-> None]
    /\ fresh     = [i \in Inquiries |-> TRUE]
    /\ review    = [i \in Inquiries |-> {}]
    /\ timeouts  = {}
    /\ ruling    = [i \in Inquiries |-> None]
    /\ approval  = [a \in Approvals |-> None]
    /\ quote     = [q \in Quotes    |-> None]
    /\ order     = [o \in Orders    |-> None]
    /\ invoice   = [v \in Invoices  |-> None]
    /\ worker    = [w \in Workers   |-> None]
-----------------------------------------------------------------------------
(***************************************************************************)
(* Intake and extraction (inquiry_service, extraction_service)             *)
(***************************************************************************)

(* create_inquiry: the first delivery of an Idempotency-Key inserts the    *)
(* row; every later one finds it and changes nothing.                      *)
CreateInquiry(i) ==
    /\ status[i] = "absent"
    /\ status' = [status EXCEPT ![i] = "received"]
    /\ UNCHANGED <<extracted, fresh, review, timeouts, ruling, approval,
                   documents, worker>>

MayExtract_AnyAge(i) ==
    \/ status[i] \in {"received", "extracting"}
    \/ status[i] = "needs_review" /\ review[i] \subseteq RETRYABLE_EXCEPTIONS

MayExtract_AnyRetryable(i) ==
    \/ status[i] = "received"
    \/ status[i] = "extracting" /\ ~fresh[i]
    \/ status[i] = "needs_review" /\ review[i] \intersect RETRYABLE_EXCEPTIONS # {}

(* When _start lets an extraction begin; otherwise it replays or answers   *)
(* 409.  A stale 'extracting' is recovered, and only system failures may   *)
(* be superseded by a re-run.                                              *)
MayExtract(i) ==
    \/ status[i] = "received"
    \/ status[i] = "extracting" /\ ~fresh[i]
    \/ status[i] = "needs_review" /\ review[i] \subseteq RETRYABLE_EXCEPTIONS

(* _start, and the call that is now waiting for the LLM *)
StartExtraction(w, i) ==
    /\ worker[w] = None
    /\ MayExtract(i)
    /\ status' = [status EXCEPT ![i] = "extracting"]
    /\ fresh'  = [fresh EXCEPT ![i] = TRUE]
    /\ review' = [review EXCEPT ![i] = IF status[i] = "needs_review" THEN {} ELSE @]
    /\ worker' = [worker EXCEPT ![w] = [inquiry |-> i, attempt |-> 1,
                                        last |-> "none", done |-> FALSE]]
    /\ UNCHANGED <<extracted, timeouts, ruling, approval, documents>>

LlmFails_Uncounted(w, kind, retryable) ==
    /\ worker[w] # None /\ ~worker[w].done
    /\ kind = "invalid" => retryable
    /\ worker' = [worker EXCEPT ![w].last = kind, ![w].done = ~retryable]
    /\ UNCHANGED <<intake, timeouts, ruling, approval, documents>>

(* One failed attempt of the loop: its ai_runs row is committed.  A        *)
(* non-retryable outage, or the last attempt, ends the loop.               *)
LlmFails(w, kind, retryable) ==
    /\ worker[w] # None /\ ~worker[w].done
    /\ kind = "invalid" => retryable
    /\ LET over == ~retryable \/ worker[w].attempt = MaxAttempts
       IN  worker' = [worker EXCEPT ![w].last = kind, ![w].done = over,
                         ![w].attempt = IF over THEN @ ELSE @ + 1]
    /\ UNCHANGED <<intake, timeouts, ruling, approval, documents>>

(* The final transaction of extract_inquiry.  It locks the inquiry again   *)
(* but does not look at the status it finds there.                         *)
WriteResult(w, problems, offer) ==
    LET i == worker[w].inquiry IN
    /\ status'    = [status EXCEPT ![i] =
                       IF problems = {} THEN "extracted" ELSE "needs_review"]
    /\ extracted' = [extracted EXCEPT ![i] = offer]
    /\ review'    = [review EXCEPT ![i] = @ \union problems]
    /\ fresh'     = [fresh EXCEPT ![i] = TRUE]
    /\ worker'    = [worker EXCEPT ![w] = None]
    /\ UNCHANGED <<timeouts, ruling, approval, documents>>

(* A valid answer: accepted, or sent to a person for what is wrong with it.*)
(* A partial offer (something is missing) is never priced.                 *)
ExtractionSucceeds(w) ==
    /\ worker[w] # None /\ ~worker[w].done
    /\ \/ \E offer \in Offers : WriteResult(w, {}, offer)
       \/ \E problems \in (SUBSET DataExceptions) \ {{}} : WriteResult(w, problems, None)

ExtractionGivesUp(w) ==
    /\ worker[w] # None /\ worker[w].done
    /\ WriteResult(w, {IF worker[w].last = "unavailable" THEN "llm_unavailable"
                                                         ELSE "invalid_ai_output"}, None)

(* The process dies between two commits: 'extracting' stays behind.        *)
ExtractionCrashes(w) ==
    /\ worker[w] # None
    /\ worker' = [worker EXCEPT ![w] = None]
    /\ UNCHANGED <<intake, timeouts, ruling, approval, documents>>

(* STALE_EXTRACTING_AFTER passes.  Attempts are bounded by the LLM timeout *)
(* (3 x 20 s by default), so a live worker is this old only when the       *)
(* timeout is configured higher or the process stalls: SlowWorkers.        *)
ExtractionGoesStale(i) ==
    /\ status[i] = "extracting" /\ fresh[i]
    /\ SlowWorkers \/ \A w \in Workers : worker[w] # None => worker[w].inquiry # i
    /\ fresh' = [fresh EXCEPT ![i] = FALSE]
    /\ UNCHANGED <<status, extracted, review, timeouts, ruling, approval,
                   documents, worker>>

(* POST /v1/ops/workflow-failures: a step of the workflow failed for good  *)
ReportWorkflowFailure(i) ==
    /\ status[i] # "absent"
    /\ review' = [review EXCEPT ![i] = @ \union {"downstream_failure"}]
    /\ UNCHANGED <<status, extracted, fresh, timeouts, ruling, approval,
                   documents, worker>>
-----------------------------------------------------------------------------
(***************************************************************************)
(* Rules and approvals (approval_service)                                  *)
(***************************************************************************)

(* approvals_one_pending_uq and approvals_one_granted_uq *)
ApprovalIndexesAllow(row) ==
    \A b \in Rows(approval) : approval[b].inquiry = row.inquiry =>
        /\ ~(approval[b].status = "pending" /\ row.status = "pending")
        /\ ~(Granted(approval[b]) /\ Granted(row))

(* The row run_rules inserts.  Only a pending one gets a token and expiry. *)
NewApproval(i, outcome) ==
    LET offer == extracted[i]
        auto  == outcome = "auto_approve" IN
    [inquiry  |-> i, role |-> RequiredRole(outcome), offer |-> offer,
     status   |-> IF outcome = "reject" THEN "rejected"
                  ELSE IF auto THEN "approved" ELSE "pending",
     approved |-> IF auto THEN offer.pct ELSE None,
     hash     |-> IF auto THEN TermsOf(i, offer, offer.pct) ELSE None,
     token    |-> outcome \notin {"reject", "auto_approve"},
     overdue  |-> FALSE]

StatusAfterRuling_Outcome(outcome) ==
    IF outcome = "human_review" THEN "needs_review" ELSE outcome

StatusAfterRuling(outcome) ==
    IF outcome = "human_review" THEN "needs_review"
    ELSE IF outcome = "reject" THEN "rejected"
    ELSE IF outcome = "auto_approve" THEN "approved"
    ELSE "awaiting_approval"

OfferTotal(offer) == Total(offer.quantity, offer.unitPrice, offer.pct)

MayDecide_Again(i) == status[i] = "extracted"

(* Can run_rules decide, or does it replay an earlier decision / refuse?   *)
MayDecide(i) ==
    /\ \A a \in Rows(approval) : approval[a].inquiry # i
    /\ status[i] = "extracted"

RunRules(i) ==
    /\ MayDecide(i)
    /\ LET offer   == extracted[i]
           outcome == Decide(TRUE, offer.quantity, offer.pct, OfferTotal(offer)) IN
       /\ ruling' = [ruling EXCEPT ![i] = outcome]
       /\ status' = [status EXCEPT ![i] = StatusAfterRuling(outcome)]
       /\ IF outcome = "human_review"
          THEN /\ review' = [review EXCEPT ![i] = @ \union {"missing_field"}]
               /\ UNCHANGED approval
          ELSE /\ \E a \in Approvals \ Rows(approval) :
                     approval' = [approval EXCEPT ![a] = NewApproval(i, outcome)]
               /\ ApprovalIndexesAllow(NewApproval(i, outcome))
               /\ UNCHANGED review
    /\ UNCHANGED <<extracted, fresh, timeouts, documents, worker>>

(* approvals_freeze_decided: only a pending row can be updated *)
UpdateApproval(a, row) ==
    /\ approval[a].status = "pending"
    /\ approval' = [approval EXCEPT ![a] = row]

(* A decision taken in time by the holder of the token *)
Decidable(a) ==
    /\ approval[a] # None
    /\ approval[a].token
    /\ approval[a].status = "pending"
    /\ ~approval[a].overdue

GrantedRow_HashOfRequest(row, pct) ==
    [row EXCEPT !.status   = IF pct = row.offer.pct THEN "approved" ELSE "modified",
                !.approved = pct,
                !.hash     = TermsOf(row.inquiry, row.offer, row.offer.pct)]

GrantedRow(row, pct) ==
    [row EXCEPT !.status   = IF pct = row.offer.pct THEN "approved" ELSE "modified",
                !.approved = pct,
                !.hash     = TermsOf(row.inquiry, row.offer, pct)]

(* apply_decision, "approve" and "modify": never above the request (the    *)
(* check of 005_approval_controls.sql too), never beyond the role.         *)
Grant(a, pct) ==
    /\ Decidable(a)
    /\ pct <= approval[a].offer.pct
    /\ MayGrant(approval[a].role, pct)
    /\ UpdateApproval(a, GrantedRow(approval[a], pct))
    /\ status' = [status EXCEPT ![approval[a].inquiry] = "approved"]
    /\ UNCHANGED <<extracted, fresh, review, timeouts, ruling, documents, worker>>

Approve(a)     == Decidable(a) /\ Grant(a, approval[a].offer.pct)
Modify(a, pct) == Grant(a, pct)

Reject(a) ==
    /\ Decidable(a)
    /\ UpdateApproval(a, [approval[a] EXCEPT !.status = "rejected"])
    /\ status' = [status EXCEPT ![approval[a].inquiry] = "rejected"]
    /\ UNCHANGED <<extracted, fresh, review, timeouts, ruling, documents, worker>>

Expire_ApprovalOnly(S) ==
    /\ approval' = [a \in Approvals |->
                      IF a \in S THEN [approval[a] EXCEPT !.status = "expired"]
                                 ELSE approval[a]]
    /\ timeouts' = timeouts \union S
    /\ UNCHANGED <<intake, ruling, documents, worker>>

(* _expire for every approval of S, in one transaction *)
Expire(S) ==
    /\ approval' = [a \in Approvals |->
                      IF a \in S THEN [approval[a] EXCEPT !.status = "expired"]
                                 ELSE approval[a]]
    /\ status'   = [i \in Inquiries |->
                      IF \E a \in S : approval[a].inquiry = i THEN "needs_review"
                                                              ELSE status[i]]
    /\ timeouts' = timeouts \union S
    /\ UNCHANGED <<extracted, fresh, review, ruling, documents, worker>>

(* A decision that arrives after the deadline expires the approval *)
DecideTooLate(a) ==
    /\ approval[a] # None /\ approval[a].token
    /\ approval[a].status = "pending" /\ approval[a].overdue
    /\ Expire({a})

(* expire_due, the scheduled sweep.  SKIP LOCKED leaves out any approval   *)
(* that another transaction holds at that moment.                          *)
Due_Early == {a \in Pending : ~approval[a].overdue}

Due == {a \in Pending : approval[a].overdue}
ExpireDue == \E S \in (SUBSET Due) \ {{}} : Expire(S)

(* APPROVAL_TTL_HOURS pass *)
DeadlinePasses(a) ==
    /\ a \in Pending /\ ~approval[a].overdue
    /\ approval' = [approval EXCEPT ![a].overdue = TRUE]
    /\ UNCHANGED <<intake, timeouts, ruling, documents, worker>>
-----------------------------------------------------------------------------
(***************************************************************************)
(* Documents (document_service)                                            *)
(***************************************************************************)

(* The insert trigger quotes_enforce_approval *)
QuoteMatchesApproval(row) ==
    LET a == approval[row.approval] IN
    /\ Granted(a)
    /\ row.terms = TermsOf(a.inquiry, a.offer, a.approved)
    /\ row.hash = a.hash

NewQuote(a) ==
    LET terms == TermsOf(approval[a].inquiry, approval[a].offer, approval[a].approved) IN
    [approval |-> a, terms |-> terms, hash |-> approval[a].hash,
     total |-> TotalOf(terms), status |-> "issued", lapsed |-> FALSE]

CreateQuote(i) ==
    \E a \in Rows(approval), q \in Quotes \ Rows(quote) :
        /\ approval[a].inquiry = i /\ Granted(approval[a])
        /\ \A p \in Rows(quote) : quote[p].approval # a
        /\ QuoteMatchesApproval(NewQuote(a))
        /\ quote'  = [quote EXCEPT ![q] = NewQuote(a)]
        /\ status' = [status EXCEPT ![i] = "quoted"]
        /\ UNCHANGED <<extracted, fresh, review, timeouts, ruling, approval,
                       order, invoice, worker>>

QuoteInquiry(q) == quote[q].terms.inquiry

(* The insert trigger orders_enforce_quote *)
OrderMatchesQuote(row) ==
    LET q == quote[row.quote] IN
    row.terms = q.terms /\ row.hash = q.hash /\ row.total = q.total

NewOrder(q) == [quote |-> q, terms |-> quote[q].terms, hash |-> quote[q].hash,
                total |-> quote[q].total]

(* A quote that can still be ordered: create_order's checks under its lock *)
Orderable(q) ==
    /\ q \in Rows(quote)
    /\ \A o \in Rows(order) : order[o].quote # q
    /\ quote[q].status = "issued"

CreateOrder(q) ==
    /\ Orderable(q) /\ ~quote[q].lapsed
    /\ OrderMatchesQuote(NewOrder(q))
    /\ \E o \in Orders \ Rows(order) : order' = [order EXCEPT ![o] = NewOrder(q)]
    /\ quote'  = [quote EXCEPT ![q].status = "accepted"]
    /\ status' = [status EXCEPT ![QuoteInquiry(q)] = "ordered"]
    /\ UNCHANGED <<extracted, fresh, review, timeouts, ruling, approval,
                   invoice, worker>>

(* create_order on an outdated quote marks it expired and answers 409 *)
OrderTooLate(q) ==
    /\ Orderable(q) /\ quote[q].lapsed
    /\ quote' = [quote EXCEPT ![q].status = "expired"]
    /\ UNCHANGED <<intake, timeouts, ruling, approval, order, invoice, worker>>

(* valid_until passes *)
QuoteLapses(q) ==
    /\ q \in Rows(quote) /\ ~quote[q].lapsed
    /\ quote[q].status = "issued"
    /\ quote' = [quote EXCEPT ![q].lapsed = TRUE]
    /\ UNCHANGED <<intake, timeouts, ruling, approval, order, invoice, worker>>

NewInvoice_AsRequested(o) ==
    LET row == approval[quote[order[o].quote].approval] IN
    [order |-> o, terms |-> TermsOf(row.inquiry, row.offer, row.offer.pct),
     hash |-> order[o].hash, total |-> OfferTotal(row.offer),
     billed |-> [pct |-> row.offer.pct, total |-> OfferTotal(row.offer)],
     void |-> FALSE]

NewInvoice(o) == [order |-> o, terms |-> order[o].terms, hash |-> order[o].hash,
                  total |-> order[o].total,
                  billed |-> [pct |-> order[o].terms.pct, total |-> order[o].total],
                  void |-> FALSE]

(* create_invoice: an order has one invoice that is not void.  Nothing in  *)
(* the program ever cancels an order, so that check has no counterpart.    *)
Billable_Again(o) == o \in Rows(order)
Billable(o) ==
    /\ o \in Rows(order)
    /\ \A v \in Rows(invoice) : invoice[v].order = o => invoice[v].void

CreateInvoice(o) ==
    /\ Billable(o)
    /\ \E v \in Invoices \ Rows(invoice) :
          invoice' = [invoice EXCEPT ![v] = NewInvoice(o)]
    /\ status' = [status EXCEPT ![order[o].terms.inquiry] = "invoiced"]
    /\ UNCHANGED <<extracted, fresh, review, timeouts, ruling, approval,
                   quote, order, worker>>

(* financial_service.void_invoice, seen from here: a live invoice (draft,  *)
(* blocked or validated; the stages are not told apart) becomes void.      *)
VoidInvoice(v) ==
    /\ v \in Rows(invoice) /\ ~invoice[v].void
    /\ invoice' = [invoice EXCEPT ![v].void = TRUE]
    /\ UNCHANGED <<intake, timeouts, ruling, approval, quote, order, worker>>

(* financial_service.correct_invoice, seen from here: a person changes the *)
(* figures of a live invoice, drafts of the chain included.  Its terms_hash*)
(* stays.  What the check of the new figures says is InvoiceDesk's.        *)
CorrectInvoice(v, figures) ==
    /\ v \in Rows(invoice) /\ ~invoice[v].void
    /\ invoice' = [invoice EXCEPT ![v].billed = figures]
    /\ UNCHANGED <<intake, timeouts, ruling, approval, quote, order, worker>>
-----------------------------------------------------------------------------
Next ==
    \/ \E i \in Inquiries : CreateInquiry(i)
    \/ \E w \in Workers, i \in Inquiries : StartExtraction(w, i)
    \/ \E w \in Workers, kind \in {"invalid", "unavailable"}, r \in BOOLEAN :
          LlmFails(w, kind, r)
    \/ \E w \in Workers : ExtractionSucceeds(w)
    \/ \E w \in Workers : ExtractionGivesUp(w)
    \/ \E w \in Workers : ExtractionCrashes(w)
    \/ \E i \in Inquiries : ExtractionGoesStale(i)
    \/ \E i \in Inquiries : ReportWorkflowFailure(i)
    \/ \E i \in Inquiries : RunRules(i)
    \/ \E a \in Approvals : Approve(a)
    \/ \E a \in Approvals, pct \in Percents : Modify(a, pct)
    \/ \E a \in Approvals : Reject(a)
    \/ \E a \in Approvals : DecideTooLate(a)
    \/ ExpireDue
    \/ \E a \in Approvals : DeadlinePasses(a)
    \/ \E i \in Inquiries : CreateQuote(i)
    \/ \E q \in Quotes : CreateOrder(q)
    \/ \E q \in Quotes : OrderTooLate(q)
    \/ \E q \in Quotes : QuoteLapses(q)
    \/ \E o \in Orders : CreateInvoice(o)
    \/ \E v \in Invoices : VoidInvoice(v)
    \/ \E v \in Invoices, figures \in Corrections : CorrectInvoice(v, figures)

Spec == Init /\ [][Next]_vars

(* Fairness for the parts that somebody schedules: clocks, the sweep that  *)
(* n8n runs every 15 minutes, and a request the server is working on.      *)
(* Nobody is obliged to answer an approval or to retry a call.             *)
WorkerStep(w) ==
    \/ \E kind \in {"invalid", "unavailable"}, r \in BOOLEAN : LlmFails(w, kind, r)
    \/ ExtractionSucceeds(w)
    \/ ExtractionGivesUp(w)
Fairness ==
    /\ WF_vars(ExpireDue)
    /\ \A a \in Approvals : WF_vars(DeadlinePasses(a))
    /\ \A w \in Workers : WF_vars(WorkerStep(w))
FairSpec == Spec /\ Fairness
-----------------------------------------------------------------------------
(***************************************************************************)
(* Properties                                                              *)
(***************************************************************************)

(* Every row has the shape its table declares, and a granted approval has  *)
(* its final terms (constraint approvals_final_terms_present).             *)
TypeOK ==
    /\ status    \in [Inquiries -> Statuses]
    /\ extracted \in [Inquiries -> Offers \union {None}]
    /\ fresh     \in [Inquiries -> BOOLEAN]
    /\ review    \in [Inquiries -> SUBSET InquiryExceptions]
    /\ timeouts  \subseteq Approvals
    /\ ruling    \in [Inquiries -> Outcomes \union {None}]
    /\ approval  \in Table(Approvals, ApprovalRow)
    /\ quote     \in Table(Quotes, QuoteRow)
    /\ order     \in Table(Orders, OrderRow)
    /\ invoice   \in Table(Invoices, InvoiceRow)
    /\ worker    \in Table(Workers, Extraction)
    /\ \A a \in Rows(approval) : Granted(approval[a]) =>
          approval[a].approved # None /\ approval[a].hash # None

QuotedApproval(q)  == approval[quote[q].approval]
AgreedTermsOf(row) == TermsOf(row.inquiry, row.offer, row.approved)

(* "Approved = executed": whatever happens to the inquiry afterwards, every*)
(* quote, order and invoice is generated with the terms, the hash and the  *)
(* total of a granted approval of the inquiry (create_quote, create_order, *)
(* create_invoice and the two triggers).  What a person later types into   *)
(* an invoice is the matter of EvidenceHolds.                              *)
ExecutedAsApproved ==
    /\ \A q \in Rows(quote) :
          /\ quote[q].approval \in Rows(approval)
          /\ Granted(QuotedApproval(q))
          /\ quote[q].terms = AgreedTermsOf(QuotedApproval(q))
          /\ quote[q].hash  = quote[q].terms
          /\ quote[q].total = TotalOf(quote[q].terms)
    /\ \A o \in Rows(order) :
          LET q == quote[order[o].quote] IN
          /\ order[o].quote \in Rows(quote)
          /\ q.status = "accepted"
          /\ order[o].terms = q.terms /\ order[o].hash = q.hash
          /\ order[o].total = q.total
    /\ \A v \in Rows(invoice) :
          LET o == order[invoice[v].order] IN
          /\ invoice[v].order \in Rows(order)
          /\ invoice[v].terms = o.terms /\ invoice[v].hash = o.hash
          /\ invoice[v].total = o.total

(* One decision per inquiry, ever: neither a retry, a late extraction nor  *)
(* an expiry lets run_rules open a second approval, which is why           *)
(* granted_approval may use scalar_one_or_none.                            *)
OneApprovalPerInquiry ==
    \A a, b \in Rows(approval) : approval[a].inquiry = approval[b].inquiry => a = b

(* A customer is never billed twice: all retries of the document endpoints *)
(* taken together leave at most one invoice of an inquiry that is not void.*)
BilledOnce ==
    \A v, u \in Rows(invoice) :
        ~invoice[v].void /\ ~invoice[u].void
          /\ invoice[v].terms.inquiry = invoice[u].terms.inquiry => v = u

(* Nobody grants beyond their authority: a granted discount is within the  *)
(* policy, not above the request, within the limit of the role the rules   *)
(* asked for, and the manager's whenever the requested order was large.    *)
AuthorityRespected ==
    \A a \in Rows(approval) : Granted(approval[a]) =>
        LET row == approval[a] IN
        /\ row.approved <= row.offer.pct
        /\ MayGrant(row.role, row.approved)
        /\ row.offer.quantity <= MAX_QUANTITY
        /\ row.role = "manager" \/ OfferTotal(row.offer) <= MANAGER_REVIEW_TOTAL

(* The evidence matches the decision: the latest rule_decisions row, which *)
(* _replay reports for the approval, is the ruling that created it.        *)
RulingExplainsApproval ==
    \A a \in Rows(approval) :
        LET row == approval[a] IN
        /\ ruling[row.inquiry] =
              Decide(TRUE, row.offer.quantity, row.offer.pct, OfferTotal(row.offer))
        /\ row.role = RequiredRole(ruling[row.inquiry])

(* A request is priced only when product, quantity and discount were read  *)
(* and found in the message: 'extracted' never covers a partial reading.   *)
OfferRead == \A i \in Inquiries : status[i] = "extracted" => extracted[i] # None

(* The fingerprint is that of the terms granted, and a ruling that refuses *)
(* or cannot price a request never leads to a grant.                       *)
HashesAgree ==
    \A a \in Rows(approval) : Granted(approval[a]) =>
        approval[a].hash = AgreedTermsOf(approval[a])
RulingsObeyed ==
    \A a \in Rows(approval) :
        LET outcome == ruling[approval[a].inquiry] IN
        /\ outcome # "human_review"
        /\ outcome = "reject" => approval[a].status = "rejected"
        /\ approval[a].status = "pending" => outcome # "auto_approve"

(* The inductive invariant behind the safety theorems of LeadToCashProofs. *)
ChainInvariant ==
    /\ TypeOK
    /\ OfferRead
    /\ OneApprovalPerInquiry
    /\ HashesAgree
    /\ RulingsObeyed
    /\ RulingExplainsApproval
    /\ AuthorityRespected
    /\ ExecutedAsApproved

ApprovalsOf(i) == {a \in Rows(approval) : approval[a].inquiry = i}
QuotesOf(i)    == {q \in Rows(quote) : quote[q].terms.inquiry = i}
OrdersOf(i)    == {o \in Rows(order) : order[o].terms.inquiry = i}
InvoicesOf(i)  == {v \in Rows(invoice) : invoice[v].terms.inquiry = i}

GrantedOf(i)   == {a \in ApprovalsOf(i) : Granted(approval[a])}

(* commercial_summary: the documents of an inquiry side by side.  bills is *)
(* the outbound invoice that it finds first, void or not, or nothing.  A   *)
(* missing total is left out; a missing discount is not.                   *)
Shown(i, bills) ==
    {[pct |-> approval[a].approved, hash |-> approval[a].hash] : a \in GrantedOf(i)}
      \union {[pct |-> quote[q].terms.pct, hash |-> quote[q].hash] : q \in QuotesOf(i)}
      \union {[pct |-> order[o].terms.pct, hash |-> order[o].hash] : o \in OrdersOf(i)}
      \union {[pct |-> invoice[v].billed.pct, hash |-> invoice[v].hash] : v \in bills}
Totals(i, bills) == {quote[q].total : q \in QuotesOf(i)}
                      \union {order[o].total : o \in OrdersOf(i)}
                      \union ({invoice[v].billed.total : v \in bills} \ {None})

Consistent_Vacuous(i, bills) ==
    /\ \A d, e \in Shown(i, bills) : d = e
    /\ GrantedOf(i) # {} => \A s, t \in Totals(i, bills) : s = t

(* Its verdict is "approved terms match every downstream document", and    *)
(* not MISMATCH.  (With one document there are no two totals to compare.)  *)
Consistent(i, bills) ==
    /\ Shown(i, bills) # {}
    /\ \A d, e \in Shown(i, bills) : d = e
    /\ GrantedOf(i) # {} => \A s, t \in Totals(i, bills) : s = t

(* The invoice still says what was agreed, as far as the summary compares. *)
BillsTheDeal(v, row) ==
    /\ invoice[v].billed.pct = row.approved
    /\ invoice[v].billed.total \in {TotalOf(AgreedTermsOf(row)), None}

(* The evidence holds.  The verdict of commercial_summary is a match as    *)
(* soon as something was granted and until somebody corrects the invoice   *)
(* it comes across: its quote, its order and an invoice as generated never *)
(* cause a MISMATCH, changed figures always do, and without a grant there  *)
(* is no match to report.  Nor does it ever find two approvals, quotes or  *)
(* orders where scalar_one_or_none allows one.                             *)
EvidenceHolds ==
    \A i \in Inquiries :
        /\ Consistent(i, {}) <=> GrantedOf(i) # {}
        /\ \A v \in InvoicesOf(i) :
              Consistent(i, {v}) <=> \E a \in GrantedOf(i) : BillsTheDeal(v, approval[a])
        /\ \A a, b \in GrantedOf(i) : a = b
        /\ \A p, q \in QuotesOf(i) : p = q
        /\ \A n, o \in OrdersOf(i) : n = o

(* inquiries.status, which four services write, never disagrees with the   *)
(* approvals, quotes, orders and invoices that exist.                      *)
StatusMatchesRecords ==
    \A i \in Inquiries :
        /\ status[i] = "awaiting_approval" <=>
              \E a \in ApprovalsOf(i) : approval[a].status = "pending"
        /\ status[i] = "rejected" <=>
              \E a \in ApprovalsOf(i) : approval[a].status = "rejected"
        /\ status[i] \in {"approved", "quoted", "ordered", "invoiced"} <=>
              \E a \in ApprovalsOf(i) : Granted(approval[a])
        /\ status[i] = "quoted"   <=> QuotesOf(i) # {} /\ OrdersOf(i) = {}
        /\ status[i] = "ordered"  <=> OrdersOf(i) # {} /\ InvoicesOf(i) = {}
        /\ status[i] = "invoiced" <=> InvoicesOf(i) # {}

(* The state diagram of docs/architecture.md: once an inquiry has been     *)
(* decided, extraction never takes it back; only a timeout returns it to a *)
(* person.                                                                 *)
Settled == FINAL_INQUIRY_STATUSES \ {"awaiting_approval"}
NoRegression ==
    [][\A i \in Inquiries :
          /\ status[i] \in Settled => status'[i] \in Settled
          /\ status[i] = "awaiting_approval" =>
                \/ status'[i] \in FINAL_INQUIRY_STATUSES
                \/ status'[i] = "needs_review" /\ timeouts' # timeouts]_vars

(* What a person must look at stays with a person: while an item that is   *)
(* not a system failure is open on the inquiry, no call of extract or      *)
(* decide, however timed, takes it out of needs_review or drops the item.  *)
ReviewIsSticky ==
    [][\A i \in Inquiries :
          LET human == review[i] \ RETRYABLE_EXCEPTIONS IN
          status[i] = "needs_review" /\ human # {} =>
              status'[i] = "needs_review" /\ human \subseteq review'[i]]_vars

(* The comment of expire_due: nothing stays pending forever. *)
NothingStaysPending == \A a \in Approvals : a \in Pending ~> a \notin Pending

(* Retries of the AI are bounded: every extract call comes to an end. *)
ExtractionEnds == \A w \in Workers : worker[w] # None ~> worker[w] = None

(* The chain implements AgreedTerms, whatever the inquiry's status does.   *)
Deal(row)   == [terms |-> AgreedTermsOf(row), by |-> row.role]
GrantedRows == {a \in Rows(approval) : Granted(approval[a])}
RefusedRows == {a \in Rows(approval) : approval[a].status \in {"rejected", "expired"}}
Abstract == INSTANCE AgreedTerms WITH
    deals    <- {Deal(approval[a]) : a \in GrantedRows},
    closed   <- {approval[a].inquiry : a \in RefusedRows},
    executed <- {[kind |-> "quote",   terms |-> quote[q].hash]   : q \in Rows(quote)}
         \union {[kind |-> "order",   terms |-> order[o].hash]   : o \in Rows(order)}
         \union {[kind |-> "invoice", terms |-> invoice[v].terms] : v \in Rows(invoice)}
ImplementsAgreedTerms == Abstract!Spec
-----------------------------------------------------------------------------
(***************************************************************************)
(* What the documentation says and the code does not keep.  Each of these  *)
(* is the property of a run that TLC refutes; see README.md.               *)
(***************************************************************************)

(* app/rules/engine.py:11: an order total above 50,000 needs the manager   *)
(* even when the discount is small.  Stated for what is executed.          *)
LargeOrdersAreManagers ==
    \A o \in Rows(order) :
        order[o].total > MANAGER_REVIEW_TOTAL =>
            QuotedApproval(order[o].quote).role = "manager"

(* The docstring of commercial_summary: the verdict is that of "approved   *)
(* == quoted == ordered == invoiced".  A void invoice bills nobody, so     *)
(* beside one that is in force it must not decide the verdict.  (Not run by*)
(* itself: TLC refutes it in the instance of run chain.)                   *)
VoidIsIgnored ==
    \A i \in Inquiries : \A v, u \in InvoicesOf(i) :
        ~invoice[u].void => (Consistent(i, {v}) <=> Consistent(i, {u}))

(* extraction_service.py:30: a re-run may clear system failures, anything  *)
(* else needs a human.  An approval_timeout is such an item.               *)
TimeoutNeedsHuman ==
    [][\A i \in Inquiries :
          status[i] = "needs_review" /\ (\E a \in timeouts : approval[a].inquiry = i)
              => status'[i] # "extracting"]_vars
=============================================================================
