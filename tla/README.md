# Lead to cash: a verification development

This directory holds TLA+ modules for the lead-to-cash service (a FastAPI program on PostgreSQL,
called by n8n workflows), TLC configurations that check them on small instances, and proofs that
TLAPS checks for every instance. Paths below are relative to the repository.

## 1. The system

An inquiry arrives by webhook, an LLM reads it, fixed rules decide how much discount may be given
and by whom, a person answers through a signed link, and the service issues quote, order and
invoice. Beside this chain, finance submits supplier invoices and expenses, which are checked by
fixed rules and released by a person.

| Component | State it keeps | Operations | What makes it correct |
|---|---|---|---|
| Intake (`inquiry_service.py`, keys in `financial_service.py`) | `customers`, `inquiries` and documents by Idempotency-Key | `create_inquiry`, `submit_*`, `_link_contact` | one row per key, never replaced; answers are true; no customer without an inquiry; nobody waits for ever |
| AI extraction (`extraction_service.py`) | `status`, `extracted`, exceptions, `ai_runs` | `extract_inquiry` (three kinds of transaction, LLM calls between them) | bounded, restartable; never takes a decision back; never hides what a person must see |
| Discount policy (`rules/engine.py`) | none | `decide`, `may_grant` | exactly one row of the decision table; limits inclusive or exclusive as stated |
| Pricing (`pricing.py`) | none | `compute_amounts`, `terms_hash` | half-up to the cent, monotone, never negative |
| Rules and approvals (`approval_service.py`) | `rule_decisions`, `approvals` | `run_rules`, `apply_decision`, `expire_due` | one approval per inquiry; authority; a decided approval is frozen; nothing stays pending |
| Documents (`document_service.py`) | `quotes`, `orders`, outbound `invoices` | `create_quote`, `create_order`, `create_invoice` | "approved = executed"; billed once |
| Evidence (`commercial_summary`) | none | reads the four documents | a match exactly while what was granted is billed; never two rows where one is expected |
| Invoice desk (`financial_service.py`, `rules/financial_checks.py`) | inbound `invoices`, `exceptions` | submit, validate, correct, accept, approve, void | what passes is clean, justified and signed for as it is; final is final |
| Invoice capture (`extraction/invoice.py`) | the same | `capture_invoice` | an LLM never overrules a person |
| Exception queue (`exception_service.py`, `routers/ops.py`) | `exceptions` | open, resolve, workflow failure | one open item per type; system failures recoverable, others sticky |
| Payments (`record_payment`) | `amount_paid`, `payment_status` | record | only what was approved, never more than the total; posted exactly when paid |
| Expenses (`*_expense`) | `expenses` | submit, validate, correct, decide | as the invoice desk |
| Appointments (`appointment_service.py`) | `appointments`, calendar | `schedule` | no slot and no customer twice; slots in business hours; outages end; nobody waits for ever |
| n8n workflows (`n8n/build/build_workflows.py`) | executions, the approval token | calls, retries, the form, 15-minute sweep, failure report | any repetition of calls is harmless; executions end, truthfully; a grant is carried out or reported |
| Audit, trail, LLM clients, configuration, console | append-only rows, none, none, none | | not modelled: nothing reads them to decide |

**How they interact.** All state is in PostgreSQL; the components share tables, and call each other
only inside one request. There is no message queue: n8n calls endpoints, waits, retries, and calls
the next. `LeadToCash`, `InvoiceDesk` and `Appointments` therefore take callers as an environment
that may call anything at any time; `Workflow` composes `LeadToCash` with the caller there is.

**What is hard.** (a) `extract_inquiry` holds no lock while it asks the LLM, and an extraction older
than five minutes is given up and started again while it may still be running. (b) Four services
write `inquiries.status`. (c) A person's answer races the sweep and the deadline. (d) Retries of
every endpoint, and void invoices in between. (e) Requests of the invoice desk that judge by an
object read before they held its lock, or by rows they never lock. (f) Rounding and limits.
(g) An insert after a search that found nothing, in the calendar under an advisory lock and in the
exception queue under none; in the intake the unique indexes decide alone. (h) Answers that are lost after the service did the work.
`PROJECT.json` lists these hazards with their lines and the properties that cover them.

## 2. Modules

| Module | Models | Kind |
|---|---|---|
| `RulesEngine` | `rules/engine.py` | operators |
| `Pricing` | `services/pricing.py` | operators, whole cents |
| `FinancialChecks` | `rules/financial_checks.py`: arithmetic, effective discount, comparison with the order | operators, whole cents and hundredths of a percent |
| `MCPolicy` | | a walk through all requests of the bounds and invoices for them, for the three modules above |
| `PolicyProofs` | | theorems about it |
| `AgreedTerms` | | what the chain promises, abstractly |
| `LeadToCash` | intake, extraction, approvals, documents, sweep, workflow failures, with their triggers and indexes | state machine; implements `AgreedTerms` |
| `MCLeadToCash` | | instances of it |
| `LeadToCashProofs`, `RecordsProofs`, `AgreedTermsProofs` | | theorems about it |
| `Workflow` | n8n's workflow 01 with retries, lost calls and answers, and the form; the sweep of 02 | state machine, EXTENDS `LeadToCash` and implements its `Spec` |
| `MCWorkflow` | | instances of it |
| `WorkflowProofs` | | theorems about it |
| `Appointments` | the slot search, the calendar's outages, failure reports | state machine, request by request |
| `MCAppointments` | | an instance of it |
| `AppointmentsProofs` | | theorems about it |
| `Intake` | deliveries, their keys and customers; the contact an extraction finds | state machine, statement by statement |
| `MCIntake` | | an instance of it |
| `IntakeProofs` | | theorems about it |
| `InvoiceDesk` | the finance desk for inbound invoices and expenses, payments, invoice capture | state machine, statement by statement |
| `MCInvoiceDesk` | | instances of it |
| `InvoiceDeskProofs` | | theorems about it |

An operator with a suffix after an underscore (`MayExtract_AnyAge`) is a seeded fault: a definition
with one plausible mistake, which shows that some property can fail. No action uses one.

### LeadToCash: why one transaction is one action

Every endpoint of the chain takes a row lock first and reads what it depends on under it:

| Transaction | locks, in order | reads |
|---|---|---|
| `_start`, the final write of `extract_inquiry` | inquiry | its exceptions |
| `run_rules` | inquiry | its approvals |
| `apply_decision`, `expire_due` | approval, inquiry | |
| `create_quote` | inquiry | its granted approval, frozen by trigger |
| `create_order` | quote, inquiry | |
| `create_invoice` | order, inquiry | its invoices |

Two transactions about one inquiry meet at its row, in the order approval / quote / order before
inquiry, so there is no cycle, and what is read before the inquiry's lock (a granted approval, a
quote's terms) cannot change. Each is one action, and extraction, which commits several
transactions, is a worker with local variables (`worker[w]`) and an action for each.

A call that changes nothing (a replay, or an answer 401, 404, 409, 422) is a stuttering step. Time
is three flags that only the clock sets: `fresh` (not yet stale), `overdue` (`expires_at`),
`lapsed` (`valid_until`). Tables are functions from keys to rows or `None`; `terms_hash` is the terms themselves
(SHA-256 taken to be injective). `VoidInvoice` is here because a void invoice makes an order billable
again, and `CorrectInvoice` because finance can correct the drafts of the chain: an invoice keeps
the terms and hash it was generated with, and `billed` is what it says now. What the desk finds in
the corrected figures, and the approval of an outbound invoice, which ends its corrections, are not
in this module: here an invoice can be corrected until it is void.

`Consistent` is the verdict of `commercial_summary` as the code computes it: something must be there
to compare (`bool(present)`), all discounts and hashes are equal, a missing discount included, and
the totals are, if an approval was granted, a missing one left out. Which of an order's outbound
invoices it compares is open (`.first()` without an order), so properties speak of each.

### InvoiceDesk: why it is not

Its requests do not read everything under their lock. `submit_invoice` commits and
`validate_invoice` follows in the same session; `accept_exception` reads the invoice, locks only the
exception, then validates. Sessions have `expire_on_commit=False` (`app/db.py:11`), and a
`SELECT ... FOR UPDATE` does not refresh an object a session already holds, so both validate the
object they read before they had the lock. `call[c].doc` is that object. A validation is two steps:
`Lock` (or `Revalidate`, `Correct`), which takes the lock and reads the other invoices, and `Commit`,
which writes the exceptions and the status. `Commit` writes the status only when it is new to the
session, as the ORM does. `Accept` holds the row of its exception from the start; a `Commit` that must write that
row would wait for it while it waits for the invoice: PostgreSQL ends one of the two (`Abort`,
which also stands for crashes).

An invoice says `[key, total, sound]`: `key` is what duplicates share, `total` is compared with the
limit, and `sound` stands for all checks a person cannot override (arithmetic, agreement with the
order, unauthorised discount, a missing field of an otherwise filled invoice): that an invoice
is sound means that `FigureFindings` of `FinancialChecks` is empty. `Blank` is the empty row of a capture. Details of an
exception are kept as far as they decide whether a validation writes the row of an exception that
is being accepted.

A document is an invoice or an expense (`row[i].kind`): the two tables have the same life, with
`submitted` for `received`, `rejected` for `void`, a limit and a duplicate search of their own, and
no capture and no payment for expenses. `paid` is `amount_paid`; `payment_status` follows from it.
The triggers are guards of every `Update`: `PaymentGuard` (008) and `NothingOpen`
(`block_if_open_exceptions`).

Who may send a request about a document is a matter of who knows its id, a random UUID that no
endpoint lists: whoever submitted it, from the answer; the finance desk, from an open exception of it
or from one that names it as what another document duplicates. That is `known`, and every request
but a submission needs it. A submission with an `Idempotency-Key` (`Keyed`; the header is optional)
needs no id to be repeated: `Resubmit` reads the row without a lock and can be under way beside
anything, the first submission included. So nothing runs beside a *first* submission unless an
exception of it shows its id, and everything runs beside everything else. `FromText` are the
documents that may come as text. Properties that repeated submissions break are stated of
`Invoices \ Keyed`; section 4 says how.

### Intake

`LeadToCash` has the delivery of an inquiry as one action and the desk has that of a document; here a
request (`call[c]`) goes through the statements one by one. A customer that is inserted and not
committed is `call[c].made`; an inquiry or document that is inserted and not committed is
`call[c].at = "commit"`. `CustomerTaken`, `RowTaken` and `InquiryLocked` are the rows a statement
waits for. The three ways the code deals with a conflict are three actions: `InsertInquiry` (ON
CONFLICT DO NOTHING, compare the hashes), `NewCustomer` (savepoint, search again), `InsertDocument`
(a 500). An extraction takes part from its copy of the inquiry (`call[c].seen`, read by `_start`) to
the contact it links; when it may begin is the chain's business, so here it may as long as none is
under way, or, with `Late`, even then. Requests are the environment's; a body is what it hashes to.

### Appointments

A booking is a request with four points at which others can come in between: it has locked its
inquiry and read the clock (`RequestAppointment`), it has the advisory lock and has searched and
inserted (`Allocate`), it commits (`Confirm`), or it ends early (`NoSlot`, `Abort`). `CalendarDown`
and `Report` are the two callers of `open_exception` for `downstream_failure`; that function's
select is their own step, its insert is `OpenItem`, and `exceptions_one_open_uq` makes the second of
two inserts an error (`Refused`). `item[i]` is the open item, of which only the service it names
matters. Days are counted from a Monday, a preference is a word that names one day, and a slot is a
whole hour.

### Workflow

`execution[e]` is where an execution of workflow 01 stands and what it has got from answers: the
approval, whether it has the token, and what the form said. A node's action makes the step of
`LeadToCash` its call makes, or none if the call is a replay or refused, and then either the
answer arrives (`Becomes`) or it is lost and the node tries again (`Answer`); a call can also be lost
before it arrives (`CallLost`), a worker can die, and n8n can stop waiting for an extraction that
goes on (`ExtractTimesOut`). Each of these counts as a fault. An answer of 4xx is retried like a
lost one (`Refuse`), as `retryOnFail` does. The other ends of error outputs are in `ErrorOutput`. A
decision that is refused brings the form back, as often as the approver answers it: the loop has no
bound, in the code or here.

## 3. What is checked

| Run | Instance | Shows |
|---|---|---|
| `policy` | discounts, quantities and prices around every limit; invoices with figures left out, exact, or off by one cent, two or a hundred | `DecisionTable`, `RequiredRoleCanGrant`, `PricesRound`, `OwnInvoicePasses`, `DiscountAuthorised` |
| `chain` | 2 inquiries, 2 extractions at once, 7 offers, 4 pairs of figures finance may type in; no extraction outlives the stale limit | `BilledOnce`, `AuthorityRespected`, `StatusMatchesRecords`, `EvidenceHolds`, `NoRegression`, `ReviewIsSticky` |
| `late` | 1 inquiry, 2 extractions that may outlive it; fair clock, sweep and server | `ExecutedAsApproved`, `OneApprovalPerInquiry`, `RulingExplainsApproval`, `ImplementsAgreedTerms`, `NothingStaysPending`, `ExtractionEnds` |
| `workflow` | 1 message delivered twice, 2 faults, 3 tries (2 for extraction) | `EndsAreTrue`, `OneLink`, `ExecutionsEnd`, `GrantIsCarriedOut` |
| `appointments` | 2 customers, 2 requests, 4 preferences, a Friday and a weekend, 2 days of one slot | `NoDoubleBooking`, `SlotsAreSensible`, `BookingEndsOutage`, `ReportsStay`, `EveryCallEnds` |
| `intake` | 2 requests at once, 2 keys, 2 messages, 2 addresses; no extraction outlives the limit | `AnswersAreTrue`, `CustomersMatch`, `StoredStays`, `EveryRequestEnds` |
| `desk_serial` | 2 documents of both kinds, 3 contents, 1 request at a time, repeated submissions among them | `PassedIsJustified`, `DuplicatesSignedOff` |
| `desk_concurrent` | 2 invoices, 1 content or a blank one, 2 requests, with capture and payments; one invoice can be submitted again beside anything | `PassedIsClean`, `PaidIsApproved`, `PostedIsPaid`, `FinalStaysFinal` |

`chain`, `appointments`, `intake` and `desk_serial` also check types.

**Why the bounds are enough.** The offers have one member for each branch of `decide`, two of them
just above and just below the manager's limit, one of these only because of its discount. Two
inquiries show whatever mixes their rows up; everything else about an inquiry concerns one. Two
workers are one extraction and its successor. Two approvals, quotes, orders and invoices leave
room for the second row that must not come to be (the proofs have no bound at all). Two attempts
are a first and a last one. In `chain` the figures typed in are those of one approval, its
total with the discount of another, and each of them missing.

At the desk two invoices are a duplicate pair, two requests are all that a row lock or a cached
object can bring to a conflict; the three contents are small, above the limit, and somebody else's,
above it and unsound. A payment is of 5 out of 6, or of all that is open, so two partial payments
are too much and a partial one followed by the rest is exact.

In `appointments` business is cut to one hour and the search to two days, so that a day and the
whole search can be full with two customers; the clock visits the first slot, the last one (here the same
hour) and the end of business. It starts on a Friday (`StartDay` 4) and stops on the Saturday
(`Horizon` 5), which is where `_next_business_day` matters. The preferences are one for each rule of `target_day`:
today, next week, a weekday that is today's, and another one.

In `intake` one message gives its sender and one does not, so one delivery brings a customer and
the other leaves it to the extraction; an extraction may read either address, so it can be the
address somebody is inserting. Two keys are two inquiries of the same new customer, or one inquiry
and its repetition; two requests are all that wait for each other over a row. The instance goes on for
ever (a key once used can be used again), so deadlock is checked.

In `workflow` two executions are a message and its repetition; `MaxFaults` is smaller than the
tries of an HTTP node, which `EndsAreTrue` and `GrantIsCarriedOut` need: with as many faults as
tries `check` and `report` themselves can fail for good, and nobody is told. With the two tries of
`AI Extract`, two faults do reach an error output. `rerun_closed` allows three.

Bounded quantities are the key sets, `MaxAttempts`, `Horizon` and `MaxFaults`; nothing else grows. In `policy`, `MaxBilled` keeps products below TLC's 32 bits, and an offset of a
cent is within the tolerance, of two cents is not. Two checks that each forgive a cent add up, so
`DiscountAuthorised` states the bound that results, 2.5 cents, and leaves out invoices over a
subtotal of zero, whose discount `effective_discount_pct` does not work out.
`CHECK_DEADLOCK FALSE` in the runs of the chain, the workflow and the calendar: once every key is
used and every inquiry is settled, every execution has ended or every customer is booked and the
clock has run out, the system does stop.

**Fairness.** `late`: n8n calls `/v1/approvals/expire-due` every 15 minutes (weak fairness of
`ExpireDue`), time passes (`DeadlinePasses`), and a request the server is working on goes on
(`WorkerStep`; its attempts are counted and each LLM call has a timeout). Nobody is assumed to
answer, to retry, or to call again, so nothing is claimed of an inquiry that is not pending.
`workflow`: n8n goes on with an execution it has stored (weak fairness of `Step`), the form times
out after 48 hours (`FormTimesOut`), and the service works on what it was asked (`Serve`). Nobody has
to fill the form in. Somebody may fill it in for ever, though, and be refused each time:
`ExecutionsEnd` says that an execution ends or a person does just that (`Insists`). `appointments`: a request goes on (weak fairness), and PostgreSQL grants the
advisory lock in the order of its queue, so a request that finds it free again and again does get
it (strong fairness of `Allocate` or `NoSlot`). `intake`: PostgreSQL wakes who waits for a row when
it is free (strong fairness of `Proceeds`, since others may get in first); nobody is assumed to call. Crashes stay possible; they are never required.

## 4. Disagreements with the documentation

Each is a run that TLC ends with a counterexample; `PROJECT.json` quotes the sentence concerned.

| Run | What happens |
|---|---|
| `timeout_rerun` | after an approval timed out, `/extract` starts again with nobody involved: the timeout is an item of the approval and `_start` looks at those of the inquiry |
| `large_order` | reducing the discount lifts an order above the limit of 50,000, and a salesperson has approved it: the escalation looked at the requested discount |
| `rerun_closed` | a document step fails for good after a person granted the approval; the same message again finds an approval that is neither automatic nor pending, and the new execution is closed: nothing continues |
| `desk_taken_back` | a repeated submission read the invoice before it was approved or voided, and validates that copy: the decision is undone. `submit_invoice` and `validate_invoice` are two transactions with one object (`routers/financial.py:80`) |

Others are visible in the models and have no run of their own:

- the same object makes `BlockedWhenFlagged` fail in the instance of `desk_taken_back`: a repeated
  submission read the invoice blocked, and a correction validated it meanwhile; the old findings are
  opened again, the status `blocked` is what the object has already and is not written, and a validated
  invoice has an open exception (`financial_service.py:6`: "Anything flagged is BLOCKED");
- `accept_exception` has such an object, too: with the contents `Slips`, `PassedIsJustified` fails in that
  instance. An acceptance that waited for a correction validates and signs the figures of before,
  closes what the correction opened, and passes the corrected invoice (`README.md:124`: "if the data
  changes later, the finding returns");
- with two invoices, two requests and the contents `Twins`, `DuplicatesSignedOff` fails: two corrections
  give two invoices the same number, neither validation sees the other, and both pass unflagged;
- `VoidIsIgnored` fails in the instance of `chain`: an invoice is corrected, voided and generated again.
  Of the two invoices of the order one bills the deal and one does not, and the verdict of
  `commercial_summary` is that of whichever row comes first;
- the answer of a capture is written without a lock. An invoice captured with an `Idempotency-Key`
  is validated by a repetition while the LLM still reads it; if its figures are corrected, approved
  and paid, the late answer may replace them. `PostedIsPaid` leaves out such invoices for it;
- of two submissions with one key at the same time, one is answered 500 (`InsertDocument`), where
  the repository's `README.md:125` says "Retried submissions (same `Idempotency-Key`) return the same record"; a try after that does
  (`AnswersAreTrue`);
- with `Late` TRUE, `StoredStays` fails: an extraction that outlives its successor links the inquiry
  to the customer it read itself, over the one that was linked, because `_link_contact` judges by the
  copy of before;
- with `SlowWorkers` TRUE, `NoRegression` fails: an extraction given up as stale finishes later and
  sets a decided inquiry back to `extracted` or `needs_review` (its documents are unharmed: run
  `late` and the proofs);
- a failure that n8n reports while an outage of the calendar is open is merged into that item
  (`ReportMerged`), and the booking that clears the outage leaves nobody to look at it. `ReportsStay`
  holds because it speaks of the items n8n opened. In `Workflow` the calendar has no items, so `GrantIsCarriedOut` does not see this;
- `record_payment` counts a repeated partial payment twice, up to the total: nothing in a request
  tells a retry from a second payment.

## 5. What is proved

All for every set of inquiries, rows, workers, offers and discounts, every number of attempts, and
with or without late extractions:

- `TypeCorrect`: `Spec => []TypeOK`.
- `ChainCorrect`: `Spec => []ChainInvariant`, from which follow `ExecutedIsApproved`,
  `SingleApproval`, `AuthorityHolds` and `RulingsExplain` (`LeadToCashProofs`);
- `NeverBilledTwice`: `Spec => []BilledOnce`, and `EvidenceIsConsistent`: `Spec => []EvidenceHolds`
  (`RecordsProofs`);
- there too, and only here with `~SlowWorkers`: `StatusIsTrue` (`StatusMatchesRecords`),
  `DecidedStaysDecided` (`NoRegression`) and `ReviewStays` (`ReviewIsSticky`);
- `ChainImplementsAgreedTerms`: `Spec => ImplementsAgreedTerms` (`AgreedTermsProofs`);
- `WorkflowRunsTheChain`: `WorkflowSpec => Spec`, for any number of executions, tries and
  faults, and hence `WorkflowKeepsTheChain`; `WorkflowTypes`, `OneLinkPerApproval`:
  `WorkflowSpec => []OneLink`, and, for `MaxFaults < MaxTries`, `EndsTrue`: `WorkflowSpec =>
  []EndsAreTrue`; and `ExecutionsAreFinite`: `WorkflowSpec => NeverGoesRound` (`WorkflowProofs`).

For any number of customers, requests and days, any business hours and any search
(`AppointmentsProofs`): `AppointmentsTyped`, `NeverDoubleBooked`, `SlotsSensible`
(`SlotsAreSensible`), `OutagesEnd` and `ReportsAreKept`; and `SearchDayIs`, what the recursive walk of
the search computes.

For any number of documents, requests at once, contents and amounts (`InvoiceDeskProofs`):
`DeskHolds`: `Spec => []DeskInvariant`, from which follow `DeskTypes`, `CleanPasses`
(`PassedIsClean`), `PaymentsApproved` (`PaidIsApproved`), `PostedExactly` (`PostedIsPaid`) and
`FinalIsKept` (`FinalStaysFinal`), where `CleanPasses` and `FinalIsKept` are about documents without an
`Idempotency-Key` and `PostedExactly` leaves out captures that have one; `PassedJustified`: `Spec /\ []OneRequestEach =>
[]PassedIsJustified`, for behaviours in which no two requests work on the same document at once;
and `DuplicatesSigned`: `Spec /\ []OneRequestEach /\ []ValidationsApart => []DuplicatesSignedOff`, if
moreover no two validations of the same number are about to commit side by side, whatever else goes on.

For any number of requests, keys, bodies and addresses (`IntakeProofs`): `IntakeHolds`: `Spec =>
[]IntakeInvariant`, `IntakeTypes`, and `AnswersHold` (`AnswersAreTrue`), whether or not extractions
come late; `CustomersAgree` (`CustomersMatch`) and `StoredIsKept` (`StoredStays`) unless they do; and
`NobodyIsStuck`: the requests under way never wait for each other in a circle.

And for requests of any quantity and price, and invoices of any size (`PolicyProofs`):
`DecisionsFollowTable`, `RoleSuffices`, `PricesAreRounded`, `OwnInvoicesPass` and
`DiscountsAreAuthorised`, one for each property of the run `policy`.

Assumptions: offers are positive quantities, prices in whole cents and whole percents
(`OffersAssumption`), at least one attempt and one try, and `None` is no row, no run and no request
(`NoneAssumption`, `NoRunAssumption`, each module's own); the contents of a document have a key and a
total that is a natural number (`ContentsAssumption`), and business begins and ends at an hour of the
day (`CalendarAssumption`). `PolicyProofs` assumes that quantities and prices are
natural numbers, discounts whole percents up to 100, and `None` no number and no order
(`RequestsAssumption`).

**The argument.** "Approved = executed" is not inductive by itself: a quote is only as good as the
approval it was copied from. The invariant adds that the hash of a granted approval is the hash of
its terms (`HashesAgree`); that a ruling explains its approval (`RulingExplainsApproval`), which
holds of the *latest* ruling only because there is one approval per inquiry
(`OneApprovalPerInquiry`), since `run_rules` writes a ruling only where there is no approval; that
an approval's status is possible under its ruling (`RulingsObeyed`); and that a status of
`extracted` means an offer was read (`OfferRead`), the precondition of pricing it. Nothing in it
mentions `worker` beyond its type: this is why late extractions cannot hurt it. The proof splits a
step by what it writes: only answers of people, the clock and the sweep touch a *pending* approval
(`PendingStep`), only `RunRules` opens one (`OpenedBy`), and an approval, once granted, never
changes (`GrantedKept`), so quotes, orders and invoices are kept or made sound one by one
(`QuoteKept`, `OrderKept`, `InvoiceKept`).

`BilledOnce` needs a second invariant (`LinksUsedOnce`): an approval has one quote, a quote one
order, an order one invoice that is not void. Two live invoices of an inquiry then lead back, through
the chain of documents, to its one approval, and forward again to one invoice. `EvidenceHolds`
follows from the same links, for void invoices too: hash, discount and total of quote and order are
those of the approval, an invoice keeps the hash, and so the verdict is that of the two columns
finance can change. Without a grant there is no document, hence nothing to compare and no match.

`StatusMatchesRecords` relates a status to four tables that are written at other times. Its inductive
form (`StatusInvariant`) says what a status can be beside each approval (`DecisionShown`), beside
each document, and the other way round (`DocumentsShown`), that an exception for a timeout comes with the
expired approval (`TimeoutsExpired`), and that a running extraction is the only one of its inquiry,
whose status is `extracting` and which is not stale (`WorkersCurrent`). The last part needs
`~SlowWorkers`: without it a second extraction starts beside the first, and whichever writes last
sets back what was decided in between (section 4). What each step finds is then known
(`ExtractionFinds`, `DecisionFinds`, `QuoteFinds`, ...), so each is an edge of the state diagram
(`Diagram`, `Moves`), from which `NoRegression` and `ReviewIsSticky` are read off.

The workflow's refinement is by inclusion: each of its actions leaves the chain alone or makes one
step of `Next`, the step of the endpoint it calls; an execution that makes documents has a reason in
the chain, not in what n8n believes. `OneLink` needs to know that a run past `decide` names an
approval that exists, and that a run that has not been answered has no token
(`RunsOK`); the token is handed over only in the very step that creates the approval, which is
why a second holder cannot come about, and a pending approval leaves `pending` by a person's answer
only through a run that holds the token. `RunRules` needs `OfferRead` of the chain to be typed.

`EndsAreTrue` is about where an execution ends, and holds because of where it has been: each
node relies on the one before it (`RunIsTrue`: at `order` there is a quote, at `invoice` an order, from
`validate` on an invoice). What an answer said is then still so when the node is reached, since documents,
refusals and reports stay (`ChainPersists`; a report stays because no extraction starts over it).
Only a lost call or answer makes `check` and `report` try again, so there is a fault for every try
but the first, and with fewer faults than tries neither gives up. `MaxFaults < MaxTries` is what the
promise needs, not what the code guarantees: `EndsTrue` says how many losses it outlasts.

That an execution cannot go on for ever is counted by two natural numbers (`Nearer`): how far the node is
from the end (`Ahead`), and at the same node how many calls it has left, and whether one is being
worked on (`Left`). Every step of an execution lowers the first, or keeps it and lowers the second,
with one exception: from a refused decision back to the form (`ShownAgain`), where it takes a person
to go on. This is `ExecutionsEnd` without what only fairness gives, that an execution which can go on
does.

The calendar's invariant (`CalendarInvariant`) says what the advisory lock protects: a request that
has inserted and not committed holds the lock, its slot is taken by no committed row, and its inquiry
is locked by it alone and has no row (`SlotsHeld`, `InquiriesHeld`). `Confirm` then adds a row that
differs in both from all others; without the lock two requests could hold the same slot. An outage
is opened only for an inquiry that is locked and not booked, and `Confirm` clears it in the step
that books, hence `BookingEndsOutage`.

That a slot is sensible is decided when it is found, so `TimelyInvariant` keeps it (`OnTime`) while the
request goes on and what the customer wants changes. That a day is the named one is stated in the
words of a calendar (`NamedDay`: the next day that is called so), not by the arithmetic of
`target_day`, and the two are shown to agree (`TargetDayIs`). A later day needs that every slot of the
named day was gone when the search passed it (`NothingLeft`), and it stays gone: bookings are only
added, and the moment of the request does not change. What has to be found out is where the search
can get to. `SearchDay` walks from business day to business day, a recursive function; the library's
induction theorem takes an operator, which the provers cannot instantiate, so induction over the naturals
is derived from the pigeonhole principle for finite sets (`Inductively`), and with it the closed form
`Nth`: five business days a week from a business day, none left out and no weekend among them.

The desk's invariant (`DeskInvariant`) relates each request to the row it is about (`RequestOK`), to
every other request (`PairOK`), and ids to rows (`KnownOK`): an id that is known, or that a request is
about to make known, is one whose first submission is answered, or is about to be, or whose row
says so. `PassedIsClean` fails as an inductive invariant because a `Commit` writes a status it worked
out from a copy. What saves it, for a document that is not submitted again: nobody can ask for it
while it is being submitted, so the copy of its submission is the row; a validation or correction that
has the lock read the row when it took it, and nobody else writes a locked row; and an acceptance that
waits keeps the exception it has locked open, so that the row cannot have passed meanwhile, even if
the copy is old in everything else. Hence no `Commit` meets a final row, and the status it writes is
the outcome of what it leaves open. A repeated submission has none of this, no lock when it reads and no
exception that it keeps open, which is what `desk_taken_back` shows. `PaidIsApproved`
needs none of it: the payment trigger is enough, for every document. Every action is an instance of
`OneStep` (one document, one request), `OneRequest` (no document) or `PersonStep` (no request).

`PassedIsJustified` needs the copy to be the row (`UpToDate`), which is so while one request works on
a document; `OneRequestEach` is therefore a hypothesis about the behaviour (section 4 says what happens
otherwise). The invariant (`Justified`) adds that a request about to commit has found
everything that is wrong with what it commits, or may waive it. `DuplicatesSignedOff` relates two
documents, and a validation reads the others before it commits: `DuplicatesSeen` says that what it
read is still so. Another request can spoil that only by making a document of the same kind and
number pass in between, which `ValidationsApart` excludes and row locks do not (section 4);
requests about other documents may go on.

The intake's invariant (`IntakeInvariant`) says what the unique indexes give a request before it
commits: no two requests have inserted the same key or the same address, and what has been inserted
is not there yet, so a commit adds and never replaces (`StoredStays`). `CustomersMatch` needs more: a
delivery that has inserted its customer must not end as a duplicate, which would commit a
customer for an inquiry that has one already. It cannot: the inquiry that is there says the same, so
it has the same sender, who was therefore on file, and would have been found. And a contact may be linked only
where none is: the copy of the extraction says so, and is the row as long as it is the only one.

`NobodyIsStuck` reads off the guards who waits for whom (`WaitsFor`, `WaitsAreGuards`): an extraction
for the one that has locked its inquiry, a delivery for the one that has inserted its customer or its
key. Whoever is waited for has come further (`StagesRise`: asking, looking for the customer, inserting
it, inserting the row, committing), since every request takes its locks in this order. So of any
requests under way one waits for nobody, which is why the database never has to break a
deadlock between them, and `EveryRequestEnds` needs no more than that requests go on.

The refinement reads the abstract deals, closed inquiries and documents off the rows (`Deals`,
`Closed`, `Executed`). Each action is then one of four things: it strikes a deal (`Struck`: a grant,
or an automatic approval), closes inquiries (`ClosedNow`: a rejection, an expiry, or the whole sweep
at once), issues one document of a deal (`Issued`), or is `Invisible`. The invariant supplies the
guards of the abstract steps: that an inquiry that is answered now was not answered before
(`OneApprovalPerInquiry`), that the grant is within the role (`AuthorityRespected`), and that the
document before the new one has the same terms (`ExecutedAsApproved`).

The policy's theorems rest on the bounds of half-up rounding (`MoneyBounds`): twice the rounded
quotient is within one divisor of twice the exact one. `PricesRound` and `OwnInvoicePasses` follow
by linear arithmetic. For `DiscountAuthorised`, `DiscountBound` takes the three ways an invoice can
state its discount apart: a percentage and an amount (tolerance and rounding of the amount), only an
amount (the percentage is rounded to a hundredth, hence half of one), or none (the total alone may
be a cent off); the tolerance of the total comes on top each time.

The runs check a formula's parts rather than the whole inductive invariant where the parts say it all
(`ChainInvariant`), and leave `WorkflowTypeOK` to its proof.

**Only model-checked:** liveness (`NothingStaysPending`, `ExtractionEnds`, `ExecutionsEnd`,
`GrantIsCarriedOut`, `EveryCallEnds`, `EveryRequestEnds`): weak and strong fairness are about
`ENABLED`, which TLAPS does not reach. Of two of them the part that is not about fairness is proved:
`ExecutionsAreFinite`, `NobodyIsStuck`. Every invariant and action property of the passing runs
is proved, eight of them under the hypotheses named above.

## 6. What is not modelled, and why

Wording, logging, audit rows, the cryptography of hashes and tokens; LLM prompts and the string
checks of answers (only their verdict matters to the chain); a second currency; names
of customers; the trail report; the console; deployment. An answer of the LLM is taken to fill every
field of an invoice. n8n's workflow 03 (invoice intake) calls endpoints that `InvoiceDesk` lets
anybody call, and 99 (errors) only writes the audit log. In `Workflow` the validation of the
invoice, the appointment and the consistency check change nothing of the chain and are steps
without effect. Nothing is voided or corrected in `Workflow` (`Elsewhere`). Preferences that name two days, and
slots across a change to summer time, are left out of `Appointments`.

## 7. Plan

In order of importance; each module is written to be proved about (constants with named
assumptions, one action per operation, no recursion).

1. Outbound drafts at the desk: `LeadToCash` lets finance change the figures of an invoice that
   `create_invoice` wrote; what `InvoiceDesk` and `FinancialChecks` find in them, and that none that
   leaves the approved terms is approved, is to be composed with it.
2. `Workflow` with the bookings and items of `Appointments`, so that a merged report is seen by
   `GrantIsCarriedOut`; the invoice intake 03.
