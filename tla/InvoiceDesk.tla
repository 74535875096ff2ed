---------------------------- MODULE InvoiceDesk ----------------------------
(***************************************************************************)
(* The finance desk for inbound invoices and for expenses: submit ->       *)
(* validate -> (block -> correct / accept / void or reject) -> approve ->  *)
(* pay.  The two kinds share the exceptions, the findings' treatment and   *)
(* the life of a request; expenses are never captured, voided or paid.     *)
(*                                                                         *)
(* In LeadToCash a transaction is one action, because it locks a row and   *)
(* then reads.  Here it is not, for three reasons, and each of them is a   *)
(* step of its own:                                                        *)
(*   - a validation reads the OTHER invoices, which it has not locked, and *)
(*     commits what it concluded later;                                    *)
(*   - a submission commits the invoice and validates it in a second       *)
(*     transaction of the same session, and an acceptance reads it before  *)
(*     it locks it.  The session keeps the object it read first            *)
(*     (expire_on_commit is off, and a SELECT ... FOR UPDATE does not      *)
(*     refresh an object the session already holds), so both validate what *)
(*     they saw BEFORE they held the lock;                                 *)
(*   - capturing an invoice from text commits an empty row, asks the LLM,  *)
(*     and fills the row in without locking it.                            *)
(* PostgreSQL runs at READ COMMITTED: a statement sees what is committed   *)
(* when it starts, and a row is locked from the first write or FOR UPDATE  *)
(* to the end of the transaction.  Taking the lock of an invoice and       *)
(* reading for its validation are one step: nobody else can touch that     *)
(* invoice in between.                                                     *)
(*                                                                         *)
(* An operator whose name has a suffix after an underscore is a seeded     *)
(* fault that no action uses.                                              *)
(***************************************************************************)
EXTENDS Naturals, FiniteSets

CONSTANTS
    Invoices,     \* primary keys of documents: inbound invoices and expenses
    Kinds,        \* which of "invoice" and "expense" are submitted
    Calls,        \* HTTP requests the service can be working on at once
    Contents,     \* what an invoice can say: [key, total, sound]
    Threshold,    \* invoice_approval_threshold, expense_approval_threshold: by kind
    Amounts,      \* what a payment can be of, in whole cents; None is all that is open
    FromText,     \* the documents that may be captured from text
    Keyed,        \* the documents submitted with an Idempotency-Key, which is optional
    None          \* no row, no request, no key

(* key is what makes two documents duplicates (supplier and number, or     *)
(* supplier, amount, date and order; employee, category, amount and date). *)
(* sound says of an invoice that the figures add up and agree with the     *)
(* order they refer to, of an expense that no receipt is missing.          *)
Blank   == [key |-> None, total |-> 0, sound |-> TRUE]
Written == Contents \union {Blank}

ASSUME ContentsAssumption ==
    /\ \A d \in Contents : /\ d.key # None /\ d.total \in Nat /\ d.sound \in BOOLEAN
                           /\ d = [key |-> d.key, total |-> d.total, sound |-> d.sound]
    /\ Kinds \subseteq {"invoice", "expense"}
    /\ Threshold \in [Kinds -> Nat] /\ Amounts \subseteq Nat \ {0}
    /\ FromText \subseteq Invoices /\ Keyed \subseteq Invoices

OVERRIDABLE      == {"duplicate_invoice", "over_threshold", "low_confidence"}
VALIDATOR_TYPES  == {"missing_field", "amount_mismatch", "duplicate_invoice", "over_threshold"}
AI_CAPTURE_TYPES == {"low_confidence", "llm_unavailable", "invalid_ai_output"}

VARIABLES
    row,       \* the tables invoices and expenses: a Row, or None
    open,      \* the open exceptions of each document: Items
    accepted,  \* resolutions of action "accept": [type, data]
    known,     \* the documents whose id somebody outside has been told
    call       \* the requests under way

vars == <<row, open, accepted, known, call>>

(* An exception row, with the details an acceptance depends on: what the   *)
(* invoice duplicates, and the amount over the limit.                      *)
Item       == [type : VALIDATOR_TYPES \union AI_CAPTURE_TYPES,
               matches : SUBSET Invoices, total : {d.total : d \in Written}]
(* paid is amount_paid; payment_status is "unpaid" as long as it is 0.     *)
InvoiceRow == [kind : {"invoice"}, data : Written, paid : Nat,
               status : {"received", "validated", "blocked", "approved", "posted", "void"}]
ExpenseRow == [kind : {"expense"}, data : Contents, paid : {0},
               status : {"submitted", "validated", "blocked", "approved", "rejected"}]
Row        == InvoiceRow \union ExpenseRow
(* doc is the session's copy of the invoice; accepts is the type of the    *)
(* exception an acceptance has locked; found holds the findings of a       *)
(* validation that has the lock.                                           *)
Request    == [op : {"submit", "repeat", "validate", "correct", "accept"},
               invoice : Invoices, doc : Row,
               accepts : OVERRIDABLE \union {None},
               at : {"capture", "lock", "commit"}, found : SUBSET Item]

ASSUME NoneAssumption ==
    /\ None \notin Row /\ None \notin Request
    /\ None \notin Calls /\ None \notin OVERRIDABLE \union VALIDATOR_TYPES

Init ==
    /\ row      = [i \in Invoices |-> None]
    /\ open     = [i \in Invoices |-> {}]
    /\ accepted = [i \in Invoices |-> {}]
    /\ known    = {}
    /\ call     = [c \in Calls |-> None]
-----------------------------------------------------------------------------
(***************************************************************************)
(* The checks (rules/financial_checks, _apply_findings)                    *)
(***************************************************************************)

Exists(i)      == row[i] # None
Types(items)   == {f.type : f \in items}

Withdrawn_NotApproved == {"void", "rejected", "received", "submitted", "validated", "blocked"}
(* The statuses of documents that nothing is a duplicate of.               *)
Withdrawn == {"void", "rejected"}

(* The documents that doc repeats: every other live one of its kind.       *)
Matches(i, doc) == {j \in Invoices \ {i} : /\ Exists(j)
                                           /\ row[j].kind = doc.kind
                                           /\ row[j].status \notin Withdrawn
                                           /\ row[j].data.key = doc.data.key}

(* invoice_findings and expense_findings: the types of what is wrong with  *)
(* document i when it is as doc.  An expense has no figures to compare.    *)
Flagged(i, doc) ==
    LET d == doc.data IN
    {t \in VALIDATOR_TYPES :
       \/ t = "missing_field" /\ (d = Blank \/ (doc.kind = "expense" /\ ~d.sound))
       \/ t = "amount_mismatch" /\ doc.kind = "invoice" /\ ~d.sound
       \/ t = "over_threshold" /\ d.total > Threshold[doc.kind]
       \/ t = "duplicate_invoice" /\ d # Blank /\ Matches(i, doc) # {}}

Finding(t, i, doc) ==
    [type |-> t, matches |-> IF t = "duplicate_invoice" THEN Matches(i, doc) ELSE {},
     total |-> IF t = "over_threshold" THEN doc.data.total ELSE 0]

AcceptedTypes_AnyData(i, d) == Types(accepted[i])

(* Acceptances hold for the data they were given for (data_hash).          *)
AcceptedTypes(i, d) == {a.type : a \in {b \in accepted[i] : b.data = d}}

(* A validation with the lock of its invoice, and all that it has read.    *)
Validation(k) ==
    LET waived == AcceptedTypes(k.invoice, k.doc.data) \union {k.accepts}
    IN [k EXCEPT !.at = "commit",
                 !.found = {Finding(t, k.invoice, k.doc) :
                              t \in Flagged(k.invoice, k.doc) \ waived}]

(* What is left open when the findings of k are applied: what was found,   *)
(* and what the capture of the invoice left behind, unless k is a          *)
(* correction, or the acceptance of just that.                             *)
LeftOpen(k) ==
    k.found \union {f \in open[k.invoice] : /\ f.type \in AI_CAPTURE_TYPES
                                           /\ k.op # "correct" /\ f.type # k.accepts}

Outcome_FoundOnly(k) == IF k.found = {} THEN "validated" ELSE "blocked"
Outcome(k) == IF LeftOpen(k) = {} THEN "validated" ELSE "blocked"
-----------------------------------------------------------------------------
(***************************************************************************)
(* Who may do what                                                         *)
(***************************************************************************)

Running       == {c \in Calls : call[c] # None}
On(i)         == {c \in Running : call[c].invoice = i}
Unlocked(i)   == \A c \in On(i) : call[c].at # "commit"
(* Exceptions of i whose rows a waiting acceptance has locked.             *)
Held(i)       == {call[c].accepts : c \in {e \in On(i) : call[e].at = "lock"}} \ {None}
(* The submission of i that has not been answered yet.                     *)
Submitting(i) == {c \in On(i) : call[c].op = "submit"}
(* A request on i needs its id, a random UUID.  Whoever submitted i is     *)
(* told with the answer, the finance desk with an open exception of i or   *)
(* with one that names i as what another document duplicates; no endpoint  *)
(* lists documents.                                                        *)
Available(i)  == i \in known /\ Exists(i)
Learn(ids)    == known' = known \union ids

NewRequest(op, i, doc) == [op |-> op, invoice |-> i, doc |-> doc, accepts |-> None,
                           at |-> "lock", found |-> {}]
Begin(c, k)   == call[c] = None /\ call' = [call EXCEPT ![c] = k]
End(c)        == call' = [call EXCEPT ![c] = None]

PaymentGuard_Off(new) == TRUE
(* invoices_payment_guard of 008_payments_and_explanations.sql             *)
PaymentGuard(new) == new.paid > 0 => /\ new.status \in {"approved", "posted"}
                                     /\ new.paid <= new.data.total
(* block_if_open_exceptions                                                *)
NothingOpen(i, new) == new.status \in {"approved", "posted"} => open[i] = {}

(* An UPDATE that the triggers on the table let pass.  An assignment that  *)
(* changes nothing is not an UPDATE.                                       *)
Update(i, new) ==
    /\ new # row[i] => PaymentGuard(new) /\ NothingOpen(i, new)
    /\ row' = [row EXCEPT ![i] = new]
-----------------------------------------------------------------------------
(***************************************************************************)
(* Submission and capture                                                  *)
(***************************************************************************)

Received_Draft(kind, d) == [kind |-> kind, status |-> "draft", data |-> d, paid |-> 0]
Received(kind, d) == [kind |-> kind, data |-> d, paid |-> 0,
                      status |-> IF kind = "invoice" THEN "received" ELSE "submitted"]

(* POST /v1/invoices, /v1/expenses: the first of the two transactions.     *)
Submit(c, i, kind, d) ==
    /\ ~Exists(i)
    /\ Begin(c, NewRequest("submit", i, Received(kind, d)))
    /\ row' = [row EXCEPT ![i] = Received(kind, d)]
    /\ UNCHANGED <<open, accepted, known>>

(* POST /v1/invoices/from-text: an empty invoice is committed, then the    *)
(* LLM is asked, with no lock and no transaction of use to anybody.        *)
SubmitText(c, i) ==
    /\ i \in FromText /\ "invoice" \in Kinds
    /\ ~Exists(i)
    /\ Begin(c, [NewRequest("submit", i, Received("invoice", Blank)) EXCEPT !.at = "capture"])
    /\ row' = [row EXCEPT ![i] = Received("invoice", Blank)]
    /\ UNCHANGED <<open, accepted, known>>

(* A repeated submission (same Idempotency-Key) reads the document without *)
(* locking it, whatever else is under way, and validates it again.         *)
Resubmit(c, i) ==
    /\ Exists(i) /\ i \in Keyed
    /\ Begin(c, NewRequest("repeat", i, row[i]))
    /\ UNCHANGED <<row, open, accepted, known>>

(* open_exception: one open item of a type, its details left as they are.  *)
WithItem(i, t) == IF t \in Types(open[i]) THEN open[i]
                  ELSE open[i] \union {[type |-> t, matches |-> {}, total |-> 0]}

(* No usable answer after all attempts: the invoice stays empty.           *)
CaptureFails(c, t) ==
    /\ c \in Running /\ call[c].at = "capture"
    /\ open' = [open EXCEPT ![call[c].invoice] = WithItem(call[c].invoice, t)]
    /\ Learn({call[c].invoice})
    /\ call' = [call EXCEPT ![c].at = "lock"]
    /\ UNCHANGED <<row, accepted>>

(* A valid answer is written to the row, sure or not.  The write waits for *)
(* whoever has the row locked, and does not look at its status; only the   *)
(* triggers do.                                                            *)
Capture(c, d, sure) ==
    /\ c \in Running /\ call[c].at = "capture"
    /\ LET i == call[c].invoice IN
         /\ Unlocked(i)
         /\ Update(i, [row[i] EXCEPT !.data = d])
         /\ open' = [open EXCEPT ![i] = IF sure THEN @ ELSE WithItem(i, "low_confidence")]
         /\ Learn(IF sure THEN {} ELSE {i})
    /\ call' = [call EXCEPT ![c].at = "lock", ![c].doc.data = d]
    /\ UNCHANGED accepted
-----------------------------------------------------------------------------
(***************************************************************************)
(* Validation                                                              *)
(***************************************************************************)

Closed_Approved(doc) == doc.status = "approved"
(* The statuses in which a validation returns at once.                     *)
Closed(doc) == doc.status \in {"approved", "posted"} \union Withdrawn

(* POST /v1/invoices/{id}/validate: nothing was read before the lock.      *)
Revalidate(c, i) ==
    /\ Available(i) /\ Unlocked(i)
    /\ row[i].kind = "invoice"
    /\ ~Closed(row[i])
    /\ Begin(c, Validation(NewRequest("validate", i, row[i])))
    /\ UNCHANGED <<row, open, accepted, known>>

(* The FOR UPDATE of a submission or an acceptance: the lock is had, the   *)
(* object is the one of before.  An early return rolls an acceptance back. *)
Lock(c) ==
    /\ c \in Running /\ call[c].at = "lock"
    /\ Unlocked(call[c].invoice)
    /\ IF Closed(call[c].doc) THEN End(c) /\ Learn({call[c].invoice})
       ELSE call' = [call EXCEPT ![c] = Validation(@)] /\ UNCHANGED known
    /\ UNCHANGED <<row, open, accepted>>

(* _apply_findings and the new status.  Items that go, or whose details    *)
(* change, are written: if a waiting acceptance has locked one of them,    *)
(* the two wait for each other and PostgreSQL ends one (Abort).  The       *)
(* status is written only if it is new to the session, the figures only by *)
(* a correction.                                                           *)
Commit(c) ==
    /\ c \in Running /\ call[c].at = "commit"
    /\ LET k == call[c]
           i == k.invoice IN
         /\ Types(open[i] \ LeftOpen(k)) \intersect Held(i) = {}
         /\ open' = [open EXCEPT ![i] = LeftOpen(k)]
         /\ accepted' = [accepted EXCEPT ![i] =
                           @ \union {[type |-> t, data |-> k.doc.data] : t \in {k.accepts} \ {None}}]
         /\ Update(i, [row[i] EXCEPT
                         !.status = IF Outcome(k) = k.doc.status THEN @ ELSE Outcome(k),
                         !.data   = IF k.op = "correct" THEN k.doc.data ELSE @])
         /\ Learn({i} \union UNION {f.matches : f \in k.found})
    /\ End(c)

(* A deadlock victim, a lost connection or a crash: the transaction under  *)
(* way is rolled back, those that were committed stay.                     *)
Abort(c) ==
    /\ c \in Running
    /\ End(c)
    /\ UNCHANGED <<row, open, accepted, known>>
-----------------------------------------------------------------------------
(***************************************************************************)
(* What people do                                                          *)
(***************************************************************************)

EDITABLE_INVOICE_STATUSES == {"received", "validated", "blocked"}
EDITABLE_EXPENSE_STATUSES == {"submitted", "validated", "blocked"}
Editable(doc) == doc.status \in IF doc.kind = "invoice" THEN EDITABLE_INVOICE_STATUSES
                                                        ELSE EDITABLE_EXPENSE_STATUSES

(* correct_invoice, correct_expense: read under the lock, write, and       *)
(* validate what was written in the same transaction.                      *)
Correct(c, i, d) ==
    /\ Available(i) /\ Unlocked(i)
    /\ Editable(row[i])
    /\ Begin(c, Validation(NewRequest("correct", i, [row[i] EXCEPT !.data = d])))
    /\ UNCHANGED <<row, open, accepted, known>>

(* accept_exception locks the exception, not the invoice, and signs the    *)
(* data it reads now.                                                      *)
Accept(c, i, t) ==
    /\ Available(i)
    /\ t \in OVERRIDABLE \intersect Types(open[i])
    /\ \A e \in On(i) : call[e].accepts # t
    /\ Begin(c, [NewRequest("accept", i, row[i]) EXCEPT !.accepts = t])
    /\ UNCHANGED <<row, open, accepted, known>>

(* approve_invoice, and decide_expense with "approve".                     *)
ApproveInvoice(i) ==
    /\ Available(i) /\ Unlocked(i)
    /\ row[i].status = "validated"
    /\ Update(i, [row[i] EXCEPT !.status = "approved"])
    /\ UNCHANGED <<open, accepted, known, call>>

(* A document that is withdrawn takes its open exceptions along.  Those a  *)
(* waiting acceptance has locked make it wait, until one of the two ends.  *)
Withdraw(i, newStatus) ==
    /\ Available(i) /\ Unlocked(i)
    /\ Types(open[i]) \intersect Held(i) = {}
    /\ open' = [open EXCEPT ![i] = {}]
    /\ Update(i, [row[i] EXCEPT !.status = newStatus])
    /\ UNCHANGED <<accepted, known, call>>

VoidInvoice(i) ==
    /\ Exists(i) /\ row[i].kind = "invoice"
    /\ row[i].status \notin {"approved", "posted"}
    /\ Withdraw(i, "void")

(* decide_expense with "reject".                                           *)
RejectExpense(i) ==
    /\ Exists(i) /\ row[i].kind = "expense"
    /\ row[i].status # "approved"
    /\ Withdraw(i, "rejected")

(* What is still to be paid of an invoice.                                 *)
Outstanding(doc) == doc.data.total - doc.paid

FullyPaid_AtOnce(doc, value) == value >= doc.data.total
(* Is the invoice settled by this amount?                                  *)
FullyPaid(doc, value) == doc.paid + value >= doc.data.total

(* record_payment: a part of what is open, or all of it.  When nothing is  *)
(* open the call changes nothing.                                          *)
RecordPayment(i, amount) ==
    /\ Available(i) /\ Unlocked(i)
    /\ row[i].kind = "invoice" /\ row[i].status \in {"approved", "posted"}
    /\ row[i].data # Blank
    /\ LET value == IF amount = None THEN Outstanding(row[i]) ELSE amount IN
         /\ value > 0 /\ value <= Outstanding(row[i])
         /\ Update(i, [row[i] EXCEPT
                         !.paid = @ + value,
                         !.status = IF FullyPaid(row[i], value) THEN "posted" ELSE @])
    /\ UNCHANGED <<open, accepted, known, call>>
-----------------------------------------------------------------------------
Next ==
    \/ \E c \in Calls, i \in Invoices :
         \/ \E d \in Contents : Correct(c, i, d) \/ \E kind \in Kinds : Submit(c, i, kind, d)
         \/ SubmitText(c, i) \/ Resubmit(c, i) \/ Revalidate(c, i)
         \/ \E t \in OVERRIDABLE : Accept(c, i, t)
    \/ \E c \in Calls :
         \/ \E d \in Contents, sure \in BOOLEAN : Capture(c, d, sure)
         \/ \E t \in AI_CAPTURE_TYPES \ {"low_confidence"} : CaptureFails(c, t)
         \/ Lock(c) \/ Commit(c) \/ Abort(c)
    \/ \E i \in Invoices :
         \/ ApproveInvoice(i) \/ VoidInvoice(i) \/ RejectExpense(i)
         \/ \E amount \in Amounts \union {None} : RecordPayment(i, amount)

Spec == Init /\ [][Next]_vars
-----------------------------------------------------------------------------
(***************************************************************************)
(* Properties                                                              *)
(***************************************************************************)

Passed(i) == Exists(i) /\ row[i].status \in {"validated", "approved", "posted"}
SignedFor(i, t) == [type |-> t, data |-> row[i].data] \in accepted[i]

(* The tables and the requests keep their shape.                           *)
DeskTypeOK ==
    /\ row      \in [Invoices -> Row \union {None}]
    /\ open     \in [Invoices -> SUBSET Item]
    /\ accepted \in [Invoices -> SUBSET [type : OVERRIDABLE, data : Written]]
    /\ known    \subseteq Invoices
    /\ call     \in [Calls -> Request \union {None}]

(* The status and the exception queue never contradict each other: a       *)
(* document that is validated or approved has nothing open, and a type is  *)
(* open at most once, whatever submissions, validations, captures,         *)
(* acceptances, corrections, approvals and withdrawals of it are under way *)
(* together.  A document that can be submitted again is not among them:    *)
(* see BlockedWhenFlagged.                                                 *)
PassedIsClean == \A i \in Invoices \ Keyed :
    /\ Passed(i) => open[i] = {}
    /\ \A f, g \in open[i] : f.type = g.type => f = g

(* "An acceptance is bound to a hash of the document data": a document     *)
(* that is validated or beyond says something that adds up, and if it is   *)
(* above the limit a person signed for the very data it has now.           *)
PassedIsJustified == \A i \in Invoices : Passed(i) =>
    /\ row[i].data # Blank
    /\ row[i].data.sound
    /\ row[i].data.total > Threshold[row[i].kind] => SignedFor(i, "over_threshold")

(* Two live invoices of the same supplier and number, or two claims of the *)
(* same expense, both pass only if a person accepted one of them, as it is *)
(* now, as no duplicate.                                                   *)
DuplicatesSignedOff == \A i, j \in Invoices :
    i # j /\ Passed(i) /\ Passed(j)
          /\ row[i].kind = row[j].kind /\ row[i].data.key = row[j].data.key
      => SignedFor(i, "duplicate_invoice") \/ SignedFor(j, "duplicate_invoice")

(* Once its submission has been answered, an approved document is never    *)
(* edited, reopened or withdrawn, only paid, and a paid or withdrawn one   *)
(* never comes back, whatever validations, acceptances and corrections saw *)
(* it before.  Not so if it can be submitted again: see FinalIsFinal.      *)
StaysFinal(i) ==
    /\ Exists(i) /\ row[i].status \in {"approved", "posted"} =>
          /\ row'[i].data = row[i].data /\ row'[i].paid >= row[i].paid
          /\ row'[i].status \in {row[i].status, "posted"}
    /\ Exists(i) /\ row[i].status \in Withdrawn => row'[i] = row[i]
FinalStaysFinal ==
    [][\A i \in Invoices \ Keyed : Submitting(i) = {} => StaysFinal(i)]_vars

(* Money never moves on an invoice that was not approved, and never beyond *)
(* its total, although validations that saw it before it was approved      *)
(* commit after it was paid.                                               *)
PaidIsApproved == \A i \in Invoices : Exists(i) /\ row[i].paid > 0 =>
    /\ row[i].kind = "invoice" /\ row[i].status \in {"approved", "posted"}
    /\ row[i].paid <= row[i].data.total

(* An invoice is posted exactly when partial payments and the last one add *)
(* up to what it says, also if its submission is repeated while it is paid.*)
(* Only a capture with an Idempotency-Key, whose invoice a person can      *)
(* correct, approve and pay before the LLM answers, may change the total.  *)
PostedIsPaid == \A i \in Invoices \ (Keyed \intersect FromText) : Exists(i) =>
    (row[i].status = "posted" <=> row[i].paid > 0 /\ row[i].paid = row[i].data.total)
-----------------------------------------------------------------------------
(***************************************************************************)
(* What the documentation says and the code does not keep; TLC refutes     *)
(* both with one invoice and two requests, the first in a run of its own.  *)
(***************************************************************************)

(* docs/architecture.md:89-98: an approved invoice is never taken back and *)
(* nothing leads out of void.  A repeated submission validates the row as  *)
(* it was before it waited for the lock.                                   *)
FinalIsFinal == [][\A i \in Invoices : Submitting(i) = {} => StaysFinal(i)]_vars

(* financial_service.py:6: anything flagged is blocked.  A repeated        *)
(* submission that saw the document blocked does not write that status.    *)
BlockedWhenFlagged == \A i \in Invoices : Passed(i) => open[i] = {}
=============================================================================
