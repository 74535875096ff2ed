------------------------------ MODULE Workflow ------------------------------
(***************************************************************************)
(* Workflow 01 of n8n, which drives the chain of LeadToCash, with the      *)
(* sweep of workflow 02.  n8n orchestrates and the API decides: an         *)
(* execution walks from node to node, and what it knows is what the        *)
(* answers said.                                                           *)
(*                                                                         *)
(* A call can fail before it reaches the service, its answer can be lost   *)
(* after the service did the work, and an answer of 4xx is an error like   *)
(* any other: n8n repeats the call until it has tried Tries times, and     *)
(* then follows the node's error output.  A sender who repeats a message   *)
(* starts another execution, with the same Idempotency-Key.                *)
(*                                                                         *)
(* An execution is durable: n8n stores it while it waits.  The document    *)
(* steps, the decision and the extraction are those of LeadToCash.         *)
(*                                                                         *)
(* An operator whose name has a suffix after an underscore is a seeded     *)
(* fault that no action uses.                                              *)
(***************************************************************************)
EXTENDS LeadToCash

CONSTANTS
    Executions,   \* executions of the workflow
    MaxTries,     \* maxTries of an HTTP node (3)
    MaxFewTries,  \* ... of AI Extract and Book Appointment (2)
    MaxFaults     \* bound: calls and answers lost, and workers that die

ASSUME TriesAssumption ==
    /\ MaxTries \in Nat \ {0} /\ MaxFewTries \in Nat \ {0}
    /\ MaxFaults \in Nat

VARIABLES
    execution,  \* executions under way or ended: a Run, or None
    faults      \* how many calls and answers have been lost

all == <<vars, execution, faults>>

HttpNodes == {"create", "extract", "decide", "submit", "expire", "quote", "order",
              "invoice", "validate", "book", "check", "report"}
Ends      == {"intake error", "extraction error", "needs review", "decision error",
              "closed", "rejected", "timed out", "failed", "completed"}

(* worker is the extraction whose answer the node waits for; approval and  *)
(* token are from the answer of /decide, action and pct from the form.     *)
Run == [inquiry : Inquiries, at : HttpNodes \union Ends \union {"form"},
        tries : Nat \ {0}, worker : Workers \union {None},
        approval : Approvals \union {None}, token : BOOLEAN,
        action : {"approve", "modify", "reject", None}, pct : Percents \union {None}]

ASSUME NoRunAssumption == None \notin Run /\ None \notin Workers

WorkflowInit ==
    /\ Init
    /\ execution = [e \in Executions |-> None]
    /\ faults = 0
-----------------------------------------------------------------------------
(***************************************************************************)
(* Nodes                                                                   *)
(***************************************************************************)

At(e, n)  == execution[e] # None /\ execution[e].at = n
Ended(e)  == execution[e] # None /\ execution[e].at \in Ends
Tries_Once(n) == 1
Tries(n)  == IF n \in {"extract", "book"} THEN MaxFewTries ELSE MaxTries
GoTo(x, n) == [x EXCEPT !.at = n, !.tries = 1, !.worker = None]

ErrorOutput_Checked ==
    [create |-> "intake error", extract |-> "extraction error", decide |-> "decision error",
     submit |-> "form", expire |-> "timed out",
     quote |-> "check", order |-> "check", invoice |-> "check", validate |-> "check",
     book |-> "check", check |-> "failed", report |-> "failed"]

(* Where the error output of a node leads; those of expire and of check    *)
(* are not connected, and book goes on as if nothing had happened.  A      *)
(* decision that failed is shown to the approver on the form again, as     *)
(* often as it takes.                                                      *)
ErrorOutput ==
    [create |-> "intake error", extract |-> "extraction error", decide |-> "decision error",
     submit |-> "form", expire |-> "timed out",
     quote |-> "report", order |-> "report", invoice |-> "report", validate |-> "report",
     book |-> "check", check |-> "failed", report |-> "failed"]
OnError(x) == GoTo(x, ErrorOutput[x.at])

Again_Uncounted(x) == IF x.tries < Tries(x.at) THEN [x EXCEPT !.worker = None] ELSE OnError(x)
(* retryOnFail: the call is made once more, or the error output is taken.  *)
Again(x) == IF x.tries < Tries(x.at) THEN [x EXCEPT !.tries = @ + 1, !.worker = None]
            ELSE OnError(x)

Fault == faults < MaxFaults /\ faults' = faults + 1
Becomes(e, x) == execution' = [execution EXCEPT ![e] = x]

(* The service has answered, and execution e goes on as x; or the answer   *)
(* is lost.                                                                *)
Answer(e, x) ==
    \/ Becomes(e, x) /\ UNCHANGED faults
    \/ Fault /\ Becomes(e, Again(execution[e]))
Refuse(e) == Answer(e, Again(execution[e]))

(* A node that waits for the answer of a call; the call may be lost, too.  *)
Waits(e, n) == At(e, n) /\ execution[e].worker = None
CallLost(e) ==
    /\ \E n \in HttpNodes : Waits(e, n)
    /\ Fault
    /\ Becomes(e, Again(execution[e]))
    /\ UNCHANGED vars
-----------------------------------------------------------------------------
(***************************************************************************)
(* Intake, extraction and the ruling                                       *)
(***************************************************************************)

(* A message arrives, or arrives again. *)
Webhook(e, i) ==
    /\ execution[e] = None
    /\ Becomes(e, [inquiry |-> i, at |-> "create", tries |-> 1, worker |-> None,
                   approval |-> None, token |-> FALSE, action |-> None, pct |-> None])
    /\ UNCHANGED <<vars, faults>>

Create(e) ==
    /\ Waits(e, "create")
    /\ LET x == execution[e] IN
         /\ CreateInquiry(x.inquiry) \/ (status[x.inquiry] # "absent" /\ UNCHANGED vars)
         /\ Answer(e, GoTo(x, "extract"))

(* POST .../extract: it begins, it was done before, or it is refused.      *)
Extract(e) ==
    /\ Waits(e, "extract")
    /\ LET x == execution[e]
           i == x.inquiry IN
         \/ \E w \in Workers : /\ StartExtraction(w, i)
                               /\ Becomes(e, [x EXCEPT !.worker = w])
                               /\ UNCHANGED faults
         \/ /\ status[i] \in FINAL_INQUIRY_STATUSES \union {"extracted"}
            /\ UNCHANGED vars
            /\ Answer(e, GoTo(x, "decide"))
         \/ /\ status[i] \in {"extracting", "needs_review"} /\ ~MayExtract(i)
            /\ UNCHANGED vars
            /\ Refuse(e)

WaitingFor(w) == {e \in Executions : execution[e] # None /\ execution[e].worker = w}

(* The extraction ends, and its answer goes to whoever still waits for it. *)
ExtractAnswers(w) ==
    /\ ExtractionSucceeds(w) \/ ExtractionGivesUp(w)
    /\ IF WaitingFor(w) = {} THEN UNCHANGED <<execution, faults>>
       ELSE \E e \in WaitingFor(w) :
              Answer(e, GoTo(execution[e], IF status'[worker[w].inquiry] = "extracted"
                                           THEN "decide" ELSE "needs review"))

LlmAttempt(w) ==
    /\ \E kind \in {"invalid", "unavailable"}, r \in BOOLEAN : LlmFails(w, kind, r)
    /\ UNCHANGED <<execution, faults>>

ExtractDies(w) ==
    /\ Fault
    /\ ExtractionCrashes(w)
    /\ execution' = [e \in Executions |-> IF e \in WaitingFor(w) THEN Again(execution[e])
                                          ELSE execution[e]]

(* The node gives up after 120 s, or the connection breaks; the service    *)
(* does not notice.                                                        *)
ExtractTimesOut(e) ==
    /\ At(e, "extract") /\ execution[e].worker # None
    /\ Fault
    /\ Becomes(e, Again(execution[e]))
    /\ UNCHANGED vars

(* Route by Outcome, on the answer of /decide about approval a             *)
Route(outcome, row) == IF outcome = "auto_approve" THEN "quote"
                       ELSE IF row.status = "pending" THEN "form"
                       ELSE "closed"

TokenOfAnswer_Replayed(a) == approval'[a].token
(* approval_token is "returned once": by the call that made the approval.  *)
TokenOfAnswer(a) == approval'[a].token /\ approval[a] = None

Decided(e, a) ==
    LET x == execution[e] IN
    Answer(e, [GoTo(x, Route(ruling'[x.inquiry], approval'[a]))
                 EXCEPT !.approval = a, !.token = TokenOfAnswer(a)])

(* POST .../decide: the ruling, its replay, or 409.                        *)
DecideInquiry(e) ==
    /\ Waits(e, "decide")
    /\ LET i == execution[e].inquiry IN
         \/ RunRules(i) /\ \E a \in Rows(approval') \ Rows(approval) : Decided(e, a)
         \/ \E a \in ApprovalsOf(i) : UNCHANGED vars /\ Decided(e, a)
         \/ /\ ApprovalsOf(i) = {} /\ ~MayDecide(i)
            /\ UNCHANGED vars
            /\ Refuse(e)
-----------------------------------------------------------------------------
(***************************************************************************)
(* The approver                                                            *)
(***************************************************************************)

(* Somebody fills the form in, approving, refusing or choosing a discount. *)
FillForm(e, action, pct) ==
    /\ At(e, "form")
    /\ Becomes(e, [GoTo(execution[e], "submit") EXCEPT !.action = action, !.pct = pct])
    /\ UNCHANGED <<vars, faults>>

(* Nobody does, for 48 hours by the clock of n8n. *)
FormTimesOut(e) ==
    /\ At(e, "form")
    /\ Becomes(e, GoTo(execution[e], "expire"))
    /\ UNCHANGED <<vars, faults>>

(* Answered 422 at once: there is no token, or no discount to modify to.   *)
Incomplete(x) == ~x.token \/ (x.action = "modify" /\ x.pct = None)

(* apply_decision for the holder of the token, as far as the policy lets it*)
Apply(x) == \/ x.action = "approve" /\ Approve(x.approval)
            \/ x.action = "modify"  /\ x.pct # None /\ Modify(x.approval, x.pct)
            \/ x.action = "reject"  /\ Reject(x.approval)

BeyondAuthority(x) ==
    LET row == approval[x.approval] IN
    /\ Decidable(x.approval)
    /\ x.action = "modify" /\ (x.pct > row.offer.pct \/ ~MayGrant(row.role, x.pct))

(* Granted?, on a first answer or the replay of an earlier decision        *)
AfterDecision(x, row) == GoTo(x, IF Granted(row) THEN "quote" ELSE "rejected")

SubmitDecision(e) ==
    /\ Waits(e, "submit")
    /\ LET x == execution[e]
           a == x.approval IN
         IF Incomplete(x) THEN UNCHANGED vars /\ Refuse(e)
         ELSE \/ Apply(x) /\ Answer(e, AfterDecision(x, approval'[a]))
              \/ DecideTooLate(a) /\ Refuse(e)
              \/ BeyondAuthority(x) /\ UNCHANGED vars /\ Refuse(e)
              \/ approval[a].status # "pending" /\ UNCHANGED vars
                   /\ Answer(e, AfterDecision(x, approval[a]))

ExpireOverdue(e) ==
    /\ Waits(e, "expire")
    /\ ExpireDue \/ (Due = {} /\ UNCHANGED vars)
    /\ Answer(e, GoTo(execution[e], "timed out"))
-----------------------------------------------------------------------------
(***************************************************************************)
(* The documents                                                           *)
(***************************************************************************)

QuoteOf(i)   == CHOOSE q \in QuotesOf(i) : TRUE
OrderOf(i)   == CHOOSE o \in OrdersOf(i) : TRUE

(* The quote, the order and the invoice are made, found or refused.  An    *)
(* answer names the document the next call is about: there is one.         *)
QuoteStep(e) ==
    /\ Waits(e, "quote")
    /\ LET i == execution[e].inquiry IN
         \/ /\ CreateQuote(i) \/ (QuotesOf(i) # {} /\ UNCHANGED vars)
            /\ Answer(e, GoTo(execution[e], "order"))
         \/ GrantedOf(i) = {} /\ UNCHANGED vars /\ Refuse(e)

OrderStep(e) ==
    /\ Waits(e, "order")
    /\ LET i == execution[e].inquiry
           q == QuoteOf(i) IN
         \/ /\ CreateOrder(q) \/ (OrdersOf(i) # {} /\ UNCHANGED vars)
            /\ Answer(e, GoTo(execution[e], "invoice"))
         \/ OrderTooLate(q) /\ Refuse(e)
         \/ quote[q].status = "expired" /\ UNCHANGED vars /\ Refuse(e)

InvoiceStep(e) ==
    /\ Waits(e, "invoice")
    /\ LET o == OrderOf(execution[e].inquiry) IN
         CreateInvoice(o) \/ (~Billable(o) /\ UNCHANGED vars)
    /\ Answer(e, GoTo(execution[e], "validate"))

(* What the chain does not notice: the validation of the invoice, the call *)
(* that was asked for, booked or not, and the consistency check.           *)
LastSteps(e) ==
    /\ UNCHANGED vars
    /\ \/ Waits(e, "validate") /\ \E n \in {"book", "check"} : Answer(e, GoTo(execution[e], n))
       \/ Waits(e, "book")  /\ Answer(e, GoTo(execution[e], "check"))
       \/ Waits(e, "check") /\ Answer(e, GoTo(execution[e], "completed"))

ReportFailure(e) ==
    /\ Waits(e, "report")
    /\ ReportWorkflowFailure(execution[e].inquiry)
    /\ Answer(e, GoTo(execution[e], "failed"))
-----------------------------------------------------------------------------
(* What happens without the workflow: clocks, and the sweep.  Documents    *)
(* are voided at the desk, which is left out.                              *)
Elsewhere ==
    /\ \/ ExpireDue
       \/ \E a \in Approvals : DeadlinePasses(a)
       \/ \E q \in Quotes : QuoteLapses(q)
       \/ \E i \in Inquiries : ExtractionGoesStale(i)
    /\ UNCHANGED <<execution, faults>>

Step(e) == Create(e) \/ Extract(e) \/ DecideInquiry(e) \/ SubmitDecision(e)
              \/ ExpireOverdue(e) \/ QuoteStep(e) \/ OrderStep(e) \/ InvoiceStep(e)
              \/ LastSteps(e) \/ ReportFailure(e)
Serve(w) == LlmAttempt(w) \/ ExtractAnswers(w)

WorkflowNext ==
    \/ \E e \in Executions :
         \/ \E i \in Inquiries : Webhook(e, i)
         \/ Step(e) \/ CallLost(e) \/ ExtractTimesOut(e) \/ FormTimesOut(e)
         \/ \E action \in {"approve", "reject"} : FillForm(e, action, None)
         \/ \E pct \in Percents \union {None} : FillForm(e, "modify", pct)
    \/ \E w \in Workers : Serve(w) \/ ExtractDies(w)
    \/ Elsewhere

WorkflowSpec == WorkflowInit /\ [][WorkflowNext]_all

(* n8n calls, calls again and lets the form time out; the service answers; *)
(* the sweep runs.  Nobody has to send a message or to fill in a form.     *)
FairWorkflowSpec ==
    /\ WorkflowSpec
    /\ \A e \in Executions : WF_all(Step(e)) /\ WF_all(FormTimesOut(e))
    /\ \A w \in Workers : WF_all(Serve(w))
-----------------------------------------------------------------------------
(***************************************************************************)
(* Properties                                                              *)
(***************************************************************************)

(* The state of executions keeps its shape, and so does the chain.         *)
WorkflowTypeOK ==
    /\ TypeOK
    /\ execution \in [Executions -> Run \union {None}]
    /\ faults \in 0 .. MaxFaults

InvoicesFor(e) == InvoicesOf(execution[e].inquiry)

(* What an execution ends with is true, and stays true, however its calls  *)
(* were lost and repeated, as long as there are fewer faults than tries:   *)
(* an invoice was made, the request was refused or timed out, or a person  *)
(* finds the failure in the queue.                                         *)
EndsAreTrue == \A e \in Executions :
    /\ At(e, "completed") => InvoicesFor(e) # {}
    /\ At(e, "rejected")  => approval[execution[e].approval].status \in {"rejected", "expired"}
    /\ At(e, "failed")    => "downstream_failure" \in review[execution[e].inquiry]

(* n8n/README.md: the token "never leaves n8n + API".  One execution has   *)
(* it, however often /decide is called, and what a person decided was      *)
(* decided by the execution that has it.                                   *)
Holders(a) == {e \in Executions : execution[e] # None /\ execution[e].approval = a
                                                       /\ execution[e].token}
OneLink == \A a \in Rows(approval) :
    /\ \A e, f \in Holders(a) : e = f
    /\ approval[a].token /\ approval[a].status \in {"approved", "modified", "rejected"}
          => Holders(a) # {}

(* Every execution comes to an end, whatever is lost and whoever does not  *)
(* answer: "nothing waits forever".  Only a person who answers the form    *)
(* for ever, refused every time, keeps it.                                 *)
Insists(e) == []<><<At(e, "form") /\ execution'[e].at = "submit">>_all
ExecutionsEnd == \A e \in Executions : (execution[e] # None ~> Ended(e)) \/ Insists(e)

(* Fewer faults than tries never strand a grant: what was approved, by a   *)
(* person or by the rules, is invoiced, or a person is told that it is not.*)
GrantIsCarriedOut == \A i \in Inquiries :
    GrantedOf(i) # {} ~> InvoicesOf(i) # {} \/ "downstream_failure" \in review[i]
-----------------------------------------------------------------------------
(* README.md, "Failure mid-chain": "re-running continues where it stopped".*)
(* So an execution that nobody works beside is not closed while a grant is *)
(* waiting to be executed.  Refuted by the run rerun_closed.               *)
RerunContinues ==
    [][\A e \in Executions :
          LET i == execution[e].inquiry IN
          /\ execution[e] # None /\ ~At(e, "closed") /\ execution'[e].at = "closed"
          /\ \A f \in Executions \ {e} : execution[f] # None => Ended(f)
          => GrantedOf(i) = {} \/ InvoicesOf(i) # {}]_all
=============================================================================
