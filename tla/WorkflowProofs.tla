--------------------------- MODULE WorkflowProofs ---------------------------
(***************************************************************************)
(* The workflow runs the chain and nothing but the chain, so what is       *)
(* proved of the chain holds of it; an approval has one link, what an      *)
(* execution ends with is true, and every step brings it nearer to its end.*)
(***************************************************************************)
EXTENDS Workflow, RecordsProofs

Nodes == HttpNodes \union Ends \union {"form"}
(* The nodes before the one that can bring a token; no way leads back.     *)
Early == {"create", "extract", "decide"}

(* What a call that is answered, refused or lost makes of an execution.    *)
Moved(x, y) ==
    /\ y \in Run
    /\ y.inquiry = x.inquiry /\ y.approval = x.approval /\ y.token = x.token
    /\ y.worker = None \/ y.at = "extract"
    /\ y.at \in Early => x.at \in Early

LEMMA RunUpdates ==
    ASSUME NEW x \in Run
    PROVE  /\ \A n \in Nodes : [x EXCEPT !.at = n] \in Run
           /\ \A k \in Nat \ {0} : [x EXCEPT !.tries = k] \in Run
           /\ \A w \in Workers \union {None} : [x EXCEPT !.worker = w] \in Run
  <1>1. \A n \in Nodes : [x EXCEPT !.at = n] \in Run
    BY DEF Run, Nodes
  <1>2. \A k \in Nat \ {0} : [x EXCEPT !.tries = k] \in Run
    BY DEF Run
  <1>3. \A w \in Workers \union {None} : [x EXCEPT !.worker = w] \in Run
    BY DEF Run
  <1>4. QED
    BY <1>1, <1>2, <1>3

LEMMA GoToMoves ==
    ASSUME NEW x \in Run, NEW n \in Nodes, n \in Early => x.at \in Early
    PROVE  Moved(x, GoTo(x, n)) /\ GoTo(x, n).at = n /\ GoTo(x, n).worker = None
  <1> DEFINE y == [x EXCEPT !.at = n]
             z == [y EXCEPT !.tries = 1]
  <1>1. y \in Run
    BY RunUpdates
  <1> HIDE DEF y
  <1>2. z \in Run
    BY <1>1, RunUpdates
  <1> HIDE DEF z
  <1>3. [z EXCEPT !.worker = None] \in Run
    BY <1>2, RunUpdates
  <1>4. GoTo(x, n) = [z EXCEPT !.worker = None]
    BY DEF GoTo, Run, y, z
  <1>5. /\ GoTo(x, n).at = n /\ GoTo(x, n).worker = None
        /\ GoTo(x, n).inquiry = x.inquiry /\ GoTo(x, n).approval = x.approval
        /\ GoTo(x, n).token = x.token
    BY DEF GoTo, Run
  <1>6. QED
    BY <1>3, <1>4, <1>5 DEF Moved

LEMMA ErrorOutputNodes ==
    ASSUME NEW n \in HttpNodes
    PROVE  ErrorOutput[n] \in Nodes \ Early
  <1>1. CASE n \in {"create", "extract", "decide"}
    <2>1. /\ ErrorOutput["create"] = "intake error"
          /\ ErrorOutput["extract"] = "extraction error"
          /\ ErrorOutput["decide"] = "decision error"
      BY DEF ErrorOutput
    <2>2. QED
      BY <1>1, <2>1 DEF Nodes, Ends, Early
  <1>2. CASE n \in {"quote", "order", "invoice", "validate"}
    <2>1. /\ ErrorOutput["quote"] = "report" /\ ErrorOutput["order"] = "report"
          /\ ErrorOutput["invoice"] = "report" /\ ErrorOutput["validate"] = "report"
      BY DEF ErrorOutput
    <2>2. QED
      BY <1>2, <2>1 DEF Nodes, HttpNodes, Early
  <1>3. CASE n \in {"submit", "book", "expire", "check", "report"}
    <2>1. /\ ErrorOutput["submit"] = "form"
          /\ ErrorOutput["book"] = "check" /\ ErrorOutput["expire"] = "timed out"
          /\ ErrorOutput["check"] = "failed" /\ ErrorOutput["report"] = "failed"
      BY DEF ErrorOutput
    <2>2. QED
      BY <1>3, <2>1 DEF Nodes, HttpNodes, Ends, Early
  <1>4. QED
    BY <1>1, <1>2, <1>3 DEF HttpNodes

LEMMA AgainMoves ==
    ASSUME NEW x \in Run, x.at \in HttpNodes
    PROVE  Moved(x, Again(x))
  <1>1. CASE x.tries < Tries(x.at)
    <2> DEFINE y == [x EXCEPT !.tries = x.tries + 1]
    <2>1. x.tries + 1 \in Nat \ {0}
      BY DEF Run
    <2>2. y \in Run
      BY <2>1, RunUpdates
    <2>3. y.inquiry = x.inquiry /\ y.approval = x.approval /\ y.token = x.token /\ y.at = x.at
      BY DEF Run
    <2>4. Again(x) = [y EXCEPT !.worker = None]
      BY <1>1 DEF Again, Run
    <2> HIDE DEF y
    <2>5. [y EXCEPT !.worker = None] \in Run
      BY <2>2, RunUpdates
    <2>6. /\ [y EXCEPT !.worker = None].inquiry = y.inquiry
          /\ [y EXCEPT !.worker = None].approval = y.approval
          /\ [y EXCEPT !.worker = None].token = y.token
          /\ [y EXCEPT !.worker = None].at = y.at
          /\ [y EXCEPT !.worker = None].worker = None
      BY <2>2 DEF Run
    <2>7. QED
      BY <2>3, <2>4, <2>5, <2>6 DEF Moved
  <1>2. CASE ~(x.tries < Tries(x.at))
    BY <1>2, ErrorOutputNodes, GoToMoves DEF Again, OnError
  <1>3. QED
    BY <1>1, <1>2
-----------------------------------------------------------------------------
(* What executions keep: only a node that waits for an extraction has a    *)
(* worker, and a token came with the approval that it is for.              *)
RunsOK ==
    /\ execution \in [Executions -> Run \union {None}]
    /\ \A e \in Executions : execution[e] # None =>
         /\ execution[e].worker # None => execution[e].at = "extract"
         /\ execution[e].token => /\ execution[e].approval \in Rows(approval)
                                  /\ execution[e].at \notin Early

(* What a step may do to an execution without giving it a token            *)
FirstRun(y) == y \in Run /\ ~y.token /\ y.worker = None
MovesAt(f)  == \/ execution'[f] = execution[f]
               \/ execution[f] # None /\ Moved(execution[f], execution'[f])
               \/ execution[f] = None /\ FirstRun(execution'[f])
OnlyMoves == /\ execution' \in [Executions -> Run \union {None}]
             /\ \A f \in Executions : MovesAt(f)

(* Rows of which a person was asked, and has answered.                     *)
ByPerson(row) == row.token /\ row.status \in {"approved", "modified", "rejected"}
NothingAnswered == \A a \in Approvals :
    approval'[a] # None /\ ByPerson(approval'[a]) => approval'[a] = approval[a]
AnsweredBy(e) ==
    /\ execution[e] # None /\ execution[e].token
    /\ \A a \in Approvals \ {execution[e].approval} : approval'[a] = approval[a]

LEMMA BecomesMoves ==
    ASSUME RunsOK, NEW e \in Executions, execution[e] # None,
           NEW y, Moved(execution[e], y), Becomes(e, y)
    PROVE  OnlyMoves
  BY DEF RunsOK, Becomes, OnlyMoves, MovesAt, Moved

LEMMA AnswerMoves ==
    ASSUME RunsOK, NEW e \in Executions, execution[e] # None, execution[e].at \in HttpNodes,
           NEW x, Moved(execution[e], x), Answer(e, x)
    PROVE  OnlyMoves
  <1>1. Moved(execution[e], Again(execution[e]))
    BY AgainMoves DEF RunsOK
  <1>2. QED
    BY <1>1, BecomesMoves DEF Answer

LEMMA RefuseMoves ==
    ASSUME RunsOK, NEW e \in Executions, execution[e] # None, execution[e].at \in HttpNodes,
           Refuse(e)
    PROVE  OnlyMoves
  <1>1. Moved(execution[e], Again(execution[e]))
    BY AgainMoves DEF RunsOK
  <1>2. QED
    BY <1>1, AnswerMoves DEF Refuse

LEMMA NextNode ==
    ASSUME RunsOK, NEW e \in Executions, execution[e] # None, execution[e].at \in HttpNodes,
           NEW n \in Nodes, n \in Early => execution[e].at \in Early,
           Answer(e, GoTo(execution[e], n))
    PROVE  OnlyMoves
  <1>1. execution[e] \in Run
    BY DEF RunsOK
  <1>2. QED
    BY <1>1, GoToMoves, AnswerMoves

(* The chain's side of a step.                                             *)
LEMMA ApprovalsUntouched == UNCHANGED approval => NothingAnswered
  BY DEF NothingAnswered

LEMMA ExpiryAnswersNothing ==
    ASSUME TypeOK, NEW S \in SUBSET Pending, Expire(S)
    PROVE  NothingAnswered
  <1>1. ASSUME NEW a \in S PROVE a \in Approvals /\ approval'[a].status = "expired"
    <2>1. a \in Approvals /\ approval[a] \in ApprovalRow
      BY DEF Pending, Rows, TypeOK, Table
    <2>2. approval'[a] = [approval[a] EXCEPT !.status = "expired"]
      BY <2>1 DEF Expire
    <2>3. QED
      BY <2>1, <2>2 DEF ApprovalRow
  <1>2. \A a \in Approvals \ S : approval'[a] = approval[a]
    BY DEF Expire
  <1>3. QED
    BY <1>1, <1>2 DEF NothingAnswered, ByPerson

LEMMA RulingAnswersNothing ==
    ASSUME TypeOK, OfferRead, NEW i \in Inquiries, RunRules(i)
    PROVE  NothingAnswered
  <1>1. CASE UNCHANGED approval
    BY <1>1, ApprovalsUntouched
  <1>2. ASSUME NEW a \in Approvals \ Rows(approval), NEW outcome,
               approval' = [approval EXCEPT ![a] = NewApproval(i, outcome)]
        PROVE  NothingAnswered
    <2>1. ~ByPerson(NewApproval(i, outcome))
      BY DEF NewApproval, ByPerson
    <2>2. QED
      BY <1>2, <2>1 DEF NothingAnswered, TypeOK, Table
  <1>3. QED
    BY <1>1, <1>2, RunRulesWrites

LEMMA RowsStay ==
    ASSUME TypeOK, OfferRead, [Next]_vars
    PROVE  Rows(approval) \subseteq Rows(approval')
  <1>1. CASE PendingStep
    BY <1>1, NoneAssumption, NextTypeOK DEF PendingStep, Rows, TypeOK, Table
  <1>2. ASSUME NEW i \in Inquiries, RunRules(i)
        PROVE  Rows(approval) \subseteq Rows(approval')
    BY <1>2, RunRulesWrites DEF Rows, TypeOK, Table
  <1>3. QED
    BY <1>1, <1>2, NextApproval
-----------------------------------------------------------------------------
(* The answer of /decide, which may bring a token.                         *)
GainsToken(e, a) ==
    /\ a \in Rows(approval')
    /\ execution[e] # None /\ execution[e].at \in Early
    /\ \E z \in Run : /\ Becomes(e, z)
                      /\ z.approval = a
                      /\ z.token => a \notin Rows(approval)
                      /\ z.at \notin Early /\ z.worker = None

(* A step of execution e is a step of the chain, and one of three kinds.   *)
Kind(e) == \/ OnlyMoves /\ NothingAnswered
           \/ OnlyMoves /\ AnsweredBy(e)
           \/ NothingAnswered /\ \E a \in Approvals : GainsToken(e, a)
Follows(e) == [Next]_vars /\ Kind(e)

LEMMA NodeFields ==
    ASSUME RunsOK, NEW e \in Executions, NEW n \in Nodes, At(e, n)
    PROVE  /\ execution[e] # None /\ execution[e] \in Run /\ execution[e].at = n
           /\ execution[e].inquiry \in Inquiries
  BY DEF RunsOK, At, Run

LEMMA IntakeFollows ==
    ASSUME RunsOK, NEW e \in Executions, Create(e) \/ Extract(e)
    PROVE  Follows(e)
  <1>1. ASSUME Create(e) PROVE Follows(e)
    <2>1. execution[e] # None /\ execution[e].at = "create" /\ execution[e].inquiry \in Inquiries
      BY <1>1, NodeFields DEF Create, Waits, Nodes, HttpNodes
    <2>2. OnlyMoves
      BY <1>1, <2>1, NextNode DEF Create, Nodes, HttpNodes, Early
    <2>3. [Next]_vars /\ UNCHANGED approval
      BY <1>1, <2>1 DEF Create, CreateInquiry, Next, vars
    <2>4. QED
      BY <2>2, <2>3, ApprovalsUntouched DEF Follows, Kind
  <1>2. ASSUME Extract(e) PROVE Follows(e)
    <2> DEFINE x == execution[e]
    <2>1. x # None /\ x \in Run /\ x.at = "extract" /\ x.inquiry \in Inquiries
      BY <1>2, NodeFields DEF Extract, Waits, Nodes, HttpNodes
    <2>2. ASSUME NEW w \in Workers, StartExtraction(w, x.inquiry), Becomes(e, [x EXCEPT !.worker = w])
          PROVE  Follows(e)
      <3>1. Moved(x, [x EXCEPT !.worker = w])
        <4>1. [x EXCEPT !.worker = w] \in Run
          BY <2>1, RunUpdates
        <4>2. /\ [x EXCEPT !.worker = w].inquiry = x.inquiry
              /\ [x EXCEPT !.worker = w].approval = x.approval
              /\ [x EXCEPT !.worker = w].token = x.token
              /\ [x EXCEPT !.worker = w].at = x.at
          BY <2>1 DEF Run
        <4>3. QED
          BY <2>1, <4>1, <4>2 DEF Moved
      <3>2. OnlyMoves
        BY <2>1, <2>2, <3>1, BecomesMoves
      <3>3. [Next]_vars /\ UNCHANGED approval
        BY <2>1, <2>2 DEF StartExtraction, Next
      <3>4. QED
        BY <3>2, <3>3, ApprovalsUntouched DEF Follows, Kind
    <2>3. ASSUME UNCHANGED vars, Answer(e, GoTo(x, "decide")) \/ Refuse(e)
          PROVE  Follows(e)
      <3>1. OnlyMoves
        BY <2>1, <2>3, NextNode, RefuseMoves DEF Nodes, HttpNodes, Early
      <3>2. QED
        BY <2>3, <3>1, ApprovalsUntouched DEF Follows, Kind, vars
    <2>4. QED
      BY <1>2, <2>2, <2>3 DEF Extract
  <1>3. QED
    BY <1>1, <1>2

LEMMA DecidedKinds ==
    ASSUME RunsOK, TypeOK', NEW e \in Executions, At(e, "decide"),
           NEW a \in Rows(approval'), Decided(e, a)
    PROVE  OnlyMoves \/ GainsToken(e, a)
  <1> DEFINE x == execution[e]
             n == Route(ruling'[x.inquiry], approval'[a])
             y == GoTo(x, n)
             z == [y EXCEPT !.approval = a, !.token = TokenOfAnswer(a)]
  <1>1. x # None /\ x \in Run /\ x.at = "decide"
    BY NodeFields DEF Nodes, HttpNodes
  <1>2. n \in Nodes \ Early
    BY DEF Route, Nodes, HttpNodes, Ends, Early
  <1>3. y \in Run /\ y.at = n /\ y.worker = None
    BY <1>1, <1>2, GoToMoves DEF Moved
  <1>4. a \in Approvals /\ TokenOfAnswer(a) \in BOOLEAN
        /\ (TokenOfAnswer(a) => a \notin Rows(approval))
    BY DEF TokenOfAnswer, TypeOK, Table, Rows, ApprovalRow
  <1> DEFINE t == TokenOfAnswer(a)
  <1> HIDE DEF y, n, t
  <1>5. /\ [y EXCEPT !.approval = a, !.token = t] \in Run
        /\ [y EXCEPT !.approval = a, !.token = t].approval = a
        /\ [y EXCEPT !.approval = a, !.token = t].token = t
        /\ [y EXCEPT !.approval = a, !.token = t].at = y.at
        /\ [y EXCEPT !.approval = a, !.token = t].worker = y.worker
    <2>1. a \in Approvals /\ t \in BOOLEAN
      BY <1>4 DEF t
    <2>2. QED
      BY <1>3, <2>1 DEF Run
  <1>6. CASE Becomes(e, [y EXCEPT !.approval = a, !.token = t])
    BY <1>1, <1>2, <1>3, <1>4, <1>5, <1>6 DEF GainsToken, Early, t
  <1>7. CASE Becomes(e, Again(x))
    BY <1>1, <1>7, AgainMoves, BecomesMoves DEF HttpNodes
  <1>8. QED
    BY <1>6, <1>7 DEF Decided, Answer, y, n, t

LEMMA RulingFollows ==
    ASSUME RunsOK, TypeOK, OfferRead, NEW e \in Executions, DecideInquiry(e)
    PROVE  Follows(e)
  <1> DEFINE x == execution[e]
  <1>1. x # None /\ x \in Run /\ x.at = "decide" /\ x.inquiry \in Inquiries /\ At(e, "decide")
    BY NodeFields DEF DecideInquiry, Waits, Nodes, HttpNodes
  <1>2. ASSUME RunRules(x.inquiry), NEW a \in Rows(approval') \ Rows(approval), Decided(e, a)
        PROVE  Follows(e)
    <2>1. [Next]_vars /\ NothingAnswered
      BY <1>1, <1>2, RulingAnswersNothing DEF Next
    <2>2. TypeOK'
      BY <2>1, NextTypeOK
    <2>3. a \in Approvals
      BY <2>2 DEF TypeOK, Table, Rows
    <2>4. QED
      BY <1>1, <1>2, <2>1, <2>2, <2>3, DecidedKinds DEF Follows, Kind
  <1>3. ASSUME UNCHANGED vars, NEW a \in ApprovalsOf(x.inquiry), Decided(e, a)
        PROVE  Follows(e)
    <2>1. [Next]_vars /\ NothingAnswered
      BY <1>3, ApprovalsUntouched DEF vars
    <2>2. TypeOK'
      BY <2>1, NextTypeOK
    <2>3. a \in Approvals /\ a \in Rows(approval')
      BY <1>3, <2>2 DEF TypeOK, Table, Rows, ApprovalsOf, vars
    <2>4. QED
      BY <1>1, <1>3, <2>1, <2>2, <2>3, DecidedKinds DEF Follows, Kind
  <1>4. ASSUME UNCHANGED vars, Refuse(e) PROVE Follows(e)
    <2>1. OnlyMoves
      BY <1>1, <1>4, RefuseMoves DEF HttpNodes
    <2>2. QED
      BY <1>4, <2>1, ApprovalsUntouched DEF Follows, Kind, vars
  <1>5. QED
    BY <1>2, <1>3, <1>4 DEF DecideInquiry

(* A step that leaves the approvals alone, or expires some.                *)
LEMMA QuietFollows ==
    ASSUME TypeOK, NEW e \in Executions, OnlyMoves, [Next]_vars,
           UNCHANGED approval \/ \E S \in SUBSET Pending : Expire(S)
    PROVE  Follows(e)
  BY ApprovalsUntouched, ExpiryAnswersNothing DEF Follows, Kind

LEMMA SweepExpires ==
    ASSUME ExpireDue
    PROVE  [Next]_vars /\ \E S \in SUBSET Pending : Expire(S)
  BY DEF ExpireDue, Due, Next

LEMMA SubmitFollows ==
    ASSUME RunsOK, TypeOK, NEW e \in Executions, SubmitDecision(e)
    PROVE  Follows(e)
  <1> DEFINE x == execution[e]
             a == x.approval
  <1>1. x # None /\ x \in Run /\ x.at = "submit" /\ At(e, "submit")
    BY NodeFields DEF SubmitDecision, Waits, Nodes, HttpNodes
  <1>2. Refuse(e) => OnlyMoves
    BY <1>1, RefuseMoves DEF HttpNodes
  <1>3. ASSUME NEW row, Answer(e, AfterDecision(x, row)) PROVE OnlyMoves
    BY <1>1, <1>3, NextNode DEF AfterDecision, Nodes, HttpNodes, Ends, Early
  <1>4. ASSUME UNCHANGED vars, OnlyMoves PROVE Follows(e)
    BY <1>4, QuietFollows DEF vars
  <1>5. CASE Incomplete(x)
    BY <1>2, <1>4, <1>5 DEF SubmitDecision
  <1>6. CASE ~Incomplete(x)
    <2>1. x.token /\ a \in Approvals /\ a \in Rows(approval)
      BY <1>1, <1>6 DEF RunsOK, Rows, TypeOK, Table, Incomplete
    <2>2. ASSUME Apply(x), OnlyMoves PROVE Follows(e)
      <3>1. [Next]_vars
        <4>1. x.pct # None => x.pct \in Percents
          BY <1>1 DEF Run
        <4>2. QED
          BY <2>1, <2>2, <4>1 DEF Apply, Next
      <3>2. \A b \in Approvals \ {a} : approval'[b] = approval[b]
        BY <2>2 DEF Apply, Approve, Modify, Grant, Reject, UpdateApproval, TypeOK, Table
      <3>3. QED
        BY <1>1, <2>1, <2>2, <3>1, <3>2 DEF Follows, Kind, AnsweredBy
    <2>3. ASSUME DecideTooLate(a), OnlyMoves PROVE Follows(e)
      <3>1. {a} \in SUBSET Pending /\ Expire({a})
        BY <2>1, <2>3 DEF DecideTooLate, Pending
      <3>2. [Next]_vars
        BY <2>1, <2>3 DEF Next
      <3>3. QED
        BY <2>3, <3>1, <3>2, QuietFollows
    <2>4. QED
      BY <1>2, <1>3, <1>4, <1>6, <2>2, <2>3 DEF SubmitDecision
  <1>7. QED
    BY <1>5, <1>6

LEMMA ExpiryFollows ==
    ASSUME RunsOK, TypeOK, NEW e \in Executions, ExpireOverdue(e)
    PROVE  Follows(e)
  <1>1. execution[e] # None /\ execution[e].at = "expire"
    BY NodeFields DEF ExpireOverdue, Waits, Nodes, HttpNodes
  <1>2. OnlyMoves
    BY <1>1, NextNode DEF ExpireOverdue, Nodes, HttpNodes, Ends, Early
  <1>3. CASE ExpireDue
    BY <1>2, <1>3, SweepExpires, QuietFollows
  <1>4. CASE UNCHANGED vars
    BY <1>2, <1>4, QuietFollows DEF vars
  <1>5. QED
    BY <1>3, <1>4 DEF ExpireOverdue

LEMMA DocumentFollows ==
    ASSUME RunsOK, TypeOK, NEW e \in Executions, QuoteStep(e) \/ OrderStep(e) \/ InvoiceStep(e)
    PROVE  Follows(e)
  <1> DEFINE x == execution[e]
             i == x.inquiry
  <1>1. ASSUME OnlyMoves, UNCHANGED vars PROVE Follows(e)
    BY <1>1, QuietFollows DEF vars
  <1>2. ASSUME QuoteStep(e) PROVE Follows(e)
    <2>1. x # None /\ x.at = "quote" /\ i \in Inquiries
      BY <1>2, NodeFields DEF QuoteStep, Waits, Nodes, HttpNodes
    <2>2. OnlyMoves
      BY <1>2, <2>1, NextNode, RefuseMoves DEF QuoteStep, Nodes, HttpNodes, Early
    <2>3. CASE CreateQuote(i)
      <3>1. [Next]_vars /\ UNCHANGED approval
        BY <2>1, <2>3 DEF CreateQuote, Next
      <3>2. QED
        BY <2>2, <3>1, QuietFollows
    <2>4. QED
      BY <1>1, <1>2, <2>2, <2>3 DEF QuoteStep
  <1>3. ASSUME OrderStep(e) PROVE Follows(e)
    <2> DEFINE q == QuoteOf(i)
    <2>1. x # None /\ x.at = "order"
      BY <1>3, NodeFields DEF OrderStep, Waits, Nodes, HttpNodes
    <2>2. OnlyMoves
      BY <1>3, <2>1, NextNode, RefuseMoves DEF OrderStep, Nodes, HttpNodes, Early
    <2> HIDE DEF q
    <2>3. CASE CreateOrder(q) \/ OrderTooLate(q)
      <3>1. q \in Quotes
        BY <2>3 DEF CreateOrder, OrderTooLate, Orderable, Rows, TypeOK, Table
      <3>2. [Next]_vars /\ UNCHANGED approval
        BY <2>3, <3>1 DEF CreateOrder, OrderTooLate, Next
      <3>3. QED
        BY <2>2, <3>2, QuietFollows
    <2>4. QED
      BY <1>1, <1>3, <2>2, <2>3 DEF OrderStep, q
  <1>4. ASSUME InvoiceStep(e) PROVE Follows(e)
    <2> DEFINE o == OrderOf(i)
    <2>1. x # None /\ x.at = "invoice"
      BY <1>4, NodeFields DEF InvoiceStep, Waits, Nodes, HttpNodes
    <2>2. OnlyMoves
      BY <1>4, <2>1, NextNode DEF InvoiceStep, Nodes, HttpNodes, Early
    <2> HIDE DEF o
    <2>3. CASE CreateInvoice(o)
      <3>1. o \in Orders
        BY <2>3 DEF CreateInvoice, Billable, Rows, TypeOK, Table
      <3>2. [Next]_vars /\ UNCHANGED approval
        BY <2>3, <3>1 DEF CreateInvoice, Next
      <3>3. QED
        BY <2>2, <3>2, QuietFollows
    <2>4. QED
      BY <1>1, <1>4, <2>2, <2>3 DEF InvoiceStep, o
  <1>5. QED
    BY <1>2, <1>3, <1>4

LEMMA LastFollow ==
    ASSUME RunsOK, TypeOK, NEW e \in Executions,
           LastSteps(e) \/ ReportFailure(e) \/ CallLost(e) \/ ExtractTimesOut(e) \/ FormTimesOut(e)
    PROVE  Follows(e)
  <1> DEFINE x == execution[e]
  <1>1. ASSUME LastSteps(e) PROVE Follows(e)
    <2>1. x # None /\ x.at \in {"validate", "book", "check"}
      BY <1>1 DEF LastSteps, Waits, At
    <2>2. OnlyMoves
      BY <1>1, <2>1, NextNode DEF LastSteps, Nodes, HttpNodes, Ends, Early
    <2>3. QED
      BY <1>1, <2>2, QuietFollows DEF LastSteps, vars
  <1>2. ASSUME ReportFailure(e) PROVE Follows(e)
    <2>1. x # None /\ x.at = "report" /\ x.inquiry \in Inquiries
      BY <1>2, NodeFields DEF ReportFailure, Waits, Nodes, HttpNodes
    <2>2. OnlyMoves
      BY <1>2, <2>1, NextNode DEF ReportFailure, Nodes, HttpNodes, Ends, Early
    <2>3. [Next]_vars /\ UNCHANGED approval
      BY <1>2, <2>1 DEF ReportFailure, ReportWorkflowFailure, Next
    <2>4. QED
      BY <2>2, <2>3, QuietFollows
  <1>3. ASSUME CallLost(e) \/ ExtractTimesOut(e) PROVE Follows(e)
    <2>1. x # None /\ x \in Run /\ x.at \in HttpNodes
      BY <1>3 DEF CallLost, ExtractTimesOut, Waits, At, RunsOK, HttpNodes
    <2>2. OnlyMoves
      BY <1>3, <2>1, AgainMoves, BecomesMoves DEF CallLost, ExtractTimesOut
    <2>3. QED
      BY <1>3, <2>2, QuietFollows DEF CallLost, ExtractTimesOut, vars
  <1>4. ASSUME FormTimesOut(e) PROVE Follows(e)
    <2>1. x # None /\ x \in Run
      BY <1>4, NodeFields DEF FormTimesOut, Nodes
    <2>2. Moved(x, GoTo(x, "expire"))
      BY <2>1, GoToMoves DEF Nodes, HttpNodes, Early
    <2>3. OnlyMoves
      BY <1>4, <2>1, <2>2, BecomesMoves DEF FormTimesOut
    <2>4. QED
      BY <1>4, <2>3, QuietFollows DEF FormTimesOut, vars
  <1>5. QED
    BY <1>1, <1>2, <1>3, <1>4

LEMMA FormFollows ==
    ASSUME RunsOK, TypeOK, NEW e \in Executions, NEW action \in {"approve", "modify", "reject"},
           NEW pct \in Percents \union {None}, FillForm(e, action, pct)
    PROVE  Follows(e)
  <1> DEFINE x == execution[e]
             y == GoTo(x, "submit")
             z == [y EXCEPT !.action = action, !.pct = pct]
  <1>1. x # None /\ x \in Run
    BY NodeFields DEF FillForm, Nodes
  <1>2. Moved(x, y) /\ y.at = "submit" /\ y.worker = None
    BY <1>1, GoToMoves DEF Nodes, HttpNodes, Early
  <1>3. y \in Run
    BY <1>2 DEF Moved
  <1>4. Becomes(e, z) /\ UNCHANGED vars
    BY DEF FillForm
  <1> HIDE DEF y
  <1>5. /\ z \in Run /\ z.at = y.at /\ z.worker = y.worker
        /\ z.inquiry = y.inquiry /\ z.approval = y.approval /\ z.token = y.token
    BY <1>3 DEF Run
  <1>6. Moved(x, z)
    BY <1>2, <1>5 DEF Moved, Early
  <1> HIDE DEF z
  <1>7. OnlyMoves
    BY <1>1, <1>4, <1>6, BecomesMoves
  <1>8. QED
    BY <1>4, <1>7, QuietFollows DEF vars

LEMMA WebhookFollows ==
    ASSUME RunsOK, TypeOK, NEW e \in Executions, NEW i \in Inquiries, Webhook(e, i)
    PROVE  Follows(e)
  <1> DEFINE y == [inquiry |-> i, at |-> "create", tries |-> 1, worker |-> None,
                   approval |-> None, token |-> FALSE, action |-> None, pct |-> None]
  <1>1. FirstRun(y)
    BY TriesAssumption DEF FirstRun, Run, HttpNodes
  <1>2. execution[e] = None /\ Becomes(e, y) /\ UNCHANGED vars
    BY DEF Webhook
  <1> HIDE DEF y
  <1>3. OnlyMoves
    BY <1>1, <1>2 DEF RunsOK, Becomes, OnlyMoves, MovesAt, FirstRun
  <1>4. QED
    BY <1>2, <1>3, QuietFollows DEF vars
-----------------------------------------------------------------------------
(* Steps that are of no execution: the extraction, the clocks, the sweep.  *)
LEMMA ServeKeeps ==
    ASSUME RunsOK, TypeOK, NEW w \in Workers, Serve(w) \/ ExtractDies(w)
    PROVE  [Next]_vars /\ OnlyMoves /\ NothingAnswered
  <1>1. UNCHANGED <<execution, faults>> => OnlyMoves
    BY DEF RunsOK, OnlyMoves, MovesAt
  <1>2. ASSUME NEW e \in WaitingFor(w)
        PROVE  /\ e \in Executions /\ execution[e] # None /\ execution[e] \in Run
               /\ execution[e].at = "extract" /\ Moved(execution[e], Again(execution[e]))
    <2>1. execution[e] # None /\ execution[e] \in Run /\ execution[e].at = "extract"
      BY <1>2, NoRunAssumption DEF WaitingFor, RunsOK
    <2>2. QED
      BY <1>2, <2>1, AgainMoves DEF WaitingFor, HttpNodes
  <1>3. ASSUME LlmAttempt(w) PROVE [Next]_vars /\ OnlyMoves /\ UNCHANGED approval
    BY <1>1, <1>3 DEF LlmAttempt, LlmFails, Next
  <1>4. ASSUME ExtractAnswers(w) PROVE [Next]_vars /\ OnlyMoves /\ UNCHANGED approval
    <2>1. [Next]_vars
      BY <1>4 DEF ExtractAnswers, Next
    <2>2. UNCHANGED approval
      BY <1>4 DEF ExtractAnswers, ExtractionSucceeds, ExtractionGivesUp, WriteResult
    <2>3. ASSUME NEW e \in WaitingFor(w), NEW n \in {"decide", "needs review"},
                 Answer(e, GoTo(execution[e], n))
          PROVE  OnlyMoves
      BY <1>2, <2>3, NextNode DEF Nodes, HttpNodes, Ends, Early
    <2>4. QED
      BY <1>1, <1>4, <2>1, <2>2, <2>3 DEF ExtractAnswers
  <1>5. ASSUME ExtractDies(w) PROVE [Next]_vars /\ OnlyMoves /\ UNCHANGED approval
    <2>1. [Next]_vars /\ UNCHANGED approval
      BY <1>5 DEF ExtractDies, ExtractionCrashes, Next
    <2>2. /\ DOMAIN execution' = Executions
          /\ execution' = [f \in Executions |-> execution'[f]]
      BY <1>5 DEF ExtractDies
    <2>3. ASSUME NEW f \in Executions
          PROVE  execution'[f] \in Run \union {None} /\ MovesAt(f)
      <3>1. CASE f \in WaitingFor(w)
        BY <1>2, <1>5, <3>1 DEF ExtractDies, MovesAt, Moved
      <3>2. CASE f \notin WaitingFor(w)
        BY <1>5, <3>2 DEF ExtractDies, MovesAt, RunsOK
      <3>3. QED
        BY <3>1, <3>2
    <2>4. QED
      BY <2>1, <2>2, <2>3 DEF OnlyMoves
  <1>6. QED
    BY <1>3, <1>4, <1>5, ApprovalsUntouched DEF Serve

LEMMA ElsewhereKeeps ==
    ASSUME RunsOK, TypeOK, Elsewhere
    PROVE  [Next]_vars /\ OnlyMoves /\ NothingAnswered
  <1>1. [Next]_vars
    BY DEF Elsewhere, Next
  <1>2. OnlyMoves
    BY DEF Elsewhere, RunsOK, OnlyMoves, MovesAt
  <1>3. ASSUME ExpireDue PROVE NothingAnswered
    BY <1>3, SweepExpires, ExpiryAnswersNothing
  <1>4. ASSUME NEW a \in Approvals, DeadlinePasses(a) PROVE NothingAnswered
    <2>1. approval[a] \in ApprovalRow /\ approval[a].status = "pending"
      BY <1>4 DEF DeadlinePasses, Pending, Rows, TypeOK, Table
    <2>2. approval' = [approval EXCEPT ![a].overdue = TRUE]
      BY <1>4 DEF DeadlinePasses
    <2>3. approval'[a].status = "pending" /\ \A b \in Approvals \ {a} : approval'[b] = approval[b]
      BY <2>1, <2>2 DEF ApprovalRow, TypeOK, Table
    <2>4. QED
      BY <2>3 DEF NothingAnswered, ByPerson
  <1>5. ASSUME (\E q \in Quotes : QuoteLapses(q)) \/ \E i \in Inquiries : ExtractionGoesStale(i)
        PROVE  NothingAnswered
    BY <1>5, ApprovalsUntouched DEF QuoteLapses, ExtractionGoesStale
  <1>6. QED
    BY <1>1, <1>2, <1>3, <1>4, <1>5 DEF Elsewhere

(* Every step of the workflow is a step of the chain, or none.             *)
KindOfStep == [Next]_vars /\ \/ OnlyMoves /\ NothingAnswered
                             \/ \E e \in Executions : Kind(e)

LEMMA StepKinds ==
    ASSUME RunsOK, TypeOK, OfferRead, [WorkflowNext]_all
    PROVE  KindOfStep
  <1>1. ASSUME NEW e \in Executions, Step(e) PROVE Follows(e)
    BY <1>1, IntakeFollows, RulingFollows, SubmitFollows, ExpiryFollows, DocumentFollows,
       LastFollow DEF Step
  <1>2. ASSUME NEW e \in Executions, CallLost(e) \/ ExtractTimesOut(e) \/ FormTimesOut(e)
        PROVE  Follows(e)
    BY <1>2, LastFollow
  <1>3. ASSUME NEW e \in Executions, NEW i \in Inquiries, Webhook(e, i) PROVE Follows(e)
    BY <1>3, WebhookFollows
  <1>4. ASSUME NEW e \in Executions, NEW action \in {"approve", "reject"}, FillForm(e, action, None)
        PROVE  Follows(e)
    BY <1>4, FormFollows
  <1>5. ASSUME NEW e \in Executions, NEW pct \in Percents \union {None}, FillForm(e, "modify", pct)
        PROVE  Follows(e)
    BY <1>5, FormFollows
  <1>6. CASE UNCHANGED all
    <2>1. OnlyMoves
      BY <1>6 DEF all, RunsOK, OnlyMoves, MovesAt
    <2>2. UNCHANGED vars /\ UNCHANGED approval
      BY <1>6 DEF all, vars
    <2>3. QED
      BY <2>1, <2>2, ApprovalsUntouched DEF KindOfStep
  <1>7. CASE \E e \in Executions : Follows(e)
    BY <1>7 DEF Follows, KindOfStep
  <1>8. CASE (\E w \in Workers : Serve(w) \/ ExtractDies(w)) \/ Elsewhere
    BY <1>8, ServeKeeps, ElsewhereKeeps DEF KindOfStep
  <1>9. QED
    BY <1>1, <1>2, <1>3, <1>4, <1>5, <1>6, <1>7, <1>8 DEF WorkflowNext
-----------------------------------------------------------------------------
(***************************************************************************)
(* The invariant and the theorems                                          *)
(***************************************************************************)
WorkflowInvariant == TypeOK /\ OfferRead /\ RunsOK /\ OneLink

LEMMA MovesKeepRuns ==
    ASSUME RunsOK, OnlyMoves, Rows(approval) \subseteq Rows(approval')
    PROVE  RunsOK'
  <1>1. execution' \in [Executions -> Run \union {None}]
    BY DEF OnlyMoves
  <1>2. ASSUME NEW f \in Executions, execution'[f] # None
        PROVE  /\ execution'[f].worker # None => execution'[f].at = "extract"
               /\ execution'[f].token => /\ execution'[f].approval \in Rows(approval')
                                         /\ execution'[f].at \notin Early
    <2>1. MovesAt(f)
      BY DEF OnlyMoves
    <2>2. CASE execution'[f] = execution[f]
      BY <1>2, <2>2 DEF RunsOK
    <2>3. CASE execution[f] # None /\ Moved(execution[f], execution'[f])
      BY <1>2, <2>3 DEF RunsOK, Moved
    <2>4. CASE execution[f] = None /\ FirstRun(execution'[f])
      BY <1>2, <2>4 DEF FirstRun
    <2>5. QED
      BY <2>1, <2>2, <2>3, <2>4 DEF MovesAt
  <1>3. QED
    BY <1>1, <1>2 DEF RunsOK

LEMMA GainKeepsRuns ==
    ASSUME RunsOK, NEW e \in Executions, NEW a, GainsToken(e, a),
           Rows(approval) \subseteq Rows(approval')
    PROVE  RunsOK'
  <1>1. PICK z \in Run : /\ Becomes(e, z) /\ z.approval = a
                         /\ z.at \notin Early /\ z.worker = None
    BY DEF GainsToken
  <1>2. execution' \in [Executions -> Run \union {None}]
    BY <1>1 DEF RunsOK, Becomes
  <1>3. execution'[e] = z /\ \A f \in Executions \ {e} : execution'[f] = execution[f]
    BY <1>1 DEF RunsOK, Becomes
  <1>4. QED
    BY <1>1, <1>2, <1>3 DEF RunsOK, GainsToken

(* An execution that only moves keeps its token.                           *)
LEMMA HoldersKept ==
    ASSUME RunsOK, OnlyMoves, NEW a
    PROVE  Holders(a)' = Holders(a)
  <1>1. ASSUME NEW f \in Executions
        PROVE  f \in Holders(a) <=> f \in Holders(a)'
    <2>1. MovesAt(f)
      BY DEF OnlyMoves
    <2>2. CASE execution'[f] = execution[f]
      BY <2>2 DEF Holders
    <2>3. CASE execution[f] # None /\ Moved(execution[f], execution'[f])
      BY <2>3, NoRunAssumption DEF Holders, Moved
    <2>4. CASE execution[f] = None /\ FirstRun(execution'[f])
      BY <2>4 DEF Holders, FirstRun
    <2>5. QED
      BY <2>1, <2>2, <2>3, <2>4 DEF MovesAt
  <1>2. QED
    BY <1>1 DEF Holders

LEMMA KindKeepsOneLink ==
    ASSUME RunsOK, OneLink, TypeOK, TypeOK', Rows(approval) \subseteq Rows(approval'),
           \/ OnlyMoves /\ NothingAnswered
           \/ \E e \in Executions : Kind(e)
    PROVE  OneLink'
  <1> SUFFICES ASSUME NEW a \in Rows(approval')
               PROVE  /\ \A e, f \in Holders(a)' : e = f
                      /\ ByPerson(approval'[a]) => Holders(a)' # {}
    BY DEF OneLink, ByPerson
  <1>1. a \in Approvals /\ approval'[a] # None /\ DOMAIN approval = Approvals
    BY DEF Rows, TypeOK, Table
  <1>2. \A e \in Executions : e \in Holders(a) => a \in Rows(approval)
    BY DEF Holders, RunsOK
  <1>3. \A e, f \in Holders(a) : e = f
    BY <1>2 DEF OneLink, Holders
  <1>4. a \in Rows(approval) /\ approval'[a] = approval[a]
          /\ ByPerson(approval'[a]) => Holders(a) # {}
    BY DEF OneLink, ByPerson
  <1>5. NothingAnswered /\ ByPerson(approval'[a]) => Holders(a) # {}
    BY <1>1, <1>4 DEF NothingAnswered, Rows, OneLink, ByPerson
  <1>6. CASE OnlyMoves /\ NothingAnswered
    BY <1>3, <1>5, <1>6, HoldersKept
  <1>7. ASSUME NEW e \in Executions, OnlyMoves, AnsweredBy(e)
        PROVE  /\ \A f, g \in Holders(a)' : f = g
               /\ ByPerson(approval'[a]) => Holders(a)' # {}
    <2>1. CASE a = execution[e].approval
      BY <1>3, <1>7, <2>1, HoldersKept DEF AnsweredBy, Holders
    <2>2. CASE a # execution[e].approval
      <3>1. approval'[a] = approval[a]
        BY <1>1, <1>7, <2>2 DEF AnsweredBy
      <3>2. QED
        BY <1>1, <1>3, <1>4, <1>7, <3>1, HoldersKept DEF Rows, OneLink, ByPerson
    <2>3. QED
      BY <2>1, <2>2
  <1>8. ASSUME NEW e \in Executions, NothingAnswered, NEW b \in Approvals, GainsToken(e, b)
        PROVE  /\ \A f, g \in Holders(a)' : f = g
               /\ ByPerson(approval'[a]) => Holders(a)' # {}
    <2>1. PICK z \in Run : /\ Becomes(e, z) /\ z.approval = b
                           /\ z.token => b \notin Rows(approval)
      BY <1>8 DEF GainsToken
    <2>2. execution'[e] = z /\ \A f \in Executions \ {e} : execution'[f] = execution[f]
      BY <2>1 DEF RunsOK, Becomes
    <2>3. e \notin Holders(a) /\ z # None
      BY <1>8, NoRunAssumption DEF GainsToken, Holders, RunsOK
    <2>4. Holders(a) \subseteq Holders(a)'
      BY <2>2, <2>3 DEF Holders
    <2>5. Holders(a)' \subseteq Holders(a) \union {e}
      BY <2>2 DEF Holders
    <2>6. e \in Holders(a)' => a = b /\ z.token
      BY <2>1, <2>2 DEF Holders
    <2>7. e \in Holders(a)' => Holders(a) = {}
      BY <1>2, <2>1, <2>6 DEF Holders
    <2>8. QED
      BY <1>3, <1>5, <1>8, <2>4, <2>5, <2>7
  <1>9. QED
    BY <1>6, <1>7, <1>8 DEF Kind

LEMMA InitInvariant == WorkflowInit => WorkflowInvariant
  <1> SUFFICES ASSUME WorkflowInit PROVE WorkflowInvariant
    OBVIOUS
  <1>1. TypeOK /\ OfferRead
    BY InitTypeOK DEF WorkflowInit, Init, OfferRead
  <1>2. RunsOK
    BY DEF WorkflowInit, RunsOK
  <1>3. Rows(approval) = {}
    BY DEF WorkflowInit, Init, Rows
  <1>4. QED
    BY <1>1, <1>2, <1>3 DEF WorkflowInvariant, OneLink

LEMMA NextInvariant ==
    WorkflowInvariant /\ [WorkflowNext]_all => WorkflowInvariant' /\ [Next]_vars
  <1> SUFFICES ASSUME WorkflowInvariant, [WorkflowNext]_all
               PROVE  WorkflowInvariant' /\ [Next]_vars
    OBVIOUS
  <1> USE DEF WorkflowInvariant
  <1>1. KindOfStep
    BY StepKinds
  <1>2. TypeOK' /\ OfferRead' /\ Rows(approval) \subseteq Rows(approval')
    BY <1>1, NextTypeOK, NextOfferRead, RowsStay DEF KindOfStep
  <1>3. RunsOK'
    BY <1>1, <1>2, MovesKeepRuns, GainKeepsRuns DEF KindOfStep, Kind
  <1>4. OneLink'
    BY <1>1, <1>2, KindKeepsOneLink DEF KindOfStep
  <1>5. QED
    BY <1>1, <1>2, <1>3, <1>4 DEF KindOfStep

LEMMA InvariantHolds == WorkflowSpec => []WorkflowInvariant
  BY InitInvariant, NextInvariant, PTL DEF WorkflowSpec

(* Whatever n8n repeats, and whichever calls and answers are lost, the     *)
(* workflow makes the chain take steps that the chain allows by itself.    *)
THEOREM WorkflowRunsTheChain == WorkflowSpec => Spec
  <1>1. WorkflowInit => Init
    BY DEF WorkflowInit
  <1>2. QED
    BY <1>1, NextInvariant, InvariantHolds, PTL DEF WorkflowSpec, Spec

(* The link to an approval is in the hands of one execution, and no person *)
(* decides without it.                                                     *)
THEOREM OneLinkPerApproval == WorkflowSpec => []OneLink
  <1>1. WorkflowInvariant => OneLink
    BY DEF WorkflowInvariant
  <1>2. QED
    BY <1>1, InvariantHolds, PTL

LEMMA FaultsCounted ==
    ASSUME [WorkflowNext]_all
    PROVE  UNCHANGED faults \/ Fault
  <1>1. ASSUME NEW e \in Executions, NEW x, Answer(e, x) PROVE UNCHANGED faults \/ Fault
    BY <1>1 DEF Answer
  <1>2. ASSUME NEW e \in Executions, Refuse(e) PROVE UNCHANGED faults \/ Fault
    BY <1>1, <1>2 DEF Refuse
  <1>3. ASSUME NEW e \in Executions, Step(e) PROVE UNCHANGED faults \/ Fault
    <2>1. Create(e) \/ Extract(e) \/ DecideInquiry(e) => UNCHANGED faults \/ Fault
      BY <1>1, <1>2 DEF Create, Extract, DecideInquiry, Decided
    <2>2. SubmitDecision(e) \/ ExpireOverdue(e) => UNCHANGED faults \/ Fault
      BY <1>1, <1>2 DEF SubmitDecision, ExpireOverdue
    <2>3. QuoteStep(e) \/ OrderStep(e) \/ InvoiceStep(e) => UNCHANGED faults \/ Fault
      BY <1>1, <1>2 DEF QuoteStep, OrderStep, InvoiceStep
    <2>4. LastSteps(e) \/ ReportFailure(e) => UNCHANGED faults \/ Fault
      BY <1>1 DEF LastSteps, ReportFailure
    <2>5. QED
      BY <1>3, <2>1, <2>2, <2>3, <2>4 DEF Step
  <1>4. ASSUME NEW w \in Workers, Serve(w) \/ ExtractDies(w) PROVE UNCHANGED faults \/ Fault
    <2>1. ASSUME NEW e \in WaitingFor(w), NEW x, Answer(e, x) PROVE UNCHANGED faults \/ Fault
      BY <1>1, <2>1 DEF WaitingFor
    <2>2. QED
      BY <1>4, <2>1 DEF Serve, LlmAttempt, ExtractAnswers, ExtractDies
  <1>5. QED
    BY <1>3, <1>4 DEF WorkflowNext, Webhook, CallLost, ExtractTimesOut, FormTimesOut, FillForm,
       Elsewhere, all

(* Executions keep their shape, and faults stay within their bound. *)
THEOREM WorkflowTypes == WorkflowSpec => []WorkflowTypeOK
  <1> DEFINE Counted == faults \in 0 .. MaxFaults
  <1>1. WorkflowInit => Counted
    BY TriesAssumption DEF WorkflowInit
  <1>2. Counted /\ [WorkflowNext]_all => Counted'
    BY FaultsCounted, TriesAssumption DEF Fault
  <1>3. WorkflowInvariant /\ Counted => WorkflowTypeOK
    BY DEF WorkflowInvariant, WorkflowTypeOK, RunsOK
  <1>4. QED
    BY <1>1, <1>2, <1>3, InvariantHolds, PTL DEF WorkflowSpec

(* What n8n does and repeats never bills twice, never executes anything    *)
(* but what was approved, and never breaks the evidence.                   *)
THEOREM WorkflowKeepsTheChain ==
    WorkflowSpec => [](BilledOnce /\ ExecutedAsApproved /\ EvidenceHolds)
  BY WorkflowRunsTheChain, NeverBilledTwice, ExecutedIsApproved, EvidenceIsConsistent, PTL
-----------------------------------------------------------------------------
(***************************************************************************)
(* What an execution ends with is true, if there are fewer faults than     *)
(* tries: what the nodes on its way were told has come about, and what has *)
(* come about in the chain stays.                                          *)
(***************************************************************************)
Refused(row) == row.status \in {"rejected", "expired"}

Persists ==
    /\ \A i \in Inquiries : /\ QuotesOf(i) # {} => QuotesOf(i)' # {}
                            /\ OrdersOf(i) # {} => OrdersOf(i)' # {}
                            /\ InvoicesOf(i) # {} => InvoicesOf(i)' # {}
    /\ \A i \in Inquiries :
          "downstream_failure" \in review[i] => "downstream_failure" \in review'[i]
    /\ \A a \in Rows(approval) :
          Refused(approval[a]) => a \in Rows(approval') /\ Refused(approval'[a])

LEMMA DocumentsPersist ==
    ASSUME TypeOK, [Next]_vars, NEW i \in Inquiries
    PROVE  /\ QuotesOf(i) # {} => QuotesOf(i)' # {}
           /\ OrdersOf(i) # {} => OrdersOf(i)' # {}
           /\ InvoicesOf(i) # {} => InvoicesOf(i)' # {}
  <1> DEFINE Quoted   == /\ Rows(quote) \subseteq Rows(quote')
                         /\ \A q \in Rows(quote) : quote'[q].terms = quote[q].terms
             Ordered  == /\ Rows(order) \subseteq Rows(order')
                         /\ \A o \in Rows(order) : order'[o].terms = order[o].terms
             Invoiced == /\ Rows(invoice) \subseteq Rows(invoice')
                         /\ \A v \in Rows(invoice) : invoice'[v].terms = invoice[v].terms
  <1>1. /\ UNCHANGED quote => Quoted
        /\ UNCHANGED order => Ordered
        /\ UNCHANGED invoice => Invoiced
    OBVIOUS
  <1>2. ASSUME UNCHANGED documents PROVE Quoted /\ Ordered /\ Invoiced
    <2>1. UNCHANGED quote /\ UNCHANGED order /\ UNCHANGED invoice
      BY <1>2 DEF documents
    <2>2. QED
      BY <1>1, <2>1
  <1>3. ASSUME NEW j \in Inquiries, CreateQuote(j) PROVE Quoted /\ Ordered /\ Invoiced
    <2>1. PICK a \in Rows(approval), q \in Quotes \ Rows(quote) :
            quote' = [quote EXCEPT ![q] = NewQuote(a)] /\ UNCHANGED <<order, invoice>>
      BY <1>3 DEF CreateQuote
    <2>2. Quoted
      BY <2>1 DEF TypeOK, Table, Rows
    <2>3. QED
      BY <1>1, <2>1, <2>2
  <1>4. ASSUME NEW q \in Quotes, CreateOrder(q) \/ OrderTooLate(q) \/ QuoteLapses(q)
        PROVE  Quoted /\ Ordered /\ Invoiced
    <2>1. Quoted
      BY <1>4, TermsStay
    <2>2. UNCHANGED invoice
      BY <1>4 DEF CreateOrder, OrderTooLate, QuoteLapses
    <2>3. CASE UNCHANGED order
      BY <1>1, <2>1, <2>2, <2>3
    <2>4. CASE CreateOrder(q)
      <3>1. PICK o \in Orders \ Rows(order) : order' = [order EXCEPT ![o] = NewOrder(q)]
        BY <2>4 DEF CreateOrder
      <3>2. Ordered
        BY <3>1 DEF TypeOK, Table, Rows
      <3>3. QED
        BY <1>1, <2>1, <2>2, <3>2
    <2>5. QED
      BY <1>4, <2>3, <2>4 DEF OrderTooLate, QuoteLapses
  <1>5. ASSUME NEW o \in Orders, CreateInvoice(o) PROVE Quoted /\ Ordered /\ Invoiced
    <2>1. PICK v \in Invoices \ Rows(invoice) : invoice' = [invoice EXCEPT ![v] = NewInvoice(o)]
      BY <1>5 DEF CreateInvoice
    <2>2. Invoiced
      BY <2>1 DEF TypeOK, Table, Rows
    <2>3. UNCHANGED <<quote, order>>
      BY <1>5 DEF CreateInvoice
    <2>4. QED
      BY <1>1, <2>2, <2>3
  <1>6. ASSUME NEW v \in Invoices, InvoiceChanged(v) PROVE Quoted /\ Ordered /\ Invoiced
    <2>1. Invoiced
      BY <1>6, TermsStay
    <2>2. UNCHANGED <<quote, order>>
      BY <1>6, InvoiceChange
    <2>3. QED
      BY <1>1, <2>1, <2>2
  <1> HIDE DEF Quoted, Ordered, Invoiced
  <1>7. \/ UNCHANGED documents
        \/ \E j \in Inquiries : CreateQuote(j)
        \/ \E q \in Quotes : CreateOrder(q) \/ OrderTooLate(q) \/ QuoteLapses(q)
        \/ \E o \in Orders : CreateInvoice(o)
        \/ \E v \in Invoices : InvoiceChanged(v)
    BY DocumentSteps
  <1>8. Quoted /\ Ordered /\ Invoiced
    BY <1>2, <1>3, <1>4, <1>5, <1>6, <1>7
  <1>9. QED
    BY <1>8 DEF Quoted, Ordered, Invoiced, QuotesOf, OrdersOf, InvoicesOf

(* A failure that is reported stays in the queue: no extraction starts     *)
(* over it.                                                                *)
LEMMA ReportPersists ==
    ASSUME TypeOK, [Next]_vars, NEW i \in Inquiries, "downstream_failure" \in review[i]
    PROVE  "downstream_failure" \in review'[i]
  <1>1. review \in [Inquiries -> SUBSET InquiryExceptions]
    BY DEF TypeOK
  <1>2. CASE UNCHANGED review
    BY <1>2
  <1>3. ASSUME NEW w \in Workers, NEW j \in Inquiries, StartExtraction(w, j)
        PROVE  "downstream_failure" \in review'[i]
    <2>1. CASE j = i
      <3>1. status[i] # "needs_review"
        BY <1>3, <2>1 DEF StartExtraction, MayExtract, RETRYABLE_EXCEPTIONS
      <3>2. QED
        BY <1>1, <1>3, <2>1, <3>1 DEF StartExtraction
    <2>2. CASE j # i
      BY <1>1, <1>3, <2>2 DEF StartExtraction
    <2>3. QED
      BY <2>1, <2>2
  <1>4. ASSUME NEW j, NEW S, review' = [review EXCEPT ![j] = @ \union S]
        PROVE  "downstream_failure" \in review'[i]
    BY <1>1, <1>4
  <1>5. ASSUME NEW w \in Workers, ExtractionSucceeds(w) \/ ExtractionGivesUp(w)
        PROVE  "downstream_failure" \in review'[i]
    BY <1>4, <1>5 DEF ExtractionSucceeds, ExtractionGivesUp, WriteResult
  <1>6. ASSUME NEW j \in Inquiries, RunRules(j) PROVE "downstream_failure" \in review'[i]
    <2>1. UNCHANGED review \/ review' = [review EXCEPT ![j] = @ \union {"missing_field"}]
      BY <1>6 DEF RunRules
    <2>2. QED
      BY <1>2, <1>4, <2>1
  <1>7. ASSUME NEW j \in Inquiries, ReportWorkflowFailure(j)
        PROVE  "downstream_failure" \in review'[i]
    BY <1>4, <1>7 DEF ReportWorkflowFailure
  <1>8. ASSUME NEW j \in Inquiries,
               CreateInquiry(j) \/ ExtractionGoesStale(j) \/ CreateQuote(j)
        PROVE  UNCHANGED review
    BY <1>8 DEF CreateInquiry, ExtractionGoesStale, CreateQuote
  <1>9. ASSUME NEW w \in Workers, ExtractionCrashes(w) \/ \E kind, r : LlmFails(w, kind, r)
        PROVE  UNCHANGED review
    <2>1. ExtractionCrashes(w) => UNCHANGED intake
      BY DEF ExtractionCrashes
    <2>2. ASSUME NEW kind, NEW r, LlmFails(w, kind, r) PROVE UNCHANGED intake
      BY <2>2 DEF LlmFails
    <2>3. UNCHANGED intake
      BY <1>9, <2>1, <2>2
    <2>4. QED
      BY <2>3 DEF intake
  <1>10. ASSUME NEW a \in Approvals,
                \/ Approve(a) \/ (\E pct \in Percents : Modify(a, pct)) \/ Reject(a)
                \/ DecideTooLate(a) \/ DeadlinePasses(a)
         PROVE  UNCHANGED review
    BY <1>10 DEF Approve, Modify, Grant, Reject, DecideTooLate, Expire, DeadlinePasses, intake
  <1>11. ExpireDue => UNCHANGED review
    BY DEF ExpireDue, Expire
  <1>12. ASSUME NEW q \in Quotes, CreateOrder(q) \/ OrderTooLate(q) \/ QuoteLapses(q)
         PROVE  UNCHANGED review
    BY <1>12 DEF CreateOrder, OrderTooLate, QuoteLapses, intake
  <1>13. ASSUME NEW o \in Orders, CreateInvoice(o) PROVE UNCHANGED review
    BY <1>13 DEF CreateInvoice
  <1>14. ASSUME NEW v \in Invoices, InvoiceChanged(v) PROVE UNCHANGED review
    BY <1>14, InvoiceChange
  <1>15. UNCHANGED vars => UNCHANGED review
    BY DEF vars
  <1>16. QED
    BY <1>2, <1>3, <1>5, <1>6, <1>7, <1>8, <1>9, <1>10, <1>11, <1>12, <1>13, <1>14, <1>15
       DEF Next, InvoiceChanged

LEMMA RefusalPersists ==
    ASSUME TypeOK, OfferRead, [Next]_vars, NEW a \in Rows(approval), Refused(approval[a])
    PROVE  a \in Rows(approval') /\ Refused(approval'[a])
  <1>1. a \in Approvals /\ a \notin Pending
    BY DEF TypeOK, Table, Rows, Pending, Refused
  <1>2. CASE PendingStep
    BY <1>1, <1>2, RowsStay DEF PendingStep
  <1>3. ASSUME NEW i \in Inquiries, RunRules(i) PROVE approval'[a] = approval[a]
    BY <1>1, <1>3, RunRulesWrites DEF TypeOK, Table
  <1>4. QED
    BY <1>2, <1>3, NextApproval, RowsStay

LEMMA ChainPersists == ASSUME TypeOK, OfferRead, [Next]_vars PROVE Persists
  BY DocumentsPersist, ReportPersists, RefusalPersists DEF Persists

(* What an execution has been told by the time it is at a node: each node  *)
(* relies on the ones before it.  Only lost calls and answers repeat the   *)
(* last two, so there is a fault for every try but the first.              *)
RunIsTrue(x) ==
    /\ x.at = "order"   => QuotesOf(x.inquiry) # {}
    /\ x.at = "invoice" => OrdersOf(x.inquiry) # {}
    /\ x.at \in {"validate", "book", "check", "completed"} => InvoicesOf(x.inquiry) # {}
    /\ x.at = "rejected" => x.approval \in Rows(approval) /\ Refused(approval[x.approval])
    /\ x.at = "failed"   => "downstream_failure" \in review[x.inquiry]
    /\ x.at \in {"check", "report"} => x.tries <= faults + 1
RunsTrue == \A e \in Executions : execution[e] # None => RunIsTrue(execution[e])

EndsInvariant == /\ TypeOK /\ OfferRead /\ ExecutedAsApproved /\ RunsOK
                 /\ faults \in 0 .. MaxFaults
                 /\ RunsTrue

LEMMA TruthPersists ==
    ASSUME Persists, faults \in Nat, faults' \in Nat, faults <= faults',
           NEW x \in Run, RunIsTrue(x)
    PROVE  RunIsTrue(x)'
  <1>1. x.inquiry \in Inquiries /\ x.tries \in Nat
    BY DEF Run
  <1>2. /\ x.at = "order"   => QuotesOf(x.inquiry)' # {}
        /\ x.at = "invoice" => OrdersOf(x.inquiry)' # {}
        /\ x.at \in {"validate", "book", "check", "completed"} => InvoicesOf(x.inquiry)' # {}
    BY <1>1 DEF RunIsTrue, Persists
  <1>3. /\ x.at = "rejected" => x.approval \in Rows(approval') /\ Refused(approval'[x.approval])
        /\ x.at = "failed"   => "downstream_failure" \in review'[x.inquiry]
    BY <1>1 DEF RunIsTrue, Persists
  <1>4. x.at \in {"check", "report"} => x.tries <= faults' + 1
    BY <1>1 DEF RunIsTrue
  <1>5. QED
    BY <1>2, <1>3, <1>4 DEF RunIsTrue, QuotesOf, OrdersOf, InvoicesOf

LEMMA GoToFields ==
    ASSUME NEW x \in Run, NEW n
    PROVE  /\ GoTo(x, n).at = n /\ GoTo(x, n).tries = 1
           /\ GoTo(x, n).inquiry = x.inquiry /\ GoTo(x, n).approval = x.approval
  BY DEF GoTo, Run

(* Where a call that fails leads: to the same node, while it has tries left*)
LEMMA AgainFields ==
    ASSUME NEW x \in Run, x.at \in HttpNodes
    PROVE  \/ /\ Again(x).at = x.at /\ Again(x).tries = x.tries + 1
              /\ Again(x).inquiry = x.inquiry /\ x.tries < Tries(x.at)
           \/ x.at = "submit" /\ Again(x).at = "form"
           \/ /\ x.at # "submit" /\ Again(x).at = ErrorOutput[x.at] /\ Again(x).tries = 1
              /\ Again(x).inquiry = x.inquiry /\ ~(x.tries < Tries(x.at))
  <1>1. CASE x.tries < Tries(x.at)
    <2>1. Again(x) = [x EXCEPT !.tries = x.tries + 1, !.worker = None]
      BY <1>1 DEF Again, Run
    <2>2. QED
      BY <1>1, <2>1 DEF Run
  <1>2. CASE ~(x.tries < Tries(x.at)) /\ x.at = "submit"
    <2>1. ErrorOutput["submit"] = "form"
      BY DEF ErrorOutput
    <2>2. QED
      BY <1>2, <2>1, GoToFields DEF Again, OnError
  <1>3. CASE ~(x.tries < Tries(x.at)) /\ x.at # "submit"
    BY <1>3, GoToFields DEF Again, OnError
  <1>4. QED
    BY <1>1, <1>2, <1>3

(* Where it leads in the end: to the report of the failure, from any step  *)
(* that makes or validates a document.                                     *)
Stops == {"intake error", "extraction error", "decision error", "timed out"}

Claims == {"order", "invoice", "validate", "book", "check", "completed", "rejected",
           "failed", "report"}

LEMMA StopsClaimNothing == Stops \intersect Claims = {}
  BY Zenon DEF Stops, Claims

LEMMA NothingClaimed == ASSUME NEW y, y.at \notin Claims PROVE RunIsTrue(y)'
  BY DEF RunIsTrue, Claims

LEMMA ErrorsLead ==
    ASSUME NEW n \in HttpNodes \ {"submit"}
    PROVE  \/ ErrorOutput[n] \in Stops
           \/ ErrorOutput[n] = "report" /\ n \in {"quote", "order", "invoice", "validate"}
           \/ ErrorOutput[n] = "check" /\ n = "book"
           \/ n \in {"check", "report"}
  <1>1. /\ ErrorOutput["create"] \in Stops /\ ErrorOutput["extract"] \in Stops
        /\ ErrorOutput["decide"] \in Stops /\ ErrorOutput["expire"] \in Stops
    BY Zenon DEF ErrorOutput, Stops
  <1>2. /\ ErrorOutput["quote"] = "report" /\ ErrorOutput["order"] = "report"
        /\ ErrorOutput["invoice"] = "report" /\ ErrorOutput["validate"] = "report"
        /\ ErrorOutput["book"] = "check"
    BY DEF ErrorOutput
  <1>3. QED
    BY <1>1, <1>2 DEF HttpNodes

(* A lost call makes no claim untrue; an error answer comes from no node   *)
(* after which nobody would be told.                                       *)
LEMMA AgainIsTrue ==
    ASSUME MaxFaults < MaxTries, Persists, faults \in 0 .. MaxFaults,
           NEW x \in Run, x.at \in HttpNodes, RunIsTrue(x),
           Fault \/ (UNCHANGED faults /\ x.at \notin {"check", "report"})
    PROVE  RunIsTrue(Again(x))'
  <1>1. faults \in Nat /\ faults' \in Nat /\ faults <= faults' /\ x.tries \in Nat
    BY TriesAssumption DEF Fault, Run
  <1>2. PICK y : y = Again(x)
    OBVIOUS
  <1>3. x.inquiry \in Inquiries
    BY DEF Run
  <1>4. RunIsTrue(x)'
    BY <1>1, TruthPersists
  <1>5. CASE /\ y.at = x.at /\ y.tries = x.tries + 1 /\ y.inquiry = x.inquiry
    <2>1. x.at \in {"check", "report"} => y.tries <= faults' + 1
      BY <1>1, <1>5 DEF RunIsTrue, Fault
    <2>2. x.at # "rejected"
      BY DEF HttpNodes
    <2>3. RunIsTrue(y)'
      BY <1>4, <1>5, <2>1, <2>2 DEF RunIsTrue, QuotesOf, OrdersOf, InvoicesOf
    <2>4. QED
      BY <1>2, <2>3
  <1>6. CASE y.at = "form" \/ y.at \in Stops
    <2>1. y.at \notin Claims
      BY <1>6, StopsClaimNothing DEF Claims
    <2>2. QED
      BY <1>2, <2>1, NothingClaimed
  <1>7. CASE y.at = "report" /\ y.tries = 1
    <2>1. y.tries <= faults' + 1
      <3>1. \A k \in Nat : 1 <= k + 1
        OBVIOUS
      <3>2. QED
        BY <1>1, <1>7, <3>1
    <2>2. RunIsTrue(y)'
      BY <1>7, <2>1 DEF RunIsTrue
    <2>3. QED
      BY <1>2, <2>2
  <1>8. CASE x.at = "book" /\ y.at = "check" /\ y.tries = 1 /\ y.inquiry = x.inquiry
    <2>1. InvoicesOf(x.inquiry)' # {}
      BY <1>4, <1>8 DEF RunIsTrue
    <2>2. InvoicesOf(y.inquiry)' # {}
      BY <1>8, <2>1 DEF InvoicesOf
    <2>3. y.tries <= faults' + 1
      <3>1. \A k \in Nat : 1 <= k + 1
        OBVIOUS
      <3>2. QED
        BY <1>1, <1>8, <3>1
    <2>4. RunIsTrue(y)'
      BY <1>8, <2>2, <2>3 DEF RunIsTrue
    <2>5. QED
      BY <1>2, <2>4
  <1>9. x.at \in {"check", "report"} => x.tries < Tries(x.at)
    BY <1>1, TriesAssumption DEF RunIsTrue, Fault, Tries
  <1>10. QED
    BY <1>2, <1>5, <1>6, <1>7, <1>8, <1>9, AgainFields, ErrorsLead

LEMMA RunBecomesTrue ==
    ASSUME RunsOK, RunsTrue, Persists, faults \in Nat, faults' \in Nat, faults <= faults',
           NEW e \in Executions, NEW y, RunIsTrue(y)', Becomes(e, y)
    PROVE  RunsTrue'
  <1>1. execution'[e] = y /\ \A f \in Executions \ {e} : execution'[f] = execution[f]
    BY DEF RunsOK, Becomes
  <1>2. ASSUME NEW f \in Executions, execution'[f] # None PROVE RunIsTrue(execution[f])'
    <2>1. CASE f = e
      BY <1>1, <2>1 DEF RunIsTrue, QuotesOf, OrdersOf, InvoicesOf
    <2>2. CASE f # e
      <3>1. PICK x : x = execution[f]
        OBVIOUS
      <3>2. x \in Run /\ RunIsTrue(x) /\ execution'[f] = x
        BY <1>1, <1>2, <2>2, <3>1 DEF RunsOK, RunsTrue
      <3>3. RunIsTrue(x)'
        BY <3>2, TruthPersists
      <3>4. QED
        BY <3>2, <3>3 DEF RunIsTrue, QuotesOf, OrdersOf, InvoicesOf
    <2>3. QED
      BY <2>1, <2>2
  <1>3. QED
    BY <1>2 DEF RunsTrue

(* The answer of a call, lost or not, when what it leads to is true.       *)
LEMMA AnswerIsTrue ==
    ASSUME EndsInvariant, MaxFaults < MaxTries, Persists, NEW e \in Executions,
           execution[e] # None, execution[e].at \in HttpNodes,
           NEW y, UNCHANGED faults => RunIsTrue(y)', Answer(e, y)
    PROVE  RunsTrue'
  <1>1. PICK x : x = execution[e]
    OBVIOUS
  <1>2. x \in Run /\ x.at \in HttpNodes /\ RunIsTrue(x) /\ RunsOK /\ RunsTrue
    BY <1>1 DEF EndsInvariant, RunsOK, RunsTrue
  <1>3. faults \in 0 .. MaxFaults /\ faults \in Nat
    BY TriesAssumption DEF EndsInvariant
  <1>4. CASE UNCHANGED faults /\ Becomes(e, y)
    BY <1>2, <1>3, <1>4, RunBecomesTrue
  <1>5. CASE Fault /\ Becomes(e, Again(x))
    <2>1. RunIsTrue(Again(x))'
      BY <1>2, <1>3, <1>5, AgainIsTrue
    <2>2. PICK z : z = Again(x)
      OBVIOUS
    <2>3. RunIsTrue(z)'
      BY <2>1, <2>2
    <2>4. faults' \in Nat /\ faults <= faults'
      BY <1>3, <1>5 DEF Fault
    <2>5. QED
      BY <1>2, <1>3, <1>5, <2>2, <2>3, <2>4, RunBecomesTrue
  <1>6. QED
    BY <1>1, <1>4, <1>5 DEF Answer

LEMMA RefuseIsTrue ==
    ASSUME EndsInvariant, MaxFaults < MaxTries, Persists, NEW e \in Executions,
           execution[e] # None, execution[e].at \in HttpNodes \ {"check", "report"}, Refuse(e)
    PROVE  RunsTrue'
  <1>1. PICK x : x = execution[e]
    OBVIOUS
  <1>2. x \in Run /\ x.at \in HttpNodes \ {"check", "report"} /\ RunIsTrue(x)
    BY <1>1 DEF EndsInvariant, RunsOK, RunsTrue
  <1>3. PICK z : z = Again(x)
    OBVIOUS
  <1>4. ASSUME UNCHANGED faults PROVE RunIsTrue(z)'
    <2>1. RunIsTrue(Again(x))'
      BY <1>2, <1>4, AgainIsTrue DEF EndsInvariant
    <2>2. QED
      BY <1>3, <2>1
  <1>5. Answer(e, z)
    BY <1>1, <1>3 DEF Refuse
  <1>6. QED
    BY <1>4, <1>5, AnswerIsTrue

(* An answer that leads to node n, of which something is claimed, or not.  *)
LEMMA NextIsTrue ==
    ASSUME EndsInvariant, MaxFaults < MaxTries, Persists, NEW e \in Executions,
           execution[e] # None, execution[e].at \in HttpNodes,
           NEW n, Answer(e, GoTo(execution[e], n)),
           NEW i, i = execution[e].inquiry, NEW a, a = execution[e].approval,
           n = "order"   => QuotesOf(i)' # {},
           n = "invoice" => OrdersOf(i)' # {},
           n \in {"validate", "book", "check", "completed"} => InvoicesOf(i)' # {},
           n = "rejected" => a \in Rows(approval') /\ Refused(approval'[a]),
           n = "failed"   => "downstream_failure" \in review'[i]
    PROVE  RunsTrue'
  <1>1. PICK x : x = execution[e]
    OBVIOUS
  <1>2. PICK y : y = GoTo(x, n)
    OBVIOUS
  <1>3. x \in Run /\ faults \in Nat
    BY <1>1, TriesAssumption DEF EndsInvariant, RunsOK
  <1>4. y.at = n /\ y.tries = 1 /\ y.inquiry = x.inquiry /\ y.approval = x.approval
    BY <1>2, <1>3, GoToFields
  <1>5. ASSUME UNCHANGED faults PROVE RunIsTrue(y)'
    <2>1. y.tries <= faults' + 1
      BY <1>3, <1>4, <1>5
    <2>2. /\ y.at = "order"   => QuotesOf(y.inquiry)' # {}
          /\ y.at = "invoice" => OrdersOf(y.inquiry)' # {}
          /\ y.at \in {"validate", "book", "check", "completed"} => InvoicesOf(y.inquiry)' # {}
      BY <1>1, <1>4
    <2>3. /\ y.at = "rejected" => y.approval \in Rows(approval') /\ Refused(approval'[y.approval])
          /\ y.at = "failed"   => "downstream_failure" \in review'[y.inquiry]
      BY <1>1, <1>4
    <2>4. QED
      BY <2>1, <2>2, <2>3 DEF RunIsTrue, QuotesOf, OrdersOf, InvoicesOf
  <1>6. Answer(e, y)
    BY <1>1, <1>2
  <1>7. QED
    BY <1>5, <1>6, AnswerIsTrue

(* A step to a node that claims nothing.                                   *)
LEMMA SilentlyTrue ==
    ASSUME EndsInvariant, Persists, UNCHANGED faults, NEW e \in Executions,
           NEW y, y.at \notin Claims, Becomes(e, y)
    PROVE  RunsTrue'
  <1>1. faults \in Nat /\ RunsOK /\ RunsTrue
    BY TriesAssumption DEF EndsInvariant
  <1>2. RunIsTrue(y)'
    BY NothingClaimed
  <1>3. QED
    BY <1>1, <1>2, RunBecomesTrue

LEMMA QuietlyTrue ==
    ASSUME EndsInvariant, MaxFaults < MaxTries, Persists, NEW e \in Executions,
           execution[e] # None, execution[e].at \in HttpNodes,
           NEW n, n \notin Claims, Answer(e, GoTo(execution[e], n))
    PROVE  RunsTrue'
  <1>1. PICK i, a : i = execution[e].inquiry /\ a = execution[e].approval
    OBVIOUS
  <1>2. QED
    BY <1>1, NextIsTrue DEF Claims

(* An answer that leads on to what the document just made, or found, allows.*)
LEMMA DocumentNext ==
    ASSUME EndsInvariant, MaxFaults < MaxTries, Persists, NEW e \in Executions,
           execution[e] # None, execution[e].at \in HttpNodes,
           NEW n, Answer(e, GoTo(execution[e], n)),
           NEW i, i = execution[e].inquiry,
           \/ n = "order" /\ QuotesOf(i)' # {}
           \/ n = "invoice" /\ OrdersOf(i)' # {}
           \/ n \in {"validate", "book", "check", "completed"} /\ InvoicesOf(i)' # {}
    PROVE  RunsTrue'
  <1>1. PICK a : a = execution[e].approval
    OBVIOUS
  <1>2. /\ n = "order"   => QuotesOf(i)' # {}
        /\ n = "invoice" => OrdersOf(i)' # {}
        /\ n \in {"validate", "book", "check", "completed"} => InvoicesOf(i)' # {}
        /\ n # "rejected" /\ n # "failed"
    OBVIOUS
  <1>3. QED
    BY <1>1, <1>2, NextIsTrue

LEMMA NobodyMovesTrue ==
    ASSUME EndsInvariant, Persists, UNCHANGED <<execution, faults>>
    PROVE  RunsTrue'
  <1>1. faults \in Nat
    BY TriesAssumption DEF EndsInvariant
  <1>2. ASSUME NEW f \in Executions, execution'[f] # None PROVE RunIsTrue(execution[f])'
    <2>1. PICK x : x = execution[f]
      OBVIOUS
    <2>2. x \in Run /\ RunIsTrue(x) /\ execution'[f] = x
      BY <1>2, <2>1 DEF EndsInvariant, RunsOK, RunsTrue
    <2>3. RunIsTrue(x)'
      BY <1>1, <2>2, TruthPersists
    <2>4. QED
      BY <2>2, <2>3 DEF RunIsTrue, QuotesOf, OrdersOf, InvoicesOf
  <1>3. QED
    BY <1>2 DEF RunsTrue

LEMMA IntakeTrue ==
    ASSUME EndsInvariant, MaxFaults < MaxTries, Persists, TypeOK', NEW e \in Executions,
           Create(e) \/ Extract(e) \/ DecideInquiry(e)
    PROVE  RunsTrue'
  <1> DEFINE x == execution[e]
  <1>1. RunsOK /\ TypeOK
    BY DEF EndsInvariant
  <1>2. ASSUME Create(e) PROVE RunsTrue'
    <2>1. x # None /\ x.at = "create" /\ Answer(e, GoTo(x, "extract"))
      BY <1>2 DEF Create, Waits, At
    <2>2. QED
      BY <2>1, QuietlyTrue DEF HttpNodes, Claims
  <1>3. ASSUME Extract(e) PROVE RunsTrue'
    <2>1. x # None /\ x.at = "extract" /\ x \in Run
      BY <1>1, <1>3 DEF Extract, Waits, At, RunsOK
    <2>2. ASSUME NEW w \in Workers, Becomes(e, [x EXCEPT !.worker = w]), UNCHANGED faults
          PROVE  RunsTrue'
      <3>1. PICK y : y = [x EXCEPT !.worker = w]
        OBVIOUS
      <3>2. y.at = "extract" /\ y.at \notin Claims
        BY <2>1, <3>1 DEF Run, Claims
      <3>3. QED
        BY <2>2, <3>1, <3>2, SilentlyTrue
    <2>3. ASSUME Answer(e, GoTo(x, "decide")) PROVE RunsTrue'
      BY <2>1, <2>3, QuietlyTrue DEF HttpNodes, Claims
    <2>4. ASSUME Refuse(e) PROVE RunsTrue'
      BY <2>1, <2>4, RefuseIsTrue DEF HttpNodes
    <2>5. QED
      BY <1>3, <2>2, <2>3, <2>4 DEF Extract
  <1>4. ASSUME DecideInquiry(e) PROVE RunsTrue'
    <2>1. x # None /\ x.at = "decide" /\ x \in Run
      BY <1>1, <1>4 DEF DecideInquiry, Waits, At, RunsOK
    <2>2. ASSUME NEW b, Decided(e, b) PROVE RunsTrue'
      <3> DEFINE n == Route(ruling'[x.inquiry], approval'[b])
                 y == GoTo(x, n)
                 z == [y EXCEPT !.approval = b, !.token = TokenOfAnswer(b)]
      <3>1. n \in Nodes \ Early /\ n \notin Claims
        BY DEF Route, Nodes, HttpNodes, Ends, Early, Claims
      <3>2. y \in Run /\ y.at = n
        BY <2>1, <3>1, GoToMoves DEF Moved
      <3>3. Answer(e, z)
        BY <2>2 DEF Decided
      <3> HIDE DEF y, n
      <3>4. z.at = y.at
        BY <3>2 DEF Run
      <3> HIDE DEF z
      <3>5. PICK r : r = z
        OBVIOUS
      <3>6. RunIsTrue(r)'
        BY <3>1, <3>2, <3>4, <3>5, NothingClaimed
      <3>7. QED
        BY <2>1, <3>3, <3>5, <3>6, AnswerIsTrue DEF HttpNodes
    <2>3. ASSUME Refuse(e) PROVE RunsTrue'
      BY <2>1, <2>3, RefuseIsTrue DEF HttpNodes
    <2>4. QED
      BY <1>4, <2>2, <2>3 DEF DecideInquiry
  <1>5. QED
    BY <1>2, <1>3, <1>4

LEMMA FormTrue ==
    ASSUME EndsInvariant, Persists, NEW e \in Executions,
           (\E i \in Inquiries : Webhook(e, i)) \/ FormTimesOut(e)
    PROVE  RunsTrue'
  <1> DEFINE x == execution[e]
  <1>1. ASSUME NEW i \in Inquiries, Webhook(e, i) PROVE RunsTrue'
    <2> DEFINE y == [inquiry |-> i, at |-> "create", tries |-> 1,
                     worker |-> None, approval |-> None, token |-> FALSE,
                     action |-> None, pct |-> None]
    <2>1. y.at \notin Claims /\ Becomes(e, y) /\ UNCHANGED faults
      BY <1>1 DEF Webhook, Claims
    <2> HIDE DEF y
    <2>2. QED
      BY <2>1, SilentlyTrue
  <1>2. ASSUME FormTimesOut(e) PROVE RunsTrue'
    <2>1. x # None /\ x \in Run /\ Becomes(e, GoTo(x, "expire")) /\ UNCHANGED faults
      BY <1>2 DEF FormTimesOut, At, EndsInvariant, RunsOK
    <2>2. PICK y : y = GoTo(x, "expire")
      OBVIOUS
    <2>3. y.at \notin Claims
      BY <2>1, <2>2, GoToFields DEF Claims
    <2>4. QED
      BY <2>1, <2>2, <2>3, SilentlyTrue
  <1>3. QED
    BY <1>1, <1>2

LEMMA FilledTrue ==
    ASSUME EndsInvariant, Persists, NEW e \in Executions, NEW action, NEW pct,
           FillForm(e, action, pct)
    PROVE  RunsTrue'
  <1> DEFINE x == execution[e]
             g == GoTo(x, "submit")
  <1>1. x # None /\ x \in Run
    BY DEF FillForm, At, EndsInvariant, RunsOK
  <1>2. UNCHANGED faults /\ Becomes(e, [g EXCEPT !.action = action, !.pct = pct])
    BY DEF FillForm
  <1>3. g \in Run /\ g.at = "submit"
    BY <1>1, GoToMoves DEF Moved, Nodes, HttpNodes, Early
  <1> HIDE DEF g
  <1>4. PICK y : y = [g EXCEPT !.action = action, !.pct = pct]
    OBVIOUS
  <1>5. y.at \notin Claims
    BY <1>3, <1>4 DEF Run, Claims
  <1>6. QED
    BY <1>2, <1>4, <1>5, SilentlyTrue

(* The answer to a submission says what became of the approval.            *)
LEMMA AnsweredTrue ==
    ASSUME EndsInvariant, MaxFaults < MaxTries, Persists, TypeOK', NEW e \in Executions,
           execution[e] # None, execution[e].at = "submit",
           NEW b, b = execution[e].approval, b \in Rows(approval'),
           approval'[b].status # "pending",
           Answer(e, AfterDecision(execution[e], approval'[b]))
    PROVE  RunsTrue'
  <1>1. approval'[b] \in ApprovalRow
    BY DEF TypeOK, Table, Rows
  <1>2. Granted(approval'[b]) \/ Refused(approval'[b])
    BY <1>1 DEF ApprovalRow, Granted, Refused
  <1>3. PICK i : i = execution[e].inquiry
    OBVIOUS
  <1>4. CASE Granted(approval'[b])
    BY <1>4, QuietlyTrue DEF AfterDecision, HttpNodes, Claims
  <1>5. CASE ~Granted(approval'[b])
    <2>1. Answer(e, GoTo(execution[e], "rejected")) /\ Refused(approval'[b])
      BY <1>2, <1>5 DEF AfterDecision
    <2>2. QED
      BY <1>3, <2>1, NextIsTrue DEF HttpNodes
  <1>6. QED
    BY <1>4, <1>5

LEMMA SubmitTrue ==
    ASSUME EndsInvariant, MaxFaults < MaxTries, Persists, TypeOK', [Next]_vars,
           NEW e \in Executions, SubmitDecision(e)
    PROVE  RunsTrue'
  <1> DEFINE x == execution[e]
  <1>1. x # None /\ x.at = "submit" /\ x \in Run /\ TypeOK /\ OfferRead /\ RunsOK
    BY DEF SubmitDecision, Waits, At, EndsInvariant, RunsOK
  <1>2. Refuse(e) => RunsTrue'
    BY <1>1, RefuseIsTrue DEF HttpNodes
  <1>3. CASE Incomplete(x)
    BY <1>2, <1>3 DEF SubmitDecision
  <1>4. CASE ~Incomplete(x)
    <2>1. PICK b : b = x.approval
      OBVIOUS
    <2>2. b \in Rows(approval) /\ b \in Approvals
      BY <1>1, <1>4, <2>1 DEF Incomplete, RunsOK, Rows, TypeOK, Table
    <2>3. b \in Rows(approval')
      BY <1>1, <2>2, RowsStay
    <2>4. ASSUME Apply(x), Answer(e, AfterDecision(x, approval'[b])) PROVE RunsTrue'
      <3> DEFINE row == approval[b]
      <3>1. \/ \E pct : approval'[b] = GrantedRow(row, pct)
            \/ approval'[b] = [row EXCEPT !.status = "rejected"]
        BY <1>1, <2>1, <2>2, <2>4
           DEF Apply, Approve, Modify, Grant, Reject, UpdateApproval, TypeOK, Table
      <3>2. row \in ApprovalRow
        BY <1>1, <2>2 DEF TypeOK, Table, Rows
      <3> HIDE DEF row
      <3>3. \A st, pct, h :
              [row EXCEPT !.status = st, !.approved = pct, !.hash = h].status = st
        BY <3>2 DEF ApprovalRow
      <3>4. \A pct : GrantedRow(row, pct).status # "pending"
        BY <3>3 DEF GrantedRow
      <3>5. [row EXCEPT !.status = "rejected"].status # "pending"
        BY <3>2 DEF ApprovalRow
      <3>6. approval'[b].status # "pending"
        BY <3>1, <3>4, <3>5
      <3>7. QED
        BY <1>1, <2>1, <2>3, <2>4, <3>6, AnsweredTrue
    <2>5. ASSUME UNCHANGED vars, approval[b].status # "pending",
                 Answer(e, AfterDecision(x, approval[b]))
          PROVE  RunsTrue'
      <3>1. approval' = approval
        BY <2>5 DEF vars
      <3>2. QED
        BY <1>1, <2>1, <2>3, <2>5, <3>1, AnsweredTrue
    <2>6. QED
      BY <1>2, <1>4, <2>1, <2>4, <2>5 DEF SubmitDecision
  <1>5. QED
    BY <1>3, <1>4

LEMMA ExpireTrue ==
    ASSUME EndsInvariant, MaxFaults < MaxTries, Persists, NEW e \in Executions, ExpireOverdue(e)
    PROVE  RunsTrue'
  <1>1. execution[e] # None /\ execution[e].at = "expire"
    BY Zenon DEF ExpireOverdue, Waits, At
  <1>2. "timed out" \notin Claims
    BY Zenon DEF Claims
  <1>3. PICK n : n = "timed out"
    BY Zenon
  <1>4. Answer(e, GoTo(execution[e], n))
    BY Zenon, <1>3 DEF ExpireOverdue
  <1>5. n \notin Claims
    BY Zenon, <1>2, <1>3
  <1>6. QED
    BY <1>1, <1>4, <1>5, QuietlyTrue DEF HttpNodes

(* The document steps: one that makes a document, or finds it.             *)
LEMMA QuoteTrue ==
    ASSUME EndsInvariant, MaxFaults < MaxTries, Persists, TypeOK', NEW e \in Executions,
           QuoteStep(e)
    PROVE  RunsTrue'
  <1> DEFINE x == execution[e]
  <1>1. x # None /\ x.at = "quote" /\ TypeOK
    BY DEF QuoteStep, Waits, At, EndsInvariant
  <1>2. PICK i, a : i = x.inquiry /\ a = x.approval
    OBVIOUS
  <1>3. ASSUME CreateQuote(i) PROVE QuotesOf(i)' # {}
    <2>1. PICK b \in Rows(approval), q \in Quotes \ Rows(quote) :
            /\ approval[b].inquiry = i /\ Granted(approval[b])
            /\ quote' = [quote EXCEPT ![q] = NewQuote(b)]
      BY <1>3 DEF CreateQuote
    <2>2. quote'[q] = NewQuote(b) /\ DOMAIN quote' = Quotes
      BY <1>1, <2>1 DEF TypeOK, Table
    <2>3. NewQuote(b) \in QuoteRow
      BY <1>1, <2>1, NewQuoteType
    <2>4. NewQuote(b).terms.inquiry = i
      BY <2>1 DEF NewQuote, TermsOf
    <2>5. q \in QuotesOf(i)'
      BY <2>1, <2>2, <2>3, <2>4, NoneAssumption DEF QuotesOf, Rows
    <2>6. QED
      BY <2>5
  <1>4. ASSUME QuotesOf(i) # {}, UNCHANGED vars PROVE QuotesOf(i)' # {}
    BY <1>4 DEF vars, QuotesOf
  <1>5. ASSUME QuotesOf(i)' # {}, Answer(e, GoTo(x, "order")) PROVE RunsTrue'
    <2>1. PICK n : n = "order"
      OBVIOUS
    <2>2. Answer(e, GoTo(x, n))
      BY <1>5, <2>1
    <2>3. QED
      BY <1>1, <1>2, <1>5, <2>1, <2>2, DocumentNext DEF HttpNodes
  <1>6. ASSUME Refuse(e) PROVE RunsTrue'
    BY <1>1, <1>6, RefuseIsTrue DEF HttpNodes
  <1>7. QED
    BY <1>2, <1>3, <1>4, <1>5, <1>6 DEF QuoteStep

LEMMA OrderTrue ==
    ASSUME EndsInvariant, MaxFaults < MaxTries, Persists, TypeOK', NEW e \in Executions,
           OrderStep(e)
    PROVE  RunsTrue'
  <1> DEFINE x == execution[e]
  <1>1. x # None /\ x.at = "order" /\ TypeOK /\ RunIsTrue(x)
    BY DEF OrderStep, Waits, At, EndsInvariant, RunsTrue
  <1>2. PICK i, a : i = x.inquiry /\ a = x.approval
    OBVIOUS
  <1>3. PICK q : q = QuoteOf(i)
    OBVIOUS
  <1>4. q \in QuotesOf(i)
    BY <1>1, <1>2, <1>3 DEF RunIsTrue, QuoteOf
  <1>5. ASSUME CreateOrder(q) PROVE OrdersOf(i)' # {}
    <2>1. PICK o \in Orders \ Rows(order) : order' = [order EXCEPT ![o] = NewOrder(q)]
      BY <1>5 DEF CreateOrder
    <2>2. order'[o] = NewOrder(q) /\ DOMAIN order' = Orders
      BY <1>1, <2>1 DEF TypeOK, Table
    <2>3. quote[q] \in QuoteRow /\ q \in Quotes /\ quote[q].terms.inquiry = i
      BY <1>1, <1>4 DEF QuotesOf, TypeOK, Table, Rows
    <2>4. NewOrder(q) \in OrderRow /\ NewOrder(q).terms = quote[q].terms
      BY <2>3 DEF NewOrder, OrderRow, QuoteRow
    <2>5. o \in OrdersOf(i)'
      BY <2>1, <2>2, <2>3, <2>4, NoneAssumption DEF OrdersOf, Rows
    <2>6. QED
      BY <2>5
  <1>6. ASSUME OrdersOf(i) # {}, UNCHANGED vars PROVE OrdersOf(i)' # {}
    BY <1>6 DEF vars, OrdersOf
  <1>7. ASSUME OrdersOf(i)' # {}, Answer(e, GoTo(x, "invoice")) PROVE RunsTrue'
    <2>1. PICK n : n = "invoice"
      OBVIOUS
    <2>2. Answer(e, GoTo(x, n))
      BY <1>7, <2>1
    <2>3. QED
      BY <1>1, <1>2, <1>7, <2>1, <2>2, DocumentNext DEF HttpNodes
  <1>8. ASSUME Refuse(e) PROVE RunsTrue'
    BY <1>1, <1>8, RefuseIsTrue DEF HttpNodes
  <1>9. QED
    BY <1>2, <1>3, <1>5, <1>6, <1>7, <1>8 DEF OrderStep

(* An order that is not billable has an invoice, which is the inquiry's.   *)
LEMMA InvoiceTrue ==
    ASSUME EndsInvariant, MaxFaults < MaxTries, Persists, TypeOK', NEW e \in Executions,
           InvoiceStep(e)
    PROVE  RunsTrue'
  <1> DEFINE x == execution[e]
  <1>1. x # None /\ x.at = "invoice" /\ TypeOK /\ RunIsTrue(x) /\ ExecutedAsApproved
    BY DEF InvoiceStep, Waits, At, EndsInvariant, RunsTrue
  <1>2. PICK i, a : i = x.inquiry /\ a = x.approval
    OBVIOUS
  <1>3. PICK o : o = OrderOf(i)
    OBVIOUS
  <1>4. o \in OrdersOf(i)
    BY <1>1, <1>2, <1>3 DEF RunIsTrue, OrderOf
  <1>5. order[o] \in OrderRow /\ o \in Orders /\ o \in Rows(order) /\ order[o].terms.inquiry = i
    BY <1>1, <1>4 DEF OrdersOf, TypeOK, Table, Rows
  <1>6. ASSUME CreateInvoice(o) PROVE InvoicesOf(i)' # {}
    <2>1. PICK v \in Invoices \ Rows(invoice) : invoice' = [invoice EXCEPT ![v] = NewInvoice(o)]
      BY <1>6 DEF CreateInvoice
    <2>2. invoice'[v] = NewInvoice(o) /\ DOMAIN invoice' = Invoices
      BY <1>1, <2>1 DEF TypeOK, Table
    <2>3. NewInvoice(o) \in InvoiceRow /\ NewInvoice(o).terms = order[o].terms
      BY <1>5, NewInvoiceType DEF NewInvoice
    <2>4. v \in Rows(invoice')
      BY <2>1, <2>2, <2>3, NoneAssumption DEF Rows
    <2>5. invoice'[v].terms.inquiry = i
      BY <1>5, <2>2, <2>3
    <2>6. QED
      BY <2>4, <2>5 DEF InvoicesOf
  <1>7. ASSUME ~Billable(o), UNCHANGED vars PROVE InvoicesOf(i)' # {}
    <2>1. PICK v \in Rows(invoice) : invoice[v].order = o
      BY <1>5, <1>7 DEF Billable
    <2>2. invoice[v].terms = order[o].terms
      BY <1>1, <2>1, DocumentsByRow DEF InvoiceSound
    <2>3. invoice' = invoice
      BY <1>7 DEF vars
    <2>4. v \in Rows(invoice') /\ invoice'[v].terms.inquiry = i
      BY <1>5, <2>1, <2>2, <2>3
    <2>5. QED
      BY <2>4 DEF InvoicesOf
  <1>8. InvoicesOf(i)' # {}
    BY <1>2, <1>3, <1>6, <1>7 DEF InvoiceStep
  <1>9. PICK n : n = "validate"
    OBVIOUS
  <1>10. Answer(e, GoTo(x, n))
    BY <1>9 DEF InvoiceStep
  <1>11. QED
    BY <1>1, <1>2, <1>8, <1>9, <1>10, DocumentNext DEF HttpNodes

(* The last steps are taken with an invoice made.                          *)
LEMMA LastTrue ==
    ASSUME EndsInvariant, MaxFaults < MaxTries, Persists, NEW e \in Executions, LastSteps(e)
    PROVE  RunsTrue'
  <1> DEFINE x == execution[e]
  <1>1. /\ x # None /\ x.at \in {"validate", "book", "check"}
        /\ \E n \in {"book", "check", "completed"} : Answer(e, GoTo(x, n))
    BY DEF LastSteps, Waits, At
  <1>2. PICK i : i = x.inquiry
    OBVIOUS
  <1>3. RunIsTrue(x) /\ i \in Inquiries
    BY <1>1, <1>2 DEF EndsInvariant, RunsTrue, RunsOK, Run
  <1>4. InvoicesOf(i)' # {}
    <2>1. InvoicesOf(i) # {}
      BY <1>1, <1>2, <1>3 DEF RunIsTrue
    <2>2. QED
      BY <1>3, <2>1 DEF Persists
  <1>5. x.at \in HttpNodes
    BY <1>1 DEF HttpNodes
  <1>6. PICK n \in {"book", "check", "completed"} : Answer(e, GoTo(x, n))
    BY <1>1
  <1>7. QED
    BY <1>1, <1>2, <1>4, <1>5, <1>6, DocumentNext

LEMMA ReportTrue ==
    ASSUME EndsInvariant, MaxFaults < MaxTries, Persists, NEW e \in Executions,
           ReportFailure(e)
    PROVE  RunsTrue'
  <1> DEFINE x == execution[e]
  <1>1. x # None /\ x.at = "report" /\ x.at \in HttpNodes
    BY DEF ReportFailure, Waits, At, HttpNodes
  <1>2. PICK i, a : i = x.inquiry /\ a = x.approval
    OBVIOUS
  <1>3. PICK n : n = "failed"
    OBVIOUS
  <1>4. i \in Inquiries /\ review \in [Inquiries -> SUBSET InquiryExceptions]
    BY <1>1, <1>2 DEF EndsInvariant, RunsOK, Run, TypeOK
  <1>5. "downstream_failure" \in review'[i]
    BY <1>2, <1>4 DEF ReportFailure, ReportWorkflowFailure
  <1>6. Answer(e, GoTo(x, n))
    BY <1>3 DEF ReportFailure
  <1>7. /\ n # "order" /\ n # "invoice" /\ n # "rejected"
        /\ n \notin {"validate", "book", "check", "completed"}
    BY <1>3
  <1>8. QED
    BY <1>1, <1>2, <1>5, <1>6, <1>7, NextIsTrue

(* A call that is lost, and an extraction that nobody waits for any more.  *)
LEMMA LostTrue ==
    ASSUME EndsInvariant, MaxFaults < MaxTries, Persists, NEW e \in Executions,
           CallLost(e) \/ ExtractTimesOut(e)
    PROVE  RunsTrue'
  <1>1. PICK x : x = execution[e]
    OBVIOUS
  <1>2. x \in Run /\ x.at \in HttpNodes /\ RunIsTrue(x) /\ RunsOK /\ RunsTrue
    BY <1>1 DEF CallLost, ExtractTimesOut, Waits, At, HttpNodes, EndsInvariant, RunsOK, RunsTrue
  <1>3. Fault /\ Becomes(e, Again(x))
    BY <1>1 DEF CallLost, ExtractTimesOut
  <1>4. faults \in 0 .. MaxFaults /\ faults \in Nat /\ faults' \in Nat /\ faults <= faults'
    BY <1>3, TriesAssumption DEF EndsInvariant, Fault
  <1>5. PICK z : z = Again(x)
    OBVIOUS
  <1>6. RunIsTrue(z)'
    <2>1. RunIsTrue(Again(x))'
      BY <1>2, <1>3, <1>4, AgainIsTrue
    <2>2. QED
      BY <1>5, <2>1
  <1>7. QED
    BY <1>2, <1>3, <1>4, <1>5, <1>6, RunBecomesTrue

(* Who waits for an extraction is at the node that began it.               *)
LEMMA WaitersExtract ==
    ASSUME RunsOK, NEW w \in Workers, NEW e \in WaitingFor(w)
    PROVE  e \in Executions /\ execution[e] # None /\ execution[e] \in Run
             /\ execution[e].at = "extract"
  BY NoRunAssumption DEF WaitingFor, RunsOK

LEMMA ServeTrue ==
    ASSUME EndsInvariant, MaxFaults < MaxTries, Persists, NEW w \in Workers, Serve(w)
    PROVE  RunsTrue'
  <1>1. CASE UNCHANGED <<execution, faults>>
    BY <1>1, NobodyMovesTrue
  <1>2. RunsOK
    BY DEF EndsInvariant
  <1>3. "decide" \notin Claims /\ "needs review" \notin Claims
    BY Zenon DEF Claims
  <1>4. PICK r : r = "needs review"
    BY Zenon
  <1>5. r \notin Claims
    BY Zenon, <1>3, <1>4
  <1>6. ASSUME NEW e \in WaitingFor(w), NEW n, n \notin Claims,
               Answer(e, GoTo(execution[e], n))
        PROVE  RunsTrue'
    BY <1>2, <1>6, WaitersExtract, QuietlyTrue DEF HttpNodes
  <1>7. ExtractAnswers(w) =>
          \/ UNCHANGED <<execution, faults>>
          \/ \E e \in WaitingFor(w), n \in {"decide", r} : Answer(e, GoTo(execution[e], n))
    BY Zenon, <1>4 DEF ExtractAnswers
  <1>8. QED
    BY Zenon, <1>1, <1>3, <1>5, <1>6, <1>7 DEF Serve, LlmAttempt

(* A worker that dies sends everybody who waits for it back, all at once.  *)
LEMMA DeathTrue ==
    ASSUME EndsInvariant, MaxFaults < MaxTries, Persists, NEW w \in Workers, ExtractDies(w)
    PROVE  RunsTrue'
  <1>1. RunsOK /\ RunsTrue
    BY DEF EndsInvariant
  <1>2. Fault /\ faults \in 0 .. MaxFaults /\ faults \in Nat /\ faults' \in Nat
          /\ faults <= faults'
    BY TriesAssumption DEF ExtractDies, EndsInvariant, Fault
  <1>3. ASSUME NEW f \in Executions, execution'[f] # None PROVE RunIsTrue(execution[f])'
    <2>1. PICK x : x = execution[f]
      OBVIOUS
    <2>2. CASE f \in WaitingFor(w)
      <3>1. PICK z : z = Again(x)
        OBVIOUS
      <3>2. x \in Run /\ x.at \in HttpNodes /\ RunIsTrue(x)
        BY <1>1, <2>1, <2>2, WaitersExtract DEF HttpNodes, RunsTrue
      <3>3. RunIsTrue(Again(x))'
        BY <1>2, <3>2, AgainIsTrue
      <3>4. execution'[f] = z
        BY <2>1, <2>2, <3>1 DEF ExtractDies
      <3>5. RunIsTrue(z)'
        BY <3>1, <3>3
      <3>6. QED
        BY <3>4, <3>5 DEF RunIsTrue, QuotesOf, OrdersOf, InvoicesOf
    <2>3. CASE f \notin WaitingFor(w)
      <3>1. execution'[f] = x
        BY <2>1, <2>3 DEF ExtractDies
      <3>2. x \in Run /\ RunIsTrue(x)
        BY <1>1, <1>3, <2>1, <3>1 DEF RunsOK, RunsTrue
      <3>3. RunIsTrue(x)'
        BY <1>2, <3>2, TruthPersists
      <3>4. QED
        BY <3>1, <3>3 DEF RunIsTrue, QuotesOf, OrdersOf, InvoicesOf
    <2>4. QED
      BY <2>2, <2>3
  <1>4. QED
    BY <1>3 DEF RunsTrue

LEMMA StepTrue ==
    ASSUME EndsInvariant, MaxFaults < MaxTries, Persists, TypeOK', [Next]_vars,
           NEW e \in Executions, Step(e)
    PROVE  RunsTrue'
  <1>1. Create(e) \/ Extract(e) \/ DecideInquiry(e) => RunsTrue'
    BY IntakeTrue
  <1>2. SubmitDecision(e) \/ ExpireOverdue(e) => RunsTrue'
    BY SubmitTrue, ExpireTrue
  <1>3. QuoteStep(e) \/ OrderStep(e) \/ InvoiceStep(e) => RunsTrue'
    BY QuoteTrue, OrderTrue, InvoiceTrue
  <1>4. LastSteps(e) \/ ReportFailure(e) => RunsTrue'
    BY LastTrue, ReportTrue
  <1>5. QED
    BY <1>1, <1>2, <1>3, <1>4 DEF Step

LEMMA RunsStayTrue ==
    ASSUME MaxFaults < MaxTries, EndsInvariant, TypeOK', [Next]_vars, [WorkflowNext]_all
    PROVE  RunsTrue'
  <1>1. Persists
    BY ChainPersists DEF EndsInvariant
  <1>2. ASSUME NEW e \in Executions,
               \/ \E i \in Inquiries : Webhook(e, i)
               \/ Step(e) \/ CallLost(e) \/ ExtractTimesOut(e) \/ FormTimesOut(e)
               \/ \E action, pct : FillForm(e, action, pct)
        PROVE  RunsTrue'
    BY <1>1, <1>2, StepTrue, LostTrue, FormTrue, FilledTrue
  <1>3. ASSUME NEW w \in Workers, Serve(w) \/ ExtractDies(w) PROVE RunsTrue'
    BY <1>1, <1>3, ServeTrue, DeathTrue
  <1>4. CASE Elsewhere \/ UNCHANGED all
    BY <1>1, <1>4, NobodyMovesTrue DEF Elsewhere, all
  <1>5. QED
    BY <1>2, <1>3, <1>4 DEF WorkflowNext

(* As long as there are fewer faults than tries, what an execution ends    *)
(* with is true, and stays true: an invoice was made, the request was      *)
(* refused or timed out, or the failure is in the queue for a person.      *)
THEOREM EndsTrue ==
    ASSUME MaxFaults < MaxTries
    PROVE  WorkflowSpec => []EndsAreTrue
  <1> DEFINE Sure == WorkflowInvariant /\ ExecutedAsApproved /\ faults \in 0 .. MaxFaults
  <1>1. WorkflowSpec => []Sure
    <2>1. WorkflowTypeOK => faults \in 0 .. MaxFaults
      BY DEF WorkflowTypeOK
    <2>2. QED
      BY <2>1, InvariantHolds, WorkflowKeepsTheChain, WorkflowTypes, PTL
  <1>2. WorkflowInit => RunsTrue
    BY DEF WorkflowInit, RunsTrue
  <1>3. Sure /\ Sure' /\ RunsTrue /\ [WorkflowNext]_all => RunsTrue'
    <2> SUFFICES ASSUME Sure, Sure', RunsTrue, [WorkflowNext]_all PROVE RunsTrue'
      OBVIOUS
    <2>1. EndsInvariant /\ TypeOK'
      BY DEF EndsInvariant, WorkflowInvariant
    <2>2. [Next]_vars
      BY NextInvariant
    <2>3. QED
      BY <2>1, <2>2, RunsStayTrue
  <1>4. Sure /\ RunsTrue => EndsAreTrue
    BY DEF RunsTrue, RunIsTrue, Refused, EndsAreTrue, At, InvoicesFor
  <1> HIDE DEF Sure
  <1>5. QED
    BY <1>1, <1>2, <1>3, <1>4, PTL DEF WorkflowSpec
-----------------------------------------------------------------------------
(***************************************************************************)
(* What ExecutionsEnd needs besides fairness: every step an execution      *)
(* takes brings it nearer to its end, but for the way back to the form.    *)
(***************************************************************************)
Distance == [create |-> 12, extract |-> 11, decide |-> 10, form |-> 9, submit |-> 8,
             quote |-> 7, order |-> 6, invoice |-> 5, validate |-> 4, book |-> 3,
             check |-> 2, report |-> 1, expire |-> 1]

(* How far it is to the end, and how much the node it is at can do yet.    *)
Ahead(x) == IF x.at \in Ends THEN 0 ELSE Distance[x.at]
Left(x)  == 2 * (Tries(x.at) - x.tries) + (IF x.worker = None THEN 1 ELSE 0)

Nearer(y, x) == \/ Ahead(y) < Ahead(x)
                \/ /\ y.at = x.at /\ x.at \in HttpNodes
                   /\ Left(y) < Left(x)

(* A decision that was refused is shown on the form again.                 *)
ShownAgain(y, x) == x.at = "submit" /\ y.at = "form"

(* What is left is a natural number, where it matters.                     *)
Fits(x) == x.at \in HttpNodes => x.tries <= Tries(x.at)
RunsFit == \A e \in Executions : execution[e] # None => Fits(execution[e])

Advances(y, x) == (Nearer(y, x) \/ ShownAgain(y, x)) /\ Fits(y)
NearerAt(f) == \/ execution'[f] = execution[f]
               \/ execution[f] # None /\ Advances(execution'[f], execution[f])
               \/ execution[f] = None /\ Fits(execution'[f])
OnlyNearer == \A f \in Executions : NearerAt(f)

LEMMA EndsApart == Ends \intersect (HttpNodes \union {"form"}) = {}
  BY Zenon DEF Ends, HttpNodes

LEMMA AheadAt ==
    ASSUME NEW x \in Run
    PROVE  /\ x.at \in Ends      => Ahead(x) = 0
           /\ x.at = "create"    => Ahead(x) = 12
           /\ x.at = "extract"   => Ahead(x) = 11
           /\ x.at = "decide"    => Ahead(x) = 10
           /\ x.at = "form"      => Ahead(x) = 9
           /\ x.at = "submit"    => Ahead(x) = 8
           /\ x.at = "quote"     => Ahead(x) = 7
           /\ x.at = "order"     => Ahead(x) = 6
           /\ x.at = "invoice"   => Ahead(x) = 5
           /\ x.at = "validate"  => Ahead(x) = 4
           /\ x.at = "book"      => Ahead(x) = 3
           /\ x.at = "check"     => Ahead(x) = 2
           /\ x.at = "report"    => Ahead(x) = 1
           /\ x.at = "expire"    => Ahead(x) = 1
           /\ Ahead(x) \in Nat
  <1>1. x.at \in Ends => Ahead(x) = 0
    BY DEF Ahead
  <1>2. x.at \in HttpNodes \union Ends \union {"form"}
    BY DEF Run
  <1>3. x.at \in HttpNodes \union {"form"} => Ahead(x) = Distance[x.at]
    BY EndsApart DEF Ahead
  <1>4. /\ Distance["create"] = 12 /\ Distance["extract"] = 11 /\ Distance["decide"] = 10
        /\ Distance["form"] = 9 /\ Distance["submit"] = 8 /\ Distance["quote"] = 7
        /\ Distance["order"] = 6 /\ Distance["invoice"] = 5 /\ Distance["validate"] = 4
        /\ Distance["book"] = 3 /\ Distance["check"] = 2 /\ Distance["report"] = 1
        /\ Distance["expire"] = 1
    BY DEF Distance
  <1>5. /\ x.at = "create"    => Ahead(x) = 12
        /\ x.at = "extract"   => Ahead(x) = 11
        /\ x.at = "decide"    => Ahead(x) = 10
        /\ x.at = "form"      => Ahead(x) = 9
        /\ x.at = "submit"    => Ahead(x) = 8
        /\ x.at = "quote"     => Ahead(x) = 7
        /\ x.at = "order"     => Ahead(x) = 6
        /\ x.at = "invoice"   => Ahead(x) = 5
        /\ x.at = "validate"  => Ahead(x) = 4
        /\ x.at = "book"      => Ahead(x) = 3
        /\ x.at = "check"     => Ahead(x) = 2
        /\ x.at = "report"    => Ahead(x) = 1
        /\ x.at = "expire"    => Ahead(x) = 1
    BY <1>3, <1>4 DEF HttpNodes
  <1>6. Ahead(x) \in Nat
    BY <1>1, <1>2, <1>5 DEF HttpNodes
  <1>7. QED
    BY <1>1, <1>5, <1>6

LEMMA TriesPositive == \A n : Tries(n) \in Nat /\ 1 <= Tries(n)
  BY TriesAssumption DEF Tries

(* A node that lies nearer to the end, entered for its first try.          *)
LEMMA GoToAdvances ==
    ASSUME NEW x \in Run, NEW n \in Nodes \ {"submit"}, n \in Early => x.at \in Early,
           Ahead(GoTo(x, n)) < Ahead(x)
    PROVE  Advances(GoTo(x, n), x)
  <1>1. GoTo(x, n).at = n /\ GoTo(x, n).tries = 1
    BY GoToFields
  <1>2. QED
    BY <1>1, TriesPositive DEF Advances, Nearer, Fits

LEMMA ErrorEnds ==
    ASSUME NEW n \in HttpNodes \ {"submit"}
    PROVE  \/ ErrorOutput[n] \in Ends
           \/ ErrorOutput[n] = "report" /\ n \in {"quote", "order", "invoice", "validate"}
           \/ ErrorOutput[n] = "check" /\ n = "book"
  <1>1. /\ ErrorOutput["create"] \in Ends /\ ErrorOutput["extract"] \in Ends
        /\ ErrorOutput["decide"] \in Ends /\ ErrorOutput["expire"] \in Ends
        /\ ErrorOutput["check"] \in Ends /\ ErrorOutput["report"] \in Ends
    BY Zenon DEF ErrorOutput, Ends
  <1>2. /\ ErrorOutput["quote"] = "report" /\ ErrorOutput["order"] = "report"
        /\ ErrorOutput["invoice"] = "report" /\ ErrorOutput["validate"] = "report"
        /\ ErrorOutput["book"] = "check"
    BY DEF ErrorOutput
  <1>3. QED
    BY <1>1, <1>2 DEF HttpNodes

(* A failed call: one try less, or the error output, which lies nearer to  *)
(* the end or leads to the form again.                                     *)
LEMMA AgainAdvances ==
    ASSUME NEW x \in Run, x.at \in HttpNodes, Fits(x)
    PROVE  Advances(Again(x), x)
  <1>1. x.tries \in Nat /\ Tries(x.at) \in Nat
    BY TriesPositive DEF Run
  <1>2. CASE x.tries < Tries(x.at)
    <2> DEFINE y == [x EXCEPT !.tries = x.tries + 1, !.worker = None]
    <2>1. y.at = x.at /\ y.tries = x.tries + 1 /\ y.worker = None
      BY DEF Run
    <2>2. Again(x) = y
      BY <1>2 DEF Again, Run
    <2> HIDE DEF y
    <2>3. Left(y) < Left(x)
      BY <1>1, <2>1 DEF Left
    <2>4. Fits(y)
      BY <1>1, <1>2, <2>1 DEF Fits
    <2>5. QED
      BY <2>1, <2>2, <2>3, <2>4 DEF Advances, Nearer
  <1>3. CASE ~(x.tries < Tries(x.at)) /\ x.at = "submit"
    <2>1. Again(x).at = "form"
      BY <1>3, GoToFields DEF Again, OnError, ErrorOutput
    <2>2. "form" \notin HttpNodes
      BY DEF HttpNodes
    <2>3. QED
      BY <1>3, <2>1, <2>2 DEF Advances, ShownAgain, Fits
  <1>4. CASE ~(x.tries < Tries(x.at)) /\ x.at # "submit"
    <2>1. PICK n : n = ErrorOutput[x.at]
      OBVIOUS
    <2>2. n \in Nodes \ Early
      BY <1>4, <2>1, ErrorOutputNodes
    <2>3. PICK y : y = GoTo(x, n)
      OBVIOUS
    <2>4. y \in Run /\ y.at = n
      BY <2>2, <2>3, GoToMoves DEF Moved
    <2>5. Ahead(y) < Ahead(x) /\ n # "submit"
      <3>1. \/ n \in Ends
            \/ n = "report" /\ x.at \in {"quote", "order", "invoice", "validate"}
            \/ n = "check" /\ x.at = "book"
        BY <1>4, <2>1, ErrorEnds
      <3>2. Ahead(x) > 0
        BY <1>1, AheadAt DEF HttpNodes, Run
      <3>3. n # "submit"
        BY <3>1, EndsApart DEF HttpNodes
      <3>4. QED
        BY <2>4, <3>1, <3>2, <3>3, AheadAt
    <2>6. Again(x) = y
      BY <1>4, <2>1, <2>3 DEF Again, OnError
    <2>7. QED
      BY <2>2, <2>3, <2>5, <2>6, GoToAdvances
  <1>5. QED
    BY <1>2, <1>3, <1>4

LEMMA BecomesNearer ==
    ASSUME RunsOK, NEW e \in Executions, execution[e] # None,
           NEW y, Advances(y, execution[e]), Becomes(e, y)
    PROVE  OnlyNearer
  <1>1. execution'[e] = y /\ \A f \in Executions \ {e} : execution'[f] = execution[f]
    BY DEF RunsOK, Becomes
  <1>2. QED
    BY <1>1 DEF OnlyNearer, NearerAt

(* An answer that leads nearer, or is lost, or is an error                 *)
LEMMA AnswerNearer ==
    ASSUME RunsOK, RunsFit, NEW e \in Executions, execution[e] # None,
           execution[e].at \in HttpNodes, NEW y, Advances(y, execution[e]), Answer(e, y)
    PROVE  OnlyNearer
  <1>1. Advances(Again(execution[e]), execution[e])
    BY AgainAdvances DEF RunsOK, RunsFit
  <1>2. QED
    BY <1>1, BecomesNearer DEF Answer

LEMMA RefuseNearer ==
    ASSUME RunsOK, RunsFit, NEW e \in Executions, execution[e] # None,
           execution[e].at \in HttpNodes, Refuse(e)
    PROVE  OnlyNearer
  <1>1. Advances(Again(execution[e]), execution[e])
    BY AgainAdvances DEF RunsOK, RunsFit
  <1>2. QED
    BY <1>1, AnswerNearer DEF Refuse

LEMMA EndNearer ==
    ASSUME RunsOK, RunsFit, NEW e \in Executions, execution[e] # None,
           execution[e].at \in HttpNodes, NEW n \in Ends, Answer(e, GoTo(execution[e], n))
    PROVE  OnlyNearer
  <1>1. PICK x : x = execution[e]
    OBVIOUS
  <1>2. x \in Run /\ x.at \in HttpNodes
    BY <1>1 DEF RunsOK
  <1>3. n \in Nodes \ (Early \union {"submit"})
    BY EndsApart DEF Nodes, Early, HttpNodes
  <1>4. PICK y : y = GoTo(x, n)
    OBVIOUS
  <1>5. y \in Run /\ y.at = n
    BY <1>2, <1>3, <1>4, GoToMoves DEF Moved
  <1>6. Ahead(y) < Ahead(x)
    BY <1>2, <1>5, AheadAt DEF HttpNodes
  <1>7. QED
    BY <1>1, <1>2, <1>3, <1>4, <1>6, GoToAdvances, AnswerNearer

(* The ways through the workflow: from each node to those after it.        *)
Way == {<<"create", "extract">>, <<"extract", "decide">>, <<"decide", "quote">>,
        <<"decide", "form">>, <<"submit", "quote">>, <<"quote", "order">>,
        <<"order", "invoice">>, <<"invoice", "validate">>, <<"validate", "book">>,
        <<"validate", "check">>, <<"book", "check">>}

LEMMA WayNearer ==
    ASSUME NEW x \in Run, NEW n, <<x.at, n>> \in Way
    PROVE  /\ n \in Nodes \ {"submit"} /\ (n \in Early => x.at \in Early)
           /\ x.at \in HttpNodes
           /\ Advances(GoTo(x, n), x)
  <1>1. n \in Nodes \ {"submit"} /\ (n \in Early => x.at \in Early) /\ x.at \in HttpNodes
    BY DEF Way, Nodes, HttpNodes, Early
  <1>2. PICK y : y = GoTo(x, n)
    OBVIOUS
  <1>3. y \in Run /\ y.at = n
    BY <1>1, <1>2, GoToMoves DEF Moved
  <1>4. Ahead(y) < Ahead(x)
    <2>1. CASE n = "form"
      BY <1>3, <2>1, AheadAt DEF Way
    <2>2. CASE n # "form"
      BY <1>3, <2>2, AheadAt DEF Way
    <2>3. QED
      BY <2>1, <2>2
  <1>5. QED
    BY <1>1, <1>2, <1>4, GoToAdvances

LEMMA OnwardNearer ==
    ASSUME RunsOK, RunsFit, NEW e \in Executions, execution[e] # None,
           NEW n, <<execution[e].at, n>> \in Way, Answer(e, GoTo(execution[e], n))
    PROVE  OnlyNearer
  <1>1. execution[e] \in Run
    BY DEF RunsOK
  <1>2. QED
    BY <1>1, WayNearer, AnswerNearer

LEMMA IntakeNearer ==
    ASSUME RunsOK, RunsFit, NEW e \in Executions, Create(e) \/ Extract(e) \/ DecideInquiry(e)
    PROVE  OnlyNearer
  <1> DEFINE x == execution[e]
  <1>1. x # None /\ x \in Run /\ x.at \in {"create", "extract", "decide"} /\ x.at \in HttpNodes
          /\ x.worker = None
    BY DEF Create, Extract, DecideInquiry, Waits, At, RunsOK, HttpNodes
  <1>2. ASSUME Create(e) PROVE OnlyNearer
    <2>1. x.at = "create" /\ Answer(e, GoTo(x, "extract"))
      BY <1>2 DEF Create, Waits, At
    <2>2. QED
      BY <1>1, <2>1, OnwardNearer DEF Way
  <1>3. ASSUME Refuse(e) PROVE OnlyNearer
    BY <1>1, <1>3, RefuseNearer
  <1>4. ASSUME Extract(e) PROVE OnlyNearer
    <2>1. x.at = "extract"
      BY <1>4 DEF Extract, Waits, At
    <2>2. ASSUME NEW w \in Workers, Becomes(e, [x EXCEPT !.worker = w]) PROVE OnlyNearer
      <3>1. PICK y : y = [x EXCEPT !.worker = w]
        OBVIOUS
      <3>2. y.at = x.at /\ y.tries = x.tries /\ y.worker # None
        BY <1>1, <3>1, NoRunAssumption DEF Run
      <3>4. x.tries \in Nat /\ Tries(x.at) \in Nat
        BY <1>1, TriesPositive DEF Run
      <3>5. Left(y) < Left(x)
        BY <1>1, <3>2, <3>4 DEF Left
      <3>6. Fits(y)
        BY <1>1, <2>1, <3>2 DEF Fits, RunsFit
      <3>7. QED
        BY <1>1, <2>2, <3>1, <3>2, <3>5, <3>6, BecomesNearer DEF Advances, Nearer
    <2>3. ASSUME Answer(e, GoTo(x, "decide")) PROVE OnlyNearer
      BY <1>1, <2>1, <2>3, OnwardNearer DEF Way
    <2>4. QED
      BY <1>3, <1>4, <2>2, <2>3 DEF Extract
  <1>5. ASSUME DecideInquiry(e) PROVE OnlyNearer
    <2>1. x.at = "decide"
      BY <1>5 DEF DecideInquiry, Waits, At
    <2>2. ASSUME NEW b, Decided(e, b) PROVE OnlyNearer
      <3> DEFINE n == Route(ruling'[x.inquiry], approval'[b])
                 g == GoTo(x, n)
                 z == [g EXCEPT !.approval = b, !.token = TokenOfAnswer(b)]
      <3>1. n \in {"quote", "form", "closed"}
        BY DEF Route
      <3>2. n \in Nodes \ (Early \union {"submit"})
        <4> HIDE DEF n
        <4>1. "closed" \in Nodes /\ "quote" \in Nodes /\ "form" \in Nodes
          BY DEF Nodes, HttpNodes, Ends
        <4>2. QED
          BY <3>1, <4>1 DEF Early
      <3>3. g \in Run /\ g.at = n /\ g.tries = 1
        BY <1>1, <3>2, GoToMoves, GoToFields DEF Moved
      <3>4. Advances(g, x)
        <4>1. CASE n = "closed"
          <5>1. "closed" \in Ends
            BY DEF Ends
          <5>2. Ahead(g) < Ahead(x)
            BY <1>1, <2>1, <3>3, <4>1, <5>1, AheadAt
          <5>3. QED
            BY <1>1, <3>2, <5>2, GoToAdvances
        <4>2. CASE n # "closed"
          BY <1>1, <2>1, <3>1, <4>2, WayNearer DEF Way
        <4>3. QED
          BY <4>1, <4>2
      <3>5. Answer(e, z)
        BY <2>2 DEF Decided
      <3> HIDE DEF g, n
      <3>6. z.at = g.at /\ z.tries = g.tries /\ z.worker = g.worker
        BY <3>3 DEF Run
      <3> HIDE DEF z
      <3>7. Advances(z, x)
        BY <3>4, <3>6 DEF Advances, Nearer, ShownAgain, Fits, Ahead, Left
      <3>8. QED
        BY <1>1, <3>5, <3>7, AnswerNearer
    <2>3. QED
      BY <1>3, <1>5, <2>2 DEF DecideInquiry
  <1>6. QED
    BY <1>2, <1>4, <1>5

LEMMA PeopleNearer ==
    ASSUME RunsOK, RunsFit, NEW e \in Executions, SubmitDecision(e) \/ ExpireOverdue(e)
    PROVE  OnlyNearer
  <1> DEFINE x == execution[e]
  <1>1. x # None /\ x.at \in {"submit", "expire"} /\ x.at \in HttpNodes
    <2>1. \E n \in {"submit", "expire"} : Waits(e, n)
      BY Zenon DEF SubmitDecision, ExpireOverdue
    <2>2. QED
      BY <2>1 DEF Waits, At, HttpNodes
  <1>2. ASSUME Refuse(e) PROVE OnlyNearer
    BY <1>1, <1>2, RefuseNearer
  <1>3. ASSUME NEW n \in Ends, Answer(e, GoTo(x, n)) PROVE OnlyNearer
    BY <1>1, <1>3, EndNearer
  <1>4. ASSUME SubmitDecision(e) PROVE OnlyNearer
    <2>1. x.at = "submit"
      BY <1>4 DEF SubmitDecision, Waits, At
    <2>2. ASSUME NEW row, Answer(e, AfterDecision(x, row)) PROVE OnlyNearer
      <3>1. "rejected" \in Ends
        BY DEF Ends
      <3>2. CASE Granted(row)
        <4>1. Answer(e, GoTo(x, "quote"))
          BY <2>2, <3>2 DEF AfterDecision
        <4>2. QED
          BY <1>1, <2>1, <4>1, OnwardNearer DEF Way
      <3>3. CASE ~Granted(row)
        <4>1. Answer(e, GoTo(x, "rejected"))
          BY <2>2, <3>3 DEF AfterDecision
        <4>2. QED
          BY <1>3, <3>1, <4>1
      <3>4. QED
        BY <3>2, <3>3
    <2>3. QED
      BY <1>2, <1>4, <2>2 DEF SubmitDecision
  <1>5. ASSUME ExpireOverdue(e) PROVE OnlyNearer
    <2>1. \E n \in Ends : Answer(e, GoTo(x, n))
      BY Zenon, <1>5 DEF ExpireOverdue, Ends
    <2>2. QED
      BY <1>3, <2>1
  <1>6. QED
    BY <1>4, <1>5

LEMMA DocumentsNearer ==
    ASSUME RunsOK, RunsFit, NEW e \in Executions,
           \/ QuoteStep(e) \/ OrderStep(e) \/ InvoiceStep(e)
           \/ LastSteps(e) \/ ReportFailure(e)
    PROVE  OnlyNearer
  <1> DEFINE x == execution[e]
  <1>1. /\ x # None /\ x.at \in {"quote", "order", "invoice", "validate", "book", "check", "report"}
        /\ x.at \in HttpNodes
    BY DEF QuoteStep, OrderStep, InvoiceStep, LastSteps, ReportFailure, Waits, At, HttpNodes
  <1>2. ASSUME Refuse(e) PROVE OnlyNearer
    BY <1>1, <1>2, RefuseNearer
  <1>3. ASSUME NEW n, <<x.at, n>> \in Way, Answer(e, GoTo(x, n)) PROVE OnlyNearer
    BY <1>1, <1>3, OnwardNearer
  <1>4. ASSUME NEW n \in Ends, Answer(e, GoTo(x, n)) PROVE OnlyNearer
    BY <1>1, <1>4, EndNearer
  <1>5. "completed" \in Ends /\ "failed" \in Ends
    BY DEF Ends
  <1>6. ASSUME QuoteStep(e) \/ OrderStep(e) \/ InvoiceStep(e) PROVE OnlyNearer
    BY <1>2, <1>3, <1>6 DEF QuoteStep, OrderStep, InvoiceStep, Waits, At, Way
  <1>7. ASSUME LastSteps(e) PROVE OnlyNearer
    <2>1. \/ x.at = "validate" /\ \E n \in {"book", "check"} : Answer(e, GoTo(x, n))
          \/ x.at = "book" /\ Answer(e, GoTo(x, "check"))
          \/ Answer(e, GoTo(x, "completed"))
      BY <1>7 DEF LastSteps, Waits, At
    <2>2. QED
      BY <1>3, <1>4, <1>5, <2>1 DEF Way
  <1>8. ASSUME ReportFailure(e) PROVE OnlyNearer
    BY <1>4, <1>5, <1>8 DEF ReportFailure
  <1>9. QED
    BY <1>6, <1>7, <1>8

(* Nobody answers the form: on to the call that expires the approval.      *)
LEMMA FormLeftNearer ==
    ASSUME RunsOK, RunsFit, NEW e \in Executions, FormTimesOut(e)
    PROVE  OnlyNearer
  <1>1. PICK x : x = execution[e]
    OBVIOUS
  <1>2. At(e, "form") /\ Becomes(e, GoTo(execution[e], "expire"))
    BY DEF FormTimesOut
  <1>3. x # None /\ x \in Run /\ x.at = "form"
    BY <1>1, <1>2 DEF At, RunsOK
  <1>4. PICK y : y = GoTo(x, "expire")
    OBVIOUS
  <1>5. "expire" \in Nodes \ (Early \union {"submit"})
    BY DEF Nodes, HttpNodes, Early
  <1>6. y \in Run /\ y.at = "expire"
    BY <1>3, <1>4, <1>5, GoToMoves DEF Moved
  <1>7. Ahead(y) < Ahead(x)
    BY <1>3, <1>6, AheadAt
  <1>8. Advances(y, x)
    BY <1>3, <1>4, <1>5, <1>7, GoToAdvances
  <1>9. QED
    BY <1>1, <1>2, <1>3, <1>4, <1>8, BecomesNearer

(* The form is filled in, and its call comes next.                         *)
LEMMA FormFilledNearer ==
    ASSUME RunsOK, RunsFit, NEW e \in Executions, NEW action, NEW pct,
           FillForm(e, action, pct)
    PROVE  OnlyNearer
  <1>1. PICK x : x = execution[e]
    OBVIOUS
  <1>2. /\ At(e, "form")
        /\ Becomes(e, [GoTo(execution[e], "submit") EXCEPT !.action = action, !.pct = pct])
    BY DEF FillForm
  <1>3. x # None /\ x \in Run /\ x.at = "form"
    BY <1>1, <1>2 DEF At, RunsOK
  <1> DEFINE g == GoTo(x, "submit")
             y == [g EXCEPT !.action = action, !.pct = pct]
  <1>4. g \in Run /\ g.at = "submit" /\ g.tries = 1
    BY <1>3, GoToMoves, GoToFields DEF Moved, Nodes, HttpNodes, Early
  <1>5. Becomes(e, y)
    BY <1>1, <1>2
  <1>6. Ahead(g) < Ahead(x)
    BY <1>3, <1>4, AheadAt
  <1> HIDE DEF g
  <1>7. y.at = g.at /\ y.tries = g.tries
    BY <1>4 DEF Run
  <1> HIDE DEF y
  <1>8. Ahead(y) = Ahead(g)
    BY <1>7 DEF Ahead
  <1>9. Fits(y)
    BY <1>4, <1>7, TriesPositive DEF Fits
  <1>10. Advances(y, x)
    BY <1>6, <1>8, <1>9 DEF Advances, Nearer
  <1>11. QED
    BY <1>1, <1>3, <1>5, <1>10, BecomesNearer

LEMMA LostNearer ==
    ASSUME RunsOK, RunsFit, NEW e \in Executions, CallLost(e) \/ ExtractTimesOut(e)
    PROVE  OnlyNearer
  <1>1. execution[e] # None /\ execution[e] \in Run /\ execution[e].at \in HttpNodes
    BY DEF CallLost, ExtractTimesOut, Waits, At, RunsOK, HttpNodes
  <1>2. Becomes(e, Again(execution[e]))
    BY DEF CallLost, ExtractTimesOut
  <1>3. Fits(execution[e])
    BY <1>1 DEF RunsFit
  <1>4. QED
    BY <1>1, <1>2, <1>3, AgainAdvances, BecomesNearer

LEMMA BegunNearer ==
    ASSUME RunsOK, NEW e \in Executions, NEW i \in Inquiries, Webhook(e, i)
    PROVE  OnlyNearer
  <1> DEFINE y == [inquiry |-> i, at |-> "create", tries |-> 1, worker |-> None,
                   approval |-> None, token |-> FALSE, action |-> None, pct |-> None]
  <1>1. Fits(y) /\ Becomes(e, y) /\ execution[e] = None
    BY TriesPositive DEF Webhook, Fits
  <1> HIDE DEF y
  <1>2. execution'[e] = y /\ \A f \in Executions \ {e} : execution'[f] = execution[f]
    BY <1>1 DEF RunsOK, Becomes
  <1>3. QED
    BY <1>1, <1>2 DEF OnlyNearer, NearerAt

LEMMA ServeNearer ==
    ASSUME RunsOK, RunsFit, NEW w \in Workers, Serve(w) \/ ExtractDies(w)
    PROVE  OnlyNearer
  <1>1. UNCHANGED execution => OnlyNearer
    BY DEF OnlyNearer, NearerAt
  <1>2. PICK r : r = "needs review"
    BY Zenon
  <1>3. r \in Ends
    BY Zenon, <1>2 DEF Ends
  <1>4. ASSUME NEW e \in WaitingFor(w), NEW n \in {"decide", r}, Answer(e, GoTo(execution[e], n))
        PROVE  OnlyNearer
    <2>1. /\ e \in Executions /\ execution[e] # None /\ execution[e].at = "extract"
          /\ execution[e].at \in HttpNodes
      BY WaitersExtract DEF HttpNodes
    <2>2. CASE n = "decide"
      BY <1>4, <2>1, <2>2, OnwardNearer DEF Way
    <2>3. CASE n = r
      BY <1>3, <1>4, <2>1, <2>3, EndNearer
    <2>4. QED
      BY <2>2, <2>3
  <1>5. ExtractAnswers(w) =>
          \/ UNCHANGED execution
          \/ \E e \in WaitingFor(w), n \in {"decide", r} : Answer(e, GoTo(execution[e], n))
    BY Zenon, <1>2 DEF ExtractAnswers
  <1>6. LlmAttempt(w) => UNCHANGED execution
    BY DEF LlmAttempt
  <1>7. ASSUME ExtractDies(w), NEW f \in Executions PROVE NearerAt(f)
    <2>1. CASE f \in WaitingFor(w)
      <3>1. /\ execution[f] # None /\ execution[f] \in Run /\ execution[f].at \in HttpNodes
            /\ Fits(execution[f])
        BY <2>1, WaitersExtract DEF HttpNodes, RunsFit
      <3>2. execution'[f] = Again(execution[f])
        BY <1>7, <2>1 DEF ExtractDies
      <3>3. QED
        BY <3>1, <3>2, AgainAdvances DEF NearerAt
    <2>2. CASE f \notin WaitingFor(w)
      BY <1>7, <2>2 DEF ExtractDies, NearerAt
    <2>3. QED
      BY <2>1, <2>2
  <1>8. QED
    BY <1>1, <1>4, <1>5, <1>6, <1>7 DEF Serve, OnlyNearer

LEMMA NextNearer ==
    ASSUME RunsOK, RunsFit, [WorkflowNext]_all
    PROVE  OnlyNearer
  <1>1. ASSUME NEW e \in Executions,
               \/ \E i \in Inquiries : Webhook(e, i)
               \/ CallLost(e) \/ ExtractTimesOut(e) \/ FormTimesOut(e)
               \/ \E action, pct : FillForm(e, action, pct)
        PROVE  OnlyNearer
    BY <1>1, BegunNearer, LostNearer, FormLeftNearer, FormFilledNearer
  <1>2. ASSUME NEW e \in Executions, Step(e) PROVE OnlyNearer
    BY <1>2, IntakeNearer, PeopleNearer, DocumentsNearer DEF Step
  <1>3. ASSUME NEW w \in Workers, Serve(w) \/ ExtractDies(w) PROVE OnlyNearer
    BY <1>3, ServeNearer
  <1>4. CASE Elsewhere \/ UNCHANGED all
    BY <1>4 DEF Elsewhere, all, OnlyNearer, NearerAt
  <1>5. QED
    BY <1>1, <1>2, <1>3, <1>4 DEF WorkflowNext

LEMMA RunsAlwaysFit == WorkflowSpec => [](RunsOK /\ RunsFit)
  <1>1. WorkflowInit => RunsFit
    BY DEF WorkflowInit, RunsFit
  <1>2. WorkflowInvariant /\ RunsFit /\ [WorkflowNext]_all => RunsFit'
    <2> SUFFICES ASSUME WorkflowInvariant, RunsFit, [WorkflowNext]_all,
                        NEW f \in Executions, execution'[f] # None
                 PROVE  Fits(execution'[f])
      BY DEF RunsFit, Fits, Tries
    <2>1. NearerAt(f)
      BY NextNearer DEF WorkflowInvariant, OnlyNearer
    <2>2. QED
      BY <2>1 DEF NearerAt, Advances, RunsFit
  <1>3. WorkflowInvariant => RunsOK
    BY DEF WorkflowInvariant
  <1>4. QED
    BY <1>1, <1>2, <1>3, InvariantHolds, PTL DEF WorkflowSpec

(* However its calls are lost, refused and repeated, an execution never    *)
(* goes round by itself: what it does brings it nearer to its end, or      *)
(* leaves it one try less where it is, and both are counted by natural     *)
(* numbers.  The one way back is from a refused decision to the form, so   *)
(* it takes finitely many steps from one form to the next.                 *)
NeverGoesRound ==
    [][\A e \in Executions :
          execution[e] # None /\ execution'[e] # execution[e] =>
              /\ \/ Nearer(execution'[e], execution[e])
                 \/ ShownAgain(execution'[e], execution[e])
              /\ Ahead(execution[e]) \in Nat
              /\ execution[e].at \in HttpNodes => Left(execution[e]) \in Nat]_all

THEOREM ExecutionsAreFinite == WorkflowSpec => NeverGoesRound
  <1> DEFINE Counts(e) ==
               execution[e] # None /\ execution'[e] # execution[e] =>
                   /\ \/ Nearer(execution'[e], execution[e])
                      \/ ShownAgain(execution'[e], execution[e])
                   /\ Ahead(execution[e]) \in Nat
                   /\ execution[e].at \in HttpNodes => Left(execution[e]) \in Nat
             Kept == \A e \in Executions : Counts(e)
  <1>1. RunsOK /\ RunsFit /\ [WorkflowNext]_all => [Kept]_all
    <2> SUFFICES ASSUME RunsOK, RunsFit, [WorkflowNext]_all, NEW e \in Executions,
                        execution[e] # None, execution'[e] # execution[e]
                 PROVE  /\ \/ Nearer(execution'[e], execution[e])
                           \/ ShownAgain(execution'[e], execution[e])
                        /\ Ahead(execution[e]) \in Nat
                        /\ execution[e].at \in HttpNodes => Left(execution[e]) \in Nat
      OBVIOUS
    <2>1. NearerAt(e)
      BY NextNearer DEF OnlyNearer
    <2>2. execution[e] \in Run /\ Fits(execution[e])
      BY DEF RunsOK, RunsFit
    <2>3. Ahead(execution[e]) \in Nat
      BY <2>2, AheadAt
    <2>4. execution[e].at \in HttpNodes => Left(execution[e]) \in Nat
      <3>1. execution[e].tries \in Nat /\ Tries(execution[e].at) \in Nat
        BY <2>2, TriesPositive DEF Run
      <3>2. QED
        BY <2>2, <3>1 DEF Left, Fits
    <2>5. QED
      BY <2>1, <2>3, <2>4 DEF NearerAt, Advances
  <1>2. [][Kept]_all => NeverGoesRound
    BY DEF NeverGoesRound
  <1> HIDE DEF Kept
  <1>3. QED
    BY <1>1, <1>2, RunsAlwaysFit, PTL DEF WorkflowSpec
=============================================================================
