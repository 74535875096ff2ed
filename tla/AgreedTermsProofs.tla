------------------------- MODULE AgreedTermsProofs -------------------------
(***************************************************************************)
(* The chain implements AgreedTerms: every step of LeadToCash strikes one  *)
(* deal, closes inquiries, issues one document of a deal, or is invisible. *)
(***************************************************************************)
EXTENDS LeadToCashProofs

(* The three variables of AgreedTerms, as the chain represents them *)
Deals  == {Deal(approval[a]) : a \in GrantedRows}
Closed == {approval[a].inquiry : a \in RefusedRows}
Quoted   == {[kind |-> "quote",   terms |-> quote[q].hash]    : q \in Rows(quote)}
Ordered  == {[kind |-> "order",   terms |-> order[o].hash]    : o \in Rows(order)}
Invoiced == {[kind |-> "invoice", terms |-> invoice[v].terms] : v \in Rows(invoice)}
Executed == Quoted \union Ordered \union Invoiced

(* A step of AgreedTerms, spelled out *)
Struck(d) ==
    /\ d \in [terms : Terms, by : Roles] /\ MayGrant(d.by, d.terms.pct)
    /\ \A e \in Deals : e.terms.inquiry # d.terms.inquiry
    /\ d.terms.inquiry \notin Closed
    /\ Deals' = Deals \union {d} /\ Closed' = Closed /\ Executed' = Executed
ClosedNow(S) ==
    /\ S \subseteq Inquiries /\ S \intersect Closed = {}
    /\ \A e \in Deals : e.terms.inquiry \notin S
    /\ Closed' = Closed \union S /\ Deals' = Deals /\ Executed' = Executed
Issued(kind, t) ==
    /\ t \in Terms
    /\ \/ kind = "quote"   /\ (\E d \in Deals : d.terms = t)
       \/ kind = "order"   /\ [kind |-> "quote", terms |-> t] \in Executed
       \/ kind = "invoice" /\ [kind |-> "order", terms |-> t] \in Executed
    /\ Executed' = Executed \union {[kind |-> kind, terms |-> t]}
    /\ Deals' = Deals /\ Closed' = Closed
Invisible == Deals' = Deals /\ Closed' = Closed /\ Executed' = Executed

LEMMA AbstractSteps ==
    /\ \A d : Struck(d) => Abstract!Next
    /\ \A S : ClosedNow(S) => Abstract!Next
    /\ \A kind, t : Issued(kind, t) => Abstract!Next
  <1>1. ASSUME NEW d, Struck(d) PROVE Abstract!Next
    <2>1. Abstract!MayGrant(d.by, d.terms.pct)
      BY <1>1 DEF Struck, MayGrant, Abstract!MayGrant, ROLE_MAX_PCT, Abstract!ROLE_MAX_PCT,
                  AUTO_APPROVE_MAX_PCT, SALESPERSON_MAX_PCT, POLICY_MAX_PCT,
                  Abstract!AUTO_APPROVE_MAX_PCT, Abstract!SALESPERSON_MAX_PCT,
                  Abstract!POLICY_MAX_PCT
    <2>2. Abstract!Strike(d)
      BY <1>1, <2>1 DEF Struck, Abstract!Strike, Abstract!DealsOf, Deals, Closed, Executed,
                        Quoted, Ordered, Invoiced
    <2>3. d \in Abstract!DealRecord
      BY <1>1 DEF Struck, Abstract!DealRecord, Roles, Abstract!Roles
    <2>4. QED
      BY <2>2, <2>3 DEF Abstract!Next
  <1>2. ASSUME NEW S, ClosedNow(S) PROVE Abstract!Next
    <2>1. Abstract!Close(S)
      BY <1>2 DEF ClosedNow, Abstract!Close, Abstract!DealsOf, Deals, Closed, Executed,
                  Quoted, Ordered, Invoiced
    <2>2. QED
      BY <1>2, <2>1 DEF Abstract!Next, ClosedNow
  <1>3. ASSUME NEW kind, NEW t, Issued(kind, t) PROVE Abstract!Next
    <2>1. Abstract!Issue(kind, t)
      BY <1>3 DEF Issued, Abstract!Issue, Abstract!Follows, Abstract!Document, Deals,
                  Closed, Executed, Quoted, Ordered, Invoiced
    <2>2. QED
      BY <1>3, <2>1 DEF Abstract!Next, Issued, Abstract!Kinds
  <1>4. QED
    BY <1>1, <1>2, <1>3

-----------------------------------------------------------------------------
(* Steps that only touch approvals *)

LEMMA ExecutedKept == UNCHANGED documents => Executed' = Executed
  BY DEF documents, Executed, Quoted, Ordered, Invoiced, Rows

LEMMA DealsKept == UNCHANGED approval => Deals' = Deals /\ Closed' = Closed
  BY DEF Deals, Closed, GrantedRows, RefusedRows, Rows

(* One approval is written that was neither granted nor refused before.    *)
LEMMA RowWritten ==
    ASSUME TypeOK, NEW a \in Approvals, a \notin GrantedRows, a \notin RefusedRows,
           NEW new \in ApprovalRow, approval' = [approval EXCEPT ![a] = new]
    PROVE  /\ Granted(new) => Deals' = Deals \union {Deal(new)} /\ Closed' = Closed
           /\ new.status \in {"rejected", "expired"} =>
                 Deals' = Deals /\ Closed' = Closed \union {new.inquiry}
           /\ new.status = "pending" => Deals' = Deals /\ Closed' = Closed
  <1>1. /\ approval'[a] = new /\ \A b \in Approvals \ {a} : approval'[b] = approval[b]
        /\ DOMAIN approval = Approvals /\ DOMAIN approval' = Approvals /\ new # None
    BY NoneAssumption DEF TypeOK, Table
  <1>2. GrantedRows' = GrantedRows \union {x \in {a} : Granted(new)}
    BY <1>1 DEF GrantedRows, Rows
  <1>3. RefusedRows' = RefusedRows \union {x \in {a} : new.status \in {"rejected", "expired"}}
    BY <1>1 DEF RefusedRows, Rows
  <1>4. /\ \A b \in GrantedRows : b \in Approvals \ {a}
        /\ \A b \in RefusedRows : b \in Approvals \ {a}
    BY <1>1 DEF GrantedRows, RefusedRows, Rows
  <1>5. Deals' = {Deal(approval'[b]) : b \in GrantedRows'}
    BY DEF Deals
  <1>6. Closed' = {approval'[b].inquiry : b \in RefusedRows'}
    BY DEF Closed
  <1>7. Deals' = Deals \union {Deal(x) : x \in {y \in {new} : Granted(new)}}
    BY <1>1, <1>2, <1>4, <1>5 DEF Deals
  <1>8. Closed' = Closed \union {x.inquiry : x \in {y \in {new} : new.status \in {"rejected", "expired"}}}
    BY <1>1, <1>3, <1>4, <1>6 DEF Closed
  <1>9. QED
    BY <1>7, <1>8 DEF Granted

(* No deal and no closure concerns an inquiry whose only approval, if any, *)
(* is pending.                                                             *)
LEMMA Undecided ==
    ASSUME TypeOK, NEW i, \A a \in Rows(approval) : approval[a].inquiry = i => a \in Pending
    PROVE  i \notin Closed /\ \A d \in Deals : d.terms.inquiry # i
  <1>1. \A a \in GrantedRows : a \in Rows(approval) /\ a \notin Pending
    BY DEF GrantedRows, Granted, Pending
  <1>2. \A a \in RefusedRows : a \in Rows(approval) /\ a \notin Pending
    BY DEF RefusedRows, Pending
  <1>3. \A a \in Rows(approval) : Deal(approval[a]).terms.inquiry = approval[a].inquiry
    BY DEF Deal, AgreedTermsOf, TermsOf
  <1>4. QED
    BY <1>1, <1>2, <1>3 DEF Deals, Closed

(* A granted row is a deal on the authority of its role.                   *)
LEMMA GrantStrikes ==
    ASSUME TypeOK, NEW a \in Approvals, a \notin GrantedRows, a \notin RefusedRows,
           NEW new \in ApprovalRow, approval' = [approval EXCEPT ![a] = new],
           Granted(new), new.approved \in Discounts, MayGrant(new.role, new.approved),
           \A b \in Rows(approval) : approval[b].inquiry = new.inquiry => b \in Pending,
           UNCHANGED documents
    PROVE  Struck(Deal(new))
  <1>1. /\ Deal(new).terms = TermsOf(new.inquiry, new.offer, new.approved)
        /\ Deal(new).by = new.role
        /\ Deal(new) = [terms |-> Deal(new).terms, by |-> Deal(new).by]
    BY DEF Deal, AgreedTermsOf
  <1>2. /\ Deal(new).terms \in Terms /\ Deal(new).by \in Roles
        /\ Deal(new).terms.inquiry = new.inquiry /\ Deal(new).terms.pct = new.approved
    BY <1>1, TermsOfType DEF ApprovalRow, TermsOf
  <1>3. Deal(new) \in [terms : Terms, by : Roles]
    BY <1>1, <1>2
  <1>4. new.inquiry \notin Closed /\ \A d \in Deals : d.terms.inquiry # new.inquiry
    BY Undecided
  <1>5. Deals' = Deals \union {Deal(new)} /\ Closed' = Closed /\ Executed' = Executed
    BY RowWritten, ExecutedKept
  <1>6. QED
    BY <1>1, <1>2, <1>3, <1>4, <1>5 DEF Struck

LEMMA PendingUndecided ==
    ASSUME TypeOK, OneApprovalPerInquiry, NEW a \in Pending
    PROVE  /\ a \in Approvals /\ a \notin GrantedRows /\ a \notin RefusedRows
           /\ approval[a] \in ApprovalRow /\ approval[a].status = "pending"
           /\ \A b \in Rows(approval) : approval[b].inquiry = approval[a].inquiry => b \in Pending
  <1>1. a \in Rows(approval) /\ approval[a].status = "pending"
    BY DEF Pending
  <1>2. QED
    BY <1>1 DEF OneApprovalPerInquiry, GrantedRows, RefusedRows, Granted, TypeOK, Table, Rows

LEMMA GrantSteps ==
    ASSUME TypeOK, OneApprovalPerInquiry, NEW a \in Approvals, NEW pct \in Discounts,
           Grant(a, pct)
    PROVE  Abstract!Next
  <1> DEFINE new == GrantedRow(approval[a], pct)
  <1>1. a \in Pending
    BY DEF Grant, Decidable, Pending, Rows, TypeOK, Table
  <1>2. approval' = [approval EXCEPT ![a] = new] /\ UNCHANGED documents
    BY DEF Grant, UpdateApproval
  <1>3. new \in ApprovalRow
    BY <1>1, PendingUndecided, GrantedRowType
  <1>4. /\ Granted(new) /\ new.inquiry = approval[a].inquiry
        /\ new.role = approval[a].role /\ new.approved = pct
    BY <1>1, PendingUndecided DEF GrantedRow, Granted, ApprovalRow
  <1>5. MayGrant(new.role, new.approved)
    BY <1>4 DEF Grant
  <1> HIDE DEF new
  <1>6. Struck(Deal(new))
    BY <1>1, <1>2, <1>3, <1>4, <1>5, PendingUndecided, GrantStrikes
  <1>7. QED
    BY <1>6, AbstractSteps

LEMMA RejectSteps ==
    ASSUME TypeOK, OneApprovalPerInquiry, NEW a \in Approvals, Reject(a)
    PROVE  Abstract!Next
  <1> DEFINE new == [approval[a] EXCEPT !.status = "rejected"]
  <1>1. a \in Pending
    BY DEF Reject, Decidable, Pending, Rows, TypeOK, Table
  <1>2. approval' = [approval EXCEPT ![a] = new] /\ UNCHANGED documents
    BY DEF Reject, UpdateApproval
  <1>3. new \in ApprovalRow /\ new.status = "rejected" /\ new.inquiry = approval[a].inquiry
    BY <1>1, PendingUndecided DEF ApprovalRow
  <1>4. new.inquiry \in Inquiries
    BY <1>3 DEF ApprovalRow
  <1> HIDE DEF new
  <1>5. Deals' = Deals /\ Closed' = Closed \union {new.inquiry} /\ Executed' = Executed
    BY <1>1, <1>2, <1>3, PendingUndecided, RowWritten, ExecutedKept
  <1>6. new.inquiry \notin Closed /\ \A d \in Deals : d.terms.inquiry # new.inquiry
    BY <1>1, <1>3, PendingUndecided, Undecided
  <1>7. ClosedNow({new.inquiry})
    BY <1>4, <1>5, <1>6 DEF ClosedNow
  <1>8. QED
    BY <1>7, AbstractSteps

LEMMA ExpireSteps ==
    ASSUME TypeOK, OneApprovalPerInquiry, NEW S \in SUBSET Pending, Expire(S)
    PROVE  Abstract!Next
  <1> DEFINE gone == {approval[a].inquiry : a \in S}
  <1>1. \A a \in S : /\ a \in Approvals /\ a \notin GrantedRows /\ a \notin RefusedRows
                     /\ approval[a] \in ApprovalRow
                     /\ approval[a].inquiry \notin Closed
                     /\ \A d \in Deals : d.terms.inquiry # approval[a].inquiry
    BY PendingUndecided, Undecided
  <1>2. /\ \A a \in S : /\ approval'[a].status = "expired" /\ approval'[a] \in ApprovalRow
                        /\ approval'[a].inquiry = approval[a].inquiry
        /\ \A a \in Approvals \ S : approval'[a] = approval[a]
        /\ DOMAIN approval = Approvals /\ DOMAIN approval' = Approvals
        /\ UNCHANGED documents
    BY <1>1 DEF Expire, ApprovalRow, TypeOK, Table
  <1>3. GrantedRows' = GrantedRows
    BY <1>1, <1>2 DEF GrantedRows, Rows, Granted
  <1>4. RefusedRows' = RefusedRows \union S
    BY <1>1, <1>2, NoneAssumption DEF RefusedRows, Rows
  <1>5. /\ \A b \in GrantedRows : b \in Approvals \ S
        /\ \A b \in RefusedRows : b \in Approvals \ S
    BY <1>1, <1>2 DEF GrantedRows, RefusedRows, Rows
  <1>6. Deals' = Deals
    BY <1>2, <1>3, <1>5 DEF Deals
  <1>7. Closed' = Closed \union gone
    BY <1>1, <1>2, <1>4, <1>5 DEF Closed
  <1>8. gone \subseteq Inquiries
    BY <1>1 DEF ApprovalRow
  <1>9. ClosedNow(gone)
    BY <1>1, <1>2, <1>6, <1>7, <1>8, ExecutedKept DEF ClosedNow
  <1>10. QED
    BY <1>9, AbstractSteps

LEMMA DeadlineInvisible ==
    ASSUME TypeOK, OneApprovalPerInquiry, NEW a \in Approvals, DeadlinePasses(a)
    PROVE  Invisible
  <1> DEFINE new == [approval[a] EXCEPT !.overdue = TRUE]
  <1>1. a \in Pending /\ approval[a] \in ApprovalRow
    BY PendingUndecided DEF DeadlinePasses
  <1>2. approval' = [approval EXCEPT ![a] = new] /\ UNCHANGED documents
    BY <1>1 DEF DeadlinePasses
  <1>3. new \in ApprovalRow /\ new.status = "pending"
    BY <1>1, PendingUndecided DEF ApprovalRow
  <1> HIDE DEF new
  <1>4. QED
    BY <1>1, <1>2, <1>3, PendingUndecided, RowWritten, ExecutedKept DEF Invisible

(* A ruling strikes a deal, closes the inquiry, asks a person, or repeats. *)
LEMMA RunRulesSteps ==
    ASSUME TypeOK, TypeOK', OfferRead, NEW i \in Inquiries, RunRules(i)
    PROVE  Abstract!Next \/ Invisible
  <1>1. PICK outcome \in Outcomes :
             /\ extracted[i] \in Offers
             /\ outcome = Decide(TRUE, extracted[i].quantity, extracted[i].pct,
                                 OfferTotal(extracted[i]))
             /\ \A a \in Rows(approval) : approval[a].inquiry # i
             /\ \/ UNCHANGED approval
                \/ /\ outcome # "human_review"
                   /\ \E a \in Approvals \ Rows(approval) :
                         approval' = [approval EXCEPT ![a] = NewApproval(i, outcome)]
    BY RunRulesWrites
  <1>2. UNCHANGED documents
    BY DEF RunRules
  <1>3. CASE UNCHANGED approval
    BY <1>2, <1>3, DealsKept, ExecutedKept DEF Invisible
  <1>4. ASSUME outcome # "human_review", NEW a \in Approvals \ Rows(approval),
               approval' = [approval EXCEPT ![a] = NewApproval(i, outcome)]
        PROVE  Abstract!Next \/ Invisible
    <2> DEFINE new == NewApproval(i, outcome)
    <2>1. new \in ApprovalRow /\ OpenedBy(new, i, outcome)
      BY <1>1, <1>4, NewApprovalType, NewApprovalSound
    <2>2. a \notin GrantedRows /\ a \notin RefusedRows
      BY DEF GrantedRows, RefusedRows
    <2>3. Granted(new) => new.approved \in Discounts
      <3>1. Granted(new) => new.approved # None
        BY <1>1, <1>4, NewApprovalType
      <3>2. QED
        BY <2>1, <3>1 DEF ApprovalRow
    <2>4. new.status \in {"pending", "approved", "modified", "rejected", "expired"}
      BY <2>1 DEF ApprovalRow
    <2> HIDE DEF new
    <2>5. approval' = [approval EXCEPT ![a] = new]
      BY <1>4 DEF new
    <2>6. /\ new.inquiry = i
          /\ \A b \in Rows(approval) : approval[b].inquiry = new.inquiry => b \in Pending
      BY <1>1, <2>1 DEF OpenedBy
    <2>7. CASE Granted(new)
      <3>1. MayGrant(new.role, new.approved)
        BY <2>1, <2>7 DEF OpenedBy
      <3>2. Struck(Deal(new))
        BY <1>2, <2>1, <2>2, <2>3, <2>5, <2>6, <2>7, <3>1, GrantStrikes
      <3>3. QED
        BY <3>2, AbstractSteps
    <2>8. CASE new.status \in {"rejected", "expired"}
      <3>1. i \notin Closed /\ \A d \in Deals : d.terms.inquiry # i
        BY <2>6, Undecided
      <3>2. Deals' = Deals /\ Closed' = Closed \union {i} /\ Executed' = Executed
        BY <1>2, <2>1, <2>2, <2>5, <2>6, <2>8, RowWritten, ExecutedKept
      <3>3. ClosedNow({i})
        BY <3>1, <3>2 DEF ClosedNow
      <3>4. QED
        BY <3>3, AbstractSteps
    <2>9. CASE new.status = "pending"
      BY <1>2, <2>1, <2>2, <2>5, <2>9, RowWritten, ExecutedKept DEF Invisible
    <2>10. QED
      BY <2>4, <2>7, <2>8, <2>9 DEF Granted
  <1>5. QED
    BY <1>1, <1>3, <1>4

-----------------------------------------------------------------------------
(* Steps that only touch documents *)

(* A quote that is written again keeps its hash.                           *)
LEMMA QuotedKept ==
    ASSUME TypeOK, NEW q \in Rows(quote), NEW new, new # None, new.hash = quote[q].hash,
           quote' = [quote EXCEPT ![q] = new]
    PROVE  Quoted' = Quoted
  <1>1. /\ DOMAIN quote = Quotes /\ DOMAIN quote' = Quotes /\ q \in Quotes
        /\ quote'[q] = new /\ \A p \in Quotes \ {q} : quote'[p] = quote[p]
    BY DEF TypeOK, Table, Rows
  <1>2. Rows(quote') = Rows(quote)
    BY <1>1 DEF Rows
  <1>3. \A p \in Rows(quote) : quote'[p].hash = quote[p].hash
    BY <1>1 DEF Rows
  <1>4. Quoted' = {[kind |-> "quote", terms |-> quote'[p].hash] : p \in Rows(quote')}
    BY DEF Quoted
  <1>5. QED
    BY <1>2, <1>3, <1>4 DEF Quoted

LEMMA CreateQuoteSteps ==
    ASSUME TypeOK, HashesAgree, NEW i \in Inquiries, CreateQuote(i)
    PROVE  Abstract!Next
  <1>1. PICK a \in Rows(approval), q \in Quotes \ Rows(quote) :
           /\ Granted(approval[a])
           /\ quote' = [quote EXCEPT ![q] = NewQuote(a)]
           /\ UNCHANGED <<approval, order, invoice>>
    BY DEF CreateQuote
  <1> DEFINE t == approval[a].hash
  <1>2. /\ DOMAIN quote = Quotes /\ DOMAIN quote' = Quotes
        /\ quote'[q] = NewQuote(a) /\ NewQuote(a).hash = t
        /\ \A p \in Quotes \ {q} : quote'[p] = quote[p]
    BY <1>1 DEF TypeOK, Table, NewQuote
  <1>3. NewQuote(a) # None
    BY <1>1, NewQuoteType, NoneAssumption
  <1>4. t \in Terms
    BY <1>1 DEF TypeOK, Table, Rows, ApprovalRow
  <1>5. \E d \in Deals : d.terms = t
    <2>1. a \in GrantedRows /\ t = AgreedTermsOf(approval[a])
      BY <1>1 DEF GrantedRows, HashesAgree
    <2>2. Deal(approval[a]) \in Deals /\ Deal(approval[a]).terms = t
      BY <2>1 DEF Deals, Deal
    <2>3. QED
      BY <2>2
  <1> HIDE DEF t
  <1>6. Rows(quote') = Rows(quote) \union {q}
    BY <1>1, <1>2, <1>3 DEF Rows
  <1>7. \A p \in Rows(quote) : quote'[p] = quote[p]
    BY <1>1, <1>2 DEF Rows
  <1>8. Quoted' = {[kind |-> "quote", terms |-> quote'[p].hash] : p \in Rows(quote')}
    BY DEF Quoted
  <1>9. Quoted' = Quoted \union {[kind |-> "quote", terms |-> t]}
    BY <1>2, <1>6, <1>7, <1>8 DEF Quoted
  <1>10. Ordered' = Ordered /\ Invoiced' = Invoiced
    BY <1>1 DEF Ordered, Invoiced, Rows
  <1>11. Issued("quote", t)
    BY <1>1, <1>4, <1>5, <1>9, <1>10, DealsKept DEF Issued, Executed
  <1>12. QED
    BY <1>11, AbstractSteps

LEMMA CreateOrderSteps ==
    ASSUME TypeOK, NEW q \in Quotes, CreateOrder(q)
    PROVE  Abstract!Next
  <1> DEFINE t == quote[q].hash
             new == [quote[q] EXCEPT !.status = "accepted"]
  <1>1. q \in Rows(quote) /\ quote[q] \in QuoteRow
    BY DEF CreateOrder, Orderable, TypeOK, Table, Rows
  <1>2. PICK o \in Orders \ Rows(order) : order' = [order EXCEPT ![o] = NewOrder(q)]
    BY DEF CreateOrder
  <1>3. quote' = [quote EXCEPT ![q] = new] /\ UNCHANGED <<approval, invoice>>
    BY DEF CreateOrder
  <1>4. new \in QuoteRow /\ new.hash = quote[q].hash /\ new # None
    BY <1>1, NoneAssumption DEF QuoteRow
  <1> HIDE DEF new
  <1>5. Quoted' = Quoted
    BY <1>1, <1>3, <1>4, QuotedKept
  <1>6. NewOrder(q) \in OrderRow /\ NewOrder(q) # None /\ NewOrder(q).hash = t
    BY <1>1, NoneAssumption DEF NewOrder, OrderRow, QuoteRow
  <1>7. t \in Terms /\ [kind |-> "quote", terms |-> t] \in Executed
    BY <1>1 DEF QuoteRow, Executed, Quoted
  <1> HIDE DEF t
  <1>8. /\ DOMAIN order = Orders /\ DOMAIN order' = Orders
        /\ order'[o] = NewOrder(q) /\ \A p \in Orders \ {o} : order'[p] = order[p]
    BY <1>2 DEF TypeOK, Table
  <1>9. Rows(order') = Rows(order) \union {o} /\ \A p \in Rows(order) : order'[p] = order[p]
    BY <1>2, <1>6, <1>8 DEF Rows
  <1>10. Ordered' = {[kind |-> "order", terms |-> order'[p].hash] : p \in Rows(order')}
    BY DEF Ordered
  <1>11. Ordered' = Ordered \union {[kind |-> "order", terms |-> t]}
    BY <1>6, <1>8, <1>9, <1>10 DEF Ordered
  <1>12. Invoiced' = Invoiced
    BY <1>3 DEF Invoiced, Rows
  <1>13. Issued("order", t)
    BY <1>3, <1>5, <1>7, <1>11, <1>12, DealsKept DEF Issued, Executed
  <1>14. QED
    BY <1>13, AbstractSteps

LEMMA CreateInvoiceSteps ==
    ASSUME TypeOK, ExecutedAsApproved, NEW o \in Orders, CreateInvoice(o)
    PROVE  Abstract!Next
  <1> DEFINE t == order[o].terms
  <1>1. o \in Rows(order) /\ order[o] \in OrderRow /\ UNCHANGED <<approval, quote, order>>
    BY DEF CreateInvoice, Billable, TypeOK, Table, Rows
  <1>2. PICK v \in Invoices \ Rows(invoice) : invoice' = [invoice EXCEPT ![v] = NewInvoice(o)]
    BY DEF CreateInvoice
  <1>3. NewInvoice(o) \in InvoiceRow /\ NewInvoice(o) # None /\ NewInvoice(o).terms = t
    <2>1. NewInvoice(o) \in InvoiceRow
      BY <1>1, NewInvoiceType
    <2>2. NewInvoice(o) # None
      BY <2>1, NoneAssumption
    <2>3. QED
      BY <2>1, <2>2 DEF NewInvoice
  <1>4. t \in Terms
    BY <1>1 DEF OrderRow
  <1>5. order[o].hash = t
    <2>1. OrderSound(o) /\ QuoteSound(order[o].quote)
      BY <1>1, DocumentsByRow DEF OrderSound
    <2>2. QED
      BY <2>1 DEF OrderSound, QuoteSound
  <1>6. [kind |-> "order", terms |-> t] \in Executed
    BY <1>1, <1>5 DEF Executed, Ordered
  <1> HIDE DEF t
  <1>7. /\ DOMAIN invoice = Invoices /\ DOMAIN invoice' = Invoices
        /\ invoice'[v] = NewInvoice(o) /\ \A u \in Invoices \ {v} : invoice'[u] = invoice[u]
    BY <1>2 DEF TypeOK, Table
  <1>8. Rows(invoice') = Rows(invoice) \union {v}
        /\ \A u \in Rows(invoice) : invoice'[u] = invoice[u]
    BY <1>2, <1>3, <1>7 DEF Rows
  <1>9. Invoiced' = {[kind |-> "invoice", terms |-> invoice'[u].terms] : u \in Rows(invoice')}
    BY DEF Invoiced
  <1>10. Invoiced' = Invoiced \union {[kind |-> "invoice", terms |-> t]}
    BY <1>3, <1>7, <1>8, <1>9 DEF Invoiced
  <1>11. Quoted' = Quoted /\ Ordered' = Ordered
    BY <1>1 DEF Quoted, Ordered, Rows
  <1>12. Issued("invoice", t)
    BY <1>1, <1>4, <1>6, <1>10, <1>11, DealsKept DEF Issued, Executed
  <1>13. QED
    BY <1>12, AbstractSteps

(* Expired quotes and void or corrected invoices are not the customer's    *)
(* business.                                                               *)
LEMMA DocumentsInvisible ==
    ASSUME TypeOK
    PROVE  /\ \A q \in Quotes : OrderTooLate(q) \/ QuoteLapses(q) => Invisible
           /\ \A v \in Invoices : InvoiceChanged(v) => Invisible
  <1>1. ASSUME NEW q \in Quotes, NEW new,
               new = [quote[q] EXCEPT !.status = "expired"] \/ new = [quote[q] EXCEPT !.lapsed = TRUE],
               q \in Rows(quote), quote' = [quote EXCEPT ![q] = new],
               UNCHANGED <<approval, order, invoice>>
        PROVE  Invisible
    <2>1. quote[q] \in QuoteRow
      BY <1>1 DEF TypeOK, Table, Rows
    <2>2. new \in QuoteRow /\ new.hash = quote[q].hash /\ new # None
      BY <1>1, <2>1, NoneAssumption DEF QuoteRow
    <2>3. Quoted' = Quoted
      BY <1>1, <2>2, QuotedKept
    <2>4. Ordered' = Ordered /\ Invoiced' = Invoiced
      BY <1>1 DEF Ordered, Invoiced, Rows
    <2>5. QED
      BY <1>1, <2>3, <2>4, DealsKept DEF Invisible, Executed
  <1>2. ASSUME NEW v \in Invoices, InvoiceChanged(v) PROVE Invisible
    <2>1. v \in Rows(invoice) /\ UNCHANGED <<approval, quote, order>>
      BY <1>2, InvoiceChange
    <2>2. PICK new \in InvoiceRow :
             invoice' = [invoice EXCEPT ![v] = new] /\ new.terms = invoice[v].terms
      BY <1>2, InvoiceChange
    <2>3. /\ DOMAIN invoice = Invoices /\ DOMAIN invoice' = Invoices
          /\ invoice'[v] = new /\ \A u \in Invoices \ {v} : invoice'[u] = invoice[u]
      BY <2>2 DEF TypeOK, Table
    <2>4. Rows(invoice') = Rows(invoice)
          /\ \A u \in Rows(invoice) : invoice'[u].terms = invoice[u].terms
      BY <2>1, <2>2, <2>3, NoneAssumption DEF Rows
    <2>5. Invoiced' = {[kind |-> "invoice", terms |-> invoice'[u].terms] : u \in Rows(invoice')}
      BY DEF Invoiced
    <2>6. Invoiced' = Invoiced
      BY <2>4, <2>5 DEF Invoiced
    <2>7. Quoted' = Quoted /\ Ordered' = Ordered
      BY <2>1 DEF Quoted, Ordered, Rows
    <2>8. QED
      BY <2>1, <2>6, <2>7, DealsKept DEF Invisible, Executed
  <1>3. ASSUME NEW q \in Quotes, OrderTooLate(q) \/ QuoteLapses(q) PROVE Invisible
    BY <1>1, <1>3 DEF OrderTooLate, QuoteLapses, Orderable
  <1>4. QED
    BY <1>2, <1>3

-----------------------------------------------------------------------------
LEMMA InitImplements == Init => Abstract!Init
  BY DEF Init, Abstract!Init, GrantedRows, RefusedRows, Rows

LEMMA NextImplements ==
    ASSUME ChainInvariant, ChainInvariant', [Next]_vars
    PROVE  Abstract!Next \/ Invisible
  <1>1. /\ TypeOK /\ TypeOK' /\ OfferRead /\ OneApprovalPerInquiry
        /\ HashesAgree /\ ExecutedAsApproved
    BY DEF ChainInvariant
  <1>2. UNCHANGED <<approval, documents>> => Invisible
    BY DealsKept, ExecutedKept DEF Invisible
  <1>3. ASSUME NEW i \in Inquiries,
               \/ CreateInquiry(i) \/ (\E w \in Workers : StartExtraction(w, i))
               \/ ExtractionGoesStale(i) \/ ReportWorkflowFailure(i)
        PROVE  Invisible
    BY <1>2, <1>3 DEF CreateInquiry, StartExtraction, ExtractionGoesStale,
                      ReportWorkflowFailure, documents
  <1>4. ASSUME NEW w \in Workers,
               \/ ExtractionSucceeds(w) \/ ExtractionGivesUp(w) \/ ExtractionCrashes(w)
               \/ \E kind \in {"invalid", "unavailable"}, r \in BOOLEAN : LlmFails(w, kind, r)
        PROVE  Invisible
    BY <1>2, <1>4 DEF ExtractionSucceeds, ExtractionGivesUp, ExtractionCrashes, WriteResult,
                      LlmFails, documents
  <1>5. ASSUME NEW a \in Approvals, Approve(a) PROVE Abstract!Next
    <2>1. approval[a].offer.pct \in Discounts
      BY <1>1, <1>5, OfferFields DEF Approve, Decidable, TypeOK, Table, ApprovalRow
    <2>2. QED
      BY <1>1, <1>5, <2>1, GrantSteps DEF Approve
  <1>6. ASSUME NEW a \in Approvals, NEW pct \in Percents, Modify(a, pct) PROVE Abstract!Next
    BY <1>1, <1>6, GrantSteps DEF Modify, Discounts
  <1>7. ASSUME NEW a \in Approvals, Reject(a) PROVE Abstract!Next
    BY <1>1, <1>7, RejectSteps
  <1>8. ASSUME NEW a \in Approvals, DecideTooLate(a) PROVE Abstract!Next
    <2>1. {a} \in SUBSET Pending
      BY <1>1, <1>8 DEF DecideTooLate, Pending, Rows, TypeOK, Table
    <2>2. QED
      BY <1>1, <1>8, <2>1, ExpireSteps DEF DecideTooLate
  <1>9. ExpireDue => Abstract!Next
    BY <1>1, ExpireSteps DEF ExpireDue, Due
  <1>10. ASSUME NEW a \in Approvals, DeadlinePasses(a) PROVE Invisible
    BY <1>1, <1>10, DeadlineInvisible
  <1>11. ASSUME NEW i \in Inquiries, RunRules(i) PROVE Abstract!Next \/ Invisible
    BY <1>1, <1>11, RunRulesSteps
  <1>12. ASSUME NEW i \in Inquiries, CreateQuote(i) PROVE Abstract!Next
    BY <1>1, <1>12, CreateQuoteSteps
  <1>13. ASSUME NEW q \in Quotes, CreateOrder(q) PROVE Abstract!Next
    BY <1>1, <1>13, CreateOrderSteps
  <1>14. ASSUME NEW o \in Orders, CreateInvoice(o) PROVE Abstract!Next
    BY <1>1, <1>14, CreateInvoiceSteps
  <1>15. ASSUME NEW q \in Quotes, OrderTooLate(q) \/ QuoteLapses(q) PROVE Invisible
    BY <1>1, <1>15, DocumentsInvisible
  <1>16. ASSUME NEW v \in Invoices, InvoiceChanged(v) PROVE Invisible
    BY <1>1, <1>16, DocumentsInvisible
  <1>17. UNCHANGED vars => Invisible
    BY <1>2 DEF vars, documents
  <1>18. QED
    BY <1>3, <1>4, <1>5, <1>6, <1>7, <1>8, <1>9, <1>10, <1>11, <1>12, <1>13, <1>14,
       <1>15, <1>16, <1>17 DEF Next, InvoiceChanged

(* The whole chain, with its retries, races, expiries and late extractions,*)
(* promises no more and no less than AgreedTerms: one deal per inquiry, on *)
(* somebody's authority, and documents that carry the deal, in order.      *)
THEOREM ChainImplementsAgreedTerms == Spec => ImplementsAgreedTerms
  <1>1. Init => Abstract!Init
    BY InitImplements
  <1>2. ChainInvariant /\ ChainInvariant' /\ [Next]_vars
          => [Abstract!Next]_<<{Deal(approval[a]) : a \in GrantedRows},
                {approval[a].inquiry : a \in RefusedRows},
                {[kind |-> "quote", terms |-> quote[q].hash] : q \in Rows(quote)}
                  \union {[kind |-> "order", terms |-> order[o].hash] : o \in Rows(order)}
                  \union {[kind |-> "invoice", terms |-> invoice[v].terms] : v \in Rows(invoice)}>>
    BY NextImplements DEF Invisible, Deals, Closed, Executed, Quoted, Ordered, Invoiced
  <1>3. QED
    BY <1>1, <1>2, ChainCorrect, PTL DEF Spec, ImplementsAgreedTerms, Abstract!Spec
=============================================================================
