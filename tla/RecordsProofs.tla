--------------------------- MODULE RecordsProofs ---------------------------
(***************************************************************************)
(* What the records of an inquiry say together, for every number of rows:  *)
(* it is billed once (BilledOnce), its documents show one and the same     *)
(* agreement (EvidenceHolds), and its status is the one that its approval  *)
(* and its documents stand for (StatusMatchesRecords).  The first follows  *)
(* from the chain of documents (ExecutedAsApproved) once each link of it   *)
(* is known to be used at most once.                                       *)
(***************************************************************************)
EXTENDS LeadToCashProofs

(* What the checks under the lock of create_quote, create_order and        *)
(* create_invoice keep: at most one document follows each one.             *)
OneQuotePerApproval ==
    \A q, p \in Rows(quote) : quote[q].approval = quote[p].approval => q = p
OneOrderPerQuote ==
    \A o, p \in Rows(order) : order[o].quote = order[p].quote => o = p
OneLiveInvoicePerOrder ==
    \A v, u \in Rows(invoice) :
        ~invoice[v].void /\ ~invoice[u].void /\ invoice[v].order = invoice[u].order => v = u
LinksUsedOnce == OneQuotePerApproval /\ OneOrderPerQuote /\ OneLiveInvoicePerOrder

LEMMA InitLinks == Init => LinksUsedOnce
  BY DEF Init, LinksUsedOnce, OneQuotePerApproval, OneOrderPerQuote,
         OneLiveInvoicePerOrder, Rows

(* A quote keeps its approval whatever is written into it.                 *)
LEMMA QuotesKept ==
    ASSUME TypeOK, NEW q \in Quotes,
           CreateOrder(q) \/ OrderTooLate(q) \/ QuoteLapses(q)
    PROVE  /\ Rows(quote') = Rows(quote)
           /\ \A p \in Rows(quote) : quote'[p].approval = quote[p].approval
  <1>1. ASSUME NEW new, quote' = [quote EXCEPT ![q] = new],
               new \in QuoteRow, new.approval = quote[q].approval, q \in Rows(quote)
        PROVE  /\ Rows(quote') = Rows(quote)
               /\ \A p \in Rows(quote) : quote'[p].approval = quote[p].approval
    <2>1. /\ DOMAIN quote = Quotes /\ DOMAIN quote' = Quotes /\ quote'[q] = new
          /\ \A p \in Quotes \ {q} : quote'[p] = quote[p]
      BY <1>1 DEF TypeOK, Table
    <2>2. new # None /\ quote[q] # None
      BY <1>1, NoneAssumption DEF Rows
    <2>3. QED
      BY <1>1, <2>1, <2>2 DEF Rows
  <1>2. quote[q] \in QuoteRow /\ q \in Rows(quote)
    BY DEF CreateOrder, OrderTooLate, QuoteLapses, Orderable, TypeOK, Table, Rows
  <1>3. /\ \A st \in {"accepted", "expired"} :
              /\ [quote[q] EXCEPT !.status = st] \in QuoteRow
              /\ [quote[q] EXCEPT !.status = st].approval = quote[q].approval
        /\ [quote[q] EXCEPT !.lapsed = TRUE] \in QuoteRow
        /\ [quote[q] EXCEPT !.lapsed = TRUE].approval = quote[q].approval
    BY <1>2 DEF QuoteRow
  <1>4. \/ \E st \in {"accepted", "expired"} :
              quote' = [quote EXCEPT ![q] = [quote[q] EXCEPT !.status = st]]
        \/ quote' = [quote EXCEPT ![q] = [quote[q] EXCEPT !.lapsed = TRUE]]
    BY DEF CreateOrder, OrderTooLate, QuoteLapses
  <1>5. QED
    BY <1>1, <1>2, <1>3, <1>4

LEMMA NextOneQuote ==
    ASSUME TypeOK, LinksUsedOnce, [Next]_vars
    PROVE  OneQuotePerApproval'
  <1>1. ASSUME NEW i \in Inquiries, CreateQuote(i) PROVE OneQuotePerApproval'
    <2>1. PICK a \in Rows(approval), q \in Quotes \ Rows(quote) :
             /\ \A p \in Rows(quote) : quote[p].approval # a
             /\ quote' = [quote EXCEPT ![q] = NewQuote(a)]
      BY <1>1 DEF CreateQuote
    <2>2. quote'[q].approval = a
      BY <2>1 DEF NewQuote, TypeOK, Table
    <2>3. \A p \in Rows(quote') : p # q => p \in Rows(quote) /\ quote'[p] = quote[p]
      BY <2>1 DEF Rows, TypeOK, Table
    <2>4. QED
      BY <2>1, <2>2, <2>3 DEF LinksUsedOnce, OneQuotePerApproval
  <1>2. ASSUME NEW q \in Quotes, CreateOrder(q) \/ OrderTooLate(q) \/ QuoteLapses(q)
        PROVE  OneQuotePerApproval'
    BY <1>2, QuotesKept DEF LinksUsedOnce, OneQuotePerApproval
  <1>3. ASSUME UNCHANGED quote PROVE OneQuotePerApproval'
    BY <1>3 DEF LinksUsedOnce, OneQuotePerApproval, Rows
  <1>4. QED
    BY <1>1, <1>2, <1>3, DocumentSteps, InvoiceChange DEF documents, CreateInvoice

LEMMA NextOneOrder ==
    ASSUME TypeOK, LinksUsedOnce, [Next]_vars
    PROVE  OneOrderPerQuote'
  <1>1. ASSUME NEW q \in Quotes, CreateOrder(q) PROVE OneOrderPerQuote'
    <2>1. PICK o \in Orders \ Rows(order) : order' = [order EXCEPT ![o] = NewOrder(q)]
      BY <1>1 DEF CreateOrder
    <2>2. order'[o].quote = q
      BY <2>1 DEF NewOrder, TypeOK, Table
    <2>3. \A p \in Rows(order') : p # o => p \in Rows(order) /\ order'[p] = order[p]
      BY <2>1 DEF Rows, TypeOK, Table
    <2>4. \A p \in Rows(order) : order[p].quote # q
      BY <1>1 DEF CreateOrder, Orderable
    <2>5. QED
      BY <2>2, <2>3, <2>4 DEF LinksUsedOnce, OneOrderPerQuote
  <1>2. ASSUME UNCHANGED order PROVE OneOrderPerQuote'
    BY <1>2 DEF LinksUsedOnce, OneOrderPerQuote, Rows
  <1>3. QED
    BY <1>1, <1>2, DocumentSteps, InvoiceChange
       DEF documents, CreateQuote, OrderTooLate, QuoteLapses, CreateInvoice

LEMMA NextOneInvoice ==
    ASSUME TypeOK, LinksUsedOnce, [Next]_vars
    PROVE  OneLiveInvoicePerOrder'
  <1>1. ASSUME NEW o \in Orders, CreateInvoice(o) PROVE OneLiveInvoicePerOrder'
    <2>1. PICK v \in Invoices \ Rows(invoice) : invoice' = [invoice EXCEPT ![v] = NewInvoice(o)]
      BY <1>1 DEF CreateInvoice
    <2>2. invoice'[v].order = o
      BY <2>1 DEF NewInvoice, TypeOK, Table
    <2>3. \A u \in Rows(invoice') : u # v => u \in Rows(invoice) /\ invoice'[u] = invoice[u]
      BY <2>1 DEF Rows, TypeOK, Table
    <2>4. \A u \in Rows(invoice) : invoice[u].order = o => invoice[u].void
      BY <1>1 DEF CreateInvoice, Billable
    <2>5. QED
      BY <2>2, <2>3, <2>4 DEF LinksUsedOnce, OneLiveInvoicePerOrder
  <1>2. ASSUME NEW v \in Invoices, InvoiceChanged(v) PROVE OneLiveInvoicePerOrder'
    <2>1. v \in Rows(invoice)
      BY <1>2, InvoiceChange
    <2>2. PICK new \in InvoiceRow :
             /\ invoice' = [invoice EXCEPT ![v] = new]
             /\ new.order = invoice[v].order /\ (invoice[v].void => new.void)
      BY <1>2, InvoiceChange
    <2>3. \A u \in Rows(invoice') : ~invoice'[u].void =>
             /\ u \in Rows(invoice) /\ ~invoice[u].void
             /\ invoice'[u].order = invoice[u].order
      BY <2>1, <2>2 DEF Rows, TypeOK, Table
    <2>4. QED
      BY <2>3 DEF LinksUsedOnce, OneLiveInvoicePerOrder
  <1>3. ASSUME UNCHANGED invoice PROVE OneLiveInvoicePerOrder'
    BY <1>3 DEF LinksUsedOnce, OneLiveInvoicePerOrder, Rows
  <1>4. QED
    BY <1>1, <1>2, <1>3, DocumentSteps
       DEF documents, CreateQuote, CreateOrder, OrderTooLate, QuoteLapses

(* Two live invoices of one inquiry lead back to one approval, and forward *)
(* again over one quote and one order to one invoice.                      *)
LEMMA LinksGiveBilledOnce ==
    ASSUME ChainInvariant, LinksUsedOnce
    PROVE  BilledOnce
  <1> SUFFICES ASSUME NEW v \in Rows(invoice), NEW u \in Rows(invoice),
                      ~invoice[v].void, ~invoice[u].void,
                      invoice[v].terms.inquiry = invoice[u].terms.inquiry
               PROVE  v = u
    BY DEF BilledOnce
  <1> DEFINE approvalOf(w) == quote[order[invoice[w].order].quote].approval
  <1>1. ASSUME NEW w \in Rows(invoice)
        PROVE  /\ invoice[w].order \in Rows(order)
               /\ order[invoice[w].order].quote \in Rows(quote)
               /\ approvalOf(w) \in Rows(approval)
               /\ invoice[w].terms.inquiry = approval[approvalOf(w)].inquiry
    <2>1. /\ InvoiceSound(w) /\ OrderSound(invoice[w].order)
          /\ QuoteSound(order[invoice[w].order].quote)
      BY DocumentsByRow DEF ChainInvariant, InvoiceSound, OrderSound
    <2>2. invoice[w].terms = AgreedTermsOf(approval[approvalOf(w)])
      BY <2>1 DEF InvoiceSound, OrderSound, QuoteSound, QuotedApproval
    <2>3. \A row : AgreedTermsOf(row).inquiry = row.inquiry
      BY DEF AgreedTermsOf, TermsOf
    <2>4. QED
      BY <2>1, <2>2, <2>3 DEF InvoiceSound, OrderSound, QuoteSound
  <1>2. approvalOf(v) = approvalOf(u)
    BY <1>1 DEF ChainInvariant, OneApprovalPerInquiry
  <1>3. order[invoice[v].order].quote = order[invoice[u].order].quote
    BY <1>1, <1>2 DEF LinksUsedOnce, OneQuotePerApproval
  <1>4. invoice[v].order = invoice[u].order
    BY <1>1, <1>3 DEF LinksUsedOnce, OneOrderPerQuote
  <1>5. QED
    BY <1>4 DEF LinksUsedOnce, OneLiveInvoicePerOrder

LEMMA LinksHold == Spec => []LinksUsedOnce
  <1>1. TypeOK /\ LinksUsedOnce /\ [Next]_vars => LinksUsedOnce'
    BY NextOneQuote, NextOneOrder, NextOneInvoice DEF LinksUsedOnce
  <1>2. ChainInvariant => TypeOK
    BY DEF ChainInvariant
  <1>3. QED
    BY <1>1, <1>2, InitLinks, ChainCorrect, PTL DEF Spec

(* create_quote, create_order and create_invoice, retried in any order and *)
(* with any invoices voided in between, leave at most one invoice of an    *)
(* inquiry that is not void.                                               *)
THEOREM NeverBilledTwice == Spec => []BilledOnce
  BY LinksHold, LinksGiveBilledOnce, ChainCorrect, PTL
-----------------------------------------------------------------------------
(***************************************************************************)
(* The evidence: every document of an inquiry is generated with the terms  *)
(* of its one granted approval, so that the verdict of commercial_summary  *)
(* depends only on whether there is one, and on what a person typed into   *)
(* the invoice it comes across.                                            *)
(***************************************************************************)

(* What an audit should find of inquiry i: a document agreed in a.         *)
Carries(doc, a) == /\ doc.terms = AgreedTermsOf(approval[a])
                   /\ doc.hash = AgreedTermsOf(approval[a])
                   /\ doc.total = TotalOf(AgreedTermsOf(approval[a]))

LEMMA AgreedFields ==
    ASSUME NEW row
    PROVE  AgreedTermsOf(row).inquiry = row.inquiry /\ AgreedTermsOf(row).pct = row.approved
  BY DEF AgreedTermsOf, TermsOf

LEMMA QuotesTraced ==
    ASSUME ChainInvariant, NEW i \in Inquiries, NEW q \in QuotesOf(i)
    PROVE  quote[q].approval \in GrantedOf(i) /\ Carries(quote[q], quote[q].approval)
  <1>1. q \in Rows(quote) /\ quote[q].terms.inquiry = i /\ QuoteSound(q)
    BY DocumentsByRow DEF ChainInvariant, QuotesOf
  <1>2. Carries(quote[q], quote[q].approval)
    BY <1>1 DEF QuoteSound, QuotedApproval, Carries
  <1>3. approval[quote[q].approval].inquiry = i
    BY <1>1, <1>2, AgreedFields DEF Carries
  <1>4. QED
    BY <1>1, <1>2, <1>3 DEF QuoteSound, QuotedApproval, GrantedOf, ApprovalsOf

LEMMA OrdersTraced ==
    ASSUME ChainInvariant, NEW i \in Inquiries, NEW o \in OrdersOf(i)
    PROVE  /\ order[o].quote \in QuotesOf(i)
           /\ Carries(order[o], quote[order[o].quote].approval)
  <1>1. o \in Rows(order) /\ order[o].terms.inquiry = i /\ OrderSound(o)
    BY DocumentsByRow DEF ChainInvariant, OrdersOf
  <1>2. order[o].quote \in QuotesOf(i)
    BY <1>1 DEF OrderSound, QuotesOf
  <1>3. Carries(quote[order[o].quote], quote[order[o].quote].approval)
    BY <1>2, QuotesTraced
  <1>4. QED
    BY <1>1, <1>2, <1>3 DEF OrderSound, Carries

LEMMA InvoicesTraced ==
    ASSUME ChainInvariant, NEW i \in Inquiries, NEW v \in InvoicesOf(i)
    PROVE  /\ invoice[v].order \in OrdersOf(i)
           /\ Carries(invoice[v], quote[order[invoice[v].order].quote].approval)
  <1>1. v \in Rows(invoice) /\ invoice[v].terms.inquiry = i /\ InvoiceSound(v)
    BY DocumentsByRow DEF ChainInvariant, InvoicesOf
  <1>2. invoice[v].order \in OrdersOf(i)
    BY <1>1 DEF InvoiceSound, OrdersOf
  <1>3. Carries(order[invoice[v].order], quote[order[invoice[v].order].quote].approval)
    BY <1>2, OrdersTraced
  <1>4. QED
    BY <1>1, <1>2, <1>3 DEF InvoiceSound, Carries

(* What commercial_summary shows of an inquiry with a granted approval: the*)
(* agreement, and beside it the invoice as it stands.                      *)
LEMMA SummaryShows ==
    ASSUME ChainInvariant, NEW i \in Inquiries, NEW a \in GrantedOf(i), NEW bills
    PROVE  LET agreed == [pct |-> approval[a].approved, hash |-> AgreedTermsOf(approval[a])]
               T      == TotalOf(AgreedTermsOf(approval[a])) IN
           /\ Shown(i, bills) = {agreed} \union
                {[pct |-> invoice[v].billed.pct, hash |-> invoice[v].hash] : v \in bills}
           /\ Totals(i, bills) = {T : q \in QuotesOf(i)} \union {T : o \in OrdersOf(i)}
                 \union ({invoice[v].billed.total : v \in bills} \ {None})
  <1> DEFINE agreed == [pct |-> approval[a].approved, hash |-> AgreedTermsOf(approval[a])]
             T      == TotalOf(AgreedTermsOf(approval[a]))
  <1>1. \A b \in GrantedOf(i) : b = a
    BY DEF ChainInvariant, OneApprovalPerInquiry, GrantedOf, ApprovalsOf
  <1>2. approval[a].hash = AgreedTermsOf(approval[a])
    BY DEF ChainInvariant, HashesAgree, GrantedOf, ApprovalsOf
  <1>3. ASSUME NEW doc, Carries(doc, a)
        PROVE  [pct |-> doc.terms.pct, hash |-> doc.hash] = agreed /\ doc.total = T
    BY <1>3, AgreedFields DEF Carries
  <1>4. \A q \in QuotesOf(i) : Carries(quote[q], a)
    BY <1>1, QuotesTraced
  <1>5. \A o \in OrdersOf(i) : Carries(order[o], a)
    BY <1>1, QuotesTraced, OrdersTraced
  <1>6. /\ \A q \in QuotesOf(i) :
              [pct |-> quote[q].terms.pct, hash |-> quote[q].hash] = agreed /\ quote[q].total = T
        /\ \A o \in OrdersOf(i) :
              [pct |-> order[o].terms.pct, hash |-> order[o].hash] = agreed /\ order[o].total = T
    BY <1>3, <1>4, <1>5
  <1>7. {[pct |-> approval[b].approved, hash |-> approval[b].hash] : b \in GrantedOf(i)} = {agreed}
    BY <1>1, <1>2
  <1> HIDE DEF agreed, T
  <1>8. /\ {[pct |-> quote[q].terms.pct, hash |-> quote[q].hash] : q \in QuotesOf(i)}
              \subseteq {agreed}
        /\ {[pct |-> order[o].terms.pct, hash |-> order[o].hash] : o \in OrdersOf(i)}
              \subseteq {agreed}
        /\ {quote[q].total : q \in QuotesOf(i)} = {T : q \in QuotesOf(i)}
        /\ {order[o].total : o \in OrdersOf(i)} = {T : o \in OrdersOf(i)}
    BY <1>6
  <1>9. /\ Shown(i, bills) = {agreed} \union
             {[pct |-> invoice[v].billed.pct, hash |-> invoice[v].hash] : v \in bills}
        /\ Totals(i, bills) = {T : q \in QuotesOf(i)} \union {T : o \in OrdersOf(i)}
              \union ({invoice[v].billed.total : v \in bills} \ {None})
    BY <1>7, <1>8 DEF Shown, Totals
  <1>10. QED
    BY <1>9 DEF agreed, T

(* Something was granted wherever there is a document.                     *)
LEMMA GrantedBefore ==
    ASSUME ChainInvariant, NEW i \in Inquiries, GrantedOf(i) = {}
    PROVE  QuotesOf(i) = {} /\ OrdersOf(i) = {} /\ InvoicesOf(i) = {}
  BY QuotesTraced, OrdersTraced, InvoicesTraced

(* The verdict before there is an invoice.                                 *)
LEMMA VerdictOnDocuments ==
    ASSUME ChainInvariant, NEW i \in Inquiries
    PROVE  Consistent(i, {}) <=> GrantedOf(i) # {}
  <1>1. ASSUME GrantedOf(i) = {} PROVE ~Consistent(i, {})
    BY <1>1, GrantedBefore DEF Consistent, Shown
  <1>2. ASSUME NEW a \in GrantedOf(i) PROVE Consistent(i, {})
    <2> DEFINE agreed == [pct |-> approval[a].approved, hash |-> AgreedTermsOf(approval[a])]
               T      == TotalOf(AgreedTermsOf(approval[a]))
    <2>1. Shown(i, {}) = {agreed} \union
             {[pct |-> invoice[v].billed.pct, hash |-> invoice[v].hash] : v \in {}}
      BY SummaryShows
    <2>2. Totals(i, {}) = {T : q \in QuotesOf(i)} \union {T : o \in OrdersOf(i)}
             \union ({invoice[v].billed.total : v \in {}} \ {None})
      BY SummaryShows
    <2> HIDE DEF agreed, T
    <2>3. Shown(i, {}) = {agreed} /\ \A t \in Totals(i, {}) : t = T
      BY <2>1, <2>2
    <2>4. QED
      BY <2>3 DEF Consistent
  <1>3. QED
    BY <1>1, <1>2

(* The verdict on an invoice: a match until somebody changes its figures.  *)
LEMMA VerdictOnInvoice ==
    ASSUME ChainInvariant, NEW i \in Inquiries, NEW v \in InvoicesOf(i)
    PROVE  Consistent(i, {v}) <=> \E a \in GrantedOf(i) : BillsTheDeal(v, approval[a])
  <1>1. PICK a \in GrantedOf(i) : Carries(invoice[v], a) /\ QuotesOf(i) # {}
    BY QuotesTraced, OrdersTraced, InvoicesTraced
  <1>2. \A b \in GrantedOf(i) : b = a
    BY <1>1 DEF ChainInvariant, OneApprovalPerInquiry, GrantedOf, ApprovalsOf
  <1> DEFINE pct    == approval[a].approved
             hash   == AgreedTermsOf(approval[a])
             T      == TotalOf(AgreedTermsOf(approval[a]))
             billed == invoice[v].billed
  <1>3. /\ Shown(i, {v}) = {[pct |-> pct, hash |-> hash], [pct |-> billed.pct, hash |-> hash]}
        /\ Totals(i, {v}) = {T} \union ({billed.total} \ {None})
    <2>1. invoice[v].hash = hash
      BY <1>1 DEF Carries
    <2>2. Shown(i, {v}) = {[pct |-> pct, hash |-> hash]} \union
             {[pct |-> invoice[u].billed.pct, hash |-> invoice[u].hash] : u \in {v}}
      BY <1>1, SummaryShows
    <2>3. Totals(i, {v}) = {T : q \in QuotesOf(i)} \union {T : o \in OrdersOf(i)}
             \union ({invoice[u].billed.total : u \in {v}} \ {None})
      BY <1>1, SummaryShows
    <2> HIDE DEF T, pct, hash
    <2>4. {T : q \in QuotesOf(i)} \union {T : o \in OrdersOf(i)} = {T}
      BY <1>1
    <2>5. QED
      BY <2>1, <2>2, <2>3, <2>4
  <1>4. BillsTheDeal(v, approval[a]) <=> billed.pct = pct /\ billed.total \in {T, None}
    BY DEF BillsTheDeal
  <1> HIDE DEF pct, hash, T, billed
  <1>5. (\A d, e \in Shown(i, {v}) : d = e) <=> billed.pct = pct
    <2> DEFINE agreed == [pct |-> pct, hash |-> hash]
               found  == [pct |-> billed.pct, hash |-> hash]
    <2>1. found = agreed <=> billed.pct = pct
      OBVIOUS
    <2>2. Shown(i, {v}) = {agreed, found}
      BY <1>3
    <2> HIDE DEF agreed, found
    <2>3. (\A d, e \in Shown(i, {v}) : d = e) <=> found = agreed
      BY <2>2
    <2>4. QED
      BY <2>1, <2>3
  <1>6. (\A s, t \in Totals(i, {v}) : s = t) <=> billed.total \in {T, None}
    BY <1>3
  <1>7. Consistent(i, {v}) <=> billed.pct = pct /\ billed.total \in {T, None}
    BY <1>1, <1>3, <1>5, <1>6 DEF Consistent
  <1>8. QED
    BY <1>1, <1>2, <1>4, <1>7

(* The verdict of commercial_summary is a match exactly when something was *)
(* granted and the invoice it comes across, if any, was not given other    *)
(* figures; and it never fails on two approvals, quotes or orders of an    *)
(* inquiry, for there is one of each at most.                              *)
THEOREM EvidenceIsConsistent == Spec => []EvidenceHolds
  <1>1. ASSUME ChainInvariant, LinksUsedOnce PROVE EvidenceHolds
    <2>1. ASSUME NEW i \in Inquiries
          PROVE  /\ \A a, b \in GrantedOf(i) : a = b
                 /\ \A p, q \in QuotesOf(i) : p = q
                 /\ \A n, o \in OrdersOf(i) : n = o
      <3>1. \A a, b \in GrantedOf(i) : a = b
        BY <1>1 DEF ChainInvariant, OneApprovalPerInquiry, GrantedOf, ApprovalsOf
      <3>2. \A p, q \in QuotesOf(i) : p = q
        BY <1>1, <3>1, QuotesTraced DEF LinksUsedOnce, OneQuotePerApproval, QuotesOf
      <3>3. \A n, o \in OrdersOf(i) : n = o
        BY <1>1, <3>2, OrdersTraced DEF LinksUsedOnce, OneOrderPerQuote, OrdersOf
      <3>4. QED
        BY <3>1, <3>2, <3>3
    <2>2. QED
      BY <1>1, <2>1, VerdictOnDocuments, VerdictOnInvoice DEF EvidenceHolds
  <1>2. QED
    BY <1>1, ChainCorrect, LinksHold, PTL
-----------------------------------------------------------------------------
(***************************************************************************)
(* The status of an inquiry, which four services write, against its rows.  *)
(* The property fails when a call of extract can outlive the stale limit,  *)
(* because its last transaction does not look at the status: the theorems  *)
(* of this section assume ~SlowWorkers.                                    *)
(***************************************************************************)

AfterQuote == {"quoted", "ordered", "invoiced"}
AfterOrder == {"ordered", "invoiced"}
AfterGrant == {"approved"} \union AfterQuote

(* The statuses that an inquiry can have while its approval has status st. *)
Shows(st) == IF st = "pending" THEN {"awaiting_approval"}
             ELSE IF st = "rejected" THEN {"rejected"}
             ELSE IF st = "expired" THEN Statuses \ FINAL_INQUIRY_STATUSES
             ELSE AfterGrant

DecisionShown ==
    /\ \A a \in Rows(approval) : status[approval[a].inquiry] \in Shows(approval[a].status)
    /\ \A i \in Inquiries : status[i] \in FINAL_INQUIRY_STATUSES => ApprovalsOf(i) # {}

DocumentsShown ==
    /\ \A q \in Rows(quote)   : status[quote[q].terms.inquiry] \in AfterQuote
    /\ \A o \in Rows(order)   : status[order[o].terms.inquiry] \in AfterOrder
    /\ \A v \in Rows(invoice) : status[invoice[v].terms.inquiry] = "invoiced"
    /\ \A i \in Inquiries : /\ status[i] \in AfterQuote => QuotesOf(i) # {}
                            /\ status[i] \in AfterOrder => OrdersOf(i) # {}
                            /\ status[i] = "invoiced"    => InvoicesOf(i) # {}

(* A running call of extract is the only one of its inquiry, and the       *)
(* inquiry waits for it.                                                   *)
WorkersCurrent ==
    /\ \A w \in Rows(worker) : /\ status[worker[w].inquiry] = "extracting"
                               /\ fresh[worker[w].inquiry]
    /\ \A w, x \in Rows(worker) : worker[w].inquiry = worker[x].inquiry => w = x

(* An approval times out once: no approval has its exception beforehand.   *)
TimeoutsExpired == \A a \in timeouts : a \in Rows(approval) /\ approval[a].status = "expired"

StatusInvariant == DecisionShown /\ DocumentsShown /\ WorkersCurrent /\ TimeoutsExpired

LEMMA InitStatus == Init => StatusInvariant
  BY DEF Init, StatusInvariant, DecisionShown, DocumentsShown, WorkersCurrent,
         TimeoutsExpired, Rows, FINAL_INQUIRY_STATUSES, AfterQuote, AfterOrder

(* In which status each kind of step finds its inquiry.                    *)
LEMMA ExtractionFinds ==
    ASSUME TypeOK, StatusInvariant, NEW w \in Workers, worker[w] # None
    PROVE  /\ worker[w].inquiry \in Inquiries
           /\ status[worker[w].inquiry] = "extracting"
           /\ \A x \in Rows(worker) : worker[x].inquiry = worker[w].inquiry => x = w
  BY DEF TypeOK, Table, Extraction, Rows, StatusInvariant, WorkersCurrent

LEMMA DecisionFinds ==
    ASSUME TypeOK, StatusInvariant, NEW a \in Pending
    PROVE  /\ approval[a].inquiry \in Inquiries
           /\ status[approval[a].inquiry] = "awaiting_approval"
  BY DEF TypeOK, Table, Rows, ApprovalRow, Pending, StatusInvariant, DecisionShown, Shows

LEMMA QuoteFinds ==
    ASSUME ChainInvariant, StatusInvariant, NEW i \in Inquiries, CreateQuote(i)
    PROVE  status[i] = "approved"
  <1>1. PICK a \in Rows(approval) :
           /\ approval[a].inquiry = i /\ Granted(approval[a])
           /\ \A p \in Rows(quote) : quote[p].approval # a
    BY DEF CreateQuote
  <1>2. status[i] \in AfterGrant
    BY <1>1 DEF StatusInvariant, DecisionShown, Shows, Granted
  <1>3. QuotesOf(i) = {}
    <2>1. \A q \in QuotesOf(i) : quote[q].approval \in GrantedOf(i) /\ q \in Rows(quote)
      BY QuotesTraced DEF QuotesOf
    <2>2. \A b \in GrantedOf(i) : b = a
      BY <1>1 DEF ChainInvariant, OneApprovalPerInquiry, GrantedOf, ApprovalsOf
    <2>3. QED
      BY <1>1, <2>1, <2>2
  <1>4. QED
    BY <1>2, <1>3 DEF StatusInvariant, DocumentsShown, AfterGrant

LEMMA OrderFinds ==
    ASSUME ChainInvariant, LinksUsedOnce, StatusInvariant, NEW q \in Quotes, CreateOrder(q)
    PROVE  QuoteInquiry(q) \in Inquiries /\ status[QuoteInquiry(q)] = "quoted"
  <1> DEFINE i == QuoteInquiry(q)
  <1>1. /\ q \in QuotesOf(i) /\ q \in Rows(quote)
        /\ \A o \in Rows(order) : order[o].quote # q
    BY DEF CreateOrder, Orderable, QuotesOf, QuoteInquiry
  <1>2. i \in Inquiries
    BY <1>1, TermsFields DEF ChainInvariant, TypeOK, Table, Rows, QuoteRow, QuoteInquiry
  <1>3. status[i] \in AfterQuote
    BY <1>1 DEF StatusInvariant, DocumentsShown, QuoteInquiry
  <1>4. OrdersOf(i) = {}
    <2>1. \A o \in OrdersOf(i) : o \in Rows(order) /\ order[o].quote \in QuotesOf(i)
      BY <1>2, OrdersTraced DEF OrdersOf
    <2>2. \A p \in QuotesOf(i) : p = q
      <3>1. \A p \in QuotesOf(i) : p \in Rows(quote) /\ quote[p].approval \in GrantedOf(i)
        BY <1>2, QuotesTraced DEF QuotesOf
      <3>2. \A a, b \in GrantedOf(i) : a = b
        BY DEF ChainInvariant, OneApprovalPerInquiry, GrantedOf, ApprovalsOf
      <3>3. QED
        BY <1>1, <3>1, <3>2 DEF LinksUsedOnce, OneQuotePerApproval
    <2>3. QED
      BY <1>1, <2>1, <2>2
  <1>5. QED
    BY <1>2, <1>3, <1>4 DEF StatusInvariant, DocumentsShown, AfterQuote, AfterOrder

LEMMA InvoiceFinds ==
    ASSUME TypeOK, StatusInvariant, NEW o \in Orders, CreateInvoice(o)
    PROVE  order[o].terms.inquiry \in Inquiries /\ status[order[o].terms.inquiry] \in AfterOrder
  <1>1. o \in Rows(order) /\ order[o] \in OrderRow
    BY DEF CreateInvoice, Billable, TypeOK, Table, Rows
  <1>2. QED
    BY <1>1, TermsFields DEF OrderRow, StatusInvariant, DocumentsShown

(* The steps of inquiries.status: the state diagram that the services      *)
(* draw together.                                                          *)
Diagram ==
    {<<"absent", "received">>, <<"received", "extracting">>,
     <<"extracting", "extracted">>, <<"extracting", "needs_review">>,
     <<"needs_review", "extracting">>,
     <<"extracted", "approved">>, <<"extracted", "awaiting_approval">>,
     <<"extracted", "rejected">>, <<"extracted", "needs_review">>,
     <<"awaiting_approval", "approved">>, <<"awaiting_approval", "rejected">>,
     <<"awaiting_approval", "needs_review">>,
     <<"approved", "quoted">>, <<"quoted", "ordered">>, <<"ordered", "invoiced">>}

(* Some have a condition: extraction takes an inquiry from a person only   *)
(* after failures of the system, an approval goes back to one only when it *)
(* times out, and the last three come with a document.                     *)
Moves(i) ==
    \/ status'[i] = status[i] /\ review[i] \subseteq review'[i]
    \/ status'[i] = status[i] /\ status[i] # "needs_review"
    \/ /\ <<status[i], status'[i]>> \in Diagram
       /\ status[i] = "needs_review" => review[i] \subseteq RETRYABLE_EXCEPTIONS
       /\ status[i] = "awaiting_approval" /\ status'[i] = "needs_review" =>
             timeouts' # timeouts
       /\ status'[i] \in AfterQuote => documents' # documents

LEMMA ExpireMoves ==
    ASSUME TypeOK, StatusInvariant, NEW S \in SUBSET Pending, S # {}, Expire(S),
           NEW i \in Inquiries
    PROVE  Moves(i)
  <1>1. \A a \in S : a \in Rows(approval) /\ approval[a].status = "pending"
    BY DEF Pending
  <1>2. timeouts' # timeouts
    BY <1>1 DEF Expire, StatusInvariant, TimeoutsExpired
  <1>3. CASE \E a \in S : approval[a].inquiry = i
    <2>1. status[i] = "awaiting_approval" /\ status'[i] = "needs_review"
      BY <1>3, DecisionFinds DEF Expire
    <2>2. QED
      BY <1>2, <2>1 DEF Moves, Diagram, AfterQuote
  <1>4. CASE ~\E a \in S : approval[a].inquiry = i
    BY <1>4 DEF Expire, Moves
  <1>5. QED
    BY <1>3, <1>4

LEMMA NextMoves ==
    ASSUME ChainInvariant, LinksUsedOnce, StatusInvariant, [Next]_vars, ~SlowWorkers,
           NEW i \in Inquiries
    PROVE  Moves(i)
  <1> USE DEF Moves, AfterQuote
  <1>0. TypeOK
    BY DEF ChainInvariant
  <1> DEFINE Stays == status'[i] = status[i] /\ review[i] \subseteq review'[i]
  <1>1. ASSUME NEW j \in Inquiries, CreateInquiry(j) PROVE Moves(i)
    BY <1>0, <1>1 DEF CreateInquiry, Diagram, TypeOK
  <1>2. ASSUME NEW w \in Workers, NEW j \in Inquiries, StartExtraction(w, j) PROVE Moves(i)
    BY <1>0, <1>2 DEF StartExtraction, MayExtract, Diagram, TypeOK
  <1>3. ASSUME NEW w \in Workers, NEW kind, NEW r, LlmFails(w, kind, r) PROVE Moves(i)
    BY <1>3 DEF LlmFails, intake
  <1>4. ASSUME NEW w \in Workers, NEW p, NEW offer, worker[w] # None, WriteResult(w, p, offer)
        PROVE  Moves(i)
    BY <1>0, <1>4, ExtractionFinds DEF WriteResult, Diagram, TypeOK
  <1>5. ASSUME NEW w \in Workers, ExtractionCrashes(w) PROVE Moves(i)
    BY <1>5 DEF ExtractionCrashes, intake
  <1>6. ASSUME NEW j \in Inquiries, ExtractionGoesStale(j) \/ ReportWorkflowFailure(j)
        PROVE  Moves(i)
    BY <1>0, <1>6 DEF ExtractionGoesStale, ReportWorkflowFailure, TypeOK
  <1>7. ASSUME NEW j \in Inquiries, RunRules(j) PROVE Moves(i)
    <2>1. status[j] = "extracted"
      BY <1>7 DEF RunRules, MayDecide
    <2>2. PICK outcome : status' = [status EXCEPT ![j] = StatusAfterRuling(outcome)]
      BY <1>7 DEF RunRules
    <2>3. i # j => UNCHANGED review[i]
      BY <1>0, <1>7 DEF RunRules, TypeOK
    <2>4. QED
      BY <1>0, <2>1, <2>2, <2>3 DEF StatusAfterRuling, Diagram, TypeOK
  <1>8. ASSUME NEW a \in Approvals, NEW pct, Grant(a, pct) PROVE Moves(i)
    <2>1. a \in Pending
      BY <1>0, <1>8 DEF Grant, Decidable, Pending, Rows, TypeOK, Table
    <2>2. QED
      BY <1>0, <1>8, <2>1, DecisionFinds DEF Grant, Diagram, TypeOK
  <1>9. ASSUME NEW a \in Approvals, Reject(a) PROVE Moves(i)
    <2>1. a \in Pending
      BY <1>0, <1>9 DEF Reject, Decidable, Pending, Rows, TypeOK, Table
    <2>2. QED
      BY <1>0, <1>9, <2>1, DecisionFinds DEF Reject, Diagram, TypeOK
  <1>10. ASSUME NEW a \in Approvals, DecideTooLate(a) PROVE Moves(i)
    <2>1. {a} \in SUBSET Pending /\ {a} # {}
      BY <1>0, <1>10 DEF DecideTooLate, Pending, Rows, TypeOK, Table
    <2>2. QED
      BY <1>0, <1>10, <2>1, ExpireMoves DEF DecideTooLate
  <1>11. ASSUME ExpireDue PROVE Moves(i)
    BY <1>0, <1>11, ExpireMoves DEF ExpireDue, Due
  <1>12. ASSUME NEW a \in Approvals, DeadlinePasses(a) PROVE Moves(i)
    BY <1>12 DEF DeadlinePasses, intake
  <1>13. ASSUME NEW j \in Inquiries, CreateQuote(j) PROVE Moves(i)
    <2>1. PICK a \in Rows(approval), q \in Quotes \ Rows(quote) :
             Granted(approval[a]) /\ quote' = [quote EXCEPT ![q] = NewQuote(a)]
      BY <1>13 DEF CreateQuote
    <2>2. quote'[q] = NewQuote(a) /\ quote[q] = None
      BY <1>0, <2>1 DEF TypeOK, Table, Rows
    <2>3. documents' # documents
      BY <1>0, <2>1, <2>2, NewQuoteType, NoneAssumption DEF documents
    <2>4. QED
      BY <1>0, <1>13, <2>3, QuoteFinds DEF CreateQuote, Diagram, TypeOK
  <1>14. ASSUME NEW q \in Quotes, CreateOrder(q) PROVE Moves(i)
    <2>1. PICK o \in Orders \ Rows(order) : order' = [order EXCEPT ![o] = NewOrder(q)]
      BY <1>14 DEF CreateOrder
    <2>2. order'[o] = NewOrder(q) /\ order[o] = None
      BY <1>0, <2>1 DEF TypeOK, Table, Rows
    <2>3. NewOrder(q) \in OrderRow
      <3>1. quote[q] \in QuoteRow
        BY <1>0, <1>14 DEF CreateOrder, Orderable, Rows, TypeOK, Table
      <3>2. QED
        BY <3>1 DEF NewOrder, OrderRow, QuoteRow
    <2>4. documents' # documents
      BY <2>2, <2>3, NoneAssumption DEF documents
    <2>5. QED
      BY <1>0, <1>14, <2>4, OrderFinds DEF CreateOrder, Diagram, TypeOK
  <1>15. ASSUME NEW q \in Quotes, OrderTooLate(q) \/ QuoteLapses(q) PROVE Moves(i)
    BY <1>15 DEF OrderTooLate, QuoteLapses, intake
  <1>16. ASSUME NEW o \in Orders, CreateInvoice(o) PROVE Moves(i)
    <2>1. PICK v \in Invoices \ Rows(invoice) :
             invoice' = [invoice EXCEPT ![v] = NewInvoice(o)]
      BY <1>16 DEF CreateInvoice
    <2>2. invoice'[v] = NewInvoice(o) /\ invoice[v] = None
      BY <1>0, <2>1 DEF TypeOK, Table, Rows
    <2>3. NewInvoice(o) \in InvoiceRow
      <3>1. order[o] \in OrderRow
        BY <1>0, <1>16 DEF CreateInvoice, Billable, Rows, TypeOK, Table
      <3>2. QED
        BY <3>1, NewInvoiceType
    <2>4. documents' # documents
      BY <2>2, <2>3, NoneAssumption DEF documents
    <2>5. QED
      BY <1>0, <1>16, <2>4, InvoiceFinds DEF CreateInvoice, AfterOrder, Diagram, TypeOK
  <1>17. ASSUME NEW v \in Invoices, InvoiceChanged(v) PROVE Moves(i)
    BY <1>0, <1>17, InvoiceChange
  <1>18. CASE UNCHANGED vars
    BY <1>18 DEF vars
  <1>19. QED
    BY <1>1, <1>2, <1>3, <1>4, <1>5, <1>6, <1>7, <1>8, <1>9, <1>10, <1>11, <1>12, <1>13,
       <1>14, <1>15, <1>16, <1>17, <1>18
       DEF Next, InvoiceChanged, ExtractionSucceeds, ExtractionGivesUp, Approve, Modify

(* What keeps DecisionShown: a status that moves while its approval stays, *)
(* and a row that is written together with the status it stands for.       *)
Within(i, group) == status[i] \in group /\ status'[i] \in group

LEMMA DecisionKept ==
    ASSUME TypeOK, DecisionShown, UNCHANGED approval,
           \A i \in Inquiries : \/ status'[i] = status[i]
                                \/ Within(i, Statuses \ FINAL_INQUIRY_STATUSES)
                                \/ Within(i, AfterGrant)
    PROVE  DecisionShown'
  <1>1. ASSUME NEW a \in Rows(approval')
        PROVE  status'[approval'[a].inquiry] \in Shows(approval'[a].status)
    <2>1. /\ a \in Rows(approval) /\ approval[a].inquiry \in Inquiries
          /\ approval[a].status \in {"pending", "approved", "modified", "rejected", "expired"}
          /\ approval'[a] = approval[a]
      BY <1>1 DEF TypeOK, Table, Rows, ApprovalRow
    <2>2. status[approval[a].inquiry] \in Shows(approval[a].status)
      BY <2>1 DEF DecisionShown
    <2>3. QED
      BY <2>1, <2>2 DEF Within, Shows, AfterGrant, AfterQuote, FINAL_INQUIRY_STATUSES
  <1>2. ASSUME NEW i \in Inquiries, status'[i] \in FINAL_INQUIRY_STATUSES
        PROVE  ApprovalsOf(i)' # {}
    <2>1. status[i] \in FINAL_INQUIRY_STATUSES
      BY <1>2 DEF Within, AfterGrant, AfterQuote, FINAL_INQUIRY_STATUSES
    <2>2. QED
      BY <2>1 DEF DecisionShown, ApprovalsOf, Rows
  <1>3. QED
    BY <1>1, <1>2 DEF DecisionShown

LEMMA DecisionWritten ==
    ASSUME TypeOK, DecisionShown, OneApprovalPerInquiry',
           NEW a \in Rows(approval'), NEW i \in Inquiries,
           approval'[a].inquiry = i, status'[i] \in Shows(approval'[a].status),
           DOMAIN approval' = DOMAIN approval,
           \A b \in DOMAIN approval \ {a} : approval'[b] = approval[b],
           a \in Rows(approval) => approval[a].inquiry = i,
           \A j \in Inquiries \ {i} : status'[j] = status[j]
    PROVE  DecisionShown'
  <1>1. ASSUME NEW b \in Rows(approval'), b # a
        PROVE  /\ b \in Rows(approval) /\ approval'[b] = approval[b]
               /\ approval[b].inquiry # i
    BY <1>1 DEF Rows, OneApprovalPerInquiry
  <1>2. \A j \in Inquiries \ {i} : ApprovalsOf(j) # {} => ApprovalsOf(j)' # {}
    BY DEF ApprovalsOf, Rows
  <1>3. a \in ApprovalsOf(i)'
    BY DEF ApprovalsOf
  <1>4. ASSUME NEW b \in Rows(approval')
        PROVE  status'[approval'[b].inquiry] \in Shows(approval'[b].status)
    <2>1. CASE b = a
      BY <2>1
    <2>2. CASE b # a
      <3>1. approval[b].inquiry \in Inquiries
        BY <1>1, <2>2 DEF TypeOK, Table, Rows, ApprovalRow
      <3>2. QED
        BY <1>1, <2>2, <3>1 DEF DecisionShown
    <2>3. QED
      BY <2>1, <2>2
  <1>5. QED
    BY <1>2, <1>3, <1>4 DEF DecisionShown

LEMMA ExpireShown ==
    ASSUME TypeOK, OneApprovalPerInquiry, DecisionShown, NEW S \in SUBSET Pending, Expire(S)
    PROVE  DecisionShown'
  <1>1. \A a \in S : a \in Rows(approval) /\ a \in Approvals
    BY DEF Pending, Rows, TypeOK, Table
  <1>2. ASSUME NEW a \in Rows(approval')
        PROVE  /\ a \in Rows(approval) /\ approval'[a].inquiry = approval[a].inquiry
               /\ approval'[a].status = IF a \in S THEN "expired" ELSE approval[a].status
    <2>1. a \in Approvals /\ approval[a] # None
      BY <1>1 DEF Expire, Rows, TypeOK, Table
    <2>2. approval[a] \in ApprovalRow /\ a \in Rows(approval)
      BY <2>1 DEF TypeOK, Table, Rows
    <2>3. QED
      BY <2>1, <2>2 DEF Expire, ApprovalRow
  <1>3. ASSUME NEW a \in Rows(approval')
        PROVE  status'[approval'[a].inquiry] \in Shows(approval'[a].status)
    <2>1. approval[a].inquiry \in Inquiries
      BY <1>2 DEF TypeOK, Table, Rows, ApprovalRow
    <2>2. CASE a \in S
      <3>1. "needs_review" \in Shows("expired")
        BY DEF Shows, Statuses, FINAL_INQUIRY_STATUSES
      <3>2. status'[approval[a].inquiry] = "needs_review"
        BY <2>1, <2>2 DEF Expire
      <3>3. QED
        BY <1>2, <2>2, <3>1, <3>2
    <2>3. CASE a \notin S
      <3>1. \A b \in S : approval[b].inquiry # approval[a].inquiry
        BY <1>1, <1>2, <2>3 DEF OneApprovalPerInquiry
      <3>2. QED
        BY <1>2, <2>1, <2>3, <3>1 DEF Expire, DecisionShown
    <2>4. QED
      BY <2>2, <2>3
  <1>4. ASSUME NEW i \in Inquiries, status'[i] \in FINAL_INQUIRY_STATUSES
        PROVE  ApprovalsOf(i)' # {}
    <2>1. status[i] \in FINAL_INQUIRY_STATUSES
      BY <1>4 DEF Expire, FINAL_INQUIRY_STATUSES
    <2>2. PICK a \in Rows(approval) : approval[a].inquiry = i
      BY <2>1 DEF DecisionShown, ApprovalsOf
    <2>3. a \in Approvals /\ approval[a] \in ApprovalRow
      BY DEF TypeOK, Table, Rows
    <2>4. approval'[a] \in ApprovalRow /\ approval'[a].inquiry = i /\ a \in DOMAIN approval'
      BY <2>2, <2>3 DEF Expire, ApprovalRow
    <2>5. a \in Rows(approval')
      BY <2>4, NoneAssumption DEF Rows
    <2>6. QED
      BY <2>4, <2>5 DEF ApprovalsOf
  <1>5. QED
    BY <1>3, <1>4 DEF DecisionShown

LEMMA NextDecision ==
    ASSUME ChainInvariant, ChainInvariant', LinksUsedOnce, StatusInvariant, [Next]_vars
    PROVE  DecisionShown'
  <1>0. /\ TypeOK /\ TypeOK' /\ OfferRead /\ DecisionShown
        /\ OneApprovalPerInquiry /\ OneApprovalPerInquiry'
    BY DEF ChainInvariant, StatusInvariant
  <1>1. ASSUME UNCHANGED <<approval, status>> PROVE DecisionShown'
    BY <1>0, <1>1, DecisionKept
  <1>2. ASSUME NEW i \in Inquiries, UNCHANGED approval, NEW st,
               status' = [status EXCEPT ![i] = st],
               \/ Within(i, Statuses \ FINAL_INQUIRY_STATUSES)
               \/ Within(i, AfterGrant)
        PROVE  DecisionShown'
    <2>1. \A j \in Inquiries \ {i} : status'[j] = status[j]
      BY <1>0, <1>2 DEF TypeOK
    <2>2. QED
      BY <1>0, <1>2, <2>1, DecisionKept
  <1>3. ASSUME NEW i \in Inquiries,
               CreateInquiry(i) \/ \E w \in Workers : StartExtraction(w, i)
        PROVE  DecisionShown'
    <2>1. \E st \in {"received", "extracting"} :
             UNCHANGED approval /\ status' = [status EXCEPT ![i] = st]
      BY <1>3 DEF CreateInquiry, StartExtraction
    <2>2. status[i] \in {"absent", "received", "extracting", "needs_review"}
      BY <1>3 DEF CreateInquiry, StartExtraction, MayExtract
    <2>3. Within(i, Statuses \ FINAL_INQUIRY_STATUSES)
      BY <1>0, <2>1, <2>2 DEF Within, TypeOK, Statuses, FINAL_INQUIRY_STATUSES
    <2>4. QED
      BY <1>2, <2>1, <2>3
  <1>4. ASSUME NEW w \in Workers, NEW p, NEW offer, worker[w] # None, WriteResult(w, p, offer)
        PROVE  DecisionShown'
    <2> DEFINE i == worker[w].inquiry
    <2>1. \E st \in {"extracted", "needs_review"} :
             UNCHANGED approval /\ status' = [status EXCEPT ![i] = st]
      BY <1>4 DEF WriteResult
    <2>2. i \in Inquiries /\ status[i] = "extracting"
      BY <1>0, <1>4, ExtractionFinds
    <2>3. Within(i, Statuses \ FINAL_INQUIRY_STATUSES)
      BY <1>0, <2>1, <2>2 DEF Within, TypeOK, Statuses, FINAL_INQUIRY_STATUSES
    <2>4. QED
      BY <1>2, <2>1, <2>2, <2>3
  <1>5. ASSUME NEW i \in Inquiries, RunRules(i) PROVE DecisionShown'
    <2> DEFINE outcome == Decide(TRUE, extracted[i].quantity, extracted[i].pct,
                                 OfferTotal(extracted[i]))
    <2>1. outcome \in Outcomes
      BY DecideType
    <2> HIDE DEF outcome
    <2>2. /\ status[i] = "extracted"
          /\ status' = [status EXCEPT ![i] = StatusAfterRuling(outcome)]
          /\ \/ outcome = "human_review" /\ UNCHANGED approval
             \/ /\ outcome # "human_review"
                /\ \E a \in Approvals \ Rows(approval) :
                      approval' = [approval EXCEPT ![a] = NewApproval(i, outcome)]
      BY <1>5 DEF RunRules, MayDecide, outcome
    <2>3. CASE outcome = "human_review" /\ UNCHANGED approval
      <3>1. StatusAfterRuling(outcome) = "needs_review"
        BY <2>3 DEF StatusAfterRuling
      <3>2. Within(i, Statuses \ FINAL_INQUIRY_STATUSES)
        BY <1>0, <2>2, <3>1 DEF Within, TypeOK, Statuses, FINAL_INQUIRY_STATUSES
      <3>3. QED
        BY <1>2, <2>2, <2>3, <3>2
    <2>4. ASSUME outcome # "human_review", NEW a \in Approvals \ Rows(approval),
                 approval' = [approval EXCEPT ![a] = NewApproval(i, outcome)]
          PROVE  DecisionShown'
      <3>1. extracted[i] \in Offers
        BY <1>0, <2>2 DEF OfferRead, TypeOK
      <3>2. NewApproval(i, outcome) # None
        BY <1>0, <2>1, <2>4, <3>1, NewApprovalType, NoneAssumption
      <3>3. /\ DOMAIN approval = Approvals /\ DOMAIN approval' = Approvals
            /\ approval'[a] = NewApproval(i, outcome)
            /\ \A b \in Approvals \ {a} : approval'[b] = approval[b]
        BY <1>0, <2>4 DEF TypeOK, Table
      <3>4. a \in Rows(approval')
        BY <3>2, <3>3 DEF Rows
      <3>5. approval'[a].inquiry = i /\ StatusAfterRuling(outcome) \in Shows(approval'[a].status)
        BY <2>4, <3>3 DEF NewApproval, Shows, StatusAfterRuling, AfterGrant
      <3>6. /\ status'[i] = StatusAfterRuling(outcome)
            /\ \A j \in Inquiries \ {i} : status'[j] = status[j]
        BY <1>0, <2>2 DEF TypeOK
      <3>7. QED
        BY <1>0, <3>3, <3>4, <3>5, <3>6, DecisionWritten
    <2>5. QED
      BY <2>2, <2>3, <2>4
  <1>6. ASSUME NEW a \in Pending, NEW new \in ApprovalRow,
               new.inquiry = approval[a].inquiry,
               approval' = [approval EXCEPT ![a] = new],
               NEW st \in Shows(new.status),
               status' = [status EXCEPT ![approval[a].inquiry] = st]
        PROVE  DecisionShown'
    <2>1. a \in Rows(approval) /\ approval[a].inquiry \in Inquiries
      BY <1>0, DecisionFinds DEF Pending
    <2>2. /\ DOMAIN approval = Approvals /\ DOMAIN approval' = Approvals /\ a \in Approvals
          /\ approval'[a] = new
          /\ \A b \in Approvals \ {a} : approval'[b] = approval[b]
      BY <1>0, <1>6, <2>1 DEF TypeOK, Table, Rows
    <2>3. a \in Rows(approval')
      BY <2>2, NoneAssumption DEF Rows
    <2>4. /\ status'[approval[a].inquiry] = st
          /\ \A j \in Inquiries \ {approval[a].inquiry} : status'[j] = status[j]
      BY <1>0, <1>6, <2>1 DEF TypeOK
    <2>5. approval'[a].inquiry = approval[a].inquiry /\ approval'[a].status = new.status
      BY <1>6, <2>2
    <2>6. QED
      BY <1>0, <2>1, <2>2, <2>3, <2>4, <2>5, DecisionWritten
  <1>7. ASSUME NEW a \in Approvals, NEW pct \in Discounts, Grant(a, pct) PROVE DecisionShown'
    <2>1. approval[a] \in ApprovalRow /\ a \in Pending
      BY <1>0, <1>7 DEF Grant, Decidable, Pending, Rows, TypeOK, Table
    <2>2. /\ GrantedRow(approval[a], pct) \in ApprovalRow
          /\ GrantedRow(approval[a], pct).inquiry = approval[a].inquiry
          /\ GrantedRow(approval[a], pct).status \in {"approved", "modified"}
      BY <2>1, GrantedRowType DEF GrantedRow, ApprovalRow
    <2>3. "approved" \in Shows(GrantedRow(approval[a], pct).status)
      BY <2>2 DEF Shows, AfterGrant
    <2>4. QED
      BY <1>6, <1>7, <2>1, <2>2, <2>3 DEF Grant, UpdateApproval
  <1>8. ASSUME NEW a \in Approvals, Approve(a) PROVE DecisionShown'
    <2>1. approval[a].offer.pct \in Discounts
      BY <1>0, <1>8, OfferFields DEF Approve, Decidable, TypeOK, Table, ApprovalRow
    <2>2. QED
      BY <1>7, <1>8, <2>1 DEF Approve
  <1>9. ASSUME NEW a \in Approvals, Reject(a) PROVE DecisionShown'
    <2> DEFINE new == [approval[a] EXCEPT !.status = "rejected"]
    <2>1. approval[a] \in ApprovalRow /\ a \in Pending
      BY <1>0, <1>9 DEF Reject, Decidable, Pending, Rows, TypeOK, Table
    <2>2. new \in ApprovalRow /\ new.inquiry = approval[a].inquiry /\ new.status = "rejected"
      BY <2>1 DEF ApprovalRow
    <2>3. /\ approval' = [approval EXCEPT ![a] = new]
          /\ status' = [status EXCEPT ![approval[a].inquiry] = "rejected"]
      BY <1>9 DEF Reject, UpdateApproval
    <2> HIDE DEF new
    <2>4. QED
      BY <1>6, <2>1, <2>2, <2>3 DEF Shows
  <1>10. ASSUME NEW a \in Approvals, DeadlinePasses(a) PROVE DecisionShown'
    <2> DEFINE new == [approval[a] EXCEPT !.overdue = TRUE]
    <2>1. approval[a] \in ApprovalRow /\ a \in Pending /\ approval[a].status = "pending"
      BY <1>0, <1>10 DEF DeadlinePasses, Pending, Rows, TypeOK, Table
    <2>2. new \in ApprovalRow /\ new.inquiry = approval[a].inquiry /\ new.status = "pending"
      BY <2>1 DEF ApprovalRow
    <2>3. approval' = [approval EXCEPT ![a] = new] /\ UNCHANGED status
      BY <1>10 DEF DeadlinePasses, intake
    <2> HIDE DEF new
    <2>4. /\ status[approval[a].inquiry] = "awaiting_approval"
          /\ status' = [status EXCEPT ![approval[a].inquiry] = "awaiting_approval"]
      BY <1>0, <2>1, <2>3, DecisionFinds DEF TypeOK
    <2>5. QED
      BY <1>6, <2>1, <2>2, <2>3, <2>4 DEF Shows
  <1>11. ASSUME NEW a \in Approvals, DecideTooLate(a) PROVE DecisionShown'
    <2>1. {a} \in SUBSET Pending
      BY <1>0, <1>11 DEF DecideTooLate, Pending, Rows, TypeOK, Table
    <2>2. QED
      BY <1>0, <1>11, <2>1, ExpireShown DEF DecideTooLate
  <1>12. ASSUME ExpireDue PROVE DecisionShown'
    BY <1>0, <1>12, ExpireShown DEF ExpireDue, Due
  <1>13. ASSUME NEW i \in Inquiries, NEW st \in AfterGrant, UNCHANGED approval,
                status[i] \in AfterGrant, status' = [status EXCEPT ![i] = st]
         PROVE  DecisionShown'
    <2>1. Within(i, AfterGrant)
      BY <1>0, <1>13 DEF Within, TypeOK
    <2>2. QED
      BY <1>2, <1>13, <2>1
  <1>14. ASSUME NEW i \in Inquiries, CreateQuote(i) PROVE DecisionShown'
    BY <1>13, <1>14, QuoteFinds DEF CreateQuote, AfterGrant, AfterQuote
  <1>15. ASSUME NEW q \in Quotes, CreateOrder(q) PROVE DecisionShown'
    BY <1>13, <1>15, OrderFinds DEF CreateOrder, AfterGrant, AfterQuote
  <1>16. ASSUME NEW o \in Orders, CreateInvoice(o) PROVE DecisionShown'
    BY <1>0, <1>13, <1>16, InvoiceFinds DEF CreateInvoice, AfterGrant, AfterQuote, AfterOrder
  <1>17. ASSUME NEW w \in Workers, ExtractionCrashes(w) \/ \E kind, r : LlmFails(w, kind, r)
         PROVE  DecisionShown'
    BY <1>1, <1>17 DEF ExtractionCrashes, LlmFails, intake
  <1>18. ASSUME NEW i \in Inquiries, ExtractionGoesStale(i) \/ ReportWorkflowFailure(i)
         PROVE  DecisionShown'
    BY <1>1, <1>18 DEF ExtractionGoesStale, ReportWorkflowFailure
  <1>19. ASSUME NEW q \in Quotes, OrderTooLate(q) \/ QuoteLapses(q) PROVE DecisionShown'
    BY <1>1, <1>19 DEF OrderTooLate, QuoteLapses, intake
  <1>20. ASSUME NEW v \in Invoices, InvoiceChanged(v) PROVE DecisionShown'
    BY <1>0, <1>1, <1>20, InvoiceChange
  <1>21. CASE UNCHANGED vars
    BY <1>1, <1>21 DEF vars
  <1>22. ASSUME NEW a \in Approvals, NEW pct \in Percents, Modify(a, pct) PROVE DecisionShown'
    BY <1>7, <1>22 DEF Modify, Discounts
  <1>23. QED
    BY <1>3, <1>4, <1>5, <1>8, <1>9, <1>10, <1>11, <1>12, <1>14, <1>15, <1>16, <1>17,
       <1>18, <1>19, <1>20, <1>21, <1>22
       DEF Next, InvoiceChanged, ExtractionSucceeds, ExtractionGivesUp

(* What keeps DocumentsShown: a status that moves before any quote, and a  *)
(* document whose terms stay.                                              *)
LEMMA DocumentsKept ==
    ASSUME DocumentsShown,
           Rows(quote') = Rows(quote), Rows(order') = Rows(order), Rows(invoice') = Rows(invoice),
           \A q \in Rows(quote)   : quote'[q].terms = quote[q].terms,
           \A o \in Rows(order)   : order'[o].terms = order[o].terms,
           \A v \in Rows(invoice) : invoice'[v].terms = invoice[v].terms,
           TypeOK,
           \A i \in Inquiries : \/ status'[i] = status[i]
                                \/ Within(i, Statuses \ AfterQuote)
    PROVE  DocumentsShown'
  <1>1. \A i \in Inquiries : /\ QuotesOf(i)' = QuotesOf(i)
                             /\ OrdersOf(i)' = OrdersOf(i)
                             /\ InvoicesOf(i)' = InvoicesOf(i)
    BY DEF QuotesOf, OrdersOf, InvoicesOf
  <1>2. /\ \A q \in Rows(quote)   : quote[q].terms.inquiry \in Inquiries
        /\ \A o \in Rows(order)   : order[o].terms.inquiry \in Inquiries
        /\ \A v \in Rows(invoice) : invoice[v].terms.inquiry \in Inquiries
    BY TermsFields DEF TypeOK, Table, Rows, QuoteRow, OrderRow, InvoiceRow
  <1>3. \A i \in Inquiries :
           /\ status'[i] \in AfterQuote <=> status[i] \in AfterQuote
           /\ status'[i] \in AfterOrder <=> status[i] \in AfterOrder
           /\ status'[i] = "invoiced" <=> status[i] = "invoiced"
    BY DEF Within, AfterQuote, AfterOrder
  <1>4. QED
    BY <1>1, <1>2, <1>3 DEF DocumentsShown

(* A quote or an invoice keeps its terms whatever is written into it.      *)
LEMMA TermsStay ==
    ASSUME TypeOK
    PROVE  /\ \A q \in Quotes : CreateOrder(q) \/ OrderTooLate(q) \/ QuoteLapses(q) =>
                 /\ Rows(quote') = Rows(quote)
                 /\ \A p \in Rows(quote) : quote'[p].terms = quote[p].terms
           /\ \A v \in Invoices : InvoiceChanged(v) =>
                 /\ Rows(invoice') = Rows(invoice)
                 /\ \A u \in Rows(invoice) : invoice'[u].terms = invoice[u].terms
  <1>1. ASSUME NEW q \in Quotes, CreateOrder(q) \/ OrderTooLate(q) \/ QuoteLapses(q)
        PROVE  /\ Rows(quote') = Rows(quote)
               /\ \A p \in Rows(quote) : quote'[p].terms = quote[p].terms
    <2>1. quote[q] \in QuoteRow /\ q \in Rows(quote)
      BY <1>1 DEF CreateOrder, OrderTooLate, QuoteLapses, Orderable, TypeOK, Table, Rows
    <2>2. \E new : quote' = [quote EXCEPT ![q] = new] /\ new.terms = quote[q].terms
      <3>1. /\ \A st : [quote[q] EXCEPT !.status = st].terms = quote[q].terms
            /\ [quote[q] EXCEPT !.lapsed = TRUE].terms = quote[q].terms
        BY <2>1 DEF QuoteRow
      <3>2. QED
        BY <1>1, <3>1 DEF CreateOrder, OrderTooLate, QuoteLapses
    <2>3. QED
      BY <1>1, <2>1, <2>2, QuotesKept DEF TypeOK, Table, Rows
  <1>2. ASSUME NEW v \in Invoices, InvoiceChanged(v)
        PROVE  /\ Rows(invoice') = Rows(invoice)
               /\ \A u \in Rows(invoice) : invoice'[u].terms = invoice[u].terms
    <2>1. v \in Rows(invoice)
      BY <1>2, InvoiceChange
    <2>2. PICK new \in InvoiceRow :
             invoice' = [invoice EXCEPT ![v] = new] /\ new.terms = invoice[v].terms
      BY <1>2, InvoiceChange
    <2>3. QED
      BY <2>1, <2>2, NoneAssumption DEF TypeOK, Table, Rows
  <1>3. QED
    BY <1>1, <1>2

LEMMA NextDocuments ==
    ASSUME ChainInvariant, ChainInvariant', LinksUsedOnce, StatusInvariant, [Next]_vars,
           ~SlowWorkers
    PROVE  DocumentsShown'
  <1>0. TypeOK /\ DocumentsShown
    BY DEF ChainInvariant, StatusInvariant
  <1>1. ASSUME NEW i \in Inquiries, CreateQuote(i) PROVE DocumentsShown'
    <2>1. PICK a \in Rows(approval), q \in Quotes \ Rows(quote) :
             /\ approval[a].inquiry = i /\ Granted(approval[a])
             /\ quote' = [quote EXCEPT ![q] = NewQuote(a)]
      BY <1>1 DEF CreateQuote
    <2>2. status[i] = "approved" /\ status' = [status EXCEPT ![i] = "quoted"]
      BY <1>1, QuoteFinds DEF CreateQuote
    <2>3. NewQuote(a).terms.inquiry = i /\ NewQuote(a) \in QuoteRow
      BY <1>0, <2>1, NewQuoteType DEF NewQuote, TermsOf
    <2>4. Rows(quote') = Rows(quote) \union {q} /\ quote'[q].terms.inquiry = i
      BY <1>0, <2>1, <2>3, NoneAssumption DEF TypeOK, Table, Rows
    <2>5. \A p \in Rows(quote) : quote'[p] = quote[p] /\ quote[p].terms.inquiry \in Inquiries
      BY <1>0, <2>1, TermsFields DEF TypeOK, Table, Rows, QuoteRow
    <2>6. /\ UNCHANGED <<order, invoice>>
          /\ \A o \in Rows(order) : order[o].terms.inquiry \in Inquiries
          /\ \A v \in Rows(invoice) : invoice[v].terms.inquiry \in Inquiries
      BY <1>0, <1>1, TermsFields DEF CreateQuote, TypeOK, Table, Rows, OrderRow, InvoiceRow
    <2>7. status'[i] = "quoted" /\ \A j \in Inquiries \ {i} : status'[j] = status[j]
      BY <1>0, <2>2 DEF TypeOK
    <2>8. /\ \A p \in Rows(quote')   : status'[quote'[p].terms.inquiry] \in AfterQuote
          /\ \A o \in Rows(order')   : status'[order'[o].terms.inquiry] \in AfterOrder
          /\ \A v \in Rows(invoice') : status'[invoice'[v].terms.inquiry] = "invoiced"
      BY <1>0, <2>2, <2>4, <2>5, <2>6, <2>7 DEF DocumentsShown, AfterQuote, AfterOrder
    <2>9. ASSUME NEW j \in Inquiries
          PROVE  /\ status'[j] \in AfterQuote => QuotesOf(j)' # {}
                 /\ status'[j] \in AfterOrder => OrdersOf(j)' # {}
                 /\ status'[j] = "invoiced"   => InvoicesOf(j)' # {}
      BY <1>0, <2>4, <2>5, <2>6, <2>7
         DEF DocumentsShown, QuotesOf, OrdersOf, InvoicesOf, AfterOrder
    <2>10. QED
      BY <2>8, <2>9 DEF DocumentsShown
  <1>2. ASSUME NEW q \in Quotes, CreateOrder(q) PROVE DocumentsShown'
    <2> DEFINE i == QuoteInquiry(q)
    <2>1. PICK n \in Orders \ Rows(order) : order' = [order EXCEPT ![n] = NewOrder(q)]
      BY <1>2 DEF CreateOrder
    <2>2. i \in Inquiries /\ status[i] = "quoted" /\ status' = [status EXCEPT ![i] = "ordered"]
      BY <1>2, OrderFinds DEF CreateOrder
    <2>3. NewOrder(q).terms.inquiry = i /\ NewOrder(q) \in OrderRow
      <3>1. quote[q] \in QuoteRow
        BY <1>0, <1>2 DEF CreateOrder, Orderable, Rows, TypeOK, Table
      <3>2. QED
        BY <3>1 DEF NewOrder, OrderRow, QuoteRow, QuoteInquiry
    <2>4. Rows(order') = Rows(order) \union {n} /\ order'[n].terms.inquiry = i
      BY <1>0, <2>1, <2>3, NoneAssumption DEF TypeOK, Table, Rows
    <2>5. \A o \in Rows(order) : order'[o] = order[o] /\ order[o].terms.inquiry \in Inquiries
      BY <1>0, <2>1, TermsFields DEF TypeOK, Table, Rows, OrderRow
    <2>6. /\ UNCHANGED invoice /\ Rows(quote') = Rows(quote)
          /\ \A p \in Rows(quote) : /\ quote'[p].terms = quote[p].terms
                                    /\ quote[p].terms.inquiry \in Inquiries
          /\ \A v \in Rows(invoice) : invoice[v].terms.inquiry \in Inquiries
      BY <1>0, <1>2, TermsFields, TermsStay
         DEF CreateOrder, TypeOK, Table, Rows, QuoteRow, InvoiceRow
    <2>7. status'[i] = "ordered" /\ \A j \in Inquiries \ {i} : status'[j] = status[j]
      BY <1>0, <2>2 DEF TypeOK
    <2> HIDE DEF i
    <2>8. /\ \A p \in Rows(quote')   : status'[quote'[p].terms.inquiry] \in AfterQuote
          /\ \A o \in Rows(order')   : status'[order'[o].terms.inquiry] \in AfterOrder
          /\ \A v \in Rows(invoice') : status'[invoice'[v].terms.inquiry] = "invoiced"
      BY <1>0, <2>2, <2>4, <2>5, <2>6, <2>7 DEF DocumentsShown, AfterQuote, AfterOrder
    <2>9. ASSUME NEW j \in Inquiries
          PROVE  /\ status'[j] \in AfterQuote => QuotesOf(j)' # {}
                 /\ status'[j] \in AfterOrder => OrdersOf(j)' # {}
                 /\ status'[j] = "invoiced"   => InvoicesOf(j)' # {}
      <3>1. QuotesOf(j)' = QuotesOf(j) /\ InvoicesOf(j)' = InvoicesOf(j)
        BY <2>6 DEF QuotesOf, InvoicesOf
      <3>2. OrdersOf(j) # {} \/ j = i => OrdersOf(j)' # {}
        BY <2>4, <2>5 DEF OrdersOf
      <3>3. QED
        BY <1>0, <2>2, <2>7, <3>1, <3>2 DEF DocumentsShown, AfterQuote, AfterOrder
    <2>10. QED
      BY <2>8, <2>9 DEF DocumentsShown
  <1>3. ASSUME NEW o \in Orders, CreateInvoice(o) PROVE DocumentsShown'
    <2> DEFINE i == order[o].terms.inquiry
    <2>1. PICK n \in Invoices \ Rows(invoice) :
             invoice' = [invoice EXCEPT ![n] = NewInvoice(o)]
      BY <1>3 DEF CreateInvoice
    <2>2. /\ i \in Inquiries /\ status[i] \in AfterOrder
          /\ status' = [status EXCEPT ![i] = "invoiced"]
      BY <1>0, <1>3, InvoiceFinds DEF CreateInvoice
    <2>3. NewInvoice(o).terms.inquiry = i /\ NewInvoice(o) \in InvoiceRow
      <3>1. order[o] \in OrderRow
        BY <1>0, <1>3 DEF CreateInvoice, Billable, Rows, TypeOK, Table
      <3>2. QED
        BY <3>1, NewInvoiceType DEF NewInvoice
    <2>4. Rows(invoice') = Rows(invoice) \union {n} /\ invoice'[n].terms.inquiry = i
      BY <1>0, <2>1, <2>3, NoneAssumption DEF TypeOK, Table, Rows
    <2>5. \A v \in Rows(invoice) : /\ invoice'[v] = invoice[v]
                                   /\ invoice[v].terms.inquiry \in Inquiries
      BY <1>0, <2>1, TermsFields DEF TypeOK, Table, Rows, InvoiceRow
    <2>6. /\ UNCHANGED <<quote, order>>
          /\ \A p \in Rows(quote) : quote[p].terms.inquiry \in Inquiries
          /\ \A p \in Rows(order) : order[p].terms.inquiry \in Inquiries
      BY <1>0, <1>3, TermsFields DEF CreateInvoice, TypeOK, Table, Rows, QuoteRow, OrderRow
    <2>7. status'[i] = "invoiced" /\ \A j \in Inquiries \ {i} : status'[j] = status[j]
      BY <1>0, <2>2 DEF TypeOK
    <2> HIDE DEF i
    <2>8. /\ \A p \in Rows(quote')   : status'[quote'[p].terms.inquiry] \in AfterQuote
          /\ \A p \in Rows(order')   : status'[order'[p].terms.inquiry] \in AfterOrder
          /\ \A v \in Rows(invoice') : status'[invoice'[v].terms.inquiry] = "invoiced"
      BY <1>0, <2>2, <2>4, <2>5, <2>6, <2>7 DEF DocumentsShown, AfterQuote, AfterOrder
    <2>9. ASSUME NEW j \in Inquiries
          PROVE  /\ status'[j] \in AfterQuote => QuotesOf(j)' # {}
                 /\ status'[j] \in AfterOrder => OrdersOf(j)' # {}
                 /\ status'[j] = "invoiced"   => InvoicesOf(j)' # {}
      <3>1. QuotesOf(j)' = QuotesOf(j) /\ OrdersOf(j)' = OrdersOf(j)
        BY <2>6 DEF QuotesOf, OrdersOf, Rows
      <3>2. InvoicesOf(j) # {} \/ j = i => InvoicesOf(j)' # {}
        BY <2>4, <2>5 DEF InvoicesOf
      <3>3. QED
        BY <1>0, <2>2, <2>7, <3>1, <3>2 DEF DocumentsShown, AfterQuote, AfterOrder
    <2>10. QED
      BY <2>8, <2>9 DEF DocumentsShown
  <1>4. ASSUME NEW q \in Quotes, OrderTooLate(q) \/ QuoteLapses(q) PROVE DocumentsShown'
    BY <1>0, <1>4, TermsStay, DocumentsKept DEF OrderTooLate, QuoteLapses, intake
  <1>5. ASSUME NEW v \in Invoices, InvoiceChanged(v) PROVE DocumentsShown'
    BY <1>0, <1>5, TermsStay, DocumentsKept, InvoiceChange
  <1>6. CASE UNCHANGED documents
    <2>1. \A i \in Inquiries : status'[i] = status[i] \/ Within(i, Statuses \ AfterQuote)
      BY <1>6, NextMoves DEF Moves, Diagram, Within, AfterQuote, Statuses
    <2>2. QED
      BY <1>0, <1>6, <2>1, DocumentsKept DEF documents, Rows
  <1>7. QED
    BY <1>1, <1>2, <1>3, <1>4, <1>5, <1>6, DocumentSteps

(* WorkersCurrent.  Only StartExtraction takes up an inquiry, never one    *)
(* that a running call waits for; and only that call writes its result.    *)
LEMMA WorkersKept ==
    ASSUME TypeOK, WorkersCurrent, UNCHANGED <<fresh, worker>>,
           \A i \in Inquiries : status[i] = "extracting" => status'[i] = "extracting"
    PROVE  WorkersCurrent'
  <1>1. \A w \in Rows(worker) : worker[w].inquiry \in Inquiries
    BY DEF TypeOK, Table, Rows, Extraction
  <1>2. Rows(worker') = Rows(worker)
    OBVIOUS
  <1>3. QED
    BY <1>1, <1>2 DEF WorkersCurrent

LEMMA NextWorkers ==
    ASSUME ChainInvariant, LinksUsedOnce, StatusInvariant, [Next]_vars, ~SlowWorkers
    PROVE  WorkersCurrent'
  <1>0. TypeOK /\ WorkersCurrent
    BY DEF ChainInvariant, StatusInvariant
  <1>1. ASSUME NEW w \in Workers, NEW i \in Inquiries, StartExtraction(w, i)
        PROVE  WorkersCurrent'
    <2>1. \A x \in Rows(worker) : worker[x].inquiry # i
      BY <1>0, <1>1 DEF WorkersCurrent, StartExtraction, MayExtract
    <2>2. /\ status'[i] = "extracting" /\ fresh'[i]
          /\ \A j \in Inquiries \ {i} : status'[j] = status[j] /\ fresh'[j] = fresh[j]
      BY <1>0, <1>1 DEF StartExtraction, TypeOK
    <2>3. /\ worker'[w].inquiry = i
          /\ \A x \in Rows(worker') : x # w => x \in Rows(worker) /\ worker'[x] = worker[x]
      BY <1>0, <1>1 DEF StartExtraction, TypeOK, Table, Rows
    <2>4. \A x \in Rows(worker) : worker[x].inquiry \in Inquiries
      BY <1>0 DEF TypeOK, Table, Rows, Extraction
    <2>5. QED
      BY <1>0, <2>1, <2>2, <2>3, <2>4 DEF WorkersCurrent
  <1>2. ASSUME NEW w \in Workers, NEW kind, NEW r, LlmFails(w, kind, r)
        PROVE  WorkersCurrent'
    <2>1. worker[w] \in Extraction /\ w \in Rows(worker) /\ UNCHANGED <<status, fresh>>
      BY <1>0, <1>2 DEF LlmFails, intake, TypeOK, Table, Rows
    <2>2. \A x \in Rows(worker') : x \in Rows(worker) /\ worker'[x].inquiry = worker[x].inquiry
      BY <1>0, <1>2, <2>1 DEF LlmFails, TypeOK, Table, Rows, Extraction
    <2>3. QED
      BY <1>0, <2>1, <2>2 DEF WorkersCurrent
  <1>3. ASSUME NEW w \in Workers, worker[w] # None, worker' = [worker EXCEPT ![w] = None],
               NEW i \in Inquiries, i = worker[w].inquiry,
               \A j \in Inquiries \ {i} : status'[j] = status[j] /\ fresh'[j] = fresh[j]
        PROVE  WorkersCurrent'
    <2>1. \A x \in Rows(worker') : /\ x \in Rows(worker) /\ x # w
                                  /\ worker'[x] = worker[x]
                                  /\ worker[x].inquiry \in Inquiries \ {i}
      BY <1>0, <1>3 DEF TypeOK, Table, Rows, Extraction, WorkersCurrent
    <2>2. \A x \in Rows(worker') : /\ status'[worker[x].inquiry] = status[worker[x].inquiry]
                                  /\ fresh'[worker[x].inquiry] = fresh[worker[x].inquiry]
      BY <1>3, <2>1
    <2>3. QED
      BY <1>0, <2>1, <2>2 DEF WorkersCurrent
  <1>4. ASSUME NEW w \in Workers, NEW p, NEW offer, worker[w] # None, WriteResult(w, p, offer)
        PROVE  WorkersCurrent'
    <2>1. worker[w].inquiry \in Inquiries
      BY <1>0, <1>4 DEF TypeOK, Table, Extraction
    <2>2. QED
      BY <1>0, <1>3, <1>4, <2>1 DEF WriteResult, TypeOK
  <1>5. ASSUME NEW w \in Workers, ExtractionCrashes(w) PROVE WorkersCurrent'
    <2>1. worker[w].inquiry \in Inquiries
      BY <1>0, <1>5 DEF ExtractionCrashes, TypeOK, Table, Extraction
    <2>2. QED
      BY <1>0, <1>3, <1>5, <2>1 DEF ExtractionCrashes, intake
  <1>6. ASSUME NEW i \in Inquiries, ExtractionGoesStale(i) PROVE WorkersCurrent'
    <2>1. \A w \in Rows(worker) : worker[w].inquiry \in Inquiries \ {i}
      BY <1>0, <1>6 DEF ExtractionGoesStale, TypeOK, Table, Rows, Extraction
    <2>2. /\ UNCHANGED <<status, worker>>
          /\ \A j \in Inquiries \ {i} : fresh'[j] = fresh[j]
      BY <1>0, <1>6 DEF ExtractionGoesStale, TypeOK
    <2>3. QED
      BY <1>0, <2>1, <2>2 DEF WorkersCurrent, Rows
  <1>7. ASSUME NEW i \in Inquiries,
               \/ CreateInquiry(i) \/ ReportWorkflowFailure(i) \/ RunRules(i)
        PROVE  WorkersCurrent'
    BY <1>0, <1>7, WorkersKept
       DEF CreateInquiry, ReportWorkflowFailure, RunRules, MayDecide, TypeOK
  <1>8. ASSUME NEW i \in Inquiries, status[i] # "extracting", NEW st,
               status' = [status EXCEPT ![i] = st], UNCHANGED <<fresh, worker>>
        PROVE  WorkersCurrent'
    BY <1>0, <1>8, WorkersKept DEF TypeOK
  <1>9. ASSUME NEW a \in Approvals, Reject(a) \/ \E pct : Grant(a, pct) PROVE WorkersCurrent'
    <2>1. a \in Pending
      BY <1>0, <1>9 DEF Reject, Grant, Decidable, Pending, Rows, TypeOK, Table
    <2>2. QED
      BY <1>0, <1>8, <1>9, <2>1, DecisionFinds DEF Reject, Grant
  <1>10. ASSUME NEW S \in SUBSET Pending, Expire(S) PROVE WorkersCurrent'
    <2>1. \A i \in Inquiries : status[i] = "extracting" => status'[i] = "extracting"
      BY <1>0, <1>10, DecisionFinds DEF Expire
    <2>2. QED
      BY <1>0, <1>10, <2>1, WorkersKept DEF Expire
  <1>11. ASSUME NEW a \in Approvals, DecideTooLate(a) PROVE WorkersCurrent'
    <2>1. {a} \in SUBSET Pending
      BY <1>0, <1>11 DEF DecideTooLate, Pending, Rows, TypeOK, Table
    <2>2. QED
      BY <1>10, <1>11, <2>1 DEF DecideTooLate
  <1>12. ASSUME ExpireDue PROVE WorkersCurrent'
    BY <1>10, <1>12 DEF ExpireDue, Due
  <1>13. ASSUME NEW i \in Inquiries, CreateQuote(i) PROVE WorkersCurrent'
    BY <1>8, <1>13, QuoteFinds DEF CreateQuote
  <1>14. ASSUME NEW q \in Quotes, CreateOrder(q) PROVE WorkersCurrent'
    BY <1>8, <1>14, OrderFinds DEF CreateOrder
  <1>15. ASSUME NEW o \in Orders, CreateInvoice(o) PROVE WorkersCurrent'
    BY <1>0, <1>8, <1>15, InvoiceFinds DEF CreateInvoice, AfterOrder
  <1>16. ASSUME UNCHANGED <<status, fresh, worker>> PROVE WorkersCurrent'
    BY <1>0, <1>16, WorkersKept
  <1>17. ASSUME NEW a \in Approvals, DeadlinePasses(a) PROVE WorkersCurrent'
    BY <1>16, <1>17 DEF DeadlinePasses, intake
  <1>18. ASSUME NEW q \in Quotes, OrderTooLate(q) \/ QuoteLapses(q) PROVE WorkersCurrent'
    BY <1>16, <1>18 DEF OrderTooLate, QuoteLapses, intake
  <1>19. ASSUME NEW v \in Invoices, InvoiceChanged(v) PROVE WorkersCurrent'
    BY <1>0, <1>16, <1>19, InvoiceChange
  <1>20. CASE UNCHANGED vars
    BY <1>16, <1>20 DEF vars
  <1>21. QED
    BY <1>1, <1>2, <1>4, <1>5, <1>6, <1>7, <1>9, <1>11, <1>12, <1>13, <1>14, <1>15,
       <1>17, <1>18, <1>19, <1>20
       DEF Next, InvoiceChanged, ExtractionSucceeds, ExtractionGivesUp, Approve, Modify

LEMMA NextTimeouts ==
    ASSUME ChainInvariant, TypeOK', StatusInvariant, [Next]_vars
    PROVE  TimeoutsExpired'
  <1>0. TypeOK /\ OfferRead /\ TimeoutsExpired
    BY DEF ChainInvariant, StatusInvariant
  <1>1. \A a \in timeouts : a \in Rows(approval') /\ approval'[a] = approval[a]
    <2>1. \A a \in timeouts : a \in Approvals /\ a \in Rows(approval) /\ a \notin Pending
      BY <1>0 DEF TimeoutsExpired, Pending, TypeOK
    <2>2. CASE PendingStep
      <3>1. DOMAIN approval' = Approvals
        BY DEF TypeOK, Table
      <3>2. QED
        BY <2>1, <2>2, <3>1 DEF PendingStep, Rows
    <2>3. ASSUME NEW i \in Inquiries, RunRules(i)
          PROVE  \A a \in timeouts : a \in Rows(approval') /\ approval'[a] = approval[a]
      <3>1. \/ UNCHANGED approval
            \/ \E b \in Approvals \ Rows(approval) : \E row :
                  approval' = [approval EXCEPT ![b] = row]
        BY <1>0, <2>3, RunRulesWrites
      <3>2. DOMAIN approval = Approvals
        BY <1>0 DEF TypeOK, Table
      <3>3. QED
        BY <2>1, <3>1, <3>2 DEF Rows
    <2>4. QED
      BY <1>0, <2>2, <2>3, NextApproval
  <1>2. ASSUME UNCHANGED timeouts PROVE TimeoutsExpired'
    BY <1>0, <1>1, <1>2 DEF TimeoutsExpired
  <1>3. ASSUME NEW S \in SUBSET Pending, Expire(S) PROVE TimeoutsExpired'
    <2>1. \A a \in S : a \in Approvals /\ approval[a] \in ApprovalRow
      BY <1>0 DEF Pending, Rows, TypeOK, Table
    <2>2. \A a \in S : /\ approval'[a] = [approval[a] EXCEPT !.status = "expired"]
                       /\ a \in DOMAIN approval'
      BY <1>3, <2>1 DEF Expire
    <2>3. \A a \in S : approval'[a] \in ApprovalRow /\ approval'[a].status = "expired"
      BY <2>1, <2>2 DEF ApprovalRow
    <2>4. \A a \in S : a \in Rows(approval') /\ approval'[a].status = "expired"
      BY <2>2, <2>3, NoneAssumption DEF Rows
    <2>5. timeouts' = timeouts \union S
      BY <1>3 DEF Expire
    <2>6. QED
      BY <1>0, <1>1, <2>4, <2>5 DEF TimeoutsExpired
  <1>4. ASSUME NEW a \in Approvals, DecideTooLate(a) PROVE TimeoutsExpired'
    <2>1. {a} \in SUBSET Pending
      BY <1>0, <1>4 DEF DecideTooLate, Pending, Rows, TypeOK, Table
    <2>2. QED
      BY <1>3, <1>4, <2>1 DEF DecideTooLate
  <1>5. ASSUME ExpireDue PROVE TimeoutsExpired'
    BY <1>3, <1>5 DEF ExpireDue, Due
  <1>6. ASSUME NEW i \in Inquiries,
               \/ CreateInquiry(i) \/ (\E w \in Workers : StartExtraction(w, i))
               \/ ExtractionGoesStale(i) \/ ReportWorkflowFailure(i)
               \/ RunRules(i) \/ CreateQuote(i)
        PROVE  TimeoutsExpired'
    BY <1>2, <1>6 DEF CreateInquiry, StartExtraction, ExtractionGoesStale,
                      ReportWorkflowFailure, RunRules, CreateQuote
  <1>7. ASSUME NEW w \in Workers, \/ ExtractionSucceeds(w) \/ ExtractionGivesUp(w)
                                  \/ ExtractionCrashes(w) \/ \E kind, r : LlmFails(w, kind, r)
        PROVE  TimeoutsExpired'
    BY <1>2, <1>7 DEF ExtractionSucceeds, ExtractionGivesUp, ExtractionCrashes, LlmFails,
                      WriteResult
  <1>8. ASSUME NEW a \in Approvals, \/ Approve(a) \/ (\E pct \in Percents : Modify(a, pct))
                                    \/ Reject(a) \/ DeadlinePasses(a)
        PROVE  TimeoutsExpired'
    BY <1>2, <1>8 DEF Approve, Modify, Grant, Reject, DeadlinePasses
  <1>9. ASSUME NEW q \in Quotes, CreateOrder(q) \/ OrderTooLate(q) \/ QuoteLapses(q)
        PROVE  TimeoutsExpired'
    BY <1>2, <1>9 DEF CreateOrder, OrderTooLate, QuoteLapses
  <1>10. ASSUME (\E o \in Orders : CreateInvoice(o)) \/ (\E v \in Invoices : InvoiceChanged(v))
         PROVE  TimeoutsExpired'
    BY <1>0, <1>2, <1>10, InvoiceChange DEF CreateInvoice
  <1>11. CASE UNCHANGED vars
    BY <1>2, <1>11 DEF vars
  <1>12. QED
    BY <1>4, <1>5, <1>6, <1>7, <1>8, <1>9, <1>10, <1>11 DEF Next, InvoiceChanged

LEMMA StatusHolds == ASSUME ~SlowWorkers PROVE Spec => []StatusInvariant
  <1>1. /\ ChainInvariant /\ ChainInvariant' /\ LinksUsedOnce /\ StatusInvariant
        /\ [Next]_vars
        => StatusInvariant'
    <2>1. ChainInvariant' => TypeOK'
      BY DEF ChainInvariant
    <2>2. QED
      BY <2>1, NextDecision, NextDocuments, NextWorkers, NextTimeouts DEF StatusInvariant
  <1>2. QED
    BY <1>1, InitStatus, ChainCorrect, LinksHold, PTL DEF Spec

LEMMA StatusGivesMatch ==
    ASSUME ChainInvariant, StatusInvariant
    PROVE  StatusMatchesRecords
  <1> SUFFICES ASSUME NEW i \in Inquiries
               PROVE  /\ status[i] = "awaiting_approval" <=>
                            \E a \in ApprovalsOf(i) : approval[a].status = "pending"
                      /\ status[i] = "rejected" <=>
                            \E a \in ApprovalsOf(i) : approval[a].status = "rejected"
                      /\ status[i] \in AfterGrant <=>
                            \E a \in ApprovalsOf(i) : Granted(approval[a])
                      /\ status[i] = "quoted"   <=> QuotesOf(i) # {} /\ OrdersOf(i) = {}
                      /\ status[i] = "ordered"  <=> OrdersOf(i) # {} /\ InvoicesOf(i) = {}
                      /\ status[i] = "invoiced" <=> InvoicesOf(i) # {}
    BY DEF StatusMatchesRecords, AfterGrant, AfterQuote
  <1>1. \A a \in ApprovalsOf(i) :
           /\ status[i] \in Shows(approval[a].status)
           /\ approval[a].status \in {"pending", "approved", "modified", "rejected", "expired"}
    BY DEF StatusInvariant, DecisionShown, ApprovalsOf, ChainInvariant, TypeOK, Table, Rows,
           ApprovalRow
  <1>2. status[i] \in FINAL_INQUIRY_STATUSES => ApprovalsOf(i) # {}
    BY DEF StatusInvariant, DecisionShown
  <1>3. \A a \in ApprovalsOf(i) :
           /\ status[i] = "awaiting_approval" <=> approval[a].status = "pending"
           /\ status[i] = "rejected" <=> approval[a].status = "rejected"
           /\ status[i] \in AfterGrant <=> Granted(approval[a])
    BY <1>1 DEF Shows, Granted, AfterGrant, AfterQuote, FINAL_INQUIRY_STATUSES
  <1>4. /\ QuotesOf(i) # {} <=> status[i] \in AfterQuote
        /\ OrdersOf(i) # {} <=> status[i] \in AfterOrder
        /\ InvoicesOf(i) # {} <=> status[i] = "invoiced"
    BY DEF StatusInvariant, DocumentsShown, QuotesOf, OrdersOf, InvoicesOf
  <1>5. status[i] \in {"awaiting_approval", "rejected"} \union AfterGrant =>
           ApprovalsOf(i) # {}
    BY <1>2 DEF AfterGrant, AfterQuote, FINAL_INQUIRY_STATUSES
  <1>6. QED
    BY <1>3, <1>4, <1>5 DEF AfterGrant, AfterQuote, AfterOrder

(* inquiries.status agrees with the approvals, quotes, orders and invoices *)
(* that exist, as long as no extraction outlives the stale limit.          *)
THEOREM StatusIsTrue == ASSUME ~SlowWorkers PROVE Spec => []StatusMatchesRecords
  BY StatusHolds, StatusGivesMatch, ChainCorrect, PTL

(* Every step of inquiries.status is one of the diagram, under its         *)
(* condition.                                                              *)
LEMMA MovesHold == ASSUME ~SlowWorkers PROVE Spec => [][\A i \in Inquiries : Moves(i)]_vars
  <1>1. ChainInvariant /\ LinksUsedOnce /\ StatusInvariant /\ [Next]_vars =>
           [\A i \in Inquiries : Moves(i)]_vars
    BY NextMoves
  <1>2. QED
    BY <1>1, ChainCorrect, LinksHold, StatusHolds, PTL DEF Spec

(* Once decided, an inquiry stays decided: no call of extract, however     *)
(* timed, takes it back, and only a timeout returns it to a person.        *)
THEOREM DecidedStaysDecided == ASSUME ~SlowWorkers PROVE Spec => NoRegression
  <1>1. ASSUME NEW i \in Inquiries, Moves(i)
        PROVE  /\ status[i] \in Settled => status'[i] \in Settled
               /\ status[i] = "awaiting_approval" =>
                     \/ status'[i] \in FINAL_INQUIRY_STATUSES
                     \/ status'[i] = "needs_review" /\ timeouts' # timeouts
    BY <1>1 DEF Moves, Diagram, Settled, FINAL_INQUIRY_STATUSES
  <1> DEFINE Kept(i) == /\ status[i] \in Settled => status'[i] \in Settled
                        /\ status[i] = "awaiting_approval" =>
                              \/ status'[i] \in FINAL_INQUIRY_STATUSES
                              \/ status'[i] = "needs_review" /\ timeouts' # timeouts
  <1>2. [\A i \in Inquiries : Moves(i)]_vars => [\A i \in Inquiries : Kept(i)]_vars
    BY <1>1
  <1>3. NoRegression <=> [][\A i \in Inquiries : Kept(i)]_vars
    BY DEF NoRegression
  <1> HIDE DEF Kept
  <1>4. QED
    BY <1>2, <1>3, MovesHold, PTL

(* What a person must look at stays with a person.                         *)
THEOREM ReviewStays == ASSUME ~SlowWorkers PROVE Spec => ReviewIsSticky
  <1>1. ASSUME NEW i \in Inquiries, Moves(i),
               status[i] = "needs_review", review[i] \ RETRYABLE_EXCEPTIONS # {}
        PROVE  /\ status'[i] = "needs_review"
               /\ (review[i] \ RETRYABLE_EXCEPTIONS) \subseteq review'[i]
    BY <1>1 DEF Moves
  <1> DEFINE Sticky(i) == LET human == review[i] \ RETRYABLE_EXCEPTIONS IN
                          status[i] = "needs_review" /\ human # {} =>
                              status'[i] = "needs_review" /\ human \subseteq review'[i]
  <1>2. [\A i \in Inquiries : Moves(i)]_vars => [\A i \in Inquiries : Sticky(i)]_vars
    BY <1>1
  <1>3. ReviewIsSticky <=> [][\A i \in Inquiries : Sticky(i)]_vars
    BY DEF ReviewIsSticky
  <1> HIDE DEF Sticky
  <1>4. QED
    BY <1>2, <1>3, MovesHold, PTL
=============================================================================
