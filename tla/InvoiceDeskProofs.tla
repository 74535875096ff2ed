------------------------- MODULE InvoiceDeskProofs -------------------------
(***************************************************************************)
(* What passes the finance desk has nothing open, what is final stays so,  *)
(* payments are of approved documents, and what passes is justified and no *)
(* duplicate nobody signed for, for any number of documents, requests,     *)
(* contents and amounts.                                                   *)
(***************************************************************************)
EXTENDS InvoiceDesk, TLAPS

OneEach(items) == \A f, g \in items : f.type = g.type => f = g

(* Neither passed nor withdrawn.                                           *)
Undecided(doc) == doc.status \in {"received", "submitted", "blocked"}

(* A request k about a document that is r, with the open exceptions o.     *)
(* What a validation or a correction has locked is as it read it.  Of a    *)
(* document that is submitted once: while it is captured it is the empty   *)
(* row of the submission; what is accepted has not passed, neither when it *)
(* was read nor when it is locked, as the exception stays open so long.    *)
RequestOK(k, r, o) ==
    /\ k.at = "capture" => k.op = "submit" /\ r.kind = "invoice" /\ k.invoice \in FromText
    /\ k.op \in {"validate", "correct"} =>
          k.at = "commit" /\ k.doc.status = r.status /\ ~Closed(r)
    /\ k.op = "submit" => k.doc.status \in {"received", "submitted"}
    /\ k.op = "repeat" => k.invoice \in Keyed
    /\ k.op = "accept" <=> k.accepts # None
    /\ k.doc.kind = r.kind
    /\ k.at = "lock" /\ k.accepts # None => k.accepts \in Types(o)
    /\ OneEach(k.found) /\ Types(k.found) \subseteq VALIDATOR_TYPES
    /\ k.invoice \notin Keyed =>
         /\ k.at = "capture" => r.status = "received" /\ r.data = Blank
         /\ k.op = "accept" => Undecided(k.doc) /\ (k.at = "commit" => Undecided(r))

(* Two requests about a document: one has the lock, and a capture is alone *)
(* with a document that is submitted once.                                 *)
PairOK(k, l) == k.invoice = l.invoice =>
    /\ ~(k.at = "commit" /\ l.at = "commit")
    /\ k.invoice \notin Keyed => k.at # "capture"

DocumentOK(i, r, o) ==
    /\ OneEach(o)
    /\ r # None =>
         /\ i \notin Keyed /\ ~Undecided(r) => o = {}
         /\ i \notin Keyed \intersect FromText =>
               (r.status = "posted" <=> r.paid > 0 /\ r.paid = r.data.total)

(* The documents that the findings of k name.                              *)
Named(k) == UNION {f.matches : f \in k.found}

(* Nobody is told of a document that is being captured, unless it has an   *)
(* Idempotency-Key: nothing duplicates an empty row.                       *)
Shown(i) == /\ i \in Invoices /\ Exists(i)
            /\ i \notin Keyed => \A c \in Running : call[c].invoice = i => call[c].at # "capture"
KnownOK  == /\ \A i \in known : Shown(i)
            /\ \A c \in Running : \A i \in Named(call[c]) : Shown(i)

RequestsOK  == \A c \in Running : /\ Exists(call[c].invoice)
                                  /\ RequestOK(call[c], row[call[c].invoice], open[call[c].invoice])
PairsOK     == \A c, e \in Running : c # e => PairOK(call[c], call[e])
DocumentsOK == \A i \in Invoices : DocumentOK(i, row[i], open[i])

DeskInvariant == /\ DeskTypeOK
                 /\ PaidIsApproved
                 /\ RequestsOK
                 /\ PairsOK
                 /\ DocumentsOK
                 /\ KnownOK
-----------------------------------------------------------------------------
LEMMA InitDesk == Init => DeskInvariant
  <1> SUFFICES ASSUME Init PROVE DeskInvariant
    OBVIOUS
  <1>1. DeskTypeOK
    BY DEF Init, DeskTypeOK
  <1>2. PaidIsApproved
    BY DEF Init, PaidIsApproved, Exists
  <1>3. RequestsOK /\ PairsOK
    BY DEF Init, RequestsOK, PairsOK, Running
  <1>4. DocumentsOK
    BY DEF Init, DocumentsOK, DocumentOK, OneEach
  <1>5. KnownOK
    BY DEF Init, KnownOK, Running
  <1>6. QED
    BY <1>1, <1>2, <1>3, <1>4, <1>5 DEF DeskInvariant

(* What the sets of rows and of requests say of their members.             *)
LEMMA RowFields ==
    ASSUME NEW r \in Row
    PROVE  /\ r # None /\ r.kind \in {"invoice", "expense"}
           /\ r.data \in Written /\ r.paid \in Nat /\ r.data.total \in Nat
           /\ r.kind = "expense" => r.paid = 0 /\ r.data \in Contents
                  /\ r.status \in {"submitted", "validated", "blocked", "approved", "rejected"}
           /\ r.kind = "invoice" =>
                  r.status \in {"received", "validated", "blocked", "approved", "posted", "void"}
  BY NoneAssumption, ContentsAssumption DEF Row, InvoiceRow, ExpenseRow, Written, Blank

LEMMA RequestFields ==
    ASSUME NEW k \in Request
    PROVE  /\ k # None /\ k.op \in {"submit", "repeat", "validate", "correct", "accept"}
           /\ k.invoice \in Invoices /\ k.doc \in Row
           /\ k.accepts \in OVERRIDABLE \union {None}
           /\ k.at \in {"capture", "lock", "commit"} /\ k.found \subseteq Item
  BY NoneAssumption DEF Request

(* A request that begins with a copy of the document.                      *)
LEMMA NewRequestFields ==
    ASSUME NEW op \in {"submit", "repeat", "validate", "correct", "accept"}, NEW i \in Invoices,
           NEW doc \in Row
    PROVE  /\ NewRequest(op, i, doc) \in Request
           /\ NewRequest(op, i, doc).op = op /\ NewRequest(op, i, doc).invoice = i
           /\ NewRequest(op, i, doc).doc = doc /\ NewRequest(op, i, doc).accepts = None
           /\ NewRequest(op, i, doc).at = "lock" /\ NewRequest(op, i, doc).found = {}
  BY DEF NewRequest, Request

(* A validation finds each kind of trouble once, and only its own kinds.   *)
LEMMA ValidationFields ==
    ASSUME NEW k \in Request
    PROVE  /\ Validation(k) \in Request
           /\ Validation(k).op = k.op /\ Validation(k).invoice = k.invoice
           /\ Validation(k).doc = k.doc /\ Validation(k).accepts = k.accepts
           /\ Validation(k).at = "commit"
           /\ OneEach(Validation(k).found)
           /\ Types(Validation(k).found) \subseteq VALIDATOR_TYPES
  <1> DEFINE waived == AcceptedTypes(k.invoice, k.doc.data) \union {k.accepts}
             F == {Finding(t, k.invoice, k.doc) : t \in Flagged(k.invoice, k.doc) \ waived}
  <1>1. Validation(k) = [k EXCEPT !.at = "commit", !.found = F]
    BY DEF Validation
  <1>2. Flagged(k.invoice, k.doc) \subseteq VALIDATOR_TYPES
    BY DEF Flagged
  <1>3. \A t : Finding(t, k.invoice, k.doc).type = t
    BY DEF Finding
  <1>4. k.doc.data.total \in {d.total : d \in Written} /\ 0 \in {d.total : d \in Written}
    <2>1. k.doc.data \in Written
      BY RowFields, RequestFields
    <2>2. Blank \in Written /\ Blank.total = 0
      BY DEF Written, Blank
    <2>3. QED
      BY <2>1, <2>2
  <1>5. Matches(k.invoice, k.doc) \in SUBSET Invoices
    BY DEF Matches
  <1>6. \A t \in VALIDATOR_TYPES : Finding(t, k.invoice, k.doc) \in Item
    BY <1>4, <1>5 DEF Finding, Item
  <1>7. F \subseteq Item
    BY <1>2, <1>6
  <1>8. OneEach(F) /\ Types(F) \subseteq VALIDATOR_TYPES
    BY <1>2, <1>3 DEF OneEach, Types
  <1> HIDE DEF F
  <1>9. /\ [k EXCEPT !.at = "commit", !.found = F] \in Request
        /\ Validation(k).op = k.op /\ Validation(k).invoice = k.invoice
        /\ Validation(k).doc = k.doc /\ Validation(k).accepts = k.accepts
        /\ Validation(k).at = "commit" /\ Validation(k).found = F
    BY <1>1, <1>7 DEF Request
  <1>10. QED
    BY <1>1, <1>8, <1>9

(* A step that touches one document, and no request but c, leaves what is  *)
(* said of the other documents and requests as it was.  (None for c: no    *)
(* request at all.)                                                        *)
LEMMA OnlyOne ==
    ASSUME RequestsOK, PairsOK, DocumentsOK, NEW i \in Invoices, NEW c,
           \A j \in Invoices \ {i} : row'[j] = row[j] /\ open'[j] = open[j],
           \A e \in Calls \ {c} : call'[e] = call[e],
           \A e \in Running : call[e].invoice \in Invoices,
           row'[i] # None,
           \A e \in Running \ {c} : call[e].invoice = i => RequestOK(call[e], row'[i], open'[i]),
           c \in Running' => /\ call'[c].invoice = i
                             /\ RequestOK(call'[c], row'[i], open'[i])
                             /\ \A e \in Running \ {c} :
                                   PairOK(call'[c], call[e]) /\ PairOK(call[e], call'[c]),
           DocumentOK(i, row'[i], open'[i])
    PROVE  RequestsOK' /\ PairsOK' /\ DocumentsOK'
  <1>1. \A e \in Running' : e = c \/ (e \in Running /\ e # c /\ call'[e] = call[e])
    BY DEF Running
  <1>2. RequestsOK'
    <2> SUFFICES ASSUME NEW e \in Running'
                 PROVE  /\ row'[call'[e].invoice] # None
                        /\ RequestOK(call'[e], row'[call'[e].invoice], open'[call'[e].invoice])
      BY DEF RequestsOK, Exists
    <2>1. CASE e = c
      BY <2>1
    <2>2. CASE e # c /\ call[e].invoice = i
      BY <1>1, <2>2
    <2>3. CASE e # c /\ call[e].invoice # i
      <3>1. /\ call'[e] = call[e] /\ e \in Running
            /\ row'[call[e].invoice] = row[call[e].invoice]
            /\ open'[call[e].invoice] = open[call[e].invoice]
        BY <1>1, <2>3
      <3>2. QED
        BY <3>1 DEF RequestsOK, Exists
    <2>4. QED
      BY <2>1, <2>2, <2>3
  <1>3. PairsOK'
    BY <1>1 DEF PairsOK
  <1>4. DocumentsOK'
    BY DEF DocumentsOK
  <1>5. QED
    BY <1>2, <1>3, <1>4
-----------------------------------------------------------------------------
(* What the invariant says of one document and of one request.             *)
LEMMA DeskFacts ==
    ASSUME DeskInvariant
    PROVE  /\ \A i \in Invoices : row[i] # None => row[i] \in Row
           /\ \A i \in Invoices : open[i] \in SUBSET Item /\ DocumentOK(i, row[i], open[i])
           /\ \A c \in Running : /\ c \in Calls /\ call[c] \in Request
                                 /\ call[c].invoice \in Invoices
                                 /\ row[call[c].invoice] \in Row
                                 /\ RequestOK(call[c], row[call[c].invoice], open[call[c].invoice])
           /\ \A c, e \in Running : c # e => PairOK(call[c], call[e])
           /\ \A i \in Invoices : row[i] # None /\ row[i].paid > 0 =>
                 row[i].status \in {"approved", "posted"} /\ row[i].paid <= row[i].data.total
  <1>1. \A i \in Invoices : row[i] # None => row[i] \in Row
    BY DEF DeskInvariant, DeskTypeOK
  <1>2. \A i \in Invoices : open[i] \in SUBSET Item /\ DocumentOK(i, row[i], open[i])
    BY DEF DeskInvariant, DeskTypeOK, DocumentsOK
  <1>3. \A c \in Running : c \in Calls /\ call[c] \in Request
    BY DEF DeskInvariant, DeskTypeOK, Running
  <1>4. \A c \in Running : call[c].invoice \in Invoices
    BY <1>3, RequestFields
  <1>5. \A c \in Running : /\ row[call[c].invoice] # None
                           /\ RequestOK(call[c], row[call[c].invoice], open[call[c].invoice])
    BY DEF DeskInvariant, RequestsOK, Exists
  <1>6. \A c, e \in Running : c # e => PairOK(call[c], call[e])
    BY DEF DeskInvariant, PairsOK
  <1>7. \A i \in Invoices : row[i] # None /\ row[i].paid > 0 =>
           row[i].status \in {"approved", "posted"} /\ row[i].paid <= row[i].data.total
    BY DEF DeskInvariant, PaidIsApproved, Exists
  <1>8. QED
    BY <1>1, <1>2, <1>3, <1>4, <1>5, <1>6, <1>7

(* A document that people are told of stays one they may know.             *)
LEMMA KnownStep ==
    ASSUME DeskInvariant, \A i \in Invoices : row[i] # None => row'[i] # None,
           \A e \in Running' : call'[e].at = "capture" =>
              \/ e \in Running /\ call[e].at = "capture" /\ call'[e].invoice = call[e].invoice
              \/ row[call'[e].invoice] = None,
           \A j \in known' : j \in known \/ Shown(j) \/ Shown(j)',
           \A e \in Running' : \A j \in Named(call'[e]) : Shown(j)
    PROVE  KnownOK'
  <1>1. ASSUME NEW j, Shown(j) PROVE Shown(j)'
    <2>1. j \in Invoices /\ row[j] # None /\ row'[j] # None
      BY <1>1 DEF Shown, Exists
    <2>2. ASSUME j \notin Keyed, NEW e \in Running', call'[e].invoice = j
          PROVE  call'[e].at # "capture"
      BY <1>1, <2>1, <2>2 DEF Shown
    <2>3. QED
      BY <2>1, <2>2 DEF Shown, Exists
  <1>2. \A j \in known : Shown(j)
    BY DEF DeskInvariant, KnownOK
  <1>3. \A j \in known' : Shown(j)'
    BY <1>1, <1>2
  <1>4. \A e \in Running' : \A j \in Named(call'[e]) : Shown(j)'
    BY <1>1
  <1>5. QED
    BY <1>3, <1>4 DEF KnownOK, Named

(* A validation names documents that say something, so none of them is     *)
(* the empty row of a capture.                                             *)
LEMMA ValidationNames ==
    ASSUME DeskInvariant, NEW k \in Request, NEW j \in Named(Validation(k))
    PROVE  Shown(j)
  <1>1. Validation(k).found =
          {Finding(t, k.invoice, k.doc) :
             t \in Flagged(k.invoice, k.doc) \ (AcceptedTypes(k.invoice, k.doc.data) \union {k.accepts})}
    BY DEF Validation, Request
  <1>2. PICK t \in Flagged(k.invoice, k.doc) : j \in Finding(t, k.invoice, k.doc).matches
    BY <1>1 DEF Named
  <1>3. t = "duplicate_invoice" /\ j \in Matches(k.invoice, k.doc)
    BY <1>2 DEF Finding
  <1>4. k.doc.data \in Contents
    BY <1>2, <1>3, RequestFields, RowFields DEF Flagged, Written
  <1>5. j \in Invoices /\ row[j] # None /\ row[j].data.key # None
    BY <1>3, <1>4, ContentsAssumption DEF Matches, Exists
  <1>6. ASSUME j \notin Keyed, NEW c \in Running, call[c].invoice = j, call[c].at = "capture"
        PROVE  FALSE
    <2>1. row[j].data = Blank
      BY <1>6, DeskFacts DEF RequestOK
    <2>2. QED
      BY <1>5, <2>1 DEF Blank
  <1>7. QED
    BY <1>5, <1>6 DEF Shown, Exists

(* What is final stays so.                                                 *)
Kept == \A i \in Invoices \ Keyed : Submitting(i) = {} => StaysFinal(i)

(* A step of request c on document i, or of a person when c is None.       *)
LEMMA OneStep ==
    ASSUME DeskInvariant, NEW i \in Invoices, NEW new \in Row, NEW items \in SUBSET Item, NEW c,
           row' = [row EXCEPT ![i] = new], open' = [open EXCEPT ![i] = items],
           accepted' \in [Invoices -> SUBSET [type : OVERRIDABLE, data : Written]],
           call' \in [Calls -> Request \union {None}],
           \A e \in Calls \ {c} : call'[e] = call[e],
           new.paid > 0 => new.status \in {"approved", "posted"} /\ new.paid <= new.data.total,
           \A e \in Running \ {c} : call[e].invoice = i => RequestOK(call[e], new, items),
           c \in Running' => /\ call'[c].invoice = i
                             /\ RequestOK(call'[c], new, items)
                             /\ \A e \in Running \ {c} :
                                   PairOK(call'[c], call[e]) /\ PairOK(call[e], call'[c])
                             /\ call'[c].at # "capture" \/ row[i] = None
                             /\ \A j \in Named(call'[c]) : Shown(j),
           DocumentOK(i, new, items),
           \A j \in known' : j \in known \/ Shown(j) \/ Shown(j)',
           i \notin Keyed /\ Submitting(i) = {} => StaysFinal(i)
    PROVE  DeskInvariant' /\ Kept
  <1>1. row \in [Invoices -> Row \union {None}] /\ open \in [Invoices -> SUBSET Item]
    BY DEF DeskInvariant, DeskTypeOK
  <1>2. /\ row'[i] = new /\ open'[i] = items /\ new # None
        /\ \A j \in Invoices \ {i} : row'[j] = row[j] /\ open'[j] = open[j]
    BY <1>1, RowFields
  <1>0. KnownOK'
    <2>1. \A e \in Running' : e = c \/ (e \in Running /\ call'[e] = call[e])
      BY DEF Running
    <2>2. \A e \in Running : \A j \in Named(call[e]) : Shown(j)
      BY DEF DeskInvariant, KnownOK
    <2>3. \A e \in Running' : \A j \in Named(call'[e]) : Shown(j)
      BY <2>1, <2>2
    <2>4. \A j \in Invoices : row[j] # None => row'[j] # None
      BY <1>2
    <2>5. \A e \in Running' : call'[e].at = "capture" =>
              \/ e \in Running /\ call[e].at = "capture" /\ call'[e].invoice = call[e].invoice
              \/ row[call'[e].invoice] = None
      BY <2>1
    <2>6. QED
      BY <2>3, <2>4, <2>5, KnownStep
  <1>3. DeskTypeOK'
    <2>1. row' \in [Invoices -> Row \union {None}] /\ open' \in [Invoices -> SUBSET Item]
      BY <1>1
    <2>2. known' \subseteq Invoices
      BY <1>0 DEF KnownOK, Shown
    <2>3. QED
      BY <2>1, <2>2 DEF DeskTypeOK
  <1>4. PaidIsApproved'
    <2> SUFFICES ASSUME NEW j \in Invoices, row'[j] # None, row'[j].paid > 0
                 PROVE  /\ row'[j].kind = "invoice" /\ row'[j].status \in {"approved", "posted"}
                        /\ row'[j].paid <= row'[j].data.total
      BY DEF PaidIsApproved, Exists
    <2>1. CASE j = i
      <3>1. new.kind = "invoice"
        BY <1>2, <2>1, RowFields
      <3>2. QED
        BY <1>2, <2>1, <3>1
    <2>2. CASE j # i
      BY <1>2, <2>2 DEF DeskInvariant, PaidIsApproved, Exists
    <2>3. QED
      BY <2>1, <2>2
  <1>5. RequestsOK' /\ PairsOK' /\ DocumentsOK'
    <2>1. RequestsOK /\ PairsOK /\ DocumentsOK
      BY DEF DeskInvariant
    <2>2. \A e \in Running : call[e].invoice \in Invoices
      BY DeskFacts
    <2>3. QED
      BY <1>2, <2>1, <2>2, OnlyOne
  <1>6. Kept
    <2> SUFFICES ASSUME NEW j \in Invoices \ Keyed, Submitting(j) = {} PROVE StaysFinal(j)
      BY DEF Kept
    <2>1. CASE j = i
      BY <2>1
    <2>2. CASE j # i
      <3>1. row'[j] = row[j] /\ (row[j] # None => row[j].paid \in Nat)
        BY <1>2, <2>2, DeskFacts, RowFields
      <3>2. QED
        BY <3>1 DEF StaysFinal, Exists
    <2>3. QED
      BY <2>1, <2>2
  <1>7. QED
    BY <1>0, <1>3, <1>4, <1>5, <1>6 DEF DeskInvariant

(* A step that only moves request c, or ends it, and changes no document.  *)
LEMMA OneRequest ==
    ASSUME DeskInvariant, NEW c \in Calls, NEW k \in Request \union {None},
           UNCHANGED <<row, open, accepted>>, call' = [call EXCEPT ![c] = k],
           \A j \in known' : j \in known \/ Shown(j),
           k # None => /\ row[k.invoice] # None /\ k.at # "capture"
                       /\ RequestOK(k, row[k.invoice], open[k.invoice])
                       /\ \A e \in Running \ {c} : PairOK(k, call[e]) /\ PairOK(call[e], k)
                       /\ \A j \in Named(k) : Shown(j)
    PROVE  DeskInvariant' /\ Kept
  <1>1. call \in [Calls -> Request \union {None}]
    BY DEF DeskInvariant, DeskTypeOK
  <1>2. call'[c] = k /\ \A e \in Calls \ {c} : call'[e] = call[e]
    BY <1>1
  <1>4. \A e \in Running' : \/ e = c /\ call'[e] = k /\ k # None
                            \/ e # c /\ e \in Running /\ call'[e] = call[e]
    BY <1>2 DEF Running
  <1>0. KnownOK'
    <2>1. \A e \in Running : \A j \in Named(call[e]) : Shown(j)
      BY DEF DeskInvariant, KnownOK
    <2>2. \A e \in Running' : \A j \in Named(call'[e]) : Shown(j)
      BY <1>4, <2>1
    <2>3. \A e \in Running' : call'[e].at = "capture" =>
              e \in Running /\ call[e].at = "capture" /\ call'[e].invoice = call[e].invoice
      BY <1>4
    <2>4. QED
      BY <2>2, <2>3, KnownStep
  <1>3. DeskTypeOK' /\ PaidIsApproved' /\ DocumentsOK'
    <2>1. call' \in [Calls -> Request \union {None}] /\ known' \subseteq Invoices
      BY <1>0, <1>1 DEF KnownOK, Shown
    <2>2. QED
      BY <2>1 DEF DeskInvariant, DeskTypeOK, PaidIsApproved, DocumentsOK, Exists
  <1>5. RequestsOK'
    <2> SUFFICES ASSUME NEW e \in Running'
                 PROVE  /\ row[call'[e].invoice] # None
                        /\ RequestOK(call'[e], row[call'[e].invoice], open[call'[e].invoice])
      BY DEF RequestsOK, Exists
    <2>1. CASE e = c
      BY <1>4, <2>1
    <2>2. CASE e # c
      BY <1>4, <2>2 DEF DeskInvariant, RequestsOK, Exists
    <2>3. QED
      BY <2>1, <2>2
  <1>6. PairsOK'
    BY <1>4 DEF DeskInvariant, PairsOK
  <1>7. Kept
    <2>1. \A i \in Invoices : row[i] # None => row[i].paid \in Nat
      BY DeskFacts, RowFields
    <2>2. QED
      BY <2>1 DEF Kept, StaysFinal, Exists
  <1>8. QED
    BY <1>0, <1>3, <1>5, <1>6, <1>7 DEF DeskInvariant

(* A request that waits for the lock does not mind what happens to the     *)
(* document, if the exception it has locked stays open; nor does one that  *)
(* waits for the LLM, if the document can be submitted again.              *)
LEMMA Waiting ==
    ASSUME NEW k \in Request, NEW r, NEW o, NEW new, NEW items,
           RequestOK(k, r, o), k.at # "commit", new.kind = r.kind,
           k.invoice \notin Keyed => k.at # "capture",
           k.at = "lock" /\ k.accepts # None => k.accepts \in Types(items)
    PROVE  RequestOK(k, new, items)
  BY RequestFields DEF RequestOK
-----------------------------------------------------------------------------
(* Steps that read and start or end a request, and write nothing.          *)

(* A repeat reads what there is, whoever works on it.                      *)
LEMMA ResubmitStep ==
    ASSUME DeskInvariant, NEW c \in Calls, NEW i \in Invoices, Resubmit(c, i)
    PROVE  DeskInvariant' /\ Kept
  <1> DEFINE k == NewRequest("repeat", i, row[i])
  <1>1. row[i] \in Row /\ row[i] # None /\ i \in Keyed
    BY DeskFacts DEF Resubmit, Exists
  <1>2. /\ k \in Request /\ k.op = "repeat" /\ k.invoice = i /\ k.doc = row[i]
        /\ k.accepts = None /\ k.at = "lock" /\ k.found = {}
    BY <1>1, NewRequestFields
  <1>3. call' = [call EXCEPT ![c] = k] /\ UNCHANGED <<row, open, accepted, known>>
    BY DEF Resubmit, Begin
  <1> HIDE DEF k
  <1>4. RequestOK(k, row[i], open[i])
    BY <1>1, <1>2 DEF RequestOK, OneEach, Types
  <1>5. \A e \in Running \ {c} : PairOK(k, call[e]) /\ PairOK(call[e], k)
    BY <1>1, <1>2 DEF PairOK
  <1>6. \A j \in Named(k) : Shown(j)
    BY <1>2 DEF Named
  <1>7. QED
    BY <1>1, <1>2, <1>3, <1>4, <1>5, <1>6, OneRequest

(* Whoever knows a document that is submitted once meets no capture of it. *)
LEMMA NoCapture ==
    ASSUME DeskInvariant, NEW i, Available(i), i \notin Keyed,
           NEW e \in Running, call[e].invoice = i
    PROVE  call[e].at # "capture"
  BY DEF DeskInvariant, KnownOK, Shown, Available

(* A validation that has just got the lock of a document that is open.     *)
LEMMA LockedStep ==
    ASSUME DeskInvariant, NEW c \in Calls, NEW i \in Invoices,
           NEW op \in {"validate", "correct"}, NEW doc \in Row,
           Available(i), Unlocked(i), ~Closed(row[i]),
           doc.kind = row[i].kind, doc.status = row[i].status,
           call' = [call EXCEPT ![c] = Validation(NewRequest(op, i, doc))],
           UNCHANGED <<row, open, accepted, known>>
    PROVE  DeskInvariant' /\ Kept
  <1> DEFINE n == NewRequest(op, i, doc)
             k == Validation(n)
  <1>1. /\ n \in Request /\ n.op = op /\ n.invoice = i /\ n.doc = doc /\ n.accepts = None
    BY NewRequestFields
  <1> HIDE DEF n
  <1>0. \A j \in Named(k) : Shown(j)
    BY <1>1, ValidationNames
  <1>2. /\ k \in Request /\ k.op = op /\ k.invoice = i /\ k.doc = doc /\ k.accepts = None
        /\ k.at = "commit" /\ OneEach(k.found) /\ Types(k.found) \subseteq VALIDATOR_TYPES
    BY <1>1, ValidationFields
  <1>3. call' = [call EXCEPT ![c] = k]
    BY DEF n
  <1> HIDE DEF k
  <1>4. RequestOK(k, row[i], open[i])
    BY <1>2 DEF RequestOK
  <1>5. \A e \in Running \ {c} : PairOK(k, call[e]) /\ PairOK(call[e], k)
    BY <1>2, NoCapture DEF Unlocked, On, PairOK
  <1>6. row[i] # None
    BY DEF Available, Exists
  <1>7. QED
    BY <1>0, <1>2, <1>3, <1>4, <1>5, <1>6, OneRequest

LEMMA RevalidateStep ==
    ASSUME DeskInvariant, NEW c \in Calls, NEW i \in Invoices, Revalidate(c, i)
    PROVE  DeskInvariant' /\ Kept
  <1>1. row[i] \in Row
    BY DeskFacts DEF Revalidate, Available, Exists
  <1>2. QED
    BY <1>1, LockedStep DEF Revalidate, Begin

LEMMA CorrectStep ==
    ASSUME DeskInvariant, NEW c \in Calls, NEW i \in Invoices, NEW d \in Contents,
           Correct(c, i, d)
    PROVE  DeskInvariant' /\ Kept
  <1> DEFINE doc == [row[i] EXCEPT !.data = d]
  <1>1. row[i] \in Row
    BY DeskFacts DEF Correct, Available, Exists
  <1>2. doc \in Row /\ doc.kind = row[i].kind /\ doc.status = row[i].status
    BY <1>1 DEF Row, InvoiceRow, ExpenseRow, Written
  <1>3. ~Closed(row[i])
    BY DEF Correct, Editable, EDITABLE_INVOICE_STATUSES, EDITABLE_EXPENSE_STATUSES, Closed, Withdrawn
  <1>4. /\ call' = [call EXCEPT ![c] = Validation(NewRequest("correct", i, doc))]
        /\ UNCHANGED <<row, open, accepted, known>> /\ Available(i) /\ Unlocked(i)
    BY DEF Correct, Begin
  <1> HIDE DEF doc
  <1>5. QED
    BY <1>2, <1>3, <1>4, LockedStep

(* What is accepted is open, so the document has not passed.               *)
LEMMA AcceptStep ==
    ASSUME DeskInvariant, NEW c \in Calls, NEW i \in Invoices, NEW t \in OVERRIDABLE,
           Accept(c, i, t)
    PROVE  DeskInvariant' /\ Kept
  <1> DEFINE n == NewRequest("accept", i, row[i])
             k == [n EXCEPT !.accepts = t]
  <1>1. row[i] \in Row /\ row[i] # None
    BY DeskFacts DEF Accept, Available, Exists
  <1>2. /\ n \in Request /\ n.op = "accept" /\ n.invoice = i /\ n.doc = row[i]
        /\ n.at = "lock" /\ n.found = {}
    BY <1>1, NewRequestFields
  <1>3. call' = [call EXCEPT ![c] = k] /\ UNCHANGED <<row, open, accepted, known>>
    BY DEF Accept, Begin
  <1> HIDE DEF n
  <1>4. /\ k \in Request /\ k.op = "accept" /\ k.invoice = i /\ k.doc = row[i]
        /\ k.accepts = t /\ k.at = "lock" /\ k.found = {}
    BY <1>2 DEF Request
  <1> HIDE DEF k
  <1>5. t \in Types(open[i]) /\ t # None
    BY NoneAssumption DEF Accept
  <1>6. i \notin Keyed => Undecided(row[i])
    <2>1. open[i] # {}
      BY <1>5 DEF Types
    <2>2. QED
      BY <1>1, <2>1, DeskFacts DEF DocumentOK
  <1>7. RequestOK(k, row[i], open[i])
    BY <1>4, <1>5, <1>6 DEF RequestOK, OneEach, Types
  <1>8. \A e \in Running \ {c} : PairOK(k, call[e]) /\ PairOK(call[e], k)
    BY <1>4, NoCapture DEF Accept, PairOK
  <1>9. \A j \in Named(k) : Shown(j)
    BY <1>4 DEF Named
  <1>10. QED
    BY <1>1, <1>3, <1>4, <1>7, <1>8, <1>9, OneRequest

(* An acceptance that waited finds the document undecided.                 *)
LEMMA LockStep ==
    ASSUME DeskInvariant, NEW c \in Calls, Lock(c)
    PROVE  DeskInvariant' /\ Kept
  <1> DEFINE l == call[c]
             i == l.invoice
             k == Validation(l)
  <1>1. /\ c \in Running /\ l.at = "lock" /\ Unlocked(i) /\ UNCHANGED <<row, open, accepted>>
    BY DEF Lock
  <1>0. Shown(i)
    <2>1. i \in Invoices /\ row[i] # None
      BY <1>1, DeskFacts, RowFields
    <2>2. ASSUME i \notin Keyed, NEW e \in Running, call[e].invoice = i PROVE call[e].at # "capture"
      BY <1>1, <2>2, DeskFacts DEF PairOK
    <2>3. QED
      BY <2>1, <2>2 DEF Shown, Exists
  <1>2. /\ l \in Request /\ i \in Invoices /\ row[i] \in Row /\ RequestOK(l, row[i], open[i])
        /\ \A e \in Running \ {c} : PairOK(l, call[e]) /\ PairOK(call[e], l)
        /\ DocumentOK(i, row[i], open[i])
    BY <1>1, DeskFacts
  <1>3. CASE Closed(l.doc)
    <2>1. call' = [call EXCEPT ![c] = None] /\ known' = known \union {i}
      BY <1>3 DEF Lock, End, Learn
    <2>2. QED
      BY <1>0, <1>1, <2>1, OneRequest
  <1>4. CASE ~Closed(l.doc)
    <2>1. call' = [call EXCEPT ![c] = k] /\ known' = known
      BY <1>4 DEF Lock
    <2>0. \A j \in Named(k) : Shown(j)
      BY <1>2, ValidationNames
    <2>2. /\ k \in Request /\ k.op = l.op /\ k.invoice = i /\ k.doc = l.doc
          /\ k.accepts = l.accepts
          /\ k.at = "commit" /\ OneEach(k.found) /\ Types(k.found) \subseteq VALIDATOR_TYPES
      BY <1>2, ValidationFields
    <2> HIDE DEF k
    <2>3. row[i] # None
      BY <1>2, RowFields
    <2>4. l.op = "accept" /\ i \notin Keyed => Undecided(row[i])
      <3>1. l.op = "accept" => open[i] # {}
        BY <1>1, <1>2 DEF RequestOK, Types
      <3>2. QED
        BY <1>2, <2>3, <3>1 DEF DocumentOK
    <2>5. RequestOK(k, row[i], open[i])
      BY <1>1, <1>2, <1>4, <2>2, <2>4, RequestFields DEF RequestOK
    <2>6. \A e \in Running \ {c} : PairOK(k, call[e]) /\ PairOK(call[e], k)
      BY <1>1, <1>2, <2>2 DEF PairOK, Unlocked, On
    <2>7. QED
      BY <1>1, <2>0, <2>1, <2>2, <2>3, <2>5, <2>6, OneRequest
  <1>5. QED
    BY <1>3, <1>4

LEMMA AbortStep ==
    ASSUME DeskInvariant, NEW c \in Calls, Abort(c)
    PROVE  DeskInvariant' /\ Kept
  BY OneRequest DEF Abort, End
-----------------------------------------------------------------------------
(* Steps of a submission that write.                                       *)

(* The row is new, so nobody has a request about it.                       *)
LEMMA NewDocument ==
    ASSUME DeskInvariant, NEW c \in Calls, NEW i \in Invoices, NEW new \in Row, NEW k \in Request,
           ~Exists(i), row' = [row EXCEPT ![i] = new], UNCHANGED <<open, accepted, known>>,
           call' = [call EXCEPT ![c] = k],
           new.paid = 0, new.status \in {"received", "submitted"},
           k.op = "submit", k.invoice = i, k.doc = new, k.accepts = None, k.found = {},
           k.at \in {"lock", "capture"},
           k.at = "capture" => /\ i \in FromText /\ new.kind = "invoice"
                               /\ new.status = "received" /\ new.data = Blank
    PROVE  DeskInvariant' /\ Kept
  <1>1. /\ accepted' \in [Invoices -> SUBSET [type : OVERRIDABLE, data : Written]]
        /\ call' \in [Calls -> Request \union {None}] /\ call'[c] = k
        /\ \A e \in Calls \ {c} : call'[e] = call[e]
        /\ open \in [Invoices -> SUBSET Item]
    BY DEF DeskInvariant, DeskTypeOK
  <1>2. \A e \in Running : call[e].invoice # i
    BY DEF DeskInvariant, RequestsOK
  <1>3. RequestOK(k, new, open[i])
    BY DEF RequestOK, OneEach, Types
  <1>4. \A e \in Running \ {c} : PairOK(k, call[e]) /\ PairOK(call[e], k)
    BY <1>2 DEF PairOK
  <1>10. row[i] = None /\ \A j \in Named(k) : Shown(j)
    BY DEF Exists, Named
  <1>5. DocumentOK(i, new, open[i])
    BY DeskFacts DEF DocumentOK, Undecided
  <1>6. StaysFinal(i)
    BY DEF StaysFinal
  <1>7. open' = [open EXCEPT ![i] = open[i]] /\ open[i] \in SUBSET Item /\ ~(new.paid > 0)
    BY <1>1
  <1>8. \A e \in Running \ {c} : call[e].invoice = i => RequestOK(call[e], new, open[i])
    BY <1>2
  <1>9. QED
    BY <1>1, <1>3, <1>4, <1>5, <1>6, <1>7, <1>8, <1>10, OneStep

LEMMA SubmitStep ==
    ASSUME DeskInvariant, NEW c \in Calls, NEW i \in Invoices, NEW kind \in Kinds,
           NEW d \in Contents, Submit(c, i, kind, d)
    PROVE  DeskInvariant' /\ Kept
  <1> DEFINE new == Received(kind, d)
             k == NewRequest("submit", i, new)
  <1>1. /\ new \in Row /\ new.paid = 0 /\ new.status \in {"received", "submitted"}
    BY ContentsAssumption DEF Received, Row, InvoiceRow, ExpenseRow, Written
  <1>2. /\ ~Exists(i) /\ row' = [row EXCEPT ![i] = new] /\ UNCHANGED <<open, accepted, known>>
        /\ call' = [call EXCEPT ![c] = k]
    BY DEF Submit, Begin
  <1> HIDE DEF new
  <1>3. /\ k \in Request /\ k.op = "submit" /\ k.invoice = i /\ k.doc = new
        /\ k.accepts = None /\ k.at = "lock" /\ k.found = {}
    BY <1>1, NewRequestFields
  <1> HIDE DEF k
  <1>4. QED
    BY <1>1, <1>2, <1>3, NewDocument

LEMMA SubmitTextStep ==
    ASSUME DeskInvariant, NEW c \in Calls, NEW i \in Invoices, SubmitText(c, i)
    PROVE  DeskInvariant' /\ Kept
  <1> DEFINE new == Received("invoice", Blank)
             n == NewRequest("submit", i, new)
             k == [n EXCEPT !.at = "capture"]
  <1>1. /\ new \in Row /\ new.paid = 0 /\ new.status = "received" /\ new.kind = "invoice"
        /\ new.data = Blank /\ i \in FromText
    BY DEF SubmitText, Received, Row, InvoiceRow, Written
  <1>2. /\ ~Exists(i) /\ row' = [row EXCEPT ![i] = new] /\ UNCHANGED <<open, accepted, known>>
        /\ call' = [call EXCEPT ![c] = k]
    BY DEF SubmitText, Begin
  <1> HIDE DEF new
  <1>3. /\ n \in Request /\ n.op = "submit" /\ n.invoice = i /\ n.doc = new
        /\ n.accepts = None /\ n.found = {}
    BY <1>1, NewRequestFields
  <1> HIDE DEF n
  <1>4. /\ k \in Request /\ k.op = "submit" /\ k.invoice = i /\ k.doc = new
        /\ k.accepts = None /\ k.at = "capture" /\ k.found = {}
    BY <1>3 DEF Request
  <1> HIDE DEF k
  <1>5. QED
    BY <1>1, <1>2, <1>4, NewDocument

(* An exception more, of a type that was not open.                         *)
LEMMA WithItemFields ==
    ASSUME DeskInvariant, NEW i \in Invoices, NEW t \in AI_CAPTURE_TYPES
    PROVE  /\ WithItem(i, t) \in SUBSET Item
           /\ OneEach(WithItem(i, t)) /\ Types(open[i]) \subseteq Types(WithItem(i, t))
  <1>1. open[i] \in SUBSET Item /\ OneEach(open[i])
    BY DeskFacts DEF DocumentOK
  <1>2. [type |-> t, matches |-> {}, total |-> 0] \in Item
    <2>1. Blank \in Written /\ Blank.total = 0
      BY DEF Written, Blank
    <2>2. 0 \in {d.total : d \in Written}
      BY <2>1
    <2>3. QED
      BY <2>2 DEF Item
  <1>3. CASE t \in Types(open[i])
    BY <1>1, <1>3 DEF WithItem
  <1>4. CASE t \notin Types(open[i])
    <2> DEFINE f == [type |-> t, matches |-> {}, total |-> 0]
    <2>1. WithItem(i, t) = open[i] \union {f} /\ f.type = t
      BY <1>4 DEF WithItem
    <2> HIDE DEF f
    <2>2. \A g \in open[i] : g.type # f.type
      BY <1>4, <2>1 DEF Types
    <2>3. OneEach(WithItem(i, t))
      BY <1>1, <2>1, <2>2 DEF OneEach
    <2>4. Types(open[i]) \subseteq Types(WithItem(i, t))
      BY <2>1 DEF Types
    <2>5. WithItem(i, t) \in SUBSET Item
      BY <1>1, <1>2, <2>1 DEF f
    <2>6. QED
      BY <2>3, <2>4, <2>5
  <1>5. QED
    BY <1>3, <1>4

LEMMA CaptureFailsStep ==
    ASSUME DeskInvariant, NEW c \in Calls, NEW t \in AI_CAPTURE_TYPES, CaptureFails(c, t)
    PROVE  DeskInvariant' /\ Kept
  <1> DEFINE l == call[c]
             i == l.invoice
             k == [l EXCEPT !.at = "lock"]
             items == WithItem(i, t)
  <1>1. /\ c \in Running /\ l.at = "capture" /\ UNCHANGED <<row, accepted>>
        /\ open' = [open EXCEPT ![i] = items] /\ call' = [call EXCEPT ![c] = k]
        /\ known' = known \union {i}
    BY DEF CaptureFails, Learn
  <1>2. /\ l \in Request /\ i \in Invoices /\ row[i] \in Row /\ RequestOK(l, row[i], open[i])
        /\ \A e \in Running \ {c} : PairOK(l, call[e]) /\ PairOK(call[e], l)
        /\ DocumentOK(i, row[i], open[i])
    BY <1>1, DeskFacts
  <1>3. /\ k \in Request /\ k.op = l.op /\ k.invoice = i /\ k.doc = l.doc
        /\ k.accepts = l.accepts /\ k.at = "lock" /\ k.found = l.found
    BY <1>2 DEF Request
  <1>4. l.op = "submit" /\ l.accepts = None
    BY <1>1, <1>2 DEF RequestOK
  <1>5. /\ items \in SUBSET Item /\ OneEach(items) /\ Types(open[i]) \subseteq Types(items)
    BY <1>2, WithItemFields
  <1> HIDE DEF k, items
  <1>6. RequestOK(k, row[i], items)
    BY <1>2, <1>3, <1>4 DEF RequestOK
  <1>7. \A e \in Running \ {c} : PairOK(k, call[e]) /\ PairOK(call[e], k)
    BY <1>2, <1>3 DEF PairOK
  <1>8. ASSUME NEW e \in Running \ {c}, call[e].invoice = i
        PROVE  RequestOK(call[e], row[i], items)
    <2>1. RequestOK(call[e], row[i], open[i])
      BY <1>8, DeskFacts
    <2>2. QED
      BY <1>5, <2>1 DEF RequestOK
  <1>9. row[i] # None /\ (i \notin Keyed => row[i].status = "received")
    BY <1>1, <1>2, RowFields DEF RequestOK
  <1>10. DocumentOK(i, row[i], items)
    BY <1>2, <1>5, <1>9 DEF DocumentOK, Undecided
  <1>11. /\ row \in [Invoices -> Row \union {None}]
         /\ accepted' \in [Invoices -> SUBSET [type : OVERRIDABLE, data : Written]]
         /\ call' \in [Calls -> Request \union {None}] /\ call'[c] = k
         /\ \A e \in Calls \ {c} : call'[e] = call[e]
    BY <1>1, <1>3 DEF DeskInvariant, DeskTypeOK
  <1>12. row' = [row EXCEPT ![i] = row[i]]
    BY <1>1, <1>11
  <1>16. ASSUME NEW j, j = i PROVE Shown(j)'
    BY <1>1, <1>2, <1>3, <1>9, <1>11, <1>16 DEF Shown, Exists, Running, PairOK
  <1>17. \A j \in Named(k) : Shown(j)
    BY <1>1, <1>3 DEF DeskInvariant, KnownOK, Named
  <1>13. row[i].paid > 0 => row[i].status \in {"approved", "posted"} /\ row[i].paid <= row[i].data.total
    BY <1>2, <1>9, DeskFacts
  <1>14. i \notin Keyed => StaysFinal(i)
    BY <1>9 DEF StaysFinal, Withdrawn
  <1>15. QED
    BY <1>1, <1>2, <1>3, <1>5, <1>6, <1>7, <1>8, <1>10, <1>11, <1>12, <1>13, <1>14, <1>16, <1>17, OneStep

(* The capture has the lock while it writes, and is the only request about *)
(* a document that is submitted once.                                      *)
LEMMA CaptureStep ==
    ASSUME DeskInvariant, NEW c \in Calls, NEW d \in Contents, NEW sure \in BOOLEAN,
           Capture(c, d, sure)
    PROVE  DeskInvariant' /\ Kept
  <1> DEFINE l == call[c]
             i == l.invoice
             k == [l EXCEPT !.at = "lock", !.doc.data = d]
             new == [row[i] EXCEPT !.data = d]
             items == IF sure THEN open[i] ELSE WithItem(i, "low_confidence")
  <1>1. /\ c \in Running /\ l.at = "capture" /\ UNCHANGED accepted /\ Unlocked(i)
        /\ Update(i, new) /\ call' = [call EXCEPT ![c].at = "lock", ![c].doc.data = d]
        /\ open' = [open EXCEPT ![i] = IF sure THEN @ ELSE WithItem(i, "low_confidence")]
        /\ known' \in {known, known \union {i}}
    BY DEF Capture, Learn
  <1>2. /\ l \in Request /\ i \in Invoices /\ row[i] \in Row /\ RequestOK(l, row[i], open[i])
        /\ \A e \in Running \ {c} : PairOK(l, call[e]) /\ PairOK(call[e], l)
        /\ DocumentOK(i, row[i], open[i]) /\ open[i] \in SUBSET Item
    BY <1>1, DeskFacts
  <1>3. /\ new \in Row /\ new.kind = row[i].kind /\ new.status = row[i].status
        /\ new.paid = row[i].paid
    BY <1>2 DEF Row, InvoiceRow, ExpenseRow, Written
  <1>4. l.doc \in Row /\ [l.doc EXCEPT !.data = d] \in Row
    BY <1>2, RequestFields DEF Row, InvoiceRow, ExpenseRow, Written
  <1>5. /\ k \in Request /\ k.op = l.op /\ k.invoice = i /\ k.accepts = l.accepts
        /\ k.at = "lock" /\ k.found = l.found /\ k.doc = [l.doc EXCEPT !.data = d]
    BY <1>2, <1>4 DEF Request
  <1>6. /\ l.op = "submit" /\ l.accepts = None /\ row[i].kind = "invoice"
        /\ l.doc.kind = row[i].kind /\ l.doc.status \in {"received", "submitted"}
    BY <1>1, <1>2 DEF RequestOK
  <1>7. k.doc.kind = new.kind /\ k.doc.status = l.doc.status
    BY <1>2, <1>3, <1>4, <1>5, <1>6, RequestFields DEF Row, InvoiceRow, ExpenseRow
  <1>8. /\ items \in SUBSET Item /\ OneEach(items) /\ Types(open[i]) \subseteq Types(items)
    <2>1. OneEach(open[i]) /\ "low_confidence" \in AI_CAPTURE_TYPES
      BY <1>2 DEF DocumentOK, AI_CAPTURE_TYPES
    <2>2. QED
      BY <1>2, <2>1, WithItemFields
  <1>9. /\ row \in [Invoices -> Row \union {None}] /\ open \in [Invoices -> SUBSET Item]
        /\ accepted' \in [Invoices -> SUBSET [type : OVERRIDABLE, data : Written]]
        /\ call \in [Calls -> Request \union {None}]
    BY <1>1 DEF DeskInvariant, DeskTypeOK
  <1>10. /\ row' = [row EXCEPT ![i] = new] /\ open' = [open EXCEPT ![i] = items]
         /\ new # row[i] => PaymentGuard(new)
    BY <1>1, <1>9 DEF Update
  <1>11. call' = [call EXCEPT ![c] = k]
    BY <1>1, <1>9
  <1> HIDE DEF k, items, new
  <1>12. /\ call' \in [Calls -> Request \union {None}] /\ call'[c] = k
         /\ \A e \in Calls \ {c} : call'[e] = call[e]
    BY <1>5, <1>9, <1>11
  <1>13. /\ row[i] # None /\ i \in FromText
         /\ i \notin Keyed => row[i].status = "received"
    BY <1>1, <1>2, RowFields DEF RequestOK
  <1>14. RequestOK(k, new, items)
    BY <1>2, <1>5, <1>6, <1>7 DEF RequestOK
  <1>15. \A e \in Running \ {c} : PairOK(k, call[e]) /\ PairOK(call[e], k)
    BY <1>2, <1>5 DEF PairOK
  <1>16. ASSUME NEW e \in Running \ {c}, call[e].invoice = i
         PROVE  RequestOK(call[e], new, items)
    <2>1. RequestOK(call[e], row[i], open[i]) /\ call[e] \in Request
      BY <1>16, DeskFacts
    <2>2. call[e].at # "commit"
      BY <1>1, <1>16 DEF Unlocked, On
    <2>3. i \in Keyed
      BY <1>1, <1>2, <1>16 DEF PairOK
    <2>4. call[e].at = "lock" /\ call[e].accepts # None => call[e].accepts \in Types(items)
      BY <1>8, <2>1 DEF RequestOK
    <2>5. QED
      BY <1>3, <1>16, <2>1, <2>2, <2>3, <2>4, Waiting
  <1>17. new.paid > 0 => new.status \in {"approved", "posted"} /\ new.paid <= new.data.total
    BY <1>2, <1>10, <1>13, DeskFacts DEF PaymentGuard
  <1>18. DocumentOK(i, new, items)
    BY <1>3, <1>8, <1>13, <1>17 DEF DocumentOK, Undecided
  <1>19. i \notin Keyed => StaysFinal(i)
    BY <1>13 DEF StaysFinal, Withdrawn
  <1>21. ASSUME NEW j, j = i PROVE Shown(j)'
    <2>1. row'[j] # None
      BY <1>2, <1>3, <1>9, <1>10, <1>21, RowFields
    <2>2. QED
      BY <1>1, <1>2, <1>5, <1>12, <1>21, <2>1 DEF Shown, Exists, Running, PairOK
  <1>22. \A j \in Named(k) : Shown(j)
    BY <1>1, <1>5 DEF DeskInvariant, KnownOK, Named
  <1>20. QED
    BY <1>1, <1>2, <1>3, <1>8, <1>9, <1>10, <1>12, <1>5, <1>14, <1>15, <1>16, <1>17, <1>18, <1>19,
       <1>21, <1>22, OneStep
-----------------------------------------------------------------------------
(* What people do with a document, under its lock.                         *)

LEMMA PersonStep ==
    ASSUME DeskInvariant, NEW i \in Invoices, NEW new \in Row, NEW items \in SUBSET Item,
           Available(i), Unlocked(i), new.kind = row[i].kind,
           row' = [row EXCEPT ![i] = new], open' = [open EXCEPT ![i] = items],
           UNCHANGED <<accepted, known, call>>,
           \A e \in On(i) : call[e].at = "lock" /\ call[e].accepts # None
                               => call[e].accepts \in Types(items),
           new.paid > 0 => new.status \in {"approved", "posted"} /\ new.paid <= new.data.total,
           DocumentOK(i, new, items), StaysFinal(i)
    PROVE  DeskInvariant' /\ Kept
  <1>1. /\ accepted' \in [Invoices -> SUBSET [type : OVERRIDABLE, data : Written]]
        /\ call' \in [Calls -> Request \union {None}]
    BY DEF DeskInvariant, DeskTypeOK
  <1>2. ASSUME NEW e \in Running, call[e].invoice = i
        PROVE  RequestOK(call[e], new, items)
    <2>1. call[e] \in Request /\ RequestOK(call[e], row[i], open[i])
      BY <1>2, DeskFacts
    <2>2. call[e].at # "commit" /\ (i \notin Keyed => call[e].at # "capture")
      BY <1>2, NoCapture DEF Unlocked, On
    <2>3. call[e].at = "lock" /\ call[e].accepts # None => call[e].accepts \in Types(items)
      BY <1>2 DEF On
    <2>4. QED
      BY <1>2, <2>1, <2>2, <2>3, Waiting
  <1>3. None \notin Running' /\ \A e \in Calls \ {None} : call'[e] = call[e]
    BY NoneAssumption DEF Running
  <1>4. QED
    BY <1>1, <1>2, <1>3, OneStep

LEMMA ApproveInvoiceStep ==
    ASSUME DeskInvariant, NEW i \in Invoices, ApproveInvoice(i)
    PROVE  DeskInvariant' /\ Kept
  <1> DEFINE new == [row[i] EXCEPT !.status = "approved"]
  <1>1. row[i] \in Row /\ row[i] # None
    BY DeskFacts DEF ApproveInvoice, Available, Exists
  <1>2. /\ Available(i) /\ Unlocked(i) /\ row[i].status = "validated" /\ Update(i, new)
        /\ UNCHANGED <<open, accepted, known, call>>
    BY DEF ApproveInvoice
  <1>3. /\ new \in Row /\ new.kind = row[i].kind /\ new.status = "approved"
        /\ new.paid = row[i].paid /\ new.data = row[i].data
    BY <1>1, <1>2 DEF Row, InvoiceRow, ExpenseRow
  <1>4. open \in [Invoices -> SUBSET Item]
    BY DEF DeskInvariant, DeskTypeOK
  <1>5. open' = [open EXCEPT ![i] = open[i]] /\ open[i] \in SUBSET Item
    BY <1>2, <1>4
  <1>6. row' = [row EXCEPT ![i] = new]
    BY <1>2 DEF Update
  <1> HIDE DEF new
  <1>7. \A e \in On(i) : call[e].at = "lock" /\ call[e].accepts # None
                            => call[e].accepts \in Types(open[i])
    BY DeskFacts DEF On, RequestOK
  <1>8. ~(new.paid > 0)
    BY <1>1, <1>2, <1>3, DeskFacts
  <1>9. DocumentOK(i, new, open[i])
    <2>1. DocumentOK(i, row[i], open[i]) /\ ~Undecided(row[i])
      BY <1>2, DeskFacts DEF Undecided
    <2>2. QED
      BY <1>1, <1>3, <1>8, <2>1 DEF DocumentOK
  <1>10. StaysFinal(i)
    BY <1>2 DEF StaysFinal, Withdrawn
  <1>11. QED
    BY <1>2, <1>3, <1>5, <1>6, <1>7, <1>8, <1>9, <1>10, PersonStep

LEMMA WithdrawStep ==
    ASSUME DeskInvariant, NEW i \in Invoices, NEW newStatus \in Withdrawn,
           Withdraw(i, newStatus),
           newStatus = IF row[i].kind = "invoice" THEN "void" ELSE "rejected",
           row[i].status \notin {"approved", "posted"}
    PROVE  DeskInvariant' /\ Kept
  <1> DEFINE new == [row[i] EXCEPT !.status = newStatus]
  <1>1. row[i] \in Row /\ row[i] # None
    BY DeskFacts DEF Withdraw, Available, Exists
  <1>2. /\ Available(i) /\ Unlocked(i) /\ Types(open[i]) \intersect Held(i) = {}
        /\ open' = [open EXCEPT ![i] = {}] /\ Update(i, new) /\ UNCHANGED <<accepted, known, call>>
    BY DEF Withdraw
  <1>3. row[i].kind \in {"invoice", "expense"}
    BY <1>1, RowFields
  <1>4. /\ new \in Row /\ new.kind = row[i].kind /\ new.status = newStatus
        /\ new.paid = row[i].paid /\ new.data = row[i].data
        /\ newStatus = row[i].status => new = row[i]
    BY <1>1, <1>3 DEF Row, InvoiceRow, ExpenseRow
  <1>5. row' = [row EXCEPT ![i] = new] /\ row'[i] = new
    <2>1. row \in [Invoices -> Row \union {None}]
      BY DEF DeskInvariant, DeskTypeOK
    <2>2. QED
      BY <1>2, <2>1 DEF Update
  <1> HIDE DEF new
  <1>6. \A e \in On(i) : call[e].at = "lock" => call[e].accepts = None
    <2> SUFFICES ASSUME NEW e \in On(i), call[e].at = "lock", call[e].accepts # None PROVE FALSE
      OBVIOUS
    <2>1. call[e].accepts \in Types(open[i])
      BY DeskFacts DEF On, RequestOK
    <2>2. call[e].accepts \in Held(i)
      BY DEF Held
    <2>3. QED
      BY <1>2, <2>1, <2>2
  <1>7. ~(new.paid > 0)
    BY <1>1, <1>4, DeskFacts
  <1>8. DocumentOK(i, new, {})
    BY <1>4, <1>7 DEF DocumentOK, OneEach, Withdrawn
  <1>9. StaysFinal(i)
    <2>1. row[i].status \in Withdrawn => row[i].status = newStatus
      BY <1>1, <1>3, RowFields DEF Withdrawn
    <2>2. QED
      BY <1>4, <1>5, <2>1 DEF StaysFinal
  <1>10. QED
    BY <1>2, <1>4, <1>5, <1>6, <1>7, <1>8, <1>9, PersonStep

LEMMA VoidInvoiceStep ==
    ASSUME DeskInvariant, NEW i \in Invoices, VoidInvoice(i)
    PROVE  DeskInvariant' /\ Kept
  BY WithdrawStep DEF VoidInvoice, Withdrawn

LEMMA RejectExpenseStep ==
    ASSUME DeskInvariant, NEW i \in Invoices, RejectExpense(i)
    PROVE  DeskInvariant' /\ Kept
  <1>1. row[i].status # "posted"
    BY DeskFacts, RowFields DEF RejectExpense, Exists
  <1>2. QED
    BY <1>1, WithdrawStep DEF RejectExpense, Withdrawn

(* No more than what is open is paid, so the sum reaches the total exactly *)
(* when the document is posted.                                            *)
LEMMA RecordPaymentStep ==
    ASSUME DeskInvariant, NEW i \in Invoices, NEW amount \in Amounts \union {None},
           RecordPayment(i, amount)
    PROVE  DeskInvariant' /\ Kept
  <1> DEFINE value == IF amount = None THEN Outstanding(row[i]) ELSE amount
             status == IF FullyPaid(row[i], value) THEN "posted" ELSE row[i].status
             new == [row[i] EXCEPT !.paid = @ + value,
                                   !.status = IF FullyPaid(row[i], value) THEN "posted" ELSE @]
  <1>1. row[i] \in Row /\ row[i] # None
    BY DeskFacts DEF RecordPayment, Available, Exists
  <1>2. /\ Available(i) /\ Unlocked(i) /\ row[i].kind = "invoice"
        /\ row[i].status \in {"approved", "posted"}
        /\ value > 0 /\ value <= Outstanding(row[i])
        /\ Update(i, new) /\ UNCHANGED <<open, accepted, known, call>>
    BY DEF RecordPayment
  <1>3. row[i].paid \in Nat /\ row[i].data.total \in Nat /\ row[i].paid <= row[i].data.total
    BY <1>1, RowFields, DeskFacts
  <1>4. value \in Nat
    BY <1>3, ContentsAssumption DEF Outstanding
  <1> HIDE DEF value
  <1>5. /\ row[i].paid + value \in Nat /\ row[i].paid + value > 0
        /\ row[i].paid + value >= row[i].paid /\ row[i].paid + value <= row[i].data.total
    BY <1>2, <1>3, <1>4 DEF Outstanding
  <1>6. row[i] \in InvoiceRow
    BY <1>1, <1>2 DEF Row, InvoiceRow, ExpenseRow
  <1>7. status \in {"approved", "posted"}
    BY <1>2
  <1>8. new = [[row[i] EXCEPT !.paid = row[i].paid + value] EXCEPT !.status = status]
    OBVIOUS
  <1> HIDE DEF status, new
  <1>9. /\ new \in Row /\ new.kind = row[i].kind /\ new.status = status
        /\ new.paid = row[i].paid + value /\ new.data = row[i].data
    BY <1>5, <1>6, <1>7, <1>8 DEF Row, InvoiceRow
  <1>10. row' = [row EXCEPT ![i] = new] /\ row'[i] = new
    <2>1. row \in [Invoices -> Row \union {None}]
      BY DEF DeskInvariant, DeskTypeOK
    <2>2. QED
      BY <1>2, <2>1 DEF Update
  <1>11. open' = [open EXCEPT ![i] = open[i]] /\ open[i] \in SUBSET Item
    <2>1. open \in [Invoices -> SUBSET Item]
      BY DEF DeskInvariant, DeskTypeOK
    <2>2. QED
      BY <1>2, <2>1
  <1>12. \A e \in On(i) : call[e].at = "lock" /\ call[e].accepts # None
                             => call[e].accepts \in Types(open[i])
    BY DeskFacts DEF On, RequestOK
  <1>13. DocumentOK(i, row[i], open[i])
    BY DeskFacts
  <1>14. i \notin Keyed \intersect FromText => (status = "posted" <=> row[i].paid + value = row[i].data.total)
    <2> SUFFICES ASSUME i \notin Keyed \intersect FromText
                 PROVE  status = "posted" <=> row[i].paid + value = row[i].data.total
      OBVIOUS
    <2>1. row[i].status # "posted"
      BY <1>1, <1>2, <1>3, <1>4, <1>13 DEF DocumentOK, Outstanding
    <2>2. FullyPaid(row[i], value) <=> row[i].paid + value = row[i].data.total
      BY <1>3, <1>4, <1>5 DEF FullyPaid
    <2>3. QED
      BY <2>1, <2>2 DEF status
  <1>15. DocumentOK(i, new, open[i])
    <2>1. ~Undecided(row[i])
      BY <1>2 DEF Undecided
    <2>2. QED
      BY <1>1, <1>5, <1>9, <1>13, <1>14, <2>1 DEF DocumentOK
  <1>16. StaysFinal(i)
    <2>1. status \in {row[i].status, "posted"} /\ row[i].status \notin Withdrawn
      BY <1>2 DEF status, Withdrawn
    <2>2. QED
      BY <1>5, <1>9, <1>10, <2>1 DEF StaysFinal
  <1>17. new.paid > 0 => new.status \in {"approved", "posted"} /\ new.paid <= new.data.total
    BY <1>5, <1>7, <1>9
  <1>18. QED
    BY <1>2, <1>9, <1>10, <1>11, <1>12, <1>15, <1>16, <1>17, PersonStep
-----------------------------------------------------------------------------
(* The commit of a validation, a correction or an acceptance.              *)

(* What is left open is of a type each, and what a waiting acceptance has  *)
(* locked is among it.                                                     *)
LEMMA LeftOpenFields ==
    ASSUME DeskInvariant, NEW c \in Running
    PROVE  LeftOpen(call[c]) \in SUBSET Item /\ OneEach(LeftOpen(call[c]))
  <1> DEFINE k == call[c]
             i == k.invoice
             old == {f \in open[i] : /\ f.type \in AI_CAPTURE_TYPES
                                     /\ k.op # "correct" /\ f.type # k.accepts}
  <1>1. /\ k \in Request /\ i \in Invoices /\ RequestOK(k, row[i], open[i])
        /\ open[i] \in SUBSET Item /\ DocumentOK(i, row[i], open[i])
    BY DeskFacts
  <1>2. LeftOpen(k) = k.found \union old
    BY DEF LeftOpen
  <1>3. /\ k.found \in SUBSET Item /\ OneEach(k.found) /\ Types(k.found) \subseteq VALIDATOR_TYPES
    BY <1>1, RequestFields DEF RequestOK
  <1>4. /\ old \in SUBSET Item /\ OneEach(old) /\ \A f \in old : f.type \in AI_CAPTURE_TYPES
    BY <1>1 DEF DocumentOK, OneEach
  <1> HIDE DEF k, i, old
  <1>5. \A f \in k.found, g \in old : f.type # g.type
    <2>1. VALIDATOR_TYPES \intersect AI_CAPTURE_TYPES = {}
      BY DEF VALIDATOR_TYPES, AI_CAPTURE_TYPES
    <2>2. \A f \in k.found : f.type \in VALIDATOR_TYPES
      BY <1>3 DEF Types
    <2>3. QED
      BY <1>4, <2>1, <2>2
  <1>6. OneEach(LeftOpen(k)) /\ LeftOpen(k) \in SUBSET Item
    BY <1>2, <1>3, <1>4, <1>5 DEF OneEach
  <1>7. QED
    BY <1>6 DEF k

(* Of a document that is submitted once, the status becomes the outcome:   *)
(* only the first submission may find it final.  What has been paid keeps  *)
(* its status, and its figures unless it is captured anew.                 *)
LEMMA CommitStep ==
    ASSUME DeskInvariant, NEW c \in Calls, Commit(c)
    PROVE  DeskInvariant' /\ Kept
  <1> DEFINE k == call[c]
             i == k.invoice
             items == LeftOpen(k)
             status == IF Outcome(k) = k.doc.status THEN row[i].status ELSE Outcome(k)
             data == IF k.op = "correct" THEN k.doc.data ELSE row[i].data
             new == [[row[i] EXCEPT !.status = status] EXCEPT !.data = data]
             signed == {[type |-> t, data |-> k.doc.data] : t \in {k.accepts} \ {None}}
  <1>1. /\ c \in Running /\ k.at = "commit"
        /\ Types(open[i] \ items) \intersect Held(i) = {}
        /\ open' = [open EXCEPT ![i] = items]
        /\ accepted' = [accepted EXCEPT ![i] = @ \union signed]
        /\ Update(i, new) /\ call' = [call EXCEPT ![c] = None]
        /\ known' = known \union ({i} \union Named(k))
    BY DEF Commit, End, Learn, Named
  <1>2. /\ k \in Request /\ i \in Invoices /\ row[i] \in Row /\ RequestOK(k, row[i], open[i])
        /\ \A e \in Running \ {c} : PairOK(k, call[e]) /\ PairOK(call[e], k)
        /\ DocumentOK(i, row[i], open[i])
    BY <1>1, DeskFacts
  <1>3. items \in SUBSET Item /\ OneEach(items)
    BY <1>1, LeftOpenFields
  <1>4. k.doc \in Row /\ k.accepts \in OVERRIDABLE \union {None} /\ k.doc.kind = row[i].kind
    BY <1>2, RequestFields DEF RequestOK
  <1>5. row[i] # None /\ k.doc.data \in Written /\ row[i].kind \in {"invoice", "expense"}
    BY <1>2, <1>4, RowFields
  <1>6. status \in {row[i].status, "validated", "blocked"}
    BY DEF Outcome
  <1>7. /\ row[i].kind = "invoice" => data \in Written
        /\ row[i].kind = "expense" => data \in Contents
    BY <1>2, <1>4, <1>5, RowFields
  <1>8. /\ row \in [Invoices -> Row \union {None}]
        /\ accepted \in [Invoices -> SUBSET [type : OVERRIDABLE, data : Written]]
        /\ call \in [Calls -> Request \union {None}]
    BY DEF DeskInvariant, DeskTypeOK
  <1>9. signed \in SUBSET [type : OVERRIDABLE, data : Written]
    BY <1>4, <1>5
  <1> HIDE DEF signed
  <1>10. accepted' \in [Invoices -> SUBSET [type : OVERRIDABLE, data : Written]]
    BY <1>1, <1>2, <1>8, <1>9
  <1>11. /\ call' \in [Calls -> Request \union {None}] /\ c \notin Running'
         /\ \A e \in Calls \ {c} : call'[e] = call[e]
    BY <1>1, <1>8 DEF Running
  <1>12. (Outcome(k) = "validated" /\ items = {}) \/ Outcome(k) = "blocked"
    BY DEF Outcome
  <1>13. i \notin Keyed =>
            /\ Submitting(i) = {} => row[i].status \notin {"approved", "posted"} \union Withdrawn
            /\ status \in {"validated", "blocked", "received", "submitted"}
            /\ status = "validated" => items = {}
    <2> SUFFICES ASSUME i \notin Keyed
                 PROVE  /\ Submitting(i) = {} =>
                              row[i].status \notin {"approved", "posted"} \union Withdrawn
                        /\ status \in {"validated", "blocked", "received", "submitted"}
                        /\ status = "validated" => items = {}
      OBVIOUS
    <2>1. CASE k.op = "accept"
      <3>1. Undecided(row[i]) /\ Undecided(k.doc)
        BY <1>1, <1>2, <2>1 DEF RequestOK
      <3>2. QED
        BY <1>12, <3>1 DEF Undecided, Withdrawn
    <2>2. CASE k.op \in {"validate", "correct"}
      <3>1. k.doc.status = row[i].status /\ ~Closed(row[i])
        BY <1>2, <2>2 DEF RequestOK
      <3>2. QED
        BY <1>12, <3>1 DEF Closed
    <2>3. CASE k.op = "submit"
      <3>1. c \in Submitting(i)
        BY <1>1, <2>3 DEF Submitting, On
      <3>2. k.doc.status \in {"received", "submitted"}
        BY <1>2, <2>3 DEF RequestOK
      <3>3. status = Outcome(k)
        BY <1>12, <3>2
      <3>4. QED
        BY <1>12, <3>1, <3>3
    <2>4. k.op # "repeat"
      BY <1>2 DEF RequestOK
    <2>5. QED
      BY <1>2, <2>1, <2>2, <2>3, <2>4, RequestFields
  <1>22. row[i].status \in {"approved", "posted"} => data = row[i].data
    BY <1>2 DEF RequestOK, Closed
  <1> HIDE DEF status, data
  <1>14. /\ new \in Row /\ new.kind = row[i].kind /\ new.status = status
         /\ new.data = data /\ new.paid = row[i].paid
    <2>1. row[i].kind = "invoice" => row[i] \in InvoiceRow
      BY <1>2 DEF Row, InvoiceRow, ExpenseRow
    <2>2. row[i].kind = "expense" => row[i] \in ExpenseRow
      BY <1>2 DEF Row, InvoiceRow, ExpenseRow
    <2>3. CASE row[i].kind = "invoice"
      BY <1>6, <1>7, <2>1, <2>3 DEF Row, InvoiceRow
    <2>4. CASE row[i].kind = "expense"
      BY <1>6, <1>7, <2>2, <2>4 DEF Row, ExpenseRow
    <2>5. QED
      BY <1>5, <2>3, <2>4
  <1>15. row' = [row EXCEPT ![i] = new] /\ (new # row[i] => PaymentGuard(new))
    BY <1>1 DEF Update
  <1> HIDE DEF new
  <1>16. new.paid > 0 => new.status \in {"approved", "posted"} /\ new.paid <= new.data.total
    BY <1>2, <1>5, <1>15, DeskFacts DEF PaymentGuard
  <1>17. \A t \in Types(open[i]) : t \in Held(i) => t \in Types(items)
    BY <1>1 DEF Types
  <1>18. ASSUME NEW e \in Running \ {c}, call[e].invoice = i
         PROVE  RequestOK(call[e], new, items)
    <2>1. RequestOK(call[e], row[i], open[i]) /\ call[e] \in Request
      BY <1>18, DeskFacts
    <2>2. call[e].at # "commit" /\ (i \notin Keyed => call[e].at # "capture")
      BY <1>1, <1>2, <1>18 DEF PairOK
    <2>3. ASSUME call[e].at = "lock", call[e].accepts # None
          PROVE  call[e].accepts \in Types(items)
      <3>1. call[e].accepts \in Held(i)
        BY <1>18, <2>3 DEF Held, On
      <3>2. call[e].accepts \in Types(open[i])
        BY <2>1, <2>3 DEF RequestOK
      <3>3. QED
        BY <1>17, <3>1, <3>2
    <2>4. QED
      BY <1>14, <1>18, <2>1, <2>2, <2>3, Waiting
  <1> HIDE DEF items
  <1>19. DocumentOK(i, new, items)
    <2>1. i \notin Keyed /\ ~Undecided(new) => items = {}
      BY <1>13, <1>14 DEF Undecided
    <2>2. ASSUME i \notin Keyed \intersect FromText
          PROVE  new.status = "posted" <=> new.paid > 0 /\ new.paid = new.data.total
      <3>1. row[i].status = "posted" <=> row[i].paid > 0 /\ row[i].paid = row[i].data.total
        BY <1>2, <1>5, <2>2 DEF DocumentOK
      <3>2. CASE row[i].paid > 0
        <4>1. new.status = row[i].status /\ row[i].status \in {"approved", "posted"}
          BY <1>2, <1>5, <1>6, <1>14, <1>16, <3>2, DeskFacts
        <4>2. QED
          BY <1>14, <1>22, <3>1, <4>1
      <3>3. CASE ~(row[i].paid > 0)
        <4>1. row[i].status # "posted"
          BY <3>1, <3>3
        <4>2. QED
          BY <1>6, <1>14, <3>3, <4>1
      <3>4. QED
        BY <3>2, <3>3
    <2>3. QED
      BY <1>3, <2>1, <2>2 DEF DocumentOK
  <1>20. i \notin Keyed /\ Submitting(i) = {} => StaysFinal(i)
    BY <1>13 DEF StaysFinal
  <1>23. Shown(i) /\ \A j \in Named(k) : Shown(j)
    <2>1. ASSUME i \notin Keyed, NEW e \in Running, call[e].invoice = i PROVE call[e].at # "capture"
      BY <1>1, <1>2, <2>1 DEF PairOK
    <2>2. QED
      BY <1>1, <1>2, <1>5, <2>1 DEF Shown, Exists, DeskInvariant, KnownOK
  <1>21. QED
    BY <1>1, <1>2, <1>3, <1>10, <1>11, <1>14, <1>15, <1>16, <1>18, <1>19, <1>20, <1>23, OneStep
-----------------------------------------------------------------------------
(* Every step keeps the invariant, and what is final.                      *)
LEMMA NextDesk == DeskInvariant /\ [Next]_vars => DeskInvariant' /\ Kept
  <1> SUFFICES ASSUME DeskInvariant, [Next]_vars PROVE DeskInvariant' /\ Kept
    OBVIOUS
  <1>1. CASE UNCHANGED vars
    <2>1. DeskInvariant'
      BY <1>1 DEF vars, DeskInvariant, DeskTypeOK, PaidIsApproved, RequestsOK, PairsOK,
                  DocumentsOK, KnownOK, Shown, Exists, Running
    <2>2. \A i \in Invoices : row[i] # None => row[i].paid \in Nat
      BY DeskFacts, RowFields
    <2>3. Kept
      BY <1>1, <2>2 DEF vars, Kept, StaysFinal, Exists
    <2>4. QED
      BY <2>1, <2>3
  <1>2. ASSUME NEW c \in Calls, NEW i \in Invoices,
               \/ \E d \in Contents : Correct(c, i, d) \/ \E kind \in Kinds : Submit(c, i, kind, d)
               \/ SubmitText(c, i) \/ Resubmit(c, i) \/ Revalidate(c, i)
               \/ \E t \in OVERRIDABLE : Accept(c, i, t)
        PROVE  DeskInvariant' /\ Kept
    BY <1>2, CorrectStep, SubmitStep, SubmitTextStep, ResubmitStep, RevalidateStep, AcceptStep
  <1>3. ASSUME NEW c \in Calls,
               \/ \E d \in Contents, sure \in BOOLEAN : Capture(c, d, sure)
               \/ \E t \in AI_CAPTURE_TYPES \ {"low_confidence"} : CaptureFails(c, t)
               \/ Lock(c) \/ Commit(c) \/ Abort(c)
        PROVE  DeskInvariant' /\ Kept
    BY <1>3, CaptureStep, CaptureFailsStep, LockStep, CommitStep, AbortStep
  <1>4. ASSUME NEW i \in Invoices,
               \/ ApproveInvoice(i) \/ VoidInvoice(i) \/ RejectExpense(i)
               \/ \E amount \in Amounts \union {None} : RecordPayment(i, amount)
        PROVE  DeskInvariant' /\ Kept
    BY <1>4, ApproveInvoiceStep, VoidInvoiceStep, RejectExpenseStep, RecordPaymentStep
  <1>5. QED
    BY <1>1, <1>2, <1>3, <1>4 DEF Next

(* The invariant holds in every state.                                     *)
THEOREM DeskHolds == Spec => []DeskInvariant
  <1>1. Init => DeskInvariant
    BY InitDesk
  <1>2. DeskInvariant /\ [Next]_vars => DeskInvariant'
    BY NextDesk
  <1>3. QED
    BY <1>1, <1>2, PTL DEF Spec

(* The tables and the requests keep their shape (DeskTypeOK).              *)
THEOREM DeskTypes == Spec => []DeskTypeOK
  <1>1. DeskInvariant => DeskTypeOK
    BY DEF DeskInvariant
  <1>2. QED
    BY <1>1, DeskHolds, PTL

(* A document without an Idempotency-Key that is validated, approved or    *)
(* posted has no open exception, and no two of a type are open, whatever   *)
(* submissions, validations, captures, acceptances, corrections and        *)
(* decisions overlapped.                                                   *)
THEOREM CleanPasses == Spec => []PassedIsClean
  <1>1. DeskInvariant => PassedIsClean
    <2> SUFFICES ASSUME DeskInvariant, NEW i \in Invoices \ Keyed
                 PROVE  /\ Passed(i) => open[i] = {}
                        /\ \A f, g \in open[i] : f.type = g.type => f = g
      BY DEF PassedIsClean
    <2>1. DocumentOK(i, row[i], open[i])
      BY DeskFacts
    <2>2. Passed(i) => row[i] # None /\ ~Undecided(row[i])
      BY DEF Passed, Exists, Undecided
    <2>3. QED
      BY <2>1, <2>2 DEF DocumentOK, OneEach
  <1>2. QED
    BY <1>1, DeskHolds, PTL

(* Only approved invoices are paid, and never beyond their total, also     *)
(* those that are submitted again or captured while they are paid.         *)
THEOREM PaymentsApproved == Spec => []PaidIsApproved
  <1>1. DeskInvariant => PaidIsApproved
    BY DEF DeskInvariant
  <1>2. QED
    BY <1>1, DeskHolds, PTL

(* record_payment posts an invoice exactly when the partial payments reach *)
(* its total to the cent, whatever is under way beside it.                 *)
THEOREM PostedExactly == Spec => []PostedIsPaid
  <1>1. DeskInvariant => PostedIsPaid
    BY DeskFacts DEF PostedIsPaid, DocumentOK, Exists
  <1>2. QED
    BY <1>1, DeskHolds, PTL

(* Once the submission of a document without an Idempotency-Key has been   *)
(* answered, whatever is under way beside it: approved, it is only paid,   *)
(* and posted or withdrawn it never changes again, by any step.            *)
THEOREM FinalIsKept == Spec => FinalStaysFinal
  <1>1. DeskInvariant /\ [Next]_vars =>
          [\A i \in Invoices \ Keyed : Submitting(i) = {} => StaysFinal(i)]_vars
    BY NextDesk DEF Kept
  <1>2. QED
    BY <1>1, DeskHolds, PTL DEF Spec, FinalStaysFinal
-----------------------------------------------------------------------------
(***************************************************************************)
(* What passes is justified by what the document says now.  Two requests   *)
(* about one document at once can break this (README.md), so here no       *)
(* two requests that are under way are about the same one; people act in   *)
(* between, on any document.                                               *)
(***************************************************************************)
OneRequestEach == \A c, e \in Running : c # e => call[c].invoice # call[e].invoice

(* What is wrong with a document, whatever the others are.                 *)
OwnTrouble(doc) ==
    {t \in VALIDATOR_TYPES :
       \/ t = "missing_field" /\ (doc.data = Blank \/ (doc.kind = "expense" /\ ~doc.data.sound))
       \/ t = "amount_mismatch" /\ doc.kind = "invoice" /\ ~doc.data.sound
       \/ t = "over_threshold" /\ doc.data.total > Threshold[doc.kind]}

(* What the validation k has found, or may waive.                          *)
Covered(k) == Types(k.found) \union AcceptedTypes(k.invoice, k.doc.data) \union {k.accepts}

(* A request has the data of the document, unless it brings the data       *)
(* itself, and has found, or may waive, everything that is wrong with it.  *)
UpToDate(k) ==
    /\ k.op # "correct" => row[k.invoice].data = k.doc.data
    /\ Passed(k.invoice) => k.doc.status \in {"validated", "approved", "posted"}
    /\ k.at = "capture" => k.doc.status = "received"
    /\ k.at = "commit" => OwnTrouble(k.doc) \subseteq Covered(k)

Justified == (\A c \in Running : UpToDate(call[c])) /\ PassedIsJustified

LEMMA InitJustified == Init => Justified
  BY DEF Init, Justified, Running, PassedIsJustified, Passed, Exists

(* What nobody lets pass anew stays justified.                             *)
LEMMA NothingPasses ==
    ASSUME \A i \in Invoices : Passed(i)' => /\ Passed(i)
                                             /\ row'[i].data = row[i].data
                                             /\ row'[i].kind = row[i].kind,
           UNCHANGED accepted
    PROVE  /\ PassedIsJustified => PassedIsJustified'
           /\ DuplicatesSignedOff => DuplicatesSignedOff'
  <1>1. \A i \in Invoices : Passed(i)' => \A t : SignedFor(i, t)' <=> SignedFor(i, t)
    BY DEF SignedFor
  <1>2. PassedIsJustified => PassedIsJustified'
    BY <1>1 DEF PassedIsJustified
  <1>3. DuplicatesSignedOff => DuplicatesSignedOff'
    BY <1>1 DEF DuplicatesSignedOff
  <1>4. QED
    BY <1>2, <1>3

(* A step of request c on document i concerns no other request.            *)
LEMMA OthersUpToDate ==
    ASSUME Justified, NEW c \in Calls, NEW i \in Invoices, NEW k,
           call \in [Calls -> Request \union {None}], call' = [call EXCEPT ![c] = k],
           \A e \in Running \ {c} : call[e].invoice \in Invoices \ {i},
           \A j \in Invoices \ {i} : row'[j] = row[j] /\ accepted'[j] = accepted[j],
           k # None => UpToDate(k)'
    PROVE  (\A e \in Running : UpToDate(call[e]))'
  <1> SUFFICES ASSUME NEW e \in Calls, call'[e] # None PROVE UpToDate(call[e])'
    BY DEF Running
  <1>1. CASE e = c
    BY <1>1 
  <1>2. CASE e # c
    <2>1. e \in Running /\ call'[e] = call[e]
      BY <1>2 DEF Running
    <2>2. /\ UpToDate(call[e])
          /\ row'[call[e].invoice] = row[call[e].invoice]
          /\ accepted'[call[e].invoice] = accepted[call[e].invoice]
      BY <1>2, <2>1 DEF Justified
    <2>3. QED
      BY <2>1, <2>2 DEF UpToDate, Passed, Exists, Covered, AcceptedTypes
  <1>3. QED
    BY <1>1, <1>2

(* A request that moves while the documents do not.                        *)
LEMMA RequestMoves ==
    ASSUME Justified, NEW c \in Calls, NEW k,
           call \in [Calls -> Request \union {None}],
           call' = [call EXCEPT ![c] = k], UNCHANGED <<row, accepted>>,
           k # None => UpToDate(k)
    PROVE  Justified'
  <1>1. \A e \in Running' : \/ e = c /\ call'[e] = k /\ k # None
                            \/ e \in Running /\ call'[e] = call[e]
    BY DEF Running
  <1>2. ASSUME NEW l, UpToDate(l) PROVE UpToDate(l)'
    BY <1>2 DEF UpToDate, Passed, Exists, Covered, AcceptedTypes
  <1>3. PassedIsJustified'
    BY DEF Justified, PassedIsJustified, Passed, SignedFor, Exists
  <1>4. QED
    BY <1>1, <1>2, <1>3 DEF Justified

(* A validation that has the lock finds, or may waive, all there is.       *)
LEMMA ValidationCovers ==
    ASSUME NEW k \in Request
    PROVE  Flagged(k.invoice, k.doc) \subseteq Covered(Validation(k))
  <1> DEFINE v == Validation(k)
             waived == AcceptedTypes(k.invoice, k.doc.data) \union {k.accepts}
  <1>1. v.invoice = k.invoice /\ v.doc = k.doc /\ v.accepts = k.accepts
    BY ValidationFields
  <1>2. v.found = {Finding(t, k.invoice, k.doc) : t \in Flagged(k.invoice, k.doc) \ waived}
    BY DEF Validation, Request
  <1>3. \A t : Finding(t, k.invoice, k.doc).type = t
    BY DEF Finding
  <1>4. \A t \in Flagged(k.invoice, k.doc) \ waived : t \in Types(v.found)
    BY <1>2, <1>3 DEF Types
  <1> HIDE DEF v
  <1>5. Flagged(k.invoice, k.doc) \subseteq Covered(v)
    BY <1>1, <1>4 DEF Covered
  <1>6. QED
    BY <1>5 DEF v

LEMMA ValidationUpToDate ==
    ASSUME NEW k \in Request, UpToDate(k), k.at # "capture"
    PROVE  UpToDate(Validation(k))
  <1>1. OwnTrouble(k.doc) \subseteq Covered(Validation(k))
    BY ValidationCovers DEF OwnTrouble, Flagged
  <1>2. QED
    BY <1>1, ValidationFields DEF UpToDate

LEMMA ReadingJustified ==
    ASSUME DeskInvariant, Justified, NEW c \in Calls,
           \/ \E i \in Invoices : \/ Resubmit(c, i) \/ Revalidate(c, i)
                                  \/ \E d \in Contents : Correct(c, i, d)
                                  \/ \E t \in OVERRIDABLE : Accept(c, i, t)
           \/ Lock(c) \/ Abort(c)
    PROVE  Justified'
  <1>0. call \in [Calls -> Request \union {None}]
    BY DEF DeskInvariant, DeskTypeOK
  <1>1. ASSUME NEW i \in Invoices, NEW op \in {"submit", "repeat", "validate", "correct", "accept"},
               NEW doc \in Row, row[i] # None, doc.status = row[i].status,
               op # "correct" => doc.data = row[i].data
        PROVE  UpToDate(NewRequest(op, i, doc))
    <2>1. /\ NewRequest(op, i, doc).op = op /\ NewRequest(op, i, doc).invoice = i
          /\ NewRequest(op, i, doc).doc = doc /\ NewRequest(op, i, doc).at = "lock"
      BY NewRequestFields
    <2>2. QED
      BY <1>1, <2>1 DEF UpToDate, Passed
  <1>2. ASSUME NEW i \in Invoices, Resubmit(c, i) PROVE Justified'
    <2>1. row[i] # None /\ row[i] \in Row
      BY <1>2, DeskFacts DEF Resubmit, Exists
    <2>2. UpToDate(NewRequest("repeat", i, row[i]))
      BY <1>1, <2>1
    <2>3. QED
      BY <1>0, <1>2, <2>2, RequestMoves DEF Resubmit, Begin
  <1>3. ASSUME NEW i \in Invoices, Revalidate(c, i) PROVE Justified'
    <2> DEFINE n == NewRequest("validate", i, row[i])
    <2>1. row[i] # None /\ row[i] \in Row
      BY <1>3, DeskFacts DEF Revalidate, Available, Exists
    <2>2. n \in Request /\ n.at = "lock" /\ UpToDate(n)
      BY <1>1, <2>1, NewRequestFields
    <2>3. call' = [call EXCEPT ![c] = Validation(n)] /\ UNCHANGED <<row, accepted>>
      BY <1>3 DEF Revalidate, Begin
    <2> HIDE DEF n
    <2>4. QED
      BY <1>0, <2>2, <2>3, ValidationUpToDate, RequestMoves
  <1>4. ASSUME NEW i \in Invoices, NEW d \in Contents, Correct(c, i, d) PROVE Justified'
    <2> DEFINE doc == [row[i] EXCEPT !.data = d]
               n == NewRequest("correct", i, doc)
    <2>1. row[i] # None /\ row[i] \in Row
      BY <1>4, DeskFacts DEF Correct, Available, Exists
    <2>2. doc \in Row /\ doc.status = row[i].status
      BY <2>1 DEF Row, InvoiceRow, ExpenseRow, Written
    <2>3. call' = [call EXCEPT ![c] = Validation(n)] /\ UNCHANGED <<row, accepted>>
      BY <1>4 DEF Correct, Begin
    <2> HIDE DEF doc
    <2>4. n \in Request /\ n.at = "lock" /\ UpToDate(n)
      BY <1>1, <2>1, <2>2, NewRequestFields
    <2> HIDE DEF n
    <2>5. QED
      BY <1>0, <2>3, <2>4, ValidationUpToDate, RequestMoves
  <1>5. ASSUME NEW i \in Invoices, NEW t \in OVERRIDABLE, Accept(c, i, t) PROVE Justified'
    <2> DEFINE n == NewRequest("accept", i, row[i])
               k == [n EXCEPT !.accepts = t]
    <2>1. row[i] # None /\ row[i] \in Row
      BY <1>5, DeskFacts DEF Accept, Available, Exists
    <2>2. n \in Request /\ n.at = "lock" /\ UpToDate(n)
      BY <1>1, <2>1, NewRequestFields
    <2>3. call' = [call EXCEPT ![c] = k] /\ UNCHANGED <<row, accepted>>
      BY <1>5 DEF Accept, Begin
    <2> HIDE DEF n
    <2>4. k.op = n.op /\ k.invoice = n.invoice /\ k.doc = n.doc /\ k.at = n.at
      BY <2>2 DEF Request
    <2> HIDE DEF k
    <2>5. UpToDate(k)
      BY <2>2, <2>4 DEF UpToDate
    <2>6. QED
      BY <1>0, <2>3, <2>5, RequestMoves
  <1>6. CASE Lock(c)
    <2>1. c \in Running /\ UNCHANGED <<row, accepted>>
      BY <1>6 DEF Lock
    <2>2. call[c] \in Request /\ UpToDate(call[c]) /\ call[c].at # "capture"
      BY <1>6, <2>1, DeskFacts DEF Justified, Lock
    <2>3. call' = [call EXCEPT ![c] = None] \/ call' = [call EXCEPT ![c] = Validation(call[c])]
      BY <1>6 DEF Lock, End
    <2>4. QED
      BY <1>0, <2>1, <2>2, <2>3, ValidationUpToDate, RequestMoves
  <1>7. CASE Abort(c)
    BY <1>0, <1>7, RequestMoves DEF Abort, End
  <1>8. QED
    BY <1>2, <1>3, <1>4, <1>5, <1>6, <1>7

(* A new document has not passed, and nothing has locked it.               *)
LEMMA SubmitWrites ==
    ASSUME NEW c \in Calls, NEW i \in Invoices,
           SubmitText(c, i) \/ \E kind \in Kinds, d \in Contents : Submit(c, i, kind, d)
    PROVE  \E new \in Row, k \in Request :
           /\ ~Exists(i) /\ row' = [row EXCEPT ![i] = new] /\ UNCHANGED accepted
           /\ call' = [call EXCEPT ![c] = k] /\ new.status \in {"received", "submitted"}
           /\ k.invoice = i /\ k.doc = new /\ k.at # "commit"
           /\ k.at = "capture" => new.status = "received"
  <1>1. ASSUME NEW kind \in Kinds, NEW d \in Written, kind = "expense" => d \in Contents
        PROVE  /\ Received(kind, d) \in Row
               /\ Received(kind, d).status \in {"received", "submitted"}
               /\ kind = "invoice" => Received(kind, d).status = "received"
    BY <1>1, ContentsAssumption DEF Received, Row, InvoiceRow, ExpenseRow
  <1>2. ASSUME NEW kind \in Kinds, NEW d \in Contents, Submit(c, i, kind, d)
        PROVE  \E new \in Row, k \in Request :
                 /\ ~Exists(i) /\ row' = [row EXCEPT ![i] = new] /\ UNCHANGED accepted
                 /\ call' = [call EXCEPT ![c] = k] /\ new.status \in {"received", "submitted"}
                 /\ k.invoice = i /\ k.doc = new /\ k.at # "commit"
                 /\ k.at = "capture" => new.status = "received"
    <2> DEFINE new == Received(kind, d)
    <2>1. new \in Row /\ new.status \in {"received", "submitted"}
      BY <1>1 DEF Written
    <2>2. /\ ~Exists(i) /\ row' = [row EXCEPT ![i] = new] /\ UNCHANGED accepted
          /\ call' = [call EXCEPT ![c] = NewRequest("submit", i, new)]
      BY <1>2 DEF Submit, Begin
    <2> HIDE DEF new
    <2> DEFINE k == NewRequest("submit", i, new)
    <2>3. k \in Request /\ k.invoice = i /\ k.doc = new /\ k.at = "lock"
      BY <2>1, NewRequestFields
    <2> HIDE DEF k
    <2>4. call' = [call EXCEPT ![c] = k]
      BY <2>2 DEF k
    <2>5. QED
      BY <2>1, <2>2, <2>3, <2>4
  <1>3. ASSUME SubmitText(c, i)
        PROVE  \E new \in Row, k \in Request :
                 /\ ~Exists(i) /\ row' = [row EXCEPT ![i] = new] /\ UNCHANGED accepted
                 /\ call' = [call EXCEPT ![c] = k] /\ new.status \in {"received", "submitted"}
                 /\ k.invoice = i /\ k.doc = new /\ k.at # "commit"
                 /\ k.at = "capture" => new.status = "received"
    <2> DEFINE new == Received("invoice", Blank)
               n == NewRequest("submit", i, new)
               k == [n EXCEPT !.at = "capture"]
    <2>1. new \in Row /\ new.status = "received"
      BY <1>1, <1>3 DEF SubmitText, Written
    <2>2. /\ ~Exists(i) /\ row' = [row EXCEPT ![i] = new] /\ UNCHANGED accepted
          /\ call' = [call EXCEPT ![c] = k]
      BY <1>3 DEF SubmitText, Begin
    <2> HIDE DEF new
    <2>3. n \in Request /\ n.invoice = i /\ n.doc = new
      BY <2>1, NewRequestFields
    <2> HIDE DEF n
    <2>4. k \in Request /\ k.invoice = i /\ k.doc = new /\ k.at = "capture"
      BY <2>3 DEF Request
    <2> HIDE DEF k
    <2>5. QED
      BY <2>1, <2>2, <2>4
  <1>4. QED
    BY <1>2, <1>3

LEMMA SubmitJustified ==
    ASSUME DeskInvariant, Justified, NEW c \in Calls, NEW i \in Invoices,
           SubmitText(c, i) \/ \E kind \in Kinds, d \in Contents : Submit(c, i, kind, d)
    PROVE  Justified'
  <1>1. PICK new \in Row, k \in Request :
           /\ ~Exists(i) /\ row' = [row EXCEPT ![i] = new] /\ UNCHANGED accepted
           /\ call' = [call EXCEPT ![c] = k] /\ new.status \in {"received", "submitted"}
           /\ k.invoice = i /\ k.doc = new /\ k.at # "commit"
           /\ k.at = "capture" => new.status = "received"
    BY SubmitWrites
  <1>2. /\ row \in [Invoices -> Row \union {None}]
        /\ call \in [Calls -> Request \union {None}]
    BY DEF DeskInvariant, DeskTypeOK
  <1>3. row'[i] = new /\ \A j \in Invoices \ {i} : row'[j] = row[j]
    BY <1>1, <1>2
  <1>4. ~Passed(i)' /\ \A j \in Invoices \ {i} : Passed(j)' <=> Passed(j)
    BY <1>1, <1>3 DEF Passed, Exists
  <1>5. \A e \in Running \ {c} : call[e].invoice \in Invoices \ {i}
    BY <1>1, DeskFacts, RowFields DEF Exists
  <1>6. UpToDate(k)'
    BY <1>1, <1>3, <1>4 DEF UpToDate
  <1>7. (\A e \in Running : UpToDate(call[e]))'
    BY <1>1, <1>2, <1>3, <1>5, <1>6, OthersUpToDate
  <1>8. PassedIsJustified'
    BY <1>1, <1>3, <1>4, NothingPasses DEF Justified
  <1>9. QED
    BY <1>7, <1>8 DEF Justified

(* While the LLM reads, the document has nothing to pass with: what it     *)
(* answers is written to a document that has not passed.                   *)
LEMMA CaptureWrites ==
    ASSUME DeskInvariant, Justified, NEW c \in Calls, NEW d \in Contents, NEW sure \in BOOLEAN,
           Capture(c, d, sure)
    PROVE  \E k \in Request, i \in Invoices, new \in Row :
             /\ c \in Running /\ i = call[c].invoice
             /\ row' = [row EXCEPT ![i] = new] /\ UNCHANGED accepted
             /\ call' = [call EXCEPT ![c] = k]
             /\ k.invoice = i /\ k.at = "lock" /\ k.doc.data = new.data
             /\ ~Passed(i) /\ ~Passed(i)'
             /\ \A j \in Invoices \ {i} : row'[j] = row[j]
  <1>1. PICK l \in Request, i \in Invoices :
           /\ l = call[c] /\ i = l.invoice /\ c \in Running /\ UpToDate(l)
           /\ l.at = "capture" /\ row[i] \in Row
    <2>1. c \in Running /\ call[c].at = "capture"
      BY DEF Capture
    <2>2. QED
      BY <2>1, DeskFacts DEF Justified
  <1>2. /\ row \in [Invoices -> Row \union {None}]
        /\ call \in [Calls -> Request \union {None}]
    BY DEF DeskInvariant, DeskTypeOK
  <1>3. PICK k \in Request : /\ call' = [call EXCEPT ![c] = k]
                             /\ k.invoice = i /\ k.at = "lock" /\ k.doc.data = d
    <2> DEFINE k == [l EXCEPT !.at = "lock", !.doc.data = d]
    <2>1. call' = [call EXCEPT ![c].at = "lock", ![c].doc.data = d]
      BY DEF Capture
    <2>2. call' = [call EXCEPT ![c] = k]
      BY <1>1, <1>2, <2>1
    <2>3. /\ l.doc \in Row /\ [l.doc EXCEPT !.data = d] \in Row
          /\ [l.doc EXCEPT !.data = d].data = d
      BY <1>1, RequestFields DEF Row, InvoiceRow, ExpenseRow, Written
    <2>4. k \in Request /\ k.invoice = i /\ k.at = "lock" /\ k.doc = [l.doc EXCEPT !.data = d]
      BY <1>1, <2>3 DEF Request
    <2> HIDE DEF k
    <2>5. QED
      BY <2>2, <2>3, <2>4
  <1>4. PICK new \in Row : /\ row' = [row EXCEPT ![i] = new] /\ UNCHANGED accepted
                           /\ new.data = d /\ new.status = row[i].status
    <2> DEFINE new == [row[i] EXCEPT !.data = d]
    <2>1. row' = [row EXCEPT ![i] = new] /\ UNCHANGED accepted
      BY <1>1 DEF Capture, Update
    <2>2. new \in Row /\ new.data = d /\ new.status = row[i].status
      BY <1>1 DEF Row, InvoiceRow, ExpenseRow, Written
    <2>3. QED
      BY <2>1, <2>2
  <1>5. row'[i] = new /\ \A j \in Invoices \ {i} : row'[j] = row[j]
    BY <1>2, <1>4
  <1>6. ~Passed(i)
    BY <1>1 DEF UpToDate
  <1>7. ~Passed(i)'
    BY <1>1, <1>4, <1>5, <1>6, RowFields DEF Passed, Exists
  <1>8. QED
    BY <1>1, <1>3, <1>4, <1>5, <1>6, <1>7

LEMMA CaptureJustified ==
    ASSUME DeskInvariant, OneRequestEach, Justified, NEW c \in Calls,
           NEW d \in Contents, NEW sure \in BOOLEAN, Capture(c, d, sure)
    PROVE  Justified'
  <1>1. PICK k \in Request, i \in Invoices, new \in Row :
             /\ c \in Running /\ i = call[c].invoice
             /\ row' = [row EXCEPT ![i] = new] /\ UNCHANGED accepted
             /\ call' = [call EXCEPT ![c] = k]
             /\ k.invoice = i /\ k.at = "lock" /\ k.doc.data = new.data
             /\ ~Passed(i) /\ ~Passed(i)'
             /\ \A j \in Invoices \ {i} : row'[j] = row[j]
    BY CaptureWrites
  <1>2. /\ row \in [Invoices -> Row \union {None}]
        /\ call \in [Calls -> Request \union {None}]
    BY DEF DeskInvariant, DeskTypeOK
  <1>3. row'[i] = new
    BY <1>1, <1>2
  <1>4. \A e \in Running \ {c} : call[e].invoice \in Invoices \ {i}
    BY <1>1, DeskFacts DEF OneRequestEach
  <1>5. UpToDate(k)'
    BY <1>1, <1>3 DEF UpToDate
  <1>6. (\A e \in Running : UpToDate(call[e]))'
    <2>1. \A j \in Invoices \ {i} : row'[j] = row[j] /\ accepted'[j] = accepted[j]
      BY <1>1
    <2>2. call' = [call EXCEPT ![c] = k]
      BY <1>1
    <2>3. QED
      BY <1>2, <1>4, <1>5, <2>1, <2>2, OthersUpToDate
  <1>7. \A j \in Invoices \ {i} : Passed(j)' <=> Passed(j)
    BY <1>1 DEF Passed, Exists
  <1>8. PassedIsJustified'
    BY <1>1, <1>7, NothingPasses DEF Justified
  <1>9. QED
    BY <1>6, <1>8 DEF Justified

LEMMA CaptureFailsJustified ==
    ASSUME DeskInvariant, Justified, NEW c \in Calls, NEW t \in AI_CAPTURE_TYPES,
           CaptureFails(c, t)
    PROVE  Justified'
  <1>1. PICK l \in Request : l = call[c] /\ c \in Running /\ UpToDate(l)
    <2>1. c \in Running
      BY DEF CaptureFails
    <2>2. QED
      BY <2>1, DeskFacts DEF Justified
  <1>2. call \in [Calls -> Request \union {None}]
    BY DEF DeskInvariant, DeskTypeOK
  <1> DEFINE k == [l EXCEPT !.at = "lock"]
  <1>3. call' = [call EXCEPT ![c] = k] /\ UNCHANGED <<row, accepted>>
    BY <1>1, <1>2 DEF CaptureFails
  <1>4. k.op = l.op /\ k.invoice = l.invoice /\ k.doc = l.doc /\ k.at = "lock"
    BY <1>1 DEF Request
  <1> HIDE DEF k
  <1>5. UpToDate(k)
    BY <1>1, <1>4 DEF UpToDate
  <1>6. QED
    BY <1>2, <1>3, <1>5, RequestMoves

(* People change the status of a document and what is paid of it.  They    *)
(* let nothing pass that had not been validated, and bring nothing back.   *)
OnlyDecided(j) ==
    /\ Exists(j)' <=> Exists(j)
    /\ row'[j].data = row[j].data /\ row'[j].kind = row[j].kind
    /\ Passed(j)' => Passed(j)
    /\ Exists(j) /\ row[j].status \in Withdrawn => row'[j].status \in Withdrawn

LEMMA PersonDecides ==
    ASSUME DeskInvariant, NEW i \in Invoices, Exists(i), NEW new \in Row,
           row' = [row EXCEPT ![i] = new],
           new.data = row[i].data, new.kind = row[i].kind,
           new.status \in {"validated", "approved", "posted"} => Passed(i),
           row[i].status \in Withdrawn => new.status \in Withdrawn
    PROVE  \A j \in Invoices : OnlyDecided(j)
  <1> SUFFICES ASSUME NEW j \in Invoices PROVE OnlyDecided(j)
    OBVIOUS
  <1>1. row \in [Invoices -> Row \union {None}] /\ new # None
    BY RowFields DEF DeskInvariant, DeskTypeOK
  <1>2. CASE j = i
    <2>1. row'[j] = new /\ row[j] # None
      BY <1>1, <1>2 DEF Exists
    <2>2. QED
      BY <1>1, <1>2, <2>1 DEF OnlyDecided, Passed, Exists
  <1>3. CASE j # i
    <2>1. row'[j] = row[j]
      BY <1>1, <1>3
    <2>2. QED
      BY <2>1 DEF OnlyDecided, Passed, Exists
  <1>4. QED
    BY <1>2, <1>3

LEMMA PaymentDecides ==
    ASSUME DeskInvariant, NEW i \in Invoices, NEW amount \in Amounts \union {None},
           RecordPayment(i, amount)
    PROVE  UNCHANGED <<accepted, call>> /\ \A j \in Invoices : OnlyDecided(j)
  <1>0. /\ UNCHANGED <<accepted, call>> /\ Exists(i) /\ row[i] \in Row
        /\ row \in [Invoices -> Row \union {None}]
    <2>1. UNCHANGED <<accepted, call>> /\ Exists(i)
      BY DEF RecordPayment, Available
    <2>2. QED
      BY <2>1, DeskFacts DEF Exists, DeskInvariant, DeskTypeOK
  <1> DEFINE value == IF amount = None THEN Outstanding(row[i]) ELSE amount
             status == IF FullyPaid(row[i], value) THEN "posted" ELSE row[i].status
             new == [row[i] EXCEPT !.paid = @ + value,
                                   !.status = IF FullyPaid(row[i], value) THEN "posted" ELSE @]
  <1>1. /\ row' = [row EXCEPT ![i] = new] /\ row[i].status \in {"approved", "posted"}
        /\ row[i].kind = "invoice" /\ value > 0
    <2>1. /\ Update(i, new) /\ row[i].status \in {"approved", "posted"}
          /\ row[i].kind = "invoice" /\ value > 0
      BY DEF RecordPayment
    <2> HIDE DEF new, value
    <2>2. QED
      BY <2>1 DEF Update
  <1>2. row[i] \in InvoiceRow /\ row[i].paid + value \in Nat /\ status \in {"approved", "posted"}
    <2>1. row[i] \in InvoiceRow
      BY <1>0, <1>1 DEF Row, InvoiceRow, ExpenseRow
    <2>2. value \in Nat
      <3>1. /\ row[i].paid \in Nat /\ row[i].data.total \in Nat
            /\ row[i].paid <= row[i].data.total
        BY <1>0, RowFields, DeskFacts DEF Exists
      <3>2. QED
        BY <3>1, ContentsAssumption DEF Outstanding
    <2> HIDE DEF value
    <2>3. row[i].paid + value \in Nat
      BY <1>0, <1>1, <2>2, RowFields
    <2>4. QED
      BY <1>1, <2>1, <2>3
  <1>3. new = [[row[i] EXCEPT !.paid = row[i].paid + value] EXCEPT !.status = status]
    OBVIOUS
  <1> HIDE DEF value, status, new
  <1>4. new \in Row /\ new.kind = row[i].kind /\ new.data = row[i].data /\ new.status = status
    BY <1>2, <1>3 DEF Row, InvoiceRow
  <1>5. Passed(i) /\ row[i].status \notin Withdrawn
    BY <1>0, <1>1 DEF Withdrawn, Passed
  <1>6. QED
    BY <1>0, <1>1, <1>4, <1>5, PersonDecides

LEMMA ReviewDecides ==
    ASSUME DeskInvariant, NEW i \in Invoices,
           ApproveInvoice(i) \/ VoidInvoice(i) \/ RejectExpense(i)
    PROVE  UNCHANGED <<accepted, call>> /\ \A j \in Invoices : OnlyDecided(j)
  <1>1. /\ UNCHANGED <<accepted, call>> /\ Exists(i) /\ row[i] \in Row
        /\ row \in [Invoices -> Row \union {None}]
    <2>1. UNCHANGED <<accepted, call>> /\ Exists(i)
      BY DEF ApproveInvoice, VoidInvoice, RejectExpense, Withdraw, Available
    <2>2. QED
      BY <2>1, DeskFacts DEF Exists, DeskInvariant, DeskTypeOK
  <1>2. CASE ApproveInvoice(i)
    <2> DEFINE new == [row[i] EXCEPT !.status = "approved"]
    <2>1. row' = [row EXCEPT ![i] = new] /\ row[i].status = "validated"
      BY <1>2 DEF ApproveInvoice, Update
    <2>2. new \in Row /\ new.kind = row[i].kind /\ new.data = row[i].data
      BY <1>1 DEF Row, InvoiceRow, ExpenseRow
    <2> HIDE DEF new
    <2>3. Passed(i) /\ row[i].status \notin Withdrawn
      BY <1>1, <2>1 DEF Passed, Withdrawn
    <2>4. QED
      BY <1>1, <2>1, <2>2, <2>3, PersonDecides
  <1>3. ASSUME NEW s \in Withdrawn, Withdraw(i, s),
               s = IF row[i].kind = "invoice" THEN "void" ELSE "rejected"
        PROVE  \A j \in Invoices : OnlyDecided(j)
    <2> DEFINE new == [row[i] EXCEPT !.status = s]
    <2>1. row' = [row EXCEPT ![i] = new]
      BY <1>3 DEF Withdraw, Update
    <2>2. /\ new \in Row /\ new.kind = row[i].kind /\ new.data = row[i].data
          /\ new.status = s
      BY <1>1, <1>3, RowFields DEF Row, InvoiceRow, ExpenseRow
    <2> HIDE DEF new
    <2>3. s \notin {"validated", "approved", "posted"}
      BY DEF Withdrawn
    <2>4. QED
      BY <1>1, <2>1, <2>2, <2>3, PersonDecides
  <1>4. CASE VoidInvoice(i)
    <2>1. "void" \in Withdrawn /\ Withdraw(i, "void") /\ row[i].kind = "invoice"
      BY <1>4 DEF VoidInvoice, Withdrawn
    <2>2. QED
      BY <1>1, <1>3, <2>1
  <1>5. CASE RejectExpense(i)
    <2>1. "rejected" \in Withdrawn /\ Withdraw(i, "rejected") /\ row[i].kind # "invoice"
      BY <1>5 DEF RejectExpense, Withdrawn
    <2>2. QED
      BY <1>1, <1>3, <2>1
  <1>6. QED
    BY <1>1, <1>2, <1>4, <1>5

LEMMA PeopleJustified ==
    ASSUME Justified, UNCHANGED <<accepted, call>>, \A j \in Invoices : OnlyDecided(j),
           \A c \in Running : call[c].invoice \in Invoices
    PROVE  Justified'
  <1>1. ASSUME NEW c \in Running PROVE UpToDate(call[c])'
    <2>1. UpToDate(call[c]) /\ OnlyDecided(call[c].invoice)
      BY <1>1 DEF Justified
    <2>2. QED
      BY <2>1 DEF UpToDate, OnlyDecided, Covered, AcceptedTypes
  <1>2. PassedIsJustified'
    BY NothingPasses DEF Justified, OnlyDecided
  <1>3. QED
    BY <1>1, <1>2 DEF Justified, Running

(* A commit lets a document pass only if a person signed, for the data it  *)
(* has then, for everything the validation found wrong with it.            *)
LEMMA CommitSigns ==
    ASSUME DeskInvariant, Justified, NEW c \in Calls, Commit(c)
    PROVE  \E k \in Request, i \in Invoices, new \in Row :
             /\ c \in Running /\ k = call[c] /\ i = k.invoice /\ k.at = "commit"
             /\ row' = [row EXCEPT ![i] = new] /\ call' = [call EXCEPT ![c] = None]
             /\ new.kind = k.doc.kind /\ new.data = k.doc.data /\ new.kind = row[i].kind
             /\ accepted[i] \subseteq accepted'[i]
             /\ \A j \in Invoices \ {i} : accepted'[j] = accepted[j]
             /\ new.status \in {"validated", "approved", "posted"} =>
                   \A t \in Covered(k) \intersect VALIDATOR_TYPES :
                      t \in OVERRIDABLE /\ [type |-> t, data |-> new.data] \in accepted'[i]
  <1>1. PICK k \in Request, i \in Invoices :
           k = call[c] /\ i = k.invoice /\ c \in Running /\ k.at = "commit" /\ row[i] \in Row
               /\ row[i] # None /\ RequestOK(k, row[i], open[i]) /\ UpToDate(k)
    <2>1. c \in Running /\ call[c].at = "commit"
      BY DEF Commit
    <2>2. QED
      BY <2>1, DeskFacts, RowFields DEF Justified
  <1> DEFINE status == IF Outcome(k) = k.doc.status THEN row[i].status ELSE Outcome(k)
             data == IF k.op = "correct" THEN k.doc.data ELSE row[i].data
             new == [[row[i] EXCEPT !.status = status] EXCEPT !.data = data]
             signed == {[type |-> t, data |-> k.doc.data] : t \in {k.accepts} \ {None}}
  <1>2. /\ accepted' = [accepted EXCEPT ![i] = accepted[i] \union signed]
        /\ Update(i, new) /\ call' = [call EXCEPT ![c] = None]
    BY <1>1 DEF Commit, End
  <1>3. /\ row \in [Invoices -> Row \union {None}]
        /\ accepted \in [Invoices -> SUBSET [type : OVERRIDABLE, data : Written]]
    BY DEF DeskInvariant, DeskTypeOK
  <1>4. accepted'[i] = accepted[i] \union signed
        /\ \A j \in Invoices \ {i} : accepted'[j] = accepted[j]
    BY <1>2, <1>3
  <1>5. row' = [row EXCEPT ![i] = new]
    BY <1>2 DEF Update
  <1>6. data = k.doc.data
    BY <1>1 DEF UpToDate
  <1>7. k.doc \in Row /\ k.doc.kind = row[i].kind
    BY <1>1, RequestFields DEF RequestOK
  <1>8. status \in {"validated", "approved", "posted"} => LeftOpen(k) = {}
    <2>1. Outcome(k) \in {"validated", "blocked"}
      BY DEF Outcome
    <2>2. k.doc.status = "blocked" => row[i].status \notin {"validated", "approved", "posted"}
      BY <1>1 DEF UpToDate, Passed, Exists
    <2>3. status \in {"validated", "approved", "posted"} => Outcome(k) = "validated"
      BY <2>1, <2>2
    <2>4. QED
      BY <2>3 DEF Outcome
  <1>9. status \in {row[i].status, "validated", "blocked"}
    BY DEF Outcome
  <1> HIDE DEF status, data
  <1>10. new \in Row /\ new.kind = row[i].kind /\ new.status = status /\ new.data = data
    <2>1. CASE row[i].kind = "invoice"
      <3>1. row[i] \in InvoiceRow /\ k.doc.data \in Written
        BY <1>1, <1>7, <2>1, RowFields DEF Row, InvoiceRow, ExpenseRow
      <3>2. QED
        BY <1>6, <1>9, <2>1, <3>1 DEF Row, InvoiceRow
    <2>2. CASE row[i].kind = "expense"
      <3>1. row[i] \in ExpenseRow /\ k.doc.data \in Contents
        BY <1>1, <1>7, <2>2, RowFields DEF Row, InvoiceRow, ExpenseRow
      <3>2. QED
        BY <1>6, <1>9, <2>2, <3>1 DEF Row, ExpenseRow
    <2>3. QED
      BY <1>1, <2>1, <2>2, RowFields
  <1> HIDE DEF new
  <1>11. ASSUME NEW t \in Covered(k) \intersect VALIDATOR_TYPES, LeftOpen(k) = {}
         PROVE  t \in OVERRIDABLE /\ [type |-> t, data |-> k.doc.data] \in accepted'[i]
    <2>1. Types(k.found) = {}
      BY <1>11 DEF LeftOpen, Types
    <2>2. t \in AcceptedTypes(i, k.doc.data) \/ t = k.accepts
      BY <1>1, <2>1 DEF Covered
    <2>3. CASE t \in AcceptedTypes(i, k.doc.data)
      <3>1. PICK a \in accepted[i] : a.data = k.doc.data /\ a.type = t
        BY <2>3 DEF AcceptedTypes
      <3>2. a \in [type : OVERRIDABLE, data : Written]
        BY <1>3
      <3>3. a = [type |-> t, data |-> k.doc.data] /\ t \in OVERRIDABLE
        BY <3>1, <3>2
      <3>4. QED
        BY <1>4, <3>3
    <2>4. CASE t = k.accepts
      <3>1. t # None /\ t \in OVERRIDABLE
        BY <1>1, <2>4, NoneAssumption, RequestFields
      <3>2. QED
        BY <1>4, <2>4, <3>1
    <2>5. QED
      BY <2>2, <2>3, <2>4
  <1> HIDE DEF signed
  <1>12. new.status \in {"validated", "approved", "posted"} =>
            \A t \in Covered(k) \intersect VALIDATOR_TYPES :
               t \in OVERRIDABLE /\ [type |-> t, data |-> new.data] \in accepted'[i]
    BY <1>6, <1>8, <1>10, <1>11
  <1>13. new.kind = k.doc.kind /\ new.data = k.doc.data /\ accepted[i] \subseteq accepted'[i]
    BY <1>4, <1>6, <1>7, <1>10
  <1>14. QED
    BY <1>1, <1>2, <1>4, <1>5, <1>10, <1>12, <1>13

LEMMA CommitJustified ==
    ASSUME DeskInvariant, OneRequestEach, Justified, NEW c \in Calls, Commit(c)
    PROVE  Justified'
  <1>1. PICK k \in Request, i \in Invoices, new \in Row :
             /\ c \in Running /\ k = call[c] /\ i = k.invoice /\ k.at = "commit"
             /\ row' = [row EXCEPT ![i] = new] /\ call' = [call EXCEPT ![c] = None]
             /\ new.kind = k.doc.kind /\ new.data = k.doc.data /\ new.kind = row[i].kind
             /\ accepted[i] \subseteq accepted'[i]
             /\ \A j \in Invoices \ {i} : accepted'[j] = accepted[j]
             /\ new.status \in {"validated", "approved", "posted"} =>
                   \A t \in Covered(k) \intersect VALIDATOR_TYPES :
                      t \in OVERRIDABLE /\ [type |-> t, data |-> new.data] \in accepted'[i]
    BY CommitSigns
  <1>2. /\ row \in [Invoices -> Row \union {None}]
        /\ call \in [Calls -> Request \union {None}]
    BY DEF DeskInvariant, DeskTypeOK
  <1>3. row'[i] = new /\ \A j \in Invoices \ {i} : row'[j] = row[j]
    BY <1>1, <1>2
  <1>4. \A e \in Running \ {c} : call[e].invoice \in Invoices \ {i}
    BY <1>1, DeskFacts DEF OneRequestEach
  <1>5. (\A e \in Running : UpToDate(call[e]))'
    <2>1. \A j \in Invoices \ {i} : row'[j] = row[j] /\ accepted'[j] = accepted[j]
      BY <1>1, <1>3
    <2>2. call' = [call EXCEPT ![c] = None]
      BY <1>1
    <2>3. QED
      BY <1>2, <1>4, <2>1, <2>2, OthersUpToDate
  <1>6. OwnTrouble(k.doc) \subseteq Covered(k) \intersect VALIDATOR_TYPES
    BY <1>1 DEF Justified, UpToDate, OwnTrouble
  <1>7. PassedIsJustified'
    <2> SUFFICES ASSUME NEW j \in Invoices, Passed(j)'
                 PROVE  /\ row'[j].data # Blank /\ row'[j].data.sound
                        /\ row'[j].data.total > Threshold[row'[j].kind]
                              => SignedFor(j, "over_threshold")'
      BY DEF PassedIsJustified
    <2>1. CASE j = i
      <3>1. new.status \in {"validated", "approved", "posted"}
        BY <1>3, <2>1 DEF Passed
      <3>2. \A t \in OwnTrouble(k.doc) :
               t \in OVERRIDABLE /\ [type |-> t, data |-> new.data] \in accepted'[i]
        BY <1>1, <1>6, <3>1
      <3>3. "missing_field" \notin OwnTrouble(k.doc) /\ "amount_mismatch" \notin OwnTrouble(k.doc)
        BY <3>2 DEF OVERRIDABLE
      <3>4. new.data # Blank /\ (new.kind \in {"invoice", "expense"} => new.data.sound)
        BY <1>1, <3>3 DEF OwnTrouble, VALIDATOR_TYPES
      <3>5. new.data.total > Threshold[new.kind] => "over_threshold" \in OwnTrouble(k.doc)
        BY <1>1 DEF OwnTrouble, VALIDATOR_TYPES
      <3>6. QED
        BY <1>3, <2>1, <3>2, <3>4, <3>5, RowFields DEF SignedFor
    <2>2. CASE j # i
      <3>1. row'[j] = row[j] /\ accepted'[j] = accepted[j]
        BY <1>1, <1>3, <2>2
      <3>2. QED
        BY <3>1 DEF Justified, PassedIsJustified, Passed, Exists, SignedFor
    <2>3. QED
      BY <2>1, <2>2
  <1>8. QED
    BY <1>5, <1>7 DEF Justified

LEMMA NextJustified ==
    ASSUME DeskInvariant, OneRequestEach, Justified, [Next]_vars
    PROVE  Justified'
  <1>1. CASE UNCHANGED vars
    BY <1>1 DEF vars, Justified, PassedIsJustified, Running, UpToDate, Passed, Exists, SignedFor,
                Covered, AcceptedTypes
  <1>2. ASSUME NEW c \in Calls, NEW i \in Invoices,
               \/ \E d \in Contents : Correct(c, i, d) \/ \E kind \in Kinds : Submit(c, i, kind, d)
               \/ SubmitText(c, i) \/ Resubmit(c, i) \/ Revalidate(c, i)
               \/ \E t \in OVERRIDABLE : Accept(c, i, t)
        PROVE  Justified'
    BY <1>2, ReadingJustified, SubmitJustified
  <1>3. ASSUME NEW c \in Calls,
               \/ \E d \in Contents, sure \in BOOLEAN : Capture(c, d, sure)
               \/ \E t \in AI_CAPTURE_TYPES \ {"low_confidence"} : CaptureFails(c, t)
               \/ Lock(c) \/ Commit(c) \/ Abort(c)
        PROVE  Justified'
    BY <1>3, CaptureJustified, CaptureFailsJustified, ReadingJustified, CommitJustified
  <1>4. ASSUME NEW i \in Invoices,
               \/ ApproveInvoice(i) \/ VoidInvoice(i) \/ RejectExpense(i)
               \/ \E amount \in Amounts \union {None} : RecordPayment(i, amount)
        PROVE  Justified'
    <2>1. UNCHANGED <<accepted, call>> /\ \A j \in Invoices : OnlyDecided(j)
      BY <1>4, ReviewDecides, PaymentDecides
    <2>2. QED
      BY <2>1, DeskFacts, PeopleJustified
  <1>5. QED
    BY <1>1, <1>2, <1>3, <1>4 DEF Next

(* A document that is validated or beyond adds up, and if it is above the  *)
(* limit a person signed for the very data it has now, as long as no two   *)
(* requests work on the same document at once.                             *)
THEOREM PassedJustified == Spec /\ []OneRequestEach => []PassedIsJustified
  <1>1. Init => Justified
    BY InitJustified
  <1>2. DeskInvariant /\ OneRequestEach /\ Justified /\ [Next]_vars => Justified'
    BY NextJustified
  <1>3. Justified => PassedIsJustified
    BY DEF Justified
  <1>4. QED
    BY <1>1, <1>2, <1>3, DeskHolds, PTL DEF Spec
-----------------------------------------------------------------------------
(***************************************************************************)
(* Duplicates.  A validation reads the other documents without a lock, so  *)
(* two that bring the same key to two documents at once miss each other    *)
(* (see README.md).  Here no two that are under way do; any number         *)
(* of requests about other documents and of other keys may be.             *)
(***************************************************************************)
ValidationsApart == \A c, e \in Running :
    c # e /\ call[c].at = "commit" /\ call[e].at = "commit"
      => ~(/\ call[c].doc.kind = call[e].doc.kind
           /\ call[c].doc.data.key = call[e].doc.data.key)

(* Two documents of a kind with the same key, of which the one has passed. *)
Repeats(j, doc) == /\ Passed(j) /\ doc.data # Blank
                   /\ row[j].kind = doc.kind /\ row[j].data.key = doc.data.key

(* What has passed by now is a duplicate that k has found, or may waive.   *)
SeesDuplicates(k) == k.at = "commit" =>
    \A j \in Invoices \ {k.invoice} :
       Repeats(j, k.doc) => "duplicate_invoice" \in Covered(k)

DuplicatesSeen == (\A c \in Running : SeesDuplicates(call[c])) /\ DuplicatesSignedOff

(* A request that moves while nothing passes anew.                         *)
LEMMA OneSees ==
    ASSUME DuplicatesSeen, NEW c \in Calls, NEW k,
           call \in [Calls -> Request \union {None}], call' = [call EXCEPT ![c] = k],
           UNCHANGED accepted,
           \A i \in Invoices : Passed(i)' => /\ Passed(i)
                                             /\ row'[i].data = row[i].data
                                             /\ row'[i].kind = row[i].kind,
           k # None => SeesDuplicates(k)
    PROVE  DuplicatesSeen'
  <1>1. \A e \in Running' : \/ e = c /\ call'[e] = k /\ k # None
                            \/ e \in Running /\ call'[e] = call[e]
    BY DEF Running
  <1>2. DuplicatesSignedOff'
    BY NothingPasses DEF DuplicatesSeen
  <1>3. ASSUME NEW l, SeesDuplicates(l) PROVE SeesDuplicates(l)'
    <2>1. \A j \in Invoices : Repeats(j, l.doc)' => Repeats(j, l.doc)
      BY DEF Repeats
    <2>2. Covered(l)' = Covered(l)
      BY DEF Covered, AcceptedTypes
    <2>3. QED
      BY <1>3, <2>1, <2>2 DEF SeesDuplicates
  <1>4. QED
    BY <1>1, <1>2, <1>3 DEF DuplicatesSeen

(* A validation finds what has passed before it has the lock.              *)
LEMMA ValidationSees ==
    ASSUME NEW k \in Request
    PROVE  SeesDuplicates(Validation(k))
  <1> DEFINE v == Validation(k)
  <1>1. v.invoice = k.invoice /\ v.doc = k.doc
    BY ValidationFields
  <1>2. Flagged(k.invoice, k.doc) \subseteq Covered(v)
    BY ValidationCovers
  <1> HIDE DEF v
  <1>3. ASSUME NEW j \in Invoices \ {k.invoice}, Repeats(j, k.doc)
        PROVE  "duplicate_invoice" \in Flagged(k.invoice, k.doc)
    <2>1. j \in Matches(k.invoice, k.doc)
      BY <1>3 DEF Repeats, Matches, Passed, Withdrawn
    <2>2. QED
      BY <1>3, <2>1 DEF Flagged, Repeats, VALIDATOR_TYPES
  <1>4. SeesDuplicates(v)
    BY <1>1, <1>2, <1>3 DEF SeesDuplicates
  <1>5. QED
    BY <1>4 DEF v

LEMMA ReadingSees ==
    ASSUME DeskInvariant, DuplicatesSeen, NEW c \in Calls,
           \/ \E i \in Invoices : \/ Resubmit(c, i) \/ Revalidate(c, i)
                                  \/ \E d \in Contents : Correct(c, i, d)
                                  \/ \E t \in OVERRIDABLE : Accept(c, i, t)
           \/ Lock(c) \/ Abort(c)
    PROVE  DuplicatesSeen'
  <1>1. UNCHANGED <<row, accepted>>
    BY DEF Resubmit, Revalidate, Correct, Accept, Lock, Abort
  <1>2. call \in [Calls -> Request \union {None}]
    BY DEF DeskInvariant, DeskTypeOK
  <1>3. ASSUME NEW k, call' = [call EXCEPT ![c] = k], k # None => SeesDuplicates(k)
        PROVE  DuplicatesSeen'
    <2>2. \A i \in Invoices : Passed(i)' => /\ Passed(i)
                                            /\ row'[i].data = row[i].data
                                            /\ row'[i].kind = row[i].kind
      BY <1>1 DEF Passed, Exists
    <2>3. QED
      BY <1>1, <1>2, <1>3, <2>2, OneSees
  <1>4. ASSUME NEW n \in Request, call' = [call EXCEPT ![c] = Validation(n)]
        PROVE  DuplicatesSeen'
    BY <1>3, <1>4, ValidationSees
  <1>5. ASSUME NEW i \in Invoices, NEW op \in {"submit", "repeat", "validate", "correct", "accept"},
               NEW doc \in Row
        PROVE  NewRequest(op, i, doc) \in Request /\ NewRequest(op, i, doc).at = "lock"
    BY NewRequestFields
  <1>6. ASSUME NEW i \in Invoices, Resubmit(c, i) PROVE DuplicatesSeen'
    <2>1. row[i] \in Row
      BY <1>6, DeskFacts DEF Resubmit, Exists
    <2>2. SeesDuplicates(NewRequest("repeat", i, row[i]))
      BY <1>5, <2>1 DEF SeesDuplicates
    <2>3. QED
      BY <1>3, <1>6, <2>2 DEF Resubmit, Begin
  <1>7. ASSUME NEW i \in Invoices, Revalidate(c, i) PROVE DuplicatesSeen'
    <2>1. row[i] \in Row
      BY <1>7, DeskFacts DEF Revalidate, Available, Exists
    <2>2. QED
      BY <1>4, <1>5, <1>7, <2>1 DEF Revalidate, Begin
  <1>8. ASSUME NEW i \in Invoices, NEW d \in Contents, Correct(c, i, d) PROVE DuplicatesSeen'
    <2> DEFINE doc == [row[i] EXCEPT !.data = d]
    <2>1. row[i] \in Row
      BY <1>8, DeskFacts DEF Correct, Available, Exists
    <2>2. doc \in Row
      BY <2>1 DEF Row, InvoiceRow, ExpenseRow, Written
    <2>3. call' = [call EXCEPT ![c] = Validation(NewRequest("correct", i, doc))]
      BY <1>8 DEF Correct, Begin
    <2> HIDE DEF doc
    <2>4. QED
      BY <1>4, <1>5, <2>2, <2>3
  <1>9. ASSUME NEW i \in Invoices, NEW t \in OVERRIDABLE, Accept(c, i, t) PROVE DuplicatesSeen'
    <2> DEFINE n == NewRequest("accept", i, row[i])
               k == [n EXCEPT !.accepts = t]
    <2>1. row[i] \in Row
      BY <1>9, DeskFacts DEF Accept, Available, Exists
    <2>2. n \in Request /\ n.at = "lock"
      BY <1>5, <2>1
    <2>3. call' = [call EXCEPT ![c] = k]
      BY <1>9 DEF Accept, Begin
    <2> HIDE DEF n
    <2>4. k.at = "lock"
      BY <2>2 DEF Request
    <2> HIDE DEF k
    <2>5. QED
      BY <1>3, <2>3, <2>4 DEF SeesDuplicates
  <1>10. CASE Lock(c)
    <2>1. c \in Running /\ call[c] \in Request
      BY <1>10, DeskFacts DEF Lock
    <2>2. call' = [call EXCEPT ![c] = None] \/ call' = [call EXCEPT ![c] = Validation(call[c])]
      BY <1>10 DEF Lock, End
    <2>3. QED
      BY <1>3, <1>4, <2>1, <2>2
  <1>11. CASE Abort(c)
    BY <1>3, <1>11 DEF Abort, End
  <1>12. QED
    BY <1>6, <1>7, <1>8, <1>9, <1>10, <1>11

(* A new document, or one that is being captured, has not passed.          *)
LEMMA WritingSees ==
    ASSUME DeskInvariant, Justified, DuplicatesSeen, NEW c \in Calls,
           \/ \E i \in Invoices :
                 SubmitText(c, i) \/ \E kind \in Kinds, d \in Contents : Submit(c, i, kind, d)
           \/ \E d \in Contents, sure \in BOOLEAN : Capture(c, d, sure)
           \/ \E t \in AI_CAPTURE_TYPES : CaptureFails(c, t)
    PROVE  DuplicatesSeen'
  <1>1. /\ row \in [Invoices -> Row \union {None}]
        /\ call \in [Calls -> Request \union {None}]
    BY DEF DeskInvariant, DeskTypeOK
  <1>2. ASSUME NEW i \in Invoices,
               SubmitText(c, i) \/ \E kind \in Kinds, d \in Contents : Submit(c, i, kind, d)
        PROVE  DuplicatesSeen'
    <2>1. PICK new \in Row, k \in Request :
           /\ ~Exists(i) /\ row' = [row EXCEPT ![i] = new] /\ UNCHANGED accepted
           /\ call' = [call EXCEPT ![c] = k] /\ new.status \in {"received", "submitted"}
           /\ k.invoice = i /\ k.doc = new /\ k.at # "commit"
           /\ k.at = "capture" => new.status = "received"
      BY <1>2, SubmitWrites
    <2>2. row'[i] = new /\ \A j \in Invoices \ {i} : row'[j] = row[j]
      BY <1>1, <2>1
    <2>3. ~Passed(i)' /\ \A j \in Invoices \ {i} : Passed(j)' <=> Passed(j)
      BY <2>1, <2>2 DEF Passed, Exists
    <2>4. SeesDuplicates(k)
      BY <2>1 DEF SeesDuplicates
    <2>5. QED
      BY <1>1, <2>1, <2>2, <2>3, <2>4, OneSees
  <1>3. ASSUME NEW d \in Contents, NEW sure \in BOOLEAN, Capture(c, d, sure)
        PROVE  DuplicatesSeen'
    <2>1. PICK k \in Request, i \in Invoices, new \in Row :
             /\ c \in Running /\ i = call[c].invoice
             /\ row' = [row EXCEPT ![i] = new] /\ UNCHANGED accepted
             /\ call' = [call EXCEPT ![c] = k]
             /\ k.invoice = i /\ k.at = "lock" /\ k.doc.data = new.data
             /\ ~Passed(i) /\ ~Passed(i)'
             /\ \A j \in Invoices \ {i} : row'[j] = row[j]
      BY <1>3, CaptureWrites
    <2>2. \A j \in Invoices \ {i} : Passed(j)' <=> Passed(j)
      BY <2>1 DEF Passed, Exists
    <2>3. SeesDuplicates(k)
      BY <2>1 DEF SeesDuplicates
    <2>4. QED
      BY <1>1, <2>1, <2>2, <2>3, OneSees
  <1>4. ASSUME NEW t \in AI_CAPTURE_TYPES, CaptureFails(c, t) PROVE DuplicatesSeen'
    <2>1. c \in Running /\ call' = [call EXCEPT ![c].at = "lock"] /\ UNCHANGED <<row, accepted>>
      BY <1>4 DEF CaptureFails
    <2>2. PICK k : call' = [call EXCEPT ![c] = k] /\ k.at = "lock"
      <3> DEFINE l == [call[c] EXCEPT !.at = "lock"]
      <3>1. call' = [call EXCEPT ![c] = l] /\ l.at = "lock"
        BY <1>1, <2>1, DeskFacts DEF Request
      <3>2. QED
        BY <3>1
    <2>3. SeesDuplicates(k)
      BY <2>2 DEF SeesDuplicates
    <2>4. \A i \in Invoices : Passed(i)' => /\ Passed(i)
                                            /\ row'[i].data = row[i].data
                                            /\ row'[i].kind = row[i].kind
      BY <2>1 DEF Passed, Exists
    <2>5. QED
      BY <1>1, <2>1, <2>2, <2>3, <2>4, OneSees
  <1>5. QED
    BY <1>2, <1>3, <1>4

(* People let nothing pass that had not.                                   *)
LEMMA PeopleSee ==
    ASSUME DuplicatesSeen, UNCHANGED <<accepted, call>>, \A j \in Invoices : OnlyDecided(j)
    PROVE  DuplicatesSeen'
  <1>1. ASSUME NEW k, SeesDuplicates(k) PROVE SeesDuplicates(k)'
    <2>1. \A j \in Invoices : Repeats(j, k.doc)' => Repeats(j, k.doc)
      BY DEF Repeats, OnlyDecided
    <2>2. Covered(k)' = Covered(k)
      BY DEF Covered, AcceptedTypes
    <2>3. QED
      BY <1>1, <2>1, <2>2 DEF SeesDuplicates
  <1>2. DuplicatesSignedOff'
    BY NothingPasses DEF DuplicatesSeen, OnlyDecided
  <1>3. QED
    BY <1>1, <1>2 DEF DuplicatesSeen, Running

(* What a commit lets pass repeats nothing that passed, unless a person    *)
(* signed that it does not.                                                *)
LEMMA CommitSees ==
    ASSUME DeskInvariant, OneRequestEach, ValidationsApart, PassedIsJustified', Justified,
           DuplicatesSeen, NEW c \in Calls, Commit(c)
    PROVE  DuplicatesSeen'
  <1>1. PICK k \in Request, i \in Invoices, new \in Row :
             /\ c \in Running /\ k = call[c] /\ i = k.invoice /\ k.at = "commit"
             /\ row' = [row EXCEPT ![i] = new] /\ call' = [call EXCEPT ![c] = None]
             /\ new.kind = k.doc.kind /\ new.data = k.doc.data /\ new.kind = row[i].kind
             /\ accepted[i] \subseteq accepted'[i]
             /\ \A j \in Invoices \ {i} : accepted'[j] = accepted[j]
             /\ new.status \in {"validated", "approved", "posted"} =>
                   \A t \in Covered(k) \intersect VALIDATOR_TYPES :
                      t \in OVERRIDABLE /\ [type |-> t, data |-> new.data] \in accepted'[i]
    BY CommitSigns
  <1>2. /\ row \in [Invoices -> Row \union {None}]
        /\ call \in [Calls -> Request \union {None}]
    BY DEF DeskInvariant, DeskTypeOK
  <1>3. row'[i] = new /\ \A j \in Invoices \ {i} : row'[j] = row[j]
    BY <1>1, <1>2
  <1>4. ASSUME NEW e \in Running \ {c}, NEW l, l = call[e] PROVE SeesDuplicates(l)'
    <2>1. l.invoice \in Invoices \ {i} /\ SeesDuplicates(l)
      BY <1>1, <1>4, DeskFacts DEF OneRequestEach, DuplicatesSeen
    <2>2. Covered(l)' = Covered(l)
      BY <1>1, <2>1 DEF Covered, AcceptedTypes
    <2>3. ASSUME l.at = "commit", NEW j \in Invoices \ {l.invoice}, Repeats(j, l.doc)'
          PROVE  Repeats(j, l.doc)
      <3>1. ASSUME j = i PROVE FALSE
        <4>1. l.doc.kind = k.doc.kind /\ l.doc.data.key = k.doc.data.key
          BY <1>1, <1>3, <2>3, <3>1 DEF Repeats
        <4>2. /\ e \in Running /\ c \in Running /\ c # e
              /\ call[c].at = "commit" /\ call[e].at = "commit"
          BY <1>1, <1>4, <2>3
        <4>3. call[c].doc.kind = call[e].doc.kind /\ call[c].doc.data.key = call[e].doc.data.key
          BY <1>1, <1>4, <4>1
        <4>4. QED
          BY <4>2, <4>3 DEF ValidationsApart
      <3>2. QED
        BY <1>3, <2>3, <3>1 DEF Repeats, Passed, Exists
    <2>4. QED
      BY <2>1, <2>2, <2>3 DEF SeesDuplicates
  <1>5. ASSUME NEW j \in Invoices \ {i}, Passed(i)', Passed(j)',
               row'[i].kind = row'[j].kind, row'[i].data.key = row'[j].data.key
        PROVE  SignedFor(i, "duplicate_invoice")'
    <2>1. k.doc.data # Blank
      BY <1>1, <1>3, <1>5 DEF PassedIsJustified
    <2>2. Repeats(j, k.doc)
      BY <1>1, <1>3, <1>5, <2>1 DEF Repeats, Passed, Exists
    <2>4. "duplicate_invoice" \in Covered(k) \intersect VALIDATOR_TYPES
      BY <1>1, <2>2 DEF DuplicatesSeen, SeesDuplicates, VALIDATOR_TYPES
    <2>5. new.status \in {"validated", "approved", "posted"}
      BY <1>3, <1>5 DEF Passed
    <2>6. QED
      BY <1>1, <1>3, <2>4, <2>5 DEF SignedFor
  <1>6. DuplicatesSignedOff'
    <2> SUFFICES ASSUME NEW j \in Invoices, NEW l \in Invoices, j # l, Passed(j)', Passed(l)',
                        row'[j].kind = row'[l].kind, row'[j].data.key = row'[l].data.key
                 PROVE  SignedFor(j, "duplicate_invoice")' \/ SignedFor(l, "duplicate_invoice")'
      BY DEF DuplicatesSignedOff
    <2>1. CASE j = i
      BY <1>5, <2>1
    <2>2. CASE l = i
      BY <1>5, <2>2
    <2>3. CASE j # i /\ l # i
      <3>1. /\ row'[j] = row[j] /\ accepted'[j] = accepted[j]
            /\ row'[l] = row[l] /\ accepted'[l] = accepted[l]
        BY <1>1, <1>3, <2>3
      <3>2. QED
        BY <3>1 DEF DuplicatesSeen, DuplicatesSignedOff, Passed, Exists, SignedFor
    <2>4. QED
      BY <2>1, <2>2, <2>3
  <1>7. \A e \in Running' : e \in Running \ {c} /\ call'[e] = call[e]
    BY <1>1, <1>2 DEF Running
  <1>8. QED
    BY <1>4, <1>6, <1>7 DEF DuplicatesSeen

LEMMA NextSees ==
    ASSUME DeskInvariant, OneRequestEach, ValidationsApart, PassedIsJustified', Justified,
           DuplicatesSeen, [Next]_vars
    PROVE  DuplicatesSeen'
  <1>1. CASE UNCHANGED vars
    BY <1>1 DEF vars, DuplicatesSeen, DuplicatesSignedOff, SeesDuplicates, Running, Passed,
                Exists, SignedFor, Covered, AcceptedTypes, Repeats
  <1>2. ASSUME NEW c \in Calls, NEW i \in Invoices,
               \/ \E d \in Contents : Correct(c, i, d) \/ \E kind \in Kinds : Submit(c, i, kind, d)
               \/ SubmitText(c, i) \/ Resubmit(c, i) \/ Revalidate(c, i)
               \/ \E t \in OVERRIDABLE : Accept(c, i, t)
        PROVE  DuplicatesSeen'
    BY <1>2, ReadingSees, WritingSees
  <1>3. ASSUME NEW c \in Calls,
               \/ \E d \in Contents, sure \in BOOLEAN : Capture(c, d, sure)
               \/ \E t \in AI_CAPTURE_TYPES \ {"low_confidence"} : CaptureFails(c, t)
               \/ Lock(c) \/ Commit(c) \/ Abort(c)
        PROVE  DuplicatesSeen'
    BY <1>3, ReadingSees, WritingSees, CommitSees
  <1>4. ASSUME NEW i \in Invoices,
               \/ ApproveInvoice(i) \/ VoidInvoice(i) \/ RejectExpense(i)
               \/ \E amount \in Amounts \union {None} : RecordPayment(i, amount)
        PROVE  DuplicatesSeen'
    <2>1. UNCHANGED <<accepted, call>> /\ \A j \in Invoices : OnlyDecided(j)
      BY <1>4, ReviewDecides, PaymentDecides
    <2>2. QED
      BY <2>1, PeopleSee
  <1>5. QED
    BY <1>1, <1>2, <1>3, <1>4 DEF Next

(* Of two documents of a kind with the same key that both passed, a person *)
(* accepted one, as it is now, as no duplicate, as long as no two requests *)
(* work on the same document at once and no two validations that bring the *)
(* same key are under way side by side.                                    *)
THEOREM DuplicatesSigned ==
    Spec /\ []OneRequestEach /\ []ValidationsApart => []DuplicatesSignedOff
  <1>1. Init => Justified /\ DuplicatesSeen
    BY InitJustified DEF Init, DuplicatesSeen, Running, DuplicatesSignedOff, Passed, Exists
  <1>2. DeskInvariant /\ OneRequestEach /\ Justified /\ [Next]_vars => Justified'
    BY NextJustified
  <1>3. DeskInvariant /\ OneRequestEach /\ ValidationsApart /\ Justified /\ DuplicatesSeen
           /\ [Next]_vars => DuplicatesSeen'
    BY <1>2, NextSees DEF Justified
  <1>4. DuplicatesSeen => DuplicatesSignedOff
    BY DEF DuplicatesSeen
  <1>5. QED
    BY <1>1, <1>2, <1>3, <1>4, DeskHolds, PTL DEF Spec
=============================================================================
