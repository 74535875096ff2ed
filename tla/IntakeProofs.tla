---------------------------- MODULE IntakeProofs ----------------------------
(***************************************************************************)
(* What deliveries are answered is true, what is stored stays, and         *)
(* customers and inquiries agree, and requests never wait for each other   *)
(* in a circle, for any number of requests, keys, contents and addresses.  *)
(***************************************************************************)
EXTENDS Intake, Naturals, TLAPS

(* A request r, while the tables hold cs, inq and doc.                     *)
RequestOK(r, cs, inq, doc) ==
    /\ r.at = "find" => r.op = "submit"
    /\ r.at = "ask" <=> r.op = "extract" /\ r.email = None /\ r.at # "done"
    /\ r.at \in {"customer", "new_customer"} => r.op # "submit" /\ r.email # None
    /\ r.at = "row" => r.op # "extract"
    /\ r.at = "commit" /\ r.op = "create" => inq[r.key] = None
    /\ r.at = "commit" /\ r.op = "submit" => doc[r.key] = None
    /\ r.op = "create" => r.email = Email[r.body]
    /\ r.op = "submit" => r.email = None
    /\ r.op = "extract" => inq[r.key] # None
    /\ r.op = "extract" /\ r.seen = None => Email[inq[r.key].body] = None
    /\ r.op = "extract" /\ r.at \notin {"ask", "done"} => r.seen = None
    /\ r.op = "extract" /\ r.at # "done" /\ ~Late => r.seen = inq[r.key].customer
    /\ r.made => r.at \in {"row", "commit"} /\ r.email # None /\ r.email \notin cs
    /\ r.at \in {"row", "commit"} /\ r.email # None => r.made \/ r.email \in cs
    /\ r.answer \in {"conflict", "duplicate"} =>
          inq[r.key] # None /\ (inq[r.key].body = r.body <=> r.answer = "duplicate")
    /\ r.answer = "created" => IF r.op = "create"
                               THEN inq[r.key] # None /\ inq[r.key].body = r.body
                               ELSE doc[r.key] = r.body
    /\ r.answer \in {"replay", "error"} => doc[r.key] # None

(* Two requests: what is inserted and not committed is inserted once.      *)
PairOK(r, s) ==
    /\ ~(r.made /\ s.made /\ r.email = s.email)
    /\ r.op = s.op /\ r.key = s.key =>
         /\ ~(r.op # "extract" /\ r.at = "commit" /\ s.at = "commit")
         /\ ~Late /\ r.op = "extract" => r.at = "done" \/ s.at = "done"

(* An inquiry refers to the customer its delivery named.                   *)
RowOK(row, cs) == row # None =>
    /\ row.customer \in cs \union {None}
    /\ Email[row.body] # None => row.customer = Email[row.body]

RequestsOK == \A c \in Running : RequestOK(call[c], customers, inquiry, document)
PairsOK    == \A c, d \in Running : c # d => PairOK(call[c], call[d])
RowsOK     == \A k \in Keys : RowOK(inquiry[k], customers)

IntakeInvariant == /\ IntakeTypeOK
                   /\ RequestsOK
                   /\ PairsOK
                   /\ RowsOK
                   /\ ~Late => CustomersMatch

Kept == \A k \in Keys :
    /\ inquiry[k] # None => /\ inquiry'[k] # None /\ inquiry'[k].body = inquiry[k].body
                            /\ inquiry[k].customer # None => inquiry'[k].customer = inquiry[k].customer
    /\ document[k] # None => document'[k] = document[k]
-----------------------------------------------------------------------------
LEMMA InitIntake == Init => IntakeInvariant
  <1> SUFFICES ASSUME Init PROVE IntakeInvariant
    OBVIOUS
  <1>1. IntakeTypeOK
    BY DEF Init, IntakeTypeOK
  <1>2. RequestsOK /\ PairsOK
    BY DEF Init, RequestsOK, PairsOK, Running
  <1>3. RowsOK
    BY DEF Init, RowsOK, RowOK
  <1>4. CustomersMatch
    BY DEF Init, CustomersMatch
  <1>5. QED
    BY <1>1, <1>2, <1>3, <1>4 DEF IntakeInvariant

LEMMA PairSymmetric ==
    ASSUME NEW r, NEW s, PairOK(r, s)
    PROVE  PairOK(s, r)
  BY DEF PairOK

LEMMA RequestFields ==
    ASSUME NEW r \in Request
    PROVE  /\ r # None /\ r.op \in {"create", "extract", "submit"} /\ r.key \in Keys
           /\ r.body \in Bodies /\ r.email \in Emails \union {None} /\ r.made \in BOOLEAN
           /\ r.seen \in Emails \union {None}
           /\ r.at \in {"find", "ask", "customer", "new_customer", "row", "commit", "done"}
  BY NoneAssumption DEF Request

(* What the invariant says of a request that is under way.                 *)
LEMMA CallFacts ==
    ASSUME IntakeInvariant, NEW c \in Running
    PROVE  /\ c \in Calls /\ call[c] \in Request /\ call[c].key \in Keys
           /\ RequestOK(call[c], customers, inquiry, document)
           /\ \A d \in Running \ {c} : PairOK(call[c], call[d])
           /\ RowOK(inquiry[call[c].key], customers)
  <1>1. c \in Calls /\ call[c] \in Request
    BY DEF IntakeInvariant, IntakeTypeOK, Running
  <1>2. call[c].key \in Keys
    BY <1>1, RequestFields
  <1>3. QED
    BY <1>1, <1>2 DEF IntakeInvariant, RequestsOK, PairsOK, RowsOK

(* A step of request c, after which it is r.                               *)
LEMMA Step ==
    ASSUME IntakeInvariant, NEW c \in Calls, NEW r \in Request \union {None},
           call' = [call EXCEPT ![c] = r],
           customers' \subseteq Emails, inquiry' \in [Keys -> InquiryRow \union {None}],
           document' \in [Keys -> Bodies \union {None}],
           \A d \in Running \ {c} : RequestOK(call[d], customers', inquiry', document'),
           r # None => /\ RequestOK(r, customers', inquiry', document')
                       /\ \A d \in Running \ {c} : PairOK(r, call[d]),
           \A k \in Keys : RowOK(inquiry'[k], customers'),
           ~Late => CustomersMatch'
    PROVE  IntakeInvariant'
  <1>1. call \in [Calls -> Request \union {None}]
    BY DEF IntakeInvariant, IntakeTypeOK
  <1>2. call' \in [Calls -> Request \union {None}] /\ call'[c] = r
        /\ \A d \in Calls \ {c} : call'[d] = call[d]
    BY <1>1
  <1>3. IntakeTypeOK'
    BY <1>2 DEF IntakeTypeOK
  <1>4. \A d \in Running' : \/ d = c /\ call'[d] = r /\ r # None
                            \/ d # c /\ d \in Running /\ call'[d] = call[d]
    BY <1>2 DEF Running
  <1>5. RequestsOK'
    BY <1>4 DEF RequestsOK
  <1>6. PairsOK'
    <2> SUFFICES ASSUME NEW d \in Running', NEW e \in Running', d # e
                 PROVE  PairOK(call'[d], call'[e])
      BY DEF PairsOK
    <2>1. CASE d = c
      BY <1>4, <2>1
    <2>2. CASE e = c
      BY <1>4, <2>2, PairSymmetric
    <2>3. CASE d # c /\ e # c
      BY <1>4, <2>3 DEF IntakeInvariant, PairsOK
    <2>4. QED
      BY <2>1, <2>2, <2>3
  <1>7. RowsOK'
    BY DEF RowsOK
  <1>8. QED
    BY <1>3, <1>5, <1>6, <1>7 DEF IntakeInvariant

(* A step that writes no table.                                            *)
LEMMA OnlyCall ==
    ASSUME IntakeInvariant, NEW c \in Calls, NEW r \in Request \union {None},
           call' = [call EXCEPT ![c] = r], UNCHANGED <<customers, inquiry, document>>,
           r # None => /\ RequestOK(r, customers, inquiry, document)
                       /\ \A d \in Running \ {c} : PairOK(r, call[d])
    PROVE  IntakeInvariant' /\ Kept
  <1>1. /\ customers' \subseteq Emails /\ inquiry' \in [Keys -> InquiryRow \union {None}]
        /\ document' \in [Keys -> Bodies \union {None}]
    BY DEF IntakeInvariant, IntakeTypeOK
  <1>2. \A d \in Running \ {c} : RequestOK(call[d], customers', inquiry', document')
    BY DEF IntakeInvariant, RequestsOK
  <1>3. \A k \in Keys : RowOK(inquiry'[k], customers')
    BY DEF IntakeInvariant, RowsOK
  <1>4. ~Late => CustomersMatch'
    BY DEF IntakeInvariant, CustomersMatch
  <1>5. r # None => RequestOK(r, customers', inquiry', document')
    OBVIOUS
  <1>6. Kept
    BY DEF Kept
  <1>7. QED
    BY <1>1, <1>2, <1>3, <1>4, <1>5, <1>6, Step

(* What the edits of a request leave of it.                                *)
LEMMA GoesTo ==
    ASSUME IntakeInvariant, NEW c \in Running,
           NEW place \in {"new_customer", "row", "commit"}, Goes(c, place)
    PROVE  \E r \in Request :
              /\ call' = [call EXCEPT ![c] = r]
              /\ r.op = call[c].op /\ r.key = call[c].key /\ r.body = call[c].body
              /\ r.email = call[c].email /\ r.made = call[c].made /\ r.seen = call[c].seen
              /\ r.at = place /\ r.answer = call[c].answer
  <1> DEFINE r == [call[c] EXCEPT !.at = place]
  <1>1. call[c] \in Request /\ call \in [Calls -> Request \union {None}]
    BY CallFacts DEF IntakeInvariant, IntakeTypeOK
  <1>2. /\ r \in Request
        /\ r.op = call[c].op /\ r.key = call[c].key /\ r.body = call[c].body
        /\ r.email = call[c].email /\ r.made = call[c].made /\ r.seen = call[c].seen
        /\ r.at = place /\ r.answer = call[c].answer
    BY <1>1 DEF Request
  <1>3. call' = [call EXCEPT ![c] = r]
    BY DEF Goes
  <1> HIDE DEF r
  <1>4. QED
    BY <1>2, <1>3

LEMMA AnswersWith ==
    ASSUME IntakeInvariant, NEW c \in Running,
           NEW what \in Replies,
           Answers(c, what)
    PROVE  \E r \in Request :
              /\ call' = [call EXCEPT ![c] = r]
              /\ r.op = call[c].op /\ r.key = call[c].key /\ r.body = call[c].body
              /\ r.email = call[c].email /\ r.seen = call[c].seen
              /\ r.at = "done" /\ ~r.made /\ r.answer = what
  <1> DEFINE r1 == [call[c] EXCEPT !.at = "done"]
             r2 == [r1 EXCEPT !.made = FALSE]
             r == [r2 EXCEPT !.answer = what]
  <1>1. call[c] \in Request /\ call \in [Calls -> Request \union {None}]
    BY CallFacts DEF IntakeInvariant, IntakeTypeOK
  <1>2. /\ r1 \in Request
        /\ r1.op = call[c].op /\ r1.key = call[c].key /\ r1.body = call[c].body
        /\ r1.email = call[c].email /\ r1.seen = call[c].seen /\ r1.at = "done"
    BY <1>1 DEF Request
  <1>3. call' = [call EXCEPT ![c] = r]
    BY <1>1 DEF Answers
  <1> HIDE DEF r1
  <1>4. /\ r2 \in Request
        /\ r2.op = call[c].op /\ r2.key = call[c].key /\ r2.body = call[c].body
        /\ r2.email = call[c].email /\ r2.seen = call[c].seen /\ r2.at = "done" /\ ~r2.made
    BY <1>2 DEF Request
  <1> HIDE DEF r2
  <1>5. /\ r \in Request
        /\ r.op = call[c].op /\ r.key = call[c].key /\ r.body = call[c].body
        /\ r.email = call[c].email /\ r.seen = call[c].seen
        /\ r.at = "done" /\ ~r.made /\ r.answer = what
    BY <1>4 DEF Request
  <1> HIDE DEF r
  <1>6. QED
    BY <1>3, <1>5
-----------------------------------------------------------------------------
(* Steps that write no table.                                              *)

(* A request that begins has inserted nothing and has been told nothing.   *)
LEMMA DeliverStep ==
    ASSUME IntakeInvariant, NEW c \in Calls, NEW k \in Keys, NEW b \in Bodies, Deliver(c, k, b)
    PROVE  IntakeInvariant' /\ Kept
  <1> DEFINE place == IF Email[b] = None THEN "row" ELSE "customer"
             r == NewRequest("create", k, b, Email[b], place)
  <1>1. Email[b] \in Emails \union {None} /\ place \in {"row", "customer"}
    BY IntakeAssumption
  <1>2. /\ r \in Request /\ r.op = "create" /\ r.key = k /\ r.body = b /\ r.email = Email[b]
        /\ ~r.made /\ r.at = place /\ r.answer = None
    BY <1>1 DEF NewRequest, Request
  <1>3. call' = [call EXCEPT ![c] = r] /\ UNCHANGED <<customers, inquiry, document>>
    BY DEF Deliver, Begin
  <1> HIDE DEF r
  <1>4. RequestOK(r, customers, inquiry, document)
    BY <1>2, NoneAssumption DEF RequestOK, Replies
  <1>5. \A d \in Running \ {c} : PairOK(r, call[d])
    BY <1>2 DEF PairOK
  <1>6. QED
    BY <1>2, <1>3, <1>4, <1>5, OnlyCall

LEMMA SubmitDocumentStep ==
    ASSUME IntakeInvariant, NEW c \in Calls, NEW k \in Keys, NEW b \in Bodies,
           SubmitDocument(c, k, b)
    PROVE  IntakeInvariant' /\ Kept
  <1> DEFINE r == NewRequest("submit", k, b, None, "find")
  <1>1. /\ r \in Request /\ r.op = "submit" /\ r.key = k /\ r.body = b /\ r.email = None
        /\ ~r.made /\ r.at = "find" /\ r.answer = None
    BY DEF NewRequest, Request
  <1>2. call' = [call EXCEPT ![c] = r] /\ UNCHANGED <<customers, inquiry, document>>
    BY DEF SubmitDocument, Begin
  <1> HIDE DEF r
  <1>3. RequestOK(r, customers, inquiry, document)
    BY <1>1, NoneAssumption DEF RequestOK, Replies
  <1>4. \A d \in Running \ {c} : PairOK(r, call[d])
    BY <1>1 DEF PairOK
  <1>5. QED
    BY <1>1, <1>2, <1>3, <1>4, OnlyCall

(* The copy an extraction begins with is the inquiry as it is.             *)
LEMMA ExtractStep ==
    ASSUME IntakeInvariant, NEW c \in Calls, NEW k \in Keys, Extract(c, k)
    PROVE  IntakeInvariant' /\ Kept
  <1> DEFINE n == NewRequest("extract", k, inquiry[k].body, None, "ask")
             r == [n EXCEPT !.seen = inquiry[k].customer]
  <1>1. /\ inquiry[k] # None /\ inquiry[k].body \in Bodies
        /\ inquiry[k].customer \in Emails \union {None} /\ RowOK(inquiry[k], customers)
    <2>1. inquiry[k] \in InquiryRow
      BY DEF Extract, IntakeInvariant, IntakeTypeOK
    <2>2. QED
      BY <2>1, NoneAssumption DEF Extract, IntakeInvariant, RowsOK, InquiryRow
  <1>2. /\ n \in Request /\ n.op = "extract" /\ n.key = k /\ n.email = None
        /\ ~n.made /\ n.at = "ask" /\ n.answer = None
    BY <1>1 DEF NewRequest, Request
  <1>3. call' = [call EXCEPT ![c] = r] /\ UNCHANGED <<customers, inquiry, document>>
    BY DEF Extract, Begin
  <1> HIDE DEF n
  <1>4. /\ r \in Request /\ r.op = "extract" /\ r.key = k /\ r.email = None
        /\ ~r.made /\ r.at = "ask" /\ r.answer = None /\ r.seen = inquiry[k].customer
    BY <1>1, <1>2 DEF Request
  <1> HIDE DEF r
  <1>5. inquiry[k].customer = None => Email[inquiry[k].body] = None
    BY <1>1, IntakeAssumption DEF RowOK
  <1>6. RequestOK(r, customers, inquiry, document)
    BY <1>1, <1>4, <1>5, NoneAssumption DEF RequestOK, Replies
  <1>7. \A d \in Running \ {c} : PairOK(r, call[d])
    BY <1>4 DEF PairOK, Extract
  <1>8. QED
    BY <1>3, <1>4, <1>6, <1>7, OnlyCall

(* An answer that writes nothing, and that the tables bear out.            *)
LEMMA AnswerStep ==
    ASSUME IntakeInvariant, NEW c \in Running, NEW what \in Replies, Answers(c, what),
           UNCHANGED <<customers, inquiry, document>>,
           what \in {"conflict", "duplicate"} =>
              /\ inquiry[call[c].key] # None
              /\ inquiry[call[c].key].body = call[c].body <=> what = "duplicate",
           what # "created",
           what \in {"replay", "error"} => document[call[c].key] # None
    PROVE  IntakeInvariant' /\ Kept
  <1>1. PICK r \in Request :
              /\ call' = [call EXCEPT ![c] = r]
              /\ r.op = call[c].op /\ r.key = call[c].key /\ r.body = call[c].body
              /\ r.email = call[c].email /\ r.seen = call[c].seen
              /\ r.at = "done" /\ ~r.made /\ r.answer = what
    BY AnswersWith
  <1>2. /\ c \in Calls /\ RequestOK(call[c], customers, inquiry, document)
        /\ \A d \in Running \ {c} : PairOK(call[c], call[d])
    BY CallFacts
  <1>3. RequestOK(r, customers, inquiry, document)
    BY <1>1, <1>2 DEF RequestOK
  <1>4. \A d \in Running \ {c} : PairOK(r, call[d])
    BY <1>1, <1>2 DEF PairOK
  <1>5. QED
    BY <1>1, <1>2, <1>3, <1>4, OnlyCall

LEMMA ReadContactStep ==
    ASSUME IntakeInvariant, NEW c \in Calls, NEW e \in Emails \union {None}, ReadContact(c, e)
    PROVE  IntakeInvariant' /\ Kept
  <1>1. c \in Running /\ call[c].at = "ask" /\ UNCHANGED <<customers, inquiry, document>>
    BY DEF ReadContact, At
  <1>2. CASE call[c].seen # None \/ e = None
    BY <1>1, <1>2, AnswerStep DEF ReadContact, Replies
  <1>3. CASE call[c].seen = None /\ e # None
    <2> DEFINE r1 == [call[c] EXCEPT !.at = "customer"]
               r == [r1 EXCEPT !.email = e]
    <2>1. /\ call[c] \in Request /\ call \in [Calls -> Request \union {None}]
          /\ RequestOK(call[c], customers, inquiry, document)
          /\ \A d \in Running \ {c} : PairOK(call[c], call[d])
      BY <1>1, CallFacts DEF IntakeInvariant, IntakeTypeOK
    <2>2. /\ r1 \in Request
          /\ r1.op = call[c].op /\ r1.key = call[c].key /\ r1.body = call[c].body
          /\ r1.made = call[c].made /\ r1.seen = call[c].seen /\ r1.at = "customer"
          /\ r1.answer = call[c].answer
      BY <2>1 DEF Request
    <2>3. call' = [call EXCEPT ![c] = r]
      BY <1>3, <2>1 DEF ReadContact
    <2> HIDE DEF r1
    <2>4. /\ r \in Request
          /\ r.op = call[c].op /\ r.key = call[c].key /\ r.body = call[c].body /\ r.email = e
          /\ r.made = call[c].made /\ r.seen = call[c].seen /\ r.at = "customer"
          /\ r.answer = call[c].answer
      BY <2>2 DEF Request
    <2> HIDE DEF r
    <2>5. call[c].op = "extract" /\ ~call[c].made
      BY <1>1, <2>1 DEF RequestOK
    <2>6. RequestOK(r, customers, inquiry, document)
      BY <1>1, <1>3, <2>1, <2>4, <2>5 DEF RequestOK
    <2>7. \A d \in Running \ {c} : PairOK(r, call[d])
      BY <1>1, <2>1, <2>4, <2>5 DEF PairOK
    <2>8. QED
      BY <1>1, <2>3, <2>4, <2>6, <2>7, OnlyCall
  <1>4. QED
    BY <1>2, <1>3

LEMMA FindCustomerStep ==
    ASSUME IntakeInvariant, NEW c \in Calls, FindCustomer(c)
    PROVE  IntakeInvariant' /\ Kept
  <1> DEFINE place == IF call[c].email \in customers THEN AfterCustomer(call[c]) ELSE "new_customer"
  <1>1. /\ c \in Running /\ call[c].at = "customer" /\ Goes(c, place)
        /\ UNCHANGED <<customers, inquiry, document>>
    BY DEF FindCustomer, At
  <1>2. /\ RequestOK(call[c], customers, inquiry, document) /\ call[c] \in Request
        /\ \A d \in Running \ {c} : PairOK(call[c], call[d])
    BY <1>1, CallFacts
  <1>3. /\ call[c].op \in {"create", "extract"} /\ ~call[c].made /\ call[c].email # None
    BY <1>1, <1>2, RequestFields DEF RequestOK
  <1>4. place \in {"new_customer", "row", "commit"}
    BY DEF AfterCustomer
  <1>5. PICK r \in Request :
              /\ call' = [call EXCEPT ![c] = r]
              /\ r.op = call[c].op /\ r.key = call[c].key /\ r.body = call[c].body
              /\ r.email = call[c].email /\ r.made = call[c].made /\ r.seen = call[c].seen
              /\ r.at = place /\ r.answer = call[c].answer
    BY <1>1, <1>4, GoesTo
  <1>6. CASE place = "new_customer"
    <2>1. RequestOK(r, customers, inquiry, document)
      BY <1>1, <1>2, <1>3, <1>5, <1>6 DEF RequestOK
    <2>2. \A d \in Running \ {c} : PairOK(r, call[d])
      BY <1>1, <1>2, <1>3, <1>5, <1>6 DEF PairOK
    <2>3. QED
      BY <1>1, <1>5, <2>1, <2>2, OnlyCall
  <1>7. CASE call[c].email \in customers /\ place = AfterCustomer(call[c])
    <2>1. \/ r.op = "create" /\ r.at = "row"
          \/ r.op = "extract" /\ r.at = "commit"
      BY <1>3, <1>5, <1>7 DEF AfterCustomer
    <2>2. RequestOK(r, customers, inquiry, document)
      BY <1>1, <1>2, <1>3, <1>5, <1>7, <2>1 DEF RequestOK
    <2>3. \A d \in Running \ {c} : PairOK(r, call[d])
      BY <1>1, <1>2, <1>3, <1>5, <2>1 DEF PairOK
    <2>4. QED
      BY <1>1, <1>5, <2>2, <2>3, OnlyCall
  <1>8. QED
    BY <1>6, <1>7

(* The insert waits for others of the same address, so it is the only one. *)
LEMMA NewCustomerStep ==
    ASSUME IntakeInvariant, NEW c \in Calls, NewCustomer(c)
    PROVE  IntakeInvariant' /\ Kept
  <1> DEFINE place == AfterCustomer(call[c])
             made == call[c].email \notin customers
             r1 == [call[c] EXCEPT !.at = place]
             r == [r1 EXCEPT !.made = made]
  <1>1. /\ c \in Running /\ call[c].at = "new_customer" /\ ~CustomerTaken(c)
        /\ UNCHANGED <<customers, inquiry, document>>
    BY DEF NewCustomer, At
  <1>2. /\ call[c] \in Request /\ call \in [Calls -> Request \union {None}]
        /\ RequestOK(call[c], customers, inquiry, document)
        /\ \A d \in Running \ {c} : PairOK(call[c], call[d])
    BY <1>1, CallFacts DEF IntakeInvariant, IntakeTypeOK
  <1>3. /\ call[c].op \in {"create", "extract"} /\ ~call[c].made /\ call[c].email # None
    BY <1>1, <1>2, RequestFields DEF RequestOK
  <1>4. place \in {"row", "commit"} /\ made \in BOOLEAN
    BY DEF AfterCustomer
  <1>5. call' = [call EXCEPT ![c] = r]
    BY <1>2 DEF NewCustomer
  <1>6. \/ call[c].op = "create" /\ place = "row"
        \/ call[c].op = "extract" /\ place = "commit"
    BY <1>3 DEF AfterCustomer
  <1> HIDE DEF place
  <1>7. /\ r1 \in Request
        /\ r1.op = call[c].op /\ r1.key = call[c].key /\ r1.body = call[c].body
        /\ r1.email = call[c].email /\ r1.seen = call[c].seen /\ r1.at = place
        /\ r1.answer = call[c].answer
    BY <1>2, <1>4 DEF Request
  <1> HIDE DEF r1
  <1>8. /\ r \in Request
        /\ r.op = call[c].op /\ r.key = call[c].key /\ r.body = call[c].body
        /\ r.email = call[c].email /\ r.seen = call[c].seen /\ r.at = place
        /\ r.answer = call[c].answer /\ (r.made <=> call[c].email \notin customers)
    BY <1>4, <1>7 DEF Request
  <1> HIDE DEF r
  <1>9. RequestOK(r, customers, inquiry, document)
    BY <1>1, <1>2, <1>3, <1>4, <1>6, <1>8 DEF RequestOK
  <1>10. \A d \in Running \ {c} : PairOK(r, call[d])
    BY <1>1, <1>2, <1>3, <1>6, <1>8 DEF PairOK, CustomerTaken
  <1>11. QED
    BY <1>1, <1>5, <1>8, <1>9, <1>10, OnlyCall

LEMMA LeavesStep ==
    ASSUME IntakeInvariant, NEW c \in Calls, Abort(c) \/ Answered(c)
    PROVE  IntakeInvariant' /\ Kept
  BY OnlyCall DEF Abort, Answered, Leaves

LEMMA FindDocumentStep ==
    ASSUME IntakeInvariant, NEW c \in Calls, FindDocument(c)
    PROVE  IntakeInvariant' /\ Kept
  <1>1. /\ c \in Running /\ call[c].at = "find" /\ UNCHANGED <<customers, inquiry, document>>
    BY DEF FindDocument, At
  <1>2. CASE document[call[c].key] # None
    BY <1>1, <1>2, AnswerStep DEF FindDocument, Replies
  <1>3. CASE document[call[c].key] = None
    <2>1. PICK r \in Request :
              /\ call' = [call EXCEPT ![c] = r]
              /\ r.op = call[c].op /\ r.key = call[c].key /\ r.body = call[c].body
              /\ r.email = call[c].email /\ r.made = call[c].made /\ r.seen = call[c].seen
              /\ r.at = "row" /\ r.answer = call[c].answer
      BY <1>1, <1>3, GoesTo DEF FindDocument
    <2>2. /\ RequestOK(call[c], customers, inquiry, document)
          /\ \A d \in Running \ {c} : PairOK(call[c], call[d])
      BY <1>1, CallFacts
    <2>3. call[c].op = "submit" /\ ~call[c].made /\ call[c].email = None
      BY <1>1, <2>2 DEF RequestOK
    <2>4. RequestOK(r, customers, inquiry, document)
      BY <1>1, <2>1, <2>2, <2>3 DEF RequestOK
    <2>5. \A d \in Running \ {c} : PairOK(r, call[d])
      BY <2>1, <2>3 DEF PairOK
    <2>6. QED
      BY <1>1, <2>1, <2>4, <2>5, OnlyCall
  <1>4. QED
    BY <1>2, <1>3

(* The insert of a row nobody else has inserted.                           *)
LEMMA InsertStep ==
    ASSUME IntakeInvariant, NEW c \in Running, call[c].at = "row", ~RowTaken(c),
           Goes(c, "commit"), UNCHANGED <<customers, inquiry, document>>,
           call[c].op = "create" => inquiry[call[c].key] = None,
           call[c].op = "submit" => document[call[c].key] = None
    PROVE  IntakeInvariant' /\ Kept
  <1>1. PICK r \in Request :
              /\ call' = [call EXCEPT ![c] = r]
              /\ r.op = call[c].op /\ r.key = call[c].key /\ r.body = call[c].body
              /\ r.email = call[c].email /\ r.made = call[c].made /\ r.seen = call[c].seen
              /\ r.at = "commit" /\ r.answer = call[c].answer
    BY GoesTo
  <1>2. /\ c \in Calls /\ RequestOK(call[c], customers, inquiry, document)
        /\ \A d \in Running \ {c} : PairOK(call[c], call[d])
    BY CallFacts
  <1>3. call[c].op # "extract"
    BY <1>2 DEF RequestOK
  <1>4. RequestOK(r, customers, inquiry, document)
    BY <1>1, <1>2, <1>3 DEF RequestOK
  <1>5. \A d \in Running \ {c} : PairOK(r, call[d])
    BY <1>1, <1>2, <1>3 DEF PairOK, RowTaken, At
  <1>6. QED
    BY <1>1, <1>2, <1>4, <1>5, OnlyCall

LEMMA InsertDocumentStep ==
    ASSUME IntakeInvariant, NEW c \in Calls, InsertDocument(c)
    PROVE  IntakeInvariant' /\ Kept
  <1>1. /\ c \in Running /\ call[c].at = "row" /\ call[c].op = "submit" /\ ~RowTaken(c)
        /\ UNCHANGED <<customers, inquiry, document>>
    BY DEF InsertDocument, At
  <1>2. CASE document[call[c].key] # None
    BY <1>1, <1>2, AnswerStep DEF InsertDocument, Replies
  <1>3. CASE document[call[c].key] = None
    BY <1>1, <1>3, InsertStep DEF InsertDocument
  <1>4. QED
    BY <1>2, <1>3

(* A duplicate has not inserted a customer: the inquiry that is there      *)
(* names the same address, so the customer was there.                      *)
LEMMA InsertInquiryStep ==
    ASSUME IntakeInvariant, NEW c \in Calls, InsertInquiry(c)
    PROVE  IntakeInvariant' /\ Kept
  <1> DEFINE stored == inquiry[call[c].key]
  <1>1. /\ c \in Running /\ call[c].at = "row" /\ call[c].op = "create" /\ ~RowTaken(c)
        /\ UNCHANGED <<inquiry, document>>
    BY DEF InsertInquiry, At
  <1>2. /\ RequestOK(call[c], customers, inquiry, document) /\ call[c] \in Request
        /\ RowOK(inquiry[call[c].key], customers)
    BY <1>1, CallFacts
  <1>3. CASE stored = None /\ Goes(c, "commit") /\ UNCHANGED customers
    BY <1>1, <1>3, InsertStep
  <1>4. CASE /\ stored # None /\ stored.body = call[c].body
             /\ Answers(c, "duplicate") /\ customers' = Committed(call[c])
    <2>1. call[c].email # None => call[c].email \in customers
      BY <1>1, <1>2, <1>4 DEF RequestOK, RowOK
    <2>2. ~call[c].made
      BY <1>2, <2>1 DEF RequestOK
    <2>3. customers' = customers
      BY <1>4, <2>2 DEF Committed
    <2>4. QED
      BY <1>1, <1>4, <2>3, AnswerStep DEF Replies
  <1>5. CASE /\ stored # None /\ stored.body # call[c].body
             /\ Answers(c, "conflict") /\ UNCHANGED customers
    BY <1>1, <1>5, AnswerStep DEF Replies
  <1>6. QED
    BY <1>3, <1>4, <1>5 DEF InsertInquiry
-----------------------------------------------------------------------------
(* The commits.                                                            *)

(* What a request has inserted becomes a customer; what others have        *)
(* inserted is something else.                                             *)
LEMMA CommittedFacts ==
    ASSUME IntakeInvariant, NEW c \in Running
    PROVE  /\ Committed(call[c]) \subseteq Emails /\ customers \subseteq Committed(call[c])
           /\ Committed(call[c]) \subseteq customers \union {call[c].email}
           /\ call[c].at = "commit" => call[c].email \in Committed(call[c]) \union {None}
           /\ \A d \in Running \ {c} : call[d].made => call[d].email \notin Committed(call[c])
  <1>1. /\ RequestOK(call[c], customers, inquiry, document) /\ call[c] \in Request
        /\ \A d \in Running \ {c} : PairOK(call[c], call[d])
        /\ \A d \in Running : RequestOK(call[d], customers, inquiry, document)
    BY CallFacts
  <1>2. customers \subseteq Emails
    BY DEF IntakeInvariant, IntakeTypeOK
  <1>3. call[c].made => call[c].email \in Emails
    BY <1>1, RequestFields DEF RequestOK
  <1>4. \A d \in Running \ {c} : call[d].made => call[d].email \notin Committed(call[c])
    BY <1>1 DEF Committed, RequestOK, PairOK
  <1>5. QED
    BY <1>1, <1>2, <1>3, <1>4 DEF Committed, RequestOK

(* The other requests do not mind a new inquiry, or a customer linked.     *)
LEMMA InquiryWritten ==
    ASSUME IntakeInvariant, NEW c \in Running, call[c].at = "commit", call[c].op # "submit",
           NEW new \in InquiryRow, NEW k, k = call[c].key,
           inquiry' = [inquiry EXCEPT ![k] = new], customers' = Committed(call[c]),
           Answers(c, IF call[c].op = "create" THEN "created" ELSE "extracted"),
           UNCHANGED document,
           new.customer = call[c].email,
           inquiry[k] = None => new.body = call[c].body,
           inquiry[k] # None => call[c].op = "extract" /\ new.body = inquiry[k].body
    PROVE  IntakeInvariant' /\ (~Late => Kept)
  <1> DEFINE what == IF call[c].op = "create" THEN "created" ELSE "extracted"
  <1>1. PICK r \in Request :
              /\ call' = [call EXCEPT ![c] = r]
              /\ r.op = call[c].op /\ r.key = call[c].key /\ r.body = call[c].body
              /\ r.email = call[c].email /\ r.seen = call[c].seen
              /\ r.at = "done" /\ ~r.made /\ r.answer = what
    BY AnswersWith DEF Replies
  <1>2. /\ c \in Calls /\ call[c] \in Request /\ k \in Keys
        /\ RequestOK(call[c], customers, inquiry, document)
        /\ \A d \in Running \ {c} : PairOK(call[c], call[d])
        /\ RowOK(inquiry[k], customers)
    BY CallFacts
  <1>3. /\ inquiry \in [Keys -> InquiryRow \union {None}] /\ new # None
        /\ document \in [Keys -> Bodies \union {None}]
    BY NoneAssumption DEF IntakeInvariant, IntakeTypeOK
  <1>4. /\ inquiry' \in [Keys -> InquiryRow \union {None}]
        /\ inquiry'[k] = new /\ \A j \in Keys \ {k} : inquiry'[j] = inquiry[j]
    BY <1>2, <1>3
  <1>5. /\ customers' \subseteq Emails /\ customers \subseteq customers'
        /\ customers' \subseteq customers \union {call[c].email}
        /\ call[c].email \in customers' \union {None}
        /\ \A d \in Running \ {c} : call[d].made => call[d].email \notin customers'
    BY CommittedFacts
  <1>6. call[c].op = "create" => inquiry[k] = None
    OBVIOUS
  <1>7. call[c].op = "extract" => /\ inquiry[k] # None /\ Email[inquiry[k].body] = None
                                  /\ ~Late => inquiry[k].customer = None
    BY <1>2 DEF RequestOK
  <1>8. ASSUME NEW d \in Running \ {c}
        PROVE  RequestOK(call[d], customers', inquiry', document')
    <2>1. /\ RequestOK(call[d], customers, inquiry, document) /\ call[d].key \in Keys
          /\ PairOK(call[c], call[d]) /\ call[d] \in Request
      BY <1>2, CallFacts
    <2>2. CASE call[d].key # k
      BY <1>4, <1>5, <2>1, <2>2 DEF RequestOK
    <2>3. CASE call[d].key = k /\ call[c].op = "create"
      <3>1. inquiry[k] = None /\ new.body = call[c].body
        BY <1>6, <2>3
      <3>2. call[d].op # "extract"
        BY <2>1, <2>3, <3>1 DEF RequestOK
      <3>3. ~(call[d].op = "create" /\ call[d].at = "commit")
        BY <2>1, <2>3 DEF PairOK
      <3>4. call[d].answer \notin {"conflict", "duplicate"}
            /\ (call[d].op = "create" => call[d].answer # "created")
        BY <2>1, <2>3, <3>1 DEF RequestOK
      <3>5. QED
        BY <1>5, <2>1, <2>3, <3>2, <3>3, <3>4 DEF RequestOK
    <2>4. CASE call[d].key = k /\ call[c].op = "extract"
      <3>1. inquiry[k] # None /\ new.body = inquiry[k].body
        BY <1>7, <2>4
      <3>2. call[d].op = "extract" /\ ~Late => call[d].at = "done"
        BY <2>1, <2>4 DEF PairOK
      <3>3. QED
        BY <1>3, <1>4, <1>5, <2>1, <2>4, <3>1, <3>2 DEF RequestOK
    <2>5. QED
      BY <1>2, <2>2, <2>3, <2>4, RequestFields
  <1>9. RequestOK(r, customers', inquiry', document')
    <2>1. call[c].op = "create" => new.body = call[c].body
      BY <1>6
    <2>2. call[c].op = "extract" => new.body = inquiry[k].body
      BY <1>7
    <2>3. r.answer = IF r.op = "create" THEN "created" ELSE "extracted"
      BY <1>1
    <2>4. QED
      BY <1>1, <1>2, <1>3, <1>4, <1>7, <2>1, <2>2, <2>3 DEF RequestOK
  <1>10. \A d \in Running \ {c} : PairOK(r, call[d])
    BY <1>1 DEF PairOK
  <1>11. RowOK(new, customers')
    <2>1. call[c].op = "create" => new.body = call[c].body /\ call[c].email = Email[call[c].body]
      BY <1>2, <1>6 DEF RequestOK
    <2>2. call[c].op = "extract" => Email[new.body] = None
      BY <1>7
    <2>3. call[c].op \in {"create", "extract"}
      BY <1>2, RequestFields
    <2>4. QED
      BY <1>5, <2>1, <2>2, <2>3 DEF RowOK
  <1>12. \A j \in Keys : RowOK(inquiry'[j], customers')
    <2> SUFFICES ASSUME NEW j \in Keys PROVE RowOK(inquiry'[j], customers')
      OBVIOUS
    <2>1. RowOK(inquiry[j], customers)
      BY DEF IntakeInvariant, RowsOK
    <2>2. QED
      BY <1>4, <1>5, <1>11, <2>1 DEF RowOK
  <1>13. ~Late => inquiry[k] = None \/ inquiry[k].customer = None
    BY <1>2, <1>6, <1>7, RequestFields
  <1>14. ASSUME ~Late PROVE CustomersMatch'
    <2>1. customers = {inquiry[j].customer : j \in {l \in Keys : inquiry[l] # None}} \ {None}
      BY <1>14 DEF IntakeInvariant, CustomersMatch
    <2>2. ASSUME NEW e \in customers'
          PROVE  e # None /\ \E j \in Keys : inquiry'[j] # None /\ inquiry'[j].customer = e
      <3>1. CASE e \in customers
        <4>1. PICK j \in Keys : inquiry[j] # None /\ inquiry[j].customer = e /\ e # None
          BY <2>1, <3>1
        <4>2. j # k
          BY <1>13, <1>14, <4>1
        <4>3. QED
          BY <1>4, <4>1, <4>2
      <3>2. CASE e \notin customers
        <4>1. e = call[c].email
          BY <1>5, <2>2, <3>2
        <4>2. e # None
          BY <1>5, <2>2, IntakeAssumption
        <4>3. QED
          BY <1>2, <1>3, <1>4, <4>1, <4>2
      <3>3. QED
        BY <3>1, <3>2
    <2>3. ASSUME NEW j \in Keys, inquiry'[j] # None, inquiry'[j].customer # None
          PROVE  inquiry'[j].customer \in customers'
      BY <1>12, <2>3 DEF RowOK
    <2>4. QED
      BY <2>2, <2>3 DEF CustomersMatch
  <1>15. ~Late => Kept
    BY <1>3, <1>4, <1>13 DEF Kept
  <1>16. document' \in [Keys -> Bodies \union {None}]
    BY <1>3
  <1>17. IntakeInvariant'
    BY <1>1, <1>2, <1>4, <1>5, <1>8, <1>9, <1>10, <1>12, <1>14, <1>16, Step
  <1>18. QED
    BY <1>15, <1>17

LEMMA CommitInquiryStep ==
    ASSUME IntakeInvariant, NEW c \in Calls, CommitInquiry(c)
    PROVE  IntakeInvariant' /\ (~Late => Kept)
  <1> DEFINE k == call[c].key
             new == [body |-> call[c].body, customer |-> call[c].email]
  <1>1. /\ c \in Running /\ call[c].at = "commit" /\ call[c].op = "create"
        /\ inquiry' = [inquiry EXCEPT ![k] = new] /\ customers' = Committed(call[c])
        /\ Answers(c, "created") /\ UNCHANGED document
    BY DEF CommitInquiry, At
  <1>2. call[c] \in Request /\ RequestOK(call[c], customers, inquiry, document)
    BY <1>1, CallFacts
  <1>3. new \in InquiryRow /\ new.body = call[c].body /\ new.customer = call[c].email
    BY <1>2, RequestFields DEF InquiryRow
  <1>4. inquiry[k] = None
    BY <1>1, <1>2 DEF RequestOK
  <1> HIDE DEF new
  <1>5. QED
    BY <1>1, <1>3, <1>4, InquiryWritten

LEMMA CommitContactStep ==
    ASSUME IntakeInvariant, NEW c \in Calls, CommitContact(c)
    PROVE  IntakeInvariant' /\ (~Late => Kept)
  <1> DEFINE k == call[c].key
             new == [inquiry[k] EXCEPT !.customer = call[c].email]
  <1>1. /\ c \in Running /\ call[c].at = "commit" /\ call[c].op = "extract"
        /\ inquiry' = [inquiry EXCEPT ![k] = new] /\ customers' = Committed(call[c])
        /\ Answers(c, "extracted") /\ UNCHANGED document
    BY DEF CommitContact, At
  <1>2. /\ call[c] \in Request /\ RequestOK(call[c], customers, inquiry, document) /\ k \in Keys
    BY <1>1, CallFacts
  <1>3. inquiry[k] # None /\ inquiry[k] \in InquiryRow
    BY <1>1, <1>2 DEF RequestOK, IntakeInvariant, IntakeTypeOK
  <1>4. /\ new \in InquiryRow /\ new.body = inquiry[k].body /\ new.customer = call[c].email
    BY <1>2, <1>3, RequestFields DEF InquiryRow
  <1> HIDE DEF new
  <1>5. QED
    BY <1>1, <1>3, <1>4, InquiryWritten

LEMMA CommitDocumentStep ==
    ASSUME IntakeInvariant, NEW c \in Calls, CommitDocument(c)
    PROVE  IntakeInvariant' /\ Kept
  <1> DEFINE k == call[c].key
  <1>1. /\ c \in Running /\ call[c].at = "commit" /\ call[c].op = "submit"
        /\ document' = [document EXCEPT ![k] = call[c].body]
        /\ Answers(c, "created") /\ UNCHANGED <<customers, inquiry>>
    BY DEF CommitDocument, At
  <1>2. PICK r \in Request :
              /\ call' = [call EXCEPT ![c] = r]
              /\ r.op = call[c].op /\ r.key = call[c].key /\ r.body = call[c].body
              /\ r.email = call[c].email /\ r.seen = call[c].seen
              /\ r.at = "done" /\ ~r.made /\ r.answer = "created"
    BY <1>1, AnswersWith DEF Replies
  <1>3. /\ call[c].body \in Bodies /\ k \in Keys
        /\ RequestOK(call[c], customers, inquiry, document)
        /\ \A d \in Running \ {c} : PairOK(call[c], call[d])
    BY <1>1, CallFacts, RequestFields
  <1>4. /\ document \in [Keys -> Bodies \union {None}] /\ call[c].body # None
        /\ customers' \subseteq Emails /\ inquiry' \in [Keys -> InquiryRow \union {None}]
    BY <1>1, <1>3, IntakeAssumption DEF IntakeInvariant, IntakeTypeOK
  <1>5. /\ document' \in [Keys -> Bodies \union {None}] /\ document'[k] = call[c].body
        /\ \A j \in Keys \ {k} : document'[j] = document[j]
    BY <1>1, <1>3, <1>4
  <1>6. document[k] = None
    BY <1>1, <1>3 DEF RequestOK
  <1>7. ASSUME NEW d \in Running \ {c}
        PROVE  RequestOK(call[d], customers', inquiry', document')
    <2>1. /\ RequestOK(call[d], customers, inquiry, document) /\ call[d].key \in Keys
          /\ PairOK(call[c], call[d])
      BY <1>3, CallFacts
    <2>2. CASE call[d].key # k
      BY <1>1, <1>5, <2>1, <2>2 DEF RequestOK
    <2>3. CASE call[d].key = k
      <3>1. ~(call[d].op = "submit" /\ call[d].at = "commit")
        BY <1>1, <2>1, <2>3 DEF PairOK
      <3>2. call[d].answer = "created" => call[d].op = "create"
        <4>1. CASE call[d].op = "create"
          BY <4>1
        <4>2. CASE call[d].op # "create"
          <5>1. call[d].answer = "created" => document[k] = call[d].body
            BY <2>1, <2>3, <4>2 DEF RequestOK
          <5>2. call[d].body # None
            BY CallFacts, RequestFields, IntakeAssumption
          <5>3. QED
            BY <1>6, <5>1, <5>2
        <4>3. QED
          BY <4>1, <4>2
      <3>3. QED
        BY <1>1, <1>4, <1>5, <2>1, <2>3, <3>1, <3>2 DEF RequestOK
    <2>4. QED
      BY <2>2, <2>3
  <1>8. RequestOK(r, customers', inquiry', document')
    BY <1>1, <1>2, <1>3, <1>5 DEF RequestOK
  <1>9. \A d \in Running \ {c} : PairOK(r, call[d])
    BY <1>1, <1>2 DEF PairOK
  <1>10. \A j \in Keys : RowOK(inquiry'[j], customers')
    BY <1>1 DEF IntakeInvariant, RowsOK
  <1>11. ~Late => CustomersMatch'
    BY <1>1 DEF IntakeInvariant, CustomersMatch
  <1>12. Kept
    BY <1>1, <1>5, <1>6 DEF Kept
  <1>13. IntakeInvariant'
    BY <1>2, <1>4, <1>5, <1>7, <1>8, <1>9, <1>10, <1>11, Step
  <1>14. QED
    BY <1>12, <1>13
-----------------------------------------------------------------------------
LEMMA NextIntake == IntakeInvariant /\ [Next]_vars => IntakeInvariant' /\ (~Late => Kept)
  <1> SUFFICES ASSUME IntakeInvariant, [Next]_vars PROVE IntakeInvariant' /\ (~Late => Kept)
    OBVIOUS
  <1>1. CASE UNCHANGED vars
    BY <1>1 DEF vars, IntakeInvariant, IntakeTypeOK, RequestsOK, PairsOK, RowsOK, Running,
                CustomersMatch, Kept
  <1>2. ASSUME NEW c \in Calls, NEW k \in Keys,
               Extract(c, k) \/ \E b \in Bodies : Deliver(c, k, b) \/ SubmitDocument(c, k, b)
        PROVE  IntakeInvariant' /\ Kept
    BY <1>2, ExtractStep, DeliverStep, SubmitDocumentStep
  <1>3. ASSUME NEW c \in Calls, Proceeds(c)
        PROVE  IntakeInvariant' /\ (~Late => Kept)
    BY <1>3, ReadContactStep, FindCustomerStep, NewCustomerStep, FindDocumentStep,
       InsertDocumentStep, InsertInquiryStep, CommitInquiryStep, CommitContactStep,
       CommitDocumentStep DEF Proceeds
  <1>4. ASSUME NEW c \in Calls, Abort(c) \/ Answered(c)
        PROVE  IntakeInvariant' /\ Kept
    BY <1>4, LeavesStep
  <1>5. QED
    BY <1>1, <1>2, <1>3, <1>4 DEF Next

(* The invariant holds in every state.                                     *)
THEOREM IntakeHolds == Spec => []IntakeInvariant
  <1>1. Init => IntakeInvariant
    BY InitIntake
  <1>2. IntakeInvariant /\ [Next]_vars => IntakeInvariant'
    BY NextIntake
  <1>3. QED
    BY <1>1, <1>2, PTL DEF Spec

(* The tables and the requests keep their shape (IntakeTypeOK).            *)
THEOREM IntakeTypes == Spec => []IntakeTypeOK
  <1>1. IntakeInvariant => IntakeTypeOK
    BY DEF IntakeInvariant
  <1>2. QED
    BY <1>1, IntakeHolds, PTL

(* A delivery is told "created" or "duplicate" only of an inquiry that     *)
(* says what it sent, 409 only of one that does not, and a submission gets *)
(* a 500 only when its document is stored, also if extractions are late.   *)
THEOREM AnswersHold == Spec => []AnswersAreTrue
  <1>1. IntakeInvariant => AnswersAreTrue
    BY DEF IntakeInvariant, RequestsOK, RequestOK, AnswersAreTrue, AnswerIsTrue
  <1>2. QED
    BY <1>1, IntakeHolds, PTL

(* As long as no extraction outlives the stale limit, the customers are    *)
(* exactly those some inquiry refers to.                                   *)
THEOREM CustomersAgree ==
    ASSUME ~Late
    PROVE  Spec => []CustomersMatch
  <1>1. IntakeInvariant => CustomersMatch
    BY DEF IntakeInvariant
  <1>2. QED
    BY <1>1, IntakeHolds, PTL

(* As long as no extraction outlives the stale limit, nothing that was     *)
(* stored is replaced by a later delivery, or linked to somebody else.     *)
THEOREM StoredIsKept ==
    ASSUME ~Late
    PROVE  Spec => StoredStays
  <1>1. IntakeInvariant /\ [Next]_vars =>
           [\A k \in Keys :
               /\ inquiry[k] # None => /\ inquiry'[k] # None /\ inquiry'[k].body = inquiry[k].body
                                       /\ inquiry[k].customer # None
                                             => inquiry'[k].customer = inquiry[k].customer
               /\ document[k] # None => document'[k] = document[k]]_vars
    BY NextIntake DEF Kept
  <1>2. QED
    BY <1>1, IntakeHolds, PTL DEF Spec, StoredStays
-----------------------------------------------------------------------------
(***************************************************************************)
(* Who waits for whom: a statement waits for rows that another request has *)
(* inserted or locked and not committed.                                   *)
(***************************************************************************)
UnderWay == {c \in Running : call[c].at # "done"}

Holds(d, c) == d \in Running \ {c} /\ call[d].op = call[c].op /\ call[d].key = call[c].key

WaitsFor(c, d) ==
    \/ /\ call[c].at = "ask" /\ call[c].op = "extract"
       /\ Holds(d, c) /\ call[d].at \notin {"ask", "done"}
    \/ /\ call[c].at = "new_customer"
       /\ d \in Running \ {c} /\ call[d].made /\ call[d].email = call[c].email
    \/ /\ call[c].at = "row"
       /\ Holds(d, c) /\ call[d].at = "commit"

(* The guards of the statements say nothing else.                          *)
LEMMA WaitsAreGuards ==
    ASSUME IntakeInvariant, NEW c \in UnderWay
    PROVE  (\E d \in Calls : WaitsFor(c, d)) <=>
              \/ call[c].at = "ask" /\ InquiryLocked(c)
              \/ call[c].at = "new_customer" /\ CustomerTaken(c)
              \/ call[c].at = "row" /\ RowTaken(c)
  <1>1. c \in Running /\ RequestOK(call[c], customers, inquiry, document)
    BY CallFacts DEF UnderWay
  <1>2. call[c].at = "ask" => call[c].op = "extract"
    BY <1>1 DEF RequestOK
  <1>3. Running \subseteq Calls
    BY DEF Running
  <1>4. QED
    BY <1>2, <1>3 DEF WaitsFor, Holds, InquiryLocked, CustomerTaken, RowTaken, At

(* Whoever is waited for is further on, so nobody waits in a circle.       *)
Stage == [find |-> 0, ask |-> 0, customer |-> 1, new_customer |-> 2, row |-> 3, commit |-> 4]
StagesRise == \A c, d \in Running : WaitsFor(c, d) =>
                 d \in UnderWay /\ Stage[call[c].at] < Stage[call[d].at]
Proceeding == {c \in UnderWay : \A d \in Calls : ~WaitsFor(c, d)}

LEMMA Rising == IntakeInvariant => StagesRise
  <1> SUFFICES ASSUME IntakeInvariant, NEW c \in Running, NEW d \in Running, WaitsFor(c, d)
               PROVE  d \in UnderWay /\ Stage[call[c].at] < Stage[call[d].at]
    BY DEF StagesRise
  <1>1. call[d] \in Request /\ RequestOK(call[d], customers, inquiry, document)
    BY CallFacts
  <1>2. /\ Stage["ask"] = 0 /\ Stage["customer"] = 1 /\ Stage["new_customer"] = 2
        /\ Stage["row"] = 3 /\ Stage["commit"] = 4
    BY DEF Stage
  <1>3. CASE call[c].at = "ask"
    <2>1. call[d].op = "extract" /\ call[d].at \notin {"ask", "done"}
      BY <1>3 DEF WaitsFor, Holds
    <2>2. call[d].at \in {"customer", "new_customer", "row", "commit"}
      BY <1>1, <2>1, RequestFields DEF RequestOK
    <2>3. QED
      BY <1>2, <1>3, <2>1, <2>2 DEF UnderWay
  <1>4. CASE call[c].at = "new_customer"
    <2>1. call[d].made
      BY <1>4 DEF WaitsFor
    <2>2. call[d].at \in {"row", "commit"}
      BY <1>1, <2>1 DEF RequestOK
    <2>3. QED
      BY <1>2, <1>4, <2>2 DEF UnderWay
  <1>5. CASE call[c].at = "row"
    <2>1. call[d].at = "commit"
      BY <1>5 DEF WaitsFor
    <2>2. QED
      BY <1>2, <1>5, <2>1 DEF UnderWay
  <1>6. QED
    BY <1>3, <1>4, <1>5 DEF WaitsFor

(* Whoever waits, waits in the end for somebody who does not: in at most   *)
(* three steps, since the stages rise.                                     *)
LEMMA SomebodyAhead ==
    ASSUME IntakeInvariant, NEW c \in UnderWay
    PROVE  Proceeding # {}
  <1>1. StagesRise
    BY Rising
  <1>2. ASSUME NEW d \in UnderWay, call[d].at \in {"find", "customer", "commit"}
        PROVE  d \in Proceeding
    BY <1>2 DEF WaitsFor, Proceeding
  <1>3. ASSUME NEW d \in UnderWay, call[d].at = "row" PROVE Proceeding # {}
    <2>1. CASE \E e \in Calls : WaitsFor(d, e)
      <3>1. PICK e \in Calls : WaitsFor(d, e)
        BY <2>1
      <3>2. e \in UnderWay /\ call[e].at = "commit"
        BY <1>3, <3>1 DEF WaitsFor, Holds, UnderWay
      <3>3. QED
        BY <1>2, <3>2
    <2>2. QED
      BY <2>1 DEF Proceeding
  <1>4. ASSUME NEW d \in UnderWay, call[d].at = "new_customer" PROVE Proceeding # {}
    <2>1. CASE \E e \in Calls : WaitsFor(d, e)
      <3>1. PICK e \in Calls : WaitsFor(d, e)
        BY <2>1
      <3>2. e \in Running /\ call[e].made
        BY <1>4, <3>1 DEF WaitsFor
      <3>3. call[e].at \in {"row", "commit"}
        BY <3>2, CallFacts DEF RequestOK
      <3>4. e \in UnderWay
        BY <3>2, <3>3 DEF UnderWay
      <3>5. QED
        BY <1>2, <1>3, <3>3, <3>4
    <2>2. QED
      BY <2>1 DEF Proceeding
  <1>5. ASSUME NEW d \in UnderWay, call[d].at = "ask" PROVE Proceeding # {}
    <2>1. CASE \E e \in Calls : WaitsFor(d, e)
      <3>1. PICK e \in Calls : WaitsFor(d, e)
        BY <2>1
      <3>2. e \in UnderWay /\ call[e].at \notin {"ask", "done"}
        BY <1>5, <3>1 DEF WaitsFor, Holds, UnderWay
      <3>3. call[e].at \in {"find", "customer", "new_customer", "row", "commit"}
        BY <3>2, CallFacts, RequestFields DEF UnderWay
      <3>4. QED
        BY <1>2, <1>3, <1>4, <3>2, <3>3
    <2>2. QED
      BY <2>1 DEF Proceeding
  <1>6. call[c].at \in {"find", "ask", "customer", "new_customer", "row", "commit"}
    BY CallFacts, RequestFields DEF UnderWay
  <1>7. QED
    BY <1>2, <1>3, <1>4, <1>5, <1>6

(* Deliveries that insert the same customer and the same key, and          *)
(* extractions of the same inquiry, wait for each other, but never in a    *)
(* circle: of any requests that are under way, one has nobody to wait for. *)
THEOREM NobodyIsStuck ==
    Spec => [](StagesRise /\ (UnderWay # {} => Proceeding # {}))
  <1>1. IntakeInvariant => StagesRise /\ (UnderWay # {} => Proceeding # {})
    BY Rising, SomebodyAhead
  <1>2. QED
    BY <1>1, IntakeHolds, PTL
=============================================================================
