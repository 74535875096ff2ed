------------------------------- MODULE Intake -------------------------------
(***************************************************************************)
(* Deliveries and their Idempotency-Keys, statement by statement: how      *)
(* create_inquiry, submit_invoice, submit_expense and the contact an       *)
(* extraction finds meet in the unique indexes.                            *)
(*                                                                         *)
(* LeadToCash has the delivery of an inquiry as one action.  Here it is    *)
(* what it is: look for the customer, insert it if there is none, insert   *)
(* the inquiry, commit.  At READ COMMITTED a SELECT sees what is           *)
(* committed; an INSERT that meets an uncommitted row of the same key      *)
(* waits for its transaction to end, and conflicts if it was committed.    *)
(*   - Inquiries are inserted ON CONFLICT DO NOTHING, and the one that is  *)
(*     there is compared with what was sent.                               *)
(*   - Customers are looked for first, and inserted in a savepoint: a      *)
(*     conflict undoes the savepoint only.                                 *)
(*   - Invoices and expenses are looked for first, too, but a conflict is  *)
(*     not caught: the answer is a 500.                                    *)
(*                                                                         *)
(* An operator whose name has a suffix after an underscore is a seeded     *)
(* fault that no action uses.                                              *)
(***************************************************************************)

CONSTANTS
    Calls,     \* HTTP requests the service can be working on at once
    Keys,      \* Idempotency-Keys; those of inquiries and documents are two name spaces
    Bodies,    \* what a delivery can say, up to its hash
    Emails,    \* addresses, in lower case
    Email,     \* the customer_email of a body, or None
    Late,      \* may an extraction be recovered as stale and go on nevertheless?
    None       \* no row, no request, no address, no answer

ASSUME IntakeAssumption ==
    /\ Email \in [Bodies -> Emails \union {None}]
    /\ Late \in BOOLEAN
    /\ None \notin Emails /\ None \notin Bodies

VARIABLES
    customers,   \* the addresses of the table customers, which is unique in them
    inquiry,     \* the table inquiries, by idempotency_key
    document,    \* the table invoices (or expenses), by idempotency_key
    call         \* the requests under way

vars == <<customers, inquiry, document, call>>

Replies    == {"created", "duplicate", "conflict", "replay", "error", "extracted"}
InquiryRow == [body : Bodies, customer : Emails \union {None}]
(* email is the address a request is about, made that it has inserted it   *)
(* and not committed; seen is the session's copy of the customer of the    *)
(* inquiry that is extracted.                                              *)
Request    == [op : {"create", "extract", "submit"}, key : Keys, body : Bodies,
               email : Emails \union {None}, made : BOOLEAN,
               seen : Emails \union {None},
               at : {"find", "ask", "customer", "new_customer", "row", "commit", "done"},
               answer : Replies \union {None}]

ASSUME NoneAssumption == None \notin InquiryRow /\ None \notin Request /\ None \notin Replies

Init ==
    /\ customers = {}
    /\ inquiry   = [k \in Keys |-> None]
    /\ document  = [k \in Keys |-> None]
    /\ call      = [c \in Calls |-> None]
-----------------------------------------------------------------------------
Running == {c \in Calls : call[c] # None}
At(c, place) == c \in Running /\ call[c].at = place

NewRequest(op, k, b, e, place) ==
    [op |-> op, key |-> k, body |-> b, email |-> e, made |-> FALSE, seen |-> None,
     at |-> place, answer |-> None]
Begin(c, r)      == call[c] = None /\ call' = [call EXCEPT ![c] = r]
Goes(c, place)   == call' = [call EXCEPT ![c].at = place]
(* The transaction has ended, and the answer is on its way.                *)
Answers(c, what) == call' = [call EXCEPT ![c].at = "done", ![c].made = FALSE, ![c].answer = what]

(* Another request has inserted the same, and has not committed.           *)
CustomerTaken(c) == \E d \in Running \ {c} : call[d].made /\ call[d].email = call[c].email
RowTaken_Waiting(c) == \E d \in Running \ {c} : /\ call[d].at \in {"row", "commit"}
                                                 /\ call[d].op = call[c].op
                                                 /\ call[d].key = call[c].key
RowTaken(c)      == \E d \in Running \ {c} : /\ At(d, "commit") /\ call[d].op = call[c].op
                                            /\ call[d].key = call[c].key
(* Another extraction has the row of the inquiry locked.                   *)
InquiryLocked(c) == \E d \in Running \ {c} : /\ call[d].op = "extract" /\ call[d].key = call[c].key
                                             /\ call[d].at \notin {"ask", "done"}
-----------------------------------------------------------------------------
(***************************************************************************)
(* What begins a request                                                   *)
(***************************************************************************)

(* POST /v1/inquiries.                                                     *)
Deliver(c, k, b) ==
    /\ Begin(c, NewRequest("create", k, b, Email[b], IF Email[b] = None THEN "row" ELSE "customer"))
    /\ UNCHANGED <<customers, inquiry, document>>

(* POST /v1/invoices, /v1/invoices/from-text, /v1/expenses, with a key.    *)
SubmitDocument(c, k, b) ==
    /\ Begin(c, NewRequest("submit", k, b, None, "find"))
    /\ UNCHANGED <<customers, inquiry, document>>

(* _start: the session reads the inquiry and keeps it.  That only one      *)
(* extraction is under way holds until one is taken for dead.              *)
Extract(c, k) ==
    /\ inquiry[k] # None
    /\ Late \/ \A d \in Running : ~(call[d].op = "extract" /\ call[d].key = k /\ call[d].at # "done")
    /\ Begin(c, [NewRequest("extract", k, inquiry[k].body, None, "ask")
                   EXCEPT !.seen = inquiry[k].customer])
    /\ UNCHANGED <<customers, inquiry, document>>

(* The final transaction of an extraction locks the inquiry; _link_contact *)
(* judges by the copy.  e is an address the message holds, or None.        *)
ReadContact(c, e) ==
    /\ At(c, "ask")
    /\ ~InquiryLocked(c)
    /\ IF call[c].seen # None \/ e = None THEN Answers(c, "extracted")
       ELSE call' = [call EXCEPT ![c].at = "customer", ![c].email = e]
    /\ UNCHANGED <<customers, inquiry, document>>
-----------------------------------------------------------------------------
(***************************************************************************)
(* The customer (_get_or_create_customer)                                  *)
(***************************************************************************)

AfterCustomer(r) == IF r.op = "create" THEN "row" ELSE "commit"

FindCustomer(c) ==
    /\ At(c, "customer")
    /\ Goes(c, IF call[c].email \in customers THEN AfterCustomer(call[c]) ELSE "new_customer")
    /\ UNCHANGED <<customers, inquiry, document>>

(* The INSERT in its savepoint.  When it conflicts, the row it conflicts   *)
(* with is committed, and found.                                           *)
NewCustomer(c) ==
    /\ At(c, "new_customer")
    /\ ~CustomerTaken(c)
    /\ call' = [call EXCEPT ![c].at = AfterCustomer(call[c]),
                            ![c].made = call[c].email \notin customers]
    /\ UNCHANGED <<customers, inquiry, document>>
-----------------------------------------------------------------------------
(***************************************************************************)
(* The row                                                                 *)
(***************************************************************************)

(* submit_invoice, submit_expense: the search for the key.                 *)
FindDocument(c) ==
    /\ At(c, "find")
    /\ IF document[call[c].key] # None THEN Answers(c, "replay") ELSE Goes(c, "row")
    /\ UNCHANGED <<customers, inquiry, document>>

(* ... and the INSERT, whose conflict nothing catches.                     *)
InsertDocument(c) ==
    /\ At(c, "row") /\ call[c].op = "submit"
    /\ ~RowTaken(c)
    /\ IF document[call[c].key] # None THEN Answers(c, "error") ELSE Goes(c, "commit")
    /\ UNCHANGED <<customers, inquiry, document>>

Committed_Any(r) == customers \union {r.email}
Committed(r) == IF r.made THEN customers \union {r.email} ELSE customers

InsertInquiry_NoIndex(c) ==
    /\ At(c, "row") /\ call[c].op = "create"
    /\ Goes(c, "commit")
    /\ UNCHANGED <<customers, inquiry, document>>

InsertInquiry_NotCompared(c) ==
    /\ At(c, "row") /\ call[c].op = "create"
    /\ ~RowTaken(c)
    /\ IF inquiry[call[c].key] = None THEN Goes(c, "commit") ELSE Answers(c, "duplicate")
    /\ UNCHANGED <<customers, inquiry, document>>

InsertInquiry_KeepsCustomer(c) ==
    /\ At(c, "row") /\ call[c].op = "create"
    /\ ~RowTaken(c)
    /\ LET stored == inquiry[call[c].key] IN
         \/ stored = None /\ Goes(c, "commit") /\ UNCHANGED customers
         \/ /\ stored # None
            /\ Answers(c, IF stored.body = call[c].body THEN "duplicate" ELSE "conflict")
            /\ customers' = Committed(call[c])
    /\ UNCHANGED <<inquiry, document>>

(* INSERT ... ON CONFLICT DO NOTHING and, if there was one, the comparison *)
(* of the hashes: a duplicate is committed, a conflict rolled back.        *)
InsertInquiry(c) ==
    /\ At(c, "row") /\ call[c].op = "create"
    /\ ~RowTaken(c)
    /\ LET stored == inquiry[call[c].key] IN
         \/ stored = None /\ Goes(c, "commit") /\ UNCHANGED customers
         \/ /\ stored # None /\ stored.body = call[c].body
            /\ Answers(c, "duplicate") /\ customers' = Committed(call[c])
         \/ /\ stored # None /\ stored.body # call[c].body
            /\ Answers(c, "conflict") /\ UNCHANGED customers
    /\ UNCHANGED <<inquiry, document>>

(* The customer and what refers to it become visible together.             *)
CommitInquiry(c) ==
    /\ At(c, "commit") /\ call[c].op = "create"
    /\ inquiry' = [inquiry EXCEPT ![call[c].key] = [body |-> call[c].body, customer |-> call[c].email]]
    /\ customers' = Committed(call[c])
    /\ Answers(c, "created")
    /\ UNCHANGED document

CommitContact(c) ==
    /\ At(c, "commit") /\ call[c].op = "extract"
    /\ inquiry' = [inquiry EXCEPT ![call[c].key].customer = call[c].email]
    /\ customers' = Committed(call[c])
    /\ Answers(c, "extracted")
    /\ UNCHANGED document

CommitDocument(c) ==
    /\ At(c, "commit") /\ call[c].op = "submit"
    /\ document' = [document EXCEPT ![call[c].key] = call[c].body]
    /\ Answers(c, "created")
    /\ UNCHANGED <<customers, inquiry>>

Leaves(c) ==
    /\ call' = [call EXCEPT ![c] = None]
    /\ UNCHANGED <<customers, inquiry, document>>

(* A lost connection or a crash: what was not committed is rolled back.    *)
Abort(c)    == c \in Running /\ call[c].at # "done" /\ Leaves(c)
(* The answer arrives, or is lost; either way the caller may call again.   *)
Answered(c) == At(c, "done") /\ Leaves(c)
-----------------------------------------------------------------------------
(* What a request does of its own accord.                                  *)
Proceeds(c) ==
    \/ \E e \in Emails \union {None} : ReadContact(c, e)
    \/ FindCustomer(c) \/ NewCustomer(c)
    \/ FindDocument(c) \/ InsertDocument(c) \/ InsertInquiry(c)
    \/ CommitInquiry(c) \/ CommitContact(c) \/ CommitDocument(c)

Next ==
    \/ \E c \in Calls, k \in Keys :
         Extract(c, k) \/ \E b \in Bodies : Deliver(c, k, b) \/ SubmitDocument(c, k, b)
    \/ \E c \in Calls : Proceeds(c) \/ Abort(c) \/ Answered(c)

Spec == Init /\ [][Next]_vars

(* The server works on a request, and who waits for a row is woken when    *)
(* the row is free, again and again if others get in first.                *)
Fairness == \A c \in Calls : SF_vars(Proceeds(c))
FairSpec == Spec /\ Fairness
-----------------------------------------------------------------------------
(***************************************************************************)
(* Properties                                                              *)
(***************************************************************************)

(* The tables and the requests keep their shape.                           *)
IntakeTypeOK ==
    /\ customers \subseteq Emails
    /\ inquiry   \in [Keys -> InquiryRow \union {None}]
    /\ document  \in [Keys -> Bodies \union {None}]
    /\ call      \in [Calls -> Request \union {None}]

AnswerIsTrue(r) ==
    /\ r.answer = "conflict" => inquiry[r.key] # None /\ inquiry[r.key].body # r.body
    /\ r.answer = "duplicate" => inquiry[r.key] # None /\ inquiry[r.key].body = r.body
    /\ r.answer = "created" => IF r.op = "create"
                               THEN inquiry[r.key] # None /\ inquiry[r.key].body = r.body
                               ELSE document[r.key] = r.body
    /\ r.answer \in {"replay", "error"} => document[r.key] # None

(* Whoever is told that an inquiry was created or is a duplicate has the   *)
(* one that says what was sent; a 409 is about one that says something     *)
(* else.  And a 500 for a submission comes only when the document is       *)
(* stored, so that the next try replays it.                                *)
AnswersAreTrue == \A c \in Running : AnswerIsTrue(call[c])

(* Inquiries and customers agree: every inquiry refers to a customer on    *)
(* file, and no delivery that is refused, repeated or lost leaves a        *)
(* customer behind nobody refers to.                                       *)
CustomersMatch == customers = {inquiry[k].customer : k \in {j \in Keys : inquiry[j] # None}} \ {None}

(* A delivery that comes second, however close, never replaces what is     *)
(* stored, and a customer once linked is not changed by what an LLM reads. *)
StoredStays == [][\A k \in Keys :
    /\ inquiry[k] # None => /\ inquiry'[k] # None /\ inquiry'[k].body = inquiry[k].body
                            /\ inquiry[k].customer # None => inquiry'[k].customer = inquiry[k].customer
    /\ document[k] # None => document'[k] = document[k]]_vars

(* Requests wait for each other's rows, never in a circle and never for    *)
(* ever: every one is answered, or lost with its connection.               *)
EveryRequestEnds == \A c \in Calls :
    call[c] # None ~> (call[c] = None \/ call[c].at = "done")
=============================================================================
