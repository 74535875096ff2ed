---------------------------- MODULE Appointments ----------------------------
(***************************************************************************)
(* Booking the call a customer asked for, in the mock calendar, and the    *)
(* failure reports of n8n, which share one exception type with it.         *)
(*                                                                         *)
(* A booking locks the inquiry, reads what was asked, takes the calendar's *)
(* advisory lock, searches, inserts and commits.  A report takes no lock:  *)
(* open_exception selects an open item and then inserts one, and only the  *)
(* unique index exceptions_one_open_uq stands between two callers that saw *)
(* none.  So every request is a few steps, and any of them can be its last.*)
(*                                                                         *)
(* Hours are whole: a slot starts on the hour and lasts SLOT_MINUTES, half *)
(* of it, so two appointments overlap when they have the same slot.  Days  *)
(* are counted from a Monday, in the business timezone.                    *)
(*                                                                         *)
(* An operator whose name has a suffix after an underscore is a seeded     *)
(* fault that no action uses.                                              *)
(***************************************************************************)
EXTENDS Integers, FiniteSets

CONSTANTS
    Inquiries,     \* primary keys of the inquiries table
    Calls,         \* HTTP requests the service can be working on at once
    FIRST_SLOT,    \* the first hour of a slot
    LAST_SLOT,     \* the hour business ends
    SearchDays,    \* business days a search looks at (10 in the code)
    Preferences,   \* what customers say: members of Wishes
    StartDay,      \* the day it is in the beginning
    Horizon,       \* bound: the last day the clock reaches
    None           \* no row, no lock, no wish

WEEKDAYS == <<"monday", "tuesday", "wednesday", "thursday", "friday",
              "saturday", "sunday">>
Wishes   == {"today", "tomorrow", "next_week", "whenever"} \union {WEEKDAYS[n] : n \in 1 .. 5}

ASSUME CalendarAssumption ==
    /\ FIRST_SLOT \in 0 .. 23 /\ LAST_SLOT \in 1 .. 23
    /\ SearchDays \in Nat \ {0} /\ StartDay \in Nat /\ Horizon \in Nat
    /\ Preferences \subseteq Wishes /\ None \notin Wishes

Moment == [day : Nat, hour : 0 .. 23]

VARIABLES
    now,          \* the business clock
    wish,         \* appointment_preference of inquiries that request a call, or None
    appointment,  \* rows of the appointments table: [inquiry, slot]
    item,         \* service named by the open downstream_failure of an inquiry, or None
    logged,       \* inquiries with an n8n.workflow_failed row in the audit log
    calendar,     \* the request that holds the advisory lock 'mock-calendar', or None
    call          \* the requests under way

vars == <<now, wish, appointment, item, logged, calendar, call>>

Services == {"calendar", "n8n"}
(* asked is the moment a booking read the clock, slot what it inserted.    *)
Request  == [op : {"book", "report"}, inquiry : Inquiries,
             at : {"search", "booked", "insert"},
             asked : Moment \union {None}, slot : Moment \union {None}]
Row      == [inquiry : Inquiries, slot : Moment]

ASSUME NoneAssumption ==
    None \notin Inquiries /\ None \notin Calls /\ None \notin Moment
      /\ None \notin Request /\ None \notin Services

Init ==
    /\ now         = [day |-> StartDay, hour |-> 9]
    /\ wish        = [i \in Inquiries |-> None]
    /\ appointment = {}
    /\ item        = [i \in Inquiries |-> None]
    /\ logged      = {}
    /\ calendar    = None
    /\ call        = [c \in Calls |-> None]
-----------------------------------------------------------------------------
(***************************************************************************)
(* The search                                                              *)
(***************************************************************************)

Weekday(d) == d % 7
Before(s, t) == s.day < t.day \/ (s.day = t.day /\ s.hour < t.hour)

(* _next_business_day: the day itself, or the Monday after it              *)
NextBusinessDay(d) == IF Weekday(d) = 5 THEN d + 2
                      ELSE IF Weekday(d) = 6 THEN d + 1 ELSE d

NextMonday(d) == d + 7 - Weekday(d)

(* The coming n-th day of the week, a week ahead if that is today.         *)
Coming_Today(n, d) == d + ((n - Weekday(d)) % 7)

Coming(n, d) == IF n = Weekday(d) THEN d + 7 ELSE d + ((n - Weekday(d)) % 7)

(* target_day, for words that name a single day                            *)
TargetDay(said, at) ==
    IF said = "today" /\ at.hour < LAST_SLOT THEN NextBusinessDay(at.day)
    ELSE IF said = "next_week" THEN NextMonday(at.day)
    ELSE IF \E n \in 1 .. 5 : WEEKDAYS[n] = said
         THEN Coming((CHOOSE n \in 1 .. 5 : WEEKDAYS[n] = said) - 1, at.day)
    ELSE NextBusinessDay(at.day + 1)

(* The k-th day a search that starts on day d looks at.                    *)
SearchDay(d, k) ==
    LET f[n \in Nat] == IF n = 0 THEN d ELSE NextBusinessDay(f[n - 1] + 1)
    IN  f[k]

Candidates(d) == [day : {SearchDay(d, k) : k \in 0 .. SearchDays - 1},
                  hour : FIRST_SLOT .. LAST_SLOT - 1]

(* Free slots after the moment of asking, as committed rows show them.     *)
Free(k) == {s \in Candidates(TargetDay(wish[k.inquiry], k.asked)) :
              Before(k.asked, s) /\ \A a \in appointment : a.slot # s}
Earliest(s, S) == \A t \in S : s = t \/ Before(s, t)
-----------------------------------------------------------------------------
(***************************************************************************)
(* Requests                                                                *)
(***************************************************************************)

Running   == {c \in Calls : call[c] # None}
(* A booking has its inquiry locked from its first statement to its end.   *)
Locked(i) == \E c \in Running : call[c].op = "book" /\ call[c].inquiry = i
Booked(i) == \E a \in appointment : a.inquiry = i

NewRequest(op, i, at) == [op |-> op, inquiry |-> i, at |-> at, asked |-> None, slot |-> None]
Begin(c, k) == call[c] = None /\ call' = [call EXCEPT ![c] = k]
End(c)      == call' = [call EXCEPT ![c] = None]

(* extract_inquiry reads from the message whether and when a call is       *)
(* wanted, under the lock of the inquiry; after a booking nobody looks.    *)
ReadWish(i, said) ==
    /\ ~Locked(i) /\ ~Booked(i)
    /\ wish' = [wish EXCEPT ![i] = said]
    /\ UNCHANGED <<now, appointment, item, logged, calendar, call>>

(* POST /v1/inquiries/{id}/appointment: neither booked yet (a replay) nor  *)
(* unasked for (409).                                                      *)
MayBook(c, i) == ~Locked(i) /\ ~Booked(i) /\ wish[i] # None

RequestAppointment(c, i) ==
    /\ MayBook(c, i)
    /\ Begin(c, [NewRequest("book", i, "search") EXCEPT !.asked = now])
    /\ UNCHANGED <<now, wish, appointment, item, logged, calendar>>

(* The calendar is down: open_exception finds no open item and will insert *)
(* one.  If it finds one it is left as it is, and nothing changes.         *)
CalendarDown(c, i) ==
    /\ MayBook(c, i)
    /\ item[i] = None
    /\ Begin(c, NewRequest("book", i, "insert"))
    /\ UNCHANGED <<now, wish, appointment, item, logged, calendar>>

(* POST /v1/ops/workflow-failures *)
Report(c, i) ==
    /\ item[i] = None
    /\ Begin(c, NewRequest("report", i, "insert"))
    /\ UNCHANGED <<now, wish, appointment, item, logged, calendar>>

(* ... and when some downstream_failure is open already, whoever opened it *)
ReportMerged(i) ==
    /\ item[i] # None
    /\ logged' = logged \union {i}
    /\ UNCHANGED <<now, wish, appointment, item, calendar, call>>

(* exceptions_one_open_uq: the second of two inserts is refused.           *)
InsertItem(i, service) == item[i] = None /\ item' = [item EXCEPT ![i] = service]

(* The insert of open_exception, and the commit *)
OpenItem(c) ==
    /\ c \in Running /\ call[c].at = "insert"
    /\ LET i == call[c].inquiry
           reported == call[c].op = "report" IN
         /\ InsertItem(i, IF reported THEN "n8n" ELSE "calendar")
         /\ logged' = IF reported THEN logged \union {i} ELSE logged
    /\ End(c)
    /\ UNCHANGED <<now, wish, appointment, calendar>>

Lock_Skipped(c) == c \in Running /\ call[c].at = "search"
(* pg_advisory_xact_lock *)
Lock(c) == c \in Running /\ call[c].at = "search" /\ calendar = None

(* Under the calendar's lock: search and insert.  Nobody sees the row yet. *)
Allocate(c) ==
    /\ Lock(c)
    /\ \E s \in Free(call[c]) :
         /\ Earliest(s, Free(call[c]))
         /\ call' = [call EXCEPT ![c].at = "booked", ![c].slot = s]
    /\ calendar' = c
    /\ UNCHANGED <<now, wish, appointment, item, logged>>

(* No free slot in SearchDays business days: 503 *)
NoSlot(c) ==
    /\ Lock(c)
    /\ Free(call[c]) = {}
    /\ End(c)
    /\ UNCHANGED <<now, wish, appointment, item, logged, calendar>>

Cleared_AnyService(i) == None
Cleared_Status(i) == IF item[i] = "calendar" THEN "resolved" ELSE item[i]
Cleared_Nothing(i) == item[i]
(* What is left open once inquiry i has its appointment: a successful      *)
(* booking clears an earlier outage of the calendar.                       *)
Cleared(i) == IF item[i] = "calendar" THEN None ELSE item[i]

(* The advisory lock goes with the transaction.                            *)
Release_Session(c) == UNCHANGED calendar
Release(c) == calendar' = IF calendar = c THEN None ELSE calendar

Confirm(c) ==
    /\ c \in Running /\ call[c].at = "booked"
    /\ LET k == call[c] IN
         /\ appointment' = appointment \union {[inquiry |-> k.inquiry, slot |-> k.slot]}
         /\ item' = [item EXCEPT ![k.inquiry] = Cleared(k.inquiry)]
    /\ Release(c)
    /\ End(c)
    /\ UNCHANGED <<now, wish, logged>>

(* The insert of open_exception after somebody else's: the unique index    *)
(* refuses it, and the answer is 500.                                      *)
Refused(c) ==
    /\ c \in Running /\ call[c].at = "insert"
    /\ item[call[c].inquiry] # None
    /\ End(c)
    /\ UNCHANGED <<now, wish, appointment, item, logged, calendar>>

(* A crash or a lost connection: rolled back.                              *)
Abort(c) ==
    /\ c \in Running
    /\ Release(c)
    /\ End(c)
    /\ UNCHANGED <<now, wish, appointment, item, logged>>

Tick(t) ==
    /\ Before(now, t)
    /\ now' = t
    /\ UNCHANGED <<wish, appointment, item, logged, calendar, call>>
-----------------------------------------------------------------------------
(* The hours at which the clock is looked at: the first and the last slot  *)
(* of a day, and the end of business.                                      *)
Hours == {FIRST_SLOT, LAST_SLOT - 1, LAST_SLOT}

Next ==
    \/ \E i \in Inquiries :
         \/ \E said \in Preferences : ReadWish(i, said)
         \/ ReportMerged(i)
    \/ \E c \in Calls, i \in Inquiries :
         RequestAppointment(c, i) \/ CalendarDown(c, i) \/ Report(c, i)
    \/ \E c \in Calls : OpenItem(c) \/ Refused(c) \/ Allocate(c) \/ NoSlot(c)
                           \/ Confirm(c) \/ Abort(c)
    \/ \E t \in [day : now.day .. Horizon, hour : Hours] : Tick(t)

Spec == Init /\ [][Next]_vars

(* The server goes on with what it has begun, and PostgreSQL grants a lock *)
(* in the order of the queue, so that nobody is passed over for ever.      *)
FairSpec == Spec /\ \A c \in Calls :
    /\ WF_vars(OpenItem(c) \/ Refused(c) \/ Confirm(c))
    /\ SF_vars(Allocate(c) \/ NoSlot(c))
-----------------------------------------------------------------------------
(***************************************************************************)
(* Properties                                                              *)
(***************************************************************************)

AppointmentsTypeOK ==
    /\ now         \in Moment
    /\ wish        \in [Inquiries -> Wishes \union {None}]
    /\ appointment \subseteq Row
    /\ item        \in [Inquiries -> Services \union {None}]
    /\ logged      \subseteq Inquiries
    /\ calendar    \in Calls \union {None}
    /\ call        \in [Calls -> Request \union {None}]

(* "Two requests can never grab the same slot", and a customer never gets  *)
(* two: whatever requests search, insert, fail and retry at the same time. *)
NoDoubleBooking ==
    \A a, b \in appointment : (a.slot = b.slot \/ a.inquiry = b.inquiry) => a = b

(* The day a customer named, in the words of a calendar: today, or the     *)
(* next day, from tomorrow on, that is called so.  One who names none      *)
(* means tomorrow.                                                         *)
DayCalled(n, d) == CHOOSE e \in d + 1 .. d + 7 : Weekday(e) = n
NamedDay(said, at) ==
    IF said = "today" THEN at.day
    ELSE IF said = "next_week" THEN DayCalled(0, at.day)
    ELSE IF \E n \in 1 .. 5 : WEEKDAYS[n] = said
         THEN DayCalled((CHOOSE n \in 1 .. 5 : WEEKDAYS[n] = said) - 1, at.day)
    ELSE at.day + 1
AskedDay(k) == NamedDay(wish[k.inquiry], k.asked)

(* Slot s was no choice for request k.                                     *)
Gone(k, s) == \/ Weekday(s.day) >= 5
              \/ ~Before(k.asked, s)
              \/ \E a \in appointment : a.slot = s

(* A slot given out is in business hours of a business day, later than the *)
(* moment of the request, and on the day the customer named: never before  *)
(* it, and after it only if no slot was left to choose on that day.        *)
SlotsAreSensible ==
    \A c \in Running : call[c].at = "booked" =>
        LET k == call[c] IN
        /\ Weekday(k.slot.day) < 5
        /\ k.slot.hour >= FIRST_SLOT /\ k.slot.hour < LAST_SLOT
        /\ Before(k.asked, k.slot)
        /\ k.slot.day >= AskedDay(k)
        /\ k.slot.day > AskedDay(k) =>
             \A h \in FIRST_SLOT .. LAST_SLOT - 1 : Gone(k, [day |-> AskedDay(k), hour |-> h])

(* README.md, "Calendar down": the retry books the slot and clears the     *)
(* exception, so a booked inquiry has no outage of the calendar open.      *)
BookingEndsOutage == \A i \in Inquiries : Booked(i) => item[i] # "calendar"

(* An item that n8n opened stays until a person closes it: no retry of a   *)
(* booking, successful or not, and no outage of the calendar replaces it.  *)
ReportsStay == [][\A i \in Inquiries : item[i] = "n8n" => item'[i] = "n8n"]_vars

(* Nobody waits for the calendar for ever: bookings take the lock of the   *)
(* inquiry and then that of the calendar, and give both back at their end. *)
EveryCallEnds == \A c \in Calls : call[c] # None ~> call[c] = None
=============================================================================
