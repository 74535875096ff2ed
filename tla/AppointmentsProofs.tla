------------------------- MODULE AppointmentsProofs -------------------------
(***************************************************************************)
(* No slot and no customer is booked twice, and every slot given out suits *)
(* the one who asked, for any number of requests, customers and days.      *)
(***************************************************************************)
EXTENDS Appointments, FiniteSetTheorems, TLAPS

Shaped(k) == k = [op |-> k.op, inquiry |-> k.inquiry, at |-> k.at,
                  asked |-> k.asked, slot |-> k.slot]

(* A request has the fields of a request; what a slot is does not matter.  *)
Shapes == /\ item = [i \in Inquiries |-> item[i]]
          /\ call = [c \in Calls |-> call[c]]
          /\ \A c \in Running : /\ Shaped(call[c]) /\ call[c].inquiry \in Inquiries
                                /\ call[c].op = "book" \/ (call[c].op = "report" /\ call[c].at = "insert")

(* A row that is not committed yet is its request's alone: the request has *)
(* the calendar, and the slot is still free.                               *)
SlotsHeld == \A c \in Running : call[c].at = "booked" =>
    /\ calendar = c
    /\ \A a \in appointment : a.slot # call[c].slot

(* A booking has its inquiry to itself, and the inquiry is not booked.     *)
InquiriesHeld == \A c \in Running : call[c].op = "book" =>
    /\ ~Booked(call[c].inquiry)
    /\ \A d \in Running : call[d].op = "book" /\ call[d].inquiry = call[c].inquiry => c = d

CalendarInvariant == /\ Shapes
                     /\ SlotsHeld
                     /\ InquiriesHeld
                     /\ NoDoubleBooking
                     /\ BookingEndsOutage

LEMMA InitCalendar == Init => CalendarInvariant
  BY NoneAssumption
  DEF Init, CalendarInvariant, Shapes, SlotsHeld, InquiriesHeld, NoDoubleBooking,
      BookingEndsOutage, Running, Booked

(* A request begins that holds nothing, or a booking of an inquiry that no *)
(* other booking holds.                                                    *)
LEMMA BeginKeeps ==
    ASSUME CalendarInvariant, NEW c \in Calls, NEW k, Begin(c, k), Shaped(k),
           k.inquiry \in Inquiries, k.at # "booked",
           k.op = "book" \/ (k.op = "report" /\ k.at = "insert"),
           k.op = "book" => ~Locked(k.inquiry) /\ ~Booked(k.inquiry),
           UNCHANGED <<appointment, item, calendar>>
    PROVE  CalendarInvariant'
  <1> USE DEF CalendarInvariant
  <1>1. /\ call'[c] = k /\ c \notin Running /\ DOMAIN call' = Calls
        /\ \A d \in Calls \ {c} : call'[d] = call[d]
    BY DEF Begin, Shapes, Running
  <1>2. \A d \in Running' : d = c \/ (d \in Running /\ d # c /\ call'[d] = call[d])
    BY <1>1 DEF Running
  <1>3. Shapes'
    BY <1>1, <1>2 DEF Shapes, Begin
  <1>4. SlotsHeld'
    BY <1>1, <1>2 DEF SlotsHeld
  <1>5. InquiriesHeld'
    BY <1>1, <1>2 DEF InquiriesHeld, Booked, Locked
  <1>6. NoDoubleBooking' /\ BookingEndsOutage'
    BY DEF NoDoubleBooking, BookingEndsOutage, Booked
  <1>7. QED
    BY <1>3, <1>4, <1>5, <1>6

(* A request ends without a row.                                           *)
LEMMA EndKeeps ==
    ASSUME CalendarInvariant, NEW c \in Running, End(c), UNCHANGED appointment,
           UNCHANGED calendar \/ Release(c),
           item' = [i \in Inquiries |-> item'[i]],
           \A i \in Inquiries : item'[i] = "calendar" =>
               item[i] = "calendar" \/ ~Booked(i)
    PROVE  CalendarInvariant'
  <1> USE DEF CalendarInvariant
  <1>1. /\ c \in Calls /\ call'[c] = None /\ DOMAIN call' = Calls
        /\ \A d \in Calls \ {c} : call'[d] = call[d]
    BY DEF End, Shapes, Running
  <1>2. Running' = Running \ {c}
    BY <1>1 DEF Running
  <1>3. Shapes'
    BY <1>1, <1>2 DEF Shapes, End, Running
  <1>4. SlotsHeld'
    BY <1>1, <1>2 DEF SlotsHeld, Release, Running
  <1>5. InquiriesHeld'
    BY <1>1, <1>2 DEF InquiriesHeld, Booked, Running
  <1>6. NoDoubleBooking' /\ BookingEndsOutage'
    BY DEF NoDoubleBooking, BookingEndsOutage, Booked
  <1>7. QED
    BY <1>3, <1>4, <1>5, <1>6

(* The lock is free, so nobody else has inserted a row.                    *)
LEMMA AllocateKeeps ==
    ASSUME CalendarInvariant, NEW c \in Calls, Allocate(c)
    PROVE  CalendarInvariant'
  <1> USE DEF CalendarInvariant
  <1> DEFINE k == call[c]
  <1>1. c \in Running /\ k.at = "search" /\ calendar = None /\ calendar' = c
        /\ Shaped(k) /\ k.op = "book" /\ k.inquiry \in Inquiries
    BY DEF Allocate, Lock, Shapes
  <1>2. PICK s \in Free(k) : call' = [call EXCEPT ![c].at = "booked", ![c].slot = s]
    BY DEF Allocate
  <1>3. \A a \in appointment : a.slot # s
    BY <1>2 DEF Free
  <1>4. /\ call'[c].op = k.op /\ call'[c].inquiry = k.inquiry /\ call'[c].at = "booked"
        /\ call'[c].slot = s /\ Shaped(call'[c])
    BY <1>1, <1>2 DEF Shapes, Shaped
  <1>5. /\ DOMAIN call' = Calls /\ call' = [d \in Calls |-> call'[d]]
        /\ \A d \in Calls \ {c} : call'[d] = call[d]
    BY <1>2 DEF Shapes
  <1>6. UNCHANGED <<appointment, item>>
    BY DEF Allocate
  <1>7. \A d \in Running' : d = c \/ (d \in Running /\ d # c /\ call'[d] = call[d])
    BY <1>5 DEF Running
  <1>8. Shapes'
    BY <1>1, <1>4, <1>5, <1>6, <1>7 DEF Shapes
  <1>9. SlotsHeld'
    <2>1. \A d \in Running : call[d].at # "booked"
      BY <1>1, NoneAssumption DEF SlotsHeld, Running
    <2>2. QED
      BY <1>1, <1>3, <1>4, <1>6, <1>7, <2>1 DEF SlotsHeld
  <1>10. InquiriesHeld'
    BY <1>1, <1>4, <1>6, <1>7 DEF InquiriesHeld, Booked
  <1>11. NoDoubleBooking' /\ BookingEndsOutage'
    BY <1>6 DEF NoDoubleBooking, BookingEndsOutage, Booked
  <1>12. QED
    BY <1>8, <1>9, <1>10, <1>11

LEMMA ConfirmKeeps ==
    ASSUME CalendarInvariant, NEW c \in Calls, Confirm(c)
    PROVE  CalendarInvariant'
  <1> USE DEF CalendarInvariant
  <1> DEFINE k == call[c]
             new == [inquiry |-> k.inquiry, slot |-> k.slot]
  <1>1. /\ c \in Running /\ k.at = "booked" /\ k.op = "book" /\ k.inquiry \in Inquiries
        /\ calendar = c /\ ~Booked(k.inquiry) /\ \A a \in appointment : a.slot # k.slot
    BY DEF Confirm, Shapes, SlotsHeld, InquiriesHeld
  <1>2. appointment' = appointment \union {new} /\ new.inquiry = k.inquiry /\ new.slot = k.slot
    BY DEF Confirm
  <1>3. /\ item' = [item EXCEPT ![k.inquiry] = Cleared(k.inquiry)]
        /\ call' = [call EXCEPT ![c] = None]
    BY DEF Confirm, End
  <1>4. /\ call'[c] = None /\ call' = [d \in Calls |-> call'[d]] /\ DOMAIN call' = Calls
        /\ \A d \in Calls \ {c} : call'[d] = call[d]
    BY <1>3 DEF Shapes
  <1>5. \A d \in Running' : d \in Running /\ d # c /\ call'[d] = call[d]
    BY <1>4 DEF Running
  <1>6. \A i \in Inquiries : Booked(i)' <=> Booked(i) \/ i = k.inquiry
    BY <1>2 DEF Booked
  <1>7. Shapes'
    BY <1>3, <1>4, <1>5 DEF Shapes
  <1>8. SlotsHeld'
    BY <1>1, <1>5 DEF SlotsHeld
  <1>9. InquiriesHeld'
    <2>1. ASSUME NEW d \in Running', call'[d].op = "book"
          PROVE  (/\ ~Booked(call[d].inquiry)
                  /\ \A f \in Running : call[f].op = "book" /\ call[f].inquiry = call[d].inquiry
                                            => d = f)'
      <3>1. d \in Running /\ d # c /\ call'[d] = call[d]
        BY <1>5, <2>1
      <3>2. call[d].inquiry \in Inquiries /\ call[d].inquiry # k.inquiry
        BY <1>1, <2>1, <3>1 DEF Shapes, InquiriesHeld
      <3>3. ~Booked(call[d].inquiry)'
        BY <1>6, <2>1, <3>1, <3>2 DEF InquiriesHeld
      <3>4. QED
        BY <1>5, <2>1, <3>1, <3>3 DEF InquiriesHeld
    <2>2. QED
      BY <2>1 DEF InquiriesHeld
  <1>10. NoDoubleBooking'
    BY <1>1, <1>2 DEF NoDoubleBooking, Booked
  <1>11. BookingEndsOutage'
    <2>1. ASSUME NEW i \in Inquiries, Booked(i)' PROVE item'[i] # "calendar"
      <3>1. CASE i = k.inquiry
        BY <1>3, <3>1, NoneAssumption DEF Cleared, Services, Shapes
      <3>2. CASE i # k.inquiry
        BY <1>3, <1>6, <2>1, <3>2 DEF BookingEndsOutage, Shapes
      <3>3. QED
        BY <3>1, <3>2
    <2>2. QED
      BY <2>1 DEF BookingEndsOutage
  <1>12. QED
    BY <1>7, <1>8, <1>9, <1>10, <1>11

LEMMA NextCalendar == CalendarInvariant /\ [Next]_vars => CalendarInvariant'
  <1> SUFFICES ASSUME CalendarInvariant, [Next]_vars PROVE CalendarInvariant'
    OBVIOUS
  <1>1. ASSUME UNCHANGED <<appointment, item, calendar, call>> PROVE CalendarInvariant'
    BY <1>1 DEF CalendarInvariant, Shapes, SlotsHeld, InquiriesHeld, NoDoubleBooking,
       BookingEndsOutage, Running, Booked
  <1>2. ASSUME NEW c \in Calls, NEW i \in Inquiries, RequestAppointment(c, i)
        PROVE  CalendarInvariant'
    <2>1. PICK k : k = [NewRequest("book", i, "search") EXCEPT !.asked = now]
      OBVIOUS
    <2>2. k.op = "book" /\ k.inquiry = i /\ k.at = "search" /\ Shaped(k)
      BY <2>1 DEF NewRequest, Shaped
    <2>3. Begin(c, k) /\ MayBook(c, i) /\ UNCHANGED <<appointment, item, calendar>>
      BY <1>2, <2>1 DEF RequestAppointment
    <2>4. ~Locked(k.inquiry) /\ ~Booked(k.inquiry) /\ k.inquiry \in Inquiries /\ k.at # "booked"
      BY <2>2, <2>3 DEF MayBook
    <2>5. QED
      BY <2>2, <2>3, <2>4, BeginKeeps
  <1>3. ASSUME NEW c \in Calls, NEW i \in Inquiries, CalendarDown(c, i) \/ Report(c, i)
        PROVE  CalendarInvariant'
    <2>1. ASSUME NEW op \in {"book", "report"}, Begin(c, NewRequest(op, i, "insert")),
                 op = "book" => MayBook(c, i), UNCHANGED <<appointment, item, calendar>>
          PROVE  CalendarInvariant'
      <3> DEFINE k == NewRequest(op, i, "insert")
      <3>1. k.op = op /\ k.inquiry = i /\ k.at = "insert" /\ Shaped(k)
        BY DEF NewRequest, Shaped
      <3> HIDE DEF k
      <3>2. QED
        BY <2>1, <3>1, BeginKeeps DEF MayBook, k
    <2>2. QED
      BY <1>3, <2>1 DEF CalendarDown, Report
  <1>4. ASSUME NEW c \in Calls, OpenItem(c) PROVE CalendarInvariant'
    <2> DEFINE i == call[c].inquiry
               service == IF call[c].op = "report" THEN "n8n" ELSE "calendar"
    <2>1. /\ c \in Running /\ End(c) /\ UNCHANGED <<appointment, calendar>>
          /\ item' = [item EXCEPT ![i] = service]
      BY <1>4 DEF OpenItem, InsertItem
    <2>2. i \in Inquiries /\ (service = "calendar" => ~Booked(i))
      BY <2>1 DEF CalendarInvariant, Shapes, InquiriesHeld
    <2>3. /\ item' = [j \in Inquiries |-> item'[j]]
          /\ \A j \in Inquiries : item'[j] = "calendar" => item[j] = "calendar" \/ ~Booked(j)
      BY <2>1, <2>2 DEF CalendarInvariant, Shapes
    <2>4. QED
      BY <2>1, <2>3, EndKeeps
  <1>5. ASSUME NEW c \in Calls, Refused(c) \/ NoSlot(c) \/ Abort(c) PROVE CalendarInvariant'
    <2>1. /\ c \in Running /\ End(c) /\ UNCHANGED <<appointment, item>>
          /\ UNCHANGED calendar \/ Release(c)
      BY <1>5 DEF Refused, NoSlot, Lock, Abort
    <2>2. item' = [i \in Inquiries |-> item'[i]]
      BY <2>1 DEF CalendarInvariant, Shapes
    <2>3. QED
      BY <2>1, <2>2, EndKeeps
  <1>6. QED
    BY <1>1, <1>2, <1>3, <1>4, <1>5, AllocateKeeps, ConfirmKeeps
    DEF Next, vars, ReadWish, ReportMerged, Tick

LEMMA CalendarHolds == Spec => []CalendarInvariant
  BY InitCalendar, NextCalendar, PTL DEF Spec

(* No slot of the calendar and no customer is booked twice                 *)
(* (appointment_service: the advisory lock and the lock of the inquiry).   *)
THEOREM NeverDoubleBooked == Spec => []NoDoubleBooking
  <1>1. CalendarInvariant => NoDoubleBooking
    BY DEF CalendarInvariant
  <1>2. QED
    BY <1>1, CalendarHolds, PTL

(* A booked inquiry has no outage of the calendar open: a request that met *)
(* the outage cannot report it after the booking of another.               *)
THEOREM OutagesEnd == Spec => []BookingEndsOutage
  <1>1. CalendarInvariant => BookingEndsOutage
    BY DEF CalendarInvariant
  <1>2. QED
    BY <1>1, CalendarHolds, PTL

(* What n8n reported is never replaced or cleared by the calendar.         *)
THEOREM ReportsAreKept == Spec => ReportsStay
  <1>1. ASSUME CalendarInvariant, [Next]_vars, NEW i \in Inquiries, item[i] = "n8n"
        PROVE  item'[i] = "n8n"
    <2>1. CASE UNCHANGED item
      BY <1>1, <2>1
    <2>2. ASSUME NEW c \in Calls, OpenItem(c) PROVE item'[i] = "n8n"
      BY <1>1, <2>2, NoneAssumption DEF OpenItem, InsertItem, CalendarInvariant, Shapes, Services
    <2>3. ASSUME NEW c \in Calls, Confirm(c) PROVE item'[i] = "n8n"
      BY <1>1, <2>3 DEF Confirm, Cleared, CalendarInvariant, Shapes
    <2>4. QED
      BY <1>1, <2>1, <2>2, <2>3 DEF Next, vars, ReadWish, ReportMerged, Tick, RequestAppointment,
         CalendarDown, Report, Refused, Allocate, NoSlot, Abort
  <1>2. CalendarInvariant /\ [Next]_vars =>
          [\A i \in Inquiries : item[i] = "n8n" => item'[i] = "n8n"]_vars
    BY <1>1
  <1>3. QED
    BY <1>2, CalendarHolds, PTL DEF Spec, ReportsStay
-----------------------------------------------------------------------------
(***************************************************************************)
(* The days of a search.  SearchDay is recursive, and what it computes for *)
(* every number is shown by induction.                                     *)
(***************************************************************************)

(* Mathematical induction, from the pigeonhole principle: if m were not in *)
(* A, adding 1 would map the numbers up to m that are in A one to one into *)
(* those of them that are not 0.                                           *)
LEMMA Inductively ==
    ASSUME NEW A, 0 \in A, \A n \in Nat : n \in A => n + 1 \in A
    PROVE  Nat \subseteq A
  <1> SUFFICES ASSUME NEW m \in Nat, m \notin A PROVE FALSE
    OBVIOUS
  <1> DEFINE S == {n \in 0 .. m : n \in A}
             T == S \ {0}
             f == [n \in S |-> n + 1]
  <1>1. IsFiniteSet(0 .. m)
    BY FS_Interval
  <1>2. S \subseteq 0 .. m /\ 0 \in S
    OBVIOUS
  <1>3. IsFiniteSet(S) /\ Cardinality(S) \in Nat
    BY <1>1, <1>2, FS_Subset, FS_CardinalityType
  <1>4. IsFiniteSet(T) /\ Cardinality(T) = Cardinality(S) - 1
    BY <1>2, <1>3, FS_RemoveElement
  <1>5. \A n \in S : n + 1 \in T
    <2> TAKE n \in S
    <2>1. n \in 0 .. m /\ n \in A /\ n # m
      OBVIOUS
    <2>2. n + 1 \in A /\ n + 1 \in 0 .. m /\ n + 1 # 0
      BY <2>1
    <2>3. QED
      BY <2>2
  <1>6. f \in [S -> T] /\ \A x \in S : f[x] = x + 1
    BY <1>5
  <1>7. \A x, y \in S : x + 1 = y + 1 => x = y
    BY <1>2
  <1> HIDE DEF S, T, f
  <1>8. \E x, y \in S : x # y /\ f[x] = f[y]
    BY <1>3, <1>4, <1>6, FS_PigeonHole
  <1>9. QED
    BY <1>6, <1>7, <1>8

(* The k-th business day after the business day d.                         *)
Nth(d, k) == d + k + 2 * ((Weekday(d) + k) \div 5)

(* A search never starts, nor goes on, on a weekend.                        *)
LEMMA NextWorkday ==
    ASSUME NEW d \in Nat
    PROVE  /\ NextBusinessDay(d) \in Nat /\ NextBusinessDay(d) \in d .. d + 2
           /\ Weekday(NextBusinessDay(d)) < 5 /\ NextBusinessDay(d) >= d
           /\ Weekday(d) < 5 => NextBusinessDay(d) = d
  BY DEF NextBusinessDay, Weekday

LEMMA NthStep ==
    ASSUME NEW d \in Nat, Weekday(d) < 5, NEW k \in Nat
    PROVE  /\ Nth(d, 0) = d
           /\ Nth(d, k) \in Nat
           /\ Weekday(Nth(d, k)) < 5
           /\ Nth(d, k + 1) = NextBusinessDay(Nth(d, k) + 1)
  <1> DEFINE w == Weekday(d)
             q == (w + k) \div 5
             r == (w + k) % 5
  <1>1. w \in 0 .. 4 /\ \E a \in Nat : d = 7 * a + w
    BY DEF Weekday
  <1>2. q \in Nat /\ r \in 0 .. 4 /\ w + k = 5 * q + r
    BY <1>1
  <1>3. (w + (k + 1)) \div 5 = IF r = 4 THEN q + 1 ELSE q
    <2>1. w + (k + 1) = 5 * q + (r + 1)
      BY <1>1, <1>2
    <2>2. \A p \in Nat, s \in 0 .. 4 : (5 * p + s) \div 5 = p
      OBVIOUS
    <2>3. r = 4 => w + (k + 1) = 5 * (q + 1) + 0
      BY <1>2, <2>1
    <2> HIDE DEF q, r, w
    <2>4. QED
      BY <1>2, <2>1, <2>2, <2>3
  <1>4. Nth(d, k) = d + k + 2 * q /\ Nth(d, k+1) = d + k + 1 + 2 * (IF r = 4 THEN q + 1 ELSE q)
    BY <1>3 DEF Nth
  <1>5. Nth(d,0) = d
    BY <1>1 DEF Nth
  <1> HIDE DEF w, q, r
  <1>6. PICK a \in Nat : d = 7 * a + w
    BY <1>1
  <1>7. Nth(d, k) = 7 * (a + q) + r
    BY <1>1, <1>2, <1>4, <1>6
  <1>8. Weekday(Nth(d, k)) = r
    BY <1>2, <1>6, <1>7 DEF Weekday
  <1>9. Weekday(Nth(d, k) + 1) = r + 1
    BY <1>2, <1>6, <1>7 DEF Weekday
  <1>10. NextBusinessDay(Nth(d,k)+1) = IF r = 4 THEN Nth(d, k) + 3 ELSE Nth(d,k)+1
    BY <1>2, <1>6, <1>7, <1>9 DEF NextBusinessDay
  <1>11. QED
    BY <1>1, <1>2, <1>4, <1>5, <1>6, <1>7, <1>8, <1>10

(* The walk of the search from one business day to the next has a closed   *)
(* form: nobody is offered a weekend, and no business day is left out.     *)
THEOREM SearchDayIs ==
    ASSUME NEW d \in Nat, Weekday(d) < 5, NEW k \in Nat
    PROVE  SearchDay(d, k) = Nth(d, k)
  <1> DEFINE f[n \in Nat] == IF n = 0 THEN d ELSE NextBusinessDay(f[n - 1] + 1)
             g == [n \in Nat |-> Nth(d, n)]
             A == {n \in Nat : f[n] = Nth(d, n)}
  <1>1. SearchDay(d, k) = f[k]
    BY DEF SearchDay
  <1>2. g = [n \in Nat |-> IF n = 0 THEN d ELSE NextBusinessDay(g[n - 1] + 1)]
    <2> SUFFICES ASSUME NEW n \in Nat
                 PROVE  Nth(d, n) = IF n = 0 THEN d ELSE NextBusinessDay(g[n - 1] + 1)
      OBVIOUS
    <2>1. CASE n = 0
      BY <2>1, NthStep
    <2>2. CASE n # 0
      <3>1. n - 1 \in Nat /\ n = (n - 1) + 1
        BY <2>2
      <3>2. Nth(d, n) = NextBusinessDay(Nth(d, n - 1) + 1)
        BY <3>1, NthStep
      <3>3. QED
        BY <2>2, <3>1, <3>2
    <2>3. QED
      BY <2>1, <2>2
  <1>3. f = [n \in Nat |-> IF n = 0 THEN d ELSE NextBusinessDay(f[n - 1] + 1)]
    <2> HIDE DEF g
    <2>1. QED
      BY <1>2
  <1> HIDE DEF f, g
  <1>4. 0 \in A
    BY <1>3, NthStep
  <1>5. ASSUME NEW n \in Nat, n \in A PROVE n + 1 \in A
    <2>1. f[n + 1] = NextBusinessDay(f[n] + 1)
      BY <1>3
    <2>2. f[n] = Nth(d, n) /\ Nth(d, n + 1) = NextBusinessDay(Nth(d, n) + 1)
      BY <1>5, NthStep
    <2>3. QED
      BY <2>1, <2>2
  <1>6. k \in A
    <2> HIDE DEF A
    <2>1. QED
      BY <1>4, <1>5, Inductively
  <1>7. QED
    BY <1>1, <1>6

(* The coming n-th day of the week is one, and lies within a week.         *)
LEMMA ComingIs ==
    ASSUME NEW n \in 0 .. 4, NEW d \in Nat
    PROVE  /\ Coming(n, d) \in Nat /\ Weekday(Coming(n, d)) = n
           /\ Coming(n, d) >= d + 1 /\ Coming(n, d) <= d + 7
  <1>1. \E b \in Nat, v \in 0 .. 6 : d = 7 * b + v
    <2>1. d = 7 * (d \div 7) + (d % 7) /\ d \div 7 \in Nat /\ d % 7 \in 0 .. 6
      OBVIOUS
    <2>2. QED
      BY <2>1
  <1>2. PICK b \in Nat, v \in 0 .. 6 : d = 7 * b + v
    BY <1>1
  <1>3. Weekday(d) = v
    BY <1>2 DEF Weekday
  <1>4. CASE n = v
    <2>1. Coming(n, d) = 7 * (b + 1) + n
      BY <1>2, <1>3, <1>4 DEF Coming
    <2>2. QED
      BY <1>2, <1>4, <2>1 DEF Weekday
  <1>5. CASE n > v
    <2>1. (n - v) % 7 = n - v
      BY <1>2, <1>5
    <2>2. Coming(n, d) = 7 * b + n
      BY <1>2, <1>3, <1>5, <2>1 DEF Coming
    <2>3. QED
      BY <1>2, <1>5, <2>2 DEF Weekday
  <1>6. CASE n < v
    <2>1. (n - v) % 7 = n - v + 7
      BY <1>2, <1>6
    <2>2. Coming(n, d) = 7 * (b + 1) + n
      BY <1>2, <1>3, <1>6, <2>1 DEF Coming
    <2>3. QED
      BY <1>2, <1>6, <2>2 DEF Weekday
  <1>7. QED
    BY <1>2, <1>4, <1>5, <1>6

LEMMA NextMondayIs ==
    ASSUME NEW d \in Nat
    PROVE  /\ NextMonday(d) \in Nat /\ Weekday(NextMonday(d)) = 0
           /\ NextMonday(d) >= d + 1 /\ NextMonday(d) <= d + 7
  <1>1. d = 7 * (d \div 7) + (d % 7) /\ d \div 7 \in Nat /\ d % 7 \in 0 .. 6
    OBVIOUS
  <1>2. NextMonday(d) = 7 * (d \div 7 + 1)
    BY <1>1 DEF NextMonday, Weekday
  <1>3. QED
    BY <1>1, <1>2 DEF Weekday

(* A week from tomorrow on has one day of each name.                       *)
LEMMA DayCalledIs ==
    ASSUME NEW d \in Nat, NEW n \in 0 .. 4, NEW e \in Nat,
           e >= d + 1, e <= d + 7, Weekday(e) = n
    PROVE  DayCalled(n, d) = e
  <1>1. \A x, y \in d + 1 .. d + 7 : Weekday(x) = Weekday(y) => x = y
    BY DEF Weekday
  <1>2. e \in d + 1 .. d + 7
    OBVIOUS
  <1>3. QED
    BY <1>1, <1>2 DEF DayCalled

(* The day a search begins with is a business day, and the one the         *)
(* customer named, unless that is a weekend, or today and business is over.*)
LEMMA TargetDayIs ==
    ASSUME NEW said, NEW m \in Moment
    PROVE  /\ TargetDay(said, m) \in Nat /\ Weekday(TargetDay(said, m)) < 5
           /\ NamedDay(said, m) \in Nat
           /\ TargetDay(said, m) >= NamedDay(said, m)
           /\ \/ TargetDay(said, m) = NamedDay(said, m)
              \/ Weekday(NamedDay(said, m)) >= 5
              \/ NamedDay(said, m) = m.day /\ m.hour >= LAST_SLOT
  <1>1. m.day \in Nat /\ m.day + 1 \in Nat /\ m.hour \in Nat /\ LAST_SLOT \in Nat
    BY CalendarAssumption DEF Moment
  <1>2. NextMonday(m.day) \in Nat /\ NextMonday(m.day) = DayCalled(0, m.day)
    <2>1. /\ NextMonday(m.day) \in Nat /\ Weekday(NextMonday(m.day)) = 0
          /\ NextMonday(m.day) >= m.day + 1 /\ NextMonday(m.day) <= m.day + 7
      BY <1>1, NextMondayIs
    <2>2. 0 \in 0 .. 4
      OBVIOUS
    <2>3. QED
      BY <1>1, <2>1, <2>2, DayCalledIs
  <1>3. ASSUME NEW d \in Nat
        PROVE  /\ NextBusinessDay(d) \in Nat /\ Weekday(NextBusinessDay(d)) < 5
               /\ NextBusinessDay(d) >= d
               /\ NextBusinessDay(d) = d \/ Weekday(d) >= 5
    <2>1. Weekday(d) \in 0 .. 6
      BY DEF Weekday
    <2>2. NextBusinessDay(d) = d \/ Weekday(d) >= 5
      BY <2>1 DEF NextBusinessDay
    <2>3. QED
      BY <2>2, NextWorkday
  <1>4. \A n \in 1 .. 5 : WEEKDAYS[n] # "today" /\ WEEKDAYS[n] # "next_week"
    <2>1. \A n \in 1 .. 5 : n = 1 \/ n = 2 \/ n = 3 \/ n = 4 \/ n = 5
      OBVIOUS
    <2>2. /\ WEEKDAYS[1] = "monday" /\ WEEKDAYS[2] = "tuesday" /\ WEEKDAYS[3] = "wednesday"
          /\ WEEKDAYS[4] = "thursday" /\ WEEKDAYS[5] = "friday"
      BY DEF WEEKDAYS
    <2>3. QED
      BY <2>1, <2>2
  <1> DEFINE Named == \E n \in 1 .. 5 : WEEKDAYS[n] = said
             which == CHOOSE n \in 1 .. 5 : WEEKDAYS[n] = said
             open  == m.hour < LAST_SLOT
  <1>5. Named => which \in 1 .. 5
    OBVIOUS
  <1>6. Named => said # "today" /\ said # "next_week"
    <2> SUFFICES ASSUME NEW n \in 1 .. 5, WEEKDAYS[n] = said
                 PROVE  said # "today" /\ said # "next_week"
      OBVIOUS
    <2>1. QED
      BY <1>4
  <1>7. TargetDay(said, m) = IF said = "today" /\ open THEN NextBusinessDay(m.day)
                             ELSE IF said = "next_week" THEN NextMonday(m.day)
                             ELSE IF Named THEN Coming(which - 1, m.day)
                             ELSE NextBusinessDay(m.day + 1)
    BY DEF TargetDay
  <1>13. NamedDay(said, m) = IF said = "today" THEN m.day
                            ELSE IF said = "next_week" THEN DayCalled(0, m.day)
                            ELSE IF Named THEN DayCalled(which - 1, m.day)
                            ELSE m.day + 1
    BY DEF NamedDay
  <1>14. open <=> ~(m.hour >= LAST_SLOT)
    BY <1>1
  <1> HIDE DEF Named, which, open
  <1>8. CASE said = "today" /\ open
    <2>1. TargetDay(said, m) = NextBusinessDay(m.day) /\ NamedDay(said, m) = m.day
      BY <1>7, <1>8, <1>13
    <2>2. QED
      BY <1>1, <1>3, <2>1
  <1>15. CASE said = "today" /\ ~open
    <2>1. TargetDay(said, m) = NextBusinessDay(m.day + 1) /\ NamedDay(said, m) = m.day
      BY <1>6, <1>7, <1>13, <1>15
    <2>2. /\ NextBusinessDay(m.day + 1) \in Nat /\ NextBusinessDay(m.day + 1) >= m.day + 1
          /\ Weekday(NextBusinessDay(m.day + 1)) < 5
      BY <1>1, <1>3
    <2>3. QED
      BY <1>1, <1>14, <1>15, <2>1, <2>2
  <1>9. CASE said = "next_week"
    <2>1. TargetDay(said, m) = NextMonday(m.day) /\ NamedDay(said, m) = NextMonday(m.day)
      BY <1>2, <1>7, <1>9, <1>13
    <2>2. QED
      BY <1>1, <1>2, <2>1, NextMondayIs
  <1>10. CASE Named
    <2>1. /\ TargetDay(said, m) = Coming(which - 1, m.day)
          /\ NamedDay(said, m) = DayCalled(which - 1, m.day)
      BY <1>6, <1>7, <1>10, <1>13
    <2>2. which - 1 \in 0 .. 4
      BY <1>5, <1>10
    <2>3. /\ Coming(which - 1, m.day) \in Nat /\ Weekday(Coming(which - 1, m.day)) = which - 1
          /\ Coming(which - 1, m.day) >= m.day + 1 /\ Coming(which - 1, m.day) <= m.day + 7
      BY <1>1, <2>2, ComingIs
    <2>4. DayCalled(which - 1, m.day) = Coming(which - 1, m.day)
      BY <1>1, <2>2, <2>3, DayCalledIs
    <2>5. QED
      BY <2>1, <2>2, <2>3, <2>4
  <1>11. CASE said # "today" /\ said # "next_week" /\ ~Named
    <2>1. TargetDay(said, m) = NextBusinessDay(m.day + 1) /\ NamedDay(said, m) = m.day + 1
      BY <1>7, <1>11, <1>13
    <2>2. QED
      BY <1>1, <1>3, <2>1
  <1>12. QED
    BY <1>8, <1>9, <1>10, <1>11, <1>15

(* Every slot a search can find is in business hours of a business day,    *)
(* after the moment of asking, and not before the day that was named.      *)
LEMMA FreeIs ==
    ASSUME NEW k, k.asked \in Moment, NEW s \in Free(k)
    PROVE  /\ s \in Moment /\ AskedDay(k) \in Nat
           /\ Weekday(s.day) < 5 /\ s.hour >= FIRST_SLOT /\ s.hour < LAST_SLOT
           /\ Before(k.asked, s) /\ s.day >= AskedDay(k)
  <1> DEFINE d == TargetDay(wish[k.inquiry], k.asked)
             e == AskedDay(k)
  <1>1. d \in Nat /\ Weekday(d) < 5 /\ e \in Nat /\ d >= e
    <2>1. e = NamedDay(wish[k.inquiry], k.asked)
      BY DEF AskedDay
    <2>2. QED
      BY <2>1, TargetDayIs
  <1>2. s \in Candidates(d) /\ Before(k.asked, s)
    BY DEF Free
  <1> HIDE DEF d, e
  <1>3. \E n \in 0 .. SearchDays - 1 : s.day = SearchDay(d, n)
    BY <1>2 DEF Candidates
  <1>4. PICK n \in 0 .. SearchDays - 1 : s.day = SearchDay(d, n)
    BY <1>3
  <1>5. n \in Nat /\ s.day = Nth(d, n)
    <2>1. n \in Nat
      BY <1>4, CalendarAssumption
    <2>2. QED
      BY <1>1, <1>4, <2>1, SearchDayIs
  <1>6. s.day \in Nat /\ Weekday(s.day) < 5
    BY <1>1, <1>5, NthStep
  <1>7. s.day >= d
    BY <1>1, <1>5 DEF Nth, Weekday
  <1>8. /\ s = [day |-> s.day, hour |-> s.hour]
        /\ s.hour \in FIRST_SLOT .. LAST_SLOT - 1
    BY <1>2 DEF Candidates
  <1>9. s.hour \in 0 .. 23 /\ s.hour >= FIRST_SLOT /\ s.hour < LAST_SLOT
    BY <1>8, CalendarAssumption
  <1>10. s \in Moment
    BY <1>6, <1>8, <1>9 DEF Moment
  <1>11. s.day >= e
    BY <1>1, <1>6, <1>7
  <1>12. QED
    BY <1>1, <1>2, <1>6, <1>9, <1>10, <1>11 DEF e

(* A search that ends on a later day found nothing left on the day named:  *)
(* its slots are the first ones looked at, unless none can be given at all.*)
LEMMA NothingLeft ==
    ASSUME NEW k, k.asked \in Moment, NEW s \in Free(k), Earliest(s, Free(k)),
           s.day > AskedDay(k), NEW h \in FIRST_SLOT .. LAST_SLOT - 1
    PROVE  Gone(k, [day |-> AskedDay(k), hour |-> h])
  <1> DEFINE d == TargetDay(wish[k.inquiry], k.asked)
             e == AskedDay(k)
             t == [day |-> e, hour |-> h]
  <1>1. /\ d \in Nat /\ Weekday(d) < 5 /\ e \in Nat
        /\ \/ d = e
           \/ Weekday(e) >= 5
           \/ e = k.asked.day /\ k.asked.hour >= LAST_SLOT
    <2>1. PICK said : said = wish[k.inquiry]
      OBVIOUS
    <2>2. d = TargetDay(said, k.asked) /\ e = NamedDay(said, k.asked)
      BY <2>1 DEF AskedDay
    <2> HIDE DEF d, e
    <2>3. QED
      BY <2>2, TargetDayIs
  <1>2. s \in Moment
    BY FreeIs
  <1>3. SearchDay(d, 0) = d
    BY <1>1, SearchDayIs, NthStep
  <1>4. t.day = e /\ t.hour = h
    OBVIOUS
  <1>5. k.asked.hour \in Nat /\ k.asked.day \in Nat /\ s.day \in Nat /\ h \in Nat /\ h < LAST_SLOT
        /\ LAST_SLOT \in Nat
    BY <1>2, CalendarAssumption DEF Moment
  <1>6. ASSUME d = e, Before(k.asked, t), \A a \in appointment : a.slot # t PROVE FALSE
    <2>1. 0 \in 0 .. SearchDays - 1
      BY CalendarAssumption
    <2>2. t \in Candidates(d)
      BY <1>3, <1>6, <2>1 DEF Candidates
    <2>3. t \in Free(k)
      BY <1>6, <2>2 DEF Free
    <2>4. s = t \/ Before(s, t)
      BY <2>3 DEF Earliest
    <2>5. s.day <= e
      BY <1>1, <1>4, <1>5, <2>4 DEF Before
    <2>6. QED
      BY <1>1, <1>5, <2>5
  <1>7. ASSUME e = k.asked.day, k.asked.hour >= LAST_SLOT, Before(k.asked, t) PROVE FALSE
    BY <1>4, <1>5, <1>7 DEF Before
  <1>8. Weekday(e) >= 5 \/ ~Before(k.asked, t) \/ \E a \in appointment : a.slot = t
    BY <1>1, <1>6, <1>7
  <1>9. QED
    BY <1>4, <1>8 DEF Gone

(* A request has the type of one; whoever searches knows when it was asked *)
(* to, and what it inserted suits the customer.                            *)
OnTime(k) ==
    /\ k.at # "insert" => k.op = "book" /\ k.asked \in Moment
    /\ k.at = "booked" =>
         /\ k.slot \in Moment
         /\ Weekday(k.slot.day) < 5 /\ k.slot.hour >= FIRST_SLOT /\ k.slot.hour < LAST_SLOT
         /\ Before(k.asked, k.slot) /\ k.slot.day >= AskedDay(k)
         /\ k.slot.day > AskedDay(k) =>
              \A h \in FIRST_SLOT .. LAST_SLOT - 1 : Gone(k, [day |-> AskedDay(k), hour |-> h])

(* It keeps suiting while its customer says nothing else: appointments are *)
(* added and never taken away.                                             *)
LEMMA StaysOnTime ==
    ASSUME NEW k, OnTime(k), appointment \subseteq appointment',
           k.op = "book" => wish'[k.inquiry] = wish[k.inquiry]
    PROVE  OnTime(k)'
  <1>1. CASE k.at = "insert"
    BY <1>1 DEF OnTime
  <1>2. CASE k.at # "insert"
    <2>1. AskedDay(k)' = AskedDay(k)
      BY <1>2 DEF OnTime, AskedDay
    <2>2. ASSUME NEW t, Gone(k, t) PROVE Gone(k, t)'
      BY <2>2 DEF Gone
    <2>3. QED
      BY <2>1, <2>2 DEF OnTime
  <1>3. QED
    BY <1>1, <1>2

TimelyInvariant == AppointmentsTypeOK /\ \A c \in Running : OnTime(call[c])

LEMMA InitTimely == Init => TimelyInvariant
  <1> SUFFICES ASSUME Init PROVE TimelyInvariant
    OBVIOUS
  <1>1. now \in Moment
    BY CalendarAssumption DEF Init, Moment
  <1>2. QED
    BY <1>1 DEF Init, TimelyInvariant, AppointmentsTypeOK, Running

(* One request begins, goes on or ends, and no customer says anything.     *)
LEMMA OneOnTime ==
    ASSUME TimelyInvariant, NEW c \in Calls, NEW k \in Request \union {None},
           k # None => OnTime(k), call' = [call EXCEPT ![c] = k], wish' = wish,
           appointment \subseteq appointment'
    PROVE  /\ call' \in [Calls -> Request \union {None}]
           /\ (\A d \in Running : OnTime(call[d]))'
  <1>1. call \in [Calls -> Request \union {None}] /\ \A d \in Running : OnTime(call[d])
    BY DEF TimelyInvariant, AppointmentsTypeOK
  <1>2. call'[c] = k /\ \A d \in Calls \ {c} : call'[d] = call[d]
    BY <1>1
  <1>3. ASSUME NEW r, OnTime(r) PROVE OnTime(r)'
    BY <1>3, StaysOnTime
  <1>4. ASSUME NEW d \in Running' PROVE OnTime(call[d])'
    <2>1. CASE d = c
      <3>1. k # None /\ OnTime(k)
        BY <1>2, <1>4, <2>1 DEF Running
      <3>2. OnTime(k)'
        BY <1>3, <3>1
      <3>3. QED
        BY <1>2, <2>1, <3>2
    <2>2. CASE d # c
      <3>1. d \in Running /\ call'[d] = call[d]
        BY <1>2, <1>4, <2>2 DEF Running
      <3>2. PICK r : r = call[d]
        OBVIOUS
      <3>3. OnTime(r)'
        BY <1>1, <1>3, <3>1, <3>2
      <3>4. QED
        BY <3>1, <3>2, <3>3
    <2>3. QED
      BY <2>1, <2>2
  <1>5. QED
    BY <1>1, <1>4

(* What a customer says of a call changes the words of no booking that is  *)
(* under way: it has the inquiry.                                          *)
LEMMA WishOnTime ==
    ASSUME TimelyInvariant, NEW i \in Inquiries, NEW said \in Preferences, ReadWish(i, said)
    PROVE  TimelyInvariant'
  <1>1. AppointmentsTypeOK /\ \A d \in Running : OnTime(call[d])
    BY DEF TimelyInvariant
  <1>2. AppointmentsTypeOK'
    BY <1>1, CalendarAssumption DEF AppointmentsTypeOK, ReadWish
  <1>3. ASSUME NEW d \in Running' PROVE OnTime(call[d])'
    <2>1. d \in Running /\ call' = call
      BY DEF ReadWish, Running
    <2>2. PICK r : r = call[d]
      OBVIOUS
    <2>3. OnTime(r)
      BY <1>1, <2>1, <2>2
    <2>4. r.op = "book" => wish'[r.inquiry] = wish[r.inquiry]
      BY <1>1, <2>1, <2>2 DEF ReadWish, Locked, AppointmentsTypeOK
    <2>5. OnTime(r)'
      BY <2>3, <2>4, StaysOnTime DEF ReadWish
    <2>6. QED
      BY <2>1, <2>2, <2>5
  <1>4. QED
    BY <1>2, <1>3 DEF TimelyInvariant

(* What else a step writes has its type.                                   *)
LEMMA NextTyped ==
    ASSUME AppointmentsTypeOK, [Next]_vars, \A c \in Running : OnTime(call[c])
    PROVE  /\ now' \in Moment /\ wish' \in [Inquiries -> Wishes \union {None}]
           /\ appointment' \subseteq Row /\ item' \in [Inquiries -> Services \union {None}]
           /\ logged' \subseteq Inquiries /\ calendar' \in Calls \union {None}
  <1> USE DEF AppointmentsTypeOK
  <1>1. ASSUME NEW i \in Inquiries, NEW said \in Preferences, ReadWish(i, said)
        PROVE  wish' \in [Inquiries -> Wishes \union {None}]
    BY <1>1, CalendarAssumption DEF ReadWish
  <1>2. ASSUME NEW c \in Calls, OpenItem(c)
        PROVE  item' \in [Inquiries -> Services \union {None}] /\ logged' \subseteq Inquiries
    <2>1. call[c].inquiry \in Inquiries
      BY <1>2 DEF OpenItem, Running, Request
    <2>2. QED
      BY <1>2, <2>1 DEF OpenItem, InsertItem, Services
  <1>3. ASSUME NEW c \in Calls, Confirm(c)
        PROVE  /\ appointment' \subseteq Row /\ calendar' \in Calls \union {None}
               /\ item' \in [Inquiries -> Services \union {None}]
    <2>1. call[c] \in Request /\ call[c].at = "booked" /\ OnTime(call[c])
      BY <1>3 DEF Confirm, Running
    <2>2. call[c].inquiry \in Inquiries /\ call[c].slot \in Moment
      BY <2>1 DEF Request, OnTime
    <2>3. QED
      BY <1>3, <2>2 DEF Confirm, Row, Release, Cleared
  <1>4. ASSUME NEW t \in [day : now.day .. Horizon, hour : Hours] PROVE t \in Moment
    <2>1. Hours \subseteq 0 .. 23
      BY CalendarAssumption DEF Hours
    <2>2. now.day .. Horizon \subseteq Nat
      BY CalendarAssumption DEF Moment
    <2>3. QED
      BY <2>1, <2>2 DEF Moment
  <1>5. CASE UNCHANGED vars
    BY <1>5 DEF vars
  <1>6. ASSUME NEW i \in Inquiries, NEW said \in Preferences, ReadWish(i, said)
        PROVE  UNCHANGED <<now, appointment, item, logged, calendar>>
    BY <1>6 DEF ReadWish
  <1>7. ASSUME NEW i \in Inquiries, ReportMerged(i)
        PROVE  UNCHANGED <<now, wish, appointment, item, calendar>> /\ logged' \subseteq Inquiries
    BY <1>7 DEF ReportMerged
  <1>8. ASSUME NEW c \in Calls, NEW i \in Inquiries,
               RequestAppointment(c, i) \/ CalendarDown(c, i) \/ Report(c, i)
        PROVE  UNCHANGED <<now, wish, appointment, item, logged, calendar>>
    BY <1>8 DEF RequestAppointment, CalendarDown, Report
  <1>9. ASSUME NEW c \in Calls, Refused(c) \/ Allocate(c) \/ NoSlot(c) \/ Abort(c)
        PROVE  UNCHANGED <<now, wish, appointment, item, logged>>
               /\ calendar' \in Calls \union {None}
    BY <1>9 DEF Refused, Allocate, NoSlot, Abort, Release
  <1>10. ASSUME NEW c \in Calls, OpenItem(c)
         PROVE  UNCHANGED <<now, wish, appointment, calendar>>
    BY <1>10 DEF OpenItem
  <1>11. ASSUME NEW c \in Calls, Confirm(c)
         PROVE  UNCHANGED <<now, wish, logged>>
    BY <1>11 DEF Confirm
  <1>12. ASSUME NEW t, Tick(t)
         PROVE  UNCHANGED <<wish, appointment, item, logged, calendar>> /\ now' = t
    BY <1>12 DEF Tick
  <1>13. QED
    BY <1>1, <1>2, <1>3, <1>4, <1>5, <1>6, <1>7, <1>8, <1>9, <1>10, <1>11, <1>12 DEF Next

(* No appointment is ever taken away.                                      *)
LEMMA AppointmentsGrow == [Next]_vars => appointment \subseteq appointment'
  <1> SUFFICES ASSUME [Next]_vars PROVE appointment \subseteq appointment'
    OBVIOUS
  <1>1. ASSUME NEW c \in Calls, Confirm(c) PROVE appointment \subseteq appointment'
    BY <1>1 DEF Confirm
  <1>2. ASSUME appointment' = appointment PROVE appointment \subseteq appointment'
    BY <1>2
  <1>3. \/ appointment' = appointment
        \/ \E c \in Calls : Confirm(c)
    BY DEF Next, vars, ReadWish, ReportMerged, RequestAppointment, CalendarDown, Report, OpenItem,
           Refused, Allocate, NoSlot, Abort, Tick
  <1>4. QED
    BY <1>1, <1>2, <1>3

LEMMA NextTimely == TimelyInvariant /\ [Next]_vars => TimelyInvariant'
  <1> SUFFICES ASSUME TimelyInvariant, [Next]_vars PROVE TimelyInvariant'
    OBVIOUS
  <1>1. AppointmentsTypeOK /\ \A c \in Running : OnTime(call[c])
    BY DEF TimelyInvariant
  <1>12. appointment \subseteq appointment'
    BY AppointmentsGrow
  <1> DEFINE Same == call' = call /\ wish' = wish
             One  == \E c \in Calls, k \in Request \union {None} :
                       /\ k # None => OnTime(k)
                       /\ call' = [call EXCEPT ![c] = k] /\ wish' = wish
  <1>2. ASSUME NEW c \in Calls, NEW i \in Inquiries,
               RequestAppointment(c, i) \/ CalendarDown(c, i) \/ Report(c, i)
        PROVE  One
    <2>1. CASE RequestAppointment(c, i)
      <3> DEFINE k == [NewRequest("book", i, "search") EXCEPT !.asked = now]
      <3>1. k \in Request /\ k.at = "search" /\ k.op = "book" /\ k.asked \in Moment
        BY <1>1 DEF NewRequest, Request, AppointmentsTypeOK
      <3>2. OnTime(k)
        BY <3>1 DEF OnTime
      <3>3. QED
        BY <2>1, <3>1, <3>2 DEF RequestAppointment, Begin
    <2>2. ASSUME NEW op \in {"book", "report"}, Begin(c, NewRequest(op, i, "insert")), wish' = wish
          PROVE  One
      <3>1. NewRequest(op, i, "insert") \in Request /\ NewRequest(op, i, "insert").at = "insert"
        BY DEF NewRequest, Request
      <3>2. OnTime(NewRequest(op, i, "insert"))
        BY <3>1 DEF OnTime
      <3>3. QED
        BY <2>2, <3>1, <3>2 DEF Begin
    <2>3. QED
      BY <1>2, <2>1, <2>2 DEF CalendarDown, Report
  <1>3. ASSUME NEW c \in Calls, OpenItem(c) \/ Refused(c) \/ NoSlot(c) \/ Confirm(c) \/ Abort(c)
        PROVE  One
    <2>1. End(c) /\ wish' = wish
      BY <1>3 DEF OpenItem, Refused, NoSlot, Confirm, Abort
    <2>2. QED
      BY <2>1 DEF End
  <1>4. ASSUME NEW c \in Calls, Allocate(c) PROVE One
    <2>1. PICK s \in Free(call[c]) :
            /\ Earliest(s, Free(call[c]))
            /\ call' = [call EXCEPT ![c].at = "booked", ![c].slot = s]
      BY <1>4 DEF Allocate
    <2>2. PICK k : k = call[c]
      OBVIOUS
    <2>3. /\ k \in Request /\ k.at = "search" /\ OnTime(k)
          /\ s \in Free(k) /\ Earliest(s, Free(k))
      BY <1>1, <1>4, <2>1, <2>2 DEF Allocate, Lock, Running, AppointmentsTypeOK
    <2>4. k.asked \in Moment
      BY <2>3 DEF OnTime
    <2>5. /\ s \in Moment
          /\ Weekday(s.day) < 5 /\ s.hour >= FIRST_SLOT /\ s.hour < LAST_SLOT
          /\ Before(k.asked, s) /\ s.day >= AskedDay(k)
      BY <2>3, <2>4, FreeIs
    <2> DEFINE n == [k EXCEPT !.at = "booked", !.slot = s]
    <2>6. /\ n \in Request /\ n.at = "booked" /\ n.op = k.op /\ n.slot = s
          /\ n.asked = k.asked /\ n.inquiry = k.inquiry
      BY <2>3, <2>5 DEF Request
    <2>7. call' = [call EXCEPT ![c] = n] /\ wish' = wish
      BY <1>1, <1>4, <2>1, <2>2 DEF Allocate, AppointmentsTypeOK
    <2> HIDE DEF n
    <2>8. AskedDay(n) = AskedDay(k) /\ \A t : Gone(n, t) <=> Gone(k, t)
      BY <2>6 DEF AskedDay, Gone
    <2>11. s.day > AskedDay(k) =>
             \A h \in FIRST_SLOT .. LAST_SLOT - 1 : Gone(k, [day |-> AskedDay(k), hour |-> h])
      BY <2>3, <2>4, NothingLeft
    <2>9. OnTime(n)
      BY <2>3, <2>4, <2>5, <2>6, <2>8, <2>11 DEF OnTime
    <2>10. QED
      BY <2>6, <2>7, <2>9
  <1>5. ASSUME Same PROVE TimelyInvariant'
    <2>1. (\A c \in Running : OnTime(call[c]))'
      <3> SUFFICES ASSUME NEW c \in Running' PROVE OnTime(call[c])'
        OBVIOUS
      <3>1. PICK k : k = call[c]
        OBVIOUS
      <3>2. OnTime(k) /\ call'[c] = k
        BY <1>1, <1>5, <3>1 DEF Running
      <3>3. OnTime(k)'
        BY <1>5, <1>12, <3>2, StaysOnTime
      <3>4. QED
        BY <3>2, <3>3
    <2>2. call' \in [Calls -> Request \union {None}]
      BY <1>1, <1>5 DEF AppointmentsTypeOK
    <2>3. QED
      BY <1>1, <2>1, <2>2, NextTyped DEF TimelyInvariant, AppointmentsTypeOK
  <1>6. ASSUME One PROVE TimelyInvariant'
    <2>1. PICK c \in Calls, k \in Request \union {None} :
            /\ k # None => OnTime(k)
            /\ call' = [call EXCEPT ![c] = k] /\ wish' = wish
      BY <1>6
    <2>2. /\ call' \in [Calls -> Request \union {None}]
          /\ (\A d \in Running : OnTime(call[d]))'
      BY <1>12, <2>1, OneOnTime
    <2>3. QED
      BY <1>1, <2>2, NextTyped DEF TimelyInvariant, AppointmentsTypeOK
  <1>7. ASSUME NEW i \in Inquiries, ReportMerged(i) PROVE Same
    BY <1>7 DEF ReportMerged
  <1>8. ASSUME NEW t, Tick(t) PROVE Same
    BY <1>8 DEF Tick
  <1>9. CASE UNCHANGED vars
    BY <1>5, <1>9 DEF vars
  <1> HIDE DEF Same, One
  <1>10. CASE Next
    BY <1>2, <1>3, <1>4, <1>5, <1>6, <1>7, <1>8, <1>10, WishOnTime DEF Next
  <1>11. QED
    BY <1>9, <1>10

LEMMA TimelyHolds == Spec => []TimelyInvariant
  BY InitTimely, NextTimely, PTL DEF Spec

(* Every request, row and item is of its type, in every state.             *)
THEOREM AppointmentsTyped == Spec => []AppointmentsTypeOK
  <1>1. TimelyInvariant => AppointmentsTypeOK
    BY DEF TimelyInvariant
  <1>2. QED
    BY <1>1, TimelyHolds, PTL

(* A slot given out is in business hours of a business day, after the      *)
(* moment of asking, and on the day the customer named or, if that had no  *)
(* slot left, later: however many days the search looks at, and whatever   *)
(* customers say and other bookings take meanwhile.                        *)
THEOREM SlotsSensible == Spec => []SlotsAreSensible
  <1>1. TimelyInvariant => SlotsAreSensible
    BY DEF TimelyInvariant, SlotsAreSensible, OnTime
  <1>2. QED
    BY <1>1, TimelyHolds, PTL
=============================================================================
