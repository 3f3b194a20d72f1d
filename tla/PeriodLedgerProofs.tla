-------------------------- MODULE PeriodLedgerProofs --------------------------
(***************************************************************************)
(* What holds of the period ledger for any calendar, any number of events, *)
(* requests and repair passes, any limits and bounds: every state is well  *)
(* typed, what callers are told is true, and no admission passes the       *)
(* limits its request was given; and, for subscriptions anchored on a day  *)
(* that every month has, each unit is settled in the row it was reserved   *)
(* in, and no period is charged for more runs than it admitted.            *)
(***************************************************************************)
EXTENDS PeriodLedger, FiniteSetTheorems, WellFoundedInduction, TLAPS

-----------------------------------------------------------------------------
(* The calendar *)

\* A boundary is a day of the calendar.
LEMMA BoundaryIsADay ==
  ASSUME NEW anchor \in AnyAnchor, NEW m \in Months
  PROVE  Boundary(anchor, m) \in Days
<1>1. /\ MonthStart \in [1..Len(MonthStart) -> Nat] /\ Len(MonthStart) \in Nat
      /\ \A i, j \in 1..Len(MonthStart) : i < j => MonthStart[i] < MonthStart[j]
  BY CalendarAssumption
<1>2. PICK day \in Days : anchor = DayOfMonth[day]
  BY DEF AnyAnchor
<1>3. MonthOf[day] \in Months /\ day \in FirstDay(MonthOf[day])..LastDay(MonthOf[day])
  BY <1>2 DEF MonthOf, Days
<1>4. anchor \in Nat /\ anchor >= 1
  BY <1>1, <1>2, <1>3 DEF DayOfMonth, FirstDay, LastDay, Months
<1>5. MonthStart[m] \in Nat /\ MonthStart[m + 1] \in Nat /\ MonthStart[m] < MonthStart[m + 1]
  BY <1>1 DEF Months
<1>6. Boundary(anchor, m) \in FirstDay(m)..LastDay(m)
  BY <1>4, <1>5 DEF Boundary, FirstDay, LastDay, MonthLength
<1> QED BY <1>6 DEF Days

\* Days are natural numbers.
LEMMA DaysAreNatural == Days \subseteq Nat
<1>1. /\ MonthStart \in [1..Len(MonthStart) -> Nat] /\ Len(MonthStart) \in Nat
  BY CalendarAssumption
<1>2. ASSUME NEW m \in Months
      PROVE  FirstDay(m)..LastDay(m) \subseteq Nat
  <2>1. MonthStart[m] \in Nat /\ MonthStart[m + 1] \in Nat
    BY <1>1 DEF Months
  <2> QED BY <2>1 DEF FirstDay, LastDay
<1> QED BY <1>2 DEF Days

\* The calendar has no gap: a day before a day is followed by a day.
LEMMA DaysAreConsecutive ==
  ASSUME NEW day \in Days, NEW later \in Days, day < later
  PROVE  day + 1 \in Days
<1>1. /\ MonthStart \in [1..Len(MonthStart) -> Nat] /\ Len(MonthStart) \in Nat
      /\ \A i, j \in 1..Len(MonthStart) : i < j => MonthStart[i] < MonthStart[j]
  BY CalendarAssumption
<1>2. PICK m \in Months : day \in FirstDay(m)..LastDay(m)
  BY DEF Days
<1>3. PICK n \in Months : later \in FirstDay(n)..LastDay(n)
  BY DEF Days
<1>4. /\ MonthStart[m] \in Nat /\ MonthStart[m + 1] \in Nat
      /\ MonthStart[n] \in Nat /\ MonthStart[n + 1] \in Nat
      /\ m \in Nat /\ n \in Nat /\ m + 1 <= Len(MonthStart) /\ n + 1 <= Len(MonthStart)
  BY <1>1 DEF Months
<1>5. CASE day < LastDay(m)
  <2>1. day + 1 \in FirstDay(m)..LastDay(m)
    BY <1>2, <1>4, <1>5 DEF FirstDay, LastDay
  <2> QED BY <2>1 DEF Days
<1>6. CASE day = LastDay(m)
  <2>1. m < n
    <3>1. SUFFICES ASSUME n <= m PROVE FALSE
      BY <1>4
    <3>2. MonthStart[n + 1] <= MonthStart[m + 1]
      BY <1>1, <1>4, <3>1 DEF Months
    <3> QED BY <1>3, <1>4, <1>6, <3>2 DEF FirstDay, LastDay
  <2>2. m + 1 \in Months
    BY <1>1, <1>4, <2>1 DEF Months
  <2>3. MonthStart[(m + 1) + 1] \in Nat /\ MonthStart[m + 1] < MonthStart[(m + 1) + 1]
    BY <1>1, <1>4, <2>2 DEF Months
  <2>4. day + 1 \in FirstDay(m + 1)..LastDay(m + 1)
    BY <1>4, <1>6, <2>3 DEF FirstDay, LastDay
  <2> QED BY <2>2, <2>4 DEF Days
<1> QED BY <1>2, <1>4, <1>5, <1>6 DEF FirstDay, LastDay

\* A set of numbers that is not empty has a least one.
LEMMA LeastNumber ==
  ASSUME NEW S \in SUBSET Nat, S # {}
  PROVE  \E least \in S : \A n \in S : least <= n
<1> DEFINE R == {pair \in Nat \X Nat : pair[1] < pair[2]}
<1>1. IsWellFoundedOn(R, Nat)
  BY NatLessThanWellFounded DEF OpToRel
<1> HIDE DEF R
<1>2. PICK least \in S : \A n \in S : ~(<<n, least>> \in R)
  BY <1>1, WFMin
<1>3. ASSUME NEW n \in S
      PROVE  least <= n
  <2>1. n \in Nat /\ least \in Nat
    OBVIOUS
  <2>2. n < least => <<n, least>> \in R
    BY <2>1 DEF R
  <2>3. ~(n < least)
    BY <1>2, <2>2
  <2> QED BY <2>1, <2>3
<1> QED BY <1>3

\* A day lies in its month.
LEMMA DayInItsMonth ==
  ASSUME NEW day \in Days
  PROVE  /\ MonthOf[day] \in Months /\ FirstDay(MonthOf[day]) \in Nat /\ LastDay(MonthOf[day]) \in Nat
         /\ day \in FirstDay(MonthOf[day])..LastDay(MonthOf[day])
<1>1. MonthOf[day] \in Months /\ day \in FirstDay(MonthOf[day])..LastDay(MonthOf[day])
  BY DEF MonthOf, Days
<1>2. MonthStart[MonthOf[day]] \in Nat /\ MonthStart[MonthOf[day] + 1] \in Nat
  BY <1>1, CalendarAssumption DEF Months
<1> QED BY <1>1, <1>2 DEF FirstDay, LastDay

LEMMA ClockWithinReach == MaxDay \in Nat /\ Reach \in Nat /\ MaxDay <= Reach
BY LedgerAssumption, DaysAreNatural, DayInItsMonth DEF Reach

\* The walk ends, for any instant within reach, and at the first boundary
\* after it.
LEMMA NextIsFirst ==
  ASSUME NEW anchor \in AnyAnchor, NEW at \in Nat, at <= Reach
  PROVE  /\ NextBoundary(anchor, at) \in Boundaries[anchor] \ 0..at
         /\ \A c \in Boundaries[anchor] \ 0..at : NextBoundary(anchor, at) <= c
         /\ Boundaries[anchor] \subseteq Days
<1> DEFINE later == Boundaries[anchor] \ 0..at
<1>1. Boundaries[anchor] \subseteq Days
  BY BoundaryIsADay DEF Boundaries
<1>2. Reach \in Nat /\ Boundaries[anchor] \ 0..Reach # {}
  BY LedgerAssumption, ClockWithinReach
<1>3. later # {}
  BY <1>2
<1>4. later \in SUBSET Nat
  BY <1>1, DaysAreNatural
<1>5. \E b \in later : \A c \in later : b <= c
  BY <1>3, <1>4, LeastNumber
<1> QED BY <1>1, <1>5 DEF NextBoundary

\* The period of an instant the clock reaches is stored under a day.
LEMMA BoundaryFollows ==
  ASSUME NEW anchor \in AnyAnchor, NEW at \in Nat, at <= MaxDay
  PROVE  NextBoundary(anchor, at) \in Days
<1>1. at <= Reach
  BY ClockWithinReach
<1> QED BY <1>1, NextIsFirst

LEMMA KeyIsADay ==
  ASSUME NEW at \in Days, at <= MaxDay, NEW end \in Days
  PROVE  KeyAt(at, end) \in Days
BY BoundaryFollows, DaysAreNatural DEF KeyAt, AnyAnchor

-----------------------------------------------------------------------------
(* What an inductive invariant needs besides the types *)

\* No instant that is still to be filed lies past the clock's bound.
Clock ==
  /\ now <= MaxDay
  /\ \A q \in Requests : request[q].pc = "check" => request[q].at <= MaxDay

\* The run of a call in flight has not been removed by retention: an event
\* that is not stored was never admitted.
InFlightIsStored ==
  \A q \in Requests :
    request[q].pc \notin {"idle", "answered"} /\ Admitted(request[q].event)
      => Stored(request[q].event)

IInv == TypeOK /\ Clock /\ InFlightIsStored /\ AnswersAreTrue

\* What a call holds at each place it stops at.
LEMMA RequestFields ==
  ASSUME NEW r \in RequestStates
  PROVE  /\ r.pc \in {"idle", "check", "controls", "admit", "reread", "answered"}
         /\ r.pc # "idle" => r.event \in Events /\ r.payload \in Payloads
         /\ r.pc \in {"check", "controls", "admit"} => r.at \in Days
         /\ r.pc \in {"controls", "admit"} => r.key \in Days
         /\ r.pc = "admit" => r.ceiling \in Ceilings \cup {NoLimit}
         /\ r.pc = "answered" => r.answer \in Answers
BY DEF RequestStates

\* The fields of a row, and what its use amounts to.
LEMMA RowFields ==
  ASSUME NEW row \in Row
  PROVE  row.consumed \in Nat /\ row.reserved \in Nat /\ row.updated \in Days /\ Used(row) \in Nat
BY DEF Row, Used

-----------------------------------------------------------------------------
(* Admissions keep the types *)

LEMMA ArriveTyped ==
  ASSUME TypeOK, NEW q \in Requests, NEW e \in Events, NEW p \in Payloads, Arrive(q, e, p),
         UNCHANGED <<anchorDay, legacy, pass, deaths>>
  PROVE  TypeOK'
<1>1. [pc |-> "check", event |-> e, payload |-> p, at |-> now] \in RequestStates
  BY DEF TypeOK, RequestStates
<1>2. request' \in [Requests -> RequestStates]
  BY <1>1 DEF TypeOK, Arrive
<1> QED BY <1>2 DEF TypeOK, Arrive

LEMMA AnswerTyped ==
  ASSUME TypeOK, NEW q \in Requests, request[q].pc # "idle", NEW a \in Answers, Answered(q, a)
  PROVE  request' \in [Requests -> RequestStates]
<1>1. request[q].event \in Events /\ request[q].payload \in Payloads
  BY RequestFields DEF TypeOK
<1>2. [pc |-> "answered", event |-> request[q].event, payload |-> request[q].payload,
       answer |-> a] \in RequestStates
  BY <1>1 DEF RequestStates
<1> QED BY <1>2 DEF TypeOK, Answered

LEMMA ServeTyped ==
  ASSUME TypeOK, Clock, NEW q \in Requests, Admission(q)
  PROVE  TypeOK'
<1> DEFINE r == request[q]
<1>0. r \in RequestStates /\ UNCHANGED <<anchorDay, legacy, pass, deaths>>
  BY DEF TypeOK, Admission
<1>1. CASE Check(q)
  <2> DEFINE key == KeyAt(r.at, periodEnd)
  <2>1. r.pc = "check" /\ r.event \in Events /\ r.payload \in Payloads /\ r.at \in Days
        /\ r.at <= MaxDay
    BY <1>0, <1>1, RequestFields DEF Check, Clock
  <2>2. key \in Days
    BY <2>1, KeyIsADay DEF TypeOK
  <2>3. [pc |-> "controls", event |-> r.event, payload |-> r.payload, at |-> r.at, key |-> key]
          \in RequestStates
    BY <2>1, <2>2 DEF RequestStates
  <2>4. CASE Answered(q, "refused")
    BY <1>0, <1>1, <2>1, <2>4, AnswerTyped DEF TypeOK, Check, Answers
  <2>5. CASE request' = [request EXCEPT ![q] =
               [pc |-> "controls", event |-> r.event, payload |-> r.payload,
                at |-> r.at, key |-> key]]
    <3> HIDE DEF key
    <3>1. request' \in [Requests -> RequestStates]
      BY <2>3, <2>5 DEF TypeOK
    <3> QED BY <1>0, <1>1, <3>1 DEF TypeOK, Check
  <2> QED BY <1>1, <2>4, <2>5 DEF Check
<1>2. CASE Refuse(q)
  BY <1>0, <1>2, AnswerTyped DEF TypeOK, Refuse, Answers
<1>3. ASSUME NEW c \in Ceilings \cup {NoLimit}, PassControls(q, c)
      PROVE  TypeOK'
  <2>1. r.pc = "controls" /\ r.event \in Events /\ r.payload \in Payloads /\ r.at \in Days
        /\ r.key \in Days
    BY <1>0, <1>3, RequestFields DEF PassControls
  <2>2. [pc |-> "admit", event |-> r.event, payload |-> r.payload, at |-> r.at,
         key |-> r.key, ceiling |-> c] \in RequestStates
    BY <2>1 DEF RequestStates
  <2>3. CASE Answered(q, "refused")
    BY <1>0, <1>3, <2>1, <2>3, AnswerTyped DEF TypeOK, PassControls, Answers
  <2>4. CASE request' = [request EXCEPT ![q] =
               [pc |-> "admit", event |-> r.event, payload |-> r.payload,
                at |-> r.at, key |-> r.key, ceiling |-> c]]
    <3>1. request' \in [Requests -> RequestStates]
      BY <2>2, <2>4 DEF TypeOK
    <3> QED BY <1>0, <1>3, <3>1 DEF TypeOK, PassControls
  <2> QED BY <1>3, <2>3, <2>4 DEF PassControls
<1>4. CASE AdmitKnown(q)
  <2>1. AnswerFor(r.event, r.payload) \in Answers
    BY DEF AnswerFor, Answers
  <2>2. r.pc # "idle" /\ Answered(q, AnswerFor(r.event, r.payload))
    BY <1>4 DEF AdmitKnown
  <2>3. request' \in [Requests -> RequestStates]
    BY <2>1, <2>2, AnswerTyped
  <2> QED BY <1>0, <1>4, <2>3 DEF TypeOK, AdmitKnown
<1>5. CASE AdmitNew(q)
  <2>1. r.pc = "admit" /\ r.event \in Events /\ r.payload \in Payloads /\ r.at \in Days
        /\ r.key \in Days
    BY <1>0, <1>5, RequestFields DEF AdmitNew
  <2>2. allowance[r.key] \in Row
    BY <1>5, <2>1 DEF AdmitNew, TypeOK
  <2>3. [consumed |-> allowance[r.key].consumed, reserved |-> allowance[r.key].reserved + 1,
         updated |-> r.at] \in Row
    BY <2>1, <2>2 DEF Row
  <2>4. allowance' \in [Days -> Row \cup {NoRow}]
    BY <1>5, <2>3 DEF AdmitNew, TypeOK
  <2>5. [payload |-> r.payload, created |-> r.at, period |-> r.key, status |-> "PENDING"] \in Run
    BY <2>1 DEF Run
  <2>6. runs' \in [Events -> Run \cup {NoRun}]
    BY <1>5, <2>5 DEF AdmitNew, TypeOK
  <2>7. request' \in [Requests -> RequestStates]
    BY <1>5, <2>1, AnswerTyped DEF AdmitNew, Answers
  <2> QED BY <1>0, <1>5, <2>4, <2>6, <2>7 DEF TypeOK, AdmitNew
<1>6. CASE AdmitRolledBack(q)
  <2>1. [pc |-> "reread", event |-> r.event, payload |-> r.payload] \in RequestStates
    BY <1>0, <1>6, RequestFields DEF AdmitRolledBack, RequestStates
  <2>2. request' \in [Requests -> RequestStates]
    BY <1>6, <2>1 DEF AdmitRolledBack, TypeOK
  <2> QED BY <1>0, <1>6, <2>2 DEF TypeOK, AdmitRolledBack
<1>7. CASE AdmitRefused(q)
  BY <1>0, <1>7, AnswerTyped DEF TypeOK, AdmitRefused, Answers
<1> QED BY <1>1, <1>2, <1>3, <1>4, <1>5, <1>6, <1>7 DEF Admission, Serve

-----------------------------------------------------------------------------
(* Time, renewals, settlements and retention keep the types *)

LEMMA LifeTyped ==
  ASSUME TypeOK, Clock,
         \/ Advance
         \/ \E served \in BOOLEAN : RollSubscription(served)
         \/ \E day \in Start..now : InvoicePaid(StripeEndAfter(day))
         \/ \E e \in Events : Scheduler(e) \/ Expire(e)
  PROVE  TypeOK'
<1>0. /\ now \in Nat /\ MaxDay \in Nat /\ Start \in Nat /\ now \in Days /\ MaxDay \in Days
      /\ anchorDay \in AnyAnchor /\ now <= MaxDay
  BY LedgerAssumption, DaysAreNatural DEF TypeOK, Clock
<1>1. ASSUME NEW key, allowance[key] \in Row \cup {NoRow},
             allowance' = [allowance EXCEPT ![key] = Opened(@)]
      PROVE  allowance' \in [Days -> Row \cup {NoRow}]
  <2>1. CASE allowance[key] = NoRow
    <3>1. Opened(allowance[key]) \in Row
      BY <1>0, <2>1 DEF Opened, Row
    <3> QED BY <1>1, <3>1 DEF TypeOK
  <2>2. CASE allowance[key] \in Row /\ allowance[key] # NoRow
    <3>1. Opened(allowance[key]) \in Row
      BY <1>0, <2>2 DEF Opened, Row
    <3> QED BY <1>1, <3>1 DEF TypeOK
  <2> QED BY <1>1, <2>1, <2>2
<1>2. CASE Advance
  BY <1>0, <1>2, DaysAreConsecutive DEF Advance, TypeOK
<1>3. ASSUME NEW served \in BOOLEAN, RollSubscription(served)
      PROVE  TypeOK'
  <2>1. StripeEndAfter(now) \in Days
    BY <1>0, BoundaryFollows DEF StripeEndAfter
  <2>2. allowance' \in [Days -> Row \cup {NoRow}]
    BY <1>1, <1>3, <2>1 DEF RollSubscription, TypeOK
  <2> QED BY <1>3, <2>1, <2>2 DEF RollSubscription, TypeOK
<1>4. ASSUME NEW day \in Start..now, InvoicePaid(StripeEndAfter(day))
      PROVE  TypeOK'
  <2>1. StripeEndAfter(day) \in Days
    BY <1>0, BoundaryFollows DEF StripeEndAfter
  <2>2. allowance' \in [Days -> Row \cup {NoRow}]
    BY <1>1, <1>4, <2>1 DEF InvoicePaid, TypeOK
  <2> QED BY <1>4, <2>2 DEF InvoicePaid, TypeOK
<1>5. ASSUME NEW e \in Events, NEW status \in {"DECIDED", "FINAL", "EXPIRED"}, Admitted(e),
             runs' = [runs EXCEPT ![e].status = status]
      PROVE  runs' \in [Events -> Run \cup {NoRun}]
  <2>1. runs[e] \in Run
    BY <1>5 DEF TypeOK, Admitted
  <2>2. [runs[e] EXCEPT !.status = status] \in Run
    BY <1>5, <2>1 DEF Run
  <2> QED BY <1>5, <2>2 DEF TypeOK
<1>6. ASSUME NEW e \in Events, Decide(e)
      PROVE  TypeOK'
  BY <1>5, <1>6 DEF Decide, TypeOK
<1>7. ASSUME NEW e \in Events, LoseSettlement(e)
      PROVE  TypeOK'
  BY <1>5, <1>7 DEF LoseSettlement, TypeOK
<1>8. ASSUME NEW e \in Events, Expire(e)
      PROVE  TypeOK'
  BY <1>5, <1>8 DEF Expire, TypeOK, Stored
<1>9. ASSUME NEW e \in Events, Settle(e)
      PROVE  TypeOK'
  <2> DEFINE key == SettleKey(e)
             row == allowance[key]
  <2>1. runs' \in [Events -> Run \cup {NoRun}]
    BY <1>5, <1>9 DEF Settle
  <2>2. CASE allowance' = allowance
    BY <1>9, <2>1, <2>2 DEF Settle, TypeOK
  <2>3. CASE row # NoRow /\ allowance' = [allowance EXCEPT ![key] = SettledRow(@)]
    <3>1. CASE key \in Days
      <4>1. row \in Row
        BY <2>3, <3>1 DEF TypeOK
      <4> HIDE DEF row, key
      <4>2. SettledRow(row) \in Row
        BY <1>0, <4>1 DEF SettledRow, Row
      <4>3. allowance' \in [Days -> Row \cup {NoRow}]
        BY <2>3, <4>2 DEF TypeOK, row
      <4> QED BY <1>9, <2>1, <4>3 DEF Settle, TypeOK
    <3>2. CASE key \notin Days
      <4> HIDE DEF key
      <4>1. allowance' \in [Days -> Row \cup {NoRow}]
        BY <2>3, <3>2 DEF TypeOK
      <4> QED BY <1>9, <2>1, <4>1 DEF Settle, TypeOK
    <3> QED BY <3>1, <3>2
  <2> QED BY <1>9, <2>2, <2>3 DEF Settle
<1> QED BY <1>2, <1>3, <1>4, <1>6, <1>7, <1>8, <1>9 DEF Scheduler

-----------------------------------------------------------------------------
(* The repair keeps the types *)

\* What a pass holds at each place it stops at.
LEMMA PassFields ==
  ASSUME NEW s \in PassStates
  PROVE  /\ s.pc \in {"idle", "tally", "fold", "repair"}
         /\ s.pc # "idle" => s.at \in Days /\ s.anchor \in Days
         /\ s.pc \in {"tally", "fold"} =>
              s.months \subseteq Months /\ s.old \in [Months -> Row \cup {NoRow}]
         /\ s.pc \in {"fold", "repair"} => s.terminal \subseteq Events /\ s.pending \subseteq Events
         /\ s.pc = "repair" => s.rows \in [Days -> Row \cup {NoRow}] /\ s.days \subseteq Days
BY DEF PassStates

LEMMA PassTyped ==
  ASSUME TypeOK, NEW p \in Passes, NEW s \in PassStates, pass' = [pass EXCEPT ![p] = s]
  PROVE  pass' \in [Passes -> PassStates]
BY DEF TypeOK

LEMMA LeaveTyped ==
  ASSUME TypeOK, NEW p \in Passes, EndPass(p) \/ PassDies(p)
  PROVE  TypeOK'
<1>1. IdlePass \in PassStates
  BY DEF IdlePass, PassStates
<1>2. pass' \in [Passes -> PassStates]
  BY <1>1, PassTyped DEF EndPass, PassDies, LeavePass
<1>3. deaths' \in 0..MaxDeaths
  BY LedgerAssumption DEF EndPass, PassDies, TypeOK
<1> QED BY <1>2, <1>3 DEF EndPass, PassDies, LeavePass, TypeOK

LEMMA ReadTyped ==
  ASSUME TypeOK, NEW p \in Passes,
         BeginPass(p) \/ (\E seen \in SUBSET Events : Tally(p, seen)) \/ Reread(p)
  PROVE  TypeOK'
<1> DEFINE s == pass[p]
<1>0. s \in PassStates
  BY DEF TypeOK
<1>1. CASE BeginPass(p)
  <2>1. [pc |-> "tally", at |-> now, anchor |-> periodEnd, months |-> LegacyMonths,
         old |-> legacy] \in PassStates
    BY DEF PassStates, TypeOK, LegacyMonths
  <2>2. pass' \in [Passes -> PassStates]
    BY <1>1, <2>1, PassTyped DEF BeginPass
  <2> QED BY <1>1, <2>2 DEF BeginPass, TypeOK
<1>2. ASSUME NEW seen \in SUBSET Events, Tally(p, seen)
      PROVE  TypeOK'
  <2> DEFINE terminal == {e \in seen : runs[e].status # "PENDING"}
             pending  == {e \in seen : runs[e].status = "PENDING"}
  <2>1. terminal \subseteq Events /\ pending \subseteq Events
    OBVIOUS
  <2>2. pass' = [pass EXCEPT ![p] = [pc |-> "fold", at |-> s.at, anchor |-> s.anchor,
           months |-> s.months, old |-> s.old, terminal |-> terminal, pending |-> pending]]
    BY <1>2 DEF Tally, TypeOK
  <2> HIDE DEF terminal, pending
  <2>3. [pc |-> "fold", at |-> s.at, anchor |-> s.anchor, months |-> s.months, old |-> s.old,
         terminal |-> terminal, pending |-> pending] \in PassStates
    BY <1>0, <1>2, <2>1, PassFields DEF PassStates, Tally
  <2>4. pass' \in [Passes -> PassStates]
    BY <2>2, <2>3, PassTyped
  <2> QED BY <1>2, <2>4 DEF Tally, TypeOK
<1>3. CASE Reread(p)
  <2>1. pass' = [pass EXCEPT ![p] = [pc |-> "repair", at |-> s.at, anchor |-> s.anchor,
           terminal |-> s.terminal, pending |-> s.pending, rows |-> allowance, days |-> OpenDays]]
    BY <1>3 DEF Reread, TypeOK
  <2>2. [pc |-> "repair", at |-> s.at, anchor |-> s.anchor, terminal |-> s.terminal,
         pending |-> s.pending, rows |-> allowance, days |-> OpenDays] \in PassStates
    BY <1>0, <1>3, PassFields DEF PassStates, Reread, TypeOK, OpenDays
  <2>3. pass' \in [Passes -> PassStates]
    BY <2>1, <2>2, PassTyped
  <2> QED BY <1>3, <2>3 DEF Reread, TypeOK
<1> QED BY <1>1, <1>2, <1>3

LEMMA FoldTyped ==
  ASSUME TypeOK, NEW p \in Passes, NEW m \in Months, FoldIntoPeriod(p, m) \/ FoldStraddling(p, m)
  PROVE  TypeOK'
<1> DEFINE s == pass[p]
           left == [s EXCEPT !.months = @ \ {m}]
<1>0. /\ s \in PassStates /\ s.pc = "fold" /\ s.at \in Days
      /\ pass' = [pass EXCEPT ![p] = left]
      /\ UNCHANGED <<now, periodEnd, runs, request, anchorDay, deaths>>
  BY PassFields DEF TypeOK, FoldIntoPeriod, FoldStraddling, Folded
<1>1. left \in PassStates
  BY <1>0 DEF PassStates
<1>2. pass' \in [Passes -> PassStates]
  <2> HIDE DEF left
  <2> QED BY <1>0, <1>1, PassTyped
<1>3. legacy' \in [Months -> Row \cup {NoRow}]
  BY DEF FoldIntoPeriod, FoldStraddling, TypeOK
<1>4. allowance' \in [Days -> Row \cup {NoRow}]
  <2>1. ASSUME NEW key, NEW row \in Row, allowance' = [allowance EXCEPT ![key] = row]
        PROVE  allowance' \in [Days -> Row \cup {NoRow}]
    BY <2>1 DEF TypeOK
  <2>2. CASE UNCHANGED allowance
    BY <2>2 DEF TypeOK
  <2>3. ASSUME NEW key, Renames(p, m, key),
               allowance' = [allowance EXCEPT ![key] = [legacy[m] EXCEPT !.updated = s.at]]
        PROVE  allowance' \in [Days -> Row \cup {NoRow}]
    <3>1. [legacy[m] EXCEPT !.updated = s.at] \in Row
      BY <1>0, <2>3 DEF Renames, Row, TypeOK
    <3> QED BY <2>1, <2>3, <3>1
  <2>4. ASSUME NEW key, Merges(m, key),
               allowance' = [allowance EXCEPT ![key] = MergedRow(@, legacy[m], s.at)]
        PROVE  allowance' \in [Days -> Row \cup {NoRow}]
    <3>1. CASE key \in Days
      <4>1. allowance[key] \in Row /\ legacy[m] \in Row
        BY <2>4, <3>1 DEF Merges, TypeOK
      <4>2. MergedRow(allowance[key], legacy[m], s.at) \in Row
        BY <1>0, <4>1 DEF MergedRow, Row
      <4> QED BY <2>1, <2>4, <4>2
    <3>2. CASE key \notin Days
      BY <2>4, <3>2 DEF TypeOK
    <3> QED BY <3>1, <3>2
  <2>5. CASE FoldStraddling(p, m)
    BY <2>2, <2>5 DEF FoldStraddling
  <2>6. CASE FoldIntoPeriod(p, m)
    BY <2>2, <2>3, <2>4, <2>6 DEF FoldIntoPeriod
  <2> QED BY <2>5, <2>6
<1> QED BY <1>0, <1>2, <1>3, <1>4 DEF TypeOK

LEMMA RepairTyped ==
  ASSUME TypeOK, NEW p \in Passes, NEW day \in Days, RepairRow(p, day)
  PROVE  TypeOK'
<1> DEFINE s == pass[p]
           left == [s EXCEPT !.days = @ \ {day}]
           terminal == Cardinality(OfPeriod(p, s.terminal, day))
           pending  == Cardinality(OfPeriod(p, s.pending, day))
           fixed == Repaired(s.rows[day], terminal, pending, s.at)
<1>0. /\ s \in PassStates /\ s.pc = "repair" /\ s.at \in Days
      /\ s.terminal \subseteq Events /\ s.pending \subseteq Events
      /\ pass' = [pass EXCEPT ![p] = left]
      /\ UNCHANGED <<now, periodEnd, runs, request, anchorDay, legacy, deaths>>
  BY PassFields DEF TypeOK, RepairRow
<1>1. left \in PassStates
  BY <1>0 DEF PassStates
<1>2. pass' \in [Passes -> PassStates]
  <2> HIDE DEF left
  <2> QED BY <1>0, <1>1, PassTyped
<1>3. terminal \in Nat /\ pending \in Nat
  <2>1. OfPeriod(p, s.terminal, day) \subseteq Events /\ OfPeriod(p, s.pending, day) \subseteq Events
    BY <1>0 DEF OfPeriod
  <2> QED BY <2>1, AdmissionAssumption, FS_Subset, FS_CardinalityType
<1>4. allowance' \in [Days -> Row \cup {NoRow}]
  <2>1. CASE UNCHANGED allowance
    BY <2>1 DEF TypeOK
  <2>2. CASE Unmoved(allowance[day], s.rows[day]) /\ allowance' = [allowance EXCEPT ![day] = fixed]
    <3>1. s.rows[day] \in Row
      BY <2>2 DEF Unmoved, TypeOK
    <3> HIDE DEF terminal, pending
    <3>2. fixed \in Row
      BY <1>0, <1>3, <3>1 DEF Repaired, Larger, Smaller, Row
    <3> HIDE DEF fixed
    <3> QED BY <2>2, <3>2 DEF TypeOK
  <2> QED BY <2>1, <2>2 DEF RepairRow
<1> QED BY <1>0, <1>2, <1>4 DEF TypeOK

-----------------------------------------------------------------------------
(* Every state is well typed *)

LEMMA InitTyped ==
  ASSUME Init
  PROVE  TypeOK
<1>0. /\ Start \in Days /\ MaxDay \in Nat /\ Start \in Nat /\ Start <= MaxDay
      /\ anchorDay \in AnchorDays /\ anchorDay \in AnyAnchor
  BY LedgerAssumption, DaysAreNatural DEF Init
<1>1. periodEnd \in Days
  BY <1>0, BoundaryFollows DEF Init, StripeEndAfter
<1>2. PICK byDay \in SUBSET OldRuns, byMonth \in SUBSET OldRuns, final \in SUBSET OldRuns,
           open \in BOOLEAN : DamagedRows(byDay, byMonth, final, open)
  BY DEF Init
<1>3. ASSUME NEW S \in SUBSET OldRuns
      PROVE  Cardinality(S) \in Nat
  BY <1>3, AdmissionAssumption, LedgerAssumption, FS_Subset, FS_CardinalityType
<1>4. (CHOOSE p \in Payloads : TRUE) \in Payloads
  BY AdmissionAssumption
<1>5. runs \in [Events -> Run \cup {NoRun}]
  BY <1>0, <1>1, <1>2, <1>4 DEF DamagedRows, Run
<1>6. Cardinality(byMonth \cap final) \in Nat /\ Cardinality(byMonth \ final) \in Nat
      /\ Cardinality(byDay) \in Nat
  BY <1>3
<1>7. legacy \in [Months -> Row \cup {NoRow}]
  BY <1>0, <1>2, <1>6 DEF DamagedRows, Row
<1>8. allowance \in [Days -> Row \cup {NoRow}]
  BY <1>0, <1>2, <1>6 DEF DamagedRows, Row
<1>9. request \in [Requests -> RequestStates] /\ pass \in [Passes -> PassStates]
  BY DEF Init, IdleRequest, IdlePass, RequestStates, PassStates
<1> QED BY <1>0, <1>1, <1>5, <1>7, <1>8, <1>9, LedgerAssumption DEF Init, TypeOK

LEMMA NextTyped ==
  ASSUME TypeOK, Clock, Next
  PROVE  TypeOK'
BY ArriveTyped, ServeTyped, LifeTyped, LeaveTyped, ReadTyped, FoldTyped, RepairTyped
   DEF Next, Repair

-----------------------------------------------------------------------------
(* What callers are told *)

\* A step outside the endpoint leaves the calls alone, and of the runs changes
\* at most the status: to EXPIRED only where no call is in flight.
LEMMA OutsideTheEndpoint ==
  ASSUME TypeOK,
         \/ Advance
         \/ \E served \in BOOLEAN : RollSubscription(served)
         \/ \E day \in Start..now : InvoicePaid(StripeEndAfter(day))
         \/ \E e \in Events : Scheduler(e) \/ Expire(e)
         \/ \E p \in Passes : BeginPass(p) \/ Repair(p) \/ PassDies(p)
  PROVE  /\ request' = request /\ (now <= MaxDay => now' <= MaxDay)
         /\ \A e \in Events : Admitted(e) =>
              /\ Admitted(e)' /\ runs'[e].payload = runs[e].payload
              /\ runs'[e].created = runs[e].created /\ runs'[e].period = runs[e].period
         /\ \A e \in Events : ~Admitted(e) => ~Admitted(e)'
         /\ \A e \in Events : InFlight(e) /\ Stored(e) => Stored(e)'
<1>0. now \in Nat /\ MaxDay \in Nat
  BY LedgerAssumption, DaysAreNatural DEF TypeOK
<1>1. ASSUME NEW e \in Events, NEW status \in {"DECIDED", "FINAL", "EXPIRED"}, Admitted(e),
             runs' = [runs EXCEPT ![e].status = status],
             status = "EXPIRED" => ~InFlight(e)
      PROVE  \A f \in Events : /\ Admitted(f) =>
                                    /\ Admitted(f)' /\ runs'[f].payload = runs[f].payload
                                    /\ runs'[f].created = runs[f].created
                                    /\ runs'[f].period = runs[f].period
                               /\ ~Admitted(f) => ~Admitted(f)'
                               /\ InFlight(f) /\ Stored(f) => Stored(f)'
  <2>1. runs \in [Events -> Run \cup {NoRun}] /\ runs[e] \in Run
    BY <1>1 DEF TypeOK, Admitted
  <2>2. [runs[e] EXCEPT !.status = status] \in Run
    BY <1>1, <2>1 DEF Run
  <2>3. runs'[e] = [runs[e] EXCEPT !.status = status] /\ runs'[e] # NoRun
    BY <1>1, <2>1, <2>2, NullAssumption
  <2>4. /\ runs'[e].payload = runs[e].payload /\ runs'[e].status = status
        /\ runs'[e].created = runs[e].created /\ runs'[e].period = runs[e].period
    BY <2>1, <2>3 DEF Run
  <2>5. \A f \in Events \ {e} : runs'[f] = runs[f]
    BY <1>1, <2>1
  <2> QED BY <1>1, <2>3, <2>4, <2>5 DEF Admitted, Stored
<1>2. CASE \E e \in Events : Scheduler(e) \/ Expire(e)
  <2>1. PICK e \in Events : Decide(e) \/ Settle(e) \/ LoseSettlement(e) \/ Expire(e)
    BY <1>2 DEF Scheduler
  <2>2. /\ request' = request /\ now' = now /\ Admitted(e)
        /\ \E status \in {"DECIDED", "FINAL", "EXPIRED"} :
             /\ runs' = [runs EXCEPT ![e].status = status]
             /\ status = "EXPIRED" => ~InFlight(e)
    BY <2>1 DEF Decide, Settle, LoseSettlement, Expire, Stored
  <2> QED BY <1>1, <2>2
<1>3. CASE \/ Advance
           \/ \E served \in BOOLEAN : RollSubscription(served)
           \/ \E day \in Start..now : InvoicePaid(StripeEndAfter(day))
  <2>1. request' = request /\ runs' = runs /\ (now' = now \/ (now < MaxDay /\ now' = now + 1))
    BY <1>3 DEF Advance, RollSubscription, InvoicePaid
  <2> QED BY <1>0, <2>1 DEF Admitted, Stored
<1>4. CASE \E p \in Passes : BeginPass(p) \/ Repair(p) \/ PassDies(p)
  <2>1. request' = request /\ runs' = runs /\ now' = now
    BY <1>4 DEF BeginPass, Repair, PassDies, LeavePass, EndPass, Tally, FoldIntoPeriod,
                FoldStraddling, Folded, Reread, RepairRow
  <2> QED BY <1>0, <2>1 DEF Admitted, Stored
<1> QED BY <1>2, <1>3, <1>4

\* ... so it keeps what callers were told true.
LEMMA OutsideKeeps ==
  ASSUME IInv,
         \/ Advance
         \/ \E served \in BOOLEAN : RollSubscription(served)
         \/ \E day \in Start..now : InvoicePaid(StripeEndAfter(day))
         \/ \E e \in Events : Scheduler(e) \/ Expire(e)
         \/ \E p \in Passes : BeginPass(p) \/ Repair(p) \/ PassDies(p)
  PROVE  Clock' /\ InFlightIsStored' /\ AnswersAreTrue'
<1>1. /\ request' = request /\ (now <= MaxDay => now' <= MaxDay)
      /\ \A e \in Events : Admitted(e) => Admitted(e)' /\ runs'[e].payload = runs[e].payload
      /\ \A e \in Events : ~Admitted(e) => ~Admitted(e)'
      /\ \A e \in Events : InFlight(e) /\ Stored(e) => Stored(e)'
  BY OutsideTheEndpoint DEF IInv
<1>2. \A q \in Requests : request[q].pc # "idle" => request[q].event \in Events
  BY RequestFields DEF IInv, TypeOK
<1>3. Clock'
  BY <1>1 DEF IInv, Clock
<1>4. InFlightIsStored'
  BY <1>1, <1>2 DEF IInv, InFlightIsStored, InFlight
<1>5. AnswersAreTrue'
  BY <1>1, <1>2 DEF IInv, AnswersAreTrue
<1> QED BY <1>3, <1>4, <1>5

\* A call that moves on without writing a run: the next place it stops at must
\* be consistent with the runs there are.
LEMMA CallMovesOn ==
  ASSUME IInv, NEW q \in Requests, NEW s,
         request' = [request EXCEPT ![q] = s], UNCHANGED <<now, runs>>,
         s.pc = "check" => s.at <= MaxDay,
         s.pc \notin {"idle", "answered"} /\ Admitted(s.event) => Stored(s.event),
         s.pc = "answered" =>
           /\ s.answer # "accepted"
           /\ s.answer = "duplicate" => Admitted(s.event) /\ runs[s.event].payload = s.payload
           /\ s.answer = "conflict" => Admitted(s.event) /\ runs[s.event].payload # s.payload
  PROVE  Clock' /\ InFlightIsStored' /\ AnswersAreTrue'
<1>1. request'[q] = s /\ \A other \in Requests \ {q} : request'[other] = request[other]
  BY DEF IInv, TypeOK
<1>2. Clock'
  BY <1>1 DEF IInv, Clock
<1>3. InFlightIsStored'
  BY <1>1 DEF IInv, InFlightIsStored, Admitted, Stored
<1>4. AnswersAreTrue'
  BY <1>1 DEF IInv, AnswersAreTrue, Admitted
<1> QED BY <1>2, <1>3, <1>4

LEMMA ArriveKeeps ==
  ASSUME IInv, NEW q \in Requests, NEW e \in Events, NEW p \in Payloads, Arrive(q, e, p)
  PROVE  Clock' /\ InFlightIsStored' /\ AnswersAreTrue'
<1> DEFINE s == [pc |-> "check", event |-> e, payload |-> p, at |-> now]
<1>1. request' = [request EXCEPT ![q] = s] /\ UNCHANGED <<now, runs>>
      /\ (Admitted(e) => Stored(e))
  BY DEF Arrive
<1>2. s.pc = "check" /\ s.at <= MaxDay /\ s.event = e
  BY DEF IInv, Clock
<1> HIDE DEF s
<1> QED BY <1>1, <1>2, CallMovesOn

\* An answer that needs no write is true of the runs there are.
LEMMA AnswerKeeps ==
  ASSUME IInv, NEW q \in Requests, NEW a \in Answers \ {"accepted"},
         Answered(q, a), UNCHANGED <<now, runs>>,
         a \in {"duplicate", "conflict"} =>
           Admitted(request[q].event) /\ a = AnswerFor(request[q].event, request[q].payload)
  PROVE  Clock' /\ InFlightIsStored' /\ AnswersAreTrue'
<1> DEFINE s == [pc |-> "answered", event |-> request[q].event, payload |-> request[q].payload,
                 answer |-> a]
<1>1. request' = [request EXCEPT ![q] = s]
  BY DEF Answered, IInv, TypeOK
<1>2. s.pc = "answered" /\ s.answer = a /\ s.event = request[q].event
      /\ s.payload = request[q].payload
  OBVIOUS
<1> HIDE DEF s
<1> QED BY <1>1, <1>2, CallMovesOn DEF AnswerFor

\* The one step that writes a run: its event was never admitted before.
LEMMA AdmitNewKeeps ==
  ASSUME IInv, NEW q \in Requests, AdmitNew(q)
  PROVE  Clock' /\ InFlightIsStored' /\ AnswersAreTrue'
<1> DEFINE r == request[q]
           run == [payload |-> r.payload, created |-> r.at, period |-> r.key, status |-> "PENDING"]
<1>1. r \in RequestStates /\ r.pc = "admit" /\ r.event \in Events /\ r.payload \in Payloads
      /\ r.at \in Days /\ r.key \in Days
  BY RequestFields DEF IInv, TypeOK, AdmitNew
<1>2. ~Admitted(r.event)
  BY <1>1 DEF IInv, InFlightIsStored, AdmitNew
<1>3. run \in Run /\ run.payload = r.payload /\ run.status = "PENDING"
  BY <1>1 DEF Run
<1>4. runs' = [runs EXCEPT ![r.event] = run] /\ now' = now
  BY DEF AdmitNew
<1> HIDE DEF run
<1>5. /\ runs'[r.event] = run /\ run # NoRun
      /\ \A e \in Events \ {r.event} : runs'[e] = runs[e]
  BY <1>1, <1>3, <1>4, NullAssumption DEF IInv, TypeOK
<1>6. \A e \in Events :
        /\ Admitted(e) => Admitted(e)' /\ runs'[e] = runs[e]
        /\ (Admitted(e) => Stored(e)) => (Admitted(e)' => Stored(e)')
  BY <1>2, <1>3, <1>5 DEF Admitted, Stored
<1>7. /\ request'[q].pc = "answered" /\ request'[q].answer = "accepted"
      /\ request'[q].event = r.event /\ request'[q].payload = r.payload
      /\ \A other \in Requests \ {q} : request'[other] = request[other]
  BY DEF AdmitNew, Answered, IInv, TypeOK
<1>8. \A other \in Requests : request[other].pc # "idle" => request[other].event \in Events
  BY RequestFields DEF IInv, TypeOK
<1>9. Clock'
  BY <1>4, <1>7 DEF IInv, Clock
<1>10. InFlightIsStored'
  BY <1>6, <1>7, <1>8 DEF IInv, InFlightIsStored
<1>11. AnswersAreTrue'
  <2>1. runs'[r.event] # NoRun /\ runs'[r.event].payload = r.payload
    BY <1>3, <1>5
  <2>2. ASSUME NEW other \in Requests \ {q}, request[other].pc = "answered",
               request[other].answer = "accepted"
        PROVE  request[other].event # r.event
    BY <1>2, <2>2 DEF IInv, AnswersAreTrue
  <2> QED BY <1>6, <1>7, <1>8, <2>1, <2>2 DEF IInv, AnswersAreTrue, Admitted
<1> QED BY <1>9, <1>10, <1>11

LEMMA ServeKeeps ==
  ASSUME IInv, NEW q \in Requests, Admission(q)
  PROVE  Clock' /\ InFlightIsStored' /\ AnswersAreTrue'
<1> DEFINE r == request[q]
<1>0. r \in RequestStates /\ (r.pc \notin {"idle", "answered"} /\ Admitted(r.event) => Stored(r.event))
  BY DEF IInv, TypeOK, InFlightIsStored
<1>1. ASSUME NEW s, s.pc \in {"controls", "admit", "reread"}, s.event = r.event,
             r.pc \in {"check", "controls", "admit"},
             request' = [request EXCEPT ![q] = s], UNCHANGED <<now, runs>>
      PROVE  Clock' /\ InFlightIsStored' /\ AnswersAreTrue'
  BY <1>0, <1>1, CallMovesOn
<1>2. CASE Answered(q, "refused") /\ UNCHANGED <<now, runs>>
  BY <1>2, AnswerKeeps DEF Answers
<1>3. CASE Check(q)
  <2> DEFINE s == [pc |-> "controls", event |-> r.event, payload |-> r.payload, at |-> r.at,
                   key |-> KeyAt(r.at, periodEnd)]
  <2>1. r.pc = "check" /\ UNCHANGED <<now, runs>>
        /\ (request' = [request EXCEPT ![q] = s] \/ Answered(q, "refused"))
    BY <1>3 DEF Check, IInv, TypeOK
  <2>2. s.pc = "controls" /\ s.event = r.event
    OBVIOUS
  <2> HIDE DEF s
  <2> QED BY <1>1, <1>2, <2>1, <2>2
<1>4. CASE Refuse(q)
  BY <1>2, <1>4 DEF Refuse
<1>5. ASSUME NEW c \in Ceilings \cup {NoLimit}, PassControls(q, c)
      PROVE  Clock' /\ InFlightIsStored' /\ AnswersAreTrue'
  <2> DEFINE s == [pc |-> "admit", event |-> r.event, payload |-> r.payload, at |-> r.at,
                   key |-> r.key, ceiling |-> c]
  <2>1. r.pc = "controls" /\ UNCHANGED <<now, runs>>
        /\ (request' = [request EXCEPT ![q] = s] \/ Answered(q, "refused"))
    BY <1>5 DEF PassControls
  <2>2. s.pc = "admit" /\ s.event = r.event
    OBVIOUS
  <2> HIDE DEF s
  <2> QED BY <1>1, <1>2, <2>1, <2>2
<1>6. CASE AdmitKnown(q)
  <2>1. /\ Admitted(r.event) /\ UNCHANGED <<now, runs>>
        /\ AnswerFor(r.event, r.payload) \in Answers \ {"accepted"}
        /\ Answered(q, AnswerFor(r.event, r.payload))
    BY <1>6 DEF AdmitKnown, Stored, AnswerFor, Answers
  <2> QED BY <2>1, AnswerKeeps
<1>7. CASE AdmitNew(q)
  BY <1>7, AdmitNewKeeps
<1>8. CASE AdmitRolledBack(q)
  <2> DEFINE s == [pc |-> "reread", event |-> r.event, payload |-> r.payload]
  <2>1. r.pc = "admit" /\ UNCHANGED <<now, runs>> /\ request' = [request EXCEPT ![q] = s]
    BY <1>8 DEF AdmitRolledBack, IInv, TypeOK
  <2>2. s.pc = "reread" /\ s.event = r.event
    OBVIOUS
  <2>3. Admitted(s.event) => Stored(s.event)
    BY <1>0, <2>1, <2>2
  <2> HIDE DEF s
  <2> QED BY <2>1, <2>2, <2>3, CallMovesOn
<1>9. CASE AdmitRefused(q)
  BY <1>2, <1>9 DEF AdmitRefused
<1> QED BY <1>3, <1>4, <1>5, <1>6, <1>7, <1>8, <1>9 DEF Admission, Serve

-----------------------------------------------------------------------------
(* The theorems *)

LEMMA IInvInit ==
  ASSUME Init
  PROVE  IInv
<1>1. TypeOK
  BY InitTyped
<1>2. Clock /\ InFlightIsStored /\ AnswersAreTrue
  BY LedgerAssumption DEF Init, IdleRequest, Clock, InFlightIsStored, AnswersAreTrue
<1> QED BY <1>1, <1>2 DEF IInv

LEMMA IInvKept ==
  ASSUME IInv, [Next]_vars
  PROVE  IInv'
<1>1. CASE Next
  <2>1. TypeOK'
    BY <1>1, NextTyped DEF IInv
  <2>2. Clock' /\ InFlightIsStored' /\ AnswersAreTrue'
    BY <1>1, OutsideKeeps, ArriveKeeps, ServeKeeps DEF Next
  <2> QED BY <2>1, <2>2 DEF IInv
<1>2. CASE UNCHANGED vars
  BY <1>2 DEF vars, IInv, TypeOK, Clock, InFlightIsStored, AnswersAreTrue, Admitted, Stored
<1> QED BY <1>1, <1>2

\* Every reachable state satisfies the inductive invariant.
THEOREM InductiveInvariant == Spec => []IInv
<1>1. Init => IInv
  BY IInvInit
<1>2. IInv /\ [Next]_vars => IInv'
  BY IInvKept
<1> QED BY <1>1, <1>2, PTL DEF Spec

\* Every variable keeps its type, for any calendar and any bounds: no step
\* files a run or a row under anything but a day, and no counter of a row falls
\* below zero, whatever a stale pass writes over it.
THEOREM TypeCorrect == Spec => []TypeOK
<1>1. IInv => TypeOK
  BY DEF IInv
<1> QED BY <1>1, InductiveInvariant, PTL

\* What a caller of POST /api/v1/events is told is true and stays true, and no
\* event is accepted twice, through renewals, repairs and retention
\* (db/sourceEvents.ts admitOnce).
THEOREM AnswersCorrect == Spec => []AnswersAreTrue
<1>1. IInv => AnswersAreTrue
  BY DEF IInv
<1> QED BY <1>1, InductiveInvariant, PTL

\* An admission that is accepted stays under the plan's limit and under the
\* ceiling its own request read, whatever ran between its checks and its write.
THEOREM LimitsKept == Spec => AdmissionsKeepTheLimits
<1> DEFINE Within(q) ==
      request[q].pc = "admit" /\ request'[q].pc = "answered" /\ request'[q].answer = "accepted"
        => LET used == Used(allowance'[request[q].key])
           IN  /\ used <= RunLimit
               /\ request[q].ceiling # NoLimit => used <= request[q].ceiling
<1>1. ASSUME IInv, [Next]_vars, NEW q \in Requests, request[q].pc = "admit",
             request'[q].pc = "answered", request'[q].answer = "accepted"
      PROVE  Within(q)
  <2> DEFINE row == allowance[request[q].key]
             new == [consumed |-> row.consumed, reserved |-> row.reserved + 1,
                     updated |-> request[q].at]
  <2>1. request' # request
    BY <1>1
  <2>2. PICK other \in Requests :
          Admission(other) \/ \E e \in Events, p \in Payloads : Arrive(other, e, p)
    BY <1>1, <2>1, OutsideTheEndpoint DEF Next, IInv, vars
  <2>3. other = q
    BY <1>1, <2>2 DEF IInv, TypeOK, Arrive, Admission, Serve, Check, Refuse, PassControls,
                      AdmitKnown, AdmitNew, AdmitRolledBack, AdmitRefused, Answered
  <2>4. AdmitNew(q)
    BY <1>1, <2>2, <2>3 DEF IInv, TypeOK, Arrive, Admission, Serve, Check, Refuse,
         PassControls, AdmitKnown, AdmitRolledBack, AdmitRefused, Answered, AnswerFor
  <2>5. /\ request[q].key \in Days /\ request[q].ceiling \in Ceilings \cup {NoLimit}
        /\ allowance \in [Days -> Row \cup {NoRow}]
        /\ row # NoRow /\ allowance' = [allowance EXCEPT ![request[q].key] = new]
    <3>1. request[q] \in RequestStates /\ allowance \in [Days -> Row \cup {NoRow}]
      BY <1>1 DEF IInv, TypeOK
    <3>2. request[q].key \in Days /\ request[q].ceiling \in Ceilings \cup {NoLimit}
      BY <1>1, <3>1, RequestFields
    <3>3. row # NoRow /\ allowance' = [allowance EXCEPT ![request[q].key] = new]
      BY <2>4 DEF AdmitNew
    <3> QED BY <3>1, <3>2, <3>3
  <2>6. row.consumed \in Nat /\ row.reserved \in Nat /\ Spare(row, request[q].ceiling)
    BY <2>4, <2>5, RowFields DEF AdmitNew
  <2>7. Used(new) = Used(row) + 1 /\ Used(row) \in Nat
    BY <2>6 DEF Used
  <2>8. allowance'[request[q].key] = new
    BY <2>5
  <2>9. Used(row) < RunLimit /\ (request[q].ceiling # NoLimit => Used(row) < request[q].ceiling)
    BY <2>6 DEF Spare
  <2>10. Used(allowance'[request[q].key]) <= RunLimit
    BY <2>7, <2>8, <2>9, AdmissionAssumption
  <2>11. ASSUME request[q].ceiling # NoLimit
         PROVE  Used(allowance'[request[q].key]) <= request[q].ceiling
    <3>1. request[q].ceiling \in Nat
      BY <2>5, <2>11, AdmissionAssumption
    <3> HIDE DEF new, row
    <3> QED BY <2>7, <2>8, <2>9, <2>11, <3>1
  <2> QED BY <2>10, <2>11
<1>2. IInv /\ [Next]_vars => [\A q \in Requests : Within(q)]_vars
  BY <1>1
<1> HIDE DEF Within
<1>3. [][\A q \in Requests : Within(q)]_vars => AdmissionsKeepTheLimits
  BY PTL DEF AdmissionsKeepTheLimits, Within
<1> QED BY <1>2, <1>3, InductiveInvariant, PTL DEF Spec

-----------------------------------------------------------------------------
(* The accounts, for subscriptions anchored on a day every month has. *)

StableAnchors == \A anchor \in AnchorDays, m \in Months : anchor <= MonthLength(m)

-----------------------------------------------------------------------------
(* Boundaries that keep their day *)

\* The months do not overlap.
LEMMA MonthIsUnique ==
  ASSUME NEW m \in Months, NEW n \in Months, NEW day \in FirstDay(m)..LastDay(m),
         day \in FirstDay(n)..LastDay(n)
  PROVE  m = n
<1>1. /\ MonthStart \in [1..Len(MonthStart) -> Nat] /\ Len(MonthStart) \in Nat
      /\ \A i, j \in 1..Len(MonthStart) : i < j => MonthStart[i] < MonthStart[j]
  BY CalendarAssumption
<1>2. ASSUME NEW i \in Months, NEW j \in Months, i < j
      PROVE  LastDay(i) < FirstDay(j) /\ LastDay(i) \in Nat /\ FirstDay(j) \in Nat
  <2>1. MonthStart[i + 1] \in Nat /\ MonthStart[j] \in Nat /\ i \in Nat /\ j \in Nat
    BY <1>1 DEF Months
  <2>2. MonthStart[i + 1] <= MonthStart[j]
    BY <1>1, <1>2, <2>1 DEF Months
  <2> QED BY <2>1, <2>2 DEF FirstDay, LastDay
<1>3. FirstDay(m) \in Nat /\ LastDay(m) \in Nat /\ FirstDay(n) \in Nat /\ LastDay(n) \in Nat
  <2>1. MonthStart[m] \in Nat /\ MonthStart[m + 1] \in Nat
        /\ MonthStart[n] \in Nat /\ MonthStart[n + 1] \in Nat
    BY <1>1 DEF Months
  <2> QED BY <2>1 DEF FirstDay, LastDay
<1>4. ~(m < n) /\ ~(n < m)
  BY <1>2, <1>3
<1>5. m \in Nat /\ n \in Nat
  BY <1>1 DEF Months
<1> QED BY <1>4, <1>5

\* The day a stable anchor's boundary is read back as is the anchor.
LEMMA AnchorReadBack ==
  ASSUME StableAnchors, NEW anchor \in AnchorDays, NEW at \in Nat, at <= Reach
  PROVE  DayOfMonth[NextBoundary(anchor, at)] = anchor
<1> DEFINE end == NextBoundary(anchor, at)
<1>1. anchor \in AnyAnchor /\ anchor \in Nat /\ anchor >= 1
  <2>1. anchor \in AnyAnchor
    BY LedgerAssumption
  <2>2. PICK day \in Days : anchor = DayOfMonth[day]
    BY <2>1 DEF AnyAnchor
  <2>3. MonthStart[MonthOf[day]] \in Nat
    BY DayInItsMonth, CalendarAssumption DEF Months
  <2> QED BY <2>1, <2>2, <2>3, DayInItsMonth DEF DayOfMonth, FirstDay
<1>2. end \in Days /\ end \in Boundaries[anchor]
  BY <1>1, NextIsFirst
<1>3. PICK m \in Months : end = Boundary(anchor, m)
  BY <1>1, <1>2 DEF Boundaries
<1>4. MonthStart[m] \in Nat /\ MonthStart[m + 1] \in Nat
  BY CalendarAssumption DEF Months
<1>5. anchor <= MonthLength(m)
  BY DEF StableAnchors
<1>6. end = MonthStart[m] + anchor /\ end \in FirstDay(m)..LastDay(m)
  <2> HIDE DEF end
  <2> QED BY <1>1, <1>3, <1>4, <1>5 DEF Boundary, MonthLength, FirstDay, LastDay
<1> HIDE DEF end
<1>7. MonthOf[end] \in Months /\ end \in FirstDay(MonthOf[end])..LastDay(MonthOf[end])
  BY <1>2, DayInItsMonth
<1>8. MonthOf[end] = m
  BY <1>6, <1>7, MonthIsUnique
<1>9. DayOfMonth[end] = end - MonthStart[m]
  BY <1>2, <1>8 DEF DayOfMonth
<1> QED BY <1>1, <1>4, <1>6, <1>9 DEF end

\* A later instant does not belong to an earlier period.
LEMMA PeriodsAreOrdered ==
  ASSUME NEW anchor \in AnyAnchor, NEW at \in Nat, NEW after \in Nat,
         NEW between \in at..after, after <= Reach
  PROVE  /\ NextBoundary(anchor, at) <= NextBoundary(anchor, between)
         /\ NextBoundary(anchor, between) <= NextBoundary(anchor, after)
<1>1. Reach \in Nat
  BY ClockWithinReach
<1>2. ASSUME NEW i \in Nat, NEW j \in Nat, i <= j, j <= Reach
      PROVE  NextBoundary(anchor, i) <= NextBoundary(anchor, j)
  <2>1. NextBoundary(anchor, j) \in Boundaries[anchor] \ 0..j
    BY <1>2, NextIsFirst
  <2>2. NextBoundary(anchor, j) \in Boundaries[anchor] \ 0..i
    BY <1>2, <2>1
  <2>3. i <= Reach
    BY <1>1, <1>2
  <2> QED BY <1>2, <2>2, <2>3, NextIsFirst
<1>3. between \in Nat /\ between <= Reach /\ at <= between /\ between <= after
  BY <1>1
<1> QED BY <1>2, <1>3

-----------------------------------------------------------------------------
(* Every settlement finds its row *)

\* The subscription, and each pass that has read it, holds a period end that is
\* read back as Stripe's anchor.
AnchorKept ==
  /\ DayOfMonth[periodEnd] = anchorDay
  /\ \A p \in Passes : pass[p].pc # "idle" => DayOfMonth[pass[p].anchor] = anchorDay

\* Every run, and every call about to write one, is filed under the period its
\* instant belongs to.
UnitsFiled ==
  /\ \A e \in Events : Admitted(e) => runs[e].period = StripeEndAfter(runs[e].created)
  /\ \A q \in Requests : request[q].pc \in {"controls", "admit"} =>
       request[q].key = StripeEndAfter(request[q].at)

FilingInv == IInv /\ AnchorKept /\ UnitsFiled

\* A pass's step leaves the other passes alone, and its own period end once
\* it has read one.
LEMMA PassSteps ==
  ASSUME TypeOK, NEW p \in Passes, BeginPass(p) \/ Repair(p) \/ PassDies(p)
  PROVE  /\ \A other \in Passes \ {p} : pass'[other] = pass[other]
         /\ \/ pass'[p].pc = "idle"
            \/ pass[p].pc = "idle" /\ pass'[p].anchor = periodEnd
            \/ pass[p].pc # "idle" /\ pass'[p].anchor = pass[p].anchor
         /\ UNCHANGED <<now, periodEnd, runs, request, anchorDay>>
<1>0. pass[p] \in PassStates
  BY DEF TypeOK
<1>1. CASE BeginPass(p)
  BY <1>1 DEF BeginPass, TypeOK
<1>2. CASE EndPass(p) \/ PassDies(p)
  BY <1>2 DEF EndPass, PassDies, LeavePass, IdlePass, TypeOK
<1>3. ASSUME NEW seen \in SUBSET Events, Tally(p, seen)
      PROVE  /\ \A other \in Passes \ {p} : pass'[other] = pass[other]
             /\ pass[p].pc # "idle" /\ pass'[p].anchor = pass[p].anchor
             /\ UNCHANGED <<now, periodEnd, runs, request, anchorDay>>
  BY <1>3 DEF Tally, TypeOK
<1>4. ASSUME NEW m \in Months, FoldIntoPeriod(p, m) \/ FoldStraddling(p, m)
      PROVE  /\ \A other \in Passes \ {p} : pass'[other] = pass[other]
             /\ pass[p].pc # "idle" /\ pass'[p].anchor = pass[p].anchor
             /\ UNCHANGED <<now, periodEnd, runs, request, anchorDay>>
  <2>1. Folded(p, m)
    BY <1>4 DEF FoldIntoPeriod, FoldStraddling
  <2>2. pass[p].pc = "fold"
    BY <2>1 DEF Folded
  <2>3. [pass[p] EXCEPT !.months = @ \ {m}].anchor = pass[p].anchor
    BY <1>0, <2>2 DEF PassStates
  <2> QED BY <2>1, <2>2, <2>3 DEF Folded, TypeOK
<1>5. CASE Reread(p)
  BY <1>5 DEF Reread, TypeOK
<1>6. ASSUME NEW day \in Days, RepairRow(p, day)
      PROVE  /\ \A other \in Passes \ {p} : pass'[other] = pass[other]
             /\ pass[p].pc # "idle" /\ pass'[p].anchor = pass[p].anchor
             /\ UNCHANGED <<now, periodEnd, runs, request, anchorDay>>
  <2>1. pass[p].pc = "repair" /\ pass' = [pass EXCEPT ![p].days = @ \ {day}]
        /\ UNCHANGED <<now, periodEnd, runs, request, anchorDay>>
    BY <1>6 DEF RepairRow
  <2>2. [pass[p] EXCEPT !.days = @ \ {day}].anchor = pass[p].anchor
    BY <1>0, <2>1 DEF PassStates
  <2> QED BY <2>1, <2>2 DEF TypeOK
<1> QED BY <1>1, <1>2, <1>3, <1>4, <1>5, <1>6 DEF Repair

LEMMA AnchorStays ==
  ASSUME StableAnchors, FilingInv, [Next]_vars
  PROVE  AnchorKept' /\ anchorDay' = anchorDay
<1>0. anchorDay \in AnchorDays /\ now \in Nat /\ now <= Reach
  BY DaysAreNatural, ClockWithinReach DEF FilingInv, IInv, TypeOK, Clock
<1>1. ASSUME UNCHANGED <<periodEnd, anchorDay, pass>>
      PROVE  AnchorKept'
  BY <1>1 DEF FilingInv, AnchorKept
<1>2. ASSUME NEW served \in BOOLEAN, RollSubscription(served)
      PROVE  AnchorKept' /\ anchorDay' = anchorDay
  <2>1. DayOfMonth[StripeEndAfter(now)] = anchorDay
    BY <1>0, AnchorReadBack DEF StripeEndAfter
  <2> QED BY <1>2, <2>1 DEF RollSubscription, FilingInv, AnchorKept
<1>3. ASSUME NEW p \in Passes, BeginPass(p) \/ Repair(p) \/ PassDies(p)
      PROVE  AnchorKept' /\ anchorDay' = anchorDay
  BY <1>3, PassSteps DEF FilingInv, IInv, AnchorKept
<1>4. CASE Advance \/ \E day \in Start..now : InvoicePaid(StripeEndAfter(day))
  BY <1>1, <1>4 DEF Advance, InvoicePaid
<1>5. CASE \E e \in Events : Scheduler(e) \/ Expire(e)
  BY <1>1, <1>5 DEF Scheduler, Decide, Settle, LoseSettlement, Expire
<1>6. ASSUME NEW q \in Requests, NEW e \in Events, NEW b \in Payloads, Arrive(q, e, b),
             UNCHANGED <<anchorDay, legacy, pass, deaths>>
      PROVE  AnchorKept' /\ anchorDay' = anchorDay
  BY <1>1, <1>6 DEF Arrive
<1>7. ASSUME NEW q \in Requests, Admission(q)
      PROVE  AnchorKept' /\ anchorDay' = anchorDay
  BY <1>1, <1>7 DEF Admission, Serve, Check, Refuse, PassControls, AdmitKnown, AdmitNew,
                    AdmitRolledBack, AdmitRefused
<1>8. CASE UNCHANGED vars
  BY <1>1, <1>8 DEF vars
<1> QED BY <1>2, <1>3, <1>4, <1>5, <1>6, <1>7, <1>8 DEF Next

LEMMA UnitsStay ==
  ASSUME StableAnchors, FilingInv, [Next]_vars
  PROVE  UnitsFiled'
<1>0. /\ anchorDay' = anchorDay /\ TypeOK
      /\ \A at : KeyAt(at, periodEnd) = StripeEndAfter(at) /\ StripeEndAfter(at)' = StripeEndAfter(at)
  BY AnchorStays DEF FilingInv, IInv, AnchorKept, KeyAt, StripeEndAfter
<1>1. ASSUME request' = request,
             \A e \in Events : Admitted(e)' => Admitted(e) /\ runs'[e].created = runs[e].created
                                               /\ runs'[e].period = runs[e].period
      PROVE  UnitsFiled'
  BY <1>0, <1>1 DEF FilingInv, UnitsFiled, StripeEndAfter
<1>2. CASE \/ Advance
           \/ \E served \in BOOLEAN : RollSubscription(served)
           \/ \E day \in Start..now : InvoicePaid(StripeEndAfter(day))
           \/ \E e \in Events : Scheduler(e) \/ Expire(e)
           \/ \E p \in Passes : BeginPass(p) \/ Repair(p) \/ PassDies(p)
  BY <1>0, <1>1, <1>2, OutsideTheEndpoint
<1>3. ASSUME NEW q \in Requests, NEW s, runs' = runs, request' = [request EXCEPT ![q] = s],
             s.pc \in {"controls", "admit"} => s.key = StripeEndAfter(s.at)
      PROVE  UnitsFiled'
  <2>1. request'[q] = s /\ \A other \in Requests \ {q} : request'[other] = request[other]
    BY <1>0, <1>3 DEF TypeOK
  <2> QED BY <1>0, <1>3, <2>1 DEF FilingInv, UnitsFiled, Admitted, StripeEndAfter
<1>4. ASSUME NEW q \in Requests, NEW e \in Events, NEW b \in Payloads, Arrive(q, e, b)
      PROVE  UnitsFiled'
  BY <1>3, <1>4 DEF Arrive
<1>5. ASSUME NEW q \in Requests, NEW a, Answered(q, a), runs' = runs
      PROVE  UnitsFiled'
  <2> DEFINE s == [pc |-> "answered", event |-> request[q].event, payload |-> request[q].payload,
                   answer |-> a]
  <2>1. request' = [request EXCEPT ![q] = s] /\ s.pc = "answered"
    BY <1>0, <1>5 DEF Answered, TypeOK
  <2> HIDE DEF s
  <2> QED BY <1>3, <1>5, <2>1
<1>6. ASSUME NEW q \in Requests, Admission(q)
      PROVE  UnitsFiled'
  <2> DEFINE r == request[q]
  <2>0. r \in RequestStates
    BY <1>0 DEF TypeOK
  <2>1. CASE Check(q)
    <3> DEFINE s == [pc |-> "controls", event |-> r.event, payload |-> r.payload, at |-> r.at,
                     key |-> KeyAt(r.at, periodEnd)]
    <3>1. runs' = runs /\ (request' = [request EXCEPT ![q] = s] \/ Answered(q, "refused"))
      BY <1>0, <2>1 DEF Check, TypeOK
    <3>2. s.key = StripeEndAfter(s.at)
      BY <1>0
    <3> HIDE DEF s
    <3> QED BY <1>3, <1>5, <3>1, <3>2
  <2>2. ASSUME NEW c \in Ceilings \cup {NoLimit}, PassControls(q, c)
        PROVE  UnitsFiled'
    <3> DEFINE s == [pc |-> "admit", event |-> r.event, payload |-> r.payload, at |-> r.at,
                     key |-> r.key, ceiling |-> c]
    <3>1. runs' = runs /\ (request' = [request EXCEPT ![q] = s] \/ Answered(q, "refused"))
      BY <2>2 DEF PassControls
    <3>2. s.key = StripeEndAfter(s.at)
      BY <2>2 DEF PassControls, FilingInv, UnitsFiled
    <3> HIDE DEF s
    <3> QED BY <1>3, <1>5, <3>1, <3>2
  <2>3. CASE Refuse(q) \/ AdmitKnown(q) \/ AdmitRefused(q)
    BY <1>5, <2>3 DEF Refuse, AdmitKnown, AdmitRefused
  <2>4. CASE AdmitRolledBack(q)
    <3> DEFINE s == [pc |-> "reread", event |-> r.event, payload |-> r.payload]
    <3>1. runs' = runs /\ request' = [request EXCEPT ![q] = s] /\ s.pc = "reread"
      BY <1>0, <2>4 DEF AdmitRolledBack, TypeOK
    <3> HIDE DEF s
    <3> QED BY <1>3, <3>1
  <2>5. CASE AdmitNew(q)
    <3> DEFINE run == [payload |-> r.payload, created |-> r.at, period |-> r.key,
                       status |-> "PENDING"]
    <3>1. /\ runs' = [runs EXCEPT ![r.event] = run]
          /\ run.period = StripeEndAfter(run.created)
      BY <2>5 DEF AdmitNew, FilingInv, UnitsFiled
    <3> HIDE DEF run
    <3>2. \A e \in Events : Admitted(e)' => runs'[e].period = StripeEndAfter(runs'[e].created)
      BY <1>0, <3>1 DEF TypeOK, FilingInv, UnitsFiled, Admitted
    <3>3. /\ request'[q].pc = "answered"
          /\ \A other \in Requests \ {q} : request'[other] = request[other]
      BY <1>0, <2>5 DEF AdmitNew, Answered, TypeOK
    <3> QED BY <1>0, <3>2, <3>3 DEF FilingInv, UnitsFiled, StripeEndAfter
  <2> QED BY <1>6, <2>1, <2>2, <2>3, <2>4, <2>5 DEF Admission, Serve
<1>7. CASE UNCHANGED vars
  BY <1>1, <1>7 DEF vars, Admitted
<1> QED BY <1>2, <1>4, <1>6, <1>7 DEF Next

LEMMA FilingInvInit ==
  ASSUME StableAnchors, Init
  PROVE  FilingInv
<1>0. IInv /\ anchorDay \in AnchorDays /\ Start \in Nat /\ Start <= Reach
  BY IInvInit, LedgerAssumption, DaysAreNatural, ClockWithinReach DEF Init
<1>1. DayOfMonth[periodEnd] = anchorDay
  BY <1>0, AnchorReadBack DEF Init, StripeEndAfter
<1>2. \A p \in Passes : pass[p].pc = "idle"
  BY DEF Init, IdlePass
<1>3. \A q \in Requests : request[q].pc = "idle"
  BY DEF Init, IdleRequest
<1>4. ASSUME NEW e \in Events, Admitted(e)
      PROVE  runs[e].period = StripeEndAfter(runs[e].created)
  <2>1. runs[e].period = periodEnd /\ runs[e].created = Start
    BY <1>4 DEF Init, DamagedRows, Admitted
  <2> QED BY <2>1 DEF Init
<1> QED BY <1>0, <1>1, <1>2, <1>3, <1>4 DEF FilingInv, AnchorKept, UnitsFiled

LEMMA FilingInvKept ==
  ASSUME StableAnchors, FilingInv, [Next]_vars
  PROVE  FilingInv'
BY IInvKept, AnchorStays, UnitsStay DEF FilingInv

\* For subscriptions anchored on a day that every month has, a settlement
\* addresses the row its run's unit was reserved in, however many renewals lie
\* between (billing/period.ts:116-119).
THEOREM SettlementsFindTheirRow ==
  ASSUME StableAnchors
  PROVE  Spec => []SettleFindsItsRow
<1>1. Init => FilingInv
  BY FilingInvInit
<1>2. FilingInv /\ [Next]_vars => FilingInv'
  BY FilingInvKept
<1>3. FilingInv => SettleFindsItsRow
  BY DEF FilingInv, AnchorKept, UnitsFiled, SettleFindsItsRow, SettleKey, KeyAt, StripeEndAfter
<1> QED BY <1>1, <1>2, <1>3, PTL DEF Spec

-----------------------------------------------------------------------------
(* No period is charged for more than it admitted *)

\* The one month that can still have a row under the old spelling, and the
\* period or the two periods it overlaps.
OldMonth == MonthOf[Start]
OldKeys  == {StripeEndAfter(FirstDay(OldMonth)), StripeEndAfter(LastDay(OldMonth))}

UsedIn(row) == IF row = NoRow THEN 0 ELSE Used(row)

\* What a period is charged with: its own row, and the old month's where that
\* lies within it.
Held(day) ==
  UsedIn(allowance[day]) + (IF OldKeys = {day} THEN UsedIn(legacy[OldMonth]) ELSE 0)

OneOldMonth == \A m \in Months : legacy[m] # NoRow => m = OldMonth

\* What a pass has counted are runs, each counted once.
CountsAreRuns ==
  \A p \in Passes : pass[p].pc \in {"fold", "repair"} =>
    /\ pass[p].terminal \cap pass[p].pending = {}
    /\ \A e \in pass[p].terminal \cup pass[p].pending : Admitted(e)

\* A pass folds before it repairs: a row it does not fold lies in two periods.
FoldsBeforeRepair ==
  \A p \in Passes : legacy[OldMonth] # NoRow =>
    /\ pass[p].pc = "tally" => OldMonth \in pass[p].months
    /\ pass[p].pc = "fold" => OldMonth \in pass[p].months \/ Cardinality(OldKeys) = 2
    /\ pass[p].pc = "repair" => Cardinality(OldKeys) = 2

PeriodsCovered == \A day \in Days : Held(day) <= Cardinality(RunsOf(day))

AccountsInv ==
  FilingInv /\ OneOldMonth /\ CountsAreRuns /\ FoldsBeforeRepair /\ PeriodsCovered

LEMMA OldMonthIsAMonth ==
  /\ OldMonth \in Months /\ Start \in FirstDay(OldMonth)..LastDay(OldMonth)
  /\ Start \in Nat /\ FirstDay(OldMonth) \in Nat /\ LastDay(OldMonth) \in Nat
  /\ LastDay(OldMonth) <= Reach
<1>1. /\ Start \in Days /\ MaxDay \in Days /\ Start \in Nat /\ MaxDay \in Nat /\ Start <= MaxDay
  BY LedgerAssumption, DaysAreNatural
<1>2. /\ OldMonth \in Months /\ Start \in FirstDay(OldMonth)..LastDay(OldMonth)
      /\ FirstDay(OldMonth) \in Nat /\ LastDay(OldMonth) \in Nat
  BY <1>1, DayInItsMonth DEF OldMonth
<1> DEFINE last == MonthOf[MaxDay]
<1>3. last \in Months /\ MaxDay \in FirstDay(last)..LastDay(last) /\ LastDay(last) \in Nat
  BY <1>1, DayInItsMonth
<1>4. /\ MonthStart \in [1..Len(MonthStart) -> Nat] /\ Len(MonthStart) \in Nat
      /\ \A i, j \in 1..Len(MonthStart) : i < j => MonthStart[i] < MonthStart[j]
  BY CalendarAssumption
<1>5. OldMonth \in Nat /\ last \in Nat /\ OldMonth + 1 \in 1..Len(MonthStart)
      /\ last + 1 \in 1..Len(MonthStart) /\ OldMonth \in 1..Len(MonthStart)
  BY <1>2, <1>3, <1>4 DEF Months
<1> HIDE DEF last
<1>6. OldMonth <= last
  <2>1. SUFFICES ASSUME last < OldMonth PROVE FALSE
    BY <1>5
  <2>2. MonthStart[last + 1] <= MonthStart[OldMonth]
    BY <1>4, <1>5, <2>1
  <2>3. MonthStart[OldMonth] \in Nat /\ MonthStart[last + 1] \in Nat
    BY <1>4, <1>5
  <2> QED BY <1>1, <1>2, <1>3, <2>2, <2>3 DEF FirstDay, LastDay
<1>7. LastDay(OldMonth) <= LastDay(last)
  BY <1>2, <1>3, <1>4, <1>5, <1>6 DEF LastDay
<1> QED BY <1>1, <1>2, <1>7 DEF Reach, last

\* Runs are finitely many, and a period keeps those it has.
LEMMA RunsAreFinite ==
  ASSUME NEW S \in SUBSET Events
  PROVE  IsFiniteSet(S) /\ Cardinality(S) \in Nat
BY AdmissionAssumption, FS_Subset, FS_CardinalityType

LEMMA RunsStay ==
  ASSUME FilingInv, [Next]_vars
  PROVE  \A e \in Events : Admitted(e) =>
           /\ Admitted(e)' /\ runs'[e].created = runs[e].created /\ runs'[e].period = runs[e].period
<1>1. CASE \/ Advance
           \/ \E served \in BOOLEAN : RollSubscription(served)
           \/ \E day \in Start..now : InvoicePaid(StripeEndAfter(day))
           \/ \E e \in Events : Scheduler(e) \/ Expire(e)
           \/ \E p \in Passes : BeginPass(p) \/ Repair(p) \/ PassDies(p)
  BY <1>1, OutsideTheEndpoint DEF FilingInv, IInv
<1>2. ASSUME runs' = runs
      PROVE  \A e \in Events : Admitted(e) =>
               /\ Admitted(e)' /\ runs'[e].created = runs[e].created
               /\ runs'[e].period = runs[e].period
  BY <1>2 DEF Admitted
<1>3. ASSUME NEW q \in Requests, AdmitNew(q)
      PROVE  \A e \in Events : Admitted(e) => Admitted(e)' /\ runs'[e] = runs[e]
  <2>1. ~Admitted(request[q].event)
    BY <1>3 DEF AdmitNew, FilingInv, IInv, InFlightIsStored
  <2>2. \A e \in Events \ {request[q].event} : runs'[e] = runs[e]
    BY <1>3 DEF AdmitNew, FilingInv, IInv, TypeOK
  <2> QED BY <2>1, <2>2 DEF Admitted
<1>4. CASE \E q \in Requests, e \in Events, b \in Payloads : Arrive(q, e, b)
  BY <1>2, <1>4 DEF Arrive
<1>5. CASE \E q \in Requests : Admission(q)
  <2>1. PICK q \in Requests : Admission(q)
    BY <1>5
  <2>2. runs' = runs \/ AdmitNew(q)
    BY <2>1 DEF Admission, Serve, Check, Refuse, PassControls, AdmitKnown, AdmitRolledBack,
                AdmitRefused
  <2> QED BY <1>2, <1>3, <2>2
<1>6. CASE UNCHANGED vars
  BY <1>2, <1>6 DEF vars
<1> QED BY <1>1, <1>4, <1>5, <1>6 DEF Next

LEMMA RunsOfStay ==
  ASSUME FilingInv, [Next]_vars, NEW day
  PROVE  /\ RunsOf(day) \subseteq RunsOf(day)'
         /\ Cardinality(RunsOf(day)) <= Cardinality(RunsOf(day)')
         /\ Cardinality(RunsOf(day)) \in Nat /\ Cardinality(RunsOf(day)') \in Nat
<1>1. RunsOf(day) \subseteq RunsOf(day)'
  BY RunsStay DEF RunsOf
<1>2. RunsOf(day) \subseteq Events /\ RunsOf(day)' \subseteq Events
  BY DEF RunsOf
<1> QED BY <1>1, <1>2, RunsAreFinite, FS_Subset

\* Rows of months only go away, and only a fold removes them.
LEMMA LegacySteps ==
  ASSUME FilingInv, [Next]_vars
  PROVE  /\ \A m \in Months : legacy'[m] # NoRow => legacy'[m] = legacy[m]
         /\ \/ legacy' = legacy
            \/ \E p \in Passes, m \in Months : FoldIntoPeriod(p, m) \/ FoldStraddling(p, m)
<1>1. ASSUME NEW p \in Passes, NEW m \in Months, FoldIntoPeriod(p, m) \/ FoldStraddling(p, m)
      PROVE  \A n \in Months : legacy'[n] # NoRow => legacy'[n] = legacy[n]
  BY <1>1 DEF FoldIntoPeriod, FoldStraddling, FilingInv, IInv, TypeOK
<1>2. CASE \/ Advance
           \/ \E served \in BOOLEAN : RollSubscription(served)
           \/ \E day \in Start..now : InvoicePaid(StripeEndAfter(day))
           \/ \E e \in Events : Scheduler(e) \/ Expire(e)
  BY <1>2 DEF Advance, RollSubscription, InvoicePaid, Scheduler, Decide, Settle, LoseSettlement,
              Expire
<1>3. CASE \E q \in Requests : Admission(q)
  BY <1>3 DEF Admission
<1>4. ASSUME NEW p \in Passes, BeginPass(p) \/ Repair(p) \/ PassDies(p)
      PROVE  \/ legacy' = legacy
             \/ \E m \in Months : FoldIntoPeriod(p, m) \/ FoldStraddling(p, m)
  BY <1>4 DEF BeginPass, Repair, PassDies, EndPass, LeavePass, Tally, Reread, RepairRow
<1>5. CASE \/ \E q \in Requests, e \in Events, b \in Payloads :
                Arrive(q, e, b) /\ UNCHANGED <<anchorDay, legacy, pass, deaths>>
           \/ UNCHANGED vars
  BY <1>5 DEF vars
<1> QED BY <1>1, <1>2, <1>3, <1>4, <1>5 DEF Next

LEMMA OneOldMonthStays ==
  ASSUME FilingInv, OneOldMonth, [Next]_vars
  PROVE  OneOldMonth'
BY LegacySteps DEF OneOldMonth, OldMonth

\* A step is a pass's own, or leaves every pass alone.
LEMMA OtherSteps ==
  ASSUME [Next]_vars, ~(\E p \in Passes : BeginPass(p) \/ Repair(p) \/ PassDies(p))
  PROVE  pass' = pass /\ legacy' = legacy
<1>1. CASE \/ Advance
           \/ \E served \in BOOLEAN : RollSubscription(served)
           \/ \E day \in Start..now : InvoicePaid(StripeEndAfter(day))
           \/ \E e \in Events : Scheduler(e) \/ Expire(e)
  BY <1>1 DEF Advance, RollSubscription, InvoicePaid, Scheduler, Decide, Settle, LoseSettlement,
              Expire
<1>2. CASE \E q \in Requests : Admission(q)
  BY <1>2 DEF Admission
<1>3. CASE \/ \E q \in Requests, e \in Events, b \in Payloads :
                Arrive(q, e, b) /\ UNCHANGED <<anchorDay, legacy, pass, deaths>>
           \/ UNCHANGED vars
  BY <1>3 DEF vars
<1> QED BY <1>1, <1>2, <1>3 DEF Next

\* What a pass holds after each of its steps.
LEMMA PassMoves ==
  ASSUME TypeOK, NEW p \in Passes, BeginPass(p) \/ Repair(p) \/ PassDies(p)
  PROVE  \/ pass'[p].pc = "idle"
         \/ BeginPass(p) /\ pass'[p].pc = "tally" /\ pass'[p].months = LegacyMonths
         \/ \E seen \in SUBSET Events :
              /\ Tally(p, seen) /\ pass[p].pc = "tally"
              /\ pass'[p].pc = "fold" /\ pass'[p].months = pass[p].months
              /\ pass'[p].terminal = {e \in seen : runs[e].status # "PENDING"}
              /\ pass'[p].pending = {e \in seen : runs[e].status = "PENDING"}
         \/ \E m \in Months :
              /\ FoldIntoPeriod(p, m) \/ FoldStraddling(p, m)
              /\ pass[p].pc = "fold" /\ pass'[p].pc = "fold"
              /\ pass'[p].months = pass[p].months \ {m}
              /\ pass'[p].terminal = pass[p].terminal /\ pass'[p].pending = pass[p].pending
         \/ /\ Reread(p) /\ pass[p].pc = "fold" /\ pass[p].months = {} /\ pass'[p].pc = "repair"
            /\ pass'[p].terminal = pass[p].terminal /\ pass'[p].pending = pass[p].pending
         \/ \E day \in Days :
              /\ RepairRow(p, day) /\ pass[p].pc = "repair" /\ pass'[p].pc = "repair"
              /\ pass'[p].terminal = pass[p].terminal /\ pass'[p].pending = pass[p].pending
<1>0. pass[p] \in PassStates
  BY DEF TypeOK
<1>1. CASE BeginPass(p)
  BY <1>1 DEF BeginPass, TypeOK
<1>2. CASE EndPass(p) \/ PassDies(p)
  BY <1>2 DEF EndPass, PassDies, LeavePass, IdlePass, TypeOK
<1>3. ASSUME NEW seen \in SUBSET Events, Tally(p, seen)
      PROVE  /\ pass[p].pc = "tally" /\ pass'[p].pc = "fold" /\ pass'[p].months = pass[p].months
             /\ pass'[p].terminal = {e \in seen : runs[e].status # "PENDING"}
             /\ pass'[p].pending = {e \in seen : runs[e].status = "PENDING"}
  BY <1>3 DEF Tally, TypeOK
<1>4. ASSUME NEW m \in Months, FoldIntoPeriod(p, m) \/ FoldStraddling(p, m)
      PROVE  /\ pass[p].pc = "fold" /\ pass'[p].pc = "fold"
             /\ pass'[p].months = pass[p].months \ {m}
             /\ pass'[p].terminal = pass[p].terminal /\ pass'[p].pending = pass[p].pending
  <2> DEFINE s == [pass[p] EXCEPT !.months = @ \ {m}]
  <2>1. pass[p].pc = "fold" /\ pass' = [pass EXCEPT ![p] = s]
    BY <1>4 DEF FoldIntoPeriod, FoldStraddling, Folded
  <2>2. /\ s.pc = "fold" /\ s.months = pass[p].months \ {m}
        /\ s.terminal = pass[p].terminal /\ s.pending = pass[p].pending
    BY <1>0, <2>1 DEF PassStates
  <2> HIDE DEF s
  <2>3. pass'[p] = s
    BY <2>1 DEF TypeOK
  <2> QED BY <2>1, <2>2, <2>3
<1>5. CASE Reread(p)
  BY <1>5 DEF Reread, TypeOK
<1>6. ASSUME NEW day \in Days, RepairRow(p, day)
      PROVE  /\ pass[p].pc = "repair" /\ pass'[p].pc = "repair"
             /\ pass'[p].terminal = pass[p].terminal /\ pass'[p].pending = pass[p].pending
  <2> DEFINE s == [pass[p] EXCEPT !.days = @ \ {day}]
  <2>1. pass[p].pc = "repair" /\ pass' = [pass EXCEPT ![p] = s]
    BY <1>6 DEF RepairRow
  <2>2. s.pc = "repair" /\ s.terminal = pass[p].terminal /\ s.pending = pass[p].pending
    BY <1>0, <2>1 DEF PassStates
  <2> HIDE DEF s
  <2>3. pass'[p] = s
    BY <2>1 DEF TypeOK
  <2> QED BY <2>1, <2>2, <2>3
<1> QED BY <1>1, <1>2, <1>3, <1>4, <1>5, <1>6 DEF Repair

LEMMA CountsStay ==
  ASSUME FilingInv, CountsAreRuns, [Next]_vars
  PROVE  CountsAreRuns'
<1>0. TypeOK /\ \A e \in Events : Admitted(e) => Admitted(e)'
  BY RunsStay DEF FilingInv, IInv
<1>1. ASSUME NEW p \in Passes, pass[p].pc \in {"fold", "repair"},
             pass'[p].terminal = pass[p].terminal, pass'[p].pending = pass[p].pending
      PROVE  /\ pass'[p].terminal \cap pass'[p].pending = {}
             /\ \A e \in pass'[p].terminal \cup pass'[p].pending : Admitted(e)'
  <2>1. pass[p].terminal \subseteq Events /\ pass[p].pending \subseteq Events
    BY <1>0, <1>1, PassFields DEF TypeOK
  <2> QED BY <1>0, <1>1, <2>1 DEF CountsAreRuns
<1>2. ASSUME NEW p \in Passes, NEW seen \in SUBSET Events, Tally(p, seen),
             pass'[p].terminal = {e \in seen : runs[e].status # "PENDING"},
             pass'[p].pending = {e \in seen : runs[e].status = "PENDING"}
      PROVE  /\ pass'[p].terminal \cap pass'[p].pending = {}
             /\ \A e \in pass'[p].terminal \cup pass'[p].pending : Admitted(e)'
  <2>1. \A e \in seen : Admitted(e)
    BY <1>2 DEF Tally, Scanned, Stored
  <2> QED BY <1>0, <1>2, <2>1
<1>3. ASSUME NEW p \in Passes, BeginPass(p) \/ Repair(p) \/ PassDies(p),
             pass'[p].pc \in {"fold", "repair"}
      PROVE  /\ pass'[p].terminal \cap pass'[p].pending = {}
             /\ \A e \in pass'[p].terminal \cup pass'[p].pending : Admitted(e)'
  BY <1>0, <1>1, <1>2, <1>3, PassMoves
<1>4. CASE \E p \in Passes : BeginPass(p) \/ Repair(p) \/ PassDies(p)
  <2>1. PICK p \in Passes : BeginPass(p) \/ Repair(p) \/ PassDies(p)
    BY <1>4
  <2>2. \A other \in Passes \ {p} : pass'[other] = pass[other]
    BY <1>0, <2>1, PassSteps
  <2> QED BY <1>1, <1>3, <2>1, <2>2 DEF CountsAreRuns
<1>5. CASE ~(\E p \in Passes : BeginPass(p) \/ Repair(p) \/ PassDies(p))
  <2>1. pass' = pass
    BY <1>5, OtherSteps
  <2> QED BY <1>1, <2>1 DEF CountsAreRuns
<1> QED BY <1>4, <1>5

\* The periods of the old month are the same to every pass and at all times.
LEMMA OldKeysFixed ==
  ASSUME StableAnchors, FilingInv, [Next]_vars
  PROVE  /\ OldKeys' = OldKeys
         /\ CandidateKeys(OldMonth, periodEnd) = OldKeys
         /\ \A p \in Passes : pass[p].pc # "idle" =>
              CandidateKeys(OldMonth, pass[p].anchor) = OldKeys
<1>1. anchorDay' = anchorDay
  BY AnchorStays
<1>2. OldKeys' = OldKeys
  BY <1>1 DEF OldKeys, StripeEndAfter
<1> QED BY <1>2 DEF FilingInv, AnchorKept, OldKeys, StripeEndAfter, CandidateKeys, KeyAt

LEMMA FoldsStay ==
  ASSUME StableAnchors, FilingInv, FoldsBeforeRepair, [Next]_vars
  PROVE  FoldsBeforeRepair'
<1>0. /\ TypeOK /\ OldMonth \in Months /\ OldKeys' = OldKeys
      /\ legacy'[OldMonth] # NoRow => legacy[OldMonth] # NoRow
  BY OldMonthIsAMonth, OldKeysFixed, LegacySteps DEF FilingInv, IInv
<1> SUFFICES ASSUME NEW p \in Passes, legacy'[OldMonth] # NoRow
             PROVE  /\ pass'[p].pc = "tally" => OldMonth \in pass'[p].months
                    /\ pass'[p].pc = "fold" =>
                         OldMonth \in pass'[p].months \/ Cardinality(OldKeys) = 2
                    /\ pass'[p].pc = "repair" => Cardinality(OldKeys) = 2
  BY <1>0 DEF FoldsBeforeRepair, OldMonth
<1>1. CASE pass'[p] = pass[p]
  BY <1>0, <1>1 DEF FoldsBeforeRepair
<1>2. CASE BeginPass(p) \/ Repair(p) \/ PassDies(p)
  <2>1. CASE pass'[p].pc = "tally" /\ pass'[p].months = LegacyMonths
    BY <1>0, <2>1 DEF LegacyMonths
  <2>2. CASE pass[p].pc = "tally" /\ pass'[p].pc = "fold" /\ pass'[p].months = pass[p].months
    BY <1>0, <2>2 DEF FoldsBeforeRepair
  <2>3. ASSUME NEW m \in Months, FoldIntoPeriod(p, m), pass[p].pc = "fold", pass'[p].pc = "fold",
               pass'[p].months = pass[p].months \ {m}
        PROVE  OldMonth \in pass'[p].months \/ Cardinality(OldKeys) = 2
    <3>1. m # OldMonth
      BY <1>0, <2>3 DEF FoldIntoPeriod, TypeOK
    <3> QED BY <1>0, <2>3, <3>1 DEF FoldsBeforeRepair
  <2>4. ASSUME NEW m \in Months, FoldStraddling(p, m), pass[p].pc = "fold", pass'[p].pc = "fold",
               pass'[p].months = pass[p].months \ {m}
        PROVE  OldMonth \in pass'[p].months \/ Cardinality(OldKeys) = 2
    <3>1. CASE m = OldMonth
      BY <2>4, <3>1, OldKeysFixed DEF FoldStraddling
    <3>2. CASE m # OldMonth
      BY <1>0, <2>4, <3>2 DEF FoldsBeforeRepair
    <3> QED BY <3>1, <3>2
  <2>5. CASE pass[p].pc = "fold" /\ pass[p].months = {} /\ pass'[p].pc = "repair"
    BY <1>0, <2>5 DEF FoldsBeforeRepair
  <2>6. CASE pass[p].pc = "repair" /\ pass'[p].pc = "repair"
    BY <1>0, <2>6 DEF FoldsBeforeRepair
  <2>7. CASE pass'[p].pc = "idle"
    BY <2>7
  <2> QED BY <1>0, <1>2, <2>1, <2>2, <2>3, <2>4, <2>5, <2>6, <2>7, PassMoves
<1>3. CASE \E other \in Passes \ {p} : BeginPass(other) \/ Repair(other) \/ PassDies(other)
  BY <1>0, <1>1, <1>3, PassSteps
<1>4. CASE ~(\E any \in Passes : BeginPass(any) \/ Repair(any) \/ PassDies(any))
  BY <1>1, <1>4, OtherSteps
<1> QED BY <1>2, <1>3, <1>4

-----------------------------------------------------------------------------
(* What a period is charged with *)

LEMMA HeldIsANumber ==
  ASSUME TypeOK, NEW day \in Days
  PROVE  /\ UsedIn(allowance[day]) \in Nat /\ UsedIn(legacy[OldMonth]) \in Nat
         /\ Held(day) \in Nat
<1>1. allowance[day] \in Row \cup {NoRow} /\ legacy[OldMonth] \in Row \cup {NoRow}
  BY OldMonthIsAMonth DEF TypeOK
<1>2. UsedIn(allowance[day]) \in Nat /\ UsedIn(legacy[OldMonth]) \in Nat
  BY <1>1, RowFields DEF UsedIn
<1> QED BY <1>2 DEF Held

\* A step that leaves a period's charge as it is, or lowers it, keeps it covered.
LEMMA ChargeFalls ==
  ASSUME FilingInv, PeriodsCovered, [Next]_vars, TypeOK',
         \A day \in Days : Held(day)' <= Held(day)
  PROVE  PeriodsCovered'
<1>1. ASSUME NEW day \in Days
      PROVE  Held(day)' <= Cardinality(RunsOf(day)')
  <2>1. Held(day) \in Nat /\ Held(day)' \in Nat
    <3>1. Held(day) \in Nat
      BY HeldIsANumber DEF FilingInv, IInv
    <3>2. Held(day)' \in Nat
      <4>1. allowance'[day] \in Row \cup {NoRow} /\ legacy'[OldMonth] \in Row \cup {NoRow}
        BY OldMonthIsAMonth DEF TypeOK
      <4>2. UsedIn(allowance'[day]) \in Nat /\ UsedIn(legacy'[OldMonth]) \in Nat
        BY <4>1, RowFields DEF UsedIn
      <4> QED BY <4>2 DEF Held, OldMonth, UsedIn, Used
    <3> QED BY <3>1, <3>2
  <2> QED BY <2>1, RunsOfStay DEF PeriodsCovered
<1> QED BY <1>1 DEF PeriodsCovered

\* ... and so does a step that only rewrites one row, charging it no more.
LEMMA RowRewritten ==
  ASSUME StableAnchors, FilingInv, PeriodsCovered, [Next]_vars, TypeOK',
         legacy' = legacy, NEW key, NEW row, UsedIn(row) <= UsedIn(allowance[key]),
         allowance' = [allowance EXCEPT ![key] = row]
  PROVE  PeriodsCovered'
<1>1. TypeOK /\ OldKeys' = OldKeys
  BY OldKeysFixed DEF FilingInv, IInv
<1>2. ASSUME NEW day \in Days
      PROVE  Held(day)' <= Held(day)
  <2>1. UsedIn(allowance'[day]) <= UsedIn(allowance[day])
    <3>1. CASE day = key
      BY <1>1, <3>1 DEF TypeOK
    <3>2. CASE day # key
      <4>1. allowance'[day] = allowance[day] /\ UsedIn(allowance[day]) \in Nat
        BY <1>1, <3>2, HeldIsANumber DEF TypeOK
      <4> QED BY <4>1
    <3> QED BY <3>1, <3>2
  <2>2. /\ UsedIn(allowance[day]) \in Nat /\ UsedIn(legacy[OldMonth]) \in Nat
        /\ UsedIn(allowance'[day]) \in Nat
    <3>1. allowance'[day] \in Row \cup {NoRow}
      BY DEF TypeOK
    <3> QED BY <1>1, <3>1, HeldIsANumber, RowFields DEF UsedIn
  <2>3. Held(day)' = UsedIn(allowance'[day])
                       + (IF OldKeys = {day} THEN UsedIn(legacy[OldMonth]) ELSE 0)
    BY <1>1 DEF Held, UsedIn, Used, OldMonth
  <2> QED BY <2>1, <2>2, <2>3 DEF Held
<1> QED BY <1>2, ChargeFalls

LEMMA UnchangedCovers ==
  ASSUME StableAnchors, FilingInv, PeriodsCovered, [Next]_vars, TypeOK',
         allowance' = allowance, legacy' = legacy
  PROVE  PeriodsCovered'
<1>1. \A day \in Days : Held(day)' = Held(day) /\ Held(day) \in Nat
  BY OldKeysFixed, HeldIsANumber DEF FilingInv, IInv, Held, UsedIn, Used, OldMonth
<1> QED BY <1>1, ChargeFalls

\* Opening a period charges nothing, and a settlement only moves a unit.
LEMMA LifeCovers ==
  ASSUME StableAnchors, FilingInv, PeriodsCovered, [Next]_vars, TypeOK',
         \/ Advance
         \/ \E served \in BOOLEAN : RollSubscription(served)
         \/ \E day \in Start..now : InvoicePaid(StripeEndAfter(day))
         \/ \E e \in Events : Scheduler(e) \/ Expire(e)
  PROVE  PeriodsCovered'
<1>0. /\ TypeOK /\ anchorDay \in AnyAnchor /\ now \in Nat /\ now <= MaxDay /\ Start \in Nat
      /\ MaxDay \in Nat
  BY LedgerAssumption, DaysAreNatural DEF FilingInv, IInv, TypeOK, Clock
<1>1. ASSUME NEW key \in Days, legacy' = legacy,
             allowance' = [allowance EXCEPT ![key] = Opened(@)]
      PROVE  PeriodsCovered'
  <2>1. UsedIn(Opened(allowance[key])) <= UsedIn(allowance[key])
    <3>1. CASE allowance[key] = NoRow
      BY <3>1 DEF Opened, UsedIn, Used
    <3>2. CASE allowance[key] # NoRow
      <4>1. allowance[key] \in Row
        BY <1>0, <3>2 DEF TypeOK
      <4>2. Used(Opened(allowance[key])) = Used(allowance[key]) /\ Used(allowance[key]) \in Nat
        BY <3>2, <4>1, RowFields DEF Opened, Used, Row
      <4> QED BY <3>2, <4>2 DEF UsedIn
    <3> QED BY <3>1, <3>2
  <2>2. allowance' = [allowance EXCEPT ![key] = Opened(allowance[key])]
    BY <1>0, <1>1 DEF TypeOK
  <2> QED BY <1>1, <2>1, <2>2, RowRewritten
<1>2. CASE Advance \/ \E e \in Events : Decide(e) \/ LoseSettlement(e) \/ Expire(e)
  BY <1>2, UnchangedCovers DEF Advance, Decide, LoseSettlement, Expire
<1>3. ASSUME NEW served \in BOOLEAN, RollSubscription(served)
      PROVE  PeriodsCovered'
  <2>1. StripeEndAfter(now) \in Days
    BY <1>0, BoundaryFollows DEF StripeEndAfter
  <2> QED BY <1>1, <1>3, <2>1, UnchangedCovers DEF RollSubscription
<1>4. ASSUME NEW day \in Start..now, InvoicePaid(StripeEndAfter(day))
      PROVE  PeriodsCovered'
  <2>1. StripeEndAfter(day) \in Days
    BY <1>0, BoundaryFollows DEF StripeEndAfter
  <2> QED BY <1>1, <1>4, <2>1 DEF InvoicePaid
<1>5. ASSUME NEW e \in Events, Settle(e)
      PROVE  PeriodsCovered'
  <2> DEFINE key == SettleKey(e)
             row == allowance[key]
  <2>1. legacy' = legacy /\ (allowance' = allowance \/ allowance' = [allowance EXCEPT ![key] = SettledRow(row)])
        /\ (allowance' # allowance => row # NoRow)
    BY <1>0, <1>5 DEF Settle, TypeOK
  <2>2. CASE allowance' = allowance
    BY <2>1, <2>2, UnchangedCovers
  <2>3. CASE allowance' # allowance
    <3>1. key \in Days
      <4> HIDE DEF key, row
      <4>1. SUFFICES ASSUME key \notin Days PROVE allowance' = allowance
        BY <2>3
      <4>2. allowance' = [allowance EXCEPT ![key] = SettledRow(row)]
        BY <2>1, <2>3
      <4>3. allowance \in [Days -> Row \cup {NoRow}] /\ allowance' \in [Days -> Row \cup {NoRow}]
        BY <1>0 DEF TypeOK
      <4>4. \A day \in Days : allowance'[day] = allowance[day]
        BY <4>1, <4>2, <4>3
      <4> QED BY <4>3, <4>4
    <3>2. row \in Row
      BY <1>0, <2>1, <2>3, <3>1 DEF TypeOK
    <3> HIDE DEF row
    <3>3. Used(SettledRow(row)) = Used(row) /\ Used(row) \in Nat
      BY <3>2, RowFields DEF SettledRow, Used, Row
    <3>4. SettledRow(row) \in Row
      BY <1>0, <3>2, DaysAreNatural DEF SettledRow, Row, TypeOK
    <3>5. UsedIn(SettledRow(row)) <= UsedIn(allowance[key])
      BY <3>2, <3>3, <3>4, NullAssumption DEF UsedIn, row
    <3> HIDE DEF key
    <3> QED BY <2>1, <2>3, <3>5, RowRewritten
  <2> QED BY <2>2, <2>3
<1> QED BY <1>2, <1>3, <1>4, <1>5 DEF Scheduler

\* An admission charges one unit, and its run is new to the period.
LEMMA AdmitNewCovers ==
  ASSUME StableAnchors, FilingInv, PeriodsCovered, [Next]_vars, TypeOK',
         NEW q \in Requests, AdmitNew(q), legacy' = legacy
  PROVE  PeriodsCovered'
<1>1. /\ TypeOK /\ OldKeys' = OldKeys /\ request[q] \in RequestStates /\ request[q].pc = "admit"
      /\ request[q].event \in Events /\ request[q].key \in Days /\ request[q].at \in Days
      /\ request[q].payload \in Payloads
  BY OldKeysFixed, RequestFields DEF FilingInv, IInv, TypeOK, AdmitNew
<1>2. PICK key \in Days, e \in Events, at \in Days, b \in Payloads :
        key = request[q].key /\ e = request[q].event /\ at = request[q].at /\ b = request[q].payload
  BY <1>1
<1> DEFINE new == [consumed |-> allowance[key].consumed, reserved |-> allowance[key].reserved + 1,
                   updated |-> at]
           run == [payload |-> b, created |-> at, period |-> key, status |-> "PENDING"]
<1>3. /\ allowance' = [allowance EXCEPT ![key] = new] /\ allowance[key] # NoRow
      /\ runs' = [runs EXCEPT ![e] = run]
  BY <1>2 DEF AdmitNew
<1>4. allowance[key] \in Row /\ new \in Row /\ new # NoRow
  BY <1>1, <1>3, NullAssumption DEF TypeOK, Row
<1>5. Used(new) = Used(allowance[key]) + 1 /\ Used(allowance[key]) \in Nat
  BY <1>4, RowFields DEF Used
<1>6. ~Admitted(e)
  BY <1>1, <1>2 DEF FilingInv, IInv, InFlightIsStored, AdmitNew
<1>7. run \in Run /\ run # NoRun /\ run.period = key
  BY NullAssumption DEF Run
<1> HIDE DEF new, run
<1>8. RunsOf(key)' = RunsOf(key) \cup {e} /\ e \notin RunsOf(key)
  BY <1>1, <1>3, <1>6, <1>7 DEF RunsOf, Admitted, TypeOK
<1>9. /\ Cardinality(RunsOf(key)') = Cardinality(RunsOf(key)) + 1
      /\ Cardinality(RunsOf(key)) \in Nat
  <2>1. IsFiniteSet(RunsOf(key)) /\ Cardinality(RunsOf(key)) \in Nat
    BY RunsAreFinite DEF RunsOf
  <2> QED BY <1>8, <2>1, FS_AddElement
<1>10. /\ allowance'[key] = new
       /\ \A day \in Days \ {key} : allowance'[day] = allowance[day]
  BY <1>1, <1>3 DEF TypeOK
<1>11. Held(key)' = Held(key) + 1 /\ Held(key) \in Nat
  <2>1. UsedIn(allowance'[key]) = UsedIn(allowance[key]) + 1
    BY <1>3, <1>4, <1>5, <1>10 DEF UsedIn
  <2>2. Held(key)' = UsedIn(allowance'[key])
                       + (IF OldKeys = {key} THEN UsedIn(legacy[OldMonth]) ELSE 0)
    BY <1>1 DEF Held, UsedIn, Used, OldMonth
  <2> QED BY <1>1, <2>1, <2>2, HeldIsANumber DEF Held
<1>12. Held(key)' <= Cardinality(RunsOf(key)')
  BY <1>9, <1>11 DEF PeriodsCovered
<1>13. ASSUME NEW day \in Days \ {key}
       PROVE  Held(day)' <= Cardinality(RunsOf(day)')
  <2>1. Held(day)' = Held(day) /\ Held(day) \in Nat
    BY <1>1, <1>10, HeldIsANumber DEF Held, UsedIn, Used, OldMonth
  <2> QED BY <2>1, RunsOfStay DEF PeriodsCovered
<1> QED BY <1>12, <1>13 DEF PeriodsCovered

\* A fold moves the old month's units into its period, or drops them.
LEMMA FoldCovers ==
  ASSUME StableAnchors, FilingInv, OneOldMonth, PeriodsCovered, [Next]_vars, TypeOK',
         NEW p \in Passes, NEW m \in Months, FoldIntoPeriod(p, m) \/ FoldStraddling(p, m)
  PROVE  PeriodsCovered'
<1>1. /\ TypeOK /\ OldKeys' = OldKeys /\ OldMonth \in Months /\ pass[p].pc = "fold"
      /\ CandidateKeys(OldMonth, pass[p].anchor) = OldKeys
  BY OldKeysFixed, OldMonthIsAMonth
     DEF FilingInv, IInv, FoldIntoPeriod, FoldStraddling, Folded
<1>2. ASSUME NEW day \in Days
      PROVE  /\ Held(day)' = UsedIn(allowance'[day])
                  + (IF OldKeys = {day} THEN UsedIn(legacy'[OldMonth]) ELSE 0)
             /\ UsedIn(allowance[day]) \in Nat /\ UsedIn(legacy[OldMonth]) \in Nat
             /\ Held(day) \in Nat
  BY <1>1, HeldIsANumber DEF Held, UsedIn, Used, OldMonth
<1>3. /\ legacy'[OldMonth] = NoRow \/ legacy' = legacy
      /\ m = OldMonth /\ FoldIntoPeriod(p, m) => legacy'[OldMonth] = NoRow
  <2>1. legacy' = legacy \/ legacy' = [legacy EXCEPT ![m] = NoRow]
    BY DEF FoldIntoPeriod, FoldStraddling
  <2>2. CASE m = OldMonth
    BY <1>1, <2>1, <2>2 DEF FoldIntoPeriod, TypeOK
  <2>3. CASE m # OldMonth
    <3>1. legacy[m] = NoRow
      BY <2>3 DEF OneOldMonth
    <3>2. legacy' = legacy
      BY <1>1, <2>1, <3>1 DEF TypeOK
    <3> QED BY <2>3, <3>2
  <2> QED BY <2>2, <2>3
<1>4. UsedIn(legacy'[OldMonth]) <= UsedIn(legacy[OldMonth]) /\ UsedIn(legacy'[OldMonth]) \in Nat
  <2>1. UsedIn(legacy[OldMonth]) \in Nat
    BY <1>1, OldMonthIsAMonth, RowFields DEF UsedIn, TypeOK
  <2> QED BY <1>3, <2>1 DEF UsedIn
<1>5. CASE allowance' = allowance
  <2>1. \A day \in Days : Held(day)' <= Held(day)
    BY <1>2, <1>4, <1>5 DEF Held
  <2> QED BY <2>1, ChargeFalls
<1>6. CASE FoldIntoPeriod(p, m) /\ allowance' # allowance
  <2>1. PICK key : /\ CandidateKeys(m, pass[p].anchor) = {key}
                   /\ \/ Renames(p, m, key) /\ allowance' =
                           [allowance EXCEPT ![key] = [legacy[m] EXCEPT !.updated = pass[p].at]]
                      \/ Merges(m, key) /\ allowance' =
                           [allowance EXCEPT ![key] = MergedRow(@, legacy[m], pass[p].at)]
    BY <1>6 DEF FoldIntoPeriod
  <2>2. m = OldMonth /\ legacy[m] # NoRow
    BY <2>1 DEF OneOldMonth, Renames, Merges
  <2>3. OldKeys = {key} /\ legacy'[OldMonth] = NoRow
    BY <1>1, <1>3, <1>6, <2>1, <2>2
  <2>4. key \in Days
    <3>1. anchorDay \in AnyAnchor
      BY <1>1, LedgerAssumption DEF TypeOK
    <3>2. FirstDay(OldMonth) <= Reach /\ FirstDay(OldMonth) \in Nat
      BY OldMonthIsAMonth, ClockWithinReach
    <3>3. StripeEndAfter(FirstDay(OldMonth)) \in Days
      BY <3>1, <3>2, NextIsFirst DEF StripeEndAfter
    <3> QED BY <2>3, <3>3 DEF OldKeys
  <2>5. legacy[m] \in Row /\ UsedIn(legacy[OldMonth]) = Used(legacy[m]) /\ Used(legacy[m]) \in Nat
    BY <1>1, <2>2, RowFields DEF TypeOK, UsedIn
  <2>6. UsedIn(allowance'[key]) = UsedIn(allowance[key]) + Used(legacy[m])
    <3>0. pass[p].at \in Days
      BY <1>1, PassFields DEF TypeOK
    <3>1. CASE Renames(p, m, key) /\ allowance' =
                 [allowance EXCEPT ![key] = [legacy[m] EXCEPT !.updated = pass[p].at]]
      <4>1. allowance[key] = NoRow /\ allowance'[key] = [legacy[m] EXCEPT !.updated = pass[p].at]
        BY <1>1, <2>4, <3>1 DEF Renames, TypeOK
      <4>2. /\ [legacy[m] EXCEPT !.updated = pass[p].at] \in Row
            /\ Used([legacy[m] EXCEPT !.updated = pass[p].at]) = Used(legacy[m])
        BY <2>5, <3>0 DEF Row, Used
      <4> QED BY <2>5, <4>1, <4>2, NullAssumption DEF UsedIn
    <3>2. CASE Merges(m, key) /\ allowance' =
                 [allowance EXCEPT ![key] = MergedRow(@, legacy[m], pass[p].at)]
      <4>1. /\ allowance[key] \in Row
            /\ allowance'[key] = MergedRow(allowance[key], legacy[m], pass[p].at)
        BY <1>1, <2>4, <3>2 DEF Merges, TypeOK
      <4>2. /\ MergedRow(allowance[key], legacy[m], pass[p].at) \in Row
            /\ Used(MergedRow(allowance[key], legacy[m], pass[p].at))
                 = Used(allowance[key]) + Used(legacy[m])
        BY <2>5, <3>0, <4>1, RowFields DEF MergedRow, Row, Used
      <4> QED BY <4>1, <4>2, NullAssumption DEF UsedIn
    <3> QED BY <2>1, <3>1, <3>2
  <2>7. \A day \in Days \ {key} : allowance'[day] = allowance[day]
    BY <1>1, <2>1 DEF TypeOK
  <2>8. ASSUME NEW day \in Days
        PROVE  Held(day)' <= Held(day)
    <3>1. CASE day = key
      <4>1. Held(day)' = UsedIn(allowance'[key])
        BY <1>2, <2>3, <2>4, <2>5, <2>6, <3>1 DEF UsedIn
      <4>2. Held(day) = UsedIn(allowance[key]) + Used(legacy[m])
        BY <2>3, <2>5, <3>1 DEF Held
      <4> QED BY <1>2, <2>6, <3>1, <4>1, <4>2
    <3>2. CASE day # key
      BY <1>2, <2>3, <2>7, <3>2 DEF Held
    <3> QED BY <3>1, <3>2
  <2> QED BY <2>8, ChargeFalls
<1> QED BY <1>5, <1>6 DEF FoldStraddling

\* The repair charges a period at most with what it was charged or with the
\* runs it counted, and those are runs of the period.
LEMMA RepairCovers ==
  ASSUME StableAnchors, AccountsInv, [Next]_vars, TypeOK',
         NEW p \in Passes, NEW day \in Days, RepairRow(p, day)
  PROVE  PeriodsCovered'
<1> DEFINE s == pass[p]
           T == OfPeriod(p, s.terminal, day)
           P == OfPeriod(p, s.pending, day)
           row == allowance[day]
           fixed == Repaired(row, Cardinality(T), Cardinality(P), s.at)
<1>1. /\ FilingInv /\ TypeOK /\ PeriodsCovered /\ OldKeys' = OldKeys /\ s \in PassStates
      /\ s.pc = "repair" /\ s.at \in Days /\ legacy' = legacy
      /\ s.terminal \subseteq Events /\ s.pending \subseteq Events
  BY OldKeysFixed, PassFields DEF AccountsInv, FilingInv, IInv, TypeOK, RepairRow
<1>2. CASE allowance' = allowance
  BY <1>1, <1>2, UnchangedCovers
<1>3. CASE allowance' # allowance
  <2>1. row = s.rows[day] /\ row # NoRow /\ allowance' = [allowance EXCEPT ![day] = fixed]
    BY <1>3 DEF RepairRow, Unmoved
  <2>2. row \in Row
    BY <1>1, <2>1 DEF TypeOK
  <2>3. /\ T \subseteq RunsOf(day) /\ P \subseteq RunsOf(day) /\ T \cap P = {}
        /\ RunsOf(day) \subseteq Events
    <3>1. \A e \in s.terminal \cup s.pending : e \in Events /\ Admitted(e)
      BY <1>1 DEF AccountsInv, CountsAreRuns
    <3>2. DayOfMonth[s.anchor] = anchorDay
      BY <1>1 DEF FilingInv, AnchorKept
    <3>3. \A e \in Events : Admitted(e) => runs[e].period = KeyAt(runs[e].created, s.anchor)
      BY <1>1, <3>2 DEF FilingInv, UnitsFiled, StripeEndAfter, KeyAt
    <3>4. s.terminal \cap s.pending = {}
      BY <1>1 DEF AccountsInv, CountsAreRuns
    <3> QED BY <3>1, <3>3, <3>4 DEF OfPeriod, RunsOf
  <2>4. /\ Cardinality(T) \in Nat /\ Cardinality(P) \in Nat /\ Cardinality(RunsOf(day)) \in Nat
        /\ Cardinality(T) + Cardinality(P) <= Cardinality(RunsOf(day))
    <3>1. /\ IsFiniteSet(T) /\ IsFiniteSet(P) /\ IsFiniteSet(RunsOf(day))
          /\ Cardinality(T) \in Nat /\ Cardinality(P) \in Nat /\ Cardinality(RunsOf(day)) \in Nat
      BY <2>3, RunsAreFinite
    <3> HIDE DEF T, P
    <3>2. Cardinality(T \cup P) = Cardinality(T) + Cardinality(P) - Cardinality(T \cap P)
      BY <3>1, FS_Union
    <3>3. Cardinality(T \cap P) = 0
      BY <2>3, FS_EmptySet
    <3>4. T \cup P \in SUBSET RunsOf(day)
      BY <2>3
    <3>5. Cardinality(T \cup P) <= Cardinality(RunsOf(day))
      BY <3>1, <3>4, FS_Subset
    <3> QED BY <3>1, <3>2, <3>3, <3>5
  <2>5. OldKeys = {day} => legacy[OldMonth] = NoRow
    <3>1. OldKeys = {day} => Cardinality(OldKeys) = 1
      BY FS_Singleton
    <3> QED BY <1>1, <3>1 DEF AccountsInv, FoldsBeforeRepair
  <2>6. Held(day) = Used(row)
    BY <2>1, <2>2, <2>5, RowFields DEF Held, UsedIn
  <2>7. Used(row) <= Cardinality(RunsOf(day))
    BY <1>1, <2>6 DEF PeriodsCovered
  <2> HIDE DEF T, P
  <2>8. fixed \in Row /\ Used(fixed) \in Nat /\ Used(fixed) <= Cardinality(RunsOf(day))
    <3> HIDE DEF row
    <3>1. row.consumed \in Nat /\ row.reserved \in Nat
      BY <2>2, RowFields
    <3>2. row.consumed + row.reserved <= Cardinality(RunsOf(day))
      BY <2>7 DEF Used
    <3>3. /\ Larger(row.consumed, Cardinality(T)) \in Nat
          /\ Smaller(row.reserved, Cardinality(P)) \in Nat
          /\ Larger(row.consumed, Cardinality(T)) + Smaller(row.reserved, Cardinality(P))
               <= Cardinality(RunsOf(day))
      BY <2>4, <3>1, <3>2 DEF Larger, Smaller
    <3> QED BY <1>1, <3>3 DEF Repaired, Row, Used
  <2> HIDE DEF fixed
  <2>9. /\ allowance'[day] = fixed
        /\ \A other \in Days \ {day} : allowance'[other] = allowance[other]
    BY <1>1, <2>1 DEF TypeOK
  <2>10. Held(day)' = Used(fixed)
    <3>1. Held(day)' = UsedIn(allowance'[day])
                         + (IF OldKeys = {day} THEN UsedIn(legacy[OldMonth]) ELSE 0)
      BY <1>1 DEF Held, UsedIn, Used, OldMonth
    <3>2. UsedIn(allowance'[day]) = Used(fixed)
      BY <2>8, <2>9, NullAssumption DEF UsedIn
    <3> QED BY <2>5, <2>8, <3>1, <3>2 DEF UsedIn
  <2>11. Held(day)' <= Cardinality(RunsOf(day)')
    BY <1>1, <2>4, <2>8, <2>10, RunsOfStay
  <2>12. ASSUME NEW other \in Days \ {day}
         PROVE  Held(other)' <= Cardinality(RunsOf(other)')
    <3>1. Held(other)' = Held(other) /\ Held(other) \in Nat
      BY <1>1, <2>9, HeldIsANumber DEF Held, UsedIn, Used, OldMonth
    <3> QED BY <1>1, <3>1, RunsOfStay DEF PeriodsCovered
  <2> QED BY <2>11, <2>12 DEF PeriodsCovered
<1> QED BY <1>2, <1>3

LEMMA CoverStays ==
  ASSUME StableAnchors, AccountsInv, [Next]_vars
  PROVE  PeriodsCovered'
<1>0. FilingInv /\ OneOldMonth /\ PeriodsCovered /\ TypeOK'
  BY IInvKept DEF AccountsInv, FilingInv, IInv
<1>1. CASE UNCHANGED <<allowance, legacy>>
  BY <1>0, <1>1, UnchangedCovers
<1>2. CASE \/ Advance
           \/ \E served \in BOOLEAN : RollSubscription(served)
           \/ \E day \in Start..now : InvoicePaid(StripeEndAfter(day))
           \/ \E e \in Events : Scheduler(e) \/ Expire(e)
  BY <1>0, <1>2, LifeCovers
<1>3. ASSUME NEW q \in Requests, Admission(q)
      PROVE  PeriodsCovered'
  <2>1. legacy' = legacy /\ (allowance' = allowance \/ AdmitNew(q))
    BY <1>3 DEF Admission, Serve, Check, Refuse, PassControls, AdmitKnown, AdmitRolledBack,
                AdmitRefused
  <2> QED BY <1>0, <1>1, <2>1, AdmitNewCovers
<1>4. ASSUME NEW p \in Passes, BeginPass(p) \/ Repair(p) \/ PassDies(p)
      PROVE  PeriodsCovered'
  <2>1. \/ UNCHANGED <<allowance, legacy>>
        \/ \E m \in Months : FoldIntoPeriod(p, m) \/ FoldStraddling(p, m)
        \/ \E day \in Days : RepairRow(p, day)
    BY <1>4 DEF BeginPass, Repair, PassDies, EndPass, LeavePass, Tally, Reread
  <2> QED BY <1>0, <1>1, <2>1, FoldCovers, RepairCovers
<1>5. CASE \/ \E q \in Requests, e \in Events, b \in Payloads :
                Arrive(q, e, b) /\ UNCHANGED <<anchorDay, legacy, pass, deaths>>
           \/ UNCHANGED vars
  BY <1>1, <1>5 DEF Arrive, vars
<1> QED BY <1>2, <1>3, <1>4, <1>5 DEF Next

\* The damage an earlier version left is covered by the runs that did it.
LEMMA InitCovered ==
  ASSUME StableAnchors, Init
  PROVE  OneOldMonth /\ PeriodsCovered
<1>0. /\ FilingInv /\ TypeOK /\ anchorDay \in AnyAnchor /\ periodEnd = StripeEndAfter(Start)
      /\ periodEnd \in Days
  BY FilingInvInit, LedgerAssumption DEF FilingInv, IInv, TypeOK, Init
<1>1. PICK byDay \in SUBSET OldRuns : \E byMonth \in SUBSET (OldRuns \ byDay) :
        \E final \in SUBSET (byDay \cup byMonth), open \in BOOLEAN :
          (byDay # {} => open) /\ DamagedRows(byDay, byMonth, final, open)
  BY DEF Init
<1>2. PICK byMonth \in SUBSET (OldRuns \ byDay), final \in SUBSET OldRuns, open \in BOOLEAN :
        DamagedRows(byDay, byMonth, final, open)
  BY <1>1
<1>3. OldMonth \in Months /\ OneOldMonth
  BY <1>2, OldMonthIsAMonth DEF DamagedRows, OneOldMonth, OldMonth
<1>4. /\ IsFiniteSet(byDay) /\ IsFiniteSet(byMonth) /\ Cardinality(byDay) \in Nat
      /\ Cardinality(byMonth) \in Nat /\ Cardinality(byMonth \cap final) \in Nat
      /\ Cardinality(byMonth \ final) \in Nat
  BY LedgerAssumption, RunsAreFinite
<1>5. Cardinality(byDay \cup byMonth) = Cardinality(byDay) + Cardinality(byMonth)
  <2>1. Cardinality(byDay \cap byMonth) = 0
    <3>1. byDay \cap byMonth = {}
      OBVIOUS
    <3> QED BY <3>1, FS_EmptySet
  <2>2. Cardinality(byDay \cup byMonth)
          = Cardinality(byDay) + Cardinality(byMonth) - Cardinality(byDay \cap byMonth)
    BY <1>4, FS_Union
  <2> QED BY <1>4, <2>1, <2>2
<1>6. RunsOf(periodEnd) = byDay \cup byMonth
  <2>1. \A e \in byDay \cup byMonth : e \in Events /\ Admitted(e) /\ runs[e].period = periodEnd
    <3>1. \A e \in byDay \cup byMonth : e \in Events /\ runs[e] \in Run \cup {NoRun}
      BY <1>0, LedgerAssumption DEF TypeOK
    <3>2. ASSUME NEW e \in byDay \cup byMonth
          PROVE  runs[e] = [payload |-> CHOOSE p \in Payloads : TRUE, created |-> Start,
                    period |-> periodEnd, status |-> IF e \in final THEN "FINAL" ELSE "PENDING"]
      BY <1>2, <3>1, <3>2 DEF DamagedRows
    <3>3. (CHOOSE p \in Payloads : TRUE) \in Payloads /\ Start \in Days
      BY AdmissionAssumption, LedgerAssumption
    <3>4. ASSUME NEW e \in byDay \cup byMonth, NEW b \in Payloads,
                 NEW status \in {"FINAL", "PENDING"},
                 runs[e] = [payload |-> b, created |-> Start, period |-> periodEnd,
                            status |-> status]
          PROVE  runs[e] \in Run /\ runs[e].period = periodEnd
      BY <1>0, <3>3, <3>4 DEF Run
    <3>5. ASSUME NEW e \in byDay \cup byMonth
          PROVE  \E b \in Payloads, status \in {"FINAL", "PENDING"} :
                   runs[e] = [payload |-> b, created |-> Start, period |-> periodEnd,
                              status |-> status]
      BY <3>2, <3>3, <3>5
    <3> QED BY <3>1, <3>4, <3>5, NullAssumption DEF Admitted
  <2>2. \A e \in Events : Admitted(e) => e \in byDay \cup byMonth
    BY <1>2 DEF DamagedRows, Admitted
  <2> QED BY <2>1, <2>2 DEF RunsOf
<1>7. UsedIn(legacy[OldMonth]) = Cardinality(byMonth)
  <2>1. CASE byMonth = {}
    <3>1. legacy[OldMonth] = NoRow /\ Cardinality(byMonth) = 0
      BY <1>2, <1>3, <2>1, FS_EmptySet DEF DamagedRows
    <3> QED BY <3>1 DEF UsedIn
  <2>2. CASE byMonth # {}
    <3>1. legacy[OldMonth] = [consumed |-> Cardinality(byMonth \cap final),
                              reserved |-> Cardinality(byMonth \ final), updated |-> Start]
      BY <1>2, <1>3, <2>2 DEF DamagedRows, OldMonth
    <3>2. legacy[OldMonth] # NoRow
      BY <1>4, <3>1, LedgerAssumption, NullAssumption DEF Row
    <3>3. Cardinality(byMonth \ final) = Cardinality(byMonth) - Cardinality(byMonth \cap final)
      BY <1>4, FS_Difference
    <3> QED BY <1>4, <3>1, <3>2, <3>3 DEF UsedIn, Used
  <2> QED BY <2>1, <2>2
<1>8. UsedIn(allowance[periodEnd]) <= Cardinality(byDay)
      /\ \A day \in Days \ {periodEnd} : UsedIn(allowance[day]) = 0
  BY <1>0, <1>2, <1>4 DEF DamagedRows, UsedIn, Used
<1>9. ASSUME NEW day, OldKeys = {day}
      PROVE  day = periodEnd
  <2>1. /\ day = NextBoundary(anchorDay, FirstDay(OldMonth))
        /\ day = NextBoundary(anchorDay, LastDay(OldMonth))
    BY <1>9 DEF OldKeys, StripeEndAfter
  <2>2. day <= periodEnd /\ periodEnd <= day
    BY <1>0, <2>1, OldMonthIsAMonth, PeriodsAreOrdered DEF StripeEndAfter
  <2>3. day \in Days
    <3>1. FirstDay(OldMonth) <= Reach /\ FirstDay(OldMonth) \in Nat
      BY OldMonthIsAMonth, ClockWithinReach
    <3> QED BY <1>0, <2>1, <3>1, NextIsFirst
  <2> QED BY <1>0, <2>2, <2>3, DaysAreNatural
<1>10. ASSUME NEW day \in Days
       PROVE  Held(day) <= Cardinality(RunsOf(day))
  <2>1. /\ UsedIn(allowance[day]) \in Nat /\ UsedIn(legacy[OldMonth]) \in Nat
        /\ Cardinality(RunsOf(day)) \in Nat
    BY <1>0, HeldIsANumber, RunsAreFinite DEF RunsOf
  <2>2. CASE day = periodEnd
    <3>1. Held(day) <= UsedIn(allowance[day]) + UsedIn(legacy[OldMonth])
      BY <2>1 DEF Held
    <3>2. UsedIn(allowance[day]) + UsedIn(legacy[OldMonth])
            <= Cardinality(byDay) + Cardinality(byMonth)
      BY <1>4, <1>7, <1>8, <2>1, <2>2
    <3>3. Cardinality(RunsOf(day)) = Cardinality(byDay) + Cardinality(byMonth)
      BY <1>5, <1>6, <2>2
    <3>4. Held(day) \in Nat
      BY <1>0, HeldIsANumber
    <3> QED BY <1>4, <2>1, <3>1, <3>2, <3>3, <3>4
  <2>3. CASE day # periodEnd
    <3>1. Held(day) = 0
      BY <1>8, <1>9, <2>3 DEF Held
    <3> QED BY <2>1, <3>1
  <2> QED BY <2>2, <2>3
<1> QED BY <1>3, <1>10 DEF PeriodsCovered

LEMMA AccountsInvInit ==
  ASSUME StableAnchors, Init
  PROVE  AccountsInv
<1>1. \A p \in Passes : pass[p].pc = "idle"
  BY DEF Init, IdlePass
<1> QED BY <1>1, FilingInvInit, InitCovered DEF AccountsInv, CountsAreRuns, FoldsBeforeRepair

LEMMA AccountsInvKept ==
  ASSUME StableAnchors, AccountsInv, [Next]_vars
  PROVE  AccountsInv'
BY FilingInvKept, OneOldMonthStays, CountsStay, FoldsStay, CoverStays DEF AccountsInv

\* For subscriptions anchored on a day that every month has, no period is
\* charged for more runs than were admitted into it, whatever settlements were
\* lost and whatever rows stale repair passes folded or rewrote
\* (money/periodReconciliation.ts:46).
THEOREM NoUnitInvented ==
  ASSUME StableAnchors
  PROVE  Spec => []NeverOvercharged
<1>1. Init => AccountsInv
  BY AccountsInvInit
<1>2. AccountsInv /\ [Next]_vars => AccountsInv'
  BY AccountsInvKept
<1>3. AccountsInv => NeverOvercharged
  <2>1. ASSUME AccountsInv, NEW day \in OpenDays
        PROVE  Used(allowance[day]) <= Cardinality(RunsOf(day))
    <3>1. day \in Days /\ UsedIn(allowance[day]) = Used(allowance[day])
      BY DEF OpenDays, UsedIn
    <3>2. /\ UsedIn(allowance[day]) \in Nat /\ UsedIn(legacy[OldMonth]) \in Nat
          /\ Cardinality(RunsOf(day)) \in Nat
      BY <2>1, <3>1, HeldIsANumber, RunsAreFinite DEF AccountsInv, FilingInv, IInv, RunsOf
    <3>3. Held(day) <= Cardinality(RunsOf(day))
      BY <2>1, <3>1 DEF AccountsInv, PeriodsCovered
    <3> QED BY <3>1, <3>2, <3>3 DEF Held
  <2> QED BY <2>1 DEF NeverOvercharged
<1> QED BY <1>1, <1>2, <1>3, PTL DEF Spec
-----------------------------------------------------------------------------
(* What was spent is never returned *)

\* What a period holds as consumed, the sum over its months written out.
Spent(day) ==
  Consumed(allowance[day]) + (IF OldKeys = {day} THEN Consumed(legacy[OldMonth]) ELSE 0)

\* A row a pass has read under a month is as it was, or gone.
RowsAsRead ==
  \A p \in Passes, m \in Months : pass[p].pc \in {"tally", "fold"} /\ legacy[m] # NoRow =>
    pass[p].old[m] = legacy[m]

SpendInv == FilingInv /\ OneOldMonth /\ RowsAsRead

\* The sum over no month, and over one.
LEMMA SumOverNone ==
  MapThenSumSet(LAMBDA m : Consumed(legacy[m]), {}) = 0
<1> DEFINE Sums(f) == f = [s \in SUBSET {} |->
             IF s = {} THEN 0
             ELSE Consumed(legacy[CHOOSE x \in s : TRUE]) + f[s \ {CHOOSE x \in s : TRUE}]]
<1>1. MapThenSumSet(LAMBDA m : Consumed(legacy[m]), {}) = (CHOOSE f : Sums(f))[{}]
  BY Zenon DEF MapThenSumSet, MapThenFoldSet
<1>2. Sums([s \in SUBSET {} |-> 0])
  BY SMT
<1>3. \A f : Sums(f) => f[{}] = 0
  BY SMT
<1> HIDE DEF Sums
<1>4. Sums(CHOOSE f : Sums(f))
  BY <1>2, Zenon
<1> QED BY <1>1, <1>3, <1>4

LEMMA SumOverOne ==
  ASSUME NEW k, Consumed(legacy[k]) \in Nat
  PROVE  MapThenSumSet(LAMBDA m : Consumed(legacy[m]), {k}) = Consumed(legacy[k])
<1> DEFINE Sums(f) == f = [s \in SUBSET {k} |->
             IF s = {} THEN 0
             ELSE Consumed(legacy[CHOOSE x \in s : TRUE]) + f[s \ {CHOOSE x \in s : TRUE}]]
<1>1. MapThenSumSet(LAMBDA m : Consumed(legacy[m]), {k}) = (CHOOSE f : Sums(f))[{k}]
  BY Zenon DEF MapThenSumSet, MapThenFoldSet
<1>2. SUBSET {k} = {{}, {k}} /\ (CHOOSE x \in {k} : TRUE) = k
  BY SMT
<1>3. Sums([s \in SUBSET {k} |-> IF s = {} THEN 0 ELSE Consumed(legacy[k])])
  BY <1>2, SMT
<1>4. \A f : Sums(f) => f[{k}] = Consumed(legacy[k])
  BY <1>2, SMT
<1> HIDE DEF Sums
<1>5. Sums(CHOOSE f : Sums(f))
  BY <1>3, Zenon
<1> QED BY <1>1, <1>4, <1>5

LEMMA SpentIsANumber ==
  ASSUME TypeOK, NEW day \in Days
  PROVE  /\ Consumed(allowance[day]) \in Nat /\ Consumed(legacy[OldMonth]) \in Nat
         /\ Spent(day) \in Nat
<1>1. allowance[day] \in Row \cup {NoRow} /\ legacy[OldMonth] \in Row \cup {NoRow}
  BY OldMonthIsAMonth DEF TypeOK
<1>2. Consumed(allowance[day]) \in Nat /\ Consumed(legacy[OldMonth]) \in Nat
  BY <1>1, RowFields DEF Consumed
<1> QED BY <1>2 DEF Spent

\* With one old month, its row is the only one to add.
LEMMA SpentIsConsumed ==
  ASSUME FilingInv, OneOldMonth
  PROVE  \A day \in Days : ConsumedIn(day) = Spent(day)
<1>1. /\ TypeOK /\ OldMonth \in Months
      /\ CandidateKeys(OldMonth, periodEnd) = OldKeys
  BY OldMonthIsAMonth
     DEF FilingInv, IInv, AnchorKept, OldKeys, StripeEndAfter, CandidateKeys, KeyAt
<1> SUFFICES ASSUME NEW day \in Days PROVE ConsumedIn(day) = Spent(day)
  OBVIOUS
<1> DEFINE within == {m \in LegacyMonths : CandidateKeys(m, periodEnd) = {day}}
           sum(S) == MapThenSumSet(LAMBDA m : Consumed(legacy[m]), S)
<1>2. ConsumedIn(day) = Consumed(allowance[day]) + sum(within)
  BY Zenon DEF ConsumedIn
<1>3. Consumed(allowance[day]) \in Nat /\ Consumed(legacy[OldMonth]) \in Nat
  BY <1>1, SpentIsANumber
<1>4. CASE legacy[OldMonth] # NoRow /\ OldKeys = {day}
  <2>1. within = {OldMonth}
    BY <1>1, <1>4 DEF LegacyMonths, OneOldMonth
  <2>2. sum(within) = Consumed(legacy[OldMonth])
    <3>1. sum({OldMonth}) = Consumed(legacy[OldMonth])
      BY <1>3, SumOverOne
    <3> HIDE DEF sum, within
    <3> QED BY <2>1, <3>1
  <2> HIDE DEF sum
  <2> QED BY <1>2, <1>4, <2>2 DEF Spent
<1>5. CASE ~(legacy[OldMonth] # NoRow /\ OldKeys = {day})
  <2>1. within = {}
    BY <1>1, <1>5 DEF LegacyMonths, OneOldMonth
  <2>2. sum(within) = 0
    <3>1. sum({}) = 0
      BY SumOverNone
    <3> HIDE DEF sum, within
    <3> QED BY <2>1, <3>1
  <2>3. (IF OldKeys = {day} THEN Consumed(legacy[OldMonth]) ELSE 0) = 0
    BY <1>5 DEF Consumed
  <2> HIDE DEF sum
  <2> QED BY <1>2, <2>2, <2>3 DEF Spent
<1> QED BY <1>4, <1>5

LEMMA RowsAsReadStay ==
  ASSUME FilingInv, RowsAsRead, [Next]_vars
  PROVE  RowsAsRead'
<1>0. TypeOK /\ \A m \in Months : legacy'[m] # NoRow => legacy'[m] = legacy[m]
  BY LegacySteps DEF FilingInv, IInv
<1>1. ASSUME NEW p \in Passes, BeginPass(p) \/ Repair(p) \/ PassDies(p),
             pass'[p].pc \in {"tally", "fold"}
      PROVE  \/ pass'[p].old = legacy
             \/ pass[p].pc \in {"tally", "fold"} /\ pass'[p].old = pass[p].old
  <2>1. CASE BeginPass(p)
    BY <1>0, <2>1 DEF BeginPass, TypeOK
  <2>2. ASSUME NEW seen \in SUBSET Events, Tally(p, seen)
        PROVE  pass[p].pc \in {"tally", "fold"} /\ pass'[p].old = pass[p].old
    BY <1>0, <2>2 DEF Tally, TypeOK
  <2>3. ASSUME NEW m \in Months, FoldIntoPeriod(p, m) \/ FoldStraddling(p, m)
        PROVE  pass[p].pc \in {"tally", "fold"} /\ pass'[p].old = pass[p].old
    <3> DEFINE s == [pass[p] EXCEPT !.months = @ \ {m}]
    <3>1. pass[p].pc = "fold" /\ pass' = [pass EXCEPT ![p] = s]
      BY <2>3 DEF FoldIntoPeriod, FoldStraddling, Folded
    <3>2. pass[p] \in PassStates /\ s.old = pass[p].old
      BY <1>0, <3>1 DEF PassStates, TypeOK
    <3> HIDE DEF s
    <3> QED BY <1>0, <3>1, <3>2 DEF TypeOK
  <2>4. CASE \/ EndPass(p) \/ PassDies(p) \/ Reread(p)
             \/ \E day \in Days : RepairRow(p, day)
    <3>1. pass'[p].pc \in {"idle", "repair"}
      <4>1. CASE EndPass(p) \/ PassDies(p)
        BY <1>0, <4>1 DEF EndPass, PassDies, LeavePass, IdlePass, TypeOK
      <4>2. CASE Reread(p)
        BY <1>0, <4>2 DEF Reread, TypeOK
      <4>3. ASSUME NEW day \in Days, RepairRow(p, day)
            PROVE  pass'[p].pc = "repair"
        <5> DEFINE s == [pass[p] EXCEPT !.days = @ \ {day}]
        <5>1. pass[p].pc = "repair" /\ pass' = [pass EXCEPT ![p] = s]
          BY <4>3 DEF RepairRow
        <5>2. pass[p] \in PassStates /\ s.pc = "repair"
          BY <1>0, <5>1 DEF PassStates, TypeOK
        <5> HIDE DEF s
        <5> QED BY <1>0, <5>1, <5>2 DEF TypeOK
      <4> QED BY <2>4, <4>1, <4>2, <4>3
    <3> QED BY <1>1, <3>1
  <2> QED BY <1>1, <2>1, <2>2, <2>3, <2>4 DEF Repair
<1>2. CASE \E p \in Passes : BeginPass(p) \/ Repair(p) \/ PassDies(p)
  <2>1. PICK p \in Passes : BeginPass(p) \/ Repair(p) \/ PassDies(p)
    BY <1>2
  <2>2. \A other \in Passes \ {p} : pass'[other] = pass[other]
    BY <1>0, <2>1, PassSteps
  <2>3. ASSUME NEW m \in Months, pass'[p].pc \in {"tally", "fold"}, legacy'[m] # NoRow
        PROVE  pass'[p].old[m] = legacy'[m]
    BY <1>0, <1>1, <2>1, <2>3 DEF RowsAsRead
  <2> QED BY <1>0, <2>2, <2>3 DEF RowsAsRead
<1>3. CASE ~(\E p \in Passes : BeginPass(p) \/ Repair(p) \/ PassDies(p))
  BY <1>3, OtherSteps DEF RowsAsRead
<1> QED BY <1>2, <1>3

\* A step that only rewrites one row, and does not lower what it has consumed.
LEMMA RowKeepsItsUnits ==
  ASSUME FilingInv, TypeOK', OldKeys' = OldKeys, legacy' = legacy, NEW key, NEW row,
         Consumed(allowance[key]) <= Consumed(row),
         allowance' = [allowance EXCEPT ![key] = row]
  PROVE  \A day \in Days : Spent(day) <= Spent(day)'
<1>1. TypeOK
  BY DEF FilingInv, IInv
<1> SUFFICES ASSUME NEW day \in Days PROVE Spent(day) <= Spent(day)'
  OBVIOUS
<1>2. /\ Consumed(allowance[day]) \in Nat /\ Consumed(legacy[OldMonth]) \in Nat
      /\ Consumed(allowance'[day]) \in Nat
  <2>1. allowance'[day] \in Row \cup {NoRow}
    BY DEF TypeOK
  <2> QED BY <1>1, <2>1, SpentIsANumber, RowFields DEF Consumed
<1>3. Consumed(allowance[day]) <= Consumed(allowance'[day])
  <2>1. CASE day = key
    BY <1>1, <2>1 DEF TypeOK
  <2>2. CASE day # key
    <3>1. allowance'[day] = allowance[day]
      BY <1>1, <2>2 DEF TypeOK
    <3> QED BY <1>2, <3>1
  <2> QED BY <2>1, <2>2
<1>4. Spent(day)' = Consumed(allowance'[day])
                      + (IF OldKeys = {day} THEN Consumed(legacy[OldMonth]) ELSE 0)
  BY DEF Spent, Consumed, OldMonth
<1> QED BY <1>2, <1>3, <1>4 DEF Spent

LEMMA UntouchedKeepsItsUnits ==
  ASSUME FilingInv, OldKeys' = OldKeys, allowance' = allowance, legacy' = legacy
  PROVE  \A day \in Days : Spent(day) <= Spent(day)'
<1>1. \A day \in Days : Spent(day)' = Spent(day) /\ Spent(day) \in Nat
  BY SpentIsANumber DEF FilingInv, IInv, Spent, Consumed, OldMonth
<1> QED BY <1>1

\* Opening a period keeps what it has consumed, and a settlement adds to it.
LEMMA LifeKeepsUnits ==
  ASSUME FilingInv, TypeOK', OldKeys' = OldKeys,
         \/ Advance
         \/ \E served \in BOOLEAN : RollSubscription(served)
         \/ \E day \in Start..now : InvoicePaid(StripeEndAfter(day))
         \/ \E e \in Events : Scheduler(e) \/ Expire(e)
  PROVE  \A day \in Days : Spent(day) <= Spent(day)'
<1> DEFINE Goal == \A day \in Days : Spent(day) <= Spent(day)'
<1>0. /\ TypeOK /\ anchorDay \in AnyAnchor /\ now \in Nat /\ now <= MaxDay /\ Start \in Nat
      /\ MaxDay \in Nat
  BY LedgerAssumption, DaysAreNatural DEF FilingInv, IInv, TypeOK, Clock
<1>1. ASSUME NEW key \in Days, legacy' = legacy,
             allowance' = [allowance EXCEPT ![key] = Opened(@)]
      PROVE  Goal
  <2>1. Consumed(allowance[key]) <= Consumed(Opened(allowance[key]))
    <3>1. CASE allowance[key] = NoRow
      <4>1. Opened(allowance[key]) \in Row
        BY <1>0, <3>1 DEF Opened, Row, TypeOK
      <4>2. Consumed(allowance[key]) = 0 /\ Consumed(Opened(allowance[key])) \in Nat
        BY <3>1, <4>1, RowFields DEF Consumed
      <4> QED BY <4>2
    <3>2. CASE allowance[key] # NoRow
      <4>1. allowance[key] \in Row
        BY <1>0, <1>1, <3>2 DEF TypeOK
      <4>2. /\ Opened(allowance[key]) \in Row
            /\ Opened(allowance[key]).consumed = allowance[key].consumed
            /\ allowance[key].consumed \in Nat
        BY <1>0, <3>2, <4>1 DEF Opened, Row, TypeOK
      <4> QED BY <3>2, <4>2, NullAssumption DEF Consumed
    <3> QED BY <3>1, <3>2
  <2>2. allowance' = [allowance EXCEPT ![key] = Opened(allowance[key])]
    BY <1>0, <1>1 DEF TypeOK
  <2> QED BY <1>1, <2>1, <2>2, RowKeepsItsUnits
<1>2. CASE Advance \/ \E e \in Events : Decide(e) \/ LoseSettlement(e) \/ Expire(e)
  BY <1>2, UntouchedKeepsItsUnits DEF Advance, Decide, LoseSettlement, Expire
<1>3. ASSUME NEW served \in BOOLEAN, RollSubscription(served)
      PROVE  Goal
  <2>1. StripeEndAfter(now) \in Days
    BY <1>0, BoundaryFollows DEF StripeEndAfter
  <2> QED BY <1>1, <1>3, <2>1, UntouchedKeepsItsUnits DEF RollSubscription
<1>4. ASSUME NEW day \in Start..now, InvoicePaid(StripeEndAfter(day))
      PROVE  Goal
  <2>1. StripeEndAfter(day) \in Days
    BY <1>0, BoundaryFollows DEF StripeEndAfter
  <2> QED BY <1>1, <1>4, <2>1 DEF InvoicePaid
<1>5. ASSUME NEW e \in Events, Settle(e)
      PROVE  Goal
  <2>1. CASE allowance' = allowance
    BY <1>5, <2>1, UntouchedKeepsItsUnits DEF Settle
  <2>2. CASE allowance' # allowance
    <3>1. PICK key : /\ allowance[key] # NoRow
                     /\ allowance' = [allowance EXCEPT ![key] = SettledRow(@)]
      BY <1>5, <2>2 DEF Settle
    <3>2. key \in Days
      <4>1. SUFFICES ASSUME key \notin Days PROVE allowance' = allowance
        BY <2>2
      <4>2. allowance \in [Days -> Row \cup {NoRow}] /\ allowance' \in [Days -> Row \cup {NoRow}]
        BY <1>0 DEF TypeOK
      <4>3. \A day \in Days : allowance'[day] = allowance[day]
        BY <3>1, <4>1, <4>2
      <4> QED BY <4>2, <4>3
    <3>3. PICK row \in Row : row = allowance[key]
      BY <1>0, <3>1, <3>2 DEF TypeOK
    <3>4. allowance' = [allowance EXCEPT ![key] = SettledRow(row)]
      BY <1>0, <3>1, <3>2, <3>3 DEF TypeOK
    <3>5. SettledRow(row) \in Row /\ row.consumed <= SettledRow(row).consumed
      BY <1>0, RowFields, DaysAreNatural DEF SettledRow, Row, TypeOK
    <3>6. Consumed(allowance[key]) <= Consumed(SettledRow(row))
      BY <3>3, <3>5, NullAssumption DEF Consumed
    <3> QED BY <1>5, <3>4, <3>6, RowKeepsItsUnits DEF Settle
  <2> QED BY <2>1, <2>2
<1> QED BY <1>2, <1>3, <1>4, <1>5 DEF Scheduler

LEMMA AdmitNewKeepsUnits ==
  ASSUME FilingInv, TypeOK', OldKeys' = OldKeys, legacy' = legacy, NEW q \in Requests, AdmitNew(q)
  PROVE  \A day \in Days : Spent(day) <= Spent(day)'
<1>1. TypeOK /\ request[q].key \in Days /\ request[q].at \in Days /\ allowance[request[q].key] # NoRow
  BY RequestFields DEF FilingInv, IInv, TypeOK, AdmitNew
<1>2. PICK key \in Days, at \in Days, row \in Row :
        key = request[q].key /\ at = request[q].at /\ row = allowance[key]
  BY <1>1 DEF TypeOK
<1> DEFINE new == [consumed |-> row.consumed, reserved |-> row.reserved + 1, updated |-> at]
<1>3. allowance' = [allowance EXCEPT ![key] = new]
  BY <1>2 DEF AdmitNew
<1>4. new \in Row /\ new.consumed = row.consumed /\ row.consumed \in Nat
  BY RowFields DEF Row
<1> HIDE DEF new
<1>5. Consumed(allowance[key]) <= Consumed(new)
  BY <1>2, <1>4, NullAssumption DEF Consumed
<1> QED BY <1>3, <1>5, RowKeepsItsUnits

\* A fold moves what the old month consumed into its period: the row a rename
\* addresses is as the pass has read it.
LEMMA FoldKeepsUnits ==
  ASSUME SpendInv, StableAnchors, [Next]_vars, TypeOK',
         NEW p \in Passes, NEW m \in Months, FoldIntoPeriod(p, m) \/ FoldStraddling(p, m)
  PROVE  \A day \in Days : Spent(day) <= Spent(day)'
<1>1. /\ FilingInv /\ OneOldMonth /\ RowsAsRead /\ TypeOK /\ OldKeys' = OldKeys
      /\ OldMonth \in Months /\ pass[p].pc = "fold"
      /\ CandidateKeys(OldMonth, pass[p].anchor) = OldKeys
  BY OldKeysFixed, OldMonthIsAMonth
     DEF SpendInv, FilingInv, IInv, FoldIntoPeriod, FoldStraddling, Folded
<1>2. ASSUME NEW day \in Days
      PROVE  /\ Spent(day)' = Consumed(allowance'[day])
                  + (IF OldKeys = {day} THEN Consumed(legacy'[OldMonth]) ELSE 0)
             /\ Consumed(allowance[day]) \in Nat /\ Consumed(legacy[OldMonth]) \in Nat
             /\ Consumed(allowance'[day]) \in Nat /\ Consumed(legacy'[OldMonth]) \in Nat
  <2>1. allowance'[day] \in Row \cup {NoRow} /\ legacy'[OldMonth] \in Row \cup {NoRow}
    BY <1>1 DEF TypeOK
  <2>2. Consumed(allowance'[day]) \in Nat /\ Consumed(legacy'[OldMonth]) \in Nat
    BY <2>1, RowFields DEF Consumed
  <2> QED BY <1>1, <2>2, SpentIsANumber DEF Spent, Consumed, OldMonth
<1>3. ASSUME allowance' = allowance, ~(\E day : OldKeys = {day}) \/ legacy'[OldMonth] = legacy[OldMonth]
      PROVE  \A day \in Days : Spent(day) <= Spent(day)'
  <2>1. ASSUME NEW day \in Days PROVE Spent(day)' = Spent(day) /\ Spent(day) \in Nat
    BY <1>1, <1>2, <1>3, SpentIsANumber DEF Spent
  <2> QED BY <2>1
<1>4. CASE FoldStraddling(p, m)
  <2>1. CASE m = OldMonth
    <3>1. Cardinality(OldKeys) = 2
      BY <1>1, <1>4, <2>1 DEF FoldStraddling
    <3>2. ASSUME NEW day PROVE OldKeys # {day}
      <4>1. OldKeys = {day} => Cardinality(OldKeys) = 1
        BY FS_Singleton
      <4> QED BY <3>1, <4>1
    <3> QED BY <1>3, <1>4, <3>2 DEF FoldStraddling
  <2>2. CASE m # OldMonth
    <3>1. legacy'[OldMonth] = legacy[OldMonth]
      BY <1>1, <1>4, <2>2 DEF FoldStraddling, TypeOK
    <3> QED BY <1>3, <1>4, <3>1 DEF FoldStraddling
  <2> QED BY <2>1, <2>2
<1>5. CASE FoldIntoPeriod(p, m) /\ legacy[m] = NoRow
  <2>1. allowance' = allowance /\ legacy' = [legacy EXCEPT ![m] = NoRow]
    BY <1>5 DEF FoldIntoPeriod, Renames, Merges
  <2>2. legacy'[OldMonth] = legacy[OldMonth]
    BY <1>1, <1>5, <2>1 DEF TypeOK
  <2> QED BY <1>3, <2>1, <2>2
<1>6. CASE FoldIntoPeriod(p, m) /\ legacy[m] # NoRow
  <2>1. m = OldMonth /\ pass[p].old[m] = legacy[m]
    BY <1>1, <1>6 DEF OneOldMonth, RowsAsRead
  <2>2. PICK key \in OldKeys :
          /\ OldKeys = {key}
          /\ allowance' =
               IF Renames(p, m, key)
               THEN [allowance EXCEPT ![key] = [legacy[m] EXCEPT !.updated = pass[p].at]]
               ELSE IF Merges(m, key)
               THEN [allowance EXCEPT ![key] = MergedRow(@, legacy[m], pass[p].at)]
               ELSE allowance
    BY <1>1, <1>6, <2>1 DEF FoldIntoPeriod
  <2>3. key \in Days
    <3>1. /\ anchorDay \in AnyAnchor /\ LastDay(OldMonth) \in Nat /\ LastDay(OldMonth) <= Reach
          /\ key = NextBoundary(anchorDay, LastDay(OldMonth))
      BY <1>1, <2>2, LedgerAssumption, OldMonthIsAMonth DEF TypeOK, OldKeys, StripeEndAfter
    <3> QED BY <3>1, NextIsFirst
  <2>4. PICK old \in Row, at \in Days : old = legacy[m] /\ at = pass[p].at /\ old # NoRow
    BY <1>1, <1>6, PassFields DEF TypeOK
  <2>5. /\ Consumed(legacy[OldMonth]) = old.consumed /\ old.consumed \in Nat
        /\ OldKeys = {key} => Consumed(legacy'[OldMonth]) \in Nat
    BY <1>2, <2>1, <2>3, <2>4, RowFields DEF Consumed
  <2>6. Consumed(allowance'[key]) = Consumed(allowance[key]) + old.consumed
    <3>1. CASE allowance[key] = NoRow
      <4>1. Renames(p, m, key)
        BY <1>6, <2>1, <3>1 DEF Renames
      <4>2. allowance'[key] = [old EXCEPT !.updated = at]
        BY <1>1, <2>2, <2>3, <2>4, <4>1 DEF TypeOK
      <4>3. [old EXCEPT !.updated = at] \in Row /\ [old EXCEPT !.updated = at].consumed = old.consumed
        BY DEF Row
      <4> QED BY <2>5, <3>1, <4>2, <4>3, NullAssumption DEF Consumed
    <3>2. CASE allowance[key] # NoRow
      <4>1. ~Renames(p, m, key) /\ Merges(m, key)
        BY <1>6, <3>2 DEF Renames, Merges
      <4>2. PICK row \in Row : row = allowance[key]
        BY <1>1, <2>3, <3>2 DEF TypeOK
      <4>3. allowance'[key] = MergedRow(row, old, at)
        BY <1>1, <2>2, <2>3, <2>4, <4>1, <4>2 DEF TypeOK
      <4>4. /\ MergedRow(row, old, at) \in Row
            /\ MergedRow(row, old, at).consumed = row.consumed + old.consumed
        BY RowFields DEF MergedRow, Row
      <4> QED BY <3>2, <4>2, <4>3, <4>4, NullAssumption DEF Consumed
    <3> QED BY <3>1, <3>2
  <2>7. ASSUME NEW day \in Days
        PROVE  Spent(day) <= Spent(day)'
    <3>1. CASE day = key
      BY <1>2, <2>2, <2>5, <2>6, <3>1 DEF Spent
    <3>2. CASE day # key
      <4>1. allowance'[day] = allowance[day]
        BY <1>1, <2>2, <2>3, <3>2 DEF TypeOK
      <4> QED BY <1>2, <2>2, <3>2, <4>1 DEF Spent
    <3> QED BY <3>1, <3>2
  <2> QED BY <2>7
<1> QED BY <1>4, <1>5, <1>6

\* A repair only writes over the row it has read, and only raises its consumed.
LEMMA RepairKeepsUnits ==
  ASSUME FilingInv, TypeOK', OldKeys' = OldKeys,
         NEW p \in Passes, NEW day \in Days, RepairRow(p, day)
  PROVE  \A any \in Days : Spent(any) <= Spent(any)'
<1>1. TypeOK /\ legacy' = legacy /\ pass[p].at \in Days
      /\ pass[p].terminal \subseteq Events /\ pass[p].pending \subseteq Events
  BY PassFields DEF FilingInv, IInv, TypeOK, RepairRow
<1>2. CASE allowance' = allowance
  BY <1>1, <1>2, UntouchedKeepsItsUnits
<1>3. CASE allowance' # allowance
  <2> DEFINE T == Cardinality(OfPeriod(p, pass[p].terminal, day))
             P == Cardinality(OfPeriod(p, pass[p].pending, day))
  <2>1. /\ allowance[day] # NoRow
        /\ allowance' = [allowance EXCEPT ![day] = Repaired(allowance[day], T, P, pass[p].at)]
    BY <1>3 DEF RepairRow, Unmoved
  <2>2. T \in Nat /\ P \in Nat
    <3>1. /\ OfPeriod(p, pass[p].terminal, day) \subseteq Events
          /\ OfPeriod(p, pass[p].pending, day) \subseteq Events
      BY <1>1 DEF OfPeriod
    <3> QED BY <3>1, RunsAreFinite
  <2> HIDE DEF T, P
  <2>3. PICK row \in Row, at \in Days : row = allowance[day] /\ at = pass[p].at
    BY <1>1, <2>1 DEF TypeOK
  <2>4. Repaired(row, T, P, at) \in Row /\ row.consumed <= Repaired(row, T, P, at).consumed
    BY <2>2, RowFields DEF Repaired, Larger, Smaller, Row
  <2>5. Consumed(allowance[day]) <= Consumed(Repaired(row, T, P, at))
    BY <2>3, <2>4, NullAssumption DEF Consumed
  <2> QED BY <1>1, <2>1, <2>3, <2>5, RowKeepsItsUnits
<1> QED BY <1>2, <1>3

LEMMA UnitsKept ==
  ASSUME StableAnchors, SpendInv, [Next]_vars
  PROVE  \A day \in Days : Spent(day) <= Spent(day)'
<1> DEFINE Goal == \A day \in Days : Spent(day) <= Spent(day)'
<1>0. FilingInv /\ TypeOK' /\ OldKeys' = OldKeys
  BY IInvKept, OldKeysFixed DEF SpendInv, FilingInv, IInv
<1>1. CASE UNCHANGED <<allowance, legacy>>
  BY <1>0, <1>1, UntouchedKeepsItsUnits
<1>2. CASE \/ Advance
           \/ \E served \in BOOLEAN : RollSubscription(served)
           \/ \E day \in Start..now : InvoicePaid(StripeEndAfter(day))
           \/ \E e \in Events : Scheduler(e) \/ Expire(e)
  BY <1>0, <1>2, LifeKeepsUnits
<1>3. ASSUME NEW q \in Requests, Admission(q)
      PROVE  Goal
  <2>1. legacy' = legacy /\ (allowance' = allowance \/ AdmitNew(q))
    BY <1>3 DEF Admission, Serve, Check, Refuse, PassControls, AdmitKnown, AdmitRolledBack,
                AdmitRefused
  <2> QED BY <1>0, <1>1, <2>1, AdmitNewKeepsUnits
<1>4. ASSUME NEW p \in Passes, BeginPass(p) \/ Repair(p) \/ PassDies(p)
      PROVE  Goal
  <2>1. \/ UNCHANGED <<allowance, legacy>>
        \/ \E m \in Months : FoldIntoPeriod(p, m) \/ FoldStraddling(p, m)
        \/ \E day \in Days : RepairRow(p, day)
    BY <1>4 DEF BeginPass, Repair, PassDies, EndPass, LeavePass, Tally, Reread
  <2> QED BY <1>0, <1>1, <2>1, FoldKeepsUnits, RepairKeepsUnits
<1>5. CASE \/ \E q \in Requests, e \in Events, b \in Payloads :
                Arrive(q, e, b) /\ UNCHANGED <<anchorDay, legacy, pass, deaths>>
           \/ UNCHANGED vars
  BY <1>1, <1>5 DEF Arrive, vars
<1> QED BY <1>2, <1>3, <1>4, <1>5 DEF Next

\* For subscriptions anchored on a day that every month has, a unit that was
\* spent is never returned: no merge, rename, drop, repair, renewal or
\* retention sweep lowers what a period has consumed, in its own row and in the
\* old month's that lies within it (money/periodReconciliation.ts:46,
\* db/allowanceRepair.ts:194).
THEOREM SpentUnitsStay ==
  ASSUME StableAnchors
  PROVE  Spec => NeverReturned
<1> DEFINE Agree == \A day \in Days : ConsumedIn(day) = Spent(day)
           StillSpent == \A day \in OpenDays \cup UNION {CandidateKeys(m, periodEnd) : m \in LegacyMonths} :
                     ConsumedIn(day)' >= ConsumedIn(day)
<1>1. Init => SpendInv
  <2>1. ASSUME Init PROVE \A p \in Passes : pass[p].pc = "idle"
    BY <2>1 DEF Init, IdlePass
  <2> QED BY <2>1, FilingInvInit, InitCovered DEF SpendInv, RowsAsRead
<1>2. SpendInv /\ [Next]_vars => SpendInv'
  BY FilingInvKept, OneOldMonthStays, RowsAsReadStay DEF SpendInv
<1>3. SpendInv => Agree
  BY SpentIsConsumed DEF SpendInv
<1>4. ASSUME SpendInv, Agree, Agree', [Next]_vars
      PROVE  StillSpent
  <2>1. ASSUME NEW m \in LegacyMonths PROVE CandidateKeys(m, periodEnd) \subseteq Days
    <3>1. m = OldMonth /\ CandidateKeys(OldMonth, periodEnd) = OldKeys /\ anchorDay \in AnyAnchor
      BY <1>4, OldKeysFixed, LedgerAssumption
         DEF SpendInv, FilingInv, IInv, TypeOK, OneOldMonth, LegacyMonths
    <3>2. /\ FirstDay(OldMonth) \in Nat /\ LastDay(OldMonth) \in Nat
          /\ FirstDay(OldMonth) <= Reach /\ LastDay(OldMonth) <= Reach
      BY OldMonthIsAMonth, ClockWithinReach
    <3>3. StripeEndAfter(FirstDay(OldMonth)) \in Days /\ StripeEndAfter(LastDay(OldMonth)) \in Days
      BY <3>1, <3>2, NextIsFirst DEF StripeEndAfter
    <3> QED BY <3>1, <3>3 DEF OldKeys
  <2>2. \A day \in OpenDays \cup UNION {CandidateKeys(m, periodEnd) : m \in LegacyMonths} : day \in Days
    BY <2>1 DEF OpenDays
  <2>3. ASSUME NEW day \in Days PROVE ConsumedIn(day)' >= ConsumedIn(day)
    <3>1. ConsumedIn(day)' = Spent(day)' /\ ConsumedIn(day) = Spent(day)
      BY <1>4
    <3>2. Spent(day) <= Spent(day)'
      BY <1>4, UnitsKept
    <3> QED BY <3>1, <3>2
  <2> QED BY <2>2, <2>3
<1>5. Agree /\ Agree' /\ SpendInv /\ [Next]_vars => [StillSpent]_vars
  BY <1>4
<1> QED BY <1>1, <1>2, <1>3, <1>5, PTL DEF Spec, NeverReturned
=============================================================================
