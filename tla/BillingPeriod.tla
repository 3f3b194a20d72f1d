---------------------------- MODULE BillingPeriod ----------------------------
(***************************************************************************)
(* billing/period.ts: the key an allowance period is stored under is the   *)
(* day the paid period ends, and the period a run belongs to is found by   *)
(* walking the billing boundaries of the subscription's current period     *)
(* end.  Days are numbered from 1 through the months of MonthStart, and a  *)
(* boundary falls at the start of its day.                                 *)
(***************************************************************************)
EXTENDS Naturals, Sequences

CONSTANT
  MonthStart   \* the days that precede each month of the calendar, and its end

Months == 1..(Len(MonthStart) - 1)

ASSUME CalendarAssumption ==
  /\ MonthStart \in Seq(Nat)
  /\ \A i, j \in 1..Len(MonthStart) : i < j => MonthStart[i] < MonthStart[j]

FirstDay(m)    == MonthStart[m] + 1
LastDay(m)     == MonthStart[m + 1]
MonthLength(m) == MonthStart[m + 1] - MonthStart[m]
Days           == UNION {FirstDay(m)..LastDay(m) : m \in Months}

MonthOf    == [day \in Days |-> CHOOSE m \in Months : day \in FirstDay(m)..LastDay(m)]
DayOfMonth == [day \in Days |-> day - MonthStart[MonthOf[day]]]
AnyAnchor  == {DayOfMonth[day] : day \in Days}

\* boundaryAt: the anchor's day, clamped into the month.
Boundary(anchorDay, m) ==
  IF anchorDay <= MonthLength(m) THEN MonthStart[m] + anchorDay ELSE LastDay(m)

Boundaries == [anchorDay \in AnyAnchor |-> {Boundary(anchorDay, m) : m \in Months}]

\* The first boundary strictly after an instant.
NextBoundary(anchorDay, at) ==
  LET later == Boundaries[anchorDay] \ 0..at
  IN  CHOOSE b \in later : \A c \in later : b <= c

\* allowancePeriodKeyAt: the period that contained an instant, counted from
\* whatever period end the subscription holds now.  The anchor's day is read
\* off that end.
KeyAt(at, currentPeriodEnd) == NextBoundary(DayOfMonth[currentPeriodEnd], at)

\* candidateKeysForMonth: the paid periods a calendar month overlaps.
CandidateKeys(m, currentPeriodEnd) ==
  {KeyAt(FirstDay(m), currentPeriodEnd), KeyAt(LastDay(m), currentPeriodEnd)}
=============================================================================
