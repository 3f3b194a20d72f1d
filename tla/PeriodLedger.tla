----------------------------- MODULE PeriodLedger -----------------------------
(***************************************************************************)
(* What moves a period's allowance: admissions reserve, the scheduler      *)
(* settles, renewals open the next row, retention forgets old runs, and    *)
(* money/periodReconciliation.ts repairs the counters against the runs     *)
(* while all of that goes on.                                              *)
(***************************************************************************)
EXTENDS EventAdmission, FiniteSetsExt

CONSTANTS
  Passes,      \* invocations that may be inside the repair at once
  OldRuns,     \* events admitted while the period key had two spellings
  AnchorDays,  \* days of the month a subscription may be anchored on
  Start,       \* the first day
  MaxDay,      \* bound: the clock stops here
  Retention,   \* days a run is kept
  ScanLimit,   \* DEFAULT_RUN_SCAN_LIMIT
  MaxDeaths    \* bound on repair passes killed midway

\* The last instant whose period is asked for: a month is filed by its last day.
Reach == LastDay(MonthOf[MaxDay])

ASSUME LedgerAssumption ==
  /\ OldRuns \subseteq Events
  /\ Start \in Days /\ MaxDay \in Days /\ Start <= MaxDay
  /\ AnchorDays \subseteq AnyAnchor
  /\ \A anchor \in AnyAnchor : Boundaries[anchor] \ 0..Reach # {}
  /\ Retention \in Nat /\ ScanLimit \in Nat /\ MaxDeaths \in Nat

VARIABLES
  anchorDay,   \* Stripe's billing_cycle_anchor
  legacy,      \* rows of entitlements left under a calendar month
  pass,        \* each repair pass: how far it is and what it has read
  deaths       \* repair passes killed midway

vars == <<now, periodEnd, allowance, runs, request, anchorDay, legacy, pass, deaths>>

IdlePass == [pc |-> "idle"]

-----------------------------------------------------------------------------
(* Time, the subscription and the life of a run *)

Advance ==
  /\ now < MaxDay
  /\ now' = now + 1
  /\ UNCHANGED <<periodEnd, allowance, runs, request, anchorDay, legacy, pass, deaths>>

\* Stripe's own boundaries keep the day the subscription was anchored on.
StripeEndAfter(day) == NextBoundary(anchorDay, day)

\* ensurePeriod: a fresh row, or new terms for the one there is.
Opened(row) ==
  IF row = NoRow THEN [consumed |-> 0, reserved |-> 0, updated |-> now]
                 ELSE [row EXCEPT !.updated = now]

\* persistSubscription: a snapshot with the new period end, and the period's
\* row when the subscription is served.
RollSubscription(served) ==
  LET end == StripeEndAfter(now)
  IN  /\ now >= periodEnd
      /\ periodEnd' = end
      /\ allowance' = IF served THEN [allowance EXCEPT ![end] = Opened(@)] ELSE allowance
      /\ UNCHANGED <<now, runs, request, anchorDay, legacy, pass, deaths>>

\* invoice.paid: in time, ahead of the subscription's event, or late.
InvoicePaid(end) ==
  /\ allowance' = [allowance EXCEPT ![end] = Opened(@)]
  /\ UNCHANGED <<now, periodEnd, runs, request, anchorDay, legacy, pass, deaths>>

\* The scheduler decides a run (RunScheduler models how).
Decide(e) ==
  /\ Admitted(e) /\ runs[e].status = "PENDING"
  /\ runs' = [runs EXCEPT ![e].status = "DECIDED"]
  /\ UNCHANGED <<now, periodEnd, allowance, request, anchorDay, legacy, pass, deaths>>

\* Mutant: the settlement does not ask whether a unit is held.
SettledBlindly(row) ==
  [consumed |-> row.consumed + 1, reserved |-> row.reserved - 1, updated |-> now]

\* settleReservation on the row it addresses.
SettledRow(row) ==
  IF row.reserved >= 1
  THEN [consumed |-> row.consumed + 1, reserved |-> row.reserved - 1, updated |-> now]
  ELSE row

\* Mutant: the period is the one the settlement happens in.
KeyNow(e) == KeyAt(now, periodEnd)

\* The key a settlement addresses, resolved when the run is closed.
SettleKey(e) == KeyAt(runs[e].created, periodEnd)

\* The one caller that closed the run settles it.
Settle(e) ==
  /\ Admitted(e) /\ runs[e].status = "DECIDED"
  /\ runs' = [runs EXCEPT ![e].status = "FINAL"]
  /\ allowance' = IF allowance[SettleKey(e)] = NoRow THEN allowance
                  ELSE [allowance EXCEPT ![SettleKey(e)] = SettledRow(@)]
  /\ UNCHANGED <<now, periodEnd, request, anchorDay, legacy, pass, deaths>>

\* ... or dies between the closing write and the settlement.
LoseSettlement(e) ==
  /\ Admitted(e) /\ runs[e].status = "DECIDED"
  /\ runs' = [runs EXCEPT ![e].status = "FINAL"]
  /\ UNCHANGED <<now, periodEnd, allowance, request, anchorDay, legacy, pass, deaths>>

InFlight(e) == \E q \in Requests :
  request[q].pc \notin {"idle", "answered"} /\ request[q].event = e

\* Retention removes the event and the run with it, months after the call that
\* brought it and long after its verdict.
Expire(e) ==
  /\ Stored(e) /\ runs[e].created + Retention <= now
  /\ runs[e].status = "FINAL" /\ ~InFlight(e)
  /\ runs' = [runs EXCEPT ![e].status = "EXPIRED"]
  /\ UNCHANGED <<now, periodEnd, allowance, request, anchorDay, legacy, pass, deaths>>

-----------------------------------------------------------------------------
(* reconcileAllowancePeriods *)

PassStates ==
  [pc : {"idle"}]
    \cup [pc : {"tally"}, at : Days, anchor : Days, months : SUBSET Months, old : [Months -> Row \cup {NoRow}]]
    \cup [pc : {"fold"}, at : Days, anchor : Days, months : SUBSET Months, old : [Months -> Row \cup {NoRow}],
          terminal : SUBSET Events, pending : SUBSET Events]
    \cup [pc : {"repair"}, at : Days, anchor : Days, terminal : SUBSET Events, pending : SUBSET Events,
          rows : [Days -> Row \cup {NoRow}], days : SUBSET Days]

LegacyMonths == {m \in Months : legacy[m] # NoRow}
OpenDays     == {d \in Days : allowance[d] # NoRow}

\* The subscription's period end and the workspace's rows.
BeginPass(p) ==
  /\ pass[p].pc = "idle" /\ (OpenDays # {} \/ LegacyMonths # {})
  /\ pass' = [pass EXCEPT ![p] =
       [pc |-> "tally", at |-> now, anchor |-> periodEnd, months |-> LegacyMonths, old |-> legacy]]
  /\ UNCHANGED <<now, periodEnd, allowance, runs, request, anchorDay, legacy, deaths>>

\* ORDER BY created_at LIMIT: the oldest runs, up to the limit.
Scanned(seen) ==
  LET stored == {e \in Events : Stored(e)}
  IN  /\ seen \subseteq stored
      /\ seen = stored \/ Cardinality(seen) = ScanLimit
      /\ Cardinality(seen) <= ScanLimit
      /\ \A e \in seen, f \in stored \ seen : runs[e].created <= runs[f].created

\* tallyRunsByPeriod, kept as the sets of runs it counts.
Tally(p, seen) ==
  /\ pass[p].pc = "tally" /\ Scanned(seen)
  /\ pass' = [pass EXCEPT ![p] =
       [pc |-> "fold", at |-> @.at, anchor |-> @.anchor, months |-> @.months, old |-> @.old,
        terminal |-> {e \in seen : runs[e].status # "PENDING"},
        pending  |-> {e \in seen : runs[e].status = "PENDING"}]]
  /\ UNCHANGED <<now, periodEnd, allowance, runs, request, anchorDay, legacy, deaths>>

\* The runs of a tally that belong to a period.
OfPeriod(p, events, key) == {e \in events : KeyAt(runs[e].created, pass[p].anchor) = key}

\* Runs the tally found for the one or two periods a month overlaps.
Accounted(p, keys) ==
  Cardinality({e \in pass[p].terminal \cup pass[p].pending :
                 KeyAt(runs[e].created, pass[p].anchor) \in keys})

\* renameAllowancePeriod: the row as it was read, and none under the key.
Renames(p, m, key) ==
  /\ legacy[m] # NoRow /\ allowance[key] = NoRow
  /\ legacy[m].updated = pass[p].old[m].updated

\* mergeAllowancePeriod adds the counters where both rows are there ...
Merges(m, key) == legacy[m] # NoRow /\ allowance[key] # NoRow

\* ... into the one row that is left.
MergedRow(row, old, at) ==
  [consumed |-> row.consumed + old.consumed, reserved |-> row.reserved + old.reserved,
   updated |-> at]

\* dropAllowanceRow: the row as it was read, with every unit of it accounted
\* for by a surviving run.
Drops(p, m) ==
  /\ legacy[m] # NoRow /\ legacy[m] = pass[p].old[m]
  /\ Accounted(p, CandidateKeys(m, pass[p].anchor)) >= Used(pass[p].old[m])

Folded(p, m) ==
  /\ pass[p].pc = "fold" /\ m \in pass[p].months
  /\ pass' = [pass EXCEPT ![p].months = @ \ {m}]
  /\ UNCHANGED <<now, periodEnd, runs, request, anchorDay, deaths>>

\* foldLegacyRow, when the month lies within one paid period: rename, or merge
\* and delete whatever the merge found.  Nothing writes a legacy row and nothing
\* removes a period's, so the two statements take effect as one.
FoldIntoPeriod(p, m) ==
  /\ Folded(p, m)
  /\ \E key \in CandidateKeys(m, pass[p].anchor) :
       /\ CandidateKeys(m, pass[p].anchor) = {key}
       /\ allowance' =
            IF Renames(p, m, key)
            THEN [allowance EXCEPT ![key] = [legacy[m] EXCEPT !.updated = pass[p].at]]
            ELSE IF Merges(m, key)
            THEN [allowance EXCEPT ![key] = MergedRow(@, legacy[m], pass[p].at)]
            ELSE allowance
  /\ legacy' = [legacy EXCEPT ![m] = NoRow]

\* ... and when it straddles a renewal.
FoldStraddling(p, m) ==
  /\ Folded(p, m)
  /\ Cardinality(CandidateKeys(m, pass[p].anchor)) = 2
  /\ legacy' = IF Drops(p, m) THEN [legacy EXCEPT ![m] = NoRow] ELSE legacy
  /\ UNCHANGED allowance

\* The rows are read again once the old ones are folded.
Reread(p) ==
  /\ pass[p].pc = "fold" /\ pass[p].months = {}
  /\ pass' = [pass EXCEPT ![p] =
       [pc |-> "repair", at |-> @.at, anchor |-> @.anchor, terminal |-> @.terminal, pending |-> @.pending,
        rows |-> allowance, days |-> OpenDays]]
  /\ UNCHANGED <<now, periodEnd, allowance, runs, request, anchorDay, legacy, deaths>>

Larger(m, n)  == IF m >= n THEN m ELSE n
Smaller(m, n) == IF m <= n THEN m ELSE n

\* Mutant: a reservation nothing holds is kept.
Kept(row, terminal, pending, at) ==
  [consumed |-> Larger(row.consumed, terminal), reserved |-> row.reserved, updated |-> at]

\* Mutant: every pending run is given a reservation.
Regranted(row, terminal, pending, at) ==
  [consumed |-> Larger(row.consumed, terminal), reserved |-> Larger(row.reserved, pending),
   updated |-> at]

\* consumed may rise to meet the evidence and never falls; reserved may fall
\* to it and never rises.
Repaired(row, terminal, pending, at) ==
  [consumed |-> Larger(row.consumed, terminal), reserved |-> Smaller(row.reserved, pending),
   updated |-> at]

\* Mutant: the write is made whatever the row has become.
Unconditional(row, seen) == row # NoRow

\* setAllowanceCounters: only on the row exactly as it was read.
Unmoved(row, seen) == row # NoRow /\ row = seen

\* repairCounters
RepairRow(p, day) ==
  LET seen  == pass[p].rows[day]
      fixed == Repaired(seen, Cardinality(OfPeriod(p, pass[p].terminal, day)),
                              Cardinality(OfPeriod(p, pass[p].pending, day)), pass[p].at)
  IN  /\ pass[p].pc = "repair" /\ day \in pass[p].days
      /\ pass' = [pass EXCEPT ![p].days = @ \ {day}]
      /\ allowance' =
           IF /\ fixed.consumed # seen.consumed \/ fixed.reserved # seen.reserved
              /\ Unmoved(allowance[day], seen)
           THEN [allowance EXCEPT ![day] = fixed]
           ELSE allowance
      /\ UNCHANGED <<now, periodEnd, runs, request, anchorDay, legacy, deaths>>

\* The pass is over, or the invocation that runs it dies.
LeavePass(p) ==
  /\ pass' = [pass EXCEPT ![p] = IdlePass]
  /\ UNCHANGED <<now, periodEnd, allowance, runs, request, anchorDay, legacy>>

EndPass(p) ==
  /\ pass[p].pc = "repair" /\ pass[p].days = {}
  /\ LeavePass(p) /\ UNCHANGED deaths

PassDies(p) ==
  /\ pass[p].pc # "idle" /\ deaths < MaxDeaths
  /\ LeavePass(p) /\ deaths' = deaths + 1

-----------------------------------------------------------------------------
(* The specification *)

\* Rows as the two spellings left them: each old run holds a unit under the
\* period's day, where no settlement ever found it, or under the calendar
\* month, where it was settled.
DamagedRows(byDay, byMonth, final, open) ==
  /\ runs = [e \in Events |->
       IF e \in byDay \cup byMonth
       THEN [payload |-> CHOOSE p \in Payloads : TRUE, created |-> Start, period |-> periodEnd,
             status |-> IF e \in final THEN "FINAL" ELSE "PENDING"]
       ELSE NoRun]
  /\ legacy = [m \in Months |->
       IF m = MonthOf[Start] /\ byMonth # {}
       THEN [consumed |-> Cardinality(byMonth \cap final),
             reserved |-> Cardinality(byMonth \ final), updated |-> Start]
       ELSE NoRow]
  /\ allowance = [day \in Days |->
       IF day = periodEnd /\ open
       THEN [consumed |-> 0, reserved |-> Cardinality(byDay), updated |-> Start]
       ELSE NoRow]

Init ==
  /\ now = Start /\ deaths = 0
  /\ anchorDay \in AnchorDays
  /\ periodEnd = StripeEndAfter(Start)
  /\ request = [q \in Requests |-> IdleRequest]
  /\ pass = [p \in Passes |-> IdlePass]
  /\ \E byDay \in SUBSET OldRuns : \E byMonth \in SUBSET (OldRuns \ byDay) :
       \E final \in SUBSET (byDay \cup byMonth), open \in BOOLEAN :
         /\ byDay # {} => open
         /\ DamagedRows(byDay, byMonth, final, open)

Scheduler(e) == Decide(e) \/ Settle(e) \/ LoseSettlement(e)

Repair(p) ==
  \/ \E seen \in SUBSET Events : Tally(p, seen)
  \/ \E m \in Months : FoldIntoPeriod(p, m) \/ FoldStraddling(p, m)
  \/ Reread(p)
  \/ \E day \in Days : RepairRow(p, day)
  \/ EndPass(p)

Admission(q) == Serve(q) /\ UNCHANGED <<anchorDay, legacy, pass, deaths>>

Next ==
  \/ Advance
  \/ \E served \in BOOLEAN : RollSubscription(served)
  \/ \E day \in Start..now : InvoicePaid(StripeEndAfter(day))
  \/ \E e \in Events : Scheduler(e) \/ Expire(e)
  \/ \E q \in Requests, e \in Events, p \in Payloads :
       Arrive(q, e, p) /\ UNCHANGED <<anchorDay, legacy, pass, deaths>>
  \/ \E q \in Requests : Admission(q)
  \/ \E p \in Passes : BeginPass(p) \/ Repair(p) \/ PassDies(p)

Spec == Init /\ [][Next]_vars

\* The scheduler ticks every minute and decides every run; the repair runs
\* every half hour and is killed midway only so often.
Fairness ==
  /\ \A e \in Events : WF_vars(Decide(e)) /\ WF_vars(Settle(e) \/ LoseSettlement(e))
  /\ \A p \in Passes : WF_vars(BeginPass(p) \/ Repair(p))

FairSpec == Spec /\ Fairness

-----------------------------------------------------------------------------
(* Properties *)

\* Every variable has its type.
TypeOK ==
  /\ now \in Days /\ periodEnd \in Days /\ anchorDay \in AnchorDays
  /\ allowance \in [Days -> Row \cup {NoRow}]
  /\ legacy \in [Months -> Row \cup {NoRow}]
  /\ runs \in [Events -> Run \cup {NoRun}]
  /\ request \in [Requests -> RequestStates]
  /\ pass \in [Passes -> PassStates]
  /\ deaths \in 0..MaxDeaths

RunsOf(day) == {e \in Events : Admitted(e) /\ runs[e].period = day}

\* A period is never charged for more runs than were admitted into it, however
\* lost settlements, folded rows, stale passes and repairs interleave ("It can
\* never invent a unit", money/periodReconciliation.ts:46).
NeverOvercharged ==
  \A day \in OpenDays : Used(allowance[day]) <= Cardinality(RunsOf(day))

Consumed(row) == IF row = NoRow THEN 0 ELSE row.consumed

\* What a period holds as consumed, in its own row and in the rows of the
\* months that lie within it.
ConsumedIn(day) ==
  Consumed(allowance[day])
    + MapThenSumSet(LAMBDA m : Consumed(legacy[m]),
                    {m \in LegacyMonths : CandidateKeys(m, periodEnd) = {day}})

\* A unit that was spent is never returned: no merge, repair, renewal or
\* retention sweep lowers what a period has consumed.
NeverReturned ==
  [][\A day \in OpenDays \cup UNION {CandidateKeys(m, periodEnd) : m \in LegacyMonths} :
       ConsumedIn(day)' >= ConsumedIn(day)]_vars

\* A settlement addresses the row its run's unit was reserved in, also after
\* renewals (billing/period.ts:116-119).
SettleFindsItsRow ==
  \A e \in Events :
    Admitted(e) /\ runs[e].status \in {"PENDING", "DECIDED"} => SettleKey(e) = runs[e].period

\* The row of a period covers every run that was admitted into it: no unit is
\* sold twice.
NoUnitSoldTwice ==
  \A e \in Events : Admitted(e) =>
    Used(allowance[runs[e].period]) >= Cardinality(RunsOf(runs[e].period))

\* An admission stays under the plan and under the ceiling its own request read,
\* whatever other requests took in between.
AdmissionsKeepTheLimits ==
  [][\A q \in Requests :
       request[q].pc = "admit" /\ request'[q].pc = "answered" /\ request'[q].answer = "accepted"
         => LET used == Used(allowance'[request[q].key])
            IN  /\ used <= RunLimit
                /\ request[q].ceiling # NoLimit => used <= request[q].ceiling]_vars

\* What a caller is told is true and stays true: accepted or duplicate, its own
\* body is the one that runs; conflict, another body is; and an event is
\* accepted once.
AnswersAreTrue ==
  \A q \in Requests : request[q].pc = "answered" =>
    LET r == request[q]
    IN  /\ r.answer \in {"accepted", "duplicate"} =>
             Admitted(r.event) /\ runs[r.event].payload = r.payload
        /\ r.answer = "conflict" => Admitted(r.event) /\ runs[r.event].payload # r.payload
        /\ r.answer = "accepted" => \A other \in Requests \ {q} :
             request[other].pc = "answered" /\ request[other].answer = "accepted"
               => request[other].event # r.event

\* No reservation outlives its run for good: a settlement that was lost, or
\* that found nothing under its key, is made up for by a later repair.
ReservationsDrain ==
  <>[](\A day \in OpenDays : allowance[day].reserved = 0)
=============================================================================
