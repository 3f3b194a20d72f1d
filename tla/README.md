# itisyou-verify: TLA+ models, checks and proofs

`itisyou-verify` answers one question for its customers: *did the automation really do what
its tool said it did?* An event is admitted, becomes a **run**, and a cron-driven scheduler
looks at the customer's providers until the run is VERIFIED, FAILED or UNVERIFIED. The answer
is shown, announced through an outbox, and charged to the workspace's allowance. There is no
queue and no lock server: every cron tick is a stateless worker invocation over one SQL
database, ticks overlap and are killed without notice, and every decision goes through a
compare-and-set on a row. Around that core sit the flows where money, data or trust change hands:
Stripe's events, the refund button, the deletion of a workspace, the maintenance runners. This
directory models that machinery, checks it with TLC and proves its main properties with TLAPS.

Paths below are relative to `src/` unless they start with `tla/`.

## 1. Inventory

`PROJECT.json` lists every component with its sources and status. In short:

| Component | State it keeps | Operations | Interacts with | What makes it correct |
|---|---|---|---|---|
| Run decision (`packages/domain/src/decide.ts`, `schedule.ts`) | none | `decideRunStatus`, `planNextObservation` | called by `observeRun` | a run left PENDING always has a next check |
| Due-run scheduler (`apps/app/src/scheduler/tick.ts`, `observe.ts`, `budget.ts`) | a tick's claims and spent calls, in memory only | list, claim, gather, record, commit, announce, close, settle | runs, assertions, outbox and entitlements tables; providers | decided once, announced truthfully, never stranded, charged once |
| Runs and assertions (`apps/app/src/db/runs.ts`) | `runs`, `assertions` | `listDue`, `tryClaim`, `applyOutcome`, `replaceForRevision` | scheduler, pages, deletion | compare-and-set on `revision`; the newest set is the one shown |
| Admission (`apps/app/src/money/eventsRoute.ts`, `billing/admission.ts`, `db/admissionControls.ts`, `db/sourceEvents.ts`) | `source_events`, first row of `runs` and `outbox`, a reservation | `checkAdmission`, `checkCustomerAdmissionControls`, `admitOnce` | ingestion routes, scheduler | one run per event; never above the allowance or the ceiling |
| Allowance ledger (`apps/app/src/db/entitlements.ts`) | `reserved`, `consumed` per period | reserve, settle, release, repair | admission, scheduler, billing | one unit per run |
| Outbox (`apps/app/src/db/webhooks.ts`, `scheduler/dispatch.ts`) | `outbox` | enqueue, list, claim, mark, bury | admission and scheduler enqueue; the tick dispatches | one pass per attempt; nothing dropped; everything settled |
| Webhook receipts (`apps/app/src/db/webhooks.ts`, `routes/webhooks/`) | `webhook_receipts` | `recordOnce`, `abandon`, `setStatus` | Stripe and Resend handlers | every event handled, though handlers throw and deliveries overlap |
| Allowance periods and repair (`billing/period.ts`, `money/periodReconciliation.ts`, `db/allowanceRepair.ts`) | rows of `entitlements`, one per paid period | key of an instant, fold, repair | ledger, billing, runs | no unit invented, none returned, a settlement finds its row after a renewal |
| Usage alerts (`db/usageAlerts.ts`) | alert markers | warn | ledger | one warning per threshold |
| Stripe billing (`apps/app/src/billing/`) | the mirror of a subscription, its order and its opened periods | one handler per event type, recovery sweep, reconciliation | receipts, Stripe's records, periods | converges under duplicated, reordered and overlapping events; cancelled stays cancelled |
| Refunds and approvals (`billing/refunds.ts`, `owner/approvals.ts`, `db/ownerPort.ts`) | `refunds`, `approvals` | grant, withdraw, claim, open, submit, call, finish; `charge.refunded` | Stripe, the owner's panel | one approval, one call; the money goes back as approved, again only if approved again |
| Workspace deletion (`apps/app/src/privacy/`, `db/supportPort.ts`) | record, cancel link and index in `settings`; checkpoints | request, cancel, thirteen steps, confirm | every table of the workspace, ticks in flight | nothing cancelled in time is deleted; never confirmed again after a confirmation known to be accepted, and only when it is true |
| Maintenance jobs (`apps/app/src/maintenance/`, `tools/maintenance-runner/`) | `runner_devices`, `maintenance_jobs` | pair, revoke, enqueue, lease, run, report | owner's panel; runners on other machines | only the last lease's result counts, once; every job ends |
| Retention, evidence inbox, notifications, growth, owner panel, assistant, support | their own tables | see `PROJECT.json` | mostly the tables above | bounded deletes; claim before send; approve once |
| Connectors, credentials, security, sessions, pages | none, or one row | pure or I/O | scheduler (connectors, credentials) | outside the models, except what a connector may answer |

**Hard behaviours.** Ticks overlap (a lease is 120 s, the cron fires every minute) and die
between any two database calls; nothing detects a death, only a lease written into
`next_check_at` or `next_attempt_at` brings the row back. A slow worker wakes up holding data
that another has replaced. Each tick has a wall-clock, a batch and a call budget that may run
out in the middle of a batch. Two finalisers of one run race for its announcement and its
allowance unit. Stripe delivers at least once, in no order and at the same time; its handlers read
a row, decide and write it back. A deletion's schedule is three rows of `settings` rewritten
without a transaction, and its thirteen steps are spread over as many ticks as they need. A
runner may outlive its lease, its device or its machine. `PROJECT.json` lists the hazards line by
line, each with the properties that would show it going wrong or a note saying why none does.

## 2. Modules

| Module | What it is |
|---|---|
| `RunDecision` | the pure decisions: `DecideRunStatus`, `PlanNextObservation`, and `Judge`, the way `observeRun` composes them |
| `RunScheduler` | the due-run pass and `observeRun` over the database, one action per database call; EXTENDS `RunDecision` |
| `RunVerdict` | the abstract promise about a run: opened, decided once, announced with that verdict, closed after that |
| `RunSchedulerProofs` | type correctness and the safety invariants of `RunScheduler`, for every value of the constants |
| `RunSchedulerRefinement` | `RunScheduler` implements `RunVerdict` |
| `OutboxDispatch` | the outbox pass: list, claim, handle, mark, with every failure path |
| `OutboxDispatchProofs` | its inductive invariant, for every value of the constants |
| `BillingPeriod` | the calendar, and the period an instant belongs to |
| `EventAdmission` | `POST /api/v1/events` from the money question to the answer; EXTENDS `BillingPeriod` |
| `PeriodLedger` | what moves a period's allowance: admissions, settlements, renewals, retention and the repair; EXTENDS `EventAdmission` |
| `PeriodLedgerProofs` | the ledger's types, the truth of its answers, the limits of an admission, and, under stable anchors, its accounts |
| `StripeMirror` | one subscription: receipts, the handlers of Stripe's events, the two jobs of the tick that write the same row |
| `StripeMirrorProofs` | its safety properties, for any histories of Stripe's and any number of invocations |
| `WorkspaceDeletion` | requests, cancellations and the pass that carries deletions out, one action per statement |
| `WorkspaceDeletionProofs` | its inductive invariant, for any number of workspaces |
| `MaintenanceJobs` | devices, jobs and leases on the application's side, the runner's program on the other |
| `MaintenanceJobsProofs` | its inductive invariant, for any devices, jobs and durations |
| `RefundApprovals` | the refund button statement by statement, Stripe and its events |
| `RefundApprovalsProofs` | its inductive invariant, for any refunds, approvals and presses |
| `MC...` (one per specification with a run) | values of the constants for TLC |

The modules share tables but not states: `RunScheduler` abstracts admission to one step and
`PeriodLedger` a run to one decision; `WorkspaceDeletion` keeps of the other tables only how many
rows a workspace has in each, and of a tick in flight only that it may write a run due again. The
repairs that span two modules (a period opened by Stripe's events, a unit settled by the
scheduler) appear in each as the other's action.

### RunScheduler and the code

State. `runs[r]` is the row of the `runs` table (`status`, `revision`, `observation_count`,
`deadline_at`, `next_check_at`, `completed_at`; `NoTime` is NULL). `assertions[r]` is the newest
assertion set, the only one readers are shown. `outbox` is the set of outbox rows by unique
key, which is all that `ON CONFLICT DO NOTHING` lets matter. `entitlement` is the period's row
(with `OtherUnits` units reserved for runs outside the model) and `paused` the owner's `expensive_verification`
control. Each worker `w` is one tick:
`tick[w]` holds its start time and its calls, `batch[w]` what `listDue` returned, `held[w]` the
claims it won, `cur[w]` and `found[w]` the run in hand and what is about to be written of it.
`settled` and `looked` are history variables.

Actions. `StartTick` is `runSchedulerTick` up to and including `listDue`; `TryClaim` the
compare-and-set of one row; `BeginObserve` the read at the top of `observeRun`, after which an
already decided run goes straight to finalisation. `Gather` (with `GatherStarved` when the
tick's calls are spent, and `GatherUnconnected` when no credential resolves) asks and judges;
`RulesUnusable` and `Resolve` are `resolveWithoutEvaluation`; `RecordAssertions` writes the set;
`Commit` is the commit point; `Announce`, `Close`, `Settle` and `NoPeriodToSettle` are
`finaliseTerminalRun` in its order. `Throw` is the `catch` of `runDuePass`, `OutOfTime` its
`hasHeadroom`, `Crash` the platform. A step between two actions of one worker is a step of
anybody else: no two database calls are merged, except `listDue` with the pause control read
just before it.

A worker uses the time its tick started for everything it writes, as the code does (`deps.now`),
while the clock runs on: leases may be over before they are written.

### OutboxDispatch and the code

`outbox[k]` is the row (`dispatch_state`, `attempts`, `next_attempt_at`), `due[d]` the copies a
pass listed, `row[d]` the copy in hand. `TryClaim` is the compare-and-set on `attempts`;
`HandlerAccepts`, `HandlerRefuses` (throws or declines) and `NoHandler` are the three answers;
`MarkDispatched` and `MarkFailed` are the two writes, which carry no guard but the id;
`ClaimFails` and `MarkFails` are the caught write failures. The handlers the program ships only
acknowledge (`dispatch.ts:239-287`), so nothing of a handler is modelled but its answer.
`called` and `accepted` are history variables.

### EventAdmission, PeriodLedger and the code

State. `allowance[d]` is the row of `entitlements` under the day a paid period ends, `legacy[m]` one left
under a calendar month by an earlier version (`periodReconciliation.ts:1-39`), `runs[e]` the
event's row of `source_events` with its run (`period`, the row its unit was reserved in, is a
history variable: the table has no such column), `periodEnd` the subscription's
`current_period_end`, `anchorDay` the day Stripe bills on. `request[q]` is a call of the route
with what it has read so far, `pass[p]` a repair pass with its period end, its count of the
runs and its snapshot of the rows. Time is in days; `updated_at` is kept at that grain, so
two writes of a day have equal stamps, which can only let more compare-and-sets through than the code does.

Actions. `Check`, `PassControls` and `AdmitKnown`/`AdmitNew`/`AdmitRolledBack`/`AdmitRefused` are
`checkAdmission`, `checkCustomerAdmissionControls` and `admitOnce` (its batch is one transaction
and one step); `Refuse` stands for every refusal that depends on nothing modelled. `Decide`,
`Settle` and `LoseSettlement` summarise `RunScheduler`: a run is closed once, and its unit is
settled then or not at all. `RollSubscription` and `InvoicePaid` are the two
handlers that open a period, in any order. `BeginPass`, `Tally`, `FoldIntoPeriod`,
`FoldStraddling`, `Reread`, `RepairRow` are the reads and writes of `reconcileAllowancePeriods`
for one workspace, in its order; `PassDies` is the platform.

### StripeMirror and the code

State. `sub` is the row of `subscriptions` (status, period, `provider_event_created`), `allowance` the
periods `openAllowancePeriod` has a row for, `order` the status of the order, `receipts[e]` the row of
`webhook_receipts`. `feed` is what Stripe does with the subscription, `issued` how much of that has
happened: an event carries the second it was created in, and a time is just that. `handler[w]` is an
invocation of `routes/webhooks/stripe.ts`, `job` a pass of the tick. `acked` and `excused` are history
variables.

Actions. `Deliver` is the route up to `recordOnce`: a new event is claimed, a known one answered 200.
`Read`, `Save`, `Open`, `ReadOrder`, `MoveOrder` and `Finish` are the statements of `handleSubscription`,
`handleInvoicePaid`, `handlePaymentFailed` and `handleCheckoutCompleted` in their order; a handler
goes through those its event needs. `Applies` is `reconcileSubscription`, judged on what was read,
`Saved` the guard of the upsert, judged on what is stored. `Throw` and `Abandon` are the route's `catch`,
`Strand` a killed invocation or a failed release. `Sweep` is `expirePaymentRecoveryWindows`, `Reconcile`,
`Apply` and `OpenRecovered` are `reconcileSubscriptions` and `applyConfirmedPayment`, `PassFails` their failures.

### WorkspaceDeletion and the code

State. `record[ws]`, `link` and `index` are the three rows of `settings`; `checkpoint[ws]` the
steps that are `'done'`; `rows[ws]` how many rows of each kind the workspace has; `claimed` the
notification keys, by request, and `announced` the confirmations the sending service accepted, each with what
was left and whether its answer was `heard`.
`front[ws]` is a request or a cancellation under way and `tick` the pass. `kept` is a
history variable: the requests cancelled before their day.

Actions. `Request`, `WriteLink`, `ReadIndex`, `WriteIndex` are `requestWorkspaceDeletion`;
`Cancel`, `ClearRecord`, `ClearLink` and the same two index actions `cancelWorkspaceDeletion`.
`BeginPass` and `Look` are `runDueWorkspaceDeletions`, `RunStep`, `WriteCheckpoint`, `AlreadyDone` and
`StepFails` the loop of `runWorkspaceDeletion` with the effects of `db/supportPort.ts`; `ClearDone`,
`UnlinkDone` and the two index actions its end. Between them is `dispatchNotification` (`notifications/send.ts`):
`Claim` and `ClaimFails` the key, then up to `MAX_SEND_ATTEMPTS` times `Accepted`, `NotAccepted` or
`AnswerLost`. Settling the row is left out: for this key nothing reads it back. What the foreign keys cascade to is in
`Cascade`, what a new row needs in `HangsOn`. `Use` is the workspace being used meanwhile: a sign-in, an
admitted delivery, a tick writing a run due again.

### MaintenanceJobs and the code

State. `device[d]` and `job[s]` are the rows; a nonce is the number of the claim that issued it.
`runner[d]` is the program of `runner.mjs`, `lease[d]` and `report[d]` the two requests as the application
handles them, `posts` the results on their way. Time counts down: what is left of a lease, of a
runner's work and of the timestamp of a signed request.

Actions. `Look` and `Enqueue` are the owner's `enqueueJob`; `OpenPairing`, `Pair` and `Revoke` the life
of a device. `Poll` is the request with its authentication, `Choose`, `Claim` and `Discard` the
loop of `leaseOneJob`, `HearJob` the runner reading the answer. `Post`, `Receive`, `Record` and `Reread`
take a result from the runner to `recordJobResult`. `Restart`, `LosePoll` and `LosePost` are machines
switched off, invocations that die and requests that are lost; `Receive` may also leave a copy on its way.

### RefundApprovals and the code

State. A *refund* is an order and an amount, which make its idempotency key; a *payload* adds the reason
and is what `Of[a]`, the hash of an approval, is bound to. `approval[a]` is the row's status (`lapsed`:
granted, and past `expires_at`), `row[r]` the row of `refunds` with its state, the reason it was opened with
and Stripe's id. `provider` and `events` are Stripe's side: each refund with the approval and key it was made
under, its first answer and its status now, and whether the key is still `remembered`. `click[c]` is a press of
the button, `asked` the payload it was pressed with. `spent` and `before` (the approvals there were when a
refund was made) are history.

Actions. `Press` reads the approval and checks its status, expiry and hash (`Covers`) against the payload of
the press; `Open` and `Queue` are `requestRefund`, which finds the row of that order and amount whatever
reason it has. `Decide` is the read of `decideRefund` with the second hash check, against the payload rebuilt
from the stored row (`Judged`); `Consume` the claim, `Submit` the first write and `ReadBack` the row it returns,
`Call` Stripe, `Finish` the last write. A press has one clock (`db/ownerPort.ts:702-705`), so the expiry is
looked at as of its beginning. `Die` ends a press anywhere; a call may take effect and its answer be lost.
`Settle` is Stripe settling what it left pending, or failing what had succeeded, `Forget` Stripe dropping a
key; `Receive` and `Apply` are `handleChargeRefunded`. The events of the model are more than Stripe sends as
`charge.refunded`. The policy rule is checked before anything is written and then only part of the hash: a
press with another rule is a press with another reason.

## 3. What the runs check

| Run | Instance | Shows |
|---|---|---|
| `SchedulerRaces` | 1 run and 1 unit reserved for another, 2 symmetric workers, all looks, window 2, lease 2, clock 5, 1 fault | two ticks fight over a run: types, `PendingIsScheduled`, `UnscheduledIsAnnounced`, `AnnouncementsAreTrue`, `ShownAssertionsAreTheDeciders`, `SettledOnce`, `DecidedStaysDecided`, `ObservationBudget`, and the refinement of `RunVerdict` |
| `SchedulerLive` | 3 runs, 1 worker, 2 claims and 1 call per tick, 1 fault, fair | `EveryRunDecided`, `EveryDecisionFinalised` |
| `OutboxDispatch` | 2 rows, 2 passes of one row each, 2 attempts, 2 faults, fair | `OneDispatcherPerAttempt`, `DispatchedWasAccepted`, `DeadHadItsAttempts`, `EveryEventSettled` |
| `LedgerRepair` | 2 events, one of them perhaps an old run, 1 request, 1 pass, anchors on day 1 and 2 of months of 3, 2, 3, 3 days, 2 days, 1 death | `NeverOvercharged`, `NeverReturned`, `SettleFindsItsRow` while everything interleaves |
| `LedgerAdmission` | 2 events, 2 bodies, 2 requests, a plan of 2 units and a ceiling of 1 or none, 1 pass that scans one run, 1 day, 1 death, fair | `AnswersAreTrue`, `AdmissionsKeepTheLimits`, `ReservationsDrain` |
| `StripeMirror` | 4 histories of two or three events (a purchase; lost while past due; a renewal failed and paid; a checkout used and cancelled), 2 invocations, 1 fault, 1 pass of either job, fair | `CanceledIsTerminal`, `NewestWins`, `SnapshotConverges`, `ServedHoldsItsAllowance`, `EveryEventHandled` |
| `WorkspaceDeletion` | 1 workspace, 2 requests, a grace of 1 day, 3 notifications against a ceiling of 2, 1 use of the workspace, 1 fault, fair | `AnnouncedIsGone`, `AnnouncedOnce`, `DoneIsEmpty`, `CancelledIsKept`, `IndexedIsCarriedOut` |
| `MaintenanceJobs` | 2 devices, 2 jobs of which one is unreadable, lease 3, work 1 or 4, 2 mishaps, 1 revocation, fair | `EndedStays`, `ResultOfLastLease`, `ReplayIsKnown`, `RevokedPostsNothing`, `EveryJobEnds` |
| `RefundApprovals` | 2 refunds, 2 reasons, 3 approvals, 3 symmetric presses, 2 faults | `OneCallPerApproval`, `RefundedAsApproved`, `MovedAgainIsApprovedAgain` |
| `LedgerStaleTally`, `StripeSameSecond`, `DeletionInUse` | as above | violations, see section 6 |

**Bounds of the scheduler and the outbox.** `MaxTime` stops the clock, `Horizon` ends admissions and
faults, `MaxFaults` bounds crashes, exceptions, overruns and pauses together; `MaxObservations` is 2
(the code: 4), so a run has an observation that may wait for another and one that may not. Why this
is enough: a worker's claim goes stale only by another worker's claim after a lease, so two workers and
a clock that passes one lease and a whole window reach every order of claim, judgement, commit and
finalisation of a run; a third worker repeats the second. In `SchedulerRaces` the clock (5) passes the
window (2), the grace (1) and a lease (2) taken at any instant before. The unit of another run is what a
second settlement would consume; without it the guard `reserved > 0` would hide one. Several runs are needed only
where runs share something: the tick's batch and calls and the due list's order (`SchedulerLive`,
where three runs compete for two places and one call). `Observations` has one member for each way the
decision can go: supported, contradicted, authoritatively absent, retryable outage, terminal gap, no
mandatory assertion; the smaller sets are used where the verdict is immaterial. `SYMMETRY` permutes
workers (in `RefundApprovals` presses), and only where no liveness property is checked. In
`OutboxDispatch` the lease is 1, so a single overrun already lets a second pass take a row from under
the first, and `MaxOutbox` 1 makes the two rows compete for each pass.

**Of the ledger.** The calendar is short so that a day of time reaches what a month does in the code:
on day 1 anchors the two days of `LedgerRepair` cross a renewal and the old month lies within one
period (`FoldIntoPeriod`); on day 2 anchors it straddles two (`FoldStraddling`). `Retention` is one
day, so a final run may vanish before a repair has counted it. The damage `Init` enumerates is every
way an old run's unit can have been left: under the day or the month, settled or not, with or without
the period's row. `MaxDeaths` bounds the passes killed midway; passes themselves are not bounded.
`LedgerAdmission` has both events at the last unit with equal and different bodies.

**Of the others.** A history of `StripeMirror` holds each pair of events whose handlers write the same
thing (snapshot and cancellation, snapshot and invoice, failed invoice and recovery, checkout and
cancellation); two invocations are what it takes for one to write what the other has outdated, and one
fault is enough to lose, repeat or strand any step. In `WorkspaceDeletion` a purge needs two passes
(three rows, two per pass), two requests let a link outlive its own, and
the single use falls between any two of the steps; two workspaces exceed what TLC can enumerate (they meet
only in the index, and the proofs cover any number). In `MaintenanceJobs` the overrun (4) passes the
lease (3), so a stale runner posts after another has claimed; one of two devices may be revoked, so
the other is left. In `RefundApprovals` the three approvals are
bound to one refund, two of them in the same words and the third in others, so presses meet on a row that was
opened in either; nobody approved the second refund. Three presses are what it takes to lose an answer, be
approved again and race.

**Deadlock** checking is off: with bounded clocks, histories and presses every instance ends in a state
where all is settled.

**Mutants.** Each property has a mutant of a modelled definition, marked `Mutant:` in the
modules, that breaks it: a lease that never ends, a compare-and-set without its revision, an upsert
without its guard, a failed step that is not remembered, an approval that is taken twice, and so on.

## 4. Fairness

`FairSpec` of `RunScheduler` assumes that the cron keeps firing and ticks keep running (weak
fairness of `StartTick` and `Progress` per worker), that the clock moves, and that the owner
lifts a pause (`Resume`). Faults, admissions and pauses are never forced. The guard `Punctual` says
the clock does not pass a due run nor a worker still at work: the cron fires every
minute and a tick has 20 s of wall clock, so on the scale of leases (120 s) and backoffs a due row
is looked at in its minute; a tick that dies is idle and does not hold the clock. The safety runs and
all proofs are about `Spec`, without this guard. `OutboxDispatch` has the same assumption
with one exception: `Overrun`, a fault, lets the clock pass a pass at work, so its liveness property
is checked with passes that outlive their leases.

`FairSpec` of `PeriodLedger`: the scheduler decides and closes every run (what `SchedulerLive`
shows of `RunScheduler`), and repair passes keep being started and make progress (every 30 minutes,
`money/maintenance.ts:44`), killed at most `MaxDeaths` times. Requests, renewals and the clock
are never forced.

`StripeMirror`: an invocation that is not killed goes on, and Stripe delivers again whatever it was
not answered 200 for, as it documents; events and the tick's jobs are never forced.
`WorkspaceDeletion`: days pass, the tick runs (every minute) and a request that is not killed
goes on; nobody has to request or cancel anything. `MaintenanceJobs`: the clock, the running
runners and the application go on and a posted result is received unless it is lost; the owner need
not do anything, and the promise is void when no paired runner is left.

## 5. What is proved

For any sets of runs, workers and observations, any budgets, delays and number of faults, under the named
assumptions `DecisionAssumption` and `SchedulerAssumption` (positive delays, a planner backoff for
each count, gaps drawn from the connector error codes):

- `TypeCorrect`, `AnnouncementsCorrect`, `DecisionsAreFinal`, `NoRunIsStranded`,
  `NoSilentClosing`, `SettlementCorrect`, `ShownSetsDecided`, `BudgetIsKept`, `InductiveInvariant`
  (`RunSchedulerProofs`);
- `SchedulerImplementsVerdict` (`RunSchedulerRefinement`).

The argument. None of the invariants is inductive alone: that a stale finaliser cannot announce
a second verdict depends on what every worker believes. `IInv` strengthens them in six layers,
each proved from those before it.

1. `Typed`: types, plus `ClaimsBehindRow`: a claim's revision never exceeds its row's. A
   worker copies a row's status into its memory, so even the types need it.
2. `VerdictSafe`: a worker still judging, whose claim still applies, judges a PENDING run
   (`JudgesOpen`); a worker finalising knows the row's verdict (`TellsTheTruth`), which survives
   being overtaken because a decided row keeps its status. Hence announcements are true and
   decisions final. The step lemma also gives `RowsMove`: a row changes only with a higher
   revision, which is why a stale compare-and-set can never succeed later.
3. `ScheduleSafe`: what is about to be committed always carries a next check
   (`CommitsKeepSchedule`), from the lemma `PendingHasPlan` about the two pure decisions: whenever
   the decision leaves a run PENDING the planner has planned. And a worker about to close has
   announced (`AnnouncedBeforeClosing`).
4. `SettlementSafe`: once a run is closed no claim on it applies (`ClosedForGood`), so at most one worker settles it
   (`OneSettler`), once.
5. `EvidenceSafe`: no two workers hold one claim (`ClaimsNotShared`), since a claim is a revision and a won
   claim raises the row's. So the set a worker has written is still the newest when its commit
   wins, and the set shown for a decided run is the one it was decided from (`ShownSetsDecided`).
6. `BudgetSafe`: a worker whose claim applies counts its look on top of the row's own count, and the
   planner ends a run at the last look of its budget; a stale count never reaches the row.

The refinement maps `verdict` to the status column, `announced` to the run.decided rows and
`closed` to the runs without a next check. `StepRefines` shows that admission is `Open`, a
terminal commit is `Decide`, an enqueue is `Announce`, a winning close is `Close`, and
everything else stutters.

For the outbox, under `OutboxAssumption`: `TypeCorrect`, `ClaimsCorrect`, `NothingIsDropped`,
`NothingIsBuriedEarly`, `InductiveInvariant` (`OutboxDispatchProofs`). `Inv` adds
`AttemptsBehindRow`: the attempt a pass holds, and every attempt a handler has seen, is behind the
row's counter, which only claims move; so a fresh claim is nobody else's.

For the ledger, under `CalendarAssumption` (months follow one another), `AdmissionAssumption`,
`NullAssumption` and `LedgerAssumption` (the clock starts inside the calendar, and the calendar goes on for a
boundary past the clock's last month):

- `TypeCorrect`, `AnswersCorrect`, `LimitsKept`, `InductiveInvariant` (`PeriodLedgerProofs`). The types need
  the calendar: the walk to the next boundary ends (`NextIsFirst`), so a unit is always filed
  under a day. `InFlightIsStored`, that retention removes no run a call still in flight
  could find, is why an event is accepted once.
- `SettlementsFindTheirRow`, `NoUnitInvented`, `SpentUnitsStay`, from the further hypothesis
  `StableAnchors`: every month has the days subscriptions are anchored on. Without it the first two fail,
  for subscriptions anchored on the 29th to the 31st (section 6, `billing/period.ts:83`). `AnchorReadBack`
  shows that the period end a renewal stores is then read back as Stripe's own anchor, so everybody files a
  unit under the same period. `AccountsInv` says that what a pass has counted are runs, each once
  (`CountsAreRuns`), that a row it has not folded when it repairs lies in two periods
  (`FoldsBeforeRepair`), and that a period's row together with the old row that lies within it never
  exceeds the period's runs (`PeriodsCovered`). The old row is needed: folding moves its units into the
  period's row. That a spent unit stays spent (`SpentUnitsStay`, `SpendInv`) needs instead what a pass
  read: an old row is as the pass read it, or it is gone (`RowsAsRead`), so a fold that drops the old
  row has added exactly its units, and one that lost the race adds none.

For Stripe's mirror, under `MirrorAssumption`: `TypeCorrect`, `NewestStays`, `PaidPeriodsAreOpen`, and from
hypotheses on the order of Stripe's events, `CancellationHolds`, `MirrorConverges`,
`CanceledStaysCanceled` (`StripeMirrorProofs`). The argument goes in layers again.

1. `Equipped` and `Hands`: what a handler holds is what its next statement needs; an event is in the hands of
   one invocation at a time (`OneHolder`); a finished payment has opened its period
   (`PaidIsOpened`). The upsert's `>=` on Stripe's time gives `NewestStays` with no hypothesis at all.
2. `Timed`, from `Orderly` (no two events of one second, no change of a
   subscription or failed payment after its cancellation): a row carries the date of
   an event that has happened, and says what Stripe said then or later. `EventsReached` adds that an event
   once answered has left its mark. Hence `CancellationHolds`, and, with `FailuresShow` (a failed payment
   is followed by an update of the subscription), `MirrorConverges`: once all is answered the row is
   Stripe's, whatever the order of delivery.
3. `CanceledStaysCanceled`, from `Orderly` alone: whatever was bought through a checkout, updated, renewed or
   failed before, once the row is cancelled under the cancellation's date, every write still on its way
   is either older, so the upsert refuses it, or says canceled itself. `StripeSameSecond` shows that
   `Orderly` is needed. The property starts with the cancellation and not with the word: a late checkout may
   store canceled before it, under its own date (section 6, `billing/events.ts:283`).

TLC evaluates both hypotheses on the histories of the run (`OrderlyHistories`).

For the refund button, under `OfAssumption` (an approval is bound to one payload) and
`BoundAssumption`: `InductiveInvariant`, `TypeCorrect`, `CallsAreApproved`, `MoneyMovesAsApproved`,
`MoneyMovesAgainAsApproved` (`RefundApprovalsProofs`). The invariant has a part for each hazard.
`Bound`: what a press asks for is what its approval was granted for, and from `Decide` on the row says the same;
it lasts because a row never changes its reason. `Authority`: past the claim an approval is spent and no
other press holds it, so `Call` adds a call of its own. `Money`: every refund at Stripe has such a call
behind it, hence `RefundedAsApproved`. `Memory`: when Stripe has forgotten a key, no approval
from before the refund is granted, or in the hands of a press that may still call; since approvals are granted
once, none ever is again, and the next refund under that key has an approval of its own time.

For the maintenance jobs, under `DurationsAssumption`, `ReportsAssumption` and `NoneAssumption`:
`InductiveInvariant`, `TypeCorrect`, `ResultsAreOfTheLastLease`, `EndedJobsStay`,
`RevokedDevicesPostNothing` (`MaintenanceJobsProofs`). Every nonce a runner, a request or an answer on
its way carries was issued by a claim of its own device (so it is at most the job's count of claims),
and a revoked device holds no lease it was holding when it was revoked. From the further hypothesis
that no report is cut when it is stored (`Reports` and `Long` are disjoint), `ReplaysAreKnown`: a report
read again is answered "duplicate" exactly when it is the result that is stored.

For the deletion, under `DaysAssumption` and `HoldingAssumption`: `InductiveInvariant`, `ConfirmedOnce`,
`CancelledAreKept`, and, from the further hypothesis that the uses of a workspace add no row of a
purged kind, `DoneMeansEmpty` (`WorkspaceDeletionProofs`). A request's number is fresh, so what is
kept is no longer pending, and a pass that has started was started on or after its request's day;
whoever sends holds the claim of its key and has heard of no acceptance yet. `AnnouncedMeansGone` needs a little
more, `LateUse`: use adds only what a signed-in member or a tick in flight still can, sessions and due
runs. `DeletionInUse` (section 6) shows what both hypotheses exclude.

**Only model-checked**: the liveness properties (`EveryRunDecided`, `EveryDecisionFinalised`,
`EveryEventSettled`, `ReservationsDrain`, `EveryEventHandled`, `IndexedIsCarriedOut`, `EveryJobEnds`), because
TLAPS proves neither liveness under fairness nor anything of `ENABLED`. Every safety property
of a passing run is a theorem, under the hypotheses named above. No module uses a RECURSIVE operator; the sums
of the ledger are folds, of which the proofs evaluate only those over no month and over one.

## 6. Where code and comments disagree

Three are runs that TLC refutes, quoted in `PROJECT.json` under `findings`.

- **`LedgerStaleTally`**: `periodReconciliation.ts` says an admission during a repair makes its write
  match nothing; the runs are counted before the rows are read, so a run admitted in between has
  its reservation released, and its unit can be sold again.
- **`StripeSameSecond`**: `billing/state.ts` says nothing moves a cancelled subscription; an update and the
  cancellation of the same second, handled at once, pass the upsert's `>=` in either order, and the
  one that read the row first brings the subscription back.
- **`DeletionInUse`**: `privacy/requests.ts` confirms a deletion only when everything is gone; an event
  admitted after the source events were purged, while the workflow is still there, is in a table no
  later pass looks at, because its step is done.

### Known divergences

Met while reading and modelling; no run shows them.

- `packages/domain/src/schedule.ts:10-12,42` calls the number of external calls of a run a provable ceiling;
  observations are counted at the commit (`scheduler/observe.ts:425`), so one that has asked and dies before
  it commits is not counted.
- `scheduler/observe.ts:749-751` says a run without call budget stays open; it is judged and counted like any
  other and may be decided UNVERIFIED inside its window.
- `packages/domain/src/transitions.ts:4-7` says a decided run keeps its timing; finishing an interrupted
  finalisation rewrites `completed_at` (`scheduler/observe.ts:586`).
- `scheduler/dispatch.ts:13-14` says a failing row is buried after a bounded number of attempts; only
  `markFailed` looks at the bound (`db/webhooks.ts:299`), so a row whose dispatch dies each time is claimed
  for ever.
- `billing/period.ts:83`: the anchor's day is read off a period end that a short month has clamped, so for
  anchors on the 29th to the 31st a straddling run is settled, and counted by the repair, against the next
  period. `LedgerRepair` checks `SettleFindsItsRow` and `NeverOvercharged` for anchors every month has.
- `db/supportData.ts:648-653` says purging workflows that still have runs fails; the foreign keys cascade, as
  the test PERSIST-284 (`tests/integration/db/ports.test.ts`) and the model have it.
- `notifications/send.ts:2-14` and `privacy/requests.ts:439-440` promise one message per key at most. The claim keeps
  that between ticks, but an attempt that was accepted and whose answer was lost is made again, up to
  `MAX_SEND_ATTEMPTS` and without an idempotency key (`notifications/email.ts:119-128`). `AnnouncedOnce` is
  what remains: nothing is sent after an acceptance that was heard.
- `privacy/requests.ts:489-507`: the index of pending deletions is rewritten without a transaction, so two
  requests at once lose one of them; `:314`: asking again finds the record and does not add it to the index.
- `privacy/requests.ts:369-374`: a link left over from a cancellation that died half-way cancels a later
  request of the workspace (modelled). The checkpoints of a deletion that began are not cleared by cancelling it.
- A support case filed, by a member signed in, after the support cases were purged stays, like the events
  of `DeletionInUse`.
- `routes/webhooks/stripe.ts:193`: a duplicate of an event still in hand is answered 200; when the first
  delivery then gives it back, nobody sends it again (excused in `EveryEventHandled`).
- `billing/state.ts:18,168-172` says no event moves a stored `canceled`. A checkout handled late stores Stripe's
  record, cancelled by then, under the checkout's own older time (`billing/events.ts:283`); the handler of an
  update dated in between, which read the row before that, then passes the upsert's guard and goes over it,
  until the cancellation's own event is handled. The history `CheckedOut` has this; `CanceledIsTerminal` speaks
  of rows that carry the cancellation's date or a later one.
- `billing/recovery.ts:160` reports a suspension without looking at whether its save was refused.
- `maintenance/store.ts:128`: a lease request past authentication gives a job to a device revoked meanwhile.
  `maintenance/ownerPort.ts:151`: two submissions of one instant make two jobs when both look first.
  `maintenance/jobs.ts:528`: a result cut at `MAX_RESULT_CHARS` does not parse, and its replay is refused
  (`ReplayIsKnown` is checked for the others).
- `billing/refunds.ts:364-368` and the test BILL-142 (`refunds.test.ts:278-314`) ask of `consumeApproval` that an
  approval spent for the same refund can be spent again, so that a retry after a transport failure completes. The
  consumer `issueRefund` passes is `claimApproval` (`db/ownerPort.ts:935-941`), for which a spent approval is
  spent: `owner/approvals.ts:497` "authorises one action once". The consumer written to the first contract,
  `createRefundApprovalConsumer` (`db/approvalClaims.ts:79`), has no caller in the program. The model has what
  the button does, so the retry needs another approval; `OneCallPerApproval` is about `issueRefund` and
  does not hold of `decideRefund` with the other consumer.
- `billing/refunds.ts:71-72,499` and `docs/billing.md:320-321`: money cannot move twice, because a retry carries
  the row's own key. Stripe may drop a key after a day, while a row left `submitted` may be approved again at
  any later time: a new refund is then made, up to what is left of the charge. `MovedAgainIsApprovedAgain` is
  what remains. `Forget` assumes that no press lasts a day and that approvals expire after one, as they do.
- `billing/refunds.ts:75` (test BILL-148): Stripe may fail a refund it had reported as succeeded, and
  `refundTransition` refuses that event: the row stays `succeeded`. So there is no property that a row called
  refunded is true.
- `billing/refunds.ts:50` calls the table the legal moves only. `db/commerce.ts:545` writes a state without a guard:
  a press under way can write `submitted` over the `succeeded` of Stripe's event, and a repeated call is answered
  as the first time, `pending` perhaps, so the row can stay behind Stripe.
- `billing/refunds.ts:317-325`: a press that dies before the refund is queued leaves it `requested` for good.
  `billing/events.ts:618-650`: `charge.refunded` before Stripe's id is recorded matches nothing and is
  answered.

## 7. Not modelled

In the modelled components: the `run_attempts` ledger and evidence rows (written, never read back to
decide); how a call is retried inside one look (`planTransportRetry`), so a look spends one call;
the jitter of the backoff (a constant per count; any value is covered by the proofs); Retry-After,
which `observeRun` never passes; the retention and usage-alert passes of the tick. In the ledger:
which refusal a caller is given, the choice and order of workspaces a repair visits, more than one
workflow's ceiling, changes of the plan's limit. Of billing: opening a checkout or a portal session,
several orders or prices of one workspace, disputes, the notices sent. Of deletions: exports, which only
read, and the wording of the messages. Of the maintenance jobs: presence, priorities,
payloads, and the approval a coding-agent job needs. Of refunds: that the sum of an order's refunds
stays within it, the key of a partial refund (`requestKey`, which the button does not pass), and the owner's
rejection, which has no caller. Evaluation of assertions enters as the set of verdicts it can return:
it is a pure table over provider fields.

Large parts of the repository are outside a model checker's reach by their nature, which is why the mapped share of
the whole is small: pages, forms and styles, text and e-mail templates, parsing and validation of
payloads, cryptography, the HTTP clients of the connectors, in-memory doubles of the ports, test
tooling. They are listed `not_modelled` in `PROJECT.json`, each with its reason.

## 8. Plan

1. Done: the modules of section 2 and the proofs of section 5.
2. An abstract at-least-once queue, implemented by `OutboxDispatch` and by the receipts of `StripeMirror`;
   an abstract account (reserve, then consume or release) implemented by `PeriodLedger` under stable anchors.
3. Candidates for modules: notifications (claimed before they are sent) and the owner's alerts, usage
   alerts, the evidence inbox, the batches of the retention sweep, the growth tool's approvals, the list
   of workspaces the repair visits.

## 9. Running

In this directory: `tlc -config SchedulerRaces.cfg MCRunScheduler.tla`, and likewise the other
configurations: `Scheduler*.cfg` with `MCRunScheduler.tla`, `OutboxDispatch.cfg` with `MCOutboxDispatch.tla`,
`Ledger*.cfg` with `MCPeriodLedger.tla`, `Stripe*.cfg` with `MCStripeMirror.tla`, `WorkspaceDeletion.cfg`
and `DeletionInUse.cfg` with `MCWorkspaceDeletion.tla`, `MaintenanceJobs.cfg` and `RefundApprovals.cfg` with their
`MC` modules. Proofs: `tlapm` on each of the `...Proofs.tla` modules and on `RunSchedulerRefinement.tla`. Each
run takes at most a few minutes.
