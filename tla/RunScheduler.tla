---------------------------- MODULE RunScheduler ----------------------------
(***************************************************************************)
(* The due-run pass of the scheduler over the runs table.                  *)
(*                                                                         *)
(* Every cron tick is a Worker invocation of its own: ticks overlap, are   *)
(* killed without notice, and share nothing but the database.  A worker    *)
(* here is one such invocation.  It lists the due runs, claims each with a *)
(* compare-and-set that also leases it, and then takes the claimed runs    *)
(* one by one through observeRun.  Each database call is one step; between *)
(* two steps anything may happen.                                          *)
(***************************************************************************)
EXTENDS RunDecision

CONSTANTS
  Runs, Workers,
  Observations,   \* what looking at the providers can return: [results, gaps]
  Window,         \* workflow deadline_seconds
  Lease,          \* TICK_DEFAULTS.LEASE_SECONDS
  FinaliseDelay,  \* TICK_DEFAULTS.FINALISE_DELAY_SECONDS
  MaxRunsPerTick, \* TICK_DEFAULTS.MAX_RUNS_PER_TICK
  MaxCallsPerTick,\* TICK_DEFAULTS.MAX_EXTERNAL_CALLS, in looks
  RunLimit,       \* entitlements.run_limit of the period
  OtherUnits,     \* units the period holds reserved for runs not in Runs
  MaxTime,        \* bound: the clock stops here
  Horizon,        \* bound: no admission and no fault after this instant
  MaxFaults       \* bound: crashes, exceptions, overruns and pauses together

ASSUME SchedulerAssumption ==
  /\ Runs # {}
  /\ Window \in Nat \ {0}
  /\ Lease \in Nat \ {0}
  /\ FinaliseDelay \in Nat \ {0}
  /\ MaxRunsPerTick \in Nat \ {0}
  /\ MaxCallsPerTick \in Nat
  /\ RunLimit \in Nat /\ OtherUnits \in Nat
  /\ MaxTime \in Nat /\ Horizon \in Nat /\ MaxFaults \in Nat
  /\ \A obs \in Observations : obs.gaps \subseteq ConnectorErrorCode

VARIABLES
  (* the database *)
  runs,         \* the runs table
  assertions,   \* per run, the newest assertion set: [revision, verdict]
  outbox,       \* outbox rows, by unique_event_key
  entitlement,  \* the period's [reserved, consumed]
  paused,       \* the owner's expensive_verification control
  (* each worker's own memory *)
  pc,           \* the step it takes next
  tick,         \* its invocation: start time and calls spent
  batch,        \* what listDue returned and is still to be claimed
  held,         \* the claims it won and has not begun on
  cur,          \* the claim it is working on
  found,        \* what it is about to write: [status, count, next]
  (* the rest *)
  now,          \* the clock
  faults,       \* how many faults have happened
  settled       \* history: settlements made in a run's name

db    == <<runs, assertions, outbox, entitlement, paused>>
local == <<pc, tick, batch, held, cur, found>>
vars  == <<runs, assertions, outbox, entitlement, paused, pc, tick, batch, held,
           cur, found, now, faults, settled>>

-----------------------------------------------------------------------------
ABSENT == [status |-> "ABSENT", revision |-> 0, count |-> 0,
           deadline |-> NoTime, next |-> NoTime, completed |-> NoTime]

Admitted == {r \in Runs : runs[r].status # "ABSENT"}

\* WHERE next_check_at IS NOT NULL AND next_check_at <= ?
Due(r, t) == runs[r].next # NoTime /\ runs[r].next <= t

Created(r)          == [event |-> "run.created", run |-> r, status |-> "PENDING"]
Decided(r, status)  == [event |-> "run.decided", run |-> r, status |-> status]

NoClaim == [run |-> CHOOSE r \in Runs : TRUE, revision |-> 0]
NOTHING == [status |-> "PENDING", count |-> 0, next |-> NoTime]

\* What evaluation makes of a source that could not be asked.
STARVED == [results |-> {[mandatory |-> TRUE, status |-> "UNKNOWN",
                          reason |-> "EVIDENCE_UNAVAILABLE"]},
            gaps    |-> {"PROVIDER_UNAVAILABLE"}]

\* And of a source the workspace has no usable connection to.
UNCONNECTED == [results |-> {[mandatory |-> TRUE, status |-> "UNKNOWN",
                              reason |-> "CONNECTION_UNAVAILABLE"]},
                gaps    |-> {"PERMISSION_MISSING"}]

\* The steps of observeRun, in the order it takes them.
ObserveSteps == {"gather", "record", "commit", "resolve", "announce", "close", "settle"}
PC == {"idle", "claim", "between"} \cup ObserveSteps

-----------------------------------------------------------------------------
(* Admission, the clock and the owner: the scheduler's environment. *)

\* sourceEvents.admitOnce: one batch writes the run, its outbox row and the
\* reservation, or nothing.
Admit(r) ==
  /\ now <= Horizon
  /\ runs[r] = ABSENT
  /\ entitlement.reserved + entitlement.consumed < RunLimit
  /\ runs' = [runs EXCEPT ![r] =
       [status |-> "PENDING", revision |-> 1, count |-> 0,
        deadline |-> now + Window, next |-> now, completed |-> NoTime]]
  /\ outbox' = outbox \cup {Created(r)}
  /\ entitlement' = [entitlement EXCEPT !.reserved = @ + 1]
  /\ UNCHANGED <<assertions, paused, local, now, faults, settled>>

Advance ==
  /\ now < MaxTime
  /\ now' = now + 1
  /\ UNCHANGED <<db, local, faults, settled>>

MayFault == faults < MaxFaults /\ now <= Horizon

Pause ==
  /\ MayFault /\ ~paused
  /\ paused' = TRUE
  /\ faults' = faults + 1
  /\ UNCHANGED <<runs, assertions, outbox, entitlement, local, now, settled>>

Resume ==
  /\ paused
  /\ paused' = FALSE
  /\ UNCHANGED <<runs, assertions, outbox, entitlement, local, now, faults,
                 settled>>

-----------------------------------------------------------------------------
(* runDuePass: list, claim, then one run after another. *)

Goto(w, step) == pc' = [pc EXCEPT ![w] = step]

\* Done with one run: what was known of it is forgotten.
NextRun(w) ==
  /\ Goto(w, "between")
  /\ cur' = [cur EXCEPT ![w] = NoClaim]
  /\ found' = [found EXCEPT ![w] = NOTHING]

\* The invocation is over, one way or another: nothing of it remains.
Gone(w) ==
  /\ Goto(w, "idle")
  /\ tick' = [tick EXCEPT ![w] = [now |-> 0, calls |-> 0]]
  /\ batch' = [batch EXCEPT ![w] = {}]
  /\ held' = [held EXCEPT ![w] = {}]
  /\ cur' = [cur EXCEPT ![w] = NoClaim]
  /\ found' = [found EXCEPT ![w] = NOTHING]

\* The batch listDue returns: the longest due first, at most MaxRunsPerTick.
DueBatch(rs, t) ==
  LET due == {r \in Runs : Due(r, t)}
  IN  /\ rs \subseteq due
      /\ Cardinality(rs) =
           IF Cardinality(due) < MaxRunsPerTick THEN Cardinality(due) ELSE MaxRunsPerTick
      /\ \A r \in rs, q \in due \ rs : runs[r].next <= runs[q].next

\* The pause is read once, when the tick starts; a tick with nothing due
\* changes nothing and is not a step.
StartTick(w) ==
  /\ pc[w] = "idle"
  /\ ~paused
  /\ \E rs \in SUBSET Runs :
       /\ rs # {} /\ DueBatch(rs, now)
       /\ batch' = [batch EXCEPT ![w] = {[run |-> r, revision |-> runs[r].revision] : r \in rs}]
  /\ tick' = [tick EXCEPT ![w] = [now |-> now, calls |-> 0]]
  /\ Goto(w, "claim")
  /\ UNCHANGED <<db, held, cur, found, now, faults, settled>>

\* Mutants: the lease is dated back; the lease never ends.
LeaseEndedBefore(w) == tick[w].now - Lease
LeaseWithoutEnd(w) == NoTime

LeaseEnd(w) == tick[w].now + Lease

\* runs.tryClaim: win the row and a lease on it, or lose and move on.
TryClaim(w, c) ==
  LET row == runs[c.run]
      won == row.revision = c.revision /\ Due(c.run, tick[w].now)
  IN  /\ pc[w] = "claim" /\ c \in batch[w]
      /\ batch' = [batch EXCEPT ![w] = @ \ {c}]
      /\ runs' = IF won
                 THEN [runs EXCEPT ![c.run] =
                        [status |-> row.status, revision |-> row.revision + 1,
                         count |-> row.count, deadline |-> row.deadline,
                         next |-> LeaseEnd(w), completed |-> row.completed]]
                 ELSE runs
      /\ held' = IF won
                 THEN [held EXCEPT ![w] = @ \cup {[run |-> c.run, revision |-> c.revision + 1]}]
                 ELSE held
      /\ UNCHANGED <<assertions, outbox, entitlement, paused, pc, tick, cur, found,
                     now, faults, settled>>

ClaimsDone(w) ==
  /\ pc[w] = "claim" /\ batch[w] = {}
  /\ Goto(w, "between")
  /\ UNCHANGED <<db, tick, batch, held, cur, found, now, faults, settled>>

\* Mutants: a run decided already is observed again, or taken for announced.
ObserveWhateverItIs(row) == "gather"
DecidedIsAnnounced(row) == IF row.status \in TERMINAL THEN "close" ELSE "gather"

FirstStep(row) == IF row.status \in TERMINAL THEN "announce" ELSE "gather"

\* observeRun begins by reading the row.  A run already terminal is one
\* whose finalisation was interrupted: only that is finished.
BeginObserve(w, c) ==
  LET row == runs[c.run]
  IN  /\ pc[w] = "between" /\ c \in held[w]
      /\ Goto(w, FirstStep(row))
      /\ held' = [held EXCEPT ![w] = @ \ {c}]
      /\ cur' = [cur EXCEPT ![w] = c]
      /\ found' = [found EXCEPT ![w] =
           [status |-> row.status, count |-> row.count, next |-> NoTime]]
      /\ UNCHANGED <<db, tick, batch, now, faults, settled>>

EndTick(w) ==
  /\ pc[w] = "between" /\ held[w] = {}
  /\ Gone(w)
  /\ UNCHANGED <<db, now, faults, settled>>

-----------------------------------------------------------------------------
(* observeRun *)

\* Rules that do not load: nothing is gathered.
RulesUnusable(w) ==
  /\ pc[w] = "gather"
  /\ Goto(w, "resolve")
  /\ UNCHANGED <<db, tick, batch, held, cur, found, now, faults, settled>>

\* Mutant: a decided run needs no further check.
NoCheckOnceDecided(verdict, t) ==
  IF verdict.status \in TERMINAL THEN NoTime ELSE verdict.plan

\* When the row is next due: a decided run stays due until it is finalised.
NextCheck(verdict, t) ==
  IF verdict.status \in TERMINAL THEN t + FinaliseDelay ELSE verdict.plan

\* evaluateAssertions, planNextObservation and decideRunStatus over what
\* was gathered: local work.  A result with no mandatory assertion makes
\* decideRunStatus throw.
JudgeGathered(w, obs) ==
  LET count   == found[w].count + 1
      verdict == Judge(obs, count, runs[cur[w].run].deadline, tick[w].now)
  IN  IF Judgeable(obs.results)
      THEN /\ Goto(w, "record")
           /\ found' = [found EXCEPT ![w] =
                [status |-> verdict.status, count |-> count,
                 next   |-> NextCheck(verdict, tick[w].now)]]
      ELSE /\ Goto(w, "resolve")
           /\ UNCHANGED found

\* gatherEvidence asks the providers while the tick still has calls to spend.
Gather(w, obs) ==
  /\ pc[w] = "gather" /\ tick[w].calls < MaxCallsPerTick
  /\ tick' = [tick EXCEPT ![w] = [now |-> @.now, calls |-> @.calls + 1]]
  /\ JudgeGathered(w, obs)
  /\ UNCHANGED <<db, batch, held, cur, now, faults, settled>>

\* The tick's calls are spent: the source reads as a retryable outage.
GatherStarved(w) ==
  /\ pc[w] = "gather" /\ tick[w].calls >= MaxCallsPerTick
  /\ JudgeGathered(w, STARVED)
  /\ UNCHANGED <<db, tick, batch, held, cur, now, faults, settled>>

\* The resolver has no credential to ask with: no call is spent.
GatherUnconnected(w) ==
  /\ pc[w] = "gather"
  /\ JudgeGathered(w, UNCONNECTED)
  /\ UNCHANGED <<db, tick, batch, held, cur, now, faults, settled>>

\* Mutant: the latest writer's set is the one shown.
ShownWhenWritten(c) == TRUE

\* Readers are shown the set with the highest revision.
Shown(c) == c.revision >= assertions[c.run].revision

\* assertions.replaceForRevision, under the revision this worker claimed.
RecordAssertions(w) ==
  LET r == cur[w].run
  IN  /\ pc[w] = "record"
      /\ assertions' = IF Shown(cur[w])
                       THEN [assertions EXCEPT ![r] = [revision |-> cur[w].revision,
                                                       verdict  |-> found[w].status]]
                       ELSE assertions
      /\ Goto(w, "commit")
      /\ UNCHANGED <<runs, outbox, entitlement, paused, tick, batch, held, cur, found,
                     now, faults, settled>>

\* Mutant: no revision in the WHERE clause.
AppliedRegardless(c) == runs[c.run].revision >= c.revision

\* WHERE ... AND revision = ?
Applied(c) == runs[c.run].revision = c.revision

\* runs.applyOutcome: the compare-and-set every outcome goes through.
ApplyOutcome(c, status, next, count, completed) ==
  runs' = IF Applied(c)
          THEN [runs EXCEPT ![c.run] =
                 [status |-> status, revision |-> c.revision + 1, count |-> count,
                  deadline |-> runs[c.run].deadline, next |-> next, completed |-> completed]]
          ELSE runs

\* A terminal outcome has been committed at the claimed revision.
GoAnnounce(w, status) ==
  /\ Goto(w, "announce")
  /\ cur' = [cur EXCEPT ![w] = [run |-> @.run, revision |-> @.revision + 1]]
  /\ found' = [found EXCEPT ![w] = [status |-> status, count |-> @.count, next |-> @.next]]

\* THE COMMIT POINT.  A stale worker discards what it found.
Commit(w) ==
  LET terminal == found[w].status \in TERMINAL
  IN  /\ pc[w] = "commit"
      /\ ApplyOutcome(cur[w], found[w].status, found[w].next, found[w].count,
                      IF terminal THEN tick[w].now ELSE NoTime)
      /\ IF Applied(cur[w]) /\ terminal THEN GoAnnounce(w, found[w].status) ELSE NextRun(w)
      /\ UNCHANGED <<assertions, outbox, entitlement, paused, tick, batch, held,
                     now, faults, settled>>

\* resolveWithoutEvaluation: UNVERIFIED, with no assertion set of its own.
Resolve(w) ==
  /\ pc[w] = "resolve"
  /\ ApplyOutcome(cur[w], "UNVERIFIED", tick[w].now + FinaliseDelay, found[w].count,
                  tick[w].now)
  /\ IF Applied(cur[w]) THEN GoAnnounce(w, "UNVERIFIED") ELSE NextRun(w)
  /\ UNCHANGED <<assertions, outbox, entitlement, paused, tick, batch, held,
                 now, faults, settled>>

-----------------------------------------------------------------------------
(* finaliseTerminalRun *)

\* outbox.enqueue, ON CONFLICT(unique_event_key) DO NOTHING.
Announce(w) ==
  /\ pc[w] = "announce"
  /\ outbox' = outbox \cup {Decided(cur[w].run, found[w].status)}
  /\ Goto(w, "close")
  /\ UNCHANGED <<runs, assertions, entitlement, paused, tick, batch, held, cur, found,
                 now, faults, settled>>

\* Mutant: the loser of the compare-and-set settles too.
CloseOrNotSettle(w) ==
  /\ pc[w] = "close"
  /\ ApplyOutcome(cur[w], found[w].status, NoTime, found[w].count, tick[w].now)
  /\ Goto(w, "settle")
  /\ UNCHANGED <<assertions, outbox, entitlement, paused, tick, batch, held, cur, found,
                 now, faults, settled>>

\* The compare-and-set that ends the run's schedule; its winner settles.
Close(w) ==
  /\ pc[w] = "close"
  /\ ApplyOutcome(cur[w], found[w].status, NoTime, found[w].count, tick[w].now)
  /\ IF Applied(cur[w])
     THEN Goto(w, "settle") /\ UNCHANGED <<cur, found>>
     ELSE NextRun(w)
  /\ UNCHANGED <<assertions, outbox, entitlement, paused, tick, batch, held,
                 now, faults, settled>>

\* entitlements.settleReservation moves one unit, if one is reserved.
Settle(w) ==
  /\ pc[w] = "settle"
  /\ IF entitlement.reserved >= 1
     THEN /\ entitlement' = [reserved |-> entitlement.reserved - 1,
                             consumed |-> entitlement.consumed + 1]
          /\ settled' = [settled EXCEPT ![cur[w].run] = @ + 1]
     ELSE UNCHANGED <<entitlement, settled>>
  /\ NextRun(w)
  /\ UNCHANGED <<runs, assertions, outbox, paused, tick, batch, held, now, faults>>

\* resolveAllowancePeriodKey finds no subscription or no period end: the
\* unit stays reserved.
NoPeriodToSettle(w) ==
  /\ pc[w] = "settle"
  /\ NextRun(w)
  /\ UNCHANGED <<db, tick, batch, held, now, faults, settled>>

-----------------------------------------------------------------------------
(* What goes wrong. *)

\* A database call or the resolver throws: runDuePass drops this run and
\* goes on to the next one it holds.
Throw(w) ==
  /\ MayFault /\ pc[w] \in ObserveSteps
  /\ faults' = faults + 1
  /\ NextRun(w)
  /\ UNCHANGED <<db, tick, batch, held, now, settled>>

\* hasHeadroom turns false: the runs still held wait for their lease to end.
OutOfTime(w) ==
  /\ MayFault /\ pc[w] = "between" /\ held[w] # {}
  /\ faults' = faults + 1
  /\ Gone(w)
  /\ UNCHANGED <<db, now, settled>>

\* The invocation is killed, or the claim loop throws: everything local goes.
Crash(w) ==
  /\ MayFault /\ pc[w] # "idle"
  /\ faults' = faults + 1
  /\ Gone(w)
  /\ UNCHANGED <<db, now, settled>>

-----------------------------------------------------------------------------
Init ==
  /\ runs = [r \in Runs |-> ABSENT]
  /\ assertions = [r \in Runs |-> [revision |-> 0, verdict |-> "PENDING"]]
  /\ outbox = {}
  /\ entitlement = [reserved |-> OtherUnits, consumed |-> 0]
  /\ paused = FALSE
  /\ pc = [w \in Workers |-> "idle"]
  /\ tick = [w \in Workers |-> [now |-> 0, calls |-> 0]]
  /\ batch = [w \in Workers |-> {}]
  /\ held = [w \in Workers |-> {}]
  /\ cur = [w \in Workers |-> NoClaim]
  /\ found = [w \in Workers |-> NOTHING]
  /\ now = 0
  /\ faults = 0
  /\ settled = [r \in Runs |-> 0]

\* What one invocation does when nothing stops it.
Progress(w) ==
  \/ \E c \in batch[w] : TryClaim(w, c)
  \/ ClaimsDone(w)
  \/ \E c \in held[w] : BeginObserve(w, c)
  \/ EndTick(w)
  \/ RulesUnusable(w)
  \/ \E obs \in Observations : Gather(w, obs)
  \/ GatherStarved(w)
  \/ GatherUnconnected(w)
  \/ RecordAssertions(w)
  \/ Commit(w)
  \/ Resolve(w)
  \/ Announce(w)
  \/ Close(w)
  \/ Settle(w)
  \/ NoPeriodToSettle(w)

Fault(w) == Throw(w) \/ OutOfTime(w) \/ Crash(w)

Environment == (\E r \in Runs : Admit(r)) \/ Pause \/ Resume

Next ==
  \/ Environment
  \/ Advance
  \/ \E w \in Workers : StartTick(w) \/ Progress(w) \/ Fault(w)

Spec == Init /\ [][Next]_vars

-----------------------------------------------------------------------------
(* Properties *)

RunRow == [status: RunStatus \cup {"ABSENT"}, revision: Nat, count: Nat,
           deadline: Nat \cup {NoTime}, next: Nat \cup {NoTime},
           completed: Nat \cup {NoTime}]

Claim == [run: Runs, revision: Nat]

Finding == [status: RunStatus, count: Nat, next: Nat \cup {NoTime}]

OutboxRow == [event: {"run.created", "run.decided"}, run: Runs, status: RunStatus]

DatabaseTyped ==
  /\ runs \in [Runs -> RunRow]
  /\ assertions \in [Runs -> [revision: Nat, verdict: RunStatus]]
  /\ outbox \subseteq OutboxRow
  /\ entitlement \in [reserved: Nat, consumed: Nat]
  /\ paused \in BOOLEAN

WorkersTyped ==
  /\ pc \in [Workers -> PC]
  /\ tick \in [Workers -> [now: Nat, calls: Nat]]
  /\ batch \in [Workers -> SUBSET Claim]
  /\ held \in [Workers -> SUBSET Claim]
  /\ cur \in [Workers -> Claim]
  /\ found \in [Workers -> Finding]

CountersTyped ==
  /\ now \in Nat /\ now <= MaxTime
  /\ faults \in Nat /\ faults <= MaxFaults
  /\ settled \in [Runs -> Nat]

TypeOK == DatabaseTyped /\ WorkersTyped /\ CountersTyped

\* A run that is still open is always on the schedule: no mixture of gaps,
\* spent observations, deadlines and lost races leaves a PENDING run that no
\* tick will ever look at again.
PendingIsScheduled == \A r \in Runs : runs[r].status = "PENDING" => runs[r].next # NoTime

\* A run leaves the schedule only decided and announced: however ticks
\* overlap or die, the outbox row is there before next_check_at is cleared.
UnscheduledIsAnnounced ==
  \A r \in Admitted : runs[r].next = NoTime =>
    /\ runs[r].status \in TERMINAL
    /\ Decided(r, runs[r].status) \in outbox

\* What is announced is what was decided: no finaliser, however stale, puts
\* a second or a different verdict for a run in the outbox.
AnnouncementsAreTrue ==
  \A row \in outbox : row.event = "run.decided" =>
    row.status \in TERMINAL /\ runs[row.run].status = row.status

\* A run's allowance is settled at most once, and only after the run has
\* left the schedule: with units reserved for other runs in the period, a
\* second settlement would consume one of theirs.
SettledOnce ==
  \A r \in Runs : settled[r] <= 1 /\ (settled[r] = 1 => runs[r].next = NoTime)

\* The assertion set shown for a run decided VERIFIED or FAILED is the one
\* that decision was taken from, never a slower worker's.
ShownAssertionsAreTheDeciders ==
  \A r \in Runs : runs[r].status \in {"VERIFIED", "FAILED"} =>
    assertions[r].verdict = runs[r].status

\* A decided run keeps its status whatever a late worker brings.
DecidedStaysDecided ==
  [][\A r \in Runs : runs[r].status \in TERMINAL => runs'[r].status = runs[r].status]_vars

\* Observations never exceed their budget and are never given back: a stale
\* count cannot overwrite a newer one.
ObservationBudget ==
  [][\A r \in Runs : runs'[r].count >= runs[r].count
                    /\ runs'[r].count <= MaxObservations]_vars

-----------------------------------------------------------------------------
(* The inductive invariant behind them.  A claim is a row revision a worker *)
(* may still write at; everything follows from claims never running ahead   *)
(* of the row and never being shared.                                       *)

Working(w) == pc[w] \in ObserveSteps
Claims(w)  == held[w] \cup (IF Working(w) THEN {cur[w]} ELSE {})
Closed(r)  == runs[r].status # "ABSENT" /\ runs[r].next = NoTime

AbsentRowsAreEmpty == \A r \in Runs : runs[r].status = "ABSENT" => runs[r] = ABSENT

ClaimsBehindRow ==
  \A w \in Workers :
    /\ \A c \in batch[w] : runs[c.run].status # "ABSENT"
    /\ \A c \in Claims(w) : /\ runs[c.run].status # "ABSENT"
                           /\ c.revision <= runs[c.run].revision

ClaimsNotShared ==
  /\ \A v, w \in Workers : \A c \in Claims(v) : c \in Claims(w) => v = w
  /\ \A w \in Workers : Working(w) => cur[w] \notin held[w]

\* A worker still judging a run, and not yet overtaken, judges an open one.
JudgesOpen(w) ==
  pc[w] \in {"gather", "record", "commit", "resolve"} /\ Applied(cur[w])
    => runs[cur[w].run].status = "PENDING"

\* A worker finalising a run, overtaken or not, knows its verdict.
TellsTheTruth(w) ==
  pc[w] \in {"announce", "close", "settle"} =>
    /\ found[w].status \in TERMINAL
    /\ runs[cur[w].run].status = found[w].status

VerdictSafe ==
  /\ \A w \in Workers : JudgesOpen(w) /\ TellsTheTruth(w)
  /\ AnnouncementsAreTrue

\* What a worker is about to commit never strands a run.
CommitsKeepSchedule ==
  \A w \in Workers : pc[w] \in {"record", "commit"} => found[w].next # NoTime

AnnouncedBeforeClosing ==
  \A w \in Workers : pc[w] = "close" => Decided(cur[w].run, found[w].status) \in outbox

ScheduleSafe ==
  /\ PendingIsScheduled /\ UnscheduledIsAnnounced
  /\ CommitsKeepSchedule /\ AnnouncedBeforeClosing

\* Once a run has left the schedule no claim on it is good any more.
ClosedForGood ==
  \A w \in Workers : \A c \in Claims(w) :
    Closed(c.run) => c.revision < runs[c.run].revision

OneSettler ==
  \A w \in Workers : pc[w] = "settle" =>
    /\ Closed(cur[w].run)
    /\ settled[cur[w].run] = 0
    /\ \A v \in Workers : pc[v] = "settle" /\ cur[v].run = cur[w].run
                           => v = w

SettledRunsAreClosed ==
  \A r \in Runs : settled[r] <= 1 /\ (settled[r] = 1 => Closed(r))

Typed == TypeOK /\ AbsentRowsAreEmpty /\ ClaimsBehindRow

SettlementSafe == ClosedForGood /\ OneSettler /\ SettledRunsAreClosed

\* The set on show is no newer than the row, a worker about to commit has put
\* its own on show, and one still judging a run decided on its evidence comes
\* too late to show anything.
SetsBehindRow == \A r \in Runs : assertions[r].revision <= runs[r].revision

CommitsWhatItShowed ==
  \A w \in Workers : pc[w] = "commit" /\ Applied(cur[w]) =>
    /\ assertions[cur[w].run].revision = cur[w].revision
    /\ assertions[cur[w].run].verdict = found[w].status

LateSetsAreNotShown ==
  \A w \in Workers :
    pc[w] \in {"gather", "record"} /\ runs[cur[w].run].status \in {"VERIFIED", "FAILED"}
      => ~Shown(cur[w])

EvidenceSafe ==
  /\ ShownAssertionsAreTheDeciders
  /\ SetsBehindRow /\ CommitsWhatItShowed /\ LateSetsAreNotShown

\* A run that is still open has an observation left, and a worker not yet
\* overtaken carries the count of its row: one more once it has looked.
BudgetLeft ==
  \A r \in Runs : /\ runs[r].count <= MaxObservations
                  /\ runs[r].status = "PENDING" => runs[r].count < MaxObservations

CarriesTheCount(w) ==
  /\ pc[w] \in {"gather", "resolve", "announce", "close"} /\ Applied(cur[w]) =>
       found[w].count = runs[cur[w].run].count
  /\ pc[w] \in {"record", "commit"} =>
       /\ Applied(cur[w]) => found[w].count = runs[cur[w].run].count + 1
       /\ found[w].status = "PENDING" => found[w].count < MaxObservations

BudgetSafe == BudgetLeft /\ \A w \in Workers : CarriesTheCount(w)

IInv == /\ Typed /\ VerdictSafe /\ ScheduleSafe /\ SettlementSafe
        /\ ClaimsNotShared /\ EvidenceSafe /\ BudgetSafe

-----------------------------------------------------------------------------
\* The scheduler implements the promise of RunVerdict.
Verdict == INSTANCE RunVerdict WITH
  verdict   <- [r \in Runs |-> runs[r].status],
  announced <- {<<row.run, row.status>> : row \in {o \in outbox : o.event = "run.decided"}},
  closed    <- {r \in Admitted : runs[r].next = NoTime}

ImplementsVerdict == Verdict!Spec

-----------------------------------------------------------------------------
(* Liveness.  The cron fires every minute and a tick ends within it (20 s   *)
(* of wall clock), so the clock does not pass a due run nor an invocation   *)
(* that is still at work; a killed one is idle here.  The owner's pause     *)
(* stops the due pass, and the owner lifts it.                              *)

Punctual ==
  /\ \A w \in Workers : pc[w] = "idle"
  /\ paused \/ \A r \in Runs : ~Due(r, now)

PunctualNext ==
  \/ Environment
  \/ Punctual /\ Advance
  \/ \E w \in Workers : StartTick(w) \/ Progress(w) \/ Fault(w)

FairSpec ==
  /\ Init /\ [][PunctualNext]_vars
  /\ WF_vars(Punctual /\ Advance)
  /\ WF_vars(Resume)
  /\ \A w \in Workers : WF_vars(StartTick(w)) /\ WF_vars(Progress(w))

\* Every admitted run is decided, and every decided run is announced and
\* taken off the schedule, whichever ticks die on the way.
EveryRunDecided ==
  \A r \in Runs : runs[r].status = "PENDING" ~> runs[r].status \in TERMINAL

EveryDecisionFinalised ==
  \A r \in Runs : runs[r].status \in TERMINAL ~>
    runs[r].next = NoTime /\ Decided(r, runs[r].status) \in outbox

=============================================================================
