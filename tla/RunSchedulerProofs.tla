------------------------- MODULE RunSchedulerProofs -------------------------
(***************************************************************************)
(* Proofs about RunScheduler, for any number of runs and of overlapping    *)
(* ticks, any set of observations and any setting of the time constants.   *)
(***************************************************************************)
EXTENDS RunScheduler, TLAPS

(* The two pure decisions, first. *)

\* A plan is a time in the future, or none (planNextObservation).
LEMMA PlanIsLater ==
  ASSUME NEW count \in Nat \ {0}, NEW deadline \in Int, NEW t \in Nat, NEW gaps
  PROVE  LET plan == PlanNextObservation(count, deadline, t, gaps)
         IN  plan = NoTime \/ (plan \in Nat /\ plan > t)
  <1>1. CASE count >= MaxObservations
    BY <1>1 DEF PlanNextObservation
  <1>2. CASE ~(count >= MaxObservations)
    <2>1. MaxObservations \in Nat /\ Backoff \in [1..MaxObservations -> Nat \ {0}]
      BY DecisionAssumption
    <2>2. Backoff[count] \in Nat \ {0}
      BY <1>2, <2>1
    <2>. QED BY <2>2 DEF PlanNextObservation
  <1>. QED BY <1>1, <1>2

\* decideRunStatus answers PENDING only inside the window and with an
\* observation left; whatever it answers is a run status.
LEMMA PendingMeansMore ==
  ASSUME NEW results, NEW deadline \in Int, NEW t \in Nat, NEW access, NEW remaining
  PROVE  LET s == DecideRunStatus(results, deadline, t, access, remaining)
         IN  s \in RunStatus /\ (s = "PENDING" => t < deadline /\ remaining > 0)
  BY DEF DecideRunStatus, RunStatus

\* An observation that leaves a run PENDING has planned the next one: the
\* fact that keeps an open run on the schedule.
LEMMA PendingHasPlan ==
  ASSUME NEW obs, NEW count \in Nat \ {0}, NEW deadline \in Int, NEW t \in Nat
  PROVE  LET v == Judge(obs, count, deadline, t)
         IN  /\ v.status \in RunStatus
             /\ v.plan \in Nat \cup {NoTime}
             /\ v.status = "PENDING" => v.plan # NoTime
  <1> DEFINE plan == PlanNextObservation(count, deadline, t, obs.gaps)
             access == HasWorkingEvidenceAccess(obs.gaps)
             left == ObservationsRemaining(count, plan)
             s == DecideRunStatus(obs.results, deadline, t, access, left)
  <1>1. plan \in Nat \cup {NoTime}
    BY PlanIsLater
  <1>2. s \in RunStatus /\ (s = "PENDING" => left > 0)
    BY PendingMeansMore
  <1>3. plan = NoTime => left = 0
    BY DEF ObservationsRemaining
  <1>4. Judge(obs, count, deadline, t) = [status |-> s, plan |-> plan]
    BY DEF Judge
  <1> HIDE DEF plan, left, s, access
  <1>. QED BY <1>1, <1>2, <1>3, <1>4

-----------------------------------------------------------------------------
(* Type correctness.  A worker copies the status of the row it begins on,  *)
(* so the types depend on no claim ever being on an absent row.            *)

\* The rows and memory everything starts from are well typed.
LEMMA Constants ==
  /\ NoClaim \in Claim
  /\ NOTHING \in Finding
  /\ ABSENT \in RunRow
  <1>1. NoClaim \in Claim
    BY SchedulerAssumption DEF NoClaim, Claim
  <1>2. NOTHING \in Finding
    BY DEF NOTHING, Finding, RunStatus, NoTime
  <1>3. ABSENT \in RunRow
    BY DEF ABSENT, RunRow, NoTime
  <1>. QED BY <1>1, <1>2, <1>3

\* Types hold before the first admission.
LEMMA InitTyped == Init => Typed
  <1> SUFFICES ASSUME Init PROVE Typed
    OBVIOUS
  <1>1. DatabaseTyped
    <2>1. runs \in [Runs -> RunRow]
      BY Constants DEF Init
    <2>2. assertions \in [Runs -> [revision: Nat, verdict: RunStatus]]
      BY DEF Init, RunStatus
    <2>. QED BY <2>1, <2>2, SchedulerAssumption DEF Init, DatabaseTyped
  <1>2. WorkersTyped
    <2>1. pc \in [Workers -> PC] /\ cur \in [Workers -> Claim] /\ found \in [Workers -> Finding]
      BY Constants DEF Init, PC
    <2>2. /\ tick \in [Workers -> [now: Nat, calls: Nat]]
          /\ batch \in [Workers -> SUBSET Claim] /\ held \in [Workers -> SUBSET Claim]
      BY DEF Init
    <2>. QED BY <2>1, <2>2 DEF WorkersTyped
  <1>3. CountersTyped
    BY SchedulerAssumption DEF Init, CountersTyped
  <1>4. AbsentRowsAreEmpty
    BY DEF Init, AbsentRowsAreEmpty
  <1>5. ClaimsBehindRow
    BY DEF Init, ClaimsBehindRow, Claims, Working, ObserveSteps
  <1>. QED BY <1>1, <1>2, <1>3, <1>4, <1>5 DEF Typed, TypeOK

\* No step un-admits a run or moves a row's revision back, and the workers
\* hold no claim they did not hold: then no claim runs ahead of its row.
RowsOnlyGrow ==
  \A r \in Runs : runs[r].status # "ABSENT" =>
    runs'[r].status # "ABSENT" /\ runs'[r].revision >= runs[r].revision

NoNewClaims ==
  \A w \in Workers : batch'[w] \subseteq batch[w] /\ Claims(w)' \subseteq Claims(w)

\* Claims stay behind their rows while rows only grow and no claim is new.
LEMMA ClaimsKept ==
  ASSUME Typed, DatabaseTyped', WorkersTyped', RowsOnlyGrow, NoNewClaims
  PROVE  ClaimsBehindRow'
  <1> SUFFICES ASSUME NEW w \in Workers
               PROVE  /\ \A c \in batch'[w] : runs'[c.run].status # "ABSENT"
                      /\ \A c \in Claims(w)' : /\ runs'[c.run].status # "ABSENT"
                                              /\ c.revision <= runs'[c.run].revision
    BY DEF ClaimsBehindRow
  <1>1. ASSUME NEW c \in batch'[w] PROVE runs'[c.run].status # "ABSENT"
    <2>1. c \in batch[w] /\ c \in Claim
      BY DEF NoNewClaims, Typed, TypeOK, WorkersTyped
    <2>. QED BY <2>1 DEF Typed, ClaimsBehindRow, RowsOnlyGrow, Claim
  <1>2. ASSUME NEW c \in Claims(w)'
        PROVE  runs'[c.run].status # "ABSENT" /\ c.revision <= runs'[c.run].revision
    <2>1. c \in Claims(w) /\ c \in Claim
      BY DEF NoNewClaims, Claims, Typed, TypeOK, WorkersTyped
    <2>2. /\ runs[c.run].status # "ABSENT" /\ c.revision <= runs[c.run].revision
          /\ c.run \in Runs /\ c.revision \in Nat
      BY <2>1 DEF Typed, ClaimsBehindRow, Claim
    <2>3. runs[c.run].revision \in Nat /\ runs'[c.run].revision \in Nat
      BY <2>2 DEF Typed, TypeOK, DatabaseTyped, RunRow
    <2>. QED BY <2>2, <2>3 DEF RowsOnlyGrow
  <1>. QED BY <1>1, <1>2

\* Dropping one run, or the whole invocation, leaves a well-formed worker
\* with no claim it did not have.
LEMMA NextRunTyped ==
  ASSUME WorkersTyped, NEW w \in Workers, NextRun(w), UNCHANGED <<tick, batch, held>>
  PROVE  WorkersTyped' /\ NoNewClaims
  <1>1. pc' \in [Workers -> PC] /\ cur' \in [Workers -> Claim] /\ found' \in [Workers -> Finding]
    BY Constants DEF NextRun, Goto, WorkersTyped, PC
  <1>2. WorkersTyped'
    BY <1>1 DEF WorkersTyped
  <1>3. NoNewClaims
    BY DEF NoNewClaims, NextRun, Goto, WorkersTyped, Claims, Working, ObserveSteps
  <1>. QED BY <1>2, <1>3

\* An invocation that ends leaves well-typed memory behind.
LEMMA GoneTyped ==
  ASSUME WorkersTyped, NEW w \in Workers, Gone(w)
  PROVE  WorkersTyped' /\ NoNewClaims
  <1>1. pc' \in [Workers -> PC] /\ cur' \in [Workers -> Claim] /\ found' \in [Workers -> Finding]
    BY Constants DEF Gone, Goto, WorkersTyped, PC
  <1>2. /\ tick' \in [Workers -> [now: Nat, calls: Nat]]
        /\ batch' \in [Workers -> SUBSET Claim] /\ held' \in [Workers -> SUBSET Claim]
    BY DEF Gone, WorkersTyped
  <1>3. WorkersTyped'
    BY <1>1, <1>2 DEF WorkersTyped
  <1>4. NoNewClaims
    BY DEF NoNewClaims, Gone, Goto, WorkersTyped, Claims, Working, ObserveSteps
  <1>. QED BY <1>3, <1>4

\* Moving one step on inside observeRun brings no claim either.
LEMMA GotoTyped ==
  ASSUME WorkersTyped, NEW w \in Workers, NEW step \in PC, Goto(w, step),
         Working(w) \/ step \notin ObserveSteps,
         UNCHANGED <<batch, held, cur>>, found' \in [Workers -> Finding],
         tick' \in [Workers -> [now: Nat, calls: Nat]]
  PROVE  WorkersTyped' /\ NoNewClaims
  <1>1. WorkersTyped'
    BY DEF Goto, WorkersTyped
  <1>2. NoNewClaims
    BY DEF NoNewClaims, Goto, WorkersTyped, Claims, Working
  <1>. QED BY <1>1, <1>2

\* The outcome compare-and-set keeps the row well formed.
LEMMA ApplyOutcomeTyped ==
  ASSUME Typed, NEW w \in Workers, Working(w), NEW status \in RunStatus,
         NEW next \in Nat \cup {NoTime}, NEW count \in Nat,
         NEW completed \in Nat \cup {NoTime},
         ApplyOutcome(cur[w], status, next, count, completed)
  PROVE  /\ runs' \in [Runs -> RunRow]
         /\ RowsOnlyGrow
         /\ \A r \in Runs : runs'[r].status = "ABSENT" => runs'[r] = runs[r]
  <1>1. cur[w] \in Claim /\ cur[w].run \in Runs /\ cur[w].revision \in Nat
    BY DEF Typed, TypeOK, WorkersTyped, Claim
  <1>2. runs \in [Runs -> RunRow]
    BY DEF Typed, TypeOK, DatabaseTyped
  <1> DEFINE row == [status |-> status, revision |-> cur[w].revision + 1, count |-> count,
                     deadline |-> runs[cur[w].run].deadline, next |-> next,
                     completed |-> completed]
  <1>3. runs[cur[w].run] \in RunRow
    BY <1>1, <1>2
  <1>4. row \in RunRow /\ row.status = status /\ row.revision = cur[w].revision + 1
    BY <1>1, <1>3 DEF RunRow
  <1>5. status # "ABSENT"
    BY DEF RunStatus
  <1>6. runs' = IF Applied(cur[w]) THEN [runs EXCEPT ![cur[w].run] = row] ELSE runs
    BY DEF ApplyOutcome
  <1> HIDE DEF row
  <1>7. \A r \in Runs : runs[r].revision \in Nat
    BY <1>2 DEF RunRow
  <1>8. CASE Applied(cur[w])
    <2>1. runs' = [runs EXCEPT ![cur[w].run] = row] /\ runs[cur[w].run].revision = cur[w].revision
      BY <1>6, <1>8 DEF Applied
    <2>2. runs' \in [Runs -> RunRow]
      BY <2>1, <1>2, <1>4
    <2>3. \A r \in Runs : r # cur[w].run => runs'[r] = runs[r]
      BY <2>1, <1>2
    <2>4. runs'[cur[w].run] = row
      BY <2>1, <1>1, <1>2
    <2>5. RowsOnlyGrow
      BY <2>1, <2>3, <2>4, <1>1, <1>4, <1>5, <1>7 DEF RowsOnlyGrow
    <2>. QED BY <2>2, <2>3, <2>4, <2>5, <1>4, <1>5
  <1>9. CASE ~Applied(cur[w])
    <2>1. runs' = runs
      BY <1>6, <1>9
    <2>. QED BY <2>1, <1>2, <1>7 DEF RowsOnlyGrow
  <1>. QED BY <1>8, <1>9

\* A step of the environment.
LEMMA EnvironmentTyped ==
  ASSUME Typed, Environment \/ Advance
  PROVE  Typed'
  <1>0. /\ DatabaseTyped /\ WorkersTyped /\ CountersTyped /\ AbsentRowsAreEmpty
        /\ runs \in [Runs -> RunRow]
    BY DEF Typed, TypeOK, DatabaseTyped
  <1>1. ASSUME NEW r \in Runs, Admit(r) PROVE Typed'
    <2> DEFINE row == [status |-> "PENDING", revision |-> 1, count |-> 0,
                       deadline |-> now + Window, next |-> now, completed |-> NoTime]
    <2>1. row \in RunRow /\ row.status = "PENDING"
      BY <1>0, SchedulerAssumption DEF RunRow, RunStatus, CountersTyped
    <2>2. runs' = [runs EXCEPT ![r] = row] /\ runs[r].status = "ABSENT"
      BY <1>1 DEF Admit, ABSENT
    <2> HIDE DEF row
    <2>3. runs' \in [Runs -> RunRow]
      BY <2>1, <2>2, <1>0
    <2>4. outbox' \subseteq OutboxRow
      BY <1>1, <1>0 DEF Admit, Created, OutboxRow, DatabaseTyped, RunStatus
    <2>5. entitlement' \in [reserved: Nat, consumed: Nat]
      BY <1>1, <1>0 DEF Admit, DatabaseTyped
    <2>6. DatabaseTyped' /\ WorkersTyped' /\ CountersTyped'
      BY <1>1, <1>0, <2>3, <2>4, <2>5
      DEF Admit, local, DatabaseTyped, WorkersTyped, CountersTyped
    <2>7. AbsentRowsAreEmpty'
      BY <1>0, <2>1, <2>2 DEF AbsentRowsAreEmpty
    <2>8. RowsOnlyGrow
      BY <1>0, <2>2 DEF RowsOnlyGrow, RunRow
    <2>9. NoNewClaims
      BY <1>1 DEF Admit, local, NoNewClaims, Claims, Working
    <2>. QED BY <2>6, <2>7, <2>8, <2>9, ClaimsKept DEF Typed, TypeOK
  <1>2. ASSUME Pause \/ Resume \/ Advance PROVE Typed'
    <2>1. DatabaseTyped' /\ WorkersTyped'
      BY <1>2, <1>0 DEF Pause, Resume, Advance, db, local, DatabaseTyped, WorkersTyped
    <2>2. CountersTyped'
      BY <1>2, <1>0, SchedulerAssumption
      DEF Pause, Resume, Advance, MayFault, db, local, CountersTyped
    <2>3. AbsentRowsAreEmpty' /\ RowsOnlyGrow /\ NoNewClaims
      BY <1>2, <1>0 DEF Pause, Resume, Advance, db, local, AbsentRowsAreEmpty, RowsOnlyGrow,
                        NoNewClaims, Claims, Working, RunRow
    <2>. QED BY <2>1, <2>2, <2>3, ClaimsKept DEF Typed, TypeOK
  <1>. QED BY <1>1, <1>2 DEF Environment

\* A step of the due-run pass: listing, claiming, beginning on a run.
LEMMA DuePassTyped ==
  ASSUME Typed, NEW w \in Workers,
         \/ StartTick(w) \/ (\E c \in batch[w] : TryClaim(w, c)) \/ ClaimsDone(w)
         \/ (\E c \in held[w] : BeginObserve(w, c)) \/ EndTick(w)
  PROVE  Typed'
  <1>0. /\ DatabaseTyped /\ WorkersTyped /\ CountersTyped /\ AbsentRowsAreEmpty
        /\ ClaimsBehindRow /\ runs \in [Runs -> RunRow]
    BY DEF Typed, TypeOK, DatabaseTyped
  <1>1. ASSUME StartTick(w) PROVE Typed'
    <2>1. PICK rs \in SUBSET Runs :
            /\ DueBatch(rs, now)
            /\ batch' = [batch EXCEPT ![w] = {[run |-> r, revision |-> runs[r].revision] : r \in rs}]
      BY <1>1 DEF StartTick
    <2>2. batch' \in [Workers -> SUBSET Claim]
      BY <2>1, <1>0 DEF WorkersTyped, Claim, RunRow
    <2>3. tick' \in [Workers -> [now: Nat, calls: Nat]]
      BY <1>1, <1>0 DEF StartTick, WorkersTyped, CountersTyped
    <2>4. WorkersTyped'
      BY <1>1, <1>0, <2>2, <2>3 DEF StartTick, Goto, WorkersTyped, PC
    <2>5. DatabaseTyped' /\ CountersTyped' /\ AbsentRowsAreEmpty'
      BY <1>1, <1>0 DEF StartTick, db, DatabaseTyped, CountersTyped, AbsentRowsAreEmpty
    <2>6. \A r \in rs : runs[r].status # "ABSENT"
      BY <2>1, <1>0 DEF DueBatch, Due, AbsentRowsAreEmpty, ABSENT
    <2>7. \A v \in Workers : \A c \in batch'[v] : runs'[c.run].status # "ABSENT"
      <3> SUFFICES ASSUME NEW v \in Workers, NEW c \in batch'[v]
                   PROVE  runs[c.run].status # "ABSENT"
        BY <1>1 DEF StartTick, db
      <3>1. CASE v = w
        BY <3>1, <2>1, <2>6, <1>0 DEF WorkersTyped
      <3>2. CASE v # w
        BY <3>2, <2>1, <1>0 DEF WorkersTyped, ClaimsBehindRow
      <3>. QED BY <3>1, <3>2
    <2>8. \A v \in Workers : Claims(v)' \subseteq Claims(v)
      BY <1>1, <1>0 DEF StartTick, Goto, WorkersTyped, Claims, Working, ObserveSteps
    <2>9. ClaimsBehindRow'
      BY <2>7, <2>8, <1>1, <1>0 DEF StartTick, db, ClaimsBehindRow
    <2>. QED BY <2>4, <2>5, <2>9 DEF Typed, TypeOK
  <1>2. ASSUME NEW c \in batch[w], TryClaim(w, c) PROVE Typed'
    <2> DEFINE row == runs[c.run]
               won == row.revision = c.revision /\ Due(c.run, tick[w].now)
               leased == [status |-> row.status, revision |-> row.revision + 1,
                          count |-> row.count, deadline |-> row.deadline,
                          next |-> tick[w].now + Lease, completed |-> row.completed]
               lease == [run |-> c.run, revision |-> c.revision + 1]
    <2>1. c \in Claim /\ c.run \in Runs /\ c.revision \in Nat /\ row \in RunRow
      BY <1>0 DEF WorkersTyped, Claim
    <2>2. row.status # "ABSENT"
      BY <1>0 DEF ClaimsBehindRow
    <2>3. tick[w].now + Lease \in Nat
      BY <1>0, SchedulerAssumption DEF WorkersTyped
    <2>4. leased \in RunRow /\ leased.status # "ABSENT" /\ leased.revision = row.revision + 1
      BY <2>1, <2>2, <2>3 DEF RunRow
    <2>5. lease \in Claim
      BY <2>1 DEF Claim
    <2>6. runs' = IF won THEN [runs EXCEPT ![c.run] = leased] ELSE runs
      BY <1>2 DEF TryClaim, LeaseEnd
    <2>7. held' = IF won THEN [held EXCEPT ![w] = @ \cup {lease}] ELSE held
      BY <1>2 DEF TryClaim
    <2>8. batch' = [batch EXCEPT ![w] = @ \ {c}] /\ UNCHANGED <<pc, tick, cur, found>>
      BY <1>2 DEF TryClaim
    <2>a. row.revision \in Nat
      BY <2>1 DEF RunRow
    <2>b. won => row.revision = c.revision
      OBVIOUS
    <2> HIDE DEF won, leased, lease
    <2>9. runs' \in [Runs -> RunRow]
      BY <2>4, <2>6, <1>0
    <2>10. DatabaseTyped' /\ CountersTyped'
      BY <2>9, <1>0, <1>2 DEF TryClaim, DatabaseTyped, CountersTyped
    <2>11. held' \in [Workers -> SUBSET Claim] /\ batch' \in [Workers -> SUBSET Claim]
      BY <2>5, <2>7, <2>8, <1>0 DEF WorkersTyped
    <2>12. WorkersTyped'
      BY <2>11, <2>8, <1>0 DEF WorkersTyped
    <2>13. \A r \in Runs : runs'[r] = runs[r] \/ (won /\ r = c.run /\ runs'[r] = leased)
      BY <2>6, <2>1, <1>0
    <2>14. RowsOnlyGrow
      <3> SUFFICES ASSUME NEW r \in Runs, runs[r].status # "ABSENT"
                   PROVE  runs'[r].status # "ABSENT" /\ runs'[r].revision >= runs[r].revision
        BY DEF RowsOnlyGrow
      <3>1. runs[r].revision \in Nat
        BY <1>0 DEF RunRow
      <3>. QED BY <2>13, <2>4, <2>a, <3>1
    <2>15. AbsentRowsAreEmpty'
      BY <2>13, <2>4, <1>0 DEF AbsentRowsAreEmpty
    <2>16. \A v \in Workers : batch'[v] \subseteq batch[v]
      BY <2>8, <1>0 DEF WorkersTyped
    <2>17. \A v \in Workers : \A d \in Claims(v)' :
             d \in Claims(v) \/ (won /\ v = w /\ d = lease)
      BY <2>7, <2>8, <1>0 DEF WorkersTyped, Claims, Working
    <2>18. lease.run = c.run /\ lease.revision = c.revision + 1
      BY DEF lease
    <2>19. ClaimsBehindRow'
      <3> SUFFICES ASSUME NEW v \in Workers
                   PROVE  /\ \A d \in batch'[v] : runs'[d.run].status # "ABSENT"
                          /\ \A d \in Claims(v)' : /\ runs'[d.run].status # "ABSENT"
                                                  /\ d.revision <= runs'[d.run].revision
        BY DEF ClaimsBehindRow
      <3>1. ASSUME NEW d \in batch'[v] PROVE runs'[d.run].status # "ABSENT"
        <4>1. d \in batch[v] /\ d.run \in Runs
          BY <2>16, <2>11 DEF Claim
        <4>. QED BY <4>1, <2>14, <1>0 DEF ClaimsBehindRow, RowsOnlyGrow
      <3>2. ASSUME NEW d \in Claims(v)'
            PROVE  runs'[d.run].status # "ABSENT" /\ d.revision <= runs'[d.run].revision
        <4>1. CASE d \in Claims(v)
          <5>1. /\ d.run \in Runs /\ d.revision \in Nat
                /\ runs[d.run].status # "ABSENT" /\ d.revision <= runs[d.run].revision
            BY <4>1, <1>0 DEF ClaimsBehindRow, Claims, WorkersTyped, Claim
          <5>2. runs[d.run].revision \in Nat /\ runs'[d.run].revision \in Nat
            BY <5>1, <1>0, <2>9 DEF RunRow
          <5>. QED BY <5>1, <5>2, <2>14 DEF RowsOnlyGrow
        <4>2. CASE won /\ v = w /\ d = lease
          <5>1. runs'[c.run] = leased
            BY <4>2, <2>6, <2>1, <1>0
          <5>. QED BY <5>1, <4>2, <2>18, <2>4, <2>b, <2>1
        <4>. QED BY <4>1, <4>2, <2>17
      <3>. QED BY <3>1, <3>2
    <2>. QED BY <2>10, <2>12, <2>15, <2>19 DEF Typed, TypeOK
  <1>3. ASSUME ClaimsDone(w) PROVE Typed'
    <2>1. DatabaseTyped' /\ CountersTyped' /\ AbsentRowsAreEmpty' /\ RowsOnlyGrow
      BY <1>3, <1>0 DEF ClaimsDone, db, DatabaseTyped, CountersTyped, AbsentRowsAreEmpty,
                        RowsOnlyGrow, RunRow
    <2>2. WorkersTyped' /\ NoNewClaims
      BY <1>3, <1>0, GotoTyped DEF ClaimsDone, WorkersTyped, PC, ObserveSteps
    <2>. QED BY <2>1, <2>2, ClaimsKept DEF Typed, TypeOK
  <1>4. ASSUME NEW c \in held[w], BeginObserve(w, c) PROVE Typed'
    <2>1. c \in Claim /\ c.run \in Runs /\ runs[c.run] \in RunRow
      BY <1>0 DEF WorkersTyped, Claim
    <2>2. runs[c.run].status \in RunStatus
      BY <2>1, <1>0 DEF ClaimsBehindRow, Claims, RunRow
    <2>3. [status |-> runs[c.run].status, count |-> runs[c.run].count, next |-> NoTime] \in Finding
      BY <2>1, <2>2 DEF RunRow, Finding
    <2>4. found' \in [Workers -> Finding]
      BY <2>3, <1>4, <1>0 DEF BeginObserve, WorkersTyped
    <2>5. WorkersTyped'
      BY <1>4, <1>0, <2>1, <2>4 DEF BeginObserve, FirstStep, Goto, WorkersTyped, PC, ObserveSteps
    <2>6. NoNewClaims
      BY <1>4, <1>0 DEF BeginObserve, FirstStep, Goto, WorkersTyped, NoNewClaims, Claims, Working
    <2>7. DatabaseTyped' /\ CountersTyped' /\ AbsentRowsAreEmpty' /\ RowsOnlyGrow
      BY <1>4, <1>0 DEF BeginObserve, db, DatabaseTyped, CountersTyped, AbsentRowsAreEmpty,
                        RowsOnlyGrow, RunRow
    <2>. QED BY <2>5, <2>6, <2>7, ClaimsKept DEF Typed, TypeOK
  <1>5. ASSUME EndTick(w) PROVE Typed'
    <2>1. WorkersTyped' /\ NoNewClaims
      BY <1>5, <1>0, GoneTyped DEF EndTick
    <2>2. DatabaseTyped' /\ CountersTyped' /\ AbsentRowsAreEmpty' /\ RowsOnlyGrow
      BY <1>5, <1>0 DEF EndTick, db, DatabaseTyped, CountersTyped, AbsentRowsAreEmpty,
                        RowsOnlyGrow, RunRow
    <2>. QED BY <2>1, <2>2, ClaimsKept DEF Typed, TypeOK
  <1>. QED BY <1>1, <1>2, <1>3, <1>4, <1>5

\* What judging an observation leaves the worker with.
LEMMA JudgedTyped ==
  ASSUME Typed, NEW w \in Workers, pc[w] = "gather", NEW obs, JudgeGathered(w, obs)
  PROVE  /\ found' \in [Workers -> Finding]
         /\ \E step \in {"record", "resolve"} : Goto(w, step)
         /\ pc'[w] = "record" => found'[w].next # NoTime
         /\ \A v \in Workers : v # w => found'[v] = found[v]
  <1> DEFINE deadline == runs[cur[w].run].deadline
             count == found[w].count + 1
             t == tick[w].now
             v == Judge(obs, count, deadline, t)
             next == IF v.status \in TERMINAL THEN t + FinaliseDelay ELSE v.plan
             new == [status |-> v.status, count |-> count, next |-> next]
  <1>0. /\ cur[w].run \in Runs /\ found[w] \in Finding /\ t \in Nat
        /\ found \in [Workers -> Finding] /\ pc \in [Workers -> PC]
        /\ runs[cur[w].run] \in RunRow
    BY DEF Typed, TypeOK, DatabaseTyped, WorkersTyped, Claim
  <1>1. count \in Nat \ {0} /\ deadline \in Int
    BY <1>0 DEF Finding, RunRow, NoTime
  <1>2. /\ v.status \in RunStatus /\ v.plan \in Nat \cup {NoTime}
        /\ v.status = "PENDING" => v.plan # NoTime
    BY <1>0, <1>1, PendingHasPlan
  <1>3. t + FinaliseDelay \in Nat /\ t + FinaliseDelay # NoTime
    BY <1>0, SchedulerAssumption DEF NoTime
  <1>4. IF Judgeable(obs.results)
        THEN Goto(w, "record") /\ found' = [found EXCEPT ![w] = new]
        ELSE Goto(w, "resolve") /\ UNCHANGED found
    BY DEF JudgeGathered, NextCheck
  <1>5. next \in Nat \cup {NoTime} /\ next # NoTime
    <2> HIDE DEF v
    <2>. QED BY <1>2, <1>3 DEF TERMINAL
  <1> HIDE DEF next, v, t, count
  <1>6. new \in Finding /\ new.next # NoTime
    BY <1>1, <1>2, <1>5 DEF Finding
  <1> HIDE DEF new
  <1>7. CASE Judgeable(obs.results)
    <2>1. Goto(w, "record") /\ found' = [found EXCEPT ![w] = new]
      BY <1>4, <1>7
    <2>2. found' \in [Workers -> Finding] /\ found'[w] = new
      BY <2>1, <1>0, <1>6
    <2>. QED BY <2>1, <2>2, <1>6, <1>0
  <1>8. CASE ~Judgeable(obs.results)
    BY <1>4, <1>8, <1>0 DEF Goto
  <1>. QED BY <1>7, <1>8

\* A step inside observeRun that leaves the runs table alone.
LEMMA ObserveTyped ==
  ASSUME Typed, NEW w \in Workers,
         \/ RulesUnusable(w) \/ (\E obs \in Observations : Gather(w, obs))
         \/ GatherStarved(w) \/ GatherUnconnected(w)
         \/ RecordAssertions(w) \/ Announce(w) \/ Settle(w) \/ NoPeriodToSettle(w)
  PROVE  Typed'
  <1>0. /\ DatabaseTyped /\ WorkersTyped /\ CountersTyped /\ AbsentRowsAreEmpty
        /\ runs \in [Runs -> RunRow]
    BY DEF Typed, TypeOK, DatabaseTyped
  <1>1. runs' = runs
    BY DEF RulesUnusable, Gather, GatherStarved, GatherUnconnected, RecordAssertions,
           Announce, Settle, NoPeriodToSettle, db
  <1>2. AbsentRowsAreEmpty' /\ RowsOnlyGrow
    BY <1>0, <1>1 DEF AbsentRowsAreEmpty, RowsOnlyGrow, RunRow
  <1>3. cur[w].run \in Runs /\ cur[w].revision \in Nat /\ found[w].status \in RunStatus
    BY <1>0 DEF WorkersTyped, Claim, Finding
  <1>4. ASSUME RulesUnusable(w) PROVE DatabaseTyped' /\ CountersTyped' /\ WorkersTyped' /\ NoNewClaims
    <2>1. DatabaseTyped' /\ CountersTyped'
      BY <1>4, <1>0 DEF RulesUnusable, db, DatabaseTyped, CountersTyped
    <2>2. WorkersTyped' /\ NoNewClaims
      BY <1>4, <1>0, GotoTyped DEF RulesUnusable, WorkersTyped, PC, ObserveSteps, Working
    <2>. QED BY <2>1, <2>2
  <1>5. ASSUME NEW obs \in Observations, Gather(w, obs)
        PROVE  DatabaseTyped' /\ CountersTyped' /\ WorkersTyped' /\ NoNewClaims
    <2>1. pc[w] = "gather" /\ JudgeGathered(w, obs) /\ UNCHANGED <<batch, held, cur>>
      BY <1>5 DEF Gather
    <2>3. DatabaseTyped' /\ CountersTyped'
      BY <1>5, <1>0 DEF Gather, db, DatabaseTyped, CountersTyped
    <2>4. [now |-> tick[w].now, calls |-> tick[w].calls + 1] \in [now: Nat, calls: Nat]
      BY <1>0 DEF WorkersTyped
    <2>5. tick' \in [Workers -> [now: Nat, calls: Nat]]
      BY <1>5, <1>0, <2>4 DEF Gather, WorkersTyped
    <2>6. found' \in [Workers -> Finding] /\ \E step \in {"record", "resolve"} : Goto(w, step)
      BY <2>1, JudgedTyped
    <2>7. WorkersTyped' /\ NoNewClaims
      BY <2>1, <2>5, <2>6, <1>0, GotoTyped DEF PC, ObserveSteps, Working
    <2>. QED BY <2>3, <2>7
  <1>6. ASSUME GatherStarved(w) \/ GatherUnconnected(w)
        PROVE  DatabaseTyped' /\ CountersTyped' /\ WorkersTyped' /\ NoNewClaims
    <2>1. /\ pc[w] = "gather" /\ UNCHANGED <<batch, held, cur, tick>>
          /\ JudgeGathered(w, STARVED) \/ JudgeGathered(w, UNCONNECTED)
      BY <1>6 DEF GatherStarved, GatherUnconnected
    <2>2. DatabaseTyped' /\ CountersTyped'
      BY <1>6, <1>0 DEF GatherStarved, GatherUnconnected, db, DatabaseTyped, CountersTyped
    <2>3. found' \in [Workers -> Finding] /\ \E step \in {"record", "resolve"} : Goto(w, step)
      <3>1. CASE JudgeGathered(w, STARVED)
        BY <2>1, <3>1, JudgedTyped
      <3>2. CASE JudgeGathered(w, UNCONNECTED)
        BY <2>1, <3>2, JudgedTyped
      <3>. QED BY <2>1, <3>1, <3>2
    <2>4. WorkersTyped' /\ NoNewClaims
      BY <2>1, <2>3, <1>0, GotoTyped DEF PC, ObserveSteps, Working, WorkersTyped
    <2>. QED BY <2>2, <2>4
  <1>7. ASSUME RecordAssertions(w)
        PROVE  DatabaseTyped' /\ CountersTyped' /\ WorkersTyped' /\ NoNewClaims
    <2>1. assertions' \in [Runs -> [revision: Nat, verdict: RunStatus]]
      BY <1>7, <1>0, <1>3 DEF RecordAssertions, DatabaseTyped
    <2>2. DatabaseTyped' /\ CountersTyped'
      BY <1>7, <1>0, <2>1 DEF RecordAssertions, DatabaseTyped, CountersTyped
    <2>3. WorkersTyped' /\ NoNewClaims
      BY <1>7, <1>0, GotoTyped DEF RecordAssertions, WorkersTyped, PC, ObserveSteps, Working
    <2>. QED BY <2>2, <2>3
  <1>8. ASSUME Announce(w) PROVE DatabaseTyped' /\ CountersTyped' /\ WorkersTyped' /\ NoNewClaims
    <2>1. outbox' \subseteq OutboxRow
      BY <1>8, <1>0, <1>3 DEF Announce, Decided, OutboxRow, DatabaseTyped
    <2>2. DatabaseTyped' /\ CountersTyped'
      BY <1>8, <1>0, <2>1 DEF Announce, DatabaseTyped, CountersTyped
    <2>3. WorkersTyped' /\ NoNewClaims
      BY <1>8, <1>0, GotoTyped DEF Announce, WorkersTyped, PC, ObserveSteps, Working
    <2>. QED BY <2>2, <2>3
  <1>9. ASSUME Settle(w) PROVE DatabaseTyped' /\ CountersTyped' /\ WorkersTyped' /\ NoNewClaims
    <2>1. entitlement' \in [reserved: Nat, consumed: Nat] /\ settled' \in [Runs -> Nat]
      BY <1>9, <1>0, <1>3 DEF Settle, DatabaseTyped, CountersTyped
    <2>2. DatabaseTyped' /\ CountersTyped'
      BY <1>9, <1>0, <2>1 DEF Settle, DatabaseTyped, CountersTyped
    <2>3. WorkersTyped' /\ NoNewClaims
      BY <1>9, <1>0, NextRunTyped DEF Settle
    <2>. QED BY <2>2, <2>3
  <1>10. ASSUME NoPeriodToSettle(w)
         PROVE  DatabaseTyped' /\ CountersTyped' /\ WorkersTyped' /\ NoNewClaims
    <2>1. DatabaseTyped' /\ CountersTyped'
      BY <1>10, <1>0 DEF NoPeriodToSettle, db, DatabaseTyped, CountersTyped
    <2>2. WorkersTyped' /\ NoNewClaims
      BY <1>10, <1>0, NextRunTyped DEF NoPeriodToSettle
    <2>. QED BY <2>1, <2>2
  <1>11. DatabaseTyped' /\ CountersTyped' /\ WorkersTyped' /\ NoNewClaims
    BY <1>4, <1>5, <1>6, <1>7, <1>8, <1>9, <1>10
  <1>. QED BY <1>2, <1>11, ClaimsKept DEF Typed, TypeOK

\* A fault.
LEMMA FaultTyped ==
  ASSUME Typed, NEW w \in Workers, Fault(w)
  PROVE  Typed'
  <1>0. /\ DatabaseTyped /\ WorkersTyped /\ CountersTyped /\ AbsentRowsAreEmpty
        /\ runs \in [Runs -> RunRow]
    BY DEF Typed, TypeOK, DatabaseTyped
  <1>1. WorkersTyped' /\ NoNewClaims
    BY <1>0, NextRunTyped, GoneTyped DEF Fault, Throw, OutOfTime, Crash
  <1>2. UNCHANGED <<db, now, settled>> /\ faults' = faults + 1 /\ MayFault
    BY DEF Fault, Throw, OutOfTime, Crash
  <1>3. DatabaseTyped' /\ CountersTyped' /\ AbsentRowsAreEmpty' /\ RowsOnlyGrow
    BY <1>2, <1>0, SchedulerAssumption DEF MayFault, db, DatabaseTyped, CountersTyped,
       AbsentRowsAreEmpty, RowsOnlyGrow, RunRow
  <1>. QED BY <1>1, <1>3, ClaimsKept DEF Typed, TypeOK

\* The winner of a terminal commit goes on at the revision it has written.
LEMMA GoAnnounceTyped ==
  ASSUME Typed, NEW w \in Workers, Working(w), Applied(cur[w]), NEW status \in RunStatus,
         NEW next \in Nat \cup {NoTime}, NEW count \in Nat, NEW completed \in Nat \cup {NoTime},
         ApplyOutcome(cur[w], status, next, count, completed),
         GoAnnounce(w, status), UNCHANGED <<tick, batch, held>>
  PROVE  WorkersTyped' /\ ClaimsBehindRow'
  <1>0. /\ WorkersTyped /\ ClaimsBehindRow /\ DatabaseTyped
        /\ runs \in [Runs -> RunRow]
        /\ cur[w] \in Claim /\ cur[w].run \in Runs /\ cur[w].revision \in Nat
        /\ found[w].count \in Nat /\ found[w].next \in Nat \cup {NoTime}
    BY DEF Typed, TypeOK, DatabaseTyped, WorkersTyped, Claim, Finding
  <1>1. runs' \in [Runs -> RunRow] /\ RowsOnlyGrow
    BY ApplyOutcomeTyped
  <1>2. runs'[cur[w].run].revision = cur[w].revision + 1 /\ runs'[cur[w].run].status # "ABSENT"
    <2>1. runs' = [runs EXCEPT ![cur[w].run] =
                    [status |-> status, revision |-> cur[w].revision + 1, count |-> count,
                     deadline |-> runs[cur[w].run].deadline, next |-> next,
                     completed |-> completed]]
      BY DEF ApplyOutcome
    <2>. QED BY <2>1, <1>0 DEF RunStatus
  <1> DEFINE c == [run |-> cur[w].run, revision |-> cur[w].revision + 1]
             f == [status |-> status, count |-> found[w].count, next |-> found[w].next]
  <1>3. c \in Claim /\ f \in Finding
    BY <1>0 DEF Claim, Finding
  <1>4. /\ pc' = [pc EXCEPT ![w] = "announce"]
        /\ cur' = [cur EXCEPT ![w] = c] /\ found' = [found EXCEPT ![w] = f]
    BY DEF GoAnnounce, Goto
  <1>c. c.run = cur[w].run /\ c.revision = cur[w].revision + 1
    OBVIOUS
  <1> HIDE DEF c, f
  <1>5. WorkersTyped'
    BY <1>0, <1>3, <1>4 DEF WorkersTyped, PC, ObserveSteps
  <1>6. \A v \in Workers : \A d \in Claims(v)' : d \in Claims(v) \/ d = c
    BY <1>0, <1>4 DEF Claims, Working, WorkersTyped
  <1>7. \A r \in Runs : runs[r].revision \in Nat /\ runs'[r].revision \in Nat
    BY <1>0, <1>1 DEF RunRow
  <1>8. \A v \in Workers : \A d \in batch'[v] : d.run \in Runs /\ runs'[d.run].status # "ABSENT"
    BY <1>0, <1>1 DEF ClaimsBehindRow, RowsOnlyGrow, WorkersTyped, Claim
  <1>9. ASSUME NEW v \in Workers, NEW d \in Claims(v)'
        PROVE  runs'[d.run].status # "ABSENT" /\ d.revision <= runs'[d.run].revision
    <2>1. CASE d = c
      BY <2>1, <1>2, <1>c, <1>0
    <2>2. CASE d \in Claims(v)
      <3>1. /\ d.run \in Runs /\ d.revision \in Nat
            /\ runs[d.run].status # "ABSENT" /\ d.revision <= runs[d.run].revision
        BY <2>2, <1>0 DEF ClaimsBehindRow, Claims, WorkersTyped, Claim
      <3>. QED BY <3>1, <1>1, <1>7 DEF RowsOnlyGrow
    <2>. QED BY <2>1, <2>2, <1>6
  <1>10. ClaimsBehindRow'
    BY <1>8, <1>9 DEF ClaimsBehindRow
  <1>. QED BY <1>5, <1>10

\* A step that goes through the outcome compare-and-set.
LEMMA OutcomeTyped ==
  ASSUME Typed, NEW w \in Workers, Commit(w) \/ Resolve(w) \/ Close(w)
  PROVE  Typed'
  <1>0. /\ DatabaseTyped /\ WorkersTyped /\ CountersTyped /\ AbsentRowsAreEmpty
        /\ runs \in [Runs -> RunRow]
        /\ found[w].status \in RunStatus /\ found[w].count \in Nat
        /\ found[w].next \in Nat \cup {NoTime} /\ tick[w].now \in Nat
    BY DEF Typed, TypeOK, DatabaseTyped, WorkersTyped, Finding
  <1>1. tick[w].now + FinaliseDelay \in Nat
    BY <1>0, SchedulerAssumption
  <1>2. Working(w) /\ UNCHANGED <<tick, batch, held>>
    BY DEF Commit, Resolve, Close, Working, ObserveSteps
  <1>3. PICK status \in RunStatus, next \in Nat \cup {NoTime}, count \in Nat,
             completed \in Nat \cup {NoTime} :
          /\ ApplyOutcome(cur[w], status, next, count, completed)
          /\ Commit(w) \/ Resolve(w) =>
               NextRun(w) \/ (Applied(cur[w]) /\ GoAnnounce(w, status))
    <2>1. CASE Commit(w)
      <3>1. ApplyOutcome(cur[w], found[w].status, found[w].next, found[w].count,
                         IF found[w].status \in TERMINAL THEN tick[w].now ELSE NoTime)
        BY <2>1 DEF Commit
      <3>2. NextRun(w) \/ (Applied(cur[w]) /\ GoAnnounce(w, found[w].status))
        BY <2>1 DEF Commit
      <3>3. (IF found[w].status \in TERMINAL THEN tick[w].now ELSE NoTime) \in Nat \cup {NoTime}
        BY <1>0
      <3>. QED BY <3>1, <3>2, <3>3, <1>0
    <2>2. CASE Resolve(w)
      <3>1. ApplyOutcome(cur[w], "UNVERIFIED", tick[w].now + FinaliseDelay, found[w].count,
                         tick[w].now)
        BY <2>2 DEF Resolve
      <3>2. NextRun(w) \/ (Applied(cur[w]) /\ GoAnnounce(w, "UNVERIFIED"))
        BY <2>2 DEF Resolve
      <3>3. "UNVERIFIED" \in RunStatus
        BY DEF RunStatus
      <3>. QED BY <3>1, <3>2, <3>3, <1>0, <1>1
    <2>3. CASE Close(w)
      <3>1. ApplyOutcome(cur[w], found[w].status, NoTime, found[w].count, tick[w].now)
        BY <2>3 DEF Close
      <3>2. ~Commit(w) /\ ~Resolve(w)
        BY <2>3 DEF Close, Commit, Resolve
      <3>. QED BY <3>1, <3>2, <1>0
    <2>. QED BY <2>1, <2>2, <2>3
  <1>4. /\ runs' \in [Runs -> RunRow] /\ RowsOnlyGrow
        /\ \A r \in Runs : runs'[r].status = "ABSENT" => runs'[r] = runs[r]
    BY <1>2, <1>3, ApplyOutcomeTyped
  <1>5. DatabaseTyped' /\ CountersTyped' /\ AbsentRowsAreEmpty'
    BY <1>0, <1>4 DEF Commit, Resolve, Close, DatabaseTyped, CountersTyped, AbsentRowsAreEmpty
  <1>6. CASE NextRun(w)
    <2>1. WorkersTyped' /\ NoNewClaims
      BY <1>6, <1>0, <1>2, NextRunTyped
    <2>. QED BY <2>1, <1>4, <1>5, ClaimsKept DEF Typed, TypeOK
  <1>7. CASE Applied(cur[w]) /\ GoAnnounce(w, status)
    <2>1. WorkersTyped' /\ ClaimsBehindRow'
      BY <1>7, <1>2, <1>3, GoAnnounceTyped
    <2>. QED BY <2>1, <1>5 DEF Typed, TypeOK
  <1>8. CASE Close(w) /\ ~NextRun(w)
    <2>1. Goto(w, "settle") /\ UNCHANGED <<cur, found>>
      BY <1>8 DEF Close
    <2>2. WorkersTyped' /\ NoNewClaims
      BY <2>1, <1>0, <1>2, GotoTyped DEF PC, ObserveSteps, WorkersTyped
    <2>. QED BY <2>2, <1>4, <1>5, ClaimsKept DEF Typed, TypeOK
  <1>. QED BY <1>3, <1>6, <1>7, <1>8

\* Every step keeps the types.
LEMMA StepTyped == Typed /\ [Next]_vars => Typed'
  <1> SUFFICES ASSUME Typed, [Next]_vars PROVE Typed'
    OBVIOUS
  <1>1. CASE UNCHANGED vars
    BY <1>1 DEF vars, Typed, TypeOK, DatabaseTyped, WorkersTyped, CountersTyped,
                AbsentRowsAreEmpty, ClaimsBehindRow, Claims, Working
  <1>2. CASE Environment \/ Advance
    BY <1>2, EnvironmentTyped
  <1>3. ASSUME NEW w \in Workers, StartTick(w) PROVE Typed'
    BY <1>3, DuePassTyped
  <1>4. ASSUME NEW w \in Workers, Progress(w) PROVE Typed'
    BY <1>4, DuePassTyped, ObserveTyped, OutcomeTyped DEF Progress
  <1>5. ASSUME NEW w \in Workers, Fault(w) PROVE Typed'
    BY <1>5, FaultTyped
  <1>. QED BY <1>1, <1>2, <1>3, <1>4, <1>5 DEF Next

\* Types, with claims behind their rows, hold in every reachable state.
LEMMA AlwaysTyped == Spec => []Typed
  BY InitTyped, StepTyped, PTL DEF Spec

\* The type invariant, for any number of runs and of overlapping ticks.
THEOREM TypeCorrect == Spec => []TypeOK
  <1>1. Typed => TypeOK
    BY DEF Typed
  <1>. QED BY <1>1, AlwaysTyped, PTL

-----------------------------------------------------------------------------
(* A decision is final.  Everything follows from two facts: a row that     *)
(* changes takes a new revision, and a worker holding the current revision *)
(* of a run it is judging holds it since before any verdict.               *)

StatusKept == \A r \in Runs : runs[r].status \in TERMINAL => runs'[r].status = runs[r].status

RowsMove == \A r \in Runs : runs'[r] = runs[r] \/ runs'[r].revision > runs[r].revision

\* A worker that did not move is no worse for a step that keeps verdicts.
LEMMA OthersStayTrue ==
  ASSUME Typed, Typed', StatusKept, RowsMove, RowsOnlyGrow, NEW v \in Workers,
         JudgesOpen(v), TellsTheTruth(v),
         pc'[v] = pc[v], cur'[v] = cur[v], found'[v] = found[v]
  PROVE  JudgesOpen(v)' /\ TellsTheTruth(v)'
  <1>0. /\ cur[v].run \in Runs /\ cur[v].revision \in Nat
        /\ runs[cur[v].run].revision \in Nat /\ runs'[cur[v].run].revision \in Nat
    BY DEF Typed, TypeOK, DatabaseTyped, WorkersTyped, Claim, RunRow
  <1>1. JudgesOpen(v)'
    <2> SUFFICES ASSUME pc[v] \in {"gather", "record", "commit", "resolve"},
                        runs'[cur[v].run].revision = cur[v].revision
                 PROVE  runs'[cur[v].run].status = "PENDING"
      BY DEF JudgesOpen, Applied
    <2>1. cur[v] \in Claims(v)
      BY DEF Claims, Working, ObserveSteps
    <2>2. cur[v].revision <= runs[cur[v].run].revision
      BY <2>1 DEF Typed, ClaimsBehindRow
    <2>3. runs'[cur[v].run] = runs[cur[v].run]
      BY <1>0, <2>2 DEF RowsMove
    <2>. QED BY <2>3 DEF JudgesOpen, Applied
  <1>2. TellsTheTruth(v)'
    BY <1>0 DEF TellsTheTruth, StatusKept
  <1>. QED BY <1>1, <1>2

\* No worker's step touches another worker's memory.
LEMMA OthersUntouched ==
  ASSUME Typed, NEW w \in Workers, StartTick(w) \/ Progress(w) \/ Fault(w),
         NEW v \in Workers, v # w
  PROVE  pc'[v] = pc[v] /\ cur'[v] = cur[v] /\ found'[v] = found[v] /\ held'[v] = held[v]
  <1>0. /\ pc \in [Workers -> PC] /\ cur \in [Workers -> Claim]
        /\ found \in [Workers -> Finding] /\ held \in [Workers -> SUBSET Claim]
    BY DEF Typed, TypeOK, WorkersTyped
  <1>1. CASE StartTick(w) \/ Fault(w)
    BY <1>0, <1>1 DEF StartTick, Fault, Throw, OutOfTime, Crash, Gone, NextRun, Goto
  <1>2. CASE Progress(w)
    <2>1. ASSUME \/ (\E c \in batch[w] : TryClaim(w, c)) \/ ClaimsDone(w)
                 \/ (\E c \in held[w] : BeginObserve(w, c)) \/ EndTick(w)
                 \/ RulesUnusable(w) \/ RecordAssertions(w) \/ Announce(w) \/ Settle(w)
                 \/ NoPeriodToSettle(w)
          PROVE  pc'[v] = pc[v] /\ cur'[v] = cur[v] /\ found'[v] = found[v] /\ held'[v] = held[v]
      BY <2>1, <1>0 DEF TryClaim, ClaimsDone, BeginObserve, EndTick, RulesUnusable,
         RecordAssertions, Announce, Settle, NoPeriodToSettle, Gone, NextRun, Goto
    <2>2. ASSUME Commit(w) \/ Resolve(w) \/ Close(w)
          PROVE  pc'[v] = pc[v] /\ cur'[v] = cur[v] /\ found'[v] = found[v] /\ held'[v] = held[v]
      BY <2>2, <1>0 DEF Commit, Resolve, Close, GoAnnounce, NextRun, Goto
    <2>3. ASSUME (\E obs \in Observations : Gather(w, obs))
                 \/ GatherStarved(w) \/ GatherUnconnected(w)
          PROVE  pc'[v] = pc[v] /\ cur'[v] = cur[v] /\ found'[v] = found[v] /\ held'[v] = held[v]
      <3>1. PICK obs : JudgeGathered(w, obs) /\ UNCHANGED <<held, cur>>
        BY <2>3 DEF Gather, GatherStarved, GatherUnconnected
      <3>2. UNCHANGED found \/ \E n : found' = [found EXCEPT ![w] = n]
        BY <3>1 DEF JudgeGathered
      <3>3. \E step : Goto(w, step)
        BY <3>1 DEF JudgeGathered
      <3>. QED BY <3>1, <3>2, <3>3, <1>0 DEF Goto
    <2>. QED BY <1>2, <2>1, <2>2, <2>3 DEF Progress
  <1>. QED BY <1>1, <1>2

\* What the outcome compare-and-set does to the rows.
LEMMA ApplyOutcomeRows ==
  ASSUME Typed, NEW w \in Workers, NEW status, NEW next, NEW count, NEW completed,
         ApplyOutcome(cur[w], status, next, count, completed)
  PROVE  /\ RowsMove
         /\ \A r \in Runs : ~(r = cur[w].run /\ Applied(cur[w])) => runs'[r] = runs[r]
         /\ Applied(cur[w]) => /\ runs'[cur[w].run].status = status
                               /\ runs'[cur[w].run].next = next
                               /\ runs'[cur[w].run].revision = cur[w].revision + 1
  <1>0. /\ runs \in [Runs -> RunRow] /\ cur[w].run \in Runs /\ cur[w].revision \in Nat
    BY DEF Typed, TypeOK, DatabaseTyped, WorkersTyped, Claim
  <1> DEFINE row == [status |-> status, revision |-> cur[w].revision + 1, count |-> count,
                     deadline |-> runs[cur[w].run].deadline, next |-> next,
                     completed |-> completed]
  <1>1. runs' = IF Applied(cur[w]) THEN [runs EXCEPT ![cur[w].run] = row] ELSE runs
    BY DEF ApplyOutcome
  <1>2. row.status = status /\ row.next = next /\ row.revision = cur[w].revision + 1
    OBVIOUS
  <1> HIDE DEF row
  <1>3. CASE Applied(cur[w])
    <2>1. runs' = [runs EXCEPT ![cur[w].run] = row] /\ runs[cur[w].run].revision = cur[w].revision
      BY <1>1, <1>3 DEF Applied
    <2>2. runs'[cur[w].run] = row /\ \A r \in Runs : r # cur[w].run => runs'[r] = runs[r]
      BY <2>1, <1>0
    <2>3. runs'[cur[w].run].revision > runs[cur[w].run].revision
      BY <2>1, <2>2, <1>0, <1>2
    <2>4. RowsMove
      BY <2>2, <2>3 DEF RowsMove
    <2>. QED BY <2>2, <2>4, <1>2, <1>3
  <1>4. CASE ~Applied(cur[w])
    BY <1>1, <1>4 DEF RowsMove
  <1>. QED BY <1>3, <1>4

\* Announcements stay true as long as no verdict changes.
LEMMA AnnouncementsStayTrue ==
  ASSUME Typed, AnnouncementsAreTrue, StatusKept,
         \A row \in outbox' \ outbox : row.event # "run.decided"
  PROVE  AnnouncementsAreTrue'
  <1> SUFFICES ASSUME NEW row \in outbox', row.event = "run.decided"
               PROVE  row.status \in TERMINAL /\ runs'[row.run].status = row.status
    BY DEF AnnouncementsAreTrue
  <1>1. row \in outbox
    OBVIOUS
  <1>2. row.run \in Runs
    BY <1>1 DEF Typed, TypeOK, DatabaseTyped, OutboxRow
  <1>. QED BY <1>1, <1>2 DEF AnnouncementsAreTrue, StatusKept

\* It is enough to look at the worker that moved.
LEMMA MoverDecides ==
  ASSUME Typed, Typed', VerdictSafe, NEW w \in Workers,
         StartTick(w) \/ Progress(w) \/ Fault(w), StatusKept, RowsMove, RowsOnlyGrow,
         JudgesOpen(w)', TellsTheTruth(w)', AnnouncementsAreTrue'
  PROVE  VerdictSafe'
  <1>1. ASSUME NEW v \in Workers, v # w PROVE JudgesOpen(v)' /\ TellsTheTruth(v)'
    <2>1. pc'[v] = pc[v] /\ cur'[v] = cur[v] /\ found'[v] = found[v]
      BY <1>1, OthersUntouched
    <2>2. JudgesOpen(v) /\ TellsTheTruth(v)
      BY DEF VerdictSafe
    <2>. QED BY <2>1, <2>2, OthersStayTrue
  <1>. QED BY <1>1 DEF VerdictSafe

\* A step that leaves the runs table alone moves no row.
LEMMA IdleRowsMove ==
  ASSUME Typed, UNCHANGED runs
  PROVE  StatusKept /\ RowsMove /\ RowsOnlyGrow
  <1>1. \A r \in Runs : runs[r].revision \in Nat
    BY DEF Typed, TypeOK, DatabaseTyped, RunRow
  <1>. QED BY <1>1 DEF StatusKept, RowsMove, RowsOnlyGrow

\* A worker outside observeRun has nothing to be right or wrong about.
LEMMA OutsideObserve ==
  ASSUME NEW w \in Workers, pc'[w] \in {"idle", "claim", "between"}
  PROVE  JudgesOpen(w)' /\ TellsTheTruth(w)'
  BY DEF JudgesOpen, TellsTheTruth

\* The steps of a tick that write no run keep the verdicts.
LEMMA PassVerdict ==
  ASSUME Typed, Typed', VerdictSafe, NEW w \in Workers,
         \/ StartTick(w) \/ ClaimsDone(w) \/ EndTick(w) \/ Settle(w) \/ NoPeriodToSettle(w)
         \/ Fault(w)
  PROVE  VerdictSafe' /\ StatusKept /\ RowsMove /\ RowsOnlyGrow
  <1>1. UNCHANGED runs
    BY DEF StartTick, ClaimsDone, EndTick, Settle, NoPeriodToSettle, Fault, Throw, OutOfTime,
           Crash, db
  <1>2. UNCHANGED outbox
    BY DEF StartTick, ClaimsDone, EndTick, Settle, NoPeriodToSettle, Fault, Throw, OutOfTime,
           Crash, db
  <1>3. pc'[w] \in {"idle", "claim", "between"}
    BY DEF StartTick, ClaimsDone, EndTick, Settle, NoPeriodToSettle, Fault, Throw, OutOfTime,
           Crash, Gone, NextRun, Goto, Typed, TypeOK, WorkersTyped
  <1>4. StatusKept /\ RowsMove /\ RowsOnlyGrow
    BY <1>1, IdleRowsMove
  <1>5. AnnouncementsAreTrue'
    BY <1>2, <1>4, AnnouncementsStayTrue DEF VerdictSafe
  <1>6. StartTick(w) \/ Progress(w) \/ Fault(w)
    BY DEF Progress
  <1>. QED BY <1>3, <1>4, <1>5, <1>6, OutsideObserve, MoverDecides

\* Judging a run writes nothing: the verdicts are kept.
LEMMA ObserveVerdict ==
  ASSUME Typed, Typed', VerdictSafe, NEW w \in Workers,
         \/ (\E c \in held[w] : BeginObserve(w, c)) \/ RulesUnusable(w)
         \/ (\E obs \in Observations : Gather(w, obs)) \/ GatherStarved(w) \/ GatherUnconnected(w)
         \/ RecordAssertions(w)
  PROVE  VerdictSafe' /\ StatusKept /\ RowsMove /\ RowsOnlyGrow
  <1>0. /\ pc \in [Workers -> PC] /\ cur \in [Workers -> Claim]
        /\ found \in [Workers -> Finding] /\ held \in [Workers -> SUBSET Claim]
        /\ JudgesOpen(w)
    BY DEF Typed, TypeOK, WorkersTyped, VerdictSafe
  <1>1. UNCHANGED <<runs, outbox>>
    BY DEF BeginObserve, RulesUnusable, Gather, GatherStarved, GatherUnconnected,
               RecordAssertions, db
  <1>2. StatusKept /\ RowsMove /\ RowsOnlyGrow
    BY <1>1, IdleRowsMove
  <1>3. AnnouncementsAreTrue'
    BY <1>1, <1>2, AnnouncementsStayTrue DEF VerdictSafe
  <1>4. StartTick(w) \/ Progress(w) \/ Fault(w)
    BY DEF Progress
  <1>5. JudgesOpen(w)' /\ TellsTheTruth(w)'
    <2>1. ASSUME NEW c \in held[w], BeginObserve(w, c) PROVE JudgesOpen(w)' /\ TellsTheTruth(w)'
      <3>1. /\ pc'[w] = IF runs[c.run].status \in TERMINAL THEN "announce" ELSE "gather"
            /\ cur'[w] = c /\ found'[w].status = runs[c.run].status
        BY <2>1, <1>0 DEF BeginObserve, FirstStep, Goto
      <3>2. runs[c.run].status \in RunStatus
        <4>1. c.run \in Runs /\ runs[c.run].status # "ABSENT"
          BY <2>1, <1>0 DEF Typed, ClaimsBehindRow, Claims, Claim
        <4>. QED BY <4>1 DEF Typed, TypeOK, DatabaseTyped, RunRow
      <3>. QED BY <3>1, <3>2, <1>1 DEF JudgesOpen, TellsTheTruth, TERMINAL, RunStatus
    <2>2. ASSUME RulesUnusable(w) \/ RecordAssertions(w)
          PROVE  JudgesOpen(w)' /\ TellsTheTruth(w)'
      BY <2>2, <1>0, <1>1
      DEF RulesUnusable, RecordAssertions, Goto, JudgesOpen, TellsTheTruth, Applied
    <2>3. ASSUME NEW obs, pc[w] = "gather", JudgeGathered(w, obs), UNCHANGED cur
          PROVE  JudgesOpen(w)' /\ TellsTheTruth(w)'
      <3>1. pc'[w] \in {"record", "resolve"}
        BY <2>3, <1>0, JudgedTyped DEF Goto
      <3>. QED BY <3>1, <2>3, <1>0, <1>1 DEF JudgesOpen, TellsTheTruth, Applied
    <2>. QED BY <2>1, <2>2, <2>3 DEF Gather, GatherStarved, GatherUnconnected
  <1>. QED BY <1>2, <1>3, <1>4, <1>5, MoverDecides

\* What winning a claim does to the rows: a lease and a new revision.
LEMMA ClaimRows ==
  ASSUME Typed, NEW w \in Workers, NEW c \in batch[w], TryClaim(w, c)
  PROVE  \A r \in Runs :
           \/ runs'[r] = runs[r]
           \/ /\ r = c.run
              /\ runs'[r].status = runs[r].status
              /\ runs'[r].count = runs[r].count
              /\ runs'[r].revision = runs[r].revision + 1
              /\ runs[r].next # NoTime /\ runs'[r].next # NoTime
              /\ runs[r].revision = c.revision
              /\ held' = [held EXCEPT ![w] = @ \cup {[run |-> c.run, revision |-> c.revision + 1]}]
  <1>0. /\ runs \in [Runs -> RunRow] /\ c.run \in Runs /\ tick[w].now \in Nat
    BY DEF Typed, TypeOK, DatabaseTyped, WorkersTyped, Claim
  <1> DEFINE until == tick[w].now + Lease
             row == [status |-> runs[c.run].status, revision |-> runs[c.run].revision + 1,
                     count |-> runs[c.run].count, deadline |-> runs[c.run].deadline,
                     next |-> until, completed |-> runs[c.run].completed]
  <1>1. until # NoTime
    BY <1>0, SchedulerAssumption DEF NoTime
  <1>2. \/ runs' = runs
        \/ /\ runs' = [runs EXCEPT ![c.run] = row]
           /\ runs[c.run].revision = c.revision /\ runs[c.run].next # NoTime
           /\ held' = [held EXCEPT ![w] = @ \cup {[run |-> c.run, revision |-> c.revision + 1]}]
    BY DEF TryClaim, Due, LeaseEnd
  <1>3. /\ row.status = runs[c.run].status /\ row.revision = runs[c.run].revision + 1
        /\ row.next = until /\ row.count = runs[c.run].count
    OBVIOUS
  <1> HIDE DEF until, row
  <1>. QED BY <1>0, <1>1, <1>2, <1>3

\* Claiming a run renews its lease and nothing of its verdict.
LEMMA ClaimVerdict ==
  ASSUME Typed, Typed', VerdictSafe, NEW w \in Workers, NEW c \in batch[w], TryClaim(w, c)
  PROVE  VerdictSafe' /\ StatusKept /\ RowsMove /\ RowsOnlyGrow
  <1>0. pc \in [Workers -> PC] /\ \A r \in Runs : runs[r].revision \in Nat
    BY DEF Typed, TypeOK, DatabaseTyped, WorkersTyped, RunRow
  <1>1. \A r \in Runs : \/ runs'[r] = runs[r]
                        \/ /\ runs'[r].status = runs[r].status
                           /\ runs'[r].revision = runs[r].revision + 1
    BY ClaimRows
  <1>2. StatusKept /\ RowsMove /\ RowsOnlyGrow
    BY <1>0, <1>1 DEF StatusKept, RowsMove, RowsOnlyGrow
  <1>3. UNCHANGED <<pc, outbox>> /\ pc[w] = "claim"
    BY DEF TryClaim
  <1>4. AnnouncementsAreTrue'
    BY <1>2, <1>3, AnnouncementsStayTrue DEF VerdictSafe
  <1>5. StartTick(w) \/ Progress(w) \/ Fault(w)
    BY DEF Progress
  <1>. QED BY <1>2, <1>3, <1>4, <1>5, OutsideObserve, MoverDecides

\* The commit point and the end of a schedule: only an open run is decided,
\* and a decided one is only ever rewritten with the verdict it has.
LEMMA OutcomeVerdict ==
  ASSUME Typed, Typed', VerdictSafe, NEW w \in Workers, Commit(w) \/ Resolve(w) \/ Close(w)
  PROVE  VerdictSafe' /\ StatusKept /\ RowsMove /\ RowsOnlyGrow
  <1>0. /\ pc \in [Workers -> PC] /\ cur \in [Workers -> Claim] /\ found \in [Workers -> Finding]
        /\ JudgesOpen(w) /\ TellsTheTruth(w)
        /\ cur[w].run \in Runs /\ cur[w].revision \in Nat /\ found[w].status \in RunStatus
        /\ \A r \in Runs : runs[r].revision \in Nat
    BY DEF Typed, TypeOK, DatabaseTyped, WorkersTyped, VerdictSafe, Claim, Finding, RunRow
  <1>1. PICK status, next, count, completed :
          /\ status \in RunStatus
          /\ ApplyOutcome(cur[w], status, next, count, completed)
          /\ Close(w) => status = found[w].status
          /\ \/ NextRun(w)
             \/ Applied(cur[w]) /\ GoAnnounce(w, status) /\ status \in TERMINAL
             \/ Close(w) /\ Goto(w, "settle") /\ UNCHANGED <<cur, found>>
    <2>1. CASE Commit(w)
      <3>1. ApplyOutcome(cur[w], found[w].status, found[w].next, found[w].count,
                         IF found[w].status \in TERMINAL THEN tick[w].now ELSE NoTime)
        BY <2>1 DEF Commit
      <3>2. \/ NextRun(w)
            \/ Applied(cur[w]) /\ GoAnnounce(w, found[w].status) /\ found[w].status \in TERMINAL
        BY <2>1 DEF Commit
      <3>. QED BY <3>1, <3>2, <1>0
    <2>2. CASE Resolve(w)
      <3>1. ApplyOutcome(cur[w], "UNVERIFIED", tick[w].now + FinaliseDelay, found[w].count,
                         tick[w].now)
        BY <2>2 DEF Resolve
      <3>2. NextRun(w) \/ (Applied(cur[w]) /\ GoAnnounce(w, "UNVERIFIED"))
        BY <2>2 DEF Resolve
      <3>3. "UNVERIFIED" \in RunStatus /\ "UNVERIFIED" \in TERMINAL
        BY DEF RunStatus, TERMINAL
      <3>4. ~Close(w)
        BY <2>2 DEF Resolve, Close
      <3>. QED BY <3>1, <3>2, <3>3, <3>4
    <2>3. CASE Close(w)
      <3>1. ApplyOutcome(cur[w], found[w].status, NoTime, found[w].count, tick[w].now)
        BY <2>3 DEF Close
      <3>2. NextRun(w) \/ (Goto(w, "settle") /\ UNCHANGED <<cur, found>>)
        BY <2>3 DEF Close
      <3>. QED BY <3>1, <3>2, <2>3, <1>0
    <2>. QED BY <2>1, <2>2, <2>3
  <1>2. /\ RowsMove
        /\ \A r \in Runs : ~(r = cur[w].run /\ Applied(cur[w])) => runs'[r] = runs[r]
        /\ Applied(cur[w]) => /\ runs'[cur[w].run].status = status
                              /\ runs'[cur[w].run].revision = cur[w].revision + 1
    BY <1>1, ApplyOutcomeRows
  <1>3. ASSUME Applied(cur[w])
        PROVE  runs[cur[w].run].status \in {"PENDING", status}
    <2>1. CASE Close(w)
      BY <2>1, <1>0, <1>1 DEF Close, TellsTheTruth
    <2>2. CASE Commit(w) \/ Resolve(w)
      BY <2>2, <1>0, <1>3 DEF Commit, Resolve, JudgesOpen
    <2>. QED BY <2>1, <2>2
  <1>4. StatusKept
    BY <1>0, <1>2, <1>3 DEF StatusKept, TERMINAL
  <1>5. RowsOnlyGrow
    <2>1. Applied(cur[w]) => runs[cur[w].run].revision = cur[w].revision
      BY DEF Applied
    <2>2. status # "ABSENT"
      BY <1>1 DEF RunStatus
    <2>3. ASSUME NEW r \in Runs, runs[r].status # "ABSENT"
          PROVE  runs'[r].status # "ABSENT" /\ runs'[r].revision >= runs[r].revision
      <3>1. CASE r = cur[w].run /\ Applied(cur[w])
        BY <3>1, <2>1, <2>2, <1>0, <1>2
      <3>2. CASE ~(r = cur[w].run /\ Applied(cur[w]))
        BY <3>2, <2>3, <1>0, <1>2
      <3>. QED BY <3>1, <3>2
    <2>. QED BY <2>3 DEF RowsOnlyGrow
  <1>6. UNCHANGED outbox
    BY DEF Commit, Resolve, Close
  <1>7. AnnouncementsAreTrue'
    BY <1>4, <1>6, AnnouncementsStayTrue DEF VerdictSafe
  <1>8. JudgesOpen(w)' /\ TellsTheTruth(w)'
    <2>1. CASE NextRun(w)
      <3>1. pc'[w] = "between"
        BY <2>1, <1>0 DEF NextRun, Goto
      <3>. QED BY <3>1, OutsideObserve
    <2>2. CASE Applied(cur[w]) /\ GoAnnounce(w, status) /\ status \in TERMINAL
      <3>1. /\ pc'[w] = "announce" /\ cur'[w].run = cur[w].run /\ found'[w].status = status
        BY <2>2, <1>0 DEF GoAnnounce, Goto
      <3>. QED BY <3>1, <2>2, <1>2 DEF JudgesOpen, TellsTheTruth
    <2>3. CASE Close(w) /\ Goto(w, "settle") /\ UNCHANGED <<cur, found>>
      <3>1. pc'[w] = "settle" /\ pc[w] = "close" /\ cur'[w] = cur[w] /\ found'[w] = found[w]
        BY <2>3, <1>0 DEF Goto, Close
      <3>. QED BY <3>1, <1>0, <1>4 DEF JudgesOpen, TellsTheTruth, StatusKept
    <2>. QED BY <2>1, <2>2, <2>3, <1>1
  <1>9. StartTick(w) \/ Progress(w) \/ Fault(w)
    BY DEF Progress
  <1>. QED BY <1>2, <1>4, <1>5, <1>7, <1>8, <1>9, MoverDecides

\* An announcement tells the verdict the row has.
LEMMA AnnounceVerdict ==
  ASSUME Typed, Typed', VerdictSafe, NEW w \in Workers, Announce(w)
  PROVE  VerdictSafe' /\ StatusKept /\ RowsMove /\ RowsOnlyGrow
  <1>0. pc \in [Workers -> PC] /\ TellsTheTruth(w) /\ AnnouncementsAreTrue
    BY DEF Typed, TypeOK, WorkersTyped, VerdictSafe
  <1>1. UNCHANGED <<runs, cur, found>> /\ pc[w] = "announce" /\ pc'[w] = "close"
    BY <1>0 DEF Announce, Goto
  <1>2. StatusKept /\ RowsMove /\ RowsOnlyGrow
    BY <1>1, IdleRowsMove
  <1>3. JudgesOpen(w)' /\ TellsTheTruth(w)'
    BY <1>0, <1>1 DEF JudgesOpen, TellsTheTruth
  <1>4. AnnouncementsAreTrue'
    <2>1. outbox' = outbox \cup {Decided(cur[w].run, found[w].status)}
      BY DEF Announce
    <2>2. found[w].status \in TERMINAL /\ runs[cur[w].run].status = found[w].status
      BY <1>0, <1>1 DEF TellsTheTruth
    <2>. QED BY <2>1, <2>2, <1>0, <1>1 DEF AnnouncementsAreTrue, Decided
  <1>5. StartTick(w) \/ Progress(w) \/ Fault(w)
    BY DEF Progress
  <1>. QED BY <1>2, <1>3, <1>4, <1>5, MoverDecides

\* Admission, the pause and the clock decide nothing.
LEMMA EnvironmentVerdict ==
  ASSUME Typed, Typed', VerdictSafe, Environment \/ Advance
  PROVE  VerdictSafe' /\ StatusKept /\ RowsMove /\ RowsOnlyGrow
  <1>0. runs \in [Runs -> RunRow] /\ \A r \in Runs : runs[r].revision \in Nat
    BY DEF Typed, TypeOK, DatabaseTyped, RunRow
  <1>1. UNCHANGED <<pc, cur, found>>
    BY DEF Environment, Admit, Pause, Resume, Advance, local
  <1>2. /\ \A row \in outbox' \ outbox : row.event # "run.decided"
    BY DEF Environment, Admit, Pause, Resume, Advance, Created, db
  <1>3. StatusKept /\ RowsMove /\ RowsOnlyGrow
    <2>1. ASSUME NEW r \in Runs, Admit(r) PROVE StatusKept /\ RowsMove /\ RowsOnlyGrow
      <3>1. /\ \A q \in Runs : q # r => runs'[q] = runs[q]
            /\ runs[r].status = "ABSENT" /\ runs[r].revision = 0 /\ runs'[r].revision = 1
        BY <2>1, <1>0 DEF Admit, ABSENT
      <3>. QED BY <3>1, <1>0 DEF StatusKept, RowsMove, RowsOnlyGrow, TERMINAL, RunStatus
    <2>2. ASSUME Pause \/ Resume \/ Advance PROVE UNCHANGED runs
      BY <2>2 DEF Pause, Resume, Advance, db
    <2>. QED BY <2>1, <2>2, IdleRowsMove DEF Environment
  <1>4. AnnouncementsAreTrue'
    BY <1>2, <1>3, AnnouncementsStayTrue DEF VerdictSafe
  <1>5. ASSUME NEW v \in Workers PROVE JudgesOpen(v)' /\ TellsTheTruth(v)'
    BY <1>1, <1>3, OthersStayTrue DEF VerdictSafe
  <1>. QED BY <1>3, <1>4, <1>5 DEF VerdictSafe

\* Every step keeps the verdicts, and moves a row only with a new revision.
LEMMA VerdictStep ==
  Typed /\ Typed' /\ VerdictSafe /\ [Next]_vars
    => VerdictSafe' /\ StatusKept /\ RowsMove /\ RowsOnlyGrow
  <1> SUFFICES ASSUME Typed, Typed', VerdictSafe, [Next]_vars
               PROVE  VerdictSafe' /\ StatusKept /\ RowsMove /\ RowsOnlyGrow
    OBVIOUS
  <1>1. CASE UNCHANGED vars
    <2>1. UNCHANGED <<runs, outbox, pc, cur, found>>
      BY <1>1 DEF vars
    <2>2. StatusKept /\ RowsMove /\ RowsOnlyGrow
      BY <2>1, IdleRowsMove
    <2>3. VerdictSafe'
      BY <2>1 DEF VerdictSafe, AnnouncementsAreTrue, JudgesOpen, TellsTheTruth, Applied
    <2>. QED BY <2>2, <2>3
  <1>2. CASE Environment \/ Advance
    BY <1>2, EnvironmentVerdict
  <1>3. ASSUME NEW w \in Workers, StartTick(w) \/ Progress(w) \/ Fault(w)
        PROVE  VerdictSafe' /\ StatusKept /\ RowsMove /\ RowsOnlyGrow
    BY <1>3, PassVerdict, ObserveVerdict, ClaimVerdict, OutcomeVerdict, AnnounceVerdict
    DEF Progress
  <1>. QED BY <1>1, <1>2, <1>3 DEF Next

\* No run, no verdict.
LEMMA InitVerdict == Init => VerdictSafe
  BY DEF Init, VerdictSafe, JudgesOpen, TellsTheTruth, AnnouncementsAreTrue

\* Verdicts are safe in every reachable state.
LEMMA AlwaysVerdictSafe == Spec => []VerdictSafe
  BY InitVerdict, VerdictStep, AlwaysTyped, PTL DEF Spec

\* Whatever ticks overlap or die, what is announced is what was decided.
THEOREM AnnouncementsCorrect == Spec => []AnnouncementsAreTrue
  <1>1. VerdictSafe => AnnouncementsAreTrue
    BY DEF VerdictSafe
  <1>. QED BY <1>1, AlwaysVerdictSafe, PTL

\* No late worker changes a verdict.
THEOREM DecisionsAreFinal == Spec => DecidedStaysDecided
  <1>1. Typed /\ Typed' /\ VerdictSafe /\ [Next]_vars
          => [\A r \in Runs : runs[r].status \in TERMINAL => runs'[r].status = runs[r].status]_vars
    BY VerdictStep DEF StatusKept
  <1>. QED BY <1>1, AlwaysTyped, AlwaysVerdictSafe, PTL DEF Spec, DecidedStaysDecided

-----------------------------------------------------------------------------
(* No run is lost: a row that changes either keeps a next_check_at or is   *)
(* closed by a worker that has announced its verdict.                      *)

ScheduleKept ==
  /\ outbox \subseteq outbox'
  /\ \A r \in Runs : \/ runs'[r] = runs[r]
                     \/ runs'[r].next # NoTime
                     \/ /\ runs'[r].status \in TERMINAL
                        /\ Decided(r, runs'[r].status) \in outbox

\* Rows that keep their schedule keep both scheduling invariants.
LEMMA RowsStayScheduled ==
  ASSUME PendingIsScheduled, UnscheduledIsAnnounced, ScheduleKept
  PROVE  PendingIsScheduled' /\ UnscheduledIsAnnounced'
  <1>1. PendingIsScheduled'
    BY DEF PendingIsScheduled, ScheduleKept, TERMINAL
  <1>2. UnscheduledIsAnnounced'
    BY DEF UnscheduledIsAnnounced, Admitted, ScheduleKept
  <1>. QED BY <1>1, <1>2

\* What a worker must have ready before it commits or closes.
Ready(w) ==
  /\ pc[w] \in {"record", "commit"} => found[w].next # NoTime
  /\ pc[w] = "close" => Decided(cur[w].run, found[w].status) \in outbox

\* Only the worker that moves has to be shown ready for what it does next.
LEMMA MoverSchedules ==
  ASSUME Typed, ScheduleSafe, ScheduleKept, NEW w \in Workers,
         StartTick(w) \/ Progress(w) \/ Fault(w), Ready(w)'
  PROVE  ScheduleSafe'
  <1>1. ASSUME NEW v \in Workers, v # w PROVE Ready(v)'
    <2>1. pc'[v] = pc[v] /\ cur'[v] = cur[v] /\ found'[v] = found[v]
      BY <1>1, OthersUntouched
    <2>. QED BY <2>1 DEF ScheduleSafe, CommitsKeepSchedule, AnnouncedBeforeClosing,
                         ScheduleKept, Ready
  <1>2. CommitsKeepSchedule' /\ AnnouncedBeforeClosing'
    BY <1>1 DEF Ready, CommitsKeepSchedule, AnnouncedBeforeClosing
  <1>. QED BY <1>2, RowsStayScheduled DEF ScheduleSafe

\* Every step of an invocation keeps the rows scheduled and its worker ready.
LEMMA ProgressSchedules ==
  ASSUME Typed, VerdictSafe, ScheduleSafe, NEW w \in Workers,
         StartTick(w) \/ Progress(w) \/ Fault(w)
  PROVE  ScheduleKept /\ Ready(w)'
  <1>0. /\ pc \in [Workers -> PC] /\ cur \in [Workers -> Claim] /\ found \in [Workers -> Finding]
        /\ cur[w].run \in Runs /\ tick[w].now \in Nat
        /\ CommitsKeepSchedule /\ AnnouncedBeforeClosing /\ TellsTheTruth(w)
    BY DEF Typed, TypeOK, WorkersTyped, Claim, ScheduleSafe, VerdictSafe
  <1>1. ASSUME \/ StartTick(w) \/ ClaimsDone(w) \/ EndTick(w) \/ Settle(w)
               \/ NoPeriodToSettle(w) \/ Fault(w)
        PROVE  ScheduleKept /\ Ready(w)'
    <2>1. UNCHANGED <<runs, outbox>>
      BY <1>1 DEF StartTick, ClaimsDone, EndTick, Settle, NoPeriodToSettle, Fault, Throw,
         OutOfTime, Crash, db
    <2>2. pc'[w] \in {"idle", "claim", "between"}
      BY <1>1, <1>0 DEF StartTick, ClaimsDone, EndTick, Settle, NoPeriodToSettle, Fault, Throw,
         OutOfTime, Crash, Gone, NextRun, Goto
    <2>. QED BY <2>1, <2>2 DEF ScheduleKept, Ready
  <1>2. ASSUME NEW c \in batch[w], TryClaim(w, c) PROVE ScheduleKept /\ Ready(w)'
    <2>1. UNCHANGED <<pc, outbox>> /\ pc[w] = "claim"
      BY <1>2 DEF TryClaim
    <2>2. \A r \in Runs : runs'[r] = runs[r] \/ runs'[r].next # NoTime
      BY <1>2, ClaimRows
    <2>. QED BY <2>1, <2>2 DEF ScheduleKept, Ready
  <1>3. ASSUME (\E c \in held[w] : BeginObserve(w, c)) \/ RulesUnusable(w)
        PROVE  ScheduleKept /\ Ready(w)'
    <2>1. UNCHANGED <<runs, outbox>>
      BY <1>3 DEF BeginObserve, RulesUnusable, db
    <2>2. pc'[w] \in {"announce", "gather", "resolve"}
      BY <1>3, <1>0 DEF BeginObserve, FirstStep, RulesUnusable, Goto
    <2>. QED BY <2>1, <2>2 DEF ScheduleKept, Ready
  <1>4. ASSUME (\E obs \in Observations : Gather(w, obs))
               \/ GatherStarved(w) \/ GatherUnconnected(w)
        PROVE  ScheduleKept /\ Ready(w)'
    <2>1. UNCHANGED <<runs, outbox>>
      BY <1>4 DEF Gather, GatherStarved, GatherUnconnected, db
    <2>2. PICK obs : pc[w] = "gather" /\ JudgeGathered(w, obs)
      BY <1>4 DEF Gather, GatherStarved, GatherUnconnected
    <2>3. pc'[w] \in {"record", "resolve"} /\ (pc'[w] = "record" => found'[w].next # NoTime)
      BY <2>2, <1>0, JudgedTyped DEF Goto
    <2>. QED BY <2>1, <2>3 DEF ScheduleKept, Ready
  <1>5. ASSUME RecordAssertions(w) PROVE ScheduleKept /\ Ready(w)'
    <2>1. UNCHANGED <<runs, outbox, found>> /\ pc[w] = "record" /\ pc'[w] = "commit"
      BY <1>5, <1>0 DEF RecordAssertions, Goto
    <2>. QED BY <2>1, <1>0 DEF ScheduleKept, Ready, CommitsKeepSchedule
  <1>6. ASSUME Announce(w) PROVE ScheduleKept /\ Ready(w)'
    <2>1. /\ UNCHANGED <<runs, cur, found>> /\ pc'[w] = "close"
          /\ outbox' = outbox \cup {Decided(cur[w].run, found[w].status)}
      BY <1>6, <1>0 DEF Announce, Goto
    <2>. QED BY <2>1 DEF ScheduleKept, Ready
  <1>7. ASSUME Commit(w) \/ Resolve(w) \/ Close(w) PROVE ScheduleKept /\ Ready(w)'
    <2>1. PICK status, next, count, completed :
            /\ ApplyOutcome(cur[w], status, next, count, completed)
            /\ \/ next # NoTime
               \/ /\ status \in TERMINAL
                  /\ Decided(cur[w].run, status) \in outbox
      <3>1. CASE Commit(w)
        <4>1. ApplyOutcome(cur[w], found[w].status, found[w].next, found[w].count,
                           IF found[w].status \in TERMINAL THEN tick[w].now ELSE NoTime)
          BY <3>1 DEF Commit
        <4>2. found[w].next # NoTime
          BY <3>1, <1>0 DEF Commit, CommitsKeepSchedule
        <4>. QED BY <4>1, <4>2
      <3>2. CASE Resolve(w)
        <4>1. ApplyOutcome(cur[w], "UNVERIFIED", tick[w].now + FinaliseDelay, found[w].count,
                           tick[w].now)
          BY <3>2 DEF Resolve
        <4>2. tick[w].now + FinaliseDelay # NoTime
          BY <1>0, SchedulerAssumption DEF NoTime
        <4>. QED BY <4>1, <4>2
      <3>3. CASE Close(w)
        <4>1. ApplyOutcome(cur[w], found[w].status, NoTime, found[w].count, tick[w].now)
          BY <3>3 DEF Close
        <4>2. found[w].status \in TERMINAL /\ Decided(cur[w].run, found[w].status) \in outbox
          BY <3>3, <1>0 DEF Close, TellsTheTruth, AnnouncedBeforeClosing
        <4>. QED BY <4>1, <4>2
      <3>. QED BY <1>7, <3>1, <3>2, <3>3
    <2>2. /\ \A r \in Runs : ~(r = cur[w].run /\ Applied(cur[w])) => runs'[r] = runs[r]
          /\ Applied(cur[w]) => /\ runs'[cur[w].run].status = status
                                /\ runs'[cur[w].run].next = next
      BY <2>1, ApplyOutcomeRows
    <2>3. UNCHANGED outbox
      BY <1>7 DEF Commit, Resolve, Close
    <2>4. ScheduleKept
      BY <2>1, <2>2, <2>3 DEF ScheduleKept
    <2>5. pc'[w] \in {"between", "announce", "settle"}
      BY <1>7, <1>0 DEF Commit, Resolve, Close, GoAnnounce, NextRun, Goto
    <2>. QED BY <2>4, <2>5 DEF Ready
  <1>. QED BY <1>1, <1>2, <1>3, <1>4, <1>5, <1>6, <1>7 DEF Progress

\* Every step keeps the schedule.
LEMMA ScheduleStep ==
  Typed /\ VerdictSafe /\ ScheduleSafe /\ [Next]_vars => ScheduleSafe'
  <1> SUFFICES ASSUME Typed, VerdictSafe, ScheduleSafe, [Next]_vars PROVE ScheduleSafe'
    OBVIOUS
  <1>1. CASE UNCHANGED vars
    BY <1>1 DEF vars, ScheduleSafe, PendingIsScheduled, UnscheduledIsAnnounced, Admitted,
                CommitsKeepSchedule, AnnouncedBeforeClosing
  <1>2. CASE Environment \/ Advance
    <2>1. UNCHANGED <<pc, cur, found>> /\ outbox \subseteq outbox'
      BY <1>2 DEF Environment, Admit, Pause, Resume, Advance, local, db
    <2>2. \A r \in Runs : runs'[r] = runs[r] \/ runs'[r].next # NoTime
      <3>1. ASSUME NEW r \in Runs, Admit(r), NEW q \in Runs
            PROVE  runs'[q] = runs[q] \/ runs'[q].next # NoTime
        <4>1. CASE q = r
          BY <3>1, <4>1
          DEF Admit, Typed, TypeOK, DatabaseTyped, CountersTyped, NoTime
        <4>2. CASE q # r
          BY <3>1, <4>2 DEF Admit, Typed, TypeOK, DatabaseTyped
        <4>. QED BY <4>1, <4>2
      <3>2. ASSUME Pause \/ Resume \/ Advance PROVE UNCHANGED runs
        BY <3>2 DEF Pause, Resume, Advance, db
      <3>. QED BY <1>2, <3>1, <3>2 DEF Environment
    <2>3. PendingIsScheduled' /\ UnscheduledIsAnnounced'
      BY <2>1, <2>2, RowsStayScheduled DEF ScheduleSafe, ScheduleKept
    <2>4. CommitsKeepSchedule' /\ AnnouncedBeforeClosing'
      BY <2>1 DEF ScheduleSafe, CommitsKeepSchedule, AnnouncedBeforeClosing
    <2>. QED BY <2>3, <2>4 DEF ScheduleSafe
  <1>3. ASSUME NEW w \in Workers, StartTick(w) \/ Progress(w) \/ Fault(w) PROVE ScheduleSafe'
    BY <1>3, ProgressSchedules, MoverSchedules
  <1>. QED BY <1>1, <1>2, <1>3 DEF Next

\* No run, nothing to schedule.
LEMMA InitSchedule == Init => ScheduleSafe
  BY DEF Init, ABSENT, ScheduleSafe, PendingIsScheduled, UnscheduledIsAnnounced, Admitted,
         CommitsKeepSchedule, AnnouncedBeforeClosing

\* The schedule is safe in every reachable state.
LEMMA AlwaysScheduleSafe == Spec => []ScheduleSafe
  BY InitSchedule, ScheduleStep, AlwaysTyped, AlwaysVerdictSafe, PTL DEF Spec

\* No open run ever drops off the schedule.
THEOREM NoRunIsStranded == Spec => []PendingIsScheduled
  <1>1. ScheduleSafe => PendingIsScheduled
    BY DEF ScheduleSafe
  <1>. QED BY <1>1, AlwaysScheduleSafe, PTL

\* No run is put to rest undecided or unannounced.
THEOREM NoSilentClosing == Spec => []UnscheduledIsAnnounced
  <1>1. ScheduleSafe => UnscheduledIsAnnounced
    BY DEF ScheduleSafe
  <1>. QED BY <1>1, AlwaysScheduleSafe, PTL

-----------------------------------------------------------------------------
(* The allowance of a run is settled once.  The worker that closes a run   *)
(* holds its current revision; the write leaves every other claim behind   *)
(* for good, so nobody closes the run again.                               *)

ClosedStaysClosed == \A r \in Runs : Closed(r) => runs'[r] = runs[r]

NewClaimsAreOpen ==
  \A w \in Workers : \A c \in Claims(w)' : c \in Claims(w) \/ ~Closed(c.run)'

\* A worker that starts settling has just closed an open run.
FreshSettler(w) ==
  pc'[w] = "settle" =>
    Closed(cur[w].run)' /\ ~Closed(cur'[w].run)

\* A claim that still applies is a claim on a run that has not been closed.
LEMMA CurrentClaimIsOpen ==
  ASSUME Typed, ClosedForGood, NEW w \in Workers, Working(w), Applied(cur[w])
  PROVE  ~Closed(cur[w].run) /\ runs[cur[w].run].next # NoTime
  <1>1. cur[w] \in Claims(w) /\ cur[w].run \in Runs /\ cur[w].revision \in Nat
    BY DEF Claims, Typed, TypeOK, WorkersTyped, Claim
  <1>2. ~Closed(cur[w].run)
    BY <1>1 DEF ClosedForGood, Applied
  <1>3. runs[cur[w].run].status # "ABSENT"
    BY <1>1 DEF Typed, ClaimsBehindRow
  <1>. QED BY <1>2, <1>3 DEF Closed

\* A closed run stays closed, new claims are on open runs, and a worker about to
\* settle has just closed the run it settles.
LEMMA ProgressSettles ==
  ASSUME Typed, VerdictSafe, ScheduleSafe, ClosedForGood, NEW w \in Workers,
         StartTick(w) \/ Progress(w) \/ Fault(w)
  PROVE  ClosedStaysClosed /\ NewClaimsAreOpen /\ FreshSettler(w)
  <1>0. /\ pc \in [Workers -> PC] /\ cur \in [Workers -> Claim] /\ held \in [Workers -> SUBSET Claim]
        /\ cur[w].run \in Runs /\ tick[w].now \in Nat /\ CommitsKeepSchedule
    BY DEF Typed, TypeOK, WorkersTyped, Claim, ScheduleSafe
  <1>1. WorkersTyped
    BY DEF Typed, TypeOK
  <1>2. ASSUME StartTick(w) \/ ClaimsDone(w)
        PROVE  ClosedStaysClosed /\ NewClaimsAreOpen /\ FreshSettler(w)
    BY <1>2, <1>0 DEF StartTick, ClaimsDone, Goto, db, ClosedStaysClosed, NewClaimsAreOpen,
       FreshSettler, Claims, Working, ObserveSteps
  <1>3. ASSUME EndTick(w) \/ Settle(w) \/ NoPeriodToSettle(w) \/ Fault(w)
        PROVE  ClosedStaysClosed /\ NewClaimsAreOpen /\ FreshSettler(w)
    <2>1. UNCHANGED runs /\ (Gone(w) \/ (NextRun(w) /\ UNCHANGED <<tick, batch, held>>))
      BY <1>3 DEF EndTick, Settle, NoPeriodToSettle, Fault, Throw, OutOfTime, Crash, db
    <2>2. NoNewClaims
      BY <2>1, <1>1, GoneTyped, NextRunTyped
    <2>3. pc'[w] \in {"idle", "between"}
      BY <2>1, <1>0 DEF Gone, NextRun, Goto
    <2>. QED BY <2>1, <2>2, <2>3 DEF ClosedStaysClosed, NewClaimsAreOpen, NoNewClaims, FreshSettler
  <1>4. ASSUME NEW c \in batch[w], TryClaim(w, c)
        PROVE  ClosedStaysClosed /\ NewClaimsAreOpen /\ FreshSettler(w)
    <2>1. \A r \in Runs : runs'[r] = runs[r] \/ (runs[r].next # NoTime /\ runs'[r].next # NoTime)
      BY <1>4, ClaimRows
    <2>2. ClosedStaysClosed
      BY <2>1 DEF ClosedStaysClosed, Closed
    <2>3. \/ UNCHANGED held
          \/ /\ held' = [held EXCEPT ![w] = @ \cup {[run |-> c.run, revision |-> c.revision + 1]}]
             /\ runs[c.run].next # NoTime
      BY <1>4 DEF TryClaim, Due
    <2>4. UNCHANGED <<pc, cur>> /\ pc[w] = "claim" /\ c.run \in Runs
      BY <1>4, <1>1 DEF TryClaim, WorkersTyped, Claim
    <2>5. \A v \in Workers : \A d \in Claims(v)' :
            d \in Claims(v) \/ (d.run = c.run /\ runs[c.run].next # NoTime)
      BY <2>3, <2>4, <1>0 DEF Claims, Working
    <2>6. NewClaimsAreOpen
      BY <2>1, <2>4, <2>5 DEF NewClaimsAreOpen, Closed
    <2>. QED BY <2>2, <2>4, <2>6 DEF FreshSettler
  <1>5. ASSUME \/ (\E c \in held[w] : BeginObserve(w, c)) \/ RulesUnusable(w)
               \/ RecordAssertions(w) \/ Announce(w)
        PROVE  ClosedStaysClosed /\ NewClaimsAreOpen /\ FreshSettler(w)
    <2>1. UNCHANGED runs
      BY <1>5 DEF BeginObserve, RulesUnusable, RecordAssertions, Announce, db
    <2>2. pc'[w] # "settle"
      BY <1>5, <1>0 DEF BeginObserve, FirstStep, RulesUnusable, RecordAssertions, Announce, Goto
    <2>3. \A v \in Workers : Claims(v)' \subseteq Claims(v)
      BY <1>5, <1>0 DEF BeginObserve, FirstStep, RulesUnusable, RecordAssertions, Announce, Goto,
         Claims, Working, ObserveSteps
    <2>. QED BY <2>1, <2>2, <2>3 DEF ClosedStaysClosed, NewClaimsAreOpen, FreshSettler
  <1>6. ASSUME (\E obs \in Observations : Gather(w, obs))
               \/ GatherStarved(w) \/ GatherUnconnected(w)
        PROVE  ClosedStaysClosed /\ NewClaimsAreOpen /\ FreshSettler(w)
    <2>1. PICK obs : pc[w] = "gather" /\ JudgeGathered(w, obs) /\ UNCHANGED <<runs, held, cur>>
      BY <1>6 DEF Gather, GatherStarved, GatherUnconnected, db
    <2>2. PICK step \in {"record", "resolve"} : Goto(w, step)
      BY <2>1, JudgedTyped
    <2>3. \A v \in Workers : Claims(v)' \subseteq Claims(v)
      BY <2>1, <2>2, <1>0 DEF Goto, Claims, Working, ObserveSteps
    <2>4. pc'[w] # "settle"
      BY <2>2, <1>0 DEF Goto
    <2>. QED BY <2>1, <2>3, <2>4 DEF ClosedStaysClosed, NewClaimsAreOpen, FreshSettler
  <1>7. ASSUME Commit(w) \/ Resolve(w) \/ Close(w)
        PROVE  ClosedStaysClosed /\ NewClaimsAreOpen /\ FreshSettler(w)
    <2>1. Working(w) /\ UNCHANGED held
      BY <1>7 DEF Commit, Resolve, Close, Working, ObserveSteps
    <2>2. PICK status, next, count, completed :
            /\ status \in RunStatus
            /\ ApplyOutcome(cur[w], status, next, count, completed)
            /\ \/ NextRun(w)
               \/ Applied(cur[w]) /\ GoAnnounce(w, status) /\ next # NoTime
               \/ Applied(cur[w]) /\ Goto(w, "settle") /\ UNCHANGED cur /\ next = NoTime
      <3>0. found[w].status \in RunStatus
        BY <1>1 DEF WorkersTyped, Finding
      <3>1. CASE Commit(w)
        <4>1. ApplyOutcome(cur[w], found[w].status, found[w].next, found[w].count,
                           IF found[w].status \in TERMINAL THEN tick[w].now ELSE NoTime)
          BY <3>1 DEF Commit
        <4>2. found[w].next # NoTime
          BY <3>1, <1>0 DEF Commit, CommitsKeepSchedule
        <4>3. NextRun(w) \/ (Applied(cur[w]) /\ GoAnnounce(w, found[w].status))
          BY <3>1 DEF Commit
        <4>. QED BY <4>1, <4>2, <4>3, <3>0
      <3>2. CASE Resolve(w)
        <4>1. ApplyOutcome(cur[w], "UNVERIFIED", tick[w].now + FinaliseDelay, found[w].count,
                           tick[w].now)
          BY <3>2 DEF Resolve
        <4>2. tick[w].now + FinaliseDelay # NoTime /\ "UNVERIFIED" \in RunStatus
          BY <1>0, SchedulerAssumption DEF NoTime, RunStatus
        <4>3. NextRun(w) \/ (Applied(cur[w]) /\ GoAnnounce(w, "UNVERIFIED"))
          BY <3>2 DEF Resolve
        <4>. QED BY <4>1, <4>2, <4>3
      <3>3. CASE Close(w)
        <4>1. ApplyOutcome(cur[w], found[w].status, NoTime, found[w].count, tick[w].now)
          BY <3>3 DEF Close
        <4>2. NextRun(w) \/ (Applied(cur[w]) /\ Goto(w, "settle") /\ UNCHANGED cur)
          BY <3>3 DEF Close
        <4>. QED BY <4>1, <4>2, <3>0
      <3>. QED BY <1>7, <3>1, <3>2, <3>3
    <2>3. /\ \A r \in Runs : ~(r = cur[w].run /\ Applied(cur[w])) => runs'[r] = runs[r]
          /\ Applied(cur[w]) => /\ runs'[cur[w].run].status = status
                                /\ runs'[cur[w].run].next = next
      BY <2>2, ApplyOutcomeRows
    <2>4. Applied(cur[w]) => ~Closed(cur[w].run)
      BY <2>1, CurrentClaimIsOpen
    <2>5. ClosedStaysClosed
      BY <2>3, <2>4 DEF ClosedStaysClosed
    <2>6. CASE NextRun(w)
      <3>1. pc'[w] = "between" /\ \A v \in Workers : Claims(v)' \subseteq Claims(v)
        BY <2>6, <2>1, <1>0 DEF NextRun, Goto, Claims, Working, ObserveSteps
      <3>. QED BY <3>1, <2>5 DEF NewClaimsAreOpen, FreshSettler
    <2>7. CASE Applied(cur[w]) /\ GoAnnounce(w, status) /\ next # NoTime
      <3>1. pc'[w] = "announce" /\ cur'[w].run = cur[w].run
        BY <2>7, <1>0 DEF GoAnnounce, Goto
      <3>2. \A v \in Workers : \A d \in Claims(v)' : d \in Claims(v) \/ d.run = cur[w].run
        <4>1. /\ pc' = [pc EXCEPT ![w] = "announce"]
              /\ \E c : cur' = [cur EXCEPT ![w] = c]
          BY <2>7 DEF GoAnnounce, Goto
        <4>. QED BY <4>1, <3>1, <2>1, <1>0 DEF Claims, Working
      <3>3. runs'[cur[w].run].next # NoTime
        BY <2>7, <2>3
      <3>4. \A d : d.run = cur[w].run => ~Closed(d.run)'
        BY <3>3 DEF Closed
      <3>5. NewClaimsAreOpen
        BY <3>2, <3>4 DEF NewClaimsAreOpen
      <3>. QED BY <3>1, <3>5, <2>5 DEF FreshSettler
    <2>8. CASE Applied(cur[w]) /\ Goto(w, "settle") /\ UNCHANGED cur /\ next = NoTime
      <3>1. \A v \in Workers : Claims(v)' \subseteq Claims(v)
        BY <2>8, <2>1, <1>0 DEF Goto, Claims, Working
      <3>2. FreshSettler(w)
        <4>1. runs'[cur[w].run].status # "ABSENT" /\ runs'[cur[w].run].next = NoTime
          BY <2>2, <2>8, <2>3 DEF RunStatus
        <4>2. cur'[w] = cur[w] /\ ~Closed(cur[w].run)
          BY <2>8, <2>4
        <4>. QED BY <4>1, <4>2 DEF FreshSettler, Closed
      <3>. QED BY <3>1, <3>2, <2>5 DEF NewClaimsAreOpen
    <2>. QED BY <2>2, <2>6, <2>7, <2>8
  <1>. QED BY <1>2, <1>3, <1>4, <1>5, <1>6, <1>7 DEF Progress

\* Claims left behind a row stay behind it.
LEMMA ClosedForGoodKept ==
  ASSUME Typed, Typed', ClosedForGood, RowsMove, ClosedStaysClosed, NewClaimsAreOpen
  PROVE  ClosedForGood'
  <1> SUFFICES ASSUME NEW w \in Workers, NEW c \in Claims(w)', Closed(c.run)'
               PROVE  c.revision < runs'[c.run].revision
    BY DEF ClosedForGood
  <1>1. c \in Claim
    BY DEF Typed, TypeOK, WorkersTyped, Claims
  <1>2. /\ c.run \in Runs /\ c.revision \in Nat
        /\ runs[c.run].revision \in Nat /\ runs'[c.run].revision \in Nat
    BY <1>1 DEF Claim, Typed, TypeOK, DatabaseTyped, RunRow
  <1>3. CASE ~(c \in Claims(w))
    <2>1. ~Closed(c.run)'
      BY <1>3 DEF NewClaimsAreOpen
    <2>. QED BY <2>1
  <1>4. CASE c \in Claims(w)
    <2>1. c.revision <= runs[c.run].revision
      BY <1>4 DEF Typed, ClaimsBehindRow
    <2>2. CASE runs'[c.run] = runs[c.run]
      <3>1. Closed(c.run)
        BY <2>2 DEF Closed
      <3>. QED BY <1>4, <2>2, <3>1 DEF ClosedForGood
    <2>3. CASE runs'[c.run].revision > runs[c.run].revision
      BY <2>1, <2>3, <1>2
    <2>. QED BY <2>2, <2>3, <1>2 DEF RowsMove
  <1>. QED BY <1>3, <1>4

\* Runs settled before stay closed while nothing is settled.
LEMMA SettledStayClosed ==
  ASSUME Typed, SettledRunsAreClosed, ClosedStaysClosed, UNCHANGED settled
  PROVE  SettledRunsAreClosed'
  BY DEF SettledRunsAreClosed, ClosedStaysClosed, Closed

\* Every step of an invocation keeps the settlements.
LEMMA ProgressSettlement ==
  ASSUME Typed, Typed', VerdictSafe, ScheduleSafe, SettlementSafe, RowsMove,
         NEW w \in Workers, StartTick(w) \/ Progress(w) \/ Fault(w)
  PROVE  SettlementSafe'
  <1>0. /\ ClosedForGood /\ OneSettler /\ SettledRunsAreClosed
        /\ pc \in [Workers -> PC] /\ settled \in [Runs -> Nat]
        /\ cur \in [Workers -> Claim] /\ cur' \in [Workers -> Claim]
    BY DEF SettlementSafe, Typed, TypeOK, WorkersTyped, CountersTyped
  <1>1. ClosedStaysClosed /\ NewClaimsAreOpen /\ FreshSettler(w)
    BY <1>0, ProgressSettles
  <1>2. ClosedForGood'
    BY <1>0, <1>1, ClosedForGoodKept
  <1>3. \A v \in Workers : v # w => pc'[v] = pc[v] /\ cur'[v] = cur[v]
    BY OthersUntouched
  <1>4. CASE Settle(w)
    <2>1. pc[w] = "settle" /\ pc'[w] = "between" /\ UNCHANGED runs
      BY <1>0, <1>4 DEF Settle, NextRun, Goto
    <2>2. cur[w].run \in Runs /\ Closed(cur[w].run) /\ settled[cur[w].run] = 0
      BY <2>1, <1>0 DEF OneSettler, Claim
    <2>3. \/ settled' = settled
          \/ settled' = [settled EXCEPT ![cur[w].run] = @ + 1]
      BY <1>4 DEF Settle
    <2>4. \A r \in Runs : r # cur[w].run => settled'[r] = settled[r]
      BY <2>3, <1>0
    <2>5. settled'[cur[w].run] \in {0, 1}
      BY <2>2, <2>3, <1>0
    <2>6. SettledRunsAreClosed'
      BY <2>1, <2>2, <2>4, <2>5, <1>0 DEF SettledRunsAreClosed, Closed
    <2>7. OneSettler'
      <3> SUFFICES ASSUME NEW v \in Workers, pc'[v] = "settle"
                   PROVE  /\ Closed(cur[v].run)' /\ settled'[cur'[v].run] = 0
                          /\ \A u \in Workers : pc'[u] = "settle" /\ cur'[u].run = cur'[v].run
                                                 => u = v
        BY DEF OneSettler
      <3>1. v # w
        BY <2>1
      <3>2. pc[v] = "settle" /\ cur'[v] = cur[v] /\ cur[v].run # cur[w].run /\ cur[v].run \in Runs
        BY <3>1, <1>3, <2>1, <1>0 DEF OneSettler, Claim
      <3>3. Closed(cur[v].run) /\ settled[cur[v].run] = 0
        BY <3>2, <1>0 DEF OneSettler
      <3>4. runs'[cur'[v].run] = runs[cur[v].run]
        BY <3>2, <2>1
      <3>5. Closed(cur[v].run)'
        BY <3>3, <3>4 DEF Closed
      <3>6. \A u \in Workers : pc'[u] = "settle" => u # w
        BY <2>1
      <3>7. \A u \in Workers : pc'[u] = "settle" /\ cur'[u].run = cur'[v].run => u = v
        BY <3>2, <3>6, <1>0, <1>3 DEF OneSettler
      <3>. QED BY <3>2, <3>3, <3>5, <3>7, <2>4
    <2>. QED BY <1>2, <2>6, <2>7 DEF SettlementSafe
  <1>5. CASE ~Settle(w)
    <2>1. UNCHANGED settled
      BY <1>5 DEF StartTick, Progress, Fault, TryClaim, ClaimsDone, BeginObserve, EndTick,
         RulesUnusable, Gather, GatherStarved, GatherUnconnected, RecordAssertions, Commit,
         Resolve, Announce,
         Close, NoPeriodToSettle, Throw, OutOfTime, Crash
    <2>2. SettledRunsAreClosed'
      BY <2>1, <1>0, <1>1, SettledStayClosed
    <2>3. OneSettler'
      <3>1. ASSUME NEW v \in Workers, v # w, pc'[v] = "settle"
            PROVE  /\ pc[v] = "settle" /\ cur'[v] = cur[v]
                   /\ Closed(cur[v].run) /\ Closed(cur[v].run)' /\ settled'[cur'[v].run] = 0
        <4>1. pc[v] = "settle" /\ cur'[v] = cur[v] /\ cur[v].run \in Runs
          BY <3>1, <1>0, <1>3 DEF Claim
        <4>2. Closed(cur[v].run) /\ settled[cur[v].run] = 0
          BY <4>1, <1>0 DEF OneSettler
        <4>3. runs'[cur'[v].run] = runs[cur[v].run]
          BY <4>1, <4>2, <1>1 DEF ClosedStaysClosed
        <4>. QED BY <4>1, <4>2, <4>3, <2>1 DEF Closed
      <3>2. ASSUME pc'[w] = "settle"
            PROVE  /\ Closed(cur[w].run)' /\ ~Closed(cur'[w].run) /\ settled'[cur'[w].run] = 0
        <4>1. Closed(cur[w].run)' /\ ~Closed(cur'[w].run) /\ cur'[w].run \in Runs
          BY <3>2, <1>0, <1>1 DEF FreshSettler, Claim
        <4>2. settled[cur'[w].run] = 0
          BY <4>1, <1>0 DEF SettledRunsAreClosed
        <4>. QED BY <4>1, <4>2, <2>1
      <3>3. \A v \in Workers : pc'[v] = "settle" =>
              /\ Closed(cur[v].run)' /\ settled'[cur'[v].run] = 0
              /\ v # w <=> Closed(cur'[v].run)
        BY <3>1, <3>2
      <3>4. \A u, v \in Workers :
              pc'[u] = "settle" /\ pc'[v] = "settle" /\ cur'[u].run = cur'[v].run => u = v
        <4> SUFFICES ASSUME NEW u \in Workers, NEW v \in Workers, pc'[u] = "settle",
                            pc'[v] = "settle", cur'[u].run = cur'[v].run
                     PROVE  u = v
          OBVIOUS
        <4>1. CASE u = w \/ v = w
          BY <4>1, <3>3
        <4>2. CASE u # w /\ v # w
          BY <4>2, <3>1, <1>0 DEF OneSettler
        <4>. QED BY <4>1, <4>2
      <3>. QED BY <3>3, <3>4 DEF OneSettler
    <2>. QED BY <1>2, <2>2, <2>3 DEF SettlementSafe
  <1>. QED BY <1>4, <1>5

\* Every step keeps the settlements.
LEMMA SettlementStep ==
  Typed /\ Typed' /\ VerdictSafe /\ ScheduleSafe /\ SettlementSafe /\ [Next]_vars
    => SettlementSafe'
  <1> SUFFICES ASSUME Typed, Typed', VerdictSafe, ScheduleSafe, SettlementSafe, [Next]_vars
               PROVE  SettlementSafe'
    OBVIOUS
  <1>0. RowsMove
    BY VerdictStep
  <1>1. CASE UNCHANGED vars
    BY <1>1 DEF vars, SettlementSafe, ClosedForGood, OneSettler, SettledRunsAreClosed, Closed,
                Claims, Working
  <1>2. CASE Environment \/ Advance
    <2>1. UNCHANGED <<pc, cur, held, settled>>
      BY <1>2 DEF Environment, Admit, Pause, Resume, Advance, local
    <2>2. ClosedStaysClosed
      <3>1. ASSUME NEW r \in Runs, Admit(r) PROVE ClosedStaysClosed
        BY <3>1 DEF Admit, ABSENT, ClosedStaysClosed, Closed, Typed, TypeOK, DatabaseTyped
      <3>2. ASSUME Pause \/ Resume \/ Advance PROVE UNCHANGED runs
        BY <3>2 DEF Pause, Resume, Advance, db
      <3>. QED BY <1>2, <3>1, <3>2 DEF Environment, ClosedStaysClosed
    <2>3. NewClaimsAreOpen
      BY <2>1 DEF NewClaimsAreOpen, Claims, Working
    <2>4. ClosedForGood'
      BY <1>0, <2>2, <2>3, ClosedForGoodKept DEF SettlementSafe
    <2>5. SettledRunsAreClosed'
      BY <2>1, <2>2, SettledStayClosed DEF SettlementSafe
    <2>6. OneSettler'
      <3>1. \A v \in Workers : cur[v].run \in Runs
        BY DEF Typed, TypeOK, WorkersTyped, Claim
      <3>2. \A v \in Workers : pc[v] = "settle" => runs'[cur[v].run] = runs[cur[v].run]
        BY <2>2, <3>1 DEF ClosedStaysClosed, SettlementSafe, OneSettler
      <3>. QED BY <2>1, <3>2 DEF SettlementSafe, OneSettler, Closed
    <2>. QED BY <2>4, <2>5, <2>6 DEF SettlementSafe
  <1>3. ASSUME NEW w \in Workers, StartTick(w) \/ Progress(w) \/ Fault(w) PROVE SettlementSafe'
    BY <1>0, <1>3, ProgressSettlement
  <1>. QED BY <1>1, <1>2, <1>3 DEF Next

\* Nothing is settled at first.
LEMMA InitSettlement == Init => SettlementSafe
  BY DEF Init, SettlementSafe, ClosedForGood, OneSettler, SettledRunsAreClosed, Claims, Working,
         ObserveSteps

\* Settlements are safe in every reachable state.
LEMMA AlwaysSettlementSafe == Spec => []SettlementSafe
  BY InitSettlement, SettlementStep, AlwaysTyped, AlwaysVerdictSafe, AlwaysScheduleSafe, PTL
  DEF Spec

\* No run's allowance is settled twice, nor before it has left the schedule.
THEOREM SettlementCorrect == Spec => []SettledOnce
  <1>1. SettlementSafe => SettledOnce
    BY DEF SettlementSafe, SettledRunsAreClosed, SettledOnce, Closed
  <1>. QED BY <1>1, AlwaysSettlementSafe, PTL

-----------------------------------------------------------------------------
(* No two workers hold one claim.  A claim is a row revision, and a row    *)
(* changes revision whenever it is claimed or decided.                     *)

\* The worker that moves gains a claim only at a revision its row did not
\* have before, and never begins twice on one.
NewClaimsAreFresh(w) ==
  /\ \A v \in Workers : \A d \in Claims(v)' :
       d \in Claims(v) \/ (v = w /\ d.revision > runs[d.run].revision)
  /\ Working(w)' => cur'[w] \notin held'[w]

\* A fresh claim is nobody else's.
LEMMA FreshNotShared ==
  ASSUME Typed, ClaimsNotShared, NEW w \in Workers, NewClaimsAreFresh(w),
         StartTick(w) \/ Progress(w) \/ Fault(w)
  PROVE  ClaimsNotShared'
  <1>0. \A v \in Workers : \A d \in Claims(v) :
          d.revision \in Nat /\ runs[d.run].revision \in Nat /\ d.revision <= runs[d.run].revision
    BY DEF Typed, TypeOK, DatabaseTyped, WorkersTyped, ClaimsBehindRow, Claims, Claim, RunRow
  <1>1. ASSUME NEW u \in Workers, NEW v \in Workers, NEW c \in Claims(u)', c \in Claims(v)'
        PROVE  u = v
    <2>1. /\ c \in Claims(u) \/ (u = w /\ c.revision > runs[c.run].revision)
          /\ c \in Claims(v) \/ (v = w /\ c.revision > runs[c.run].revision)
      BY <1>1 DEF NewClaimsAreFresh
    <2>2. CASE c \in Claims(u) /\ c \in Claims(v)
      BY <2>2 DEF ClaimsNotShared
    <2>3. CASE c \in Claims(u) \/ c \in Claims(v)
      <3>1. ~(c.revision > runs[c.run].revision)
        BY <2>3, <1>0
      <3>. QED BY <2>1, <2>2, <3>1
    <2>. QED BY <2>1, <2>3
  <1>2. ASSUME NEW v \in Workers, Working(v)' PROVE cur'[v] \notin held'[v]
    <2>1. CASE v = w
      BY <1>2, <2>1 DEF NewClaimsAreFresh
    <2>2. CASE v # w
      BY <1>2, <2>2, OthersUntouched DEF ClaimsNotShared, Working
    <2>. QED BY <2>1, <2>2
  <1>. QED BY <1>1, <1>2 DEF ClaimsNotShared

\* Which claims a step of an invocation gains.
LEMMA ProgressFresh ==
  ASSUME Typed, ClaimsNotShared, NEW w \in Workers, StartTick(w) \/ Progress(w) \/ Fault(w)
  PROVE  NewClaimsAreFresh(w)
  <1>0. /\ pc \in [Workers -> PC] /\ cur \in [Workers -> Claim]
        /\ held \in [Workers -> SUBSET Claim] /\ batch \in [Workers -> SUBSET Claim]
        /\ \A v \in Workers : \A d \in Claims(v) : d.revision <= runs[d.run].revision
        /\ \A r \in Runs : runs[r].revision \in Nat
        /\ cur[w].run \in Runs /\ cur[w].revision \in Nat
    BY DEF Typed, TypeOK, DatabaseTyped, WorkersTyped, ClaimsBehindRow, Claim, RunRow
  <1>1. ASSUME \/ StartTick(w) \/ ClaimsDone(w) \/ EndTick(w) \/ Settle(w)
               \/ NoPeriodToSettle(w) \/ Fault(w)
        PROVE  NewClaimsAreFresh(w)
    <2>1. pc'[w] \in {"idle", "claim", "between"} /\ held'[w] \subseteq held[w]
      BY <1>0, <1>1 DEF StartTick, ClaimsDone, EndTick, Settle, NoPeriodToSettle, Fault, Throw,
         OutOfTime, Crash, Gone, NextRun, Goto
    <2>2. StartTick(w) \/ Progress(w) \/ Fault(w)
      OBVIOUS
    <2>3. \A v \in Workers : v # w => Claims(v)' = Claims(v)
      BY <2>2, OthersUntouched DEF Claims, Working
    <2>4. Claims(w)' \subseteq Claims(w) /\ ~Working(w)'
      BY <2>1 DEF Claims, Working, ObserveSteps
    <2>. QED BY <2>3, <2>4 DEF NewClaimsAreFresh
  <1>2. ASSUME NEW c \in batch[w], TryClaim(w, c) PROVE NewClaimsAreFresh(w)
    <2>1. /\ UNCHANGED <<pc, cur>> /\ pc[w] = "claim" /\ c.run \in Runs /\ c.revision \in Nat
      BY <1>2, <1>0 DEF TryClaim, Claim
    <2>2. \/ UNCHANGED held
          \/ /\ held' = [held EXCEPT ![w] = @ \cup {[run |-> c.run, revision |-> c.revision + 1]}]
             /\ runs[c.run].revision = c.revision
      BY <1>2 DEF TryClaim
    <2>3. \A v \in Workers : \A d \in Claims(v)' :
            \/ d \in Claims(v)
            \/ /\ v = w /\ d = [run |-> c.run, revision |-> c.revision + 1]
               /\ runs[c.run].revision = c.revision
      BY <2>1, <2>2, <1>0 DEF Claims, Working
    <2>4. \A d : d = [run |-> c.run, revision |-> c.revision + 1]
                  => d.run = c.run /\ d.revision > c.revision
      BY <2>1
    <2>5. ~Working(w)'
      BY <2>1 DEF Working, ObserveSteps
    <2>. QED BY <2>3, <2>4, <2>5 DEF NewClaimsAreFresh
  <1>3. ASSUME NEW c \in held[w], BeginObserve(w, c) PROVE NewClaimsAreFresh(w)
    <2>1. /\ pc[w] = "between" /\ \E step : Goto(w, step)
          /\ held' = [held EXCEPT ![w] = @ \ {c}] /\ cur' = [cur EXCEPT ![w] = c]
      BY <1>3 DEF BeginObserve
    <2>2. \A v \in Workers : Claims(v)' \subseteq Claims(v)
      BY <2>1, <1>0 DEF Claims, Working, Goto
    <2>3. cur'[w] \notin held'[w]
      BY <2>1, <1>0
    <2>. QED BY <2>2, <2>3 DEF NewClaimsAreFresh
  <1>4. ASSUME Working(w), UNCHANGED <<held, cur>>, NEW step, Goto(w, step)
        PROVE  NewClaimsAreFresh(w)
    <2>1. \A v \in Workers : Claims(v)' \subseteq Claims(v)
      BY <1>4, <1>0 DEF Claims, Working, Goto
    <2>2. cur'[w] \notin held'[w]
      BY <1>4 DEF ClaimsNotShared
    <2>. QED BY <2>1, <2>2 DEF NewClaimsAreFresh
  <1>5. ASSUME RulesUnusable(w) \/ RecordAssertions(w) \/ Announce(w)
        PROVE  NewClaimsAreFresh(w)
    BY <1>4, <1>5 DEF RulesUnusable, RecordAssertions, Announce, Working, ObserveSteps
  <1>6. ASSUME (\E obs \in Observations : Gather(w, obs))
               \/ GatherStarved(w) \/ GatherUnconnected(w)
        PROVE  NewClaimsAreFresh(w)
    <2>1. PICK obs : pc[w] = "gather" /\ JudgeGathered(w, obs) /\ UNCHANGED <<held, cur>>
      BY <1>6 DEF Gather, GatherStarved, GatherUnconnected
    <2>2. \E step : Goto(w, step)
      BY <2>1 DEF JudgeGathered
    <2>. QED BY <2>1, <2>2, <1>4 DEF Working, ObserveSteps
  <1>7. ASSUME Commit(w) \/ Resolve(w) \/ Close(w) PROVE NewClaimsAreFresh(w)
    <2>1. /\ Working(w) /\ UNCHANGED held
          /\ \/ NextRun(w)
             \/ Applied(cur[w]) /\ \E status : GoAnnounce(w, status)
             \/ Goto(w, "settle") /\ UNCHANGED cur
      BY <1>7 DEF Commit, Resolve, Close, Working, ObserveSteps
    <2>2. CASE NextRun(w)
      <3>1. pc'[w] = "between" /\ \A v \in Workers : Claims(v)' \subseteq Claims(v)
        BY <2>1, <2>2, <1>0 DEF NextRun, Goto, Claims, Working, ObserveSteps
      <3>. QED BY <3>1 DEF NewClaimsAreFresh, Working, ObserveSteps
    <2>3. CASE Applied(cur[w]) /\ \E status : GoAnnounce(w, status)
      <3> DEFINE c == [run |-> cur[w].run, revision |-> cur[w].revision + 1]
      <3>1. pc' = [pc EXCEPT ![w] = "announce"] /\ cur' = [cur EXCEPT ![w] = c]
        BY <2>3 DEF GoAnnounce, Goto
      <3>2. c.run = cur[w].run /\ c.revision > runs[c.run].revision
        BY <2>3, <1>0 DEF Applied
      <3> HIDE DEF c
      <3>3. \A v \in Workers : \A d \in Claims(v)' : d \in Claims(v) \/ (v = w /\ d = c)
        BY <3>1, <2>1, <1>0 DEF Claims, Working
      <3>4. c \notin held[w]
        <4>1. runs[c.run].revision \in Nat /\ c \in held[w] => c.revision \in Nat
          BY <3>2, <1>0 DEF Claim
        <4>. QED BY <4>1, <3>2, <1>0 DEF Claims
      <3>. QED BY <3>1, <3>2, <3>3, <3>4, <2>1, <1>0 DEF NewClaimsAreFresh
    <2>4. CASE Goto(w, "settle") /\ UNCHANGED cur
      BY <2>1, <2>4, <1>4
    <2>. QED BY <2>1, <2>2, <2>3, <2>4
  <1>. QED BY <1>1, <1>2, <1>3, <1>5, <1>6, <1>7 DEF Progress

\* Every step keeps claims apart.
LEMMA ClaimsStep == Typed /\ ClaimsNotShared /\ [Next]_vars => ClaimsNotShared'
  <1> SUFFICES ASSUME Typed, ClaimsNotShared, [Next]_vars PROVE ClaimsNotShared'
    OBVIOUS
  <1>1. CASE UNCHANGED vars \/ Environment \/ Advance
    <2>1. UNCHANGED <<pc, cur, held>>
      BY <1>1 DEF vars, Environment, Admit, Pause, Resume, Advance, local
    <2>. QED BY <2>1 DEF ClaimsNotShared, Claims, Working
  <1>2. ASSUME NEW w \in Workers, StartTick(w) \/ Progress(w) \/ Fault(w)
        PROVE  ClaimsNotShared'
    BY <1>2, ProgressFresh, FreshNotShared
  <1>. QED BY <1>1, <1>2 DEF Next

\* No two workers, and no two steps of one, ever hold the same claim.
LEMMA AlwaysNotShared == Spec => []ClaimsNotShared
  <1>1. Init => ClaimsNotShared
    BY DEF Init, ClaimsNotShared, Claims, Working, ObserveSteps
  <1>. QED BY <1>1, ClaimsStep, AlwaysTyped, PTL DEF Spec

-----------------------------------------------------------------------------
(* The assertion set on show.  A set is shown by the worker that then       *)
(* commits on it; whoever comes later holds an older claim, and an older    *)
(* revision is not shown.                                                   *)

ByEvidence == {"VERIFIED", "FAILED"}

\* Worker w puts its set for run r on show.
Shows(w, r) ==
  /\ pc[w] = "record" /\ r = cur[w].run /\ Shown(cur[w])
  /\ assertions'[r].revision = cur[w].revision /\ assertions'[r].verdict = found[w].status

\* Worker w decides run r on its evidence.
Decides(w, r) ==
  /\ pc[w] = "commit" /\ r = cur[w].run /\ Applied(cur[w])
  /\ runs'[r].status = found[w].status

OnlyShownBy(W) ==
  \A r \in Runs : assertions'[r] = assertions[r] \/ \E w \in W : Shows(w, r)

OnlyDecidedBy(W) ==
  \A r \in Runs : runs'[r].status \in ByEvidence =>
    runs'[r].status = runs[r].status \/ \E w \in W : Decides(w, r)

\* Two claims of two workers on one run are of different revisions.
LEMMA ClaimsDiffer ==
  ASSUME Typed, ClaimsNotShared, NEW v \in Workers, NEW w \in Workers, v # w,
         Working(v), Working(w), cur[v].run = cur[w].run
  PROVE  cur[v].revision # cur[w].revision
  <1>1. cur[v] \in Claims(v) /\ cur[w] \in Claims(w) /\ cur[v] \in Claim /\ cur[w] \in Claim
    BY DEF Claims, Typed, TypeOK, WorkersTyped
  <1>2. cur[v] # cur[w]
    BY <1>1 DEF ClaimsNotShared
  <1>. QED BY <1>1, <1>2 DEF Claim

\* A row its worker may still write at has not moved.
LEMMA AppliedBefore ==
  ASSUME Typed, Typed', RowsMove, NEW v \in Workers, Working(v), cur'[v] = cur[v],
         Applied(cur[v])'
  PROVE  runs'[cur[v].run] = runs[cur[v].run] /\ Applied(cur[v])
  <1>1. /\ cur[v].run \in Runs /\ cur[v].revision \in Nat
        /\ runs[cur[v].run].revision \in Nat /\ runs'[cur[v].run].revision \in Nat
    BY DEF Typed, TypeOK, DatabaseTyped, WorkersTyped, Claim, RunRow
  <1>2. cur[v].revision <= runs[cur[v].run].revision
    BY DEF Typed, ClaimsBehindRow, Claims
  <1>3. runs'[cur[v].run].revision = cur[v].revision
    BY DEF Applied
  <1>4. runs'[cur[v].run] = runs[cur[v].run]
    BY <1>1, <1>2, <1>3 DEF RowsMove
  <1>. QED BY <1>3, <1>4 DEF Applied

\* A worker that did not move still commits what it showed, and still comes
\* too late where it came too late.
LEMMA OthersKeepEvidence ==
  ASSUME Typed, Typed', ClaimsNotShared, EvidenceSafe, RowsMove, NEW v \in Workers,
         pc'[v] = pc[v], cur'[v] = cur[v], found'[v] = found[v],
         NEW W \in SUBSET (Workers \ {v}), OnlyShownBy(W), OnlyDecidedBy(W)
  PROVE  /\ pc'[v] = "commit" /\ Applied(cur[v])' =>
              /\ assertions'[cur'[v].run].revision = cur'[v].revision
              /\ assertions'[cur'[v].run].verdict = found'[v].status
         /\ pc'[v] \in {"gather", "record"} /\ runs'[cur'[v].run].status \in ByEvidence
              => ~Shown(cur[v])'
  <1>0. /\ \A u \in Workers : cur[u].run \in Runs /\ cur[u].revision \in Nat
        /\ \A r \in Runs : /\ runs[r].revision \in Nat /\ assertions[r].revision \in Nat
                           /\ assertions'[r].revision \in Nat
                           /\ assertions[r].revision <= runs[r].revision
        /\ \A u \in Workers : Working(u) => cur[u].revision <= runs[cur[u].run].revision
    BY DEF Typed, TypeOK, DatabaseTyped, WorkersTyped, Claim, RunRow, ClaimsBehindRow, Claims,
           EvidenceSafe, SetsBehindRow
  <1> DEFINE r == cur[v].run
  <1>1. ASSUME pc'[v] = "commit", Applied(cur[v])'
        PROVE  /\ assertions'[r].revision = cur[v].revision
               /\ assertions'[r].verdict = found[v].status
    <2>1. Working(v)
      BY <1>1 DEF Working, ObserveSteps
    <2>2. Applied(cur[v])
      BY <1>1, <2>1, AppliedBefore
    <2>3. assertions[r].revision = cur[v].revision /\ assertions[r].verdict = found[v].status
      BY <1>1, <2>2 DEF EvidenceSafe, CommitsWhatItShowed
    <2>4. ASSUME NEW w \in W, Shows(w, r) PROVE FALSE
      <3>1. cur[w].run = r /\ cur[w].revision >= assertions[r].revision /\ Working(w)
        BY <2>4 DEF Shows, Shown, Working, ObserveSteps
      <3>2. cur[w].revision <= runs[r].revision /\ runs[r].revision = cur[v].revision
        BY <3>1, <2>2, <1>0 DEF Applied
      <3>3. cur[w].revision = cur[v].revision
        BY <3>1, <3>2, <2>3, <1>0
      <3>. QED BY <3>1, <3>3, <2>1, ClaimsDiffer
    <2>5. assertions'[r] = assertions[r]
      BY <2>4, <1>0 DEF OnlyShownBy
    <2>. QED BY <2>3, <2>5
  <1>2. ASSUME pc'[v] \in {"gather", "record"}, runs'[r].status \in ByEvidence
        PROVE  ~(cur[v].revision >= assertions'[r].revision)
    <2>1. Working(v)
      BY <1>2 DEF Working, ObserveSteps
    <2>2. ~(cur[v].revision >= assertions[r].revision)
      <3>1. CASE runs'[r].status = runs[r].status
        BY <1>2, <3>1 DEF EvidenceSafe, LateSetsAreNotShown, Shown, ByEvidence
      <3>2. ASSUME NEW w \in W, Decides(w, r)
            PROVE  ~(cur[v].revision >= assertions[r].revision)
        <4>1. /\ cur[w].run = r /\ w \in Workers /\ Working(w) /\ runs[r].revision = cur[w].revision
              /\ assertions[r].revision = cur[w].revision
          BY <3>2 DEF Decides, Applied, EvidenceSafe, CommitsWhatItShowed, Working, ObserveSteps
        <4>2. cur[v].revision <= cur[w].revision /\ cur[v].revision # cur[w].revision
          BY <4>1, <2>1, <1>0, ClaimsDiffer
        <4>. QED BY <4>1, <4>2, <1>0
      <3>. QED BY <1>2, <3>1, <3>2, <1>0 DEF OnlyDecidedBy
    <2>3. assertions'[r].revision >= assertions[r].revision
      <3>1. ASSUME NEW w \in W, Shows(w, r)
            PROVE  assertions'[r].revision >= assertions[r].revision
        BY <3>1 DEF Shows, Shown
      <3>. QED BY <3>1, <1>0 DEF OnlyShownBy
    <2>. QED BY <2>2, <2>3, <1>0
  <1>. QED BY <1>1, <1>2 DEF Shown

\* The set shown stays the decider's, and behind its row.
LEMMA SetsStayTrue ==
  ASSUME Typed, Typed', EvidenceSafe, RowsMove,
         NEW W \in SUBSET Workers, OnlyShownBy(W), OnlyDecidedBy(W),
         \A w \in W : IF pc[w] = "record" THEN UNCHANGED runs ELSE UNCHANGED assertions
  PROVE  ShownAssertionsAreTheDeciders' /\ SetsBehindRow'
  <1>0. /\ \A u \in Workers : cur[u].run \in Runs /\ cur[u].revision \in Nat
        /\ \A r \in Runs : /\ runs[r].revision \in Nat /\ runs'[r].revision \in Nat
                           /\ assertions[r].revision \in Nat /\ assertions'[r].revision \in Nat
    BY DEF Typed, TypeOK, DatabaseTyped, WorkersTyped, Claim, RunRow
  <1>1. ASSUME NEW r \in Runs PROVE assertions'[r].revision <= runs'[r].revision
    <2>1. assertions[r].revision <= runs[r].revision /\ runs[r].revision <= runs'[r].revision
      BY <1>0 DEF EvidenceSafe, SetsBehindRow, RowsMove
    <2>2. ASSUME NEW w \in W, Shows(w, r)
          PROVE  assertions'[r].revision <= runs[r].revision
      <3>1. assertions'[r].revision = cur[w].revision /\ cur[w] \in Claims(w) /\ r = cur[w].run
        BY <2>2 DEF Shows, Claims, Working, ObserveSteps
      <3>. QED BY <3>1 DEF Typed, ClaimsBehindRow
    <2>. QED BY <2>1, <2>2, <1>0 DEF OnlyShownBy
  <1>2. ASSUME NEW r \in Runs, runs'[r].status \in ByEvidence
        PROVE  assertions'[r].verdict = runs'[r].status
    <2>1. CASE runs'[r].status = runs[r].status
      <3>1. ASSUME NEW w \in W, Shows(w, r) PROVE FALSE
        BY <1>2, <2>1, <3>1 DEF Shows, EvidenceSafe, LateSetsAreNotShown, ByEvidence
      <3>2. assertions'[r] = assertions[r]
        BY <3>1 DEF OnlyShownBy
      <3>. QED BY <1>2, <2>1, <3>2 DEF EvidenceSafe, ShownAssertionsAreTheDeciders, ByEvidence
    <2>2. ASSUME NEW w \in W, Decides(w, r) PROVE assertions'[r].verdict = runs'[r].status
      <3>1. UNCHANGED assertions
        BY <2>2 DEF Decides
      <3>. QED BY <2>2, <3>1 DEF Decides, EvidenceSafe, CommitsWhatItShowed
    <2>. QED BY <1>2, <2>1, <2>2 DEF OnlyDecidedBy
  <1>. QED BY <1>1, <1>2 DEF ShownAssertionsAreTheDeciders, SetsBehindRow, ByEvidence

\* Only a recorder changes the set on show, and it leaves the runs alone.
LEMMA StepShows ==
  ASSUME Typed, NEW w \in Workers, StartTick(w) \/ Progress(w) \/ Fault(w)
  PROVE  /\ OnlyShownBy({w})
         /\ pc[w] = "record" => UNCHANGED runs
         /\ pc[w] # "record" => UNCHANGED assertions
  <1>0. /\ assertions \in [Runs -> [revision: Nat, verdict: RunStatus]] /\ cur[w].run \in Runs
        /\ cur[w].revision \in Nat
    BY DEF Typed, TypeOK, DatabaseTyped, WorkersTyped, Claim
  <1>1. CASE RecordAssertions(w)
    <2>1. pc[w] = "record" /\ UNCHANGED runs
      BY <1>1 DEF RecordAssertions
    <2>2. CASE Shown(cur[w])
      <3>1. assertions' = [assertions EXCEPT ![cur[w].run] = [revision |-> cur[w].revision,
                                                              verdict  |-> found[w].status]]
        BY <1>1, <2>2 DEF RecordAssertions
      <3>. QED BY <3>1, <2>1, <2>2, <1>0 DEF OnlyShownBy, Shows
    <2>3. CASE ~Shown(cur[w])
      BY <1>1, <2>1, <2>3 DEF RecordAssertions, OnlyShownBy
    <2>. QED BY <2>2, <2>3
  <1>2. CASE ~RecordAssertions(w)
    <2>1. UNCHANGED assertions
      BY <1>2 DEF StartTick, Progress, Fault, TryClaim, ClaimsDone, BeginObserve, EndTick,
         RulesUnusable, Gather, GatherStarved, GatherUnconnected, Commit, Resolve, Announce,
         Close, Settle, NoPeriodToSettle, Throw, OutOfTime, Crash, db
    <2>2. pc[w] = "record" => UNCHANGED runs
      BY <1>2 DEF StartTick, Progress, Fault, TryClaim, ClaimsDone, BeginObserve, EndTick,
         RulesUnusable, Gather, GatherStarved, GatherUnconnected, Commit, Resolve, Announce,
         Close, Settle, NoPeriodToSettle, Throw, OutOfTime, Crash, db
    <2>. QED BY <2>1, <2>2 DEF OnlyShownBy
  <1>. QED BY <1>1, <1>2

\* A run becomes VERIFIED or FAILED at a commit, with the committer's finding.
LEMMA StepDecides ==
  ASSUME Typed, VerdictSafe, NEW w \in Workers, StartTick(w) \/ Progress(w) \/ Fault(w)
  PROVE  OnlyDecidedBy({w})
  <1>1. CASE Commit(w)
    <2>1. ApplyOutcome(cur[w], found[w].status, found[w].next, found[w].count,
                       IF found[w].status \in TERMINAL THEN tick[w].now ELSE NoTime)
      BY <1>1 DEF Commit
    <2>2. /\ \A r \in Runs : ~(r = cur[w].run /\ Applied(cur[w])) => runs'[r] = runs[r]
          /\ Applied(cur[w]) => runs'[cur[w].run].status = found[w].status
      BY <2>1, ApplyOutcomeRows
    <2>. QED BY <1>1, <2>2 DEF OnlyDecidedBy, Decides, Commit
  <1>2. CASE Resolve(w)
    <2>1. ApplyOutcome(cur[w], "UNVERIFIED", tick[w].now + FinaliseDelay, found[w].count,
                       tick[w].now)
      BY <1>2 DEF Resolve
    <2>2. /\ \A r \in Runs : ~(r = cur[w].run /\ Applied(cur[w])) => runs'[r] = runs[r]
          /\ Applied(cur[w]) => runs'[cur[w].run].status = "UNVERIFIED"
      BY <2>1, ApplyOutcomeRows
    <2>. QED BY <2>2 DEF OnlyDecidedBy, ByEvidence
  <1>3. CASE Close(w)
    <2>1. ApplyOutcome(cur[w], found[w].status, NoTime, found[w].count, tick[w].now)
      BY <1>3 DEF Close
    <2>2. /\ \A r \in Runs : ~(r = cur[w].run /\ Applied(cur[w])) => runs'[r] = runs[r]
          /\ Applied(cur[w]) => runs'[cur[w].run].status = found[w].status
      BY <2>1, ApplyOutcomeRows
    <2>3. runs[cur[w].run].status = found[w].status
      BY <1>3 DEF Close, VerdictSafe, TellsTheTruth
    <2>. QED BY <2>2, <2>3 DEF OnlyDecidedBy
  <1>4. ASSUME NEW c \in batch[w], TryClaim(w, c) PROVE OnlyDecidedBy({w})
    BY <1>4, ClaimRows DEF OnlyDecidedBy
  <1>5. CASE UNCHANGED runs
    BY <1>5 DEF OnlyDecidedBy
  <1>6. \/ Commit(w) \/ Resolve(w) \/ Close(w) \/ (\E c \in batch[w] : TryClaim(w, c))
        \/ UNCHANGED runs
    BY DEF StartTick, Progress, Fault, ClaimsDone, BeginObserve, EndTick,
       RulesUnusable, Gather, GatherStarved, GatherUnconnected, RecordAssertions, Announce,
       Settle, NoPeriodToSettle, Throw, OutOfTime, Crash, db
  <1>. QED BY <1>1, <1>2, <1>3, <1>4, <1>5, <1>6

\* Where a worker about to show or to commit comes from.
LEMMA StepArrives ==
  ASSUME Typed, NEW w \in Workers, StartTick(w) \/ Progress(w) \/ Fault(w)
  PROVE  /\ pc'[w] = "commit" => RecordAssertions(w)
         /\ pc'[w] \in {"gather", "record"} =>
              /\ UNCHANGED <<runs, assertions>>
              /\ \/ pc[w] = "gather" /\ cur'[w] = cur[w]
                 \/ runs[cur'[w].run].status \notin TERMINAL
  <1>0. pc \in [Workers -> PC] /\ cur \in [Workers -> Claim]
    BY DEF Typed, TypeOK, WorkersTyped
  <1>1. CASE RecordAssertions(w)
    <2>1. pc'[w] = "commit"
      BY <1>0, <1>1 DEF RecordAssertions, Goto
    <2>. QED BY <1>1, <2>1
  <1>2. ASSUME NEW c \in held[w], BeginObserve(w, c)
        PROVE  /\ pc'[w] \in {"gather", "announce"} /\ UNCHANGED <<runs, assertions>>
               /\ pc'[w] = "gather" => runs[cur'[w].run].status \notin TERMINAL
    BY <1>0, <1>2 DEF BeginObserve, FirstStep, Goto, db
  <1>3. ASSUME (\E obs \in Observations : Gather(w, obs))
               \/ GatherStarved(w) \/ GatherUnconnected(w)
        PROVE  /\ pc'[w] \in {"record", "resolve"} /\ UNCHANGED <<runs, assertions>>
               /\ pc[w] = "gather" /\ cur'[w] = cur[w]
    <2>1. PICK obs : /\ pc[w] = "gather" /\ JudgeGathered(w, obs)
                     /\ UNCHANGED <<runs, assertions, cur>>
      BY <1>3 DEF Gather, GatherStarved, GatherUnconnected, db
    <2>2. PICK step \in {"record", "resolve"} : Goto(w, step)
      BY <2>1, JudgedTyped
    <2>. QED BY <2>1, <2>2, <1>0 DEF Goto
  <1>4. ASSUME NEW c \in batch[w], TryClaim(w, c) PROVE pc'[w] = "claim"
    BY <1>4 DEF TryClaim
  <1>5. ASSUME \/ StartTick(w) \/ ClaimsDone(w) \/ EndTick(w) \/ RulesUnusable(w) \/ Commit(w)
               \/ Resolve(w) \/ Announce(w) \/ Close(w) \/ Settle(w) \/ NoPeriodToSettle(w)
               \/ Fault(w)
        PROVE  pc'[w] \notin {"gather", "record", "commit"}
    BY <1>0, <1>5 DEF StartTick, ClaimsDone, EndTick, RulesUnusable, Commit, Resolve, Announce,
       Close, Settle, NoPeriodToSettle, Fault, Throw, OutOfTime, Crash, Gone, NextRun,
       GoAnnounce, Goto
  <1>. QED BY <1>1, <1>2, <1>3, <1>4, <1>5 DEF Progress

\* Every step of an invocation keeps the evidence.
LEMMA ProgressEvidence ==
  ASSUME Typed, Typed', VerdictSafe, ClaimsNotShared, EvidenceSafe, RowsMove,
         NEW w \in Workers, StartTick(w) \/ Progress(w) \/ Fault(w)
  PROVE  EvidenceSafe'
  <1>1. /\ OnlyShownBy({w}) /\ OnlyDecidedBy({w})
        /\ IF pc[w] = "record" THEN UNCHANGED runs ELSE UNCHANGED assertions
    BY StepShows, StepDecides
  <1>2. ShownAssertionsAreTheDeciders' /\ SetsBehindRow'
    BY <1>1, SetsStayTrue
  <1>3. CommitsWhatItShowed'
    <2> SUFFICES ASSUME NEW v \in Workers, pc'[v] = "commit", Applied(cur[v])'
                 PROVE  /\ assertions'[cur'[v].run].revision = cur'[v].revision
                        /\ assertions'[cur'[v].run].verdict = found'[v].status
      BY DEF CommitsWhatItShowed
    <2>1. CASE v = w
      <3>1. RecordAssertions(w)
        BY <2>1, StepArrives
      <3>2. UNCHANGED <<runs, cur, found>> /\ pc[w] = "record"
        BY <3>1 DEF RecordAssertions
      <3>3. /\ cur[w].run \in Runs /\ runs[cur[w].run].revision = cur[w].revision
            /\ assertions[cur[w].run].revision <= runs[cur[w].run].revision
            /\ assertions \in [Runs -> [revision: Nat, verdict: RunStatus]]
            /\ cur[w].revision \in Nat
        BY <2>1, <3>2 DEF Applied, EvidenceSafe, SetsBehindRow, Typed, TypeOK, DatabaseTyped,
                          WorkersTyped, Claim
      <3>4. Shown(cur[w])
        BY <3>3 DEF Shown
      <3>5. assertions' = [assertions EXCEPT ![cur[w].run] = [revision |-> cur[w].revision,
                                                              verdict  |-> found[w].status]]
        BY <3>1, <3>4 DEF RecordAssertions
      <3>. QED BY <2>1, <3>2, <3>3, <3>5
    <2>2. CASE v # w
      <3>1. pc'[v] = pc[v] /\ cur'[v] = cur[v] /\ found'[v] = found[v]
        BY <2>2, OthersUntouched
      <3>2. {w} \in SUBSET (Workers \ {v})
        BY <2>2
      <3>. QED BY <3>1, <3>2, <1>1, OthersKeepEvidence
    <2>. QED BY <2>1, <2>2
  <1>4. LateSetsAreNotShown'
    <2> SUFFICES ASSUME NEW v \in Workers, pc'[v] \in {"gather", "record"},
                        runs'[cur'[v].run].status \in ByEvidence
                 PROVE  ~Shown(cur[v])'
      BY DEF LateSetsAreNotShown, ByEvidence
    <2>1. CASE v = w
      <3>1. /\ UNCHANGED <<runs, assertions>>
            /\ \/ pc[w] = "gather" /\ cur'[w] = cur[w]
               \/ runs[cur'[w].run].status \notin TERMINAL
        BY <2>1, StepArrives
      <3>2. runs'[cur'[w].run].status \in ByEvidence /\ pc'[w] \in {"gather", "record"}
        BY <2>1
      <3>3. runs[cur'[w].run].status \in TERMINAL
        BY <3>1, <3>2 DEF TERMINAL, RunStatus, ByEvidence
      <3>5. pc[w] = "gather" /\ cur'[w] = cur[w]
        BY <3>1, <3>3
      <3>6. runs[cur[w].run].status \in ByEvidence
        BY <3>1, <3>2, <3>5
      <3>4. ~Shown(cur[w])
        BY <3>5, <3>6 DEF EvidenceSafe, LateSetsAreNotShown, ByEvidence
      <3>. QED BY <2>1, <3>1, <3>4, <3>5 DEF Shown
    <2>2. CASE v # w
      <3>1. pc'[v] = pc[v] /\ cur'[v] = cur[v] /\ found'[v] = found[v]
        BY <2>2, OthersUntouched
      <3>2. {w} \in SUBSET (Workers \ {v})
        BY <2>2
      <3>. QED BY <3>1, <3>2, <1>1, OthersKeepEvidence
    <2>. QED BY <2>1, <2>2
  <1>. QED BY <1>2, <1>3, <1>4 DEF EvidenceSafe

\* Every step keeps the evidence.
LEMMA EvidenceStep ==
  Typed /\ Typed' /\ VerdictSafe /\ ClaimsNotShared /\ EvidenceSafe /\ [Next]_vars
    => EvidenceSafe'
  <1> SUFFICES ASSUME Typed, Typed', VerdictSafe, ClaimsNotShared, EvidenceSafe, [Next]_vars
               PROVE  EvidenceSafe'
    OBVIOUS
  <1>0. RowsMove
    BY VerdictStep
  <1>1. CASE UNCHANGED vars \/ Environment \/ Advance
    <2>1. UNCHANGED <<pc, cur, found, assertions>>
      BY <1>1 DEF vars, Environment, Admit, Pause, Resume, Advance, local, db
    <2>2. OnlyShownBy({})
      BY <2>1 DEF OnlyShownBy
    <2>3. OnlyDecidedBy({})
      <3>1. ASSUME NEW r \in Runs, Admit(r) PROVE OnlyDecidedBy({})
        BY <3>1 DEF Admit, OnlyDecidedBy, ByEvidence, Typed, TypeOK, DatabaseTyped
      <3>2. ASSUME UNCHANGED runs PROVE OnlyDecidedBy({})
        BY <3>2 DEF OnlyDecidedBy
      <3>. QED BY <1>1, <3>1, <3>2 DEF vars, Environment, Pause, Resume, Advance, db
    <2>4. ShownAssertionsAreTheDeciders' /\ SetsBehindRow'
      BY <1>0, <2>2, <2>3, SetsStayTrue
    <2>5. ASSUME NEW v \in Workers
          PROVE  /\ pc'[v] = "commit" /\ Applied(cur[v])' =>
                      /\ assertions'[cur'[v].run].revision = cur'[v].revision
                      /\ assertions'[cur'[v].run].verdict = found'[v].status
                 /\ pc'[v] \in {"gather", "record"} /\ runs'[cur'[v].run].status \in ByEvidence
                      => ~Shown(cur[v])'
      <3>1. {} \in SUBSET (Workers \ {v})
        OBVIOUS
      <3>2. pc'[v] = pc[v] /\ cur'[v] = cur[v] /\ found'[v] = found[v]
        BY <2>1
      <3>. QED BY <1>0, <2>2, <2>3, <3>1, <3>2, OthersKeepEvidence
    <2>6. CommitsWhatItShowed' /\ LateSetsAreNotShown'
      BY <2>5 DEF CommitsWhatItShowed, LateSetsAreNotShown, ByEvidence
    <2>. QED BY <2>4, <2>6 DEF EvidenceSafe
  <1>2. ASSUME NEW w \in Workers, StartTick(w) \/ Progress(w) \/ Fault(w) PROVE EvidenceSafe'
    BY <1>0, <1>2, ProgressEvidence
  <1>. QED BY <1>1, <1>2 DEF Next

\* No set is shown before the first admission.
LEMMA InitEvidence == Init => EvidenceSafe
  BY DEF Init, ABSENT, EvidenceSafe, ShownAssertionsAreTheDeciders, SetsBehindRow,
         CommitsWhatItShowed, LateSetsAreNotShown

\* The evidence is safe in every reachable state.
LEMMA AlwaysEvidenceSafe == Spec => []EvidenceSafe
  BY InitEvidence, EvidenceStep, AlwaysTyped, AlwaysVerdictSafe, AlwaysNotShared, PTL DEF Spec

\* The assertion set shown for a run decided VERIFIED or FAILED is the one
\* that decision was taken from, however many workers raced to it.
THEOREM ShownSetsDecided == Spec => []ShownAssertionsAreTheDeciders
  <1>1. EvidenceSafe => ShownAssertionsAreTheDeciders
    BY DEF EvidenceSafe
  <1>. QED BY <1>1, AlwaysEvidenceSafe, PTL

-----------------------------------------------------------------------------
(* The observation budget.  A worker counts its own look on top of the row *)
(* it read; the commit is only applied to that same row.                   *)

\* An observation that leaves a run open leaves it an observation.
LEMMA PendingHasBudget ==
  ASSUME NEW obs, NEW count \in Nat \ {0}, NEW deadline \in Int, NEW t \in Nat,
         Judge(obs, count, deadline, t).status = "PENDING"
  PROVE  count < MaxObservations
  <1> DEFINE plan == PlanNextObservation(count, deadline, t, obs.gaps)
             access == HasWorkingEvidenceAccess(obs.gaps)
             left == ObservationsRemaining(count, plan)
  <1>1. DecideRunStatus(obs.results, deadline, t, access, left) = "PENDING"
    BY DEF Judge
  <1>2. left > 0
    BY <1>1, PendingMeansMore
  <1>3. plan # NoTime
    BY <1>2 DEF ObservationsRemaining
  <1>. QED BY <1>3, DecisionAssumption DEF PlanNextObservation

\* What judging an observation counts.
LEMMA JudgedCount ==
  ASSUME Typed, NEW w \in Workers, pc[w] = "gather", NEW obs, JudgeGathered(w, obs)
  PROVE  /\ pc'[w] \in {"record", "resolve"}
         /\ pc'[w] = "resolve" => found' = found
         /\ pc'[w] = "record" =>
              /\ found'[w].count = found[w].count + 1
              /\ found'[w].status = "PENDING" => found'[w].count < MaxObservations
  <1> DEFINE deadline == runs[cur[w].run].deadline
             count == found[w].count + 1
             t == tick[w].now
             v == Judge(obs, count, deadline, t)
             new == [status |-> v.status, count |-> count, next |-> NextCheck(v, t)]
  <1>0. /\ cur[w].run \in Runs /\ found[w] \in Finding /\ t \in Nat
        /\ found \in [Workers -> Finding] /\ pc \in [Workers -> PC]
        /\ runs[cur[w].run] \in RunRow
    BY DEF Typed, TypeOK, DatabaseTyped, WorkersTyped, Claim
  <1>1. count \in Nat \ {0} /\ deadline \in Int
    BY <1>0 DEF Finding, RunRow, NoTime
  <1>2. v.status = "PENDING" => count < MaxObservations
    BY <1>0, <1>1, PendingHasBudget
  <1>3. IF Judgeable(obs.results)
        THEN Goto(w, "record") /\ found' = [found EXCEPT ![w] = new]
        ELSE Goto(w, "resolve") /\ UNCHANGED found
    BY DEF JudgeGathered
  <1>4. new.status = v.status /\ new.count = count
    OBVIOUS
  <1> HIDE DEF v, new
  <1>5. CASE Judgeable(obs.results)
    <2>1. found'[w] = new /\ pc'[w] = "record"
      BY <1>3, <1>5, <1>0 DEF Goto
    <2>. QED BY <2>1, <1>2, <1>4
  <1>6. CASE ~Judgeable(obs.results)
    BY <1>3, <1>6, <1>0 DEF Goto
  <1>. QED BY <1>5, <1>6

\* What the outcome compare-and-set does to a row's count.
LEMMA ApplyOutcomeCount ==
  ASSUME Typed, NEW w \in Workers, NEW status, NEW next, NEW number, NEW completed,
         ApplyOutcome(cur[w], status, next, number, completed), Applied(cur[w])
  PROVE  runs'[cur[w].run].count = number
  <1>0. /\ runs \in [Runs -> RunRow] /\ cur[w].run \in Runs /\ cur[w].revision \in Nat
    BY DEF Typed, TypeOK, DatabaseTyped, WorkersTyped, Claim
  <1>. QED BY <1>0 DEF ApplyOutcome

\* Worker w commits what it counted for run r.
Counts(w, r) ==
  /\ pc[w] = "commit" /\ r = cur[w].run /\ Applied(cur[w])
  /\ runs'[r].count = found[w].count /\ runs'[r].status = found[w].status

CountKept(r) ==
  /\ runs'[r].count = runs[r].count
  /\ runs'[r].status = "PENDING" => runs[r].status = "PENDING" \/ runs[r].count = 0

\* A count moves only at a commit, and no other write reopens a run.
CountsMove == \A r \in Runs : CountKept(r) \/ \E w \in Workers : Counts(w, r)

\* Which counts a step of an invocation moves.
LEMMA StepCounts ==
  ASSUME Typed, VerdictSafe, BudgetSafe, NEW w \in Workers,
         StartTick(w) \/ Progress(w) \/ Fault(w)
  PROVE  CountsMove
  <1>1. CASE Commit(w)
    <2>1. ApplyOutcome(cur[w], found[w].status, found[w].next, found[w].count,
                       IF found[w].status \in TERMINAL THEN tick[w].now ELSE NoTime)
      BY <1>1 DEF Commit
    <2>2. /\ \A r \in Runs : ~(r = cur[w].run /\ Applied(cur[w])) => runs'[r] = runs[r]
          /\ Applied(cur[w]) => /\ runs'[cur[w].run].status = found[w].status
                                /\ runs'[cur[w].run].count = found[w].count
      BY <2>1, ApplyOutcomeRows, ApplyOutcomeCount
    <2>3. pc[w] = "commit"
      BY <1>1 DEF Commit
    <2>4. Applied(cur[w]) => Counts(w, cur[w].run)
      BY <2>2, <2>3 DEF Counts
    <2>5. \A r \in Runs : runs'[r] = runs[r] => CountKept(r)
      BY DEF CountKept
    <2>. QED BY <2>2, <2>4, <2>5 DEF CountsMove
  <1>2. CASE Resolve(w)
    <2>1. ApplyOutcome(cur[w], "UNVERIFIED", tick[w].now + FinaliseDelay, found[w].count,
                       tick[w].now)
      BY <1>2 DEF Resolve
    <2>2. /\ \A r \in Runs : ~(r = cur[w].run /\ Applied(cur[w])) => runs'[r] = runs[r]
          /\ Applied(cur[w]) => /\ runs'[cur[w].run].status = "UNVERIFIED"
                                /\ runs'[cur[w].run].count = found[w].count
      BY <2>1, ApplyOutcomeRows, ApplyOutcomeCount
    <2>3. Applied(cur[w]) => found[w].count = runs[cur[w].run].count
      BY <1>2 DEF Resolve, BudgetSafe, CarriesTheCount
    <2>4. Applied(cur[w]) => CountKept(cur[w].run)
      BY <2>2, <2>3 DEF CountKept
    <2>5. \A r \in Runs : runs'[r] = runs[r] => CountKept(r)
      BY DEF CountKept
    <2>. QED BY <2>2, <2>4, <2>5 DEF CountsMove
  <1>3. CASE Close(w)
    <2>1. ApplyOutcome(cur[w], found[w].status, NoTime, found[w].count, tick[w].now)
      BY <1>3 DEF Close
    <2>2. /\ \A r \in Runs : ~(r = cur[w].run /\ Applied(cur[w])) => runs'[r] = runs[r]
          /\ Applied(cur[w]) => /\ runs'[cur[w].run].status = found[w].status
                                /\ runs'[cur[w].run].count = found[w].count
      BY <2>1, ApplyOutcomeRows, ApplyOutcomeCount
    <2>3. Applied(cur[w]) => found[w].count = runs[cur[w].run].count
      BY <1>3 DEF Close, BudgetSafe, CarriesTheCount
    <2>4. found[w].status # "PENDING"
      BY <1>3 DEF Close, VerdictSafe, TellsTheTruth, TERMINAL
    <2>5. Applied(cur[w]) => CountKept(cur[w].run)
      BY <2>2, <2>3, <2>4 DEF CountKept
    <2>6. \A r \in Runs : runs'[r] = runs[r] => CountKept(r)
      BY DEF CountKept
    <2>. QED BY <2>2, <2>5, <2>6 DEF CountsMove
  <1>4. ASSUME NEW c \in batch[w], TryClaim(w, c) PROVE CountsMove
    BY <1>4, ClaimRows DEF CountsMove, CountKept
  <1>5. CASE UNCHANGED runs
    BY <1>5 DEF CountsMove, CountKept
  <1>6. \/ Commit(w) \/ Resolve(w) \/ Close(w) \/ (\E c \in batch[w] : TryClaim(w, c))
        \/ UNCHANGED runs
    BY DEF StartTick, Progress, Fault, ClaimsDone, BeginObserve, EndTick,
       RulesUnusable, Gather, GatherStarved, GatherUnconnected, RecordAssertions, Announce,
       Settle, NoPeriodToSettle, Throw, OutOfTime, Crash, db
  <1>. QED BY <1>1, <1>2, <1>3, <1>4, <1>5, <1>6

\* Counts that move that way only grow, inside the budget.
LEMMA CountsGrow ==
  ASSUME Typed, Typed', VerdictSafe, BudgetSafe, CountsMove
  PROVE  /\ BudgetLeft'
         /\ \A r \in Runs : runs'[r].count >= runs[r].count
  <1>0. \A r \in Runs : runs[r].count \in Nat /\ runs'[r].count \in Nat
    BY DEF Typed, TypeOK, DatabaseTyped, RunRow
  <1> SUFFICES ASSUME NEW r \in Runs
               PROVE  /\ runs'[r].count <= MaxObservations
                      /\ runs'[r].status = "PENDING" => runs'[r].count < MaxObservations
                      /\ runs'[r].count >= runs[r].count
    BY DEF BudgetLeft
  <1>1. /\ runs[r].count <= MaxObservations
        /\ runs[r].status = "PENDING" => runs[r].count < MaxObservations
    BY DEF BudgetSafe, BudgetLeft
  <1>2. MaxObservations \in Nat \ {0}
    BY DecisionAssumption
  <1>3. ASSUME NEW w \in Workers, Counts(w, r)
        PROVE  /\ runs'[r].count <= MaxObservations
               /\ runs'[r].status = "PENDING" => runs'[r].count < MaxObservations
               /\ runs'[r].count >= runs[r].count
    <2>1. runs[r].status = "PENDING"
      BY <1>3 DEF Counts, VerdictSafe, JudgesOpen
    <2>2. /\ found[w].count = runs[r].count + 1
          /\ found[w].status = "PENDING" => found[w].count < MaxObservations
      BY <1>3 DEF Counts, BudgetSafe, CarriesTheCount
    <2>. QED BY <1>0, <1>1, <1>2, <1>3, <2>1, <2>2 DEF Counts
  <1>. QED BY <1>0, <1>1, <1>2, <1>3 DEF CountsMove, CountKept

\* A worker that did not move still carries the count of its row.
LEMMA OthersCarryTheCount ==
  ASSUME Typed, Typed', RowsMove, NEW v \in Workers, CarriesTheCount(v),
         pc'[v] = pc[v], cur'[v] = cur[v], found'[v] = found[v]
  PROVE  CarriesTheCount(v)'
  <1>1. pc[v] \in {"gather", "resolve", "announce", "close", "record", "commit"} => Working(v)
    BY DEF Working, ObserveSteps
  <1>2. Working(v) /\ Applied(cur[v])' => Applied(cur[v]) /\ runs'[cur[v].run] = runs[cur[v].run]
    BY AppliedBefore
  <1>. QED BY <1>1, <1>2 DEF CarriesTheCount

\* And the worker that moves carries it to its next step.
LEMMA MoverCarriesTheCount ==
  ASSUME Typed, Typed', BudgetSafe, NEW w \in Workers, StartTick(w) \/ Progress(w) \/ Fault(w)
  PROVE  CarriesTheCount(w)'
  <1>0. /\ pc \in [Workers -> PC] /\ cur \in [Workers -> Claim]
        /\ found \in [Workers -> Finding] /\ CarriesTheCount(w)
        /\ cur[w].run \in Runs /\ cur[w].revision \in Nat
    BY DEF Typed, TypeOK, WorkersTyped, BudgetSafe, Claim
  <1>1. ASSUME pc'[w] \in {"idle", "claim", "between", "settle"} PROVE CarriesTheCount(w)'
    BY <1>1 DEF CarriesTheCount
  <1>2. ASSUME \/ StartTick(w) \/ ClaimsDone(w) \/ EndTick(w) \/ Settle(w)
               \/ NoPeriodToSettle(w) \/ Fault(w) \/ Close(w)
               \/ \E c \in batch[w] : TryClaim(w, c)
        PROVE  CarriesTheCount(w)'
    <2>1. pc'[w] \in {"idle", "claim", "between", "settle"}
      BY <1>0, <1>2 DEF StartTick, ClaimsDone, EndTick, Settle, NoPeriodToSettle, Fault, Throw,
         OutOfTime, Crash, Close, TryClaim, Gone, NextRun, Goto
    <2>. QED BY <2>1, <1>1
  <1>3. ASSUME NEW c \in held[w], BeginObserve(w, c) PROVE CarriesTheCount(w)'
    <2>1. /\ pc'[w] \in {"gather", "announce"} /\ cur'[w] = c /\ UNCHANGED runs
          /\ found'[w].count = runs[c.run].count
      BY <1>0, <1>3 DEF BeginObserve, FirstStep, Goto, db
    <2>. QED BY <2>1 DEF CarriesTheCount
  <1>4. ASSUME RulesUnusable(w) \/ RecordAssertions(w) \/ Announce(w) PROVE CarriesTheCount(w)'
    <2>1. /\ UNCHANGED <<runs, cur, found>>
          /\ \/ pc[w] = "gather" /\ pc'[w] = "resolve"
             \/ pc[w] = "record" /\ pc'[w] = "commit"
             \/ pc[w] = "announce" /\ pc'[w] = "close"
      BY <1>0, <1>4 DEF RulesUnusable, RecordAssertions, Announce, Goto, db
    <2>. QED BY <2>1, <1>0 DEF CarriesTheCount, Applied
  <1>5. ASSUME (\E obs \in Observations : Gather(w, obs))
               \/ GatherStarved(w) \/ GatherUnconnected(w)
        PROVE  CarriesTheCount(w)'
    <2>1. PICK obs : pc[w] = "gather" /\ JudgeGathered(w, obs) /\ UNCHANGED <<runs, cur>>
      BY <1>5 DEF Gather, GatherStarved, GatherUnconnected, db
    <2>2. /\ pc'[w] \in {"record", "resolve"} /\ (pc'[w] = "resolve" => found' = found)
          /\ pc'[w] = "record" =>
              /\ found'[w].count = found[w].count + 1
              /\ found'[w].status = "PENDING" => found'[w].count < MaxObservations
      BY <2>1, JudgedCount
    <2>3. Applied(cur[w]) => found[w].count = runs[cur[w].run].count
      BY <2>1, <1>0 DEF CarriesTheCount
    <2>. QED BY <2>1, <2>2, <2>3 DEF CarriesTheCount, Applied
  <1>6. ASSUME Commit(w) \/ Resolve(w) PROVE CarriesTheCount(w)'
    <2>1. PICK status, next, completed :
            /\ ApplyOutcome(cur[w], status, next, found[w].count, completed)
            /\ NextRun(w) \/ (Applied(cur[w]) /\ GoAnnounce(w, status))
      BY <1>6 DEF Commit, Resolve
    <2>2. CASE NextRun(w)
      BY <2>2, <1>0, <1>1 DEF NextRun, Goto
    <2>3. CASE Applied(cur[w]) /\ GoAnnounce(w, status)
      <3>1. runs'[cur[w].run].count = found[w].count
        BY <2>1, <2>3, ApplyOutcomeCount
      <3>2. pc'[w] = "announce" /\ cur'[w].run = cur[w].run /\ found'[w].count = found[w].count
        BY <2>3, <1>0 DEF GoAnnounce, Goto
      <3>. QED BY <3>1, <3>2 DEF CarriesTheCount
    <2>. QED BY <2>1, <2>2, <2>3
  <1>. QED BY <1>2, <1>3, <1>4, <1>5, <1>6 DEF Progress

\* Every step keeps the budget, and takes no observation back.
LEMMA BudgetStep ==
  Typed /\ Typed' /\ VerdictSafe /\ BudgetSafe /\ [Next]_vars
    => BudgetSafe' /\ \A r \in Runs : runs'[r].count >= runs[r].count
  <1> SUFFICES ASSUME Typed, Typed', VerdictSafe, BudgetSafe, [Next]_vars
               PROVE  BudgetSafe' /\ \A r \in Runs : runs'[r].count >= runs[r].count
    OBVIOUS
  <1>0. RowsMove
    BY VerdictStep
  <1>1. CASE UNCHANGED vars \/ Environment \/ Advance
    <2>1. UNCHANGED <<pc, cur, found>>
      BY <1>1 DEF vars, Environment, Admit, Pause, Resume, Advance, local
    <2>2. CountsMove
      <3>1. ASSUME NEW r \in Runs, Admit(r) PROVE CountsMove
        BY <3>1 DEF Admit, ABSENT, CountsMove, CountKept, Typed, TypeOK, DatabaseTyped
      <3>2. ASSUME UNCHANGED runs PROVE CountsMove
        BY <3>2 DEF CountsMove, CountKept
      <3>. QED BY <1>1, <3>1, <3>2 DEF vars, Environment, Pause, Resume, Advance, db
    <2>3. \A v \in Workers : CarriesTheCount(v)'
      BY <1>0, <2>1, OthersCarryTheCount DEF BudgetSafe
    <2>. QED BY <2>2, <2>3, CountsGrow DEF BudgetSafe
  <1>2. ASSUME NEW w \in Workers, StartTick(w) \/ Progress(w) \/ Fault(w)
        PROVE  BudgetSafe' /\ \A r \in Runs : runs'[r].count >= runs[r].count
    <2>1. CountsMove
      BY <1>2, StepCounts
    <2>2. CarriesTheCount(w)'
      BY <1>2, MoverCarriesTheCount
    <2>3. ASSUME NEW v \in Workers, v # w PROVE CarriesTheCount(v)'
      BY <1>0, <1>2, <2>3, OthersUntouched, OthersCarryTheCount DEF BudgetSafe
    <2>. QED BY <2>1, <2>2, <2>3, CountsGrow DEF BudgetSafe
  <1>. QED BY <1>1, <1>2 DEF Next

\* The budget is kept in every reachable state.
LEMMA AlwaysBudgetSafe == Spec => []BudgetSafe
  <1>1. Init => BudgetSafe
    BY DecisionAssumption DEF Init, ABSENT, BudgetSafe, BudgetLeft, CarriesTheCount
  <1>. QED BY <1>1, BudgetStep, AlwaysTyped, AlwaysVerdictSafe, PTL DEF Spec

\* No run is ever looked at more often than its budget, and no stale count
\* overwrites a newer one.
THEOREM BudgetIsKept == Spec => ObservationBudget
  <1>1. Typed /\ Typed' /\ VerdictSafe /\ BudgetSafe /\ [Next]_vars
          => [\A r \in Runs : runs'[r].count >= runs[r].count
                              /\ runs'[r].count <= MaxObservations]_vars
    BY BudgetStep DEF BudgetSafe, BudgetLeft
  <1>. QED BY <1>1, AlwaysTyped, AlwaysVerdictSafe, AlwaysBudgetSafe, PTL
       DEF Spec, ObservationBudget

-----------------------------------------------------------------------------
\* The inductive invariant, for every instance.
THEOREM InductiveInvariant == Spec => []IInv
  <1>1. Typed /\ VerdictSafe /\ ScheduleSafe /\ SettlementSafe /\ ClaimsNotShared
          /\ EvidenceSafe /\ BudgetSafe => IInv
    BY DEF IInv
  <1>. QED BY <1>1, AlwaysTyped, AlwaysVerdictSafe, AlwaysScheduleSafe, AlwaysSettlementSafe,
              AlwaysNotShared, AlwaysEvidenceSafe, AlwaysBudgetSafe, PTL
=============================================================================
