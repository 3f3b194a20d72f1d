----------------------- MODULE RunSchedulerRefinement -----------------------
(***************************************************************************)
(* RunScheduler implements RunVerdict: every step of a tick, of a crash or *)
(* of the environment opens, decides, announces or closes one run, as the  *)
(* promise allows, or changes nothing the promise speaks of.               *)
(***************************************************************************)
EXTENDS RunSchedulerProofs

Verdicts == [r \in Runs |-> runs[r].status]
Told     == {<<row.run, row.status>> : row \in {o \in outbox : o.event = "run.decided"}}
AtRest   == {r \in Admitted : runs[r].next = NoTime}

\* Nothing the promise speaks of changes.
LEMMA Stutter ==
  ASSUME Typed, Typed', UNCHANGED outbox,
         \A r \in Runs : /\ runs'[r].status = runs[r].status
                         /\ runs'[r].next = NoTime <=> runs[r].next = NoTime
  PROVE  UNCHANGED <<Verdicts, Told, AtRest>>
  BY DEF Verdicts, Told, AtRest, Admitted

\* The same for the steps that leave both tables alone.
LEMMA SameTables ==
  ASSUME Typed, Typed', UNCHANGED <<runs, outbox>>
  PROVE  UNCHANGED <<Verdicts, Told, AtRest>>
  BY DEF Verdicts, Told, AtRest, Admitted

\* A run.decided row is an announcement.
LEMMA ToldIs ==
  ASSUME NEW r, NEW status
  PROVE  Decided(r, status) \in outbox => <<r, status>> \in Told
  BY DEF Told, Decided

\* Admission opens a run.
LEMMA AdmitOpens ==
  ASSUME Typed, Typed', NEW r \in Runs, Admit(r)
  PROVE  /\ Verdicts[r] = "ABSENT"
         /\ Verdicts' = [Verdicts EXCEPT ![r] = "PENDING"]
         /\ UNCHANGED <<Told, AtRest>>
  <1>0. runs \in [Runs -> RunRow] /\ now \in Nat
    BY DEF Typed, TypeOK, DatabaseTyped, CountersTyped
  <1>1. /\ \A q \in Runs : q # r => runs'[q] = runs[q]
        /\ runs[r].status = "ABSENT"
        /\ runs'[r].status = "PENDING" /\ runs'[r].next = now
    BY <1>0 DEF Admit, ABSENT
  <1>2. now # NoTime
    BY <1>0 DEF NoTime
  <1>3. Verdicts[r] = "ABSENT" /\ Verdicts' = [Verdicts EXCEPT ![r] = "PENDING"]
    BY <1>1 DEF Verdicts
  <1>4. AtRest' = AtRest
    BY <1>1, <1>2 DEF AtRest, Admitted
  <1>5. {o \in outbox' : o.event = "run.decided"} = {o \in outbox : o.event = "run.decided"}
    BY DEF Admit, Created
  <1>6. Told' = Told
    BY <1>5 DEF Told
  <1>. QED BY <1>3, <1>4, <1>6

\* Announcing tells the run's own verdict.
LEMMA AnnounceAnnounces ==
  ASSUME Typed, VerdictSafe, NEW w \in Workers, Announce(w)
  PROVE  LET r == cur[w].run
         IN  /\ r \in Runs /\ Verdicts[r] \in TERMINAL
             /\ Told' = Told \cup {<<r, Verdicts[r]>>}
             /\ UNCHANGED <<Verdicts, AtRest>>
  <1> DEFINE r == cur[w].run
  <1>1. r \in Runs
    BY DEF Typed, TypeOK, WorkersTyped, Claim
  <1>2. found[w].status \in TERMINAL /\ runs[r].status = found[w].status
    BY DEF Announce, VerdictSafe, TellsTheTruth
  <1>3. Verdicts[r] = found[w].status
    BY <1>1, <1>2 DEF Verdicts
  <1>4. /\ outbox' = outbox \cup {Decided(r, found[w].status)} /\ UNCHANGED runs
    BY DEF Announce
  <1>5. {o \in outbox' : o.event = "run.decided"} =
          {o \in outbox : o.event = "run.decided"} \cup {Decided(r, found[w].status)}
    BY <1>4 DEF Decided
  <1>6. Told' = Told \cup {<<r, found[w].status>>}
    <2> DEFINE o == Decided(r, found[w].status)
               D == {q \in outbox : q.event = "run.decided"}
    <2>1. o.run = r /\ o.status = found[w].status
      BY DEF Decided
    <2>2. {q \in outbox' : q.event = "run.decided"} = D \cup {o}
      BY <1>5
    <2> HIDE DEF o, D
    <2>3. {<<q.run, q.status>> : q \in D \cup {o}} =
            {<<q.run, q.status>> : q \in D} \cup {<<o.run, o.status>>}
      OBVIOUS
    <2>4. Told = {<<q.run, q.status>> : q \in D}
      BY DEF Told, D
    <2>5. Told' = {<<q.run, q.status>> : q \in D \cup {o}}
      BY <2>2 DEF Told
    <2>. QED BY <2>1, <2>3, <2>4, <2>5
  <1>7. UNCHANGED <<Verdicts, AtRest>>
    BY <1>4 DEF Verdicts, AtRest, Admitted
  <1>. QED BY <1>1, <1>2, <1>3, <1>6, <1>7

\* The commit point decides an open run, or leaves the verdicts as they are.
LEMMA CommitDecides ==
  ASSUME Typed, Typed', VerdictSafe, ScheduleSafe, ClosedForGood, NEW w \in Workers,
         Commit(w) \/ Resolve(w)
  PROVE  \/ UNCHANGED <<Verdicts, Told, AtRest>>
         \/ \E r \in Runs, v \in TERMINAL :
              /\ Verdicts[r] = "PENDING"
              /\ Verdicts' = [Verdicts EXCEPT ![r] = v]
              /\ UNCHANGED <<Told, AtRest>>
  <1> DEFINE r == cur[w].run
  <1>0. /\ r \in Runs /\ found[w].status \in RunStatus /\ tick[w].now \in Nat
    BY DEF Typed, TypeOK, WorkersTyped, Claim, Finding
  <1>1. UNCHANGED outbox /\ Working(w)
    BY DEF Commit, Resolve, Working, ObserveSteps
  <1>2. PICK status, next, count, completed :
          /\ status \in RunStatus
          /\ ApplyOutcome(cur[w], status, next, count, completed)
          /\ next # NoTime
    <2>1. CASE Commit(w)
      <3>1. ApplyOutcome(cur[w], found[w].status, found[w].next, found[w].count,
                         IF found[w].status \in TERMINAL THEN tick[w].now ELSE NoTime)
        BY <2>1 DEF Commit
      <3>2. found[w].next # NoTime
        BY <2>1 DEF Commit, ScheduleSafe, CommitsKeepSchedule
      <3>. QED BY <3>1, <3>2, <1>0
    <2>2. CASE Resolve(w)
      <3>1. ApplyOutcome(cur[w], "UNVERIFIED", tick[w].now + FinaliseDelay, found[w].count,
                         tick[w].now)
        BY <2>2 DEF Resolve
      <3>2. tick[w].now + FinaliseDelay # NoTime /\ "UNVERIFIED" \in RunStatus
        BY <1>0, SchedulerAssumption DEF NoTime, RunStatus
      <3>. QED BY <3>1, <3>2
    <2>. QED BY <2>1, <2>2
  <1>3. /\ \A q \in Runs : ~(q = r /\ Applied(cur[w])) => runs'[q] = runs[q]
        /\ Applied(cur[w]) => runs'[r].status = status /\ runs'[r].next = next
    BY <1>2, ApplyOutcomeRows
  <1>4. CASE ~Applied(cur[w])
    BY <1>1, <1>3, <1>4, Stutter
  <1>5. CASE Applied(cur[w])
    <2>1. runs[r].next # NoTime
      BY <1>1, <1>5, CurrentClaimIsOpen
    <2>2. runs[r].status = "PENDING"
      BY <1>0, <1>5 DEF Commit, Resolve, VerdictSafe, JudgesOpen
    <2>3. CASE status = "PENDING"
      BY <1>1, <1>2, <1>3, <1>5, <2>1, <2>2, <2>3, Stutter
    <2>4. CASE status # "PENDING"
      <3>1. status \in TERMINAL
        BY <1>2, <2>4 DEF RunStatus, TERMINAL
      <3>2. Verdicts[r] = "PENDING" /\ Verdicts' = [Verdicts EXCEPT ![r] = status]
        BY <1>0, <1>3, <1>5, <2>2 DEF Verdicts
      <3>3. AtRest' = AtRest
        BY <1>0, <1>2, <1>3, <1>5, <2>1, <2>2 DEF AtRest, Admitted, RunStatus
      <3>4. Told' = Told
        BY <1>1 DEF Told
      <3>. QED BY <1>0, <3>1, <3>2, <3>3, <3>4
    <2>. QED BY <2>3, <2>4
  <1>. QED BY <1>4, <1>5

\* Ending a run's schedule closes a decided and announced run.
LEMMA CloseCloses ==
  ASSUME Typed, Typed', VerdictSafe, ScheduleSafe, ClosedForGood, NEW w \in Workers, Close(w)
  PROVE  \/ UNCHANGED <<Verdicts, Told, AtRest>>
         \/ \E r \in Runs :
              /\ r \notin AtRest /\ Verdicts[r] \in TERMINAL /\ <<r, Verdicts[r]>> \in Told
              /\ AtRest' = AtRest \cup {r}
              /\ UNCHANGED <<Verdicts, Told>>
  <1> DEFINE r == cur[w].run
  <1>0. /\ r \in Runs /\ found[w].status \in TERMINAL /\ runs[r].status = found[w].status
        /\ Decided(r, found[w].status) \in outbox
    BY DEF Typed, TypeOK, WorkersTyped, Claim, Close, VerdictSafe, TellsTheTruth, ScheduleSafe,
           AnnouncedBeforeClosing
  <1>1. UNCHANGED outbox /\ Working(w)
    BY DEF Close, Working, ObserveSteps
  <1>2. PICK status, next, count, completed :
          /\ ApplyOutcome(cur[w], status, next, count, completed)
          /\ status = found[w].status /\ next = NoTime
    BY DEF Close
  <1>3. /\ \A q \in Runs : ~(q = r /\ Applied(cur[w])) => runs'[q] = runs[q]
        /\ Applied(cur[w]) => runs'[r].status = status /\ runs'[r].next = next
    BY <1>2, ApplyOutcomeRows
  <1>4. CASE ~Applied(cur[w])
    BY <1>1, <1>3, <1>4, Stutter
  <1>5. CASE Applied(cur[w])
    <2>1. runs[r].next # NoTime
      BY <1>1, <1>5, CurrentClaimIsOpen
    <2>2. Verdicts[r] = found[w].status /\ Verdicts' = Verdicts
      BY <1>0, <1>2, <1>3, <1>5 DEF Verdicts
    <2>3. <<r, found[w].status>> \in Told
      BY <1>0, ToldIs
    <2>4. r \notin AtRest /\ AtRest' = AtRest \cup {r}
      BY <1>0, <1>2, <1>3, <1>5, <2>1 DEF AtRest, Admitted, TERMINAL, RunStatus
    <2>5. Told' = Told
      BY <1>1 DEF Told
    <2>. QED BY <1>0, <2>2, <2>3, <2>4, <2>5
  <1>. QED BY <1>4, <1>5

-----------------------------------------------------------------------------
\* Every step of the scheduler is a step of the promise, or none.
LEMMA StepRefines == IInv /\ IInv' /\ [Next]_vars => [Verdict!Next]_Verdict!vars
  <1> SUFFICES ASSUME IInv, IInv', [Next]_vars PROVE [Verdict!Next]_Verdict!vars
    OBVIOUS
  <1>0. /\ Typed /\ Typed' /\ VerdictSafe /\ ScheduleSafe /\ ClosedForGood
    BY DEF IInv, SettlementSafe
  <1>a. Verdict!vars = <<Verdicts, Told, AtRest>>
    BY DEF Verdict!vars, Verdicts, Told, AtRest
  <1>b. TERMINAL = Verdict!Final
    BY DEF TERMINAL, RunStatus, Verdict!Final
  <1>1. ASSUME UNCHANGED <<Verdicts, Told, AtRest>> PROVE [Verdict!Next]_Verdict!vars
    BY <1>1 DEF Verdict!vars, Verdicts, Told, AtRest
  <1>2. ASSUME UNCHANGED <<runs, outbox>> PROVE [Verdict!Next]_Verdict!vars
    BY <1>0, <1>1, <1>2, SameTables
  <1>3. ASSUME NEW r \in Runs, Admit(r) PROVE [Verdict!Next]_Verdict!vars
    <2>1. /\ Verdicts[r] = "ABSENT" /\ Verdicts' = [Verdicts EXCEPT ![r] = "PENDING"]
          /\ UNCHANGED <<Told, AtRest>>
      BY <1>0, <1>3, AdmitOpens
    <2>2. Verdict!Open(r)
      BY <2>1 DEF Verdict!Open, Verdicts, Told, AtRest
    <2>. QED BY <2>2 DEF Verdict!Next
  <1>4. ASSUME NEW w \in Workers, NEW c \in batch[w], TryClaim(w, c)
        PROVE  [Verdict!Next]_Verdict!vars
    <2>1. \A r \in Runs : /\ runs'[r].status = runs[r].status
                          /\ runs'[r].next = NoTime <=> runs[r].next = NoTime
      BY <1>0, <1>4, ClaimRows
    <2>2. UNCHANGED outbox
      BY <1>4 DEF TryClaim
    <2>. QED BY <1>0, <1>1, <2>1, <2>2, Stutter
  <1>5. ASSUME NEW w \in Workers, Commit(w) \/ Resolve(w) PROVE [Verdict!Next]_Verdict!vars
    <2>1. ASSUME NEW r \in Runs, NEW v \in TERMINAL, Verdicts[r] = "PENDING",
                 Verdicts' = [Verdicts EXCEPT ![r] = v], UNCHANGED <<Told, AtRest>>
          PROVE  [Verdict!Next]_Verdict!vars
      <3>1. Verdict!Decide(r)
        BY <2>1, <1>b DEF Verdict!Decide, Verdicts, Told, AtRest
      <3>. QED BY <3>1 DEF Verdict!Next
    <2>. QED BY <1>0, <1>1, <1>5, <2>1, CommitDecides
  <1>6. ASSUME NEW w \in Workers, Announce(w) PROVE [Verdict!Next]_Verdict!vars
    <2>1. PICK r \in Runs : /\ Verdicts[r] \in TERMINAL
                            /\ Told' = Told \cup {<<r, Verdicts[r]>>}
                            /\ UNCHANGED <<Verdicts, AtRest>>
      BY <1>0, <1>6, AnnounceAnnounces
    <2>2. Verdict!Announce(r)
      BY <2>1, <1>b DEF Verdict!Announce, Verdicts, Told, AtRest
    <2>. QED BY <2>2 DEF Verdict!Next
  <1>7. ASSUME NEW w \in Workers, Close(w) PROVE [Verdict!Next]_Verdict!vars
    <2>1. ASSUME NEW r \in Runs, r \notin AtRest, Verdicts[r] \in TERMINAL,
                 <<r, Verdicts[r]>> \in Told, AtRest' = AtRest \cup {r},
                 UNCHANGED <<Verdicts, Told>>
          PROVE  [Verdict!Next]_Verdict!vars
      <3>1. Verdict!Close(r)
        BY <2>1, <1>b DEF Verdict!Close, Verdicts, Told, AtRest
      <3>. QED BY <3>1 DEF Verdict!Next
    <2>. QED BY <1>0, <1>1, <1>7, <2>1, CloseCloses
  <1>8. CASE UNCHANGED vars
    BY <1>2, <1>8 DEF vars
  <1>9. CASE Environment \/ Advance
    BY <1>2, <1>3, <1>9 DEF Environment, Pause, Resume, Advance, db
  <1>10. ASSUME NEW w \in Workers, StartTick(w) \/ Progress(w) \/ Fault(w)
         PROVE  [Verdict!Next]_Verdict!vars
    <2>1. ASSUME \/ StartTick(w) \/ ClaimsDone(w) \/ (\E c \in held[w] : BeginObserve(w, c))
                 \/ EndTick(w) \/ RulesUnusable(w)
                 \/ (\E obs \in Observations : Gather(w, obs))
                 \/ GatherStarved(w) \/ GatherUnconnected(w)
                 \/ RecordAssertions(w) \/ Settle(w) \/ NoPeriodToSettle(w) \/ Fault(w)
          PROVE  UNCHANGED <<runs, outbox>>
      BY <2>1 DEF StartTick, ClaimsDone, BeginObserve, EndTick, RulesUnusable, Gather,
         GatherStarved, GatherUnconnected,
         RecordAssertions, Settle, NoPeriodToSettle, Fault, Throw, OutOfTime,
         Crash, db
    <2>. QED BY <1>2, <1>4, <1>5, <1>6, <1>7, <1>10, <2>1 DEF Progress
  <1>. QED BY <1>8, <1>9, <1>10 DEF Next

\* The scheduler implements the promise of RunVerdict, for any number of
\* runs and of overlapping, dying ticks.
THEOREM SchedulerImplementsVerdict == Spec => ImplementsVerdict
  <1>1. Init => Verdict!Init
    <2> SUFFICES ASSUME Init PROVE Verdict!Init
      OBVIOUS
    <2>1. \A r \in Runs : runs[r].status = "ABSENT"
      BY DEF Init, ABSENT
    <2>2. outbox = {}
      BY DEF Init
    <2>. QED BY <2>1, <2>2 DEF Verdict!Init, Admitted
  <1>. QED BY <1>1, StepRefines, InductiveInvariant, PTL
       DEF Spec, ImplementsVerdict, Verdict!Spec
=============================================================================
