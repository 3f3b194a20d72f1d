----------------------- MODULE MaintenanceJobsProofs -----------------------
(***************************************************************************)
(* Proofs about MaintenanceJobs, for any number of devices, jobs and       *)
(* requests.  A job's row moves in six ways (JobMoves).  RowsAgree says    *)
(* what a row can look like, and from it follow the properties of one row; *)
(* that a revoked device posts nothing needs KnownNonces besides: no       *)
(* message names a lease that is still to come.                            *)
(***************************************************************************)
EXTENDS MaintenanceJobs, TLAPS

JobRow == [state : States, holder : Devices \cup {None}, nonce : Nat, left : 0..Lease,
           claims : Nat, result : Results \cup {None}]
Said == [job : Submissions, nonce : Nat, outcome : Outcomes]
LeaseStates == {Idle} \cup [at : {"choosing"}, tries : Int]
               \cup [at : {"claiming"}, job : Submissions, tries : Int]
               \cup [at : {"discarding"}, job : Submissions, nonce : Nat, tries : Int]
               \cup [at : {"answered"}, job : Submissions, nonce : Nat]
RunnerStates == {[at |-> "unpaired"], Idle, Asleep, [at |-> "stopped"]}
                \cup [at : {"working"}, job : Submissions, nonce : Nat, left : Int]
ReportStates == {Idle} \cup [at : {"recording", "rereading"}, of : Said]
Posted == [device : Devices, job : Submissions, nonce : Nat, outcome : Outcomes, left : Int]

Typed ==
    /\ device \in [Devices -> {"none", "pending_pair", "active", "revoked"}]
    /\ job \in [Submissions -> JobRow]
    /\ console \in [Submissions -> {"idle", "looked", "done"}]
    /\ runner \in [Devices -> RunnerStates]
    /\ lease \in [Devices -> LeaseStates]
    /\ posts \subseteq Posted
    /\ report \in [Devices -> ReportStates]
    /\ faults \in 0..MaxFaults

-----------------------------------------------------------------------------
(* What a step does to the row of a job. *)

\* The row of a claim, and of a recorded result.
ClaimedRow(s, d) ==
    [state |-> "leased", holder |-> d, nonce |-> job[s].claims + 1, left |-> Lease,
     claims |-> job[s].claims + 1, result |-> job[s].result]
RecordedRow(s, outcome, result) ==
    [state |-> outcome, holder |-> job[s].holder, nonce |-> 0, left |-> 0,
     claims |-> job[s].claims, result |-> result]
FreeRow(s) == Queued(job[s].claims, job[s].result)

Queues(s) == console[s] = "looked" /\ console'[s] = "done" /\ job'[s] = NewJob
Frees(s) == job[s].state = "leased" /\ job'[s] = FreeRow(s)
Claims(s) == Claimable(s) /\ \E d \in Devices : job'[s] = ClaimedRow(s, d)
Ages(s) == job[s].left > 0 /\ job'[s] = [job[s] EXCEPT !.left = @ - 1]

\* The runner whose result it is holds the lease; a payload that cannot be read has none.
Heard(s, d) ==
    report[d].at = "recording" /\ report[d].of.job = s /\ Holds(s, d, report[d].of.nonce)
Records(s) ==
    \E outcome \in Outcomes, result \in Results :
        /\ job[s].state = "leased"
        /\ job'[s] = RecordedRow(s, outcome, result)
        /\ result.nonce = job[s].nonce
        /\ \/ result.device = None
           \/ result.device \in Devices /\ Heard(s, result.device)

\* revoke sets the rows of the leases the device has.
LEMMA ReleasedIs ==
  ASSUME NEW s \in Submissions, NEW d \in Devices, job \in [Submissions -> JobRow]
  PROVE  Released(d)[s] = IF job[s].state = "leased" /\ job[s].holder = d
                          THEN FreeRow(s) ELSE job[s]
BY DEF Released, FreeRow

\* A lease request that is being handled has a job, and a report has a message.
LEMMA RequestsTyped ==
  ASSUME Typed, NEW d \in Devices
  PROVE  /\ lease[d].at \in {"claiming", "discarding", "answered"} => lease[d].job \in Submissions
         /\ lease[d].at \in {"discarding", "answered"} => lease[d].nonce \in Nat
         /\ report[d].at \in {"recording", "rereading"} => report[d].of \in Said
         /\ runner[d].at = "working" => runner[d].job \in Submissions /\ runner[d].nonce \in Nat
BY DEF Typed, LeaseStates, ReportStates, RunnerStates, Idle, Asleep

\* The moves of a row, action by action.
LEMMA JobMoves ==
  ASSUME Typed, [Next]_vars, NEW s \in Submissions
  PROVE  job'[s] = job[s] \/ Queues(s) \/ Frees(s) \/ Claims(s) \/ Records(s) \/ Ages(s)
<1>. USE DEF Typed
<1>1. CASE UNCHANGED job
  BY <1>1
<1>2. ASSUME NEW r \in Submissions, Enqueue(r) PROVE job'[s] = job[s] \/ Queues(s)
  BY <1>2 DEF Enqueue, Queues
<1>3. ASSUME NEW d \in Devices, Revoke(d) PROVE job'[s] = job[s] \/ Frees(s)
  <2>1. job'[s] = Released(d)[s]
    BY <1>3 DEF Revoke
  <2>. QED BY <2>1, ReleasedIs DEF Frees
<1>4. ASSUME NEW d \in Devices, Claim(d) PROVE job'[s] = job[s] \/ Claims(s)
  <2>1. lease[d].job \in Submissions
    BY <1>4, RequestsTyped DEF Claim
  <2>2. job' = job \/ (Claimable(lease[d].job) /\ job' = Claimed(lease[d].job, d))
    BY <1>4 DEF Claim
  <2>3. \/ job' = job
        \/ /\ Claimable(lease[d].job)
           /\ job' = [job EXCEPT ![lease[d].job] = ClaimedRow(lease[d].job, d)]
    BY <2>2 DEF Claimed, ClaimedRow
  <2>. QED BY <2>1, <2>3 DEF Claims
<1>5. ASSUME NEW d \in Devices, Discard(d) PROVE job'[s] = job[s] \/ Records(s)
  <2>. DEFINE r == lease[d].job
              result == [nonce |-> lease[d].nonce, device |-> None,
                         outcome |-> "infrastructure_error"]
  <2>1. r \in Submissions /\ lease[d].nonce \in Nat
    BY <1>5, RequestsTyped DEF Discard
  <2>2. \/ job' = job
        \/ Holds(r, d, lease[d].nonce) /\ job' = Recorded(r, "infrastructure_error", result)
    BY <1>5 DEF Discard
  <2>3. \/ job' = job
        \/ /\ Holds(r, d, lease[d].nonce)
           /\ job' = [job EXCEPT ![r] = RecordedRow(r, "infrastructure_error", result)]
    BY <2>2 DEF Recorded, RecordedRow
  <2>4. result \in Results /\ "infrastructure_error" \in Outcomes
    BY <2>1 DEF Results, Outcomes
  <2>5. result.nonce = lease[d].nonce /\ result.device = None
    OBVIOUS
  <2>. HIDE DEF result
  <2>6. CASE job' = job
    BY <2>6
  <2>7. CASE Holds(r, d, lease[d].nonce)
             /\ job' = [job EXCEPT ![r] = RecordedRow(r, "infrastructure_error", result)]
    BY <2>1, <2>4, <2>5, <2>7 DEF Records, Holds
  <2>. QED BY <2>3, <2>6, <2>7
<1>6. ASSUME NEW d \in Devices, Record(d) PROVE job'[s] = job[s] \/ Records(s)
  <2>. DEFINE m == report[d].of
              result == [nonce |-> m.nonce, device |-> d, outcome |-> m.outcome]
  <2>1. m \in Said /\ report[d].at = "recording"
    BY <1>6, RequestsTyped DEF Record
  <2>2. \/ job' = job
        \/ Holds(m.job, d, m.nonce) /\ job' = Recorded(m.job, m.outcome, result)
    BY <1>6 DEF Record
  <2>3. m.job \in Submissions /\ m.outcome \in Outcomes /\ m.nonce \in Nat
    BY <2>1 DEF Said
  <2>4. \/ job' = job
        \/ /\ Holds(m.job, d, m.nonce)
           /\ job' = [job EXCEPT ![m.job] = RecordedRow(m.job, m.outcome, result)]
    BY <2>2 DEF Recorded, RecordedRow
  <2>5. result \in Results /\ result.nonce = m.nonce /\ result.device = d
    BY <2>3 DEF Results
  <2>. HIDE DEF result
  <2>6. CASE job' = job
    BY <2>6
  <2>7. CASE Holds(m.job, d, m.nonce)
             /\ job' = [job EXCEPT ![m.job] = RecordedRow(m.job, m.outcome, result)]
    BY <2>1, <2>3, <2>5, <2>7 DEF Records, Heard, Holds
  <2>. QED BY <2>4, <2>6, <2>7
<1>7. CASE Tick
  BY <1>7 DEF Tick, Ages
<1>. QED
  BY <1>1, <1>2, <1>3, <1>4, <1>5, <1>6, <1>7
     DEF Next, vars, Owner, Runner, Serve, Look, OpenPairing, Pair, Poll, HearJob, Post, Choose,
         Restart, LosePoll, Receive, Reread, LosePost

-----------------------------------------------------------------------------
(* One row *)

\* What is leased has a holder, and the nonce of its last claim; what is not leased has
\* no nonce and no time left; what ended has the result of its last claim; and a job that
\* was not queued yet has no row.
RowAgrees(s) ==
    /\ job[s].state = "leased" => /\ job[s].holder \in Devices
                                  /\ job[s].nonce = job[s].claims /\ job[s].claims > 0
    /\ job[s].state # "leased" => job[s].nonce = 0 /\ job[s].left = 0
    /\ Ended(s) => job[s].result \in Results /\ job[s].result.nonce = job[s].claims
    /\ ~Ended(s) => job[s].result = None
    /\ console[s] # "done" => job[s].state = "none"
    /\ job[s].state = "none" => job[s].claims = 0
RowsAgree == \A s \in Submissions : RowAgrees(s)

\* A submission that is not done has no job yet, and none is made by any other step.
LEMMA ConsoleMoves ==
  ASSUME Typed, [Next]_vars, NEW s \in Submissions, console'[s] # "done"
  PROVE  console[s] # "done"
BY DEF Typed, Next, vars, Owner, Runner, Serve, Look, Enqueue, OpenPairing, Revoke, Pair, Poll,
       HearJob, Post, Choose, Claim, Discard, Restart, LosePoll, Receive, Record, Reread,
       LosePost, Tick

\* The rows of the jobs stay rows.
LEMMA RowTyped ==
  ASSUME Typed, [Next]_vars, NEW s \in Submissions
  PROVE  job'[s] \in JobRow
<1>. USE DEF Typed
<1>1. job[s] \in JobRow /\ Lease \in 0..Lease /\ 0 \in 0..Lease
  BY DurationsAssumption
<1>2. CASE Queues(s)
  BY <1>1, <1>2 DEF Queues, NewJob, Queued, JobRow, States
<1>3. CASE Frees(s)
  BY <1>1, <1>3 DEF Frees, FreeRow, Queued, JobRow, States
<1>4. CASE Claims(s)
  BY <1>1, <1>4 DEF Claims, ClaimedRow, JobRow, States
<1>5. CASE Records(s)
  BY <1>1, <1>5 DEF Records, RecordedRow, JobRow, States
<1>6. CASE Ages(s)
  BY <1>1, <1>6, DurationsAssumption DEF Ages, JobRow
<1>. QED BY <1>1, <1>2, <1>3, <1>4, <1>5, <1>6, JobMoves

LEMMA RowsAgreeStep ==
  ASSUME Typed, RowsAgree, [Next]_vars
  PROVE  RowsAgree'
<1>. SUFFICES ASSUME NEW s \in Submissions PROVE RowAgrees(s)'
  BY DEF RowsAgree
<1>0. /\ RowAgrees(s) /\ job[s] \in JobRow
      /\ console'[s] # "done" => console[s] # "done"
  BY ConsoleMoves DEF RowsAgree, Typed
<1>1. CASE job'[s] = job[s]
  BY <1>0, <1>1 DEF RowAgrees, Ended
<1>2. CASE Queues(s)
  BY <1>0, <1>2 DEF Queues, NewJob, Queued, RowAgrees, Ended, Outcomes
<1>3. CASE Frees(s)
  BY <1>0, <1>3 DEF Frees, FreeRow, Queued, RowAgrees, Ended, Outcomes
<1>4. CASE Claims(s)
  BY <1>0, <1>4 DEF Claims, Claimable, ClaimedRow, RowAgrees, Ended, Outcomes, JobRow
<1>5. CASE Records(s)
  BY <1>0, <1>5 DEF Records, RecordedRow, RowAgrees, Ended, Outcomes
<1>6. CASE Ages(s)
  BY <1>0, <1>6 DEF Ages, RowAgrees, Ended, Outcomes, JobRow
<1>. QED BY <1>1, <1>2, <1>3, <1>4, <1>5, <1>6, JobMoves

-----------------------------------------------------------------------------
(* Types *)

\* No step makes jobs of what is none.
LEMMA JobTyped ==
  ASSUME Typed, [Next]_vars
  PROVE  job' \in [Submissions -> JobRow]
<1>1. job' = [s \in Submissions |-> job'[s]]
  <2>. USE DEF Typed
  <2>1. CASE UNCHANGED job
    BY <2>1
  <2>2. ASSUME NEW s \in Submissions, Enqueue(s) PROVE job' = [r \in Submissions |-> job'[r]]
    BY <2>2 DEF Enqueue
  <2>3. ASSUME NEW d \in Devices, Revoke(d) PROVE job' = [r \in Submissions |-> job'[r]]
    BY <2>3 DEF Revoke, Released
  <2>4. ASSUME NEW d \in Devices, Claim(d) \/ Discard(d) \/ Record(d)
        PROVE  job' = [r \in Submissions |-> job'[r]]
    BY <2>4 DEF Claim, Claimed, Discard, Record, Recorded
  <2>5. CASE Tick
    BY <2>5 DEF Tick
  <2>. QED
    BY <2>1, <2>2, <2>3, <2>4, <2>5
       DEF Next, vars, Owner, Runner, Serve, Look, OpenPairing, Pair, Poll, HearJob, Post,
           Choose, Restart, LosePoll, Receive, Reread, LosePost
<1>2. \A s \in Submissions : job'[s] \in JobRow
  BY RowTyped
<1>. QED BY <1>1, <1>2, Zenon

LEMMA TypedStep ==
  ASSUME Typed, [Next]_vars
  PROVE  Typed'
<1>0. job' \in [Submissions -> JobRow]
  BY JobTyped
<1>. USE DEF Typed
<1>1. CASE UNCHANGED vars
  BY <1>1 DEF vars
<1>2. ASSUME NEW s \in Submissions, Look(s) \/ Enqueue(s) PROVE Typed'
  BY <1>0, <1>2 DEF Look, Enqueue
<1>3. ASSUME NEW d \in Devices, OpenPairing(d) \/ Revoke(d) PROVE Typed'
  BY <1>0, <1>3 DEF OpenPairing, Revoke
<1>4. ASSUME NEW d \in Devices, Pair(d) PROVE Typed'
  BY <1>0, <1>4 DEF Pair, RunnerStates
<1>5. ASSUME NEW d \in Devices, Poll(d) PROVE Typed'
  <2>1. [at |-> "choosing", tries |-> Attempts] \in LeaseStates /\ [at |-> "stopped"] \in RunnerStates
    BY DurationsAssumption DEF LeaseStates, RunnerStates
  <2>. QED BY <1>0, <1>5, <2>1 DEF Poll
<1>6. ASSUME NEW d \in Devices, HearJob(d) PROVE Typed'
  <2>1. lease[d].job \in Submissions /\ lease[d].nonce \in Nat
    BY <1>6, RequestsTyped DEF HearJob
  <2>2. PICK slow \in {0, 1} :
          /\ faults + slow <= MaxFaults /\ faults' = faults + slow
          /\ runner' = [runner EXCEPT ![d] =
                 [at |-> "working", job |-> lease[d].job, nonce |-> lease[d].nonce,
                  left |-> IF slow = 1 THEN Overrun ELSE Work]]
    BY <1>6 DEF HearJob
  <2>3. [at |-> "working", job |-> lease[d].job, nonce |-> lease[d].nonce,
         left |-> IF slow = 1 THEN Overrun ELSE Work] \in RunnerStates
    BY <2>1, DurationsAssumption DEF RunnerStates
  <2>4. Idle \in LeaseStates /\ faults' \in 0..MaxFaults
    BY <2>2, DurationsAssumption DEF LeaseStates
  <2>. QED BY <1>0, <1>6, <2>2, <2>3, <2>4 DEF HearJob
<1>7. ASSUME NEW d \in Devices, Post(d) PROVE Typed'
  <2>1. runner[d].job \in Submissions /\ runner[d].nonce \in Nat
    BY <1>7, RequestsTyped DEF Post
  <2>2. PICK outcome \in Reports :
          posts' = posts \cup {[device |-> d, job |-> runner[d].job, nonce |-> runner[d].nonce,
                                outcome |-> outcome, left |-> Tolerance]}
    BY <1>7 DEF Post
  <2>3. posts' \subseteq Posted
    BY <2>1, <2>2, DurationsAssumption, ReportsAssumption DEF Posted
  <2>. QED BY <1>0, <1>7, <2>3 DEF Post, RunnerStates
<1>8. ASSUME NEW d \in Devices, Restart(d) \/ LosePoll(d) PROVE Typed'
  BY <1>0, <1>8, DurationsAssumption DEF Restart, LosePoll, RunnerStates, LeaseStates
<1>9. ASSUME NEW d \in Devices, Choose(d) PROVE Typed'
  <2>1. lease[d].tries \in Int
    BY <1>9 DEF Choose, LeaseStates, Idle
  <2>2. PICK s \in Submissions \cup {None} :
          \/ lease' = [lease EXCEPT ![d] = Idle]
          \/ s \in Submissions /\ lease' = [lease EXCEPT ![d] =
                [at |-> "claiming", job |-> s, tries |-> lease[d].tries]]
    BY <1>9 DEF Choose
  <2>3. s \in Submissions => [at |-> "claiming", job |-> s, tries |-> lease[d].tries] \in LeaseStates
    BY <2>1 DEF LeaseStates
  <2>4. lease' \in [Devices -> LeaseStates]
    BY <2>2, <2>3 DEF LeaseStates
  <2>5. runner' \in [Devices -> RunnerStates]
    BY <1>9 DEF Choose, RunnerStates
  <2>. QED BY <1>0, <1>9, <2>4, <2>5 DEF Choose
<1>10. ASSUME NEW d \in Devices, Claim(d) \/ Discard(d) PROVE Typed'
  <2>1. lease[d].tries \in Int /\ lease[d].job \in Submissions
    BY <1>10 DEF Claim, Discard, LeaseStates, Idle
  <2>2. job[lease[d].job].claims + 1 \in Nat
    BY <2>1 DEF JobRow
  <2>3. /\ [at |-> "choosing", tries |-> lease[d].tries - 1] \in LeaseStates
        /\ [at |-> "discarding", job |-> lease[d].job, nonce |-> job[lease[d].job].claims + 1,
            tries |-> lease[d].tries] \in LeaseStates
        /\ [at |-> "answered", job |-> lease[d].job,
            nonce |-> job[lease[d].job].claims + 1] \in LeaseStates
    BY <2>1, <2>2 DEF LeaseStates
  <2>4. lease' \in [Devices -> LeaseStates]
    BY <1>10, <2>3 DEF Claim, Discard
  <2>. QED BY <1>0, <1>10, <2>4 DEF Claim, Discard
<1>11. ASSUME NEW d \in Devices, Receive(d) PROVE Typed'
  <2>1. PICK p \in posts, again \in {0, 1} :
          /\ faults + again <= MaxFaults /\ faults' = faults + again
          /\ posts' \subseteq posts
          /\ report' \in {[report EXCEPT ![d] = [at |-> "recording", of |-> Message(p)]], report}
    BY <1>11 DEF Receive
  <2>2. [at |-> "recording", of |-> Message(p)] \in ReportStates
    BY DEF Message, Posted, ReportStates, Said
  <2>3. report' \in [Devices -> ReportStates] /\ posts' \subseteq Posted
    BY <2>1, <2>2
  <2>4. faults' \in 0..MaxFaults
    BY <2>1, DurationsAssumption
  <2>. QED BY <1>0, <1>11, <2>3, <2>4 DEF Receive
<1>12. ASSUME NEW d \in Devices, Record(d) \/ Reread(d) PROVE Typed'
  <2>1. report[d].at \in {"recording", "rereading"}
    BY <1>12 DEF Record, Reread
  <2>2. report[d] \in [at : {"recording", "rereading"}, of : Said]
    BY <2>1 DEF ReportStates, Idle
  <2>3. [report[d] EXCEPT !.at = "rereading"] \in ReportStates /\ Idle \in ReportStates
    BY <2>2 DEF ReportStates
  <2>4. report' \in [Devices -> ReportStates]
    BY <1>12, <2>3 DEF Record, Reread
  <2>. QED BY <1>0, <1>12, <2>4 DEF Record, Reread
<1>13. CASE LosePost
  BY <1>0, <1>13, DurationsAssumption DEF LosePost
<1>14. CASE Tick
  <2>1. \A d \in Devices : runner'[d] \in RunnerStates
    <3>1. SUFFICES ASSUME NEW d \in Devices PROVE runner'[d] \in RunnerStates
      OBVIOUS
    <3>2. CASE runner[d].at = "working"
      <4>1. runner[d] \in [at : {"working"}, job : Submissions, nonce : Nat, left : Int]
        BY <3>2 DEF RunnerStates, Idle, Asleep
      <4>2. runner'[d] = [runner[d] EXCEPT !.left = @ - 1]
        BY <1>14, <3>2 DEF Tick
      <4>. QED BY <4>1, <4>2 DEF RunnerStates
    <3>3. CASE runner[d].at = "asleep"
      BY <1>14, <3>3 DEF Tick, RunnerStates
    <3>4. CASE runner[d].at \notin {"working", "asleep"}
      BY <1>14, <3>4 DEF Tick
    <3>. QED BY <3>2, <3>3, <3>4
  <2>2. runner' \in [Devices -> RunnerStates]
    <3>1. runner' = [d \in Devices |-> runner'[d]]
      BY <1>14 DEF Tick
    <3>. QED BY <2>1, <3>1, Zenon
  <2>3. \A p \in posts : [p EXCEPT !.left = @ - 1] \in Posted
    BY DEF Posted
  <2>4. posts' \subseteq Posted
    BY <1>14, <2>3 DEF Tick
  <2>. QED BY <1>0, <1>14, <2>2, <2>4 DEF Tick
<1>. QED
  BY <1>1, <1>2, <1>3, <1>4, <1>5, <1>6, <1>7, <1>8, <1>9, <1>10, <1>11, <1>12, <1>13, <1>14
     DEF Next, Owner, Runner, Serve

-----------------------------------------------------------------------------
(* Messages: the nonce of each is one that its job has had. *)

Known(m) == m.nonce <= job[m.job].claims
KnownNonces ==
    /\ \A d \in Devices : lease[d].at \in {"discarding", "answered"} => Known(lease[d])
    /\ \A d \in Devices : runner[d].at = "working" => Known(runner[d])
    /\ \A p \in posts : Known(p)
    /\ \A d \in Devices : report[d].at = "recording" => Known(report[d].of)

\* The claims of a job are never taken back.
LEMMA ClaimsGrow ==
  ASSUME Typed, RowsAgree, [Next]_vars, NEW s \in Submissions
  PROVE  /\ job[s].claims \in Nat /\ job'[s].claims \in Nat
         /\ job[s].claims <= job'[s].claims
<1>1. job[s] \in JobRow /\ job'[s] \in JobRow /\ RowAgrees(s)
  BY RowTyped DEF Typed, RowsAgree
<1>2. CASE Queues(s)
  BY <1>1, <1>2 DEF Queues, NewJob, Queued, RowAgrees, JobRow
<1>3. CASE Frees(s)
  BY <1>1, <1>3 DEF Frees, FreeRow, Queued, JobRow
<1>4. CASE Claims(s)
  BY <1>1, <1>4 DEF Claims, ClaimedRow, JobRow
<1>5. CASE Records(s)
  BY <1>1, <1>5 DEF Records, RecordedRow, JobRow
<1>6. CASE Ages(s)
  BY <1>1, <1>6 DEF Ages, JobRow
<1>7. CASE job'[s] = job[s]
  BY <1>1, <1>7 DEF JobRow
<1>. QED BY <1>1, <1>2, <1>3, <1>4, <1>5, <1>6, <1>7, JobMoves DEF JobRow

\* So what was known stays known.
LEMMA KnownStays ==
  ASSUME Typed, RowsAgree, [Next]_vars, NEW s \in Submissions, NEW n \in Nat,
         n <= job[s].claims
  PROVE  n <= job'[s].claims
BY ClaimsGrow

LEMMA KnownNoncesStep ==
  ASSUME Typed, RowsAgree, KnownNonces, [Next]_vars
  PROVE  KnownNonces'
<1>1. \A d \in Devices : lease'[d].at \in {"discarding", "answered"} =>
         lease'[d].nonce <= job'[lease'[d].job].claims
  <2>1. SUFFICES ASSUME NEW d \in Devices, lease'[d].at \in {"discarding", "answered"}
                 PROVE  lease'[d].nonce <= job'[lease'[d].job].claims
    OBVIOUS
  <2>2. CASE lease'[d] = lease[d]
    BY <2>1, <2>2, RequestsTyped, KnownStays DEF KnownNonces, Known
  <2>3. CASE lease'[d] # lease[d]
    <3>1. Claim(d)
      <4>1. ASSUME NEW e \in Devices, Poll(e) \/ HearJob(e) \/ LosePoll(e) \/ Choose(e) \/ Discard(e)
            PROVE  FALSE
        BY <4>1, <2>1, <2>3 DEF Poll, HearJob, LosePoll, Choose, Discard, Typed, Idle
      <4>2. ASSUME NEW e \in Devices, Claim(e) PROVE e = d
        BY <4>2, <2>3 DEF Claim, Typed
      <4>. QED
        BY <2>3, <4>1, <4>2
           DEF Next, vars, Owner, Runner, Serve, Look, Enqueue, OpenPairing, Revoke, Pair, Post,
               Restart, Receive, Record, Reread, LosePost, Tick
    <3>2. lease[d].job \in Submissions
      BY <3>1, RequestsTyped DEF Claim
    <3>3. /\ job' = Claimed(lease[d].job, d)
          /\ lease'[d].job = lease[d].job /\ lease'[d].nonce = job[lease[d].job].claims + 1
      BY <3>1, <2>1 DEF Claim, Typed
    <3>4. job'[lease[d].job].claims = job[lease[d].job].claims + 1
      BY <3>2, <3>3 DEF Claimed, Typed
    <3>. QED BY <3>2, <3>3, <3>4, ClaimsGrow
  <2>. QED BY <2>2, <2>3
<1>2. \A d \in Devices : runner'[d].at = "working" => runner'[d].nonce <= job'[runner'[d].job].claims
  <2>1. SUFFICES ASSUME NEW d \in Devices, runner'[d].at = "working"
                 PROVE  runner'[d].nonce <= job'[runner'[d].job].claims
    OBVIOUS
  <2>2. CASE runner[d].at = "working" /\ runner'[d].job = runner[d].job /\ runner'[d].nonce = runner[d].nonce
    BY <2>2, RequestsTyped, KnownStays DEF KnownNonces, Known
  <2>3. CASE lease[d].at = "answered" /\ runner'[d].job = lease[d].job /\ runner'[d].nonce = lease[d].nonce
    BY <2>3, RequestsTyped, KnownStays DEF KnownNonces, Known
  <2>4. \/ runner[d].at = "working" /\ runner'[d].job = runner[d].job /\ runner'[d].nonce = runner[d].nonce
        \/ lease[d].at = "answered" /\ runner'[d].job = lease[d].job /\ runner'[d].nonce = lease[d].nonce
    <3>. USE DEF Typed
    <3>1. CASE runner'[d] = runner[d]
      BY <3>1, <2>1
    <3>2. ASSUME NEW e \in Devices,
                 Pair(e) \/ Poll(e) \/ Post(e) \/ Restart(e) \/ LosePoll(e) \/ Choose(e)
          PROVE  runner'[d] = runner[d]
      BY <3>2, <2>1 DEF Pair, Poll, Post, Restart, LosePoll, Choose, Idle, Asleep
    <3>3. ASSUME NEW e \in Devices, HearJob(e)
          PROVE  runner'[d] = runner[d] \/ (lease[d].at = "answered"
                    /\ runner'[d].job = lease[d].job /\ runner'[d].nonce = lease[d].nonce)
      BY <3>3 DEF HearJob
    <3>4. CASE Tick
      <4>1. CASE runner[d].at = "working"
        <5>1. runner[d] \in [at : {"working"}, job : Submissions, nonce : Nat, left : Int]
          BY <4>1 DEF RunnerStates, Idle, Asleep
        <5>2. runner'[d] = [runner[d] EXCEPT !.left = @ - 1]
          BY <3>4, <4>1 DEF Tick
        <5>. QED BY <4>1, <5>1, <5>2
      <4>2. CASE runner[d].at # "working"
        BY <3>4, <4>2, <2>1 DEF Tick, Idle
      <4>. QED BY <4>1, <4>2
    <3>. QED
      BY <3>1, <3>2, <3>3, <3>4
         DEF Next, vars, Owner, Runner, Serve, Look, Enqueue, OpenPairing, Revoke, Claim, Discard,
             Receive, Record, Reread, LosePost
  <2>. QED BY <2>2, <2>3, <2>4
<1>3. \A p \in posts' : p.nonce <= job'[p.job].claims
  <2>. SUFFICES ASSUME NEW p \in posts' PROVE p.nonce <= job'[p.job].claims
    OBVIOUS
  <2>1. ASSUME NEW q \in posts, p.job = q.job, p.nonce = q.nonce PROVE p.nonce <= job'[p.job].claims
    BY <2>1, KnownStays DEF KnownNonces, Known, Typed, Posted
  <2>2. ASSUME NEW d \in Devices, runner[d].at = "working", p.job = runner[d].job,
               p.nonce = runner[d].nonce
        PROVE  p.nonce <= job'[p.job].claims
    BY <2>2, RequestsTyped, KnownStays DEF KnownNonces, Known
  <2>3. CASE posts' \subseteq posts
    BY <2>1, <2>3
  <2>4. ASSUME NEW d \in Devices, Post(d) PROVE p.nonce <= job'[p.job].claims
    BY <2>1, <2>2, <2>4 DEF Post
  <2>5. CASE Tick
    <3>1. PICK q \in posts : p = [q EXCEPT !.left = @ - 1]
      BY <2>5 DEF Tick
    <3>2. p.job = q.job /\ p.nonce = q.nonce
      BY <3>1 DEF Typed, Posted
    <3>. QED BY <2>1, <3>2
  <2>. QED
    BY <2>3, <2>4, <2>5
       DEF Next, vars, Owner, Runner, Serve, Look, Enqueue, OpenPairing, Revoke, Pair, Poll,
           HearJob, Choose, Claim, Discard, Restart, LosePoll, Receive, Record, Reread, LosePost
<1>4. \A d \in Devices : report'[d].at = "recording" =>
         report'[d].of.nonce <= job'[report'[d].of.job].claims
  <2>1. SUFFICES ASSUME NEW d \in Devices, report'[d].at = "recording"
                 PROVE  report'[d].of.nonce <= job'[report'[d].of.job].claims
    OBVIOUS
  <2>2. CASE report'[d] = report[d]
    BY <2>1, <2>2, RequestsTyped, KnownStays DEF KnownNonces, Known, Said
  <2>3. ASSUME NEW e \in Devices, Record(e) \/ Reread(e) PROVE report'[d] = report[d]
    <3>1. report[e] \in [at : {"recording", "rereading"}, of : Said]
      BY <2>3 DEF Record, Reread, Typed, ReportStates, Idle
    <3>. QED BY <2>1, <2>3, <3>1 DEF Record, Reread, Typed, Idle
  <2>4. ASSUME NEW e \in Devices, Receive(e)
        PROVE  report'[d] = report[d] \/ \E p \in posts : report'[d].of = Message(p)
    BY <2>4, <2>1 DEF Receive, Typed
  <2>5. ASSUME NEW p \in posts, report'[d].of = Message(p)
        PROVE  report'[d].of.nonce <= job'[report'[d].of.job].claims
    BY <2>5, KnownStays DEF Message, KnownNonces, Known, Typed, Posted
  <2>. QED
    BY <2>2, <2>3, <2>4, <2>5
       DEF Next, vars, Owner, Runner, Serve, Look, Enqueue, OpenPairing, Revoke, Pair, Poll,
           HearJob, Post, Choose, Claim, Discard, Restart, LosePoll, LosePost, Tick
<1>. QED BY <1>1, <1>2, <1>3, <1>4 DEF KnownNonces, Known

-----------------------------------------------------------------------------
(* Revocation: what a revoked device still has under way names a lease it lost. *)

RevokedAreUnheard ==
    \A d \in Devices : report[d].at = "recording" =>
        /\ device[d] \in {"active", "revoked"}
        /\ device[d] = "revoked" =>
              ~Holds(report[d].of.job, d, report[d].of.nonce)

\* A lease that is lost does not come back: the next one has a nonce of its own.
LEMMA LostStaysLost ==
  ASSUME Typed, RowsAgree, [Next]_vars, NEW s \in Submissions, NEW d \in Devices, NEW n \in Nat,
         n <= job[s].claims, ~Holds(s, d, n)
  PROVE  ~Holds(s, d, n)'
<1>1. job[s] \in JobRow
  BY DEF Typed
<1>2. CASE Queues(s)
  BY <1>2 DEF Queues, NewJob, Queued, Holds
<1>3. CASE Frees(s)
  BY <1>3 DEF Frees, FreeRow, Queued, Holds
<1>4. CASE Claims(s)
  BY <1>1, <1>4 DEF Claims, ClaimedRow, Holds, JobRow
<1>5. CASE Records(s)
  BY <1>5 DEF Records, RecordedRow, Holds, Outcomes
<1>6. CASE Ages(s)
  BY <1>1, <1>6 DEF Ages, Holds, JobRow
<1>. QED BY <1>2, <1>3, <1>4, <1>5, <1>6, JobMoves DEF Holds

LEMMA RevokedAreUnheardStep ==
  ASSUME Typed, RowsAgree, KnownNonces, RevokedAreUnheard, [Next]_vars
  PROVE  RevokedAreUnheard'
<1>. SUFFICES ASSUME NEW d \in Devices, report'[d].at = "recording"
              PROVE  /\ device'[d] \in {"active", "revoked"}
                     /\ device'[d] = "revoked" =>
                           ~Holds(report[d].of.job, d, report[d].of.nonce)'
  BY DEF RevokedAreUnheard
<1>1. CASE report'[d] = report[d]
  <2>. DEFINE m == report[d].of
  <2>1. /\ report[d].at = "recording" /\ m.job \in Submissions /\ m.nonce \in Nat
        /\ m.nonce <= job[m.job].claims
        /\ device[d] \in {"active", "revoked"}
        /\ device[d] = "revoked" => ~Holds(m.job, d, m.nonce)
    BY <1>1, RequestsTyped DEF Said, KnownNonces, Known, RevokedAreUnheard
  <2>2. CASE device'[d] = device[d]
    <3>1. ASSUME device[d] = "revoked" PROVE ~Holds(m.job, d, m.nonce)'
      <4>1. ~(job'[m.job].state = "leased" /\ job'[m.job].holder = d /\ job'[m.job].nonce = m.nonce)
        <5>1. PICK s \in Submissions, n \in Nat : s = m.job /\ n = m.nonce
          BY <2>1
        <5>2. ~Holds(s, d, n)'
          BY <2>1, <3>1, <5>1, LostStaysLost
        <5>. QED BY <5>1, <5>2 DEF Holds
      <4>. QED BY <1>1, <4>1 DEF Holds
    <3>. QED BY <1>1, <2>1, <2>2, <3>1 DEF Holds
  <2>3. CASE device'[d] # device[d]
    <3>1. Revoke(d)
      <4>1. ASSUME NEW e \in Devices, OpenPairing(e) \/ Pair(e) PROVE device'[d] = device[d]
        BY <4>1, <2>1 DEF OpenPairing, Pair, Typed
      <4>2. ASSUME NEW e \in Devices, Revoke(e) PROVE e = d
        BY <4>2, <2>3 DEF Revoke, Typed
      <4>. QED
        BY <2>3, <4>1, <4>2
           DEF Next, vars, Owner, Runner, Serve, Look, Enqueue, Poll, HearJob, Post, Choose,
               Claim, Discard, Restart, LosePoll, Receive, Record, Reread, LosePost, Tick
    <3>2. device'[d] = "revoked" /\ job'[m.job] = Released(d)[m.job]
      BY <3>1 DEF Revoke, Typed
    <3>3. ~(job'[m.job].state = "leased" /\ job'[m.job].holder = d)
      <4>1. PICK s \in Submissions : s = m.job
        BY <2>1
      <4>2. Released(d)[s] = IF job[s].state = "leased" /\ job[s].holder = d
                             THEN FreeRow(s) ELSE job[s]
        BY ReleasedIs DEF Typed
      <4>3. FreeRow(s).state = "queued"
        BY DEF FreeRow, Queued
      <4>. QED BY <3>2, <4>1, <4>2, <4>3
    <3>. QED BY <1>1, <3>2, <3>3 DEF Holds
  <2>. QED BY <2>2, <2>3
<1>2. CASE report'[d] # report[d]
  <2>1. Receive(d)
    <3>1. ASSUME NEW e \in Devices, Record(e) \/ Reread(e) PROVE FALSE
      <4>1. report[e] \in [at : {"recording", "rereading"}, of : Said]
        BY <3>1 DEF Record, Reread, Typed, ReportStates, Idle
      <4>. QED BY <1>2, <3>1, <4>1 DEF Record, Reread, Typed, Idle
    <3>2. ASSUME NEW e \in Devices, Receive(e) PROVE e = d
      BY <3>2, <1>2 DEF Receive, Typed
    <3>. QED
      BY <1>2, <3>1, <3>2
         DEF Next, vars, Owner, Runner, Serve, Look, Enqueue, OpenPairing, Revoke, Pair, Poll,
             HearJob, Post, Choose, Claim, Discard, Restart, LosePoll, LosePost, Tick
  <2>2. device[d] = "active" /\ device' = device
    BY <1>2, <2>1 DEF Receive
  <2>. QED BY <2>2
<1>. QED BY <1>1, <1>2

-----------------------------------------------------------------------------
(* Replays: a lease is in one hand at a time, then in a runner's result and in copies of  *)
(* it, and then in the row.                                                               *)

\* The lease is in the answer to a poll, or the runner works under it.
InHand(d, s, n) ==
    \/ lease[d].at \in {"discarding", "answered"} /\ lease[d].job = s /\ lease[d].nonce = n
    \/ runner[d].at = "working" /\ runner[d].job = s /\ runner[d].nonce = n

\* A result under the lease is on its way, or being handled.
Speaks(d, s, n, o) ==
    \/ \E p \in posts : p.device = d /\ p.job = s /\ p.nonce = n /\ p.outcome = o
    \/ /\ report[d].at # "idle"
       /\ report[d].of.job = s /\ report[d].of.nonce = n /\ report[d].of.outcome = o

HandsAgree ==
    /\ \A d \in Devices : lease[d].at # "idle" => runner[d].at # "working"
    /\ \A d, e \in Devices, s \in Submissions, n \in Nat :
           InHand(d, s, n) /\ InHand(e, s, n) => d = e
    /\ \A d \in Devices, s \in Submissions, n \in Nat : InHand(d, s, n) =>
           /\ n <= job[s].claims
           /\ \A e \in Devices, o \in Outcomes : ~Speaks(e, s, n, o)
           /\ Ended(s) => job[s].result.nonce # n

ResultsAgree ==
    /\ \A d \in Devices, s \in Submissions, n \in Nat, o \in Outcomes : Speaks(d, s, n, o) =>
           /\ n <= job[s].claims /\ o \in Reports
           /\ Ended(s) /\ job[s].result.nonce = n =>
                  job[s].result.device = d /\ job[s].result.outcome = o
    /\ \A d, e \in Devices, s \in Submissions, n \in Nat, o, u \in Outcomes :
           Speaks(d, s, n, o) /\ Speaks(e, s, n, u) => d = e /\ o = u

\* A lease comes into a hand when it is claimed.
LEMMA HandMoves ==
  ASSUME Typed, [Next]_vars, NEW d \in Devices, NEW s \in Submissions, NEW n \in Nat,
         InHand(d, s, n)'
  PROVE  \/ InHand(d, s, n)
         \/ /\ Claim(d) /\ n = job[s].claims + 1
            /\ job'[s].state = "leased" /\ job'[s].holder = d /\ job'[s].claims = n
<1>. USE DEF Typed
<1>1. CASE UNCHANGED <<lease, runner>>
  BY <1>1 DEF InHand
<1>2. ASSUME NEW e \in Devices,
             Pair(e) \/ Poll(e) \/ Post(e) \/ Restart(e) \/ LosePoll(e) \/ Choose(e) \/ Discard(e)
      PROVE  InHand(d, s, n)
  BY <1>2 DEF Pair, Poll, Post, Restart, LosePoll, Choose, Discard, Idle, Asleep, InHand
<1>3. ASSUME NEW e \in Devices, HearJob(e) PROVE InHand(d, s, n)
  BY <1>3 DEF HearJob, Idle, InHand
<1>4. CASE Tick
  <2>1. CASE runner[d].at = "working"
    <3>1. runner[d] \in [at : {"working"}, job : Submissions, nonce : Nat, left : Int]
      BY <2>1 DEF RunnerStates, Idle, Asleep
    <3>2. runner'[d] = [runner[d] EXCEPT !.left = @ - 1] /\ lease' = lease
      BY <1>4, <2>1 DEF Tick
    <3>. QED BY <2>1, <3>1, <3>2 DEF InHand
  <2>2. CASE runner[d].at # "working"
    BY <1>4, <2>2 DEF Tick, Idle, InHand
  <2>. QED BY <2>1, <2>2
<1>5. ASSUME NEW e \in Devices, Claim(e)
      PROVE  \/ InHand(d, s, n)
             \/ /\ Claim(d) /\ n = job[s].claims + 1
                /\ job'[s].state = "leased" /\ job'[s].holder = d /\ job'[s].claims = n
  <2>1. CASE e # d
    BY <1>5, <2>1 DEF Claim, InHand
  <2>2. CASE e = d
    <3>1. CASE runner'[d].at = "working" /\ runner'[d].job = s /\ runner'[d].nonce = n
      BY <1>5, <3>1 DEF Claim, InHand
    <3>2. CASE lease'[d].at \in {"discarding", "answered"} /\ lease'[d].job = s
               /\ lease'[d].nonce = n
      <4>1. lease[d].job \in Submissions
        BY <1>5, <2>2, RequestsTyped DEF Claim
      <4>2. /\ job' = Claimed(lease[d].job, d)
            /\ lease'[d].job = lease[d].job /\ lease'[d].nonce = job[lease[d].job].claims + 1
        BY <1>5, <2>2, <3>2 DEF Claim
      <4>3. lease[d].job = s /\ n = job[s].claims + 1
        BY <3>2, <4>2
      <4>4. job'[s].state = "leased" /\ job'[s].holder = d /\ job'[s].claims = job[s].claims + 1
        BY <4>2, <4>3 DEF Claimed
      <4>. QED BY <1>5, <2>2, <4>3, <4>4
    <3>. QED BY <3>1, <3>2 DEF InHand
  <2>. QED BY <2>1, <2>2
<1>. QED
  BY <1>1, <1>2, <1>3, <1>4, <1>5
     DEF Next, vars, Owner, Runner, Serve, Look, Enqueue, OpenPairing, Revoke, Receive, Record,
         Reread, LosePost

\* A result is made of the lease its runner works under, and it is one.
LEMMA PostSpeaks ==
  ASSUME Typed, NEW d \in Devices, Post(d)
  PROVE  \E outcome \in Reports : \A e \in Devices, s \in Submissions, n \in Nat, o \in Outcomes :
             Speaks(e, s, n, o)' =>
                 \/ Speaks(e, s, n, o)
                 \/ e = d /\ s = runner[d].job /\ n = runner[d].nonce /\ o = outcome
<1>1. PICK outcome \in Reports :
        posts' = posts \cup {[device |-> d, job |-> runner[d].job, nonce |-> runner[d].nonce,
                              outcome |-> outcome, left |-> Tolerance]}
  BY DEF Post
<1>2. report' = report
  BY DEF Post
<1>. SUFFICES ASSUME NEW e \in Devices, NEW s \in Submissions, NEW n \in Nat, NEW o \in Outcomes,
                     Speaks(e, s, n, o)'
              PROVE  \/ Speaks(e, s, n, o)
                     \/ e = d /\ s = runner[d].job /\ n = runner[d].nonce /\ o = outcome
  OBVIOUS
<1>. QED BY <1>1, <1>2 DEF Speaks

\* Every other step hands on what was said, or drops it.
LEMMA SpeaksMoves ==
  ASSUME Typed, [Next]_vars, \A c \in Devices : ~Post(c),
         NEW d \in Devices, NEW s \in Submissions, NEW n \in Nat, NEW o \in Outcomes,
         Speaks(d, s, n, o)'
  PROVE  Speaks(d, s, n, o)
<1>. USE DEF Typed
<1>1. CASE UNCHANGED <<posts, report>>
  BY <1>1 DEF Speaks
<1>2. ASSUME NEW e \in Devices, Receive(e) PROVE Speaks(d, s, n, o)
  <2>1. PICK p \in posts :
          /\ p.device = e /\ posts' \subseteq posts
          /\ report' \in {report, [report EXCEPT ![e] = [at |-> "recording", of |-> Message(p)]]}
    BY <1>2 DEF Receive
  <2>2. CASE report'[d] = report[d]
    BY <2>1, <2>2 DEF Speaks
  <2>3. CASE report'[d] # report[d]
    <3>1. e = d /\ report'[d].of = Message(p)
      BY <2>1, <2>3
    <3>. QED BY <2>1, <3>1 DEF Speaks, Message
  <2>. QED BY <2>2, <2>3
<1>3. CASE LosePost
  BY <1>3 DEF LosePost, Speaks
<1>4. ASSUME NEW e \in Devices, Record(e) \/ Reread(e) PROVE Speaks(d, s, n, o)
  <2>1. report[e] \in [at : {"recording", "rereading"}, of : Said]
    BY <1>4 DEF Record, Reread, ReportStates, Idle
  <2>2. /\ posts' = posts
        /\ \/ report' = [report EXCEPT ![e] = Idle]
           \/ report' = [report EXCEPT ![e].at = "rereading"]
    BY <1>4 DEF Record, Reread
  <2>. QED BY <2>1, <2>2 DEF Speaks, Idle
<1>5. CASE Tick
  <2>1. posts' = {[p EXCEPT !.left = @ - 1] : p \in posts} /\ report' = report
    BY <1>5 DEF Tick
  <2>2. CASE report[d].at # "idle" /\ report[d].of.job = s /\ report[d].of.nonce = n
             /\ report[d].of.outcome = o
    BY <2>2 DEF Speaks
  <2>3. ASSUME NEW q \in posts', q.device = d, q.job = s, q.nonce = n, q.outcome = o
        PROVE  Speaks(d, s, n, o)
    <3>1. PICK p \in posts : q = [p EXCEPT !.left = @ - 1]
      BY <2>1
    <3>2. p.device = d /\ p.job = s /\ p.nonce = n /\ p.outcome = o
      BY <2>3, <3>1 DEF Posted
    <3>. QED BY <3>2 DEF Speaks
  <2>. QED BY <2>1, <2>2, <2>3 DEF Speaks
<1>. QED
  BY <1>1, <1>2, <1>3, <1>4, <1>5
     DEF Next, vars, Owner, Runner, Serve, Look, Enqueue, OpenPairing, Revoke, Pair, Poll,
         HearJob, Choose, Claim, Discard, Restart, LosePoll

\* A job ends with a result that is being handled, or under the lease of a claim whose
\* payload cannot be read.
LEMMA Ends ==
  ASSUME Typed, RowsAgree, [Next]_vars, NEW s \in Submissions, Ended(s)', job'[s] # job[s]
  PROVE  \E d \in Devices, n \in Nat :
             /\ job'[s].result.nonce = n
             /\ \/ /\ \E o \in Outcomes : Speaks(d, s, n, o) /\ job'[s].result.outcome = o
                   /\ job'[s].result.device = d /\ Record(d)
                \/ InHand(d, s, n) /\ Discard(d)
<1>. USE DEF Typed
<1>0. job'[s].state \in Outcomes
  BY DEF Ended
<1>1. ASSUME NEW d \in Devices, Record(d)
      PROVE  \E n \in Nat, o \in Outcomes :
                 /\ job'[s].result.nonce = n /\ job'[s].result.outcome = o
                 /\ Speaks(d, s, n, o) /\ job'[s].result.device = d
  <2>. DEFINE m == report[d].of
  <2>1. m \in Said /\ report[d].at = "recording"
    BY <1>1, RequestsTyped DEF Record
  <2>2. job' = Recorded(m.job, m.outcome,
                   [nonce |-> m.nonce, device |-> d, outcome |-> m.outcome])
    BY <1>1 DEF Record
  <2>3. m.job = s
    BY <2>2 DEF Recorded
  <2>4. job'[s].result = [nonce |-> m.nonce, device |-> d, outcome |-> m.outcome]
    BY <2>2, <2>3 DEF Recorded
  <2>5. Speaks(d, s, m.nonce, m.outcome) /\ m.nonce \in Nat /\ m.outcome \in Outcomes
    BY <2>1, <2>3 DEF Speaks, Said
  <2>. QED BY <2>4, <2>5
<1>2. ASSUME NEW d \in Devices, Discard(d)
      PROVE  \E n \in Nat : job'[s].result.nonce = n /\ InHand(d, s, n)
  <2>1. lease[d].at = "discarding" /\ lease[d].nonce \in Nat
    BY <1>2, RequestsTyped DEF Discard
  <2>2. job' = Recorded(lease[d].job, "infrastructure_error",
                   [nonce |-> lease[d].nonce, device |-> None,
                    outcome |-> "infrastructure_error"])
    BY <1>2 DEF Discard
  <2>3. lease[d].job = s
    BY <2>2 DEF Recorded
  <2>4. job'[s].result.nonce = lease[d].nonce
    BY <2>2, <2>3 DEF Recorded
  <2>. QED BY <2>1, <2>3, <2>4 DEF InHand
<1>3. ~(\E r \in Submissions : Enqueue(r))
  BY <1>0 DEF Enqueue, NewJob, Queued, Outcomes
<1>4. ~(\E d \in Devices : Revoke(d))
  <2>1. ASSUME NEW d \in Devices, Revoke(d) PROVE FALSE
    <3>1. job'[s] = Released(d)[s]
      BY <2>1 DEF Revoke
    <3>2. FreeRow(s).state = "queued"
      BY DEF FreeRow, Queued
    <3>. QED BY <1>0, <3>1, <3>2, ReleasedIs DEF Outcomes
  <2>. QED BY <2>1
<1>5. ~(\E d \in Devices : Claim(d))
  <2>1. ASSUME NEW d \in Devices, Claim(d) PROVE FALSE
    <3>1. job' = job \/ job' = Claimed(lease[d].job, d)
      BY <2>1 DEF Claim
    <3>2. job' = Claimed(lease[d].job, d) => job'[s] = job[s] \/ job'[s].state = "leased"
      BY DEF Claimed
    <3>. QED BY <1>0, <3>1, <3>2 DEF Outcomes
  <2>. QED BY <2>1
<1>6. ~Tick
  <2>1. ASSUME Tick PROVE FALSE
    <3>1. job[s] \in JobRow /\ RowAgrees(s)
      BY DEF RowsAgree
    <3>2. job[s].left > 0 /\ job'[s].state = job[s].state
      BY <2>1, <3>1 DEF Tick, JobRow
    <3>. QED BY <1>0, <3>1, <3>2 DEF RowAgrees, Outcomes
  <2>. QED BY <2>1
<1>. QED
  BY <1>1, <1>2, <1>3, <1>4, <1>5, <1>6
     DEF Next, vars, Owner, Runner, Serve, Look, OpenPairing, Pair, Poll, HearJob, Post,
         Choose, Restart, LosePoll, Receive, Reread, LosePost

\* A runner does not work while it polls.
LEMMA PollsIdle ==
  ASSUME Typed, HandsAgree, [Next]_vars, NEW d \in Devices, lease'[d].at # "idle"
  PROVE  runner'[d].at # "working"
<1>. USE DEF Typed
<1>1. lease[d].at # "idle" => runner[d].at # "working"
  BY DEF HandsAgree
<1>2. CASE lease'[d] = lease[d] /\ runner'[d] = runner[d]
  BY <1>1, <1>2
<1>3. ASSUME NEW e \in Devices,
             Pair(e) \/ Poll(e) \/ Post(e) \/ Restart(e) \/ LosePoll(e) \/ Choose(e)
      PROVE  runner'[d].at # "working"
  BY <1>1, <1>3 DEF Pair, Poll, Post, Restart, LosePoll, Choose, Idle, Asleep
<1>4. ASSUME NEW e \in Devices, HearJob(e) PROVE runner'[d].at # "working"
  BY <1>1, <1>4 DEF HearJob, Idle
<1>5. ASSUME NEW e \in Devices, Claim(e) \/ Discard(e) PROVE runner'[d].at # "working"
  BY <1>1, <1>5 DEF Claim, Discard
<1>6. CASE Tick
  BY <1>6 DEF Tick, Idle
<1>. QED
  BY <1>2, <1>3, <1>4, <1>5, <1>6
     DEF Next, vars, Owner, Runner, Serve, Look, Enqueue, OpenPairing, Revoke, Receive, Record,
         Reread, LosePost

\* Whoever posts, or discards, has no other hand to hold the lease in.
LEMMA HandsEmpty ==
  ASSUME Typed, HandsAgree, NEW d \in Devices, NEW s \in Submissions, NEW n \in Nat,
         Post(d) \/ Discard(d)
  PROVE  ~InHand(d, s, n)'
BY DEF Typed, HandsAgree, Post, Discard, Idle, Asleep, InHand

LEMMA HandsAgreeStep ==
  ASSUME Typed, RowsAgree, HandsAgree, ResultsAgree, [Next]_vars
  PROVE  HandsAgree'
<1>1. \A d, e \in Devices, s \in Submissions, n \in Nat :
          InHand(d, s, n)' /\ InHand(e, s, n)' => d = e
  <2>. SUFFICES ASSUME NEW d \in Devices, NEW e \in Devices, NEW s \in Submissions, NEW n \in Nat,
                       InHand(d, s, n)', InHand(e, s, n)'
                PROVE  d = e
    OBVIOUS
  <2>1. job[s].claims \in Nat
    BY ClaimsGrow
  <2>2. \/ InHand(d, s, n)
        \/ n = job[s].claims + 1 /\ job'[s].holder = d
    BY HandMoves
  <2>3. \/ InHand(e, s, n)
        \/ n = job[s].claims + 1 /\ job'[s].holder = e
    BY HandMoves
  <2>4. \A c \in Devices : InHand(c, s, n) => n # job[s].claims + 1
    BY <2>1 DEF HandsAgree
  <2>. QED BY <2>2, <2>3, <2>4 DEF HandsAgree
<1>2. ASSUME NEW d \in Devices, NEW s \in Submissions, NEW n \in Nat, InHand(d, s, n)'
      PROVE  /\ n <= job'[s].claims
             /\ \A e \in Devices, o \in Outcomes : ~Speaks(e, s, n, o)'
             /\ Ended(s)' => job'[s].result.nonce # n
  <2>1. /\ job[s].claims \in Nat /\ job'[s].claims \in Nat
        /\ job[s].claims <= job'[s].claims
    BY ClaimsGrow
  <2>2. \A e \in Devices, o \in Outcomes : ~Speaks(e, s, n, o)
    <3>1. CASE InHand(d, s, n)
      BY <3>1 DEF HandsAgree
    <3>2. CASE n = job[s].claims + 1
      BY <2>1, <3>2 DEF ResultsAgree
    <3>. QED BY <1>2, <3>1, <3>2, HandMoves
  <2>3. \A e \in Devices : InHand(e, s, n) => e = d /\ InHand(d, s, n)
    <3>1. CASE InHand(d, s, n)
      BY <3>1 DEF HandsAgree
    <3>2. CASE n = job[s].claims + 1
      BY <2>1, <3>2 DEF HandsAgree
    <3>. QED BY <1>2, <3>1, <3>2, HandMoves
  <2>4. n <= job'[s].claims
    BY <1>2, <2>1, HandMoves DEF HandsAgree
  <2>5. ASSUME NEW e \in Devices, NEW o \in Outcomes, Speaks(e, s, n, o)' PROVE FALSE
    <3>1. PICK c \in Devices : Post(c)
      BY <2>2, <2>5, SpeaksMoves
    <3>2. Speaks(e, s, n, o) \/ (s = runner[c].job /\ n = runner[c].nonce)
      <4>1. PICK outcome \in Reports :
              \A b \in Devices, t \in Submissions, k \in Nat, q \in Outcomes :
                 Speaks(b, t, k, q)' => \/ Speaks(b, t, k, q)
                                        \/ /\ b = c /\ t = runner[c].job
                                           /\ k = runner[c].nonce /\ q = outcome
        BY <3>1, PostSpeaks
      <4>. QED BY <2>5, <4>1
    <3>3. runner[c].at = "working"
      BY <3>1 DEF Post
    <3>4. InHand(c, s, n)
      BY <2>2, <2>5, <3>2, <3>3 DEF InHand
    <3>5. c = d
      BY <2>3, <3>4
    <3>. QED BY <1>2, <3>1, <3>5, HandsEmpty
  <2>6. ASSUME Ended(s)', job'[s].result.nonce = n PROVE FALSE
    <3>1. CASE job'[s] = job[s]
      <4>1. InHand(d, s, n)
        BY <1>2, <2>6, HandMoves DEF Ended, Outcomes
      <4>. QED BY <2>6, <3>1, <4>1 DEF HandsAgree, Ended
    <3>2. CASE job'[s] # job[s]
      <4>1. PICK e \in Devices : \/ \E o \in Outcomes : Speaks(e, s, n, o)
                                 \/ InHand(e, s, n) /\ Discard(e)
        BY <2>6, <3>2, Ends
      <4>2. e = d /\ Discard(d)
        BY <2>2, <2>3, <4>1
      <4>. QED BY <1>2, <4>2, HandsEmpty
    <3>. QED BY <3>1, <3>2
  <2>. QED BY <2>4, <2>5, <2>6
<1>3. \A d \in Devices : lease'[d].at # "idle" => runner'[d].at # "working"
  BY PollsIdle
<1>. QED BY <1>1, <1>2, <1>3 DEF HandsAgree

LEMMA ResultsAgreeStep ==
  ASSUME Typed, RowsAgree, HandsAgree, ResultsAgree, [Next]_vars
  PROVE  ResultsAgree'
<1>1. CASE \A c \in Devices : ~Post(c)
  <2>1. \A d \in Devices, s \in Submissions, n \in Nat, o \in Outcomes :
            Speaks(d, s, n, o)' => Speaks(d, s, n, o)
    BY <1>1, SpeaksMoves
  <2>2. ASSUME NEW d \in Devices, NEW s \in Submissions, NEW n \in Nat, NEW o \in Outcomes,
               Speaks(d, s, n, o)'
        PROVE  /\ n <= job'[s].claims /\ o \in Reports
               /\ Ended(s)' /\ job'[s].result.nonce = n =>
                      job'[s].result.device = d /\ job'[s].result.outcome = o
    <3>1. Speaks(d, s, n, o)
      BY <2>1, <2>2
    <3>2. n <= job'[s].claims /\ o \in Reports
      BY <3>1, KnownStays DEF ResultsAgree
    <3>3. ASSUME Ended(s)', job'[s].result.nonce = n
          PROVE  job'[s].result.device = d /\ job'[s].result.outcome = o
      <4>1. CASE job'[s] = job[s]
        BY <3>1, <3>3, <4>1 DEF ResultsAgree, Ended
      <4>2. CASE job'[s] # job[s]
        <5>1. PICK e \in Devices :
                \/ /\ \E u \in Outcomes : Speaks(e, s, n, u) /\ job'[s].result.outcome = u
                   /\ job'[s].result.device = e
                \/ InHand(e, s, n)
          BY <3>3, <4>2, Ends
        <5>2. ~InHand(e, s, n)
          BY <3>1 DEF HandsAgree
        <5>. QED BY <3>1, <5>1, <5>2 DEF ResultsAgree
      <4>. QED BY <4>1, <4>2
    <3>. QED BY <3>2, <3>3
  <2>. QED BY <2>1, <2>2 DEF ResultsAgree
<1>2. ASSUME NEW c \in Devices, Post(c) PROVE ResultsAgree'
  <2>. DEFINE r == runner[c].job
              v == runner[c].nonce
  <2>1. PICK outcome \in Reports :
          \A e \in Devices, s \in Submissions, n \in Nat, o \in Outcomes :
             Speaks(e, s, n, o)' => \/ Speaks(e, s, n, o)
                                    \/ e = c /\ s = r /\ n = v /\ o = outcome
    BY <1>2, PostSpeaks
  <2>2. r \in Submissions /\ v \in Nat /\ InHand(c, r, v) /\ job' = job
    BY <1>2, RequestsTyped DEF Post, InHand
  <2>. HIDE DEF r, v
  <2>3. /\ v <= job[r].claims
        /\ \A e \in Devices, o \in Outcomes : ~Speaks(e, r, v, o)
        /\ Ended(r) => job[r].result.nonce # v
    BY <2>2 DEF HandsAgree
  <2>4. ASSUME NEW d \in Devices, NEW s \in Submissions, NEW n \in Nat, NEW o \in Outcomes,
               Speaks(d, s, n, o)'
        PROVE  /\ n <= job[s].claims /\ o \in Reports
               /\ Ended(s) /\ job[s].result.nonce = n =>
                      job[s].result.device = d /\ job[s].result.outcome = o
    BY <2>1, <2>3, <2>4 DEF ResultsAgree
  <2>5. ASSUME NEW d \in Devices, NEW e \in Devices, NEW s \in Submissions, NEW n \in Nat,
               NEW o \in Outcomes, NEW u \in Outcomes,
               Speaks(d, s, n, o)', Speaks(e, s, n, u)'
        PROVE  d = e /\ o = u
    BY <2>1, <2>3, <2>5 DEF ResultsAgree
  <2>. QED BY <2>2, <2>4, <2>5 DEF ResultsAgree, Ended
<1>. QED BY <1>1, <1>2

-----------------------------------------------------------------------------
(* The theorems *)

IInv == Typed /\ RowsAgree /\ KnownNonces /\ RevokedAreUnheard

LEMMA InitIInv == Init => IInv
<1>. SUFFICES ASSUME Init PROVE IInv OBVIOUS
<1>1. \A s \in Submissions :
        job[s] = [state |-> "none", holder |-> None, nonce |-> 0, left |-> 0,
                  claims |-> 0, result |-> None]
  BY DEF Init, NewJob, Queued
<1>2. job \in [Submissions -> JobRow]
  <2>1. \A s \in Submissions : job[s] \in JobRow
    BY <1>1, DurationsAssumption DEF JobRow, States
  <2>2. job = [s \in Submissions |-> job[s]]
    BY DEF Init
  <2>. QED BY <2>1, <2>2, Zenon
<1>3. Typed
  BY <1>2, DurationsAssumption DEF Init, Typed, RunnerStates, LeaseStates, ReportStates
<1>4. RowsAgree
  BY <1>1 DEF RowsAgree, RowAgrees, Ended, Outcomes
<1>5. KnownNonces /\ RevokedAreUnheard
  BY DEF Init, KnownNonces, RevokedAreUnheard, Idle
<1>. QED BY <1>3, <1>4, <1>5 DEF IInv

\* The invariant the rest follows from: it holds at first, and every step keeps it.
THEOREM InductiveInvariant == Spec => []IInv
<1>1. IInv /\ [Next]_vars => IInv'
  BY TypedStep, RowsAgreeStep, KnownNoncesStep, RevokedAreUnheardStep DEF IInv
<1>. QED BY <1>1, InitIInv, PTL DEF Spec

\* Every column has its type, and the columns of a row agree with its state.
THEOREM TypeCorrect == Spec => []TypeOK
<1>1. IInv => TypeOK
  <2>1. SUFFICES ASSUME IInv PROVE TypeOK
    OBVIOUS
  <2>2. ASSUME NEW s \in Submissions
        PROVE  /\ job[s].state \in States
               /\ job[s].left \in 0..Lease
               /\ job[s].nonce \in 0..job[s].claims
               /\ job[s].state = "leased" <=> job[s].nonce > 0
               /\ job[s].state = "leased" => job[s].holder \in Devices
               /\ Ended(s) <=> job[s].result # None
    <3>1. job[s] \in JobRow /\ RowAgrees(s)
      BY <2>1 DEF IInv, Typed, RowsAgree
    <3>. QED BY <3>1, NoneAssumption DEF JobRow, RowAgrees
  <2>. QED BY <2>1, <2>2 DEF IInv, Typed, TypeOK
<1>. QED BY <1>1, InductiveInvariant, PTL

\* The result of a job is that of its last lease, whatever its earlier runners send.
THEOREM ResultsAreOfTheLastLease == Spec => []ResultOfLastLease
<1>1. IInv => ResultOfLastLease
  BY DEF IInv, RowsAgree, RowAgrees, ResultOfLastLease
<1>. QED BY <1>1, InductiveInvariant, PTL

\* No step changes the row of a job that ended.
THEOREM EndedJobsStay == Spec => EndedStays
<1>1. IInv /\ [Next]_vars => \A s \in Submissions : Ended(s) => job'[s] = job[s]
  <2>1. SUFFICES ASSUME IInv, [Next]_vars, NEW s \in Submissions, Ended(s)
                 PROVE  job'[s] = job[s]
    OBVIOUS
  <2>2. job[s].state \in Outcomes /\ job[s].left = 0 /\ console[s] = "done"
    BY <2>1 DEF IInv, RowsAgree, RowAgrees, Ended, Outcomes
  <2>3. ~Queues(s) /\ ~Frees(s) /\ ~Claims(s) /\ ~Records(s) /\ ~Ages(s)
    BY <2>2 DEF Queues, Frees, Claims, Claimable, Records, Ages, Outcomes
  <2>. QED BY <2>1, <2>3, JobMoves DEF IInv
<1>. QED BY <1>1, InductiveInvariant, PTL DEF Spec, EndedStays

\* The device whose result is recorded is not revoked when it is.
THEOREM RevokedDevicesPostNothing == Spec => RevokedPostsNothing
<1>1. IInv /\ [Next]_vars =>
        \A s \in Submissions :
          (~Ended(s) /\ Ended(s)' /\ job'[s].result.device \in Devices)
              => device[job'[s].result.device] = "active"
  <2>1. SUFFICES ASSUME IInv, [Next]_vars, NEW s \in Submissions,
                        ~Ended(s), Ended(s)', job'[s].result.device \in Devices
                 PROVE  device[job'[s].result.device] = "active"
    OBVIOUS
  <2>2. job'[s].state \in Outcomes /\ job[s].state \notin Outcomes
    BY <2>1 DEF Ended
  <2>3. job'[s] # job[s] /\ ~Queues(s) /\ ~Frees(s) /\ ~Claims(s)
    <3>1. job'[s].state \notin {"queued", "leased"} /\ job'[s] # job[s]
      BY <2>2 DEF Outcomes
    <3>2. ~Queues(s)
      BY <3>1 DEF Queues, NewJob, Queued
    <3>3. ~Frees(s)
      BY <3>1 DEF Frees, FreeRow, Queued
    <3>4. ~Claims(s)
      <4>1. \A d \in Devices : ClaimedRow(s, d).state = "leased"
        BY DEF ClaimedRow
      <4>. QED BY <3>1, <4>1, Zenon DEF Claims
    <3>. QED BY <3>1, <3>2, <3>3, <3>4
  <2>4. ~Ages(s)
    <3>1. job[s] \in JobRow
      BY <2>1 DEF IInv, Typed
    <3>. QED BY <2>2, <3>1 DEF Ages, JobRow
  <2>5. Records(s)
    BY <2>1, <2>3, <2>4, JobMoves DEF IInv
  <2>6. PICK d \in Devices : job'[s].result.device = d /\ Heard(s, d)
    BY <2>1, <2>5, NoneAssumption DEF Records, RecordedRow
  <2>. QED BY <2>1, <2>6 DEF Heard, IInv, RevokedAreUnheard
<1>. QED BY <1>1, InductiveInvariant, PTL DEF Spec, RevokedPostsNothing

\* Where no report a runner makes is cut, "duplicate" is said of the result that counts and
\* of nothing else, whatever is lost, late or repeated.
THEOREM ReplaysAreKnown ==
  ASSUME Reports \cap Long = {}
  PROVE  Spec => []ReplayIsKnown
<1>. DEFINE J == Typed /\ RowsAgree /\ HandsAgree /\ ResultsAgree
<1>1. Init => J
  <2>1. Init => Typed /\ RowsAgree
    BY InitIInv DEF IInv
  <2>2. Init => HandsAgree /\ ResultsAgree
    BY DEF Init, HandsAgree, ResultsAgree, InHand, Speaks, Idle
  <2>. QED BY <2>1, <2>2
<1>2. J /\ [Next]_vars => J'
  BY TypedStep, RowsAgreeStep, HandsAgreeStep, ResultsAgreeStep
<1>3. J => ReplayIsKnown
  <2>. SUFFICES ASSUME J, NEW d \in Devices, report[d].at = "rereading",
                       NEW m, m = report[d].of
                PROVE  Replayed(m) <=>
                           /\ job[m.job].result # None
                           /\ job[m.job].result =
                                  [nonce |-> m.nonce, device |-> d, outcome |-> m.outcome]
    BY DEF ReplayIsKnown
  <2>1. m.job \in Submissions /\ m.nonce \in Nat /\ m.outcome \in Outcomes
    BY RequestsTyped DEF Said
  <2>2. Speaks(d, m.job, m.nonce, m.outcome)
    BY DEF Speaks
  <2>3. RowAgrees(m.job) /\ m.outcome \in Reports
    BY <2>1, <2>2 DEF RowsAgree, ResultsAgree
  <2>4. ASSUME Replayed(m)
        PROVE  /\ job[m.job].result # None
               /\ job[m.job].result =
                      [nonce |-> m.nonce, device |-> d, outcome |-> m.outcome]
    <3>1. Ended(m.job) /\ job[m.job].result.nonce = m.nonce
      BY <2>4 DEF Replayed, Ended
    <3>2. job[m.job].result.device = d /\ job[m.job].result.outcome = m.outcome
      BY <2>1, <2>2, <3>1 DEF ResultsAgree
    <3>3. job[m.job].result \in Results
      BY <2>3, <3>1 DEF RowAgrees
    <3>4. None \notin Results
      BY NoneAssumption
    <3>. QED BY <3>1, <3>2, <3>3, <3>4 DEF Results
  <2>5. ASSUME job[m.job].result # None,
               job[m.job].result = [nonce |-> m.nonce, device |-> d, outcome |-> m.outcome]
        PROVE  Replayed(m)
    BY <2>3, <2>5 DEF RowAgrees, Ended, Replayed
  <2>. QED BY <2>4, <2>5
<1>. QED BY <1>1, <1>2, <1>3, PTL DEF Spec
=============================================================================
