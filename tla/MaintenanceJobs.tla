-------------------------- MODULE MaintenanceJobs --------------------------
(***************************************************************************)
(* Maintenance jobs: the owner queues a job, a runner on the owner's       *)
(* machine leases it, runs it and posts its result                         *)
(* (apps/app/src/maintenance, tools/maintenance-runner/runner.mjs).  The   *)
(* lease is a nonce in the job's row with an expiry; whoever claims the    *)
(* row next replaces it.  Requests and answers may be lost, delayed and    *)
(* repeated, a runner may die with a lease, a device may be revoked at any *)
(* moment.                                                                 *)
(*                                                                         *)
(* Time only ever counts down: what is left of a lease, of a runner's work *)
(* and of a signed request.  Presence (heartbeats) only labels a queued    *)
(* job, and every job of the owner's panel has one priority, so neither is *)
(* kept; a pairing code that expires is one that is never redeemed.        *)
(***************************************************************************)
EXTENDS Integers, FiniteSets

CONSTANTS
    Devices,
    Submissions,  \* the owner's clicks; one makes at most one job
    Instant,      \* the instant of each, the created_at of its job
    Unreadable,   \* those whose stored payload a later build no longer accepts
    Lease,        \* LEASE_SECONDS
    Work, Overrun, \* how long a runner works at a job, and at one that takes too long
    Tolerance,    \* RUNNER_TIMESTAMP_TOLERANCE_SECONDS
    Attempts,     \* claims a lease request tries
    Reports,      \* the outcomes a runner reports
    Long,         \* those whose report is over MAX_RESULT_CHARS
    MaxFaults, MaxRevoked,  \* bounds: mishaps, and devices the owner revokes
    None

ASSUME DurationsAssumption ==
    /\ {Lease, Work, Overrun, Tolerance, Attempts} \subseteq Nat \ {0}
    /\ {MaxFaults, MaxRevoked} \subseteq Nat

VARIABLES
    device,   \* runner_devices: the status
    job,      \* maintenance_jobs
    console,  \* each submission: idle, looked, done
    runner,   \* each runner's program
    lease,    \* POST /lease, as the application handles it
    posts,    \* results on their way: a request may arrive late, twice or never
    report,   \* POST /jobs/:id/result, as the application handles it
    faults

vars == <<device, job, console, runner, lease, posts, report, faults>>

Outcomes == {"passed", "failed", "timed_out", "infrastructure_error"}
States == {"none", "queued", "leased"} \cup Outcomes
Results == [nonce : Nat, device : Devices \cup {None}, outcome : Outcomes]

ASSUME ReportsAssumption == Reports \subseteq Outcomes
ASSUME NoneAssumption == None \notin Devices /\ None \notin Results

-----------------------------------------------------------------------------
(* maintenance/store.ts *)

\* A job in the queue, for the first time or again.
Queued(claims, result) ==
    [state |-> "queued", holder |-> None, nonce |-> 0, left |-> 0,
     claims |-> claims, result |-> result]
NewJob == Queued(0, None)

\* Mutants: an expired lease is not looked at; the state of its row is not.
ClaimableQueued(s) == job[s].state = "queued"

ClaimableExpired(s) == job[s].state = "queued" \/ (job[s].state # "none" /\ job[s].left = 0)

\* nextCandidate and claim state it alike.
Claimable(s) == job[s].state = "queued" \/ (job[s].state = "leased" /\ job[s].left = 0)

\* claim: a fresh nonce, newId('lse').
Claimed(s, d) ==
    [job EXCEPT ![s] = [state |-> "leased", holder |-> d, nonce |-> @.claims + 1,
                        left |-> Lease, claims |-> @.claims + 1, result |-> @.result]]

\* Mutant: any lease of the device will do.
HoldsAny(s, d, nonce) == job[s].state = "leased" /\ job[s].holder = d

\* recordResult: bound to the device and the nonce of the lease.
Holds(s, d, nonce) ==
    job[s].state = "leased" /\ job[s].holder = d /\ job[s].nonce = nonce
Recorded(s, outcome, result) ==
    [job EXCEPT ![s] = [state |-> outcome, holder |-> @.holder, nonce |-> 0, left |-> 0,
                        claims |-> @.claims, result |-> result]]

\* Mutant: the device is revoked and keeps what it holds.
ReleasedNothing(d) == job

\* revoke: the device and whatever it was holding, in one batch.
Released(d) ==
    [s \in Submissions |->
        IF job[s].state = "leased" /\ job[s].holder = d
        THEN Queued(job[s].claims, job[s].result)
        ELSE job[s]]

-----------------------------------------------------------------------------
(* The owner: maintenance/ownerPort.ts, enqueueJob of maintenance/jobs.ts. *)

\* enqueue looks for a job of the same instant, then inserts.
Look(s) ==
    /\ console[s] = "idle"
    /\ console' = [console EXCEPT ![s] =
           IF \E r \in Submissions : job[r].state # "none" /\ Instant[r] = Instant[s]
           THEN "done" ELSE "looked"]
    /\ UNCHANGED <<device, job, runner, lease, posts, report, faults>>

Enqueue(s) ==
    /\ console[s] = "looked"
    /\ console' = [console EXCEPT ![s] = "done"]
    /\ job' = [job EXCEPT ![s] = NewJob]
    /\ UNCHANGED <<device, runner, lease, posts, report, faults>>

OpenPairing(d) ==
    /\ device[d] = "none"
    /\ device' = [device EXCEPT ![d] = "pending_pair"]
    /\ UNCHANGED <<job, console, runner, lease, posts, report, faults>>

Revoke(d) ==
    /\ device[d] \in {"pending_pair", "active"}
    /\ Cardinality({c \in Devices : device[c] = "revoked"}) < MaxRevoked
    /\ device' = [device EXCEPT ![d] = "revoked"]
    /\ job' = Released(d)
    /\ UNCHANGED <<console, runner, lease, posts, report, faults>>

-----------------------------------------------------------------------------
(* The runner: pair and run of runner.mjs. *)

Idle == [at |-> "idle"]
Asleep == [at |-> "asleep"]  \* between two polls

\* completePairing: a code is redeemed once, in its time.
Pair(d) ==
    /\ runner[d].at = "unpaired"
    /\ device[d] = "pending_pair"
    /\ device' = [device EXCEPT ![d] = "active"]
    /\ runner' = [runner EXCEPT ![d] = Idle]
    /\ UNCHANGED <<job, console, lease, posts, report, faults>>

\* authenticateRunner reads the device before anything else; a runner that is
\* refused stops.
Poll(d) ==
    /\ runner[d].at = "idle" /\ lease[d].at = "idle"
    /\ IF device[d] = "active"
       THEN /\ lease' = [lease EXCEPT ![d] = [at |-> "choosing", tries |-> Attempts]]
            /\ UNCHANGED runner
       ELSE /\ runner' = [runner EXCEPT ![d] = [at |-> "stopped"]]
            /\ UNCHANGED lease
    /\ UNCHANGED <<device, job, console, posts, report, faults>>

\* The answer to the poll, read by the runner.  A job may outlive its lease:
\* runCommand stops one after 15 minutes and a coding agent after 20.
HearJob(d) ==
    /\ lease[d].at = "answered"
    /\ \E slow \in {0, 1} :
           /\ faults + slow <= MaxFaults
           /\ faults' = faults + slow
           /\ runner' = [runner EXCEPT ![d] =
                  [at |-> "working", job |-> lease[d].job, nonce |-> lease[d].nonce,
                   left |-> IF slow = 1 THEN Overrun ELSE Work]]
    /\ lease' = [lease EXCEPT ![d] = Idle]
    /\ UNCHANGED <<device, job, console, posts, report>>

\* The result is sent once: a runner that hears no answer polls again.
Post(d) ==
    /\ runner[d].at = "working" /\ runner[d].left = 0
    /\ \E outcome \in Reports :
           posts' = posts \cup {[device |-> d, job |-> runner[d].job, nonce |-> runner[d].nonce,
                                 outcome |-> outcome, left |-> Tolerance]}
    /\ runner' = [runner EXCEPT ![d] = Asleep]
    /\ UNCHANGED <<device, job, console, lease, report, faults>>

\* The machine is switched off and on again, whatever it was doing.
Restart(d) ==
    /\ runner[d].at = "working" /\ faults < MaxFaults
    /\ runner' = [runner EXCEPT ![d] = Idle]
    /\ faults' = faults + 1
    /\ UNCHANGED <<device, job, console, lease, posts, report>>

\* The invocation dies or its answer is lost: "poll failed", and the runner
\* polls again.
LosePoll(d) ==
    /\ lease[d].at # "idle" /\ faults < MaxFaults
    /\ lease' = [lease EXCEPT ![d] = Idle]
    /\ runner' = [runner EXCEPT ![d] = Asleep]
    /\ faults' = faults + 1
    /\ UNCHANGED <<device, job, console, posts, report>>

-----------------------------------------------------------------------------
(* POST /lease: leaseOneJob. *)

\* nextCandidate: the oldest claimable job; or no work, or no attempt left.
Choose(d) ==
    LET candidates == {s \in Submissions : Claimable(s)} IN
    /\ lease[d].at = "choosing"
    /\ IF candidates = {} \/ lease[d].tries = 0
       THEN /\ lease' = [lease EXCEPT ![d] = Idle]
            /\ runner' = [runner EXCEPT ![d] = Asleep]
       ELSE /\ \E s \in candidates :
                   /\ \A r \in candidates : Instant[s] <= Instant[r]
                   /\ lease' = [lease EXCEPT ![d] =
                          [at |-> "claiming", job |-> s, tries |-> lease[d].tries]]
            /\ UNCHANGED runner
    /\ UNCHANGED <<device, job, console, posts, report, faults>>

\* The candidate was a hint; the claim states the condition again.
Claim(d) ==
    LET s == lease[d].job IN
    /\ lease[d].at = "claiming"
    /\ IF Claimable(s)
       THEN /\ job' = Claimed(s, d)
            /\ lease' = [lease EXCEPT ![d] =
                   IF s \in Unreadable
                   THEN [at |-> "discarding", job |-> s, nonce |-> job[s].claims + 1,
                         tries |-> lease[d].tries]
                   ELSE [at |-> "answered", job |-> s, nonce |-> job[s].claims + 1]]
       ELSE /\ lease' = [lease EXCEPT ![d] = [at |-> "choosing", tries |-> lease[d].tries - 1]]
            /\ UNCHANGED job
    /\ UNCHANGED <<device, console, runner, posts, report, faults>>

\* A payload that no longer validates: the job fails, and the next is tried.
Discard(d) ==
    LET s == lease[d].job IN
    /\ lease[d].at = "discarding"
    /\ job' = IF Holds(s, d, lease[d].nonce)
              THEN Recorded(s, "infrastructure_error",
                       [nonce |-> lease[d].nonce, device |-> None,
                        outcome |-> "infrastructure_error"])
              ELSE job
    /\ lease' = [lease EXCEPT ![d] = [at |-> "choosing", tries |-> lease[d].tries - 1]]
    /\ UNCHANGED <<device, console, runner, posts, report, faults>>

-----------------------------------------------------------------------------
(* POST /jobs/:id/result: authenticateRunner, then recordJobResult. *)

Message(p) == [job |-> p.job, nonce |-> p.nonce, outcome |-> p.outcome]

\* A device that is not active is answered 403.  A request may come twice.
Receive(d) ==
    /\ report[d] = Idle
    /\ \E p \in posts, again \in {0, 1} :
           /\ p.device = d
           /\ faults + again <= MaxFaults
           /\ faults' = faults + again
           /\ posts' = IF again = 1 THEN posts ELSE posts \ {p}
           /\ report' = IF device[d] = "active"
                        THEN [report EXCEPT ![d] = [at |-> "recording", of |-> Message(p)]]
                        ELSE report
    /\ UNCHANGED <<device, job, console, runner, lease>>

\* The runner sends a result once: what is lost is not sent again.
LosePost ==
    /\ faults < MaxFaults
    /\ \E p \in posts : posts' = posts \ {p}
    /\ faults' = faults + 1
    /\ UNCHANGED <<device, job, console, runner, lease, report>>

Record(d) ==
    LET m == report[d].of IN
    /\ report[d].at = "recording"
    /\ IF Holds(m.job, d, m.nonce)
       THEN /\ job' = Recorded(m.job, m.outcome,
                          [nonce |-> m.nonce, device |-> d, outcome |-> m.outcome])
            /\ report' = [report EXCEPT ![d] = Idle]
       ELSE /\ report' = [report EXCEPT ![d].at = "rereading"]
            /\ UNCHANGED job
    /\ UNCHANGED <<device, console, runner, lease, posts, faults>>

\* Mutant: any job that ended was ended by this result.
ReplayedEnded(m) == job[m.job].state \in Outcomes

\* A replay is known by the nonce in the stored report, which is cut at
\* MAX_RESULT_CHARS and cannot be parsed then.
Replayed(m) ==
    /\ job[m.job].state \in Outcomes
    /\ job[m.job].result.outcome \notin Long
    /\ job[m.job].result.nonce = m.nonce

\* The answer, "duplicate" or LEASE_MISMATCH, is all that comes of it.
Reread(d) ==
    /\ report[d].at = "rereading"
    /\ report' = [report EXCEPT ![d] = Idle]
    /\ UNCHANGED <<device, job, console, runner, lease, posts, faults>>

-----------------------------------------------------------------------------
\* A unit of time is minutes, so a request is handled within one; a result that
\* was not lost arrives within the tolerance of its timestamp.
Tick ==
    /\ \A d \in Devices : lease[d] = Idle /\ report[d] = Idle
    /\ \A d \in Devices : runner[d].at = "working" => runner[d].left > 0
    /\ \A p \in posts : p.left > 0
    /\ job' = [s \in Submissions |->
           IF job[s].left > 0 THEN [job[s] EXCEPT !.left = @ - 1] ELSE job[s]]
    /\ runner' = [d \in Devices |->
           CASE runner[d].at = "working" -> [runner[d] EXCEPT !.left = @ - 1]
             [] runner[d].at = "asleep" -> Idle
             [] OTHER -> runner[d]]
    /\ posts' = {[p EXCEPT !.left = @ - 1] : p \in posts}
    /\ UNCHANGED <<device, console, lease, report, faults>>

Init ==
    /\ device = [d \in Devices |-> "none"]
    /\ job = [s \in Submissions |-> [NewJob EXCEPT !.state = "none"]]
    /\ console = [s \in Submissions |-> "idle"]
    /\ runner = [d \in Devices |-> [at |-> "unpaired"]]
    /\ lease = [d \in Devices |-> Idle]
    /\ report = [d \in Devices |-> Idle]
    /\ posts = {} /\ faults = 0

Owner == \/ \E s \in Submissions : Look(s) \/ Enqueue(s)
         \/ \E d \in Devices : OpenPairing(d) \/ Revoke(d)
Runner(d) == Pair(d) \/ Poll(d) \/ HearJob(d) \/ Post(d)
Serve(d) == Choose(d) \/ Claim(d) \/ Discard(d)
Next == \/ Owner
        \/ \E d \in Devices : \/ Runner(d) \/ Serve(d) \/ Restart(d) \/ LosePoll(d)
                              \/ Receive(d) \/ Record(d) \/ Reread(d)
        \/ LosePost
        \/ Tick

Spec == Init /\ [][Next]_vars

\* The clock, a running runner and the application go on, and what is posted
\* is received unless it is lost.  The owner need not do anything.
Fairness ==
    /\ WF_vars(Tick)
    /\ \A s \in Submissions : WF_vars(Enqueue(s))
    /\ \A d \in Devices :
           /\ WF_vars(Poll(d) \/ HearJob(d) \/ Post(d))
           /\ WF_vars(Serve(d))
           /\ WF_vars(Receive(d) \/ Record(d) \/ Reread(d))

FairSpec == Spec /\ Fairness

-----------------------------------------------------------------------------
Ended(s) == job[s].state \in Outcomes

\* Every column holds what the schema allows; a leased row has a holder and a
\* nonce, and only a job that ended has a result.
TypeOK ==
    /\ device \in [Devices -> {"none", "pending_pair", "active", "revoked"}]
    /\ \A s \in Submissions :
           /\ job[s].state \in States
           /\ job[s].left \in 0..Lease
           /\ job[s].nonce \in 0..job[s].claims
           /\ job[s].state = "leased" <=> job[s].nonce > 0
           /\ job[s].state = "leased" => job[s].holder \in Devices
           /\ Ended(s) <=> job[s].result # None
    /\ console \in [Submissions -> {"idle", "looked", "done"}]
    /\ faults \in 0..MaxFaults

\* A job that ended stays as it ended: no later claim, expiry, revocation or
\* result of an earlier lease touches it.
EndedStays ==
    [][\A s \in Submissions : Ended(s) => job'[s] = job[s]]_vars

\* The result of a job comes from its last lease: of all the runners that ever
\* worked at it, the one whose lease was replaced or released is not heard.
ResultOfLastLease ==
    \A s \in Submissions : Ended(s) => job[s].result.nonce = job[s].claims

\* A result that arrives again is answered as the first time, and no other is:
\* "duplicate" is said of the result that counts and of nothing else.
ReplayIsKnown ==
    \A d \in Devices : report[d].at = "rereading" =>
        LET m == report[d].of
            r == job[m.job].result
        IN  Replayed(m) <=>
                r # None /\ r = [nonce |-> m.nonce, device |-> d, outcome |-> m.outcome]

\* A revoked device posts no result, though its request may be past
\* authentication when it is revoked.
RevokedPostsNothing ==
    [][\A s \in Submissions :
          (~Ended(s) /\ Ended(s)' /\ job'[s].result.device \in Devices)
              => device[job'[s].result.device] = "active"]_vars

\* While a runner is left, every job ends.
EveryJobEnds ==
    <>[](\/ \A d \in Devices : device[d] # "active" \/ runner[d].at = "stopped"
         \/ \A s \in Submissions : job[s].state = "none" \/ Ended(s))
=============================================================================
