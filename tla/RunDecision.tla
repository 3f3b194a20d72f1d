----------------------------- MODULE RunDecision -----------------------------
(***************************************************************************)
(* The two pure decisions the scheduler takes about a run: what the        *)
(* evidence says (decideRunStatus) and whether it is worth looking again    *)
(* (planNextObservation), and the way observeRun composes them.            *)
(*                                                                         *)
(* An observation is a record [results, gaps]: the set of assertion        *)
(* verdicts the evaluator returned and the set of connector error codes    *)
(* ("gaps") met on the way.  Displays, evidence references and labels are  *)
(* left out: neither decision reads them.                                  *)
(***************************************************************************)
EXTENDS Integers, FiniteSets

CONSTANTS
  MaxObservations,  \* LIMITS.MAX_OBSERVATIONS_PER_RUN
  Backoff,          \* backoffSeconds with its derived jitter, per observation count
  DeadlineGrace     \* DEADLINE_GRACE_SECONDS

ASSUME DecisionAssumption ==
  /\ MaxObservations \in Nat \ {0}
  /\ Backoff \in [1..MaxObservations -> Nat \ {0}]
  /\ DeadlineGrace \in Nat

\* SQL NULL in a time column.
NoTime == -1

RunStatus == {"PENDING", "VERIFIED", "FAILED", "UNVERIFIED"}
TERMINAL  == RunStatus \ {"PENDING"}

AssertionStatus == {"PENDING", "SUPPORTED", "CONTRADICTED", "UNKNOWN"}

ConnectorErrorCode ==
  {"AUTH_EXPIRED", "PERMISSION_MISSING", "NOT_FOUND", "RATE_LIMITED",
   "PROVIDER_UNAVAILABLE", "AMBIGUOUS_MATCH", "UNSUPPORTED_CAPABILITY",
   "INVALID_EVIDENCE"}

\* makeGap marks exactly these retryable.
Retryable(code) == code \in {"RATE_LIMITED", "PROVIDER_UNAVAILABLE"}

AUTHORITATIVE_ABSENCE_REASONS == {"RECORD_NOT_FOUND", "EVENT_NOT_OBSERVED"}

-----------------------------------------------------------------------------
(* decide.ts *)

Mandatory(results)  == {r \in results : r.mandatory}
Unresolved(results) == {r \in Mandatory(results) : r.status \in {"UNKNOWN", "PENDING"}}

Contradicted(results) == \E r \in Mandatory(results) : r.status = "CONTRADICTED"
AllSupported(results) == \A r \in Mandatory(results) : r.status = "SUPPORTED"

AuthoritativelyAbsent(results) ==
  /\ Unresolved(results) # {}
  /\ \A r \in Unresolved(results) : r.reason \in AUTHORITATIVE_ABSENCE_REASONS

\* decideRunStatus throws on an empty mandatory set; its callers test
\* Judgeable first and take the "rules unusable" path otherwise.
Judgeable(results) == Mandatory(results) # {}

DecideRunStatus(results, deadline, now, access, remaining) ==
  IF Contradicted(results) THEN "FAILED"
  ELSE IF AllSupported(results) THEN "VERIFIED"
  ELSE IF now < deadline /\ remaining > 0 THEN "PENDING"
  ELSE IF access /\ now >= deadline /\ AuthoritativelyAbsent(results) THEN "FAILED"
  ELSE "UNVERIFIED"

-----------------------------------------------------------------------------
(* schedule.ts *)

\* A gap no retry can cure.  makeGap never marks a terminal code retryable,
\* so the two tests of isTerminalGap amount to this one.
IsTerminalGap(code) == ~Retryable(code) /\ code # "NOT_FOUND"

\* observe.ts hands the planner the worst gap: a terminal one if there is one.
StopsLooking(gaps) == \E code \in gaps : IsTerminalGap(code)

PlanNextObservation(count, deadline, now, gaps) ==
  LET latestAllowed == deadline + DeadlineGrace
  IN  IF \/ count >= MaxObservations
         \/ StopsLooking(gaps)
         \/ now >= latestAllowed
         \/ now + Backoff[count] > latestAllowed
      THEN NoTime
      ELSE now + Backoff[count]

-----------------------------------------------------------------------------
(* observe.ts: how the two are composed *)

HasWorkingEvidenceAccess(gaps) == gaps \subseteq {"NOT_FOUND"}

\* Mutant: the budget alone decides whether an open run waits.
RemainingWhateverThePlan(count, plan) ==
  IF count > MaxObservations THEN 0 ELSE MaxObservations - count

\* Zero once the planner says it is pointless to look again.
ObservationsRemaining(count, plan) ==
  IF plan = NoTime \/ count > MaxObservations THEN 0 ELSE MaxObservations - count

\* What one completed observation concludes: `count` is the number of
\* observations made, this one included.
Judge(obs, count, deadline, now) ==
  LET plan == PlanNextObservation(count, deadline, now, obs.gaps)
  IN  [status |-> DecideRunStatus(obs.results, deadline, now,
                                  HasWorkingEvidenceAccess(obs.gaps),
                                  ObservationsRemaining(count, plan)),
       plan   |-> plan]
=============================================================================
