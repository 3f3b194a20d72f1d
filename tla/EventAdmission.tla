---------------------------- MODULE EventAdmission ----------------------------
(***************************************************************************)
(* POST /api/v1/events: concurrent requests ask the money question, then   *)
(* the customer's own controls, then write the run, its outbox row and one *)
(* unit of the period's allowance in one batch.  Authentication and        *)
(* parsing come before the first action here.                              *)
(***************************************************************************)
EXTENDS BillingPeriod, FiniteSets

CONSTANTS
  Events,      \* external event ids
  Payloads,    \* bodies an event id can come with
  Requests,    \* calls of the endpoint
  RunLimit,    \* entitlements.run_limit
  Ceilings,    \* values the customer's own ceiling takes, at least 1
  NoLimit,     \* ... and its absence
  NoRow,       \* no such row in entitlements
  NoRun        \* no such row in source_events and runs

ASSUME AdmissionAssumption ==
  /\ IsFiniteSet(Events) /\ Payloads # {}
  /\ RunLimit \in Nat
  /\ Ceilings \subseteq Nat \ {0} /\ NoLimit \notin Nat

VARIABLES
  now,         \* the day
  periodEnd,   \* subscriptions.current_period_end
  allowance,   \* the period's row in entitlements, under its day
  runs,        \* source_events with the run that hangs off each
  request      \* each call: how far it is and what it holds

Row == [consumed : Nat, reserved : Nat, updated : Days]
Run == [payload : Payloads, created : Days, period : Days,
        status : {"PENDING", "DECIDED", "FINAL", "EXPIRED"}]

ASSUME NullAssumption == NoRow \notin Row /\ NoRun \notin Run

Admitted(e) == runs[e] # NoRun
\* A row of source_events: admitted, and not yet removed by retention.
Stored(e)   == Admitted(e) /\ runs[e].status # "EXPIRED"

Used(row) == row.consumed + row.reserved

\* Mutant: the customer's ceiling is left to the check before the write.
WithinAllowance(row, ceiling) == Used(row) < RunLimit

\* The conditional of the reservation: room in the plan and under the ceiling.
Spare(row, ceiling) ==
  Used(row) < RunLimit /\ (ceiling # NoLimit => Used(row) < ceiling)

\* Mutant: a second body for an accepted id is answered like the first.
AnswerAny(e, payload) == "duplicate"

\* duplicateResult: the stored run, or a conflict when the body differs.
AnswerFor(e, payload) ==
  IF runs[e].payload = payload THEN "duplicate" ELSE "conflict"

IdleRequest == [pc |-> "idle"]
Answers == {"accepted", "duplicate", "conflict", "refused"}
RequestStates ==
  [pc : {"idle"}]
    \cup [pc : {"check"}, event : Events, payload : Payloads, at : Days]
    \cup [pc : {"controls"}, event : Events, payload : Payloads, at : Days, key : Days]
    \cup [pc : {"admit"}, event : Events, payload : Payloads, at : Days, key : Days,
          ceiling : Ceilings \cup {NoLimit}]
    \cup [pc : {"reread"}, event : Events, payload : Payloads]
    \cup [pc : {"answered"}, event : Events, payload : Payloads, answer : Answers]

Answered(q, answer) ==
  request' = [request EXCEPT ![q] =
    [pc |-> "answered", event |-> @.event, payload |-> @.payload, answer |-> answer]]

\* An id is not sent again once retention has removed its run: an event is
\* fresh for minutes and its run is kept for months.
Arrive(q, e, p) ==
  /\ request[q].pc = "idle" /\ (Admitted(e) => Stored(e))
  /\ request' = [request EXCEPT ![q] =
       [pc |-> "check", event |-> e, payload |-> p, at |-> now]]
  /\ UNCHANGED <<now, periodEnd, allowance, runs>>

\* checkAdmission: is there a row for the period, and a unit left in it?
Check(q) ==
  LET key == KeyAt(request[q].at, periodEnd)
  IN  /\ request[q].pc = "check"
      /\ IF allowance[key] # NoRow /\ Used(allowance[key]) < RunLimit
         THEN request' = [request EXCEPT ![q] =
                [pc |-> "controls", event |-> @.event, payload |-> @.payload,
                 at |-> @.at, key |-> key]]
         ELSE Answered(q, "refused")
      /\ UNCHANGED <<now, periodEnd, allowance, runs>>

\* The subscription is not served, or the plan cannot be read, or the
\* customer has paused the workflow and the event is a new one.
Refuse(q) ==
  /\ \/ request[q].pc = "check"
     \/ request[q].pc = "controls" /\ ~Stored(request[q].event)
  /\ Answered(q, "refused")
  /\ UNCHANGED <<now, periodEnd, allowance, runs>>

\* checkCustomerAdmissionControls: a replay passes, and carries no ceiling.
PassControls(q, ceiling) ==
  LET r   == request[q]
      row == allowance[r.key]
  IN  /\ r.pc = "controls"
      /\ Stored(r.event) => ceiling = NoLimit
      /\ IF ceiling # NoLimit /\ row # NoRow => Used(row) < ceiling
         THEN request' = [request EXCEPT ![q] =
                [pc |-> "admit", event |-> r.event, payload |-> r.payload,
                 at |-> r.at, key |-> r.key, ceiling |-> ceiling]]
         ELSE Answered(q, "refused")
      /\ UNCHANGED <<now, periodEnd, allowance, runs>>

\* sourceEvents.admitOnce, the event known already.
AdmitKnown(q) ==
  LET r == request[q]
  IN  /\ r.pc \in {"admit", "reread"} /\ Stored(r.event)
      /\ Answered(q, AnswerFor(r.event, r.payload))
      /\ UNCHANGED <<now, periodEnd, allowance, runs>>

\* ... the batch commits: the event, its run and one unit of allowance.
AdmitNew(q) ==
  LET r   == request[q]
      row == allowance[r.key]
  IN  /\ r.pc = "admit" /\ ~Stored(r.event)
      /\ row # NoRow /\ Spare(row, r.ceiling)
      /\ runs' = [runs EXCEPT ![r.event] =
           [payload |-> r.payload, created |-> r.at, period |-> r.key, status |-> "PENDING"]]
      /\ allowance' = [allowance EXCEPT ![r.key] =
           [consumed |-> row.consumed, reserved |-> row.reserved + 1, updated |-> r.at]]
      /\ Answered(q, "accepted")
      /\ UNCHANGED <<now, periodEnd>>

\* ... the batch writes nothing: the period has no row, the unit is gone, a
\* concurrent caller stored the event first, or storage failed.
AdmitRolledBack(q) ==
  /\ request[q].pc = "admit" /\ ~Stored(request[q].event)
  /\ request' = [request EXCEPT ![q] =
       [pc |-> "reread", event |-> @.event, payload |-> @.payload]]
  /\ UNCHANGED <<now, periodEnd, allowance, runs>>

\* ... and the event is still unknown when it is read again.
AdmitRefused(q) ==
  /\ request[q].pc = "reread" /\ ~Stored(request[q].event)
  /\ Answered(q, "refused")
  /\ UNCHANGED <<now, periodEnd, allowance, runs>>

Serve(q) ==
  \/ Check(q)
  \/ Refuse(q)
  \/ \E c \in Ceilings \cup {NoLimit} : PassControls(q, c)
  \/ AdmitKnown(q)
  \/ AdmitNew(q)
  \/ AdmitRolledBack(q)
  \/ AdmitRefused(q)
=============================================================================
