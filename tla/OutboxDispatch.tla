---------------------------- MODULE OutboxDispatch ----------------------------
(***************************************************************************)
(* The outbox pass of the scheduler: dispatchOutbox over the outbox table. *)
(*                                                                         *)
(* A row is written with the change it announces and handed to its handler *)
(* later, by whichever tick gets to it.  A dispatcher here is one tick's   *)
(* pass: it lists the due rows and takes them one by one - claim, handle,  *)
(* mark - and is killed without notice.  Each database call, and the       *)
(* handler, is one step.                                                   *)
(***************************************************************************)
EXTENDS Integers, FiniteSets

CONSTANTS
  Keys,         \* unique_event_key
  Dispatchers,
  MaxAttempts,  \* MAX_DISPATCH_ATTEMPTS
  Backoff,      \* DISPATCH_BACKOFF_BASE_SECONDS doubled, per exponent, capped
  Lease,        \* TICK_DEFAULTS.LEASE_SECONDS
  MaxOutbox,    \* TICK_DEFAULTS.MAX_OUTBOX_PER_TICK
  MaxTime,      \* bound: the clock stops here
  Horizon,      \* bound: nothing is enqueued and nothing goes wrong after this
  MaxFaults     \* bound: crashes, overruns and failed writes together

ASSUME OutboxAssumption ==
  /\ Keys # {}
  /\ MaxAttempts \in Nat \ {0}
  /\ Backoff \in [0..10 -> Nat \ {0}]
  /\ Lease \in Nat \ {0}
  /\ MaxOutbox \in Nat \ {0}
  /\ MaxTime \in Nat /\ Horizon \in Nat /\ MaxFaults \in Nat

VARIABLES
  outbox,    \* the outbox table, by key
  pc,        \* the step each dispatcher takes next
  start,     \* deps.now: when its tick started
  due,       \* the rows it listed and has not reached: [key, attempts, next]
  row,       \* the listed copy it is working on
  now,       \* the clock
  faults,    \* how many faults have happened
  called,    \* history: the <<key, attempt>> a handler was called with
  accepted   \* history: the keys a handler accepted

local == <<pc, start, due, row>>
vars  == <<outbox, pc, start, due, row, now, faults, called, accepted>>

DispatchState == {"pending", "dispatched", "dead"}

NOROW == [state |-> "absent", attempts |-> 0, next |-> 0]
NoCopy == [key |-> CHOOSE k \in Keys : TRUE, attempts |-> 0, next |-> 0]

\* WHERE dispatch_state = 'pending' AND next_attempt_at <= ?
Due(k, t) == outbox[k].state = "pending" /\ outbox[k].next <= t

\* dispatchBackoffSeconds
BackoffSeconds(attempts) == Backoff[IF attempts < 10 THEN attempts ELSE 10]

Handling(d) == pc[d] \in {"handle", "accepted", "refused"}
MayFault == faults < MaxFaults /\ now <= Horizon

-----------------------------------------------------------------------------
\* outbox.enqueue; a duplicate key is a no-op and not a step.
Enqueue(k) ==
  /\ now <= Horizon
  /\ outbox[k] = NOROW
  /\ outbox' = [outbox EXCEPT ![k] = [state |-> "pending", attempts |-> 0, next |-> now]]
  /\ UNCHANGED <<local, now, faults, called, accepted>>

Advance ==
  /\ now < MaxTime
  /\ now' = now + 1
  /\ UNCHANGED <<outbox, local, faults, called, accepted>>

Goto(d, step) == pc' = [pc EXCEPT ![d] = step]

\* continue: the row is done with, whatever became of it.
NextRow(d) ==
  /\ Goto(d, "next")
  /\ row' = [row EXCEPT ![d] = NoCopy]

\* The pass is over, one way or another: nothing of it remains.
Gone(d) ==
  /\ Goto(d, "idle")
  /\ start' = [start EXCEPT ![d] = 0]
  /\ due' = [due EXCEPT ![d] = {}]
  /\ row' = [row EXCEPT ![d] = NoCopy]

\* The batch listDue returns: the longest due first, at most MaxOutbox.
DueBatch(ks, t) ==
  LET all == {k \in Keys : Due(k, t)}
  IN  /\ ks \subseteq all
      /\ Cardinality(ks) = IF Cardinality(all) < MaxOutbox THEN Cardinality(all) ELSE MaxOutbox
      /\ \A k \in ks, j \in all \ ks : outbox[k].next <= outbox[j].next

\* listDue.  A pass that finds nothing due is not a step.
ListDue(d) ==
  /\ pc[d] = "idle"
  /\ \E ks \in SUBSET Keys :
       /\ ks # {} /\ DueBatch(ks, now)
       /\ due' = [due EXCEPT ![d] =
            {[key |-> k, attempts |-> outbox[k].attempts, next |-> outbox[k].next] : k \in ks}]
  /\ start' = [start EXCEPT ![d] = now]
  /\ Goto(d, "next")
  /\ UNCHANGED <<outbox, row, now, faults, called, accepted>>

\* ORDER BY next_attempt_at ASC: the loop takes the rows in the order listed.
FirstListed(d, c) == c \in due[d] /\ \A e \in due[d] : c.next <= e.next

\* Mutants: the lease is dated back; the lease never ends.
LeaseEndedBefore(d) == start[d] - Lease
LeaseWithoutEnd(d) == MaxTime + 1

LeaseEnd(d) == start[d] + Lease

\* Mutant: the claim forgets the attempts it was listed with.
WonIfPending(c) == outbox[c.key].state = "pending"

\* WHERE id = ? AND attempts = ? AND dispatch_state = 'pending'
Won(c) == outbox[c.key].attempts = c.attempts /\ outbox[c.key].state = "pending"

\* outbox.tryClaim: the compare-and-set counts the attempt and leases the row.
TryClaim(d, c) ==
  /\ pc[d] = "next" /\ FirstListed(d, c)
  /\ due' = [due EXCEPT ![d] = @ \ {c}]
  /\ IF Won(c)
     THEN /\ outbox' = [outbox EXCEPT ![c.key] =
               [state |-> "pending", attempts |-> @.attempts + 1, next |-> LeaseEnd(d)]]
          /\ row' = [row EXCEPT ![d] = c]
          /\ Goto(d, "handle")
     ELSE UNCHANGED <<outbox, row, pc>>
  /\ UNCHANGED <<start, now, faults, called, accepted>>

EndDispatch(d) ==
  /\ pc[d] = "next" /\ due[d] = {}
  /\ Gone(d)
  /\ UNCHANGED <<outbox, now, faults, called, accepted>>

Called(d) == called' = called \cup {<<row[d].key, row[d].attempts + 1>>}

HandlerAccepts(d) ==
  /\ pc[d] = "handle"
  /\ Called(d)
  /\ accepted' = accepted \cup {row[d].key}
  /\ Goto(d, "accepted")
  /\ UNCHANGED <<outbox, start, due, row, now, faults>>

\* The handler throws or declines.
HandlerRefuses(d) ==
  /\ pc[d] = "handle"
  /\ Called(d)
  /\ Goto(d, "refused")
  /\ UNCHANGED <<outbox, start, due, row, now, faults, accepted>>

\* Mutant: an event nobody handles is silently dropped.
DropUnhandled == "accepted"

AfterNoHandler == "refused"

NoHandler(d) ==
  /\ pc[d] = "handle"
  /\ Goto(d, AfterNoHandler)
  /\ UNCHANGED <<outbox, start, due, row, now, faults, called, accepted>>

\* outbox.markDispatched, WHERE id = ?
MarkDispatched(d) ==
  /\ pc[d] = "accepted"
  /\ outbox' = [outbox EXCEPT ![row[d].key].state = "dispatched"]
  /\ NextRow(d)
  /\ UNCHANGED <<start, due, now, faults, called, accepted>>

\* Mutant: the attempt just made is counted twice.
ExhaustedOneEarly(k) == outbox[k].attempts + 1 >= MaxAttempts

Exhausted(k) == outbox[k].attempts >= MaxAttempts

\* outbox.markFailed, WHERE id = ?: bury the row or re-arm it.
MarkFailed(d) ==
  LET k == row[d].key
  IN  /\ pc[d] = "refused"
      /\ outbox' = [outbox EXCEPT ![k] =
           [state    |-> IF Exhausted(k) THEN "dead" ELSE "pending",
            attempts |-> outbox[k].attempts,
            next     |-> start[d] + BackoffSeconds(row[d].attempts + 1)]]
      /\ NextRow(d)
      /\ UNCHANGED <<start, due, now, faults, called, accepted>>

-----------------------------------------------------------------------------
(* What goes wrong. *)

\* The claim throws: the row is skipped.
ClaimFails(d, c) ==
  /\ MayFault /\ pc[d] = "next" /\ FirstListed(d, c)
  /\ faults' = faults + 1
  /\ due' = [due EXCEPT ![d] = @ \ {c}]
  /\ UNCHANGED <<outbox, pc, start, row, now, called, accepted>>

\* The mark throws: the outcome is known and not recorded.
MarkFails(d) ==
  /\ MayFault /\ pc[d] \in {"accepted", "refused"}
  /\ faults' = faults + 1
  /\ NextRow(d)
  /\ UNCHANGED <<outbox, start, due, now, called, accepted>>

\* hasHeadroom turns false: the rest is left to a later tick.
OutOfTime(d) ==
  /\ MayFault /\ pc[d] = "next" /\ due[d] # {}
  /\ faults' = faults + 1
  /\ Gone(d)
  /\ UNCHANGED <<outbox, now, called, accepted>>

Crash(d) ==
  /\ MayFault /\ pc[d] # "idle"
  /\ faults' = faults + 1
  /\ Gone(d)
  /\ UNCHANGED <<outbox, now, called, accepted>>

\* A handler or a database call takes so long that the clock moves under it.
Overrun(d) ==
  /\ MayFault /\ pc[d] # "idle"
  /\ faults' = faults + 1
  /\ now < MaxTime
  /\ now' = now + 1
  /\ UNCHANGED <<outbox, local, called, accepted>>

-----------------------------------------------------------------------------
Init ==
  /\ outbox = [k \in Keys |-> NOROW]
  /\ pc = [d \in Dispatchers |-> "idle"]
  /\ start = [d \in Dispatchers |-> 0]
  /\ due = [d \in Dispatchers |-> {}]
  /\ row = [d \in Dispatchers |-> NoCopy]
  /\ now = 0
  /\ faults = 0
  /\ called = {}
  /\ accepted = {}

\* What a pass does when nothing stops it.
Progress(d) ==
  \/ \E c \in due[d] : TryClaim(d, c)
  \/ EndDispatch(d)
  \/ HandlerAccepts(d) \/ HandlerRefuses(d) \/ NoHandler(d)
  \/ MarkDispatched(d) \/ MarkFailed(d)

Fault(d) ==
  \/ \E c \in due[d] : ClaimFails(d, c)
  \/ MarkFails(d) \/ OutOfTime(d) \/ Crash(d) \/ Overrun(d)

Next ==
  \/ \E k \in Keys : Enqueue(k)
  \/ Advance
  \/ \E d \in Dispatchers : ListDue(d) \/ Progress(d) \/ Fault(d)

Spec == Init /\ [][Next]_vars

-----------------------------------------------------------------------------
(* Properties *)

OutboxRow == [state: DispatchState \cup {"absent"}, attempts: Nat, next: Nat]
Copy == [key: Keys, attempts: Nat, next: Nat]

TypeOK ==
  /\ outbox \in [Keys -> OutboxRow]
  /\ pc \in [Dispatchers -> {"idle", "next", "handle", "accepted", "refused"}]
  /\ start \in [Dispatchers -> Nat]
  /\ due \in [Dispatchers -> SUBSET Copy]
  /\ row \in [Dispatchers -> Copy]
  /\ now \in Nat /\ now <= MaxTime
  /\ faults \in Nat /\ faults <= MaxFaults
  /\ called \subseteq Keys \X Nat
  /\ accepted \subseteq Keys

\* A row is claimed by one dispatcher per attempt: two passes that list the
\* same row, outlive their leases or re-arm it under each other never work
\* on one attempt together, and no attempt is handed to a handler twice.
OneDispatcherPerAttempt ==
  /\ \A d, e \in Dispatchers :
       Handling(d) /\ Handling(e) /\ row[d].key = row[e].key
         /\ row[d].attempts = row[e].attempts => d = e
  /\ \A d \in Dispatchers :
       pc[d] = "handle" => <<row[d].key, row[d].attempts + 1>> \notin called

\* Nothing is silently dropped: a dispatched row is one a handler accepted,
\* even when a slow pass has marked it since.
DispatchedWasAccepted == \A k \in Keys : outbox[k].state = "dispatched" => k \in accepted

\* A row is buried only with all its attempts spent, whoever buries it.
DeadHadItsAttempts == \A k \in Keys : outbox[k].state = "dead" => outbox[k].attempts >= MaxAttempts

-----------------------------------------------------------------------------
(* The inductive invariant: a claim is behind the row's attempts, and so    *)
(* is every attempt a handler has seen.                                     *)

AttemptsBehindRow ==
  /\ \A d \in Dispatchers : Handling(d) => row[d].attempts < outbox[row[d].key].attempts
  /\ \A call \in called : call[2] <= outbox[call[1]].attempts

AcceptedIsRecorded == \A d \in Dispatchers : pc[d] = "accepted" => row[d].key \in accepted

Inv ==
  /\ TypeOK
  /\ AttemptsBehindRow /\ OneDispatcherPerAttempt
  /\ AcceptedIsRecorded /\ DispatchedWasAccepted
  /\ DeadHadItsAttempts

-----------------------------------------------------------------------------
(* Liveness.  The cron fires every minute and a pass ends within it unless  *)
(* it overruns, so apart from Overrun the clock passes neither a due row    *)
(* nor a pass that is still at work.                                        *)

Quiet == /\ \A d \in Dispatchers : pc[d] = "idle"
         /\ \A k \in Keys : ~Due(k, now)

FairSpec ==
  /\ Init /\ [][Next /\ (now' # now /\ faults' = faults => Quiet)]_vars
  /\ WF_vars(Advance /\ Quiet)
  /\ \A d \in Dispatchers : WF_vars(ListDue(d)) /\ WF_vars(Progress(d))

\* Every event is dispatched or buried for good in the end, whatever its
\* handler does and whichever passes die.
EveryEventSettled ==
  \A k \in Keys : outbox[k].state = "pending" ~> [](outbox[k].state \in {"dispatched", "dead"})
=============================================================================
