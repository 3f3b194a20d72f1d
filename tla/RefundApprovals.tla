--------------------------- MODULE RefundApprovals --------------------------
(***************************************************************************)
(* Refunds: the owner grants an approval bound to one exact refund, and    *)
(* the refund button (issueRefund of db/ownerPort.ts) opens the refund's   *)
(* row, spends the approval and only then asks Stripe                      *)
(* (billing/refunds.ts, owner/approvals.ts).  Stripe's charge.refunded     *)
(* comes back through a webhook.  Clicks run at the same time, each of a   *)
(* row of statements; an invocation may die between any two, and a call of *)
(* Stripe may fail before or after it took effect.                         *)
(*                                                                         *)
(* A refund is an order and an amount, which make its idempotency key.     *)
(* The payload an approval is bound to has the reason as well; the row     *)
(* keeps the reason it was opened with.                                    *)
(***************************************************************************)
EXTENDS Integers, FiniteSets

CONSTANTS
    Refunds,      \* the refunds that can be asked for
    Reasons,      \* what is written beside them
    Approvals,
    Of,           \* the payload whose hash each approval carries
    Clicks,       \* presses of the button
    MaxFaults     \* bound: invocations that die, calls of Stripe that fail

Payload == [refund : Refunds, reason : Reasons]

ASSUME OfAssumption == Of \in [Approvals -> Payload]
ASSUME BoundAssumption == MaxFaults \in Nat

VARIABLES
    approval,  \* approvals.status; "lapsed" is granted, and past expires_at
    row,       \* refunds: the row of each refund
    click,     \* what each press is doing
    provider,  \* Stripe's refunds
    events,    \* its charge.refunded, not yet delivered
    webhook,   \* the delivery being handled
    spent,     \* history: the approval each call of Stripe was made under
    faults

vars == <<approval, row, click, provider, events, webhook, spent, faults>>

Done == [at |-> "done"]
Waiting == [at |-> "waiting"]
NotOpened == [state |-> "none", reason |-> "none", id |-> "none"]

-----------------------------------------------------------------------------
(* refundTransition: the moves a refund may make. *)

Moves == [queue_for_owner |-> {"requested"},
          owner_approved |-> {"queued_for_owner", "submitted"},
          pending |-> {"submitted", "pending"},
          succeeded |-> {"submitted", "pending", "succeeded"},
          failed |-> {"submitted", "pending"}]
Reached == [queue_for_owner |-> "queued_for_owner", owner_approved |-> "submitted",
            pending |-> "pending", succeeded |-> "succeeded", failed |-> "failed"]
Allowed(state, event) == state \in Moves[event]

\* refunds.recordState: one UPDATE by id, whatever the row says by then.
Write(r, state) == [row EXCEPT ![r].state = state]
WriteId(r, state, id) == [row EXCEPT ![r].state = state, ![r].id = id]

-----------------------------------------------------------------------------
(* The owner's approvals. *)

Grant(a) ==
    /\ approval[a] = "none"
    /\ approval' = [approval EXCEPT ![a] = "granted"]
    /\ UNCHANGED <<row, click, provider, events, webhook, spent, faults>>

\* The 24 hours are over.
Lapse(a) ==
    /\ approval[a] = "granted"
    /\ approval' = [approval EXCEPT ![a] = "lapsed"]
    /\ UNCHANGED <<row, click, provider, events, webhook, spent, faults>>

\* revokeApproval
Withdraw(a) ==
    /\ approval[a] \in {"granted", "lapsed"}
    /\ approval' = [approval EXCEPT ![a] = "revoked"]
    /\ UNCHANGED <<row, click, provider, events, webhook, spent, faults>>

-----------------------------------------------------------------------------
(* issueRefund *)

\* checkOwnerApproval: the hash of the payload is the one that was approved.
Covers(a, payload) == Of[a] = payload

\* The approval is read and checked against the payload of the press before
\* anything is created.  A press has one clock, so this is the only look at
\* the expiry.
Press(c) ==
    /\ click[c].at = "idle"
    /\ \E a \in Approvals, asked \in Payload :
           click' = [click EXCEPT ![c] =
               IF approval[a] = "granted" /\ Covers(a, asked)
               THEN [at |-> "opening", approval |-> a, asked |-> asked] ELSE Done]
    /\ UNCHANGED <<approval, row, provider, events, webhook, spent, faults>>

Refund(c) == click[c].asked.refund

\* requestRefund, openRefundOnce: the same key twice finds the first row, which
\* keeps its reason and is not queued again.
Open(c) ==
    /\ click[c].at = "opening"
    /\ IF row[Refund(c)].state = "none"
       THEN /\ row' = [row EXCEPT ![Refund(c)].state = "requested",
                                  ![Refund(c)].reason = click[c].asked.reason]
            /\ click' = [click EXCEPT ![c].at = "queueing"]
       ELSE /\ click' = [click EXCEPT ![c].at = "deciding"]
            /\ UNCHANGED row
    /\ UNCHANGED <<approval, provider, events, webhook, spent, faults>>

Queue(c) ==
    /\ click[c].at = "queueing"
    /\ row' = Write(Refund(c), Reached.queue_for_owner)
    /\ click' = [click EXCEPT ![c].at = "deciding"]
    /\ UNCHANGED <<approval, provider, events, webhook, spent, faults>>

\* Mutant: what the press asked for is checked again, and not the row.
JudgedAsAsked(c) == click[c].asked

\* refundApprovalPayload: rebuilt from the stored row.
Judged(c) == [refund |-> Refund(c), reason |-> row[Refund(c)].reason]

\* decideRefund reads the row, and judges by what it read.
Decide(c) ==
    /\ click[c].at = "deciding"
    /\ click' = [click EXCEPT ![c] =
           IF /\ Covers(click[c].approval, Judged(c))
              /\ Allowed(row[Refund(c)].state, "owner_approved")
           THEN [@ EXCEPT !.at = "consuming"] ELSE Done]
    /\ UNCHANGED <<approval, row, provider, events, webhook, spent, faults>>

\* Mutant: a spent approval is taken for one that was spent here.
ClaimableSpent(a) == approval[a] \in {"granted", "lapsed", "consumed"}

\* CLAIM_APPROVAL_SQL: the row count is the permission.  The expiry is compared
\* with the time the press began, when the approval was good.
Claimable(a) == approval[a] \in {"granted", "lapsed"}

\* claimApproval, whose own check is the first one again.
Consume(c) ==
    LET a == click[c].approval IN
    /\ click[c].at = "consuming"
    /\ IF Claimable(a)
       THEN /\ approval' = [approval EXCEPT ![a] = "consumed"]
            /\ click' = [click EXCEPT ![c].at = "submitting"]
       ELSE /\ click' = [click EXCEPT ![c] = Done]
            /\ UNCHANGED approval
    /\ UNCHANGED <<row, provider, events, webhook, spent, faults>>

Submit(c) ==
    /\ click[c].at = "submitting"
    /\ row' = Write(Refund(c), Reached.owner_approved)
    /\ click' = [click EXCEPT ![c].at = "submitted"]
    /\ UNCHANGED <<approval, provider, events, webhook, spent, faults>>

\* recordState reads back the row it wrote, by a statement of its own.
ReadBack(c) ==
    /\ click[c].at = "submitted"
    /\ click' = [click EXCEPT ![c] = [at |-> "calling", approval |-> click[c].approval,
                                      asked |-> click[c].asked, saw |-> row[Refund(c)].state]]
    /\ UNCHANGED <<approval, row, provider, events, webhook, spent, faults>>

\* Mutant: a key of the attempt, not of the refund.
KeyOfAttempt(c) == click[c].approval

\* gateway.createRefund under the row's own idempotency key: while Stripe remembers
\* the key it makes no other refund for it, and answers a repeat as it answered the
\* first.
Key(c) == Refund(c)
Made(key) == {p \in provider : p.key = key /\ p.remembered}
Fresh(c) == {[under |-> click[c].approval, refund |-> Refund(c), key |-> Key(c),
              before |-> {a \in Approvals : approval[a] # "none"},
              first |-> status, status |-> status, remembered |-> TRUE] :
                 status \in {"pending", "succeeded", "failed"}}

Call(c) ==
    /\ click[c].at = "calling"
    /\ spent' = spent \cup {[click |-> c, approval |-> click[c].approval]}
    /\ \E p \in IF Made(Key(c)) = {} THEN Fresh(c) ELSE Made(Key(c)), lost \in {0, 1} :
           /\ faults + lost <= MaxFaults
           /\ faults' = faults + lost
           /\ provider' = provider \cup {p}
           /\ events' = IF p \in provider THEN events
                        ELSE events \cup {[id |-> p.under, status |-> p.status]}
           /\ click' = [click EXCEPT ![c] =
                  IF lost = 1 THEN Done
                  ELSE [at |-> "answered", approval |-> click[c].approval,
                        asked |-> click[c].asked, saw |-> click[c].saw,
                        as |-> p.first, id |-> p.under]]
    /\ UNCHANGED <<approval, row, webhook>>

\* The answer moves the state that was read back, or nothing is written.
Finish(c) ==
    /\ click[c].at = "answered"
    /\ row' = IF Allowed(click[c].saw, click[c].as)
              THEN WriteId(Refund(c), Reached[click[c].as], click[c].id) ELSE row
    /\ click' = [click EXCEPT ![c] = Done]
    /\ UNCHANGED <<approval, provider, events, webhook, spent, faults>>

\* The invocation dies, a statement fails, or Stripe refuses the call: the rest is
\* not reached.
Die(c) ==
    /\ click[c].at \notin {"idle", "done"} /\ faults < MaxFaults
    /\ click' = [click EXCEPT ![c] = Done]
    /\ faults' = faults + 1
    /\ UNCHANGED <<approval, row, provider, events, webhook, spent>>

-----------------------------------------------------------------------------
(* Stripe, and the webhook: handleChargeRefunded, applyProviderRefund. *)

\* A pending refund comes to its end, and one that had succeeded may yet fail.
Settle ==
    /\ \E p \in provider, status \in {"succeeded", "failed"} :
           /\ p.status = "pending" \/ (p.status = "succeeded" /\ status = "failed")
           /\ provider' = (provider \ {p}) \cup {[p EXCEPT !.status = status]}
           /\ events' = events \cup {[id |-> p.under, status |-> status]}
    /\ UNCHANGED <<approval, row, click, webhook, spent, faults>>

\* Stripe drops an idempotency key when it is a day old at the earliest: the
\* presses of that day are over, and the approvals granted before have lapsed.
Forget ==
    /\ \A c \in Clicks : click[c].at \in {"idle", "done"}
    /\ \E p \in provider :
           /\ p.remembered /\ \A a \in p.before : approval[a] # "granted"
           /\ provider' = (provider \ {p}) \cup {[p EXCEPT !.remembered = FALSE]}
    /\ UNCHANGED <<approval, row, click, events, webhook, spent, faults>>

\* The row is found by the provider's id: one that was not recorded yet is
\* "not matched locally", and the event is answered all the same.
Matched(e) == {r \in Refunds : /\ row[r].id = e.id
                               /\ Allowed(row[r].state, e.status)
                               /\ row[r].state # Reached[e.status]}

Receive ==
    /\ webhook = Waiting
    /\ \E e \in events :
           /\ events' = events \ {e}
           /\ webhook' \in IF Matched(e) = {} THEN {Waiting}
                           ELSE {[at |-> "applying", refund |-> r, event |-> e] : r \in Matched(e)}
    /\ UNCHANGED <<approval, row, click, provider, spent, faults>>

Apply ==
    /\ webhook.at = "applying"
    /\ row' = WriteId(webhook.refund, Reached[webhook.event.status], webhook.event.id)
    /\ webhook' = Waiting
    /\ UNCHANGED <<approval, click, provider, events, spent, faults>>

-----------------------------------------------------------------------------
Init ==
    /\ approval = [a \in Approvals |-> "none"]
    /\ row = [r \in Refunds |-> NotOpened]
    /\ click = [c \in Clicks |-> [at |-> "idle"]]
    /\ provider = {} /\ events = {} /\ webhook = Waiting /\ spent = {} /\ faults = 0

Go(c) == Open(c) \/ Queue(c) \/ Decide(c) \/ Consume(c) \/ Submit(c) \/ ReadBack(c)
         \/ Call(c) \/ Finish(c)

Next == \/ \E a \in Approvals : Grant(a) \/ Lapse(a) \/ Withdraw(a)
        \/ \E c \in Clicks : Press(c) \/ Go(c) \/ Die(c)
        \/ Settle \/ Forget \/ Receive \/ Apply

Spec == Init /\ [][Next]_vars

-----------------------------------------------------------------------------
\* Every variable has its type; a press that is past the approval has one.
TypeOK ==
    /\ approval \in [Approvals -> {"none", "granted", "lapsed", "revoked", "consumed"}]
    /\ row \in [Refunds -> [state : {"none", "requested", "queued_for_owner", "submitted",
                                     "pending", "succeeded", "failed"},
                            reason : Reasons \cup {"none"}, id : Approvals \cup {"none"}]]
    /\ \A c \in Clicks : click[c].at \notin {"idle", "done"} =>
           click[c].approval \in Approvals /\ click[c].asked \in Payload
    /\ spent \subseteq [click : Clicks, approval : Approvals]
    /\ \A p \in provider : p.refund \in Refunds /\ p.under \in Approvals
    /\ faults \in 0..MaxFaults

\* issueRefund makes one call of Stripe under an approval and no second, not even
\* for the same refund: the approval is spent before the money moves, by the one
\* statement that changed its row.  (What decideRefund asks of a consumer it is
\* given, billing/refunds.ts:364-368, is another contract, which this path does not
\* take up.)
OneCallPerApproval ==
    /\ \A s, t \in spent : s.approval = t.approval => s = t
    /\ \A s \in spent : approval[s.approval] = "consumed"

\* Every refund at Stripe was made under a spent approval of its own, and one that
\* was granted for exactly what the refund's row says, its reason included, whatever
\* the other presses of the same order and amount wrote there.
RefundedAsApproved ==
    \A p \in provider :
        /\ approval[p.under] = "consumed"
        /\ Of[p.under] = [refund |-> p.refund, reason |-> row[p.refund].reason]
        /\ \A q \in provider : q.under = p.under => q = p

\* The money of a refund moves a second time at most where the owner granted
\* another approval after it had moved the first time: the approvals, presses and
\* retries of one day end in one refund, and none outlives Stripe's memory of the key.
MovedAgainIsApprovedAgain ==
    \A p, q \in provider :
        p.refund = q.refund /\ p # q => p.under \notin q.before \/ q.under \notin p.before

=============================================================================
