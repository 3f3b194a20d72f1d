---------------------------- MODULE StripeMirror ----------------------------
(***************************************************************************)
(* What the application keeps of one Stripe subscription: the row of       *)
(* subscriptions, the periods whose allowance was opened and the order it  *)
(* was bought with.  Stripe's events reach it through                      *)
(* routes/webhooks/stripe.ts, which records a receipt per event            *)
(* (db/webhooks.ts) and runs a handler of billing/events.ts: in any order, *)
(* again and again, several at once, with storage that may fail and        *)
(* invocations that may be killed.  Two jobs of the tick write the same    *)
(* row: the recovery sweep (billing/recovery.ts) and the reconciliation    *)
(* with Stripe's records (billing/reconcile.ts).                           *)
(***************************************************************************)
EXTENDS Integers, Sequences, FiniteSets

CONSTANTS
    Histories,  \* what Stripe may do: sequences of events, as it generates them
    Workers,    \* invocations that may handle a delivery at the same time
    MaxFaults,  \* bound: exceptions, killed invocations and failed releases
    MaxPasses,  \* bound: passes of the tick's two jobs
    NoRow

\* A subscription as it is stored, and an event as Stripe generates it.
SubscriptionStatus == {"trialing", "active", "past_due", "canceled", "unpaid", "incomplete",
                       "incomplete_expired", "paused"}
Row == [status: SubscriptionStatus, period: Nat, created: Nat]
EventType == {"subscription", "payment_failed", "invoice_paid", "checkout"}
StripeEvent ==
    {e \in [type: EventType, status: SubscriptionStatus \cup {"paid", "none"},
            period: Nat, created: Nat \ {0}] :
       e.type = "subscription" => e.status \in SubscriptionStatus}

ASSUME MirrorAssumption ==
    /\ Histories \subseteq Seq(StripeEvent)
    /\ NoRow \notin Row
    /\ MaxFaults \in Nat /\ MaxPasses \in Nat

VARIABLES
    feed,       \* the history Stripe follows
    issued,     \* how many of its events have happened
    now,        \* the second it is
    receipts,   \* webhook_receipts.processing_status, per event
    acked,      \* events Stripe was answered 200 for
    excused,    \* events left to nobody: see Strand and Deliver
    sub,        \* the subscriptions row
    allowance,  \* periods with a row of entitlements
    order,      \* the workspace's latest order
    handler,    \* what each invocation is doing
    job,        \* the tick's pass
    faults, passes

vars == <<feed, issued, now, receipts, acked, excused, sub, allowance, order,
          handler, job, faults, passes>>

-----------------------------------------------------------------------------
(* Stripe.  An event carries the second it was created in, and the status  *)
(* and the period end of the subscription (or of the invoice) at that time.*)

Event == 1..Len(feed)
Issued == 1..issued
OfSubscription(e) == feed[e].type = "subscription"

\* What Stripe's records say of the subscription: retrieveSubscription.
Reported == {e \in Issued : OfSubscription(e)}
Cancels(e) == OfSubscription(e) /\ feed[e].status = "canceled"
Latest == CHOOSE e \in Reported : \A d \in Reported : d <= e
\* Mutant: dated by its handling, not by the event.
SnapshotOfNow(e, created) ==
    [status |-> feed[e].status, period |-> feed[e].period, created |-> now]

Snapshot(e, created) ==
    [status |-> feed[e].status, period |-> feed[e].period, created |-> created]

Issue ==
    /\ issued < Len(feed)
    /\ issued' = issued + 1
    /\ now' = feed[issued + 1].created
    /\ UNCHANGED <<feed, receipts, acked, excused, sub, allowance, order, handler,
                   job, faults, passes>>

-----------------------------------------------------------------------------
(* billing/state.ts *)

Serving == {"active", "trialing"}

\* reconcileSubscription: does what Stripe said go over what is stored?
Applies(stored, incoming) ==
    \/ stored = NoRow
    \/ /\ stored.status = "canceled" => incoming.status = "canceled"
       /\ incoming.created >= stored.created
       /\ \/ incoming.created # stored.created
          \/ incoming.status # stored.status
          \/ incoming.period # stored.period

\* orderTransition: where an event takes an order, which stays when it may not move.
From == [payment_succeeded |-> {"checkout_created", "payment_pending", "active"},
         payment_failed |-> {"checkout_created", "payment_pending", "active"},
         subscription_cancelled |-> {"active", "failed", "payment_pending"},
         checkout_completed_unpaid |-> {"checkout_created", "payment_pending"}]
To == [payment_succeeded |-> "active", payment_failed |-> "failed",
       subscription_cancelled |-> "cancelled",
       checkout_completed_unpaid |-> "payment_pending"]
Moved(status, event) == IF status \in From[event] THEN To[event] ELSE status

\* moveOrderForSubscription: what a stored status means for the order.
OrderEvent(status) ==
    CASE status \in Serving -> "payment_succeeded"
      [] status \in {"canceled", "incomplete_expired"} -> "subscription_cancelled"
      [] OTHER -> "payment_failed"

\* Mutant: without the upsert's guard.
SavedUnguarded(row, snapshot) == snapshot

\* subscriptions.saveSnapshot: the upsert and its guard.
Saved(row, snapshot) ==
    IF row = NoRow \/ snapshot.created >= row.created THEN snapshot ELSE row

-----------------------------------------------------------------------------
(* One delivery.  A handler goes from a claimed receipt, over reading the  *)
(* row, saving it, opening the period and moving the order, to the answer. *)

Held(w) == handler[w].at # "idle"
Claimed(e, at) == [at |-> at, event |-> e, snapshot |-> NoRow, period |-> 0,
                   orderEvent |-> "none", seen |-> "none"]
Idle == Claimed(0, "idle")
Goes(w, at) ==
    handler' = [handler EXCEPT ![w] = IF at \in {"finish", "abandon", "read"}
                                      THEN Claimed(@.event, at)
                                      ELSE [@ EXCEPT !.at = at]]
Type(w) == feed[handler[w].event].type

\* createStripeWebhookRoute, recordOnce: the insert wins, or the event is
\* acknowledged, whether its receipt is finished or merely claimed.
Deliver(w, e) ==
    /\ ~Held(w)
    /\ e \in Issued
    /\ \/ /\ receipts[e] = "none"
          /\ receipts' = [receipts EXCEPT ![e] = "received"]
          /\ handler' = [handler EXCEPT ![w] =
                Claimed(e, IF feed[e].type = "checkout" THEN "order" ELSE "read")]
          /\ UNCHANGED <<acked, excused>>
       \/ /\ receipts[e] # "none"
          /\ acked' = acked \cup {e}
          /\ excused' = IF receipts[e] = "received" THEN excused \cup {e} ELSE excused
          /\ UNCHANGED <<receipts, handler>>
    /\ UNCHANGED <<feed, issued, now, sub, allowance, order, job, faults, passes>>

\* The handlers' first look at the row, and what they make of it.
Read(w) ==
    LET e == handler[w].event
        Write(snapshot) == [handler[w] EXCEPT !.at = "save", !.snapshot = snapshot]
        GoTo(to) == [handler[w] EXCEPT !.at = to]
    IN  /\ handler[w].at = "read"
        /\ \/ /\ Type(w) = "subscription"
              /\ LET incoming == Snapshot(e, feed[e].created)
                 IN  handler' = [handler EXCEPT ![w] =
                        IF Applies(sub, incoming) THEN Write(incoming) ELSE GoTo("finish")]
           \/ /\ Type(w) = "payment_failed"
              /\ LET incoming == [sub EXCEPT !.status = "past_due", !.created = feed[e].created]
                 IN  handler' = [handler EXCEPT ![w] =
                        [IF sub # NoRow /\ sub.status \in Serving /\ Applies(sub, incoming)
                         THEN Write(incoming) ELSE GoTo("order")
                         EXCEPT !.orderEvent = "payment_failed"]]
           \/ /\ Type(w) = "invoice_paid"
              /\ handler' = [handler EXCEPT ![w] =
                    [GoTo("open") EXCEPT !.period = feed[e].period,
                          !.orderEvent = IF sub = NoRow THEN "none" ELSE "payment_succeeded"]]
           \/ /\ Type(w) = "checkout"
              /\ \/ handler' = [handler EXCEPT ![w] = GoTo("finish")]
                 \/ /\ sub = NoRow /\ Reported # {}
                    /\ handler' = [handler EXCEPT ![w] =
                                     Write(Snapshot(Latest, feed[e].created))]
        /\ UNCHANGED <<feed, issued, now, receipts, acked, excused, sub, allowance, order,
                       job, faults, passes>>

\* persistSubscription: the row as it stands afterwards decides what follows.
Save(w) ==
    LET row == Saved(sub, handler[w].snapshot)
        order_ == IF Type(w) = "checkout" THEN "finish" ELSE "order"
    IN  /\ handler[w].at = "save"
        /\ sub' = row
        /\ handler' = [handler EXCEPT ![w] =
              [handler[w] EXCEPT
                 !.at = IF row.status \in Serving THEN "open" ELSE order_,
                 !.snapshot = NoRow, !.period = row.period,
                 !.orderEvent = IF Type(w) = "subscription"
                                THEN OrderEvent(row.status) ELSE handler[w].orderEvent]]
        /\ UNCHANGED <<feed, issued, now, receipts, acked, excused, allowance, order, job,
                       faults, passes>>

\* Mutant: invoice.paid opens no period before the row is known.
OpenForKnown(w) ==
    /\ handler[w].at = "open"
    /\ allowance' = IF handler[w].orderEvent = "none" THEN allowance
                    ELSE allowance \cup {handler[w].period}
    /\ Goes(w, IF handler[w].orderEvent = "none" THEN "finish" ELSE "order")
    /\ UNCHANGED <<feed, issued, now, receipts, acked, excused, sub, order, job,
                   faults, passes>>

\* openAllowancePeriod; what comes next depends on the handler.
Open(w) ==
    /\ handler[w].at = "open"
    /\ allowance' = allowance \cup {handler[w].period}
    /\ Goes(w, IF handler[w].orderEvent = "none" THEN "finish" ELSE "order")
    /\ UNCHANGED <<feed, issued, now, receipts, acked, excused, sub, order, job,
                   faults, passes>>

\* latestOrder, or the order of the checkout session.
ReadOrder(w) ==
    /\ handler[w].at = "order"
    /\ handler' = [handler EXCEPT ![w] = [handler[w] EXCEPT
            !.at = "move", !.seen = order, !.period = 0,
            !.orderEvent = IF Type(w) # "checkout" THEN handler[w].orderEvent
                           ELSE IF feed[handler[w].event].status = "paid"
                                THEN "payment_succeeded" ELSE "checkout_completed_unpaid"]]
    /\ UNCHANGED <<feed, issued, now, receipts, acked, excused, sub, allowance, order, job,
                   faults, passes>>

\* orderTransition on the order that was read, recordOrderStatus on whatever is there.
MoveOrder(w) ==
    LET next == Moved(handler[w].seen, handler[w].orderEvent)
    IN  /\ handler[w].at = "move"
        /\ order' = IF handler[w].seen \in From[handler[w].orderEvent] THEN next ELSE order
        /\ Goes(w, IF Type(w) = "checkout" THEN "read" ELSE "finish")
        /\ UNCHANGED <<feed, issued, now, receipts, acked, excused, sub, allowance, job,
                       faults, passes>>

\* completeWebhookProcessing, and the 200.
Finish(w) ==
    /\ handler[w].at = "finish"
    /\ receipts' = [receipts EXCEPT ![handler[w].event] = "done"]
    /\ acked' = acked \cup {handler[w].event}
    /\ handler' = [handler EXCEPT ![w] = Idle]
    /\ UNCHANGED <<feed, issued, now, excused, sub, allowance, order, job,
                   faults, passes>>

Fault == faults < MaxFaults /\ faults' = faults + 1

\* A step of the handler throws: the route gives the event back and answers 500.
Throw(w) ==
    /\ Held(w) /\ handler[w].at # "abandon"
    /\ Fault
    /\ Goes(w, "abandon")
    /\ UNCHANGED <<feed, issued, now, receipts, acked, excused, sub, allowance, order, job, passes>>

\* Mutant: the event is given back and answered 200.
AbandonAnswered(w) ==
    /\ handler[w].at = "abandon"
    /\ receipts' = [receipts EXCEPT ![handler[w].event] = "none"]
    /\ acked' = acked \cup {handler[w].event}
    /\ handler' = [handler EXCEPT ![w] = Idle]
    /\ UNCHANGED <<feed, issued, now, excused, sub, allowance, order, job,
                   faults, passes>>

\* abandonWebhookProcessing
Abandon(w) ==
    /\ handler[w].at = "abandon"
    /\ receipts' = [receipts EXCEPT ![handler[w].event] = "none"]
    /\ handler' = [handler EXCEPT ![w] = Idle]
    /\ UNCHANGED <<feed, issued, now, acked, excused, sub, allowance, order, job,
                   faults, passes>>

\* The release fails, or the invocation is killed at any step: the claim stands.
Strand(w) ==
    /\ Held(w)
    /\ Fault
    /\ excused' = excused \cup {handler[w].event}
    /\ handler' = [handler EXCEPT ![w] = Idle]
    /\ UNCHANGED <<feed, issued, now, receipts, acked, sub, allowance, order, job, passes>>

-----------------------------------------------------------------------------
(* The tick's two jobs.  Both read a batch of rows first and come to each  *)
(* of them later; now is read once, when the pass begins.                  *)

NoJob == [at |-> "idle", row |-> NoRow, began |-> 0]

BeginPass(kind) ==
    /\ job = NoJob /\ passes < MaxPasses
    /\ passes' = passes + 1
    /\ job' = IF sub = NoRow THEN NoJob
              ELSE [at |-> kind, row |-> sub, began |-> now]
    /\ UNCHANGED <<feed, issued, now, receipts, acked, excused, sub, allowance, order,
                   handler, faults>>

\* expirePaymentRecoveryWindows: past_due for longer than the recovery window becomes
\* unpaid, under the created it had.  How long the window is stays open here.
Sweep ==
    /\ job.at = "sweep"
    /\ job' = NoJob
    /\ \/ UNCHANGED sub
       \/ /\ job.row.status = "past_due"
          /\ sub' = Saved(sub, [job.row EXCEPT !.status = "unpaid"])
    /\ UNCHANGED <<feed, issued, now, receipts, acked, excused, allowance, order, handler,
                   faults, passes>>

\* reconcileSubscriptions: Stripe is asked, and only what it serves and we do not is taken.
Reconcile ==
    LET incoming == [Snapshot(Latest, 0) EXCEPT
                       !.created = IF job.began > job.row.created THEN job.began
                                   ELSE job.row.created]
    IN  /\ job.at = "reconcile"
        /\ job' = IF /\ Reported # {}
                     /\ feed[Latest].status \in Serving
                     /\ job.row.status \notin Serving
                     /\ Applies(job.row, incoming)
                  THEN [job EXCEPT !.at = "apply", !.row = incoming]
                  ELSE NoJob
        /\ UNCHANGED <<feed, issued, now, receipts, acked, excused, sub, allowance, order,
                       handler, faults, passes>>

\* applyConfirmedPayment: the row, and then its period.
Apply ==
    /\ job.at = "apply"
    /\ sub' = Saved(sub, job.row)
    /\ job' = [job EXCEPT !.at = "open", !.row = Saved(sub, job.row)]
    /\ UNCHANGED <<feed, issued, now, receipts, acked, excused, allowance, order, handler,
                   faults, passes>>

OpenRecovered ==
    /\ job.at = "open"
    /\ allowance' = allowance \cup {job.row.period}
    /\ job' = NoJob
    /\ UNCHANGED <<feed, issued, now, receipts, acked, excused, sub, order, handler,
                   faults, passes>>

\* Stripe could not be read, storage failed, or the tick was killed: the pass ends.
PassFails ==
    /\ job # NoJob
    /\ Fault
    /\ job' = NoJob
    /\ UNCHANGED <<feed, issued, now, receipts, acked, excused, sub, allowance, order,
                   handler, passes>>

-----------------------------------------------------------------------------

Init ==
    /\ feed \in Histories
    /\ issued = 0 /\ now = 0
    /\ receipts = [e \in Event |-> "none"]
    /\ acked = {} /\ excused = {}
    /\ sub = NoRow /\ allowance = {} /\ order = "checkout_created"
    /\ handler = [w \in Workers |-> Idle]
    /\ job = NoJob
    /\ faults = 0 /\ passes = 0

Handle(w) ==
    Read(w) \/ Save(w) \/ Open(w) \/ ReadOrder(w) \/ MoveOrder(w) \/ Finish(w) \/ Abandon(w)

Tick == BeginPass("sweep") \/ BeginPass("reconcile") \/ Sweep \/ Reconcile \/ Apply
        \/ OpenRecovered \/ PassFails

Next ==
    \/ Issue
    \/ \E w \in Workers : Handle(w) \/ Throw(w) \/ Strand(w)
    \/ \E w \in Workers : \E e \in Event : Deliver(w, e)
    \/ Tick

Spec == Init /\ [][Next]_vars

\* An invocation that is not killed goes on, and Stripe sends again what it has no
\* answer for.
FairSpec ==
    /\ Spec
    /\ \A w \in Workers : WF_vars(Handle(w))
    /\ \A e \in UNION {1..Len(h) : h \in Histories} :
          WF_vars(e \in Event \ acked /\ \E w \in Workers : Deliver(w, e))
-----------------------------------------------------------------------------
(* Properties *)

\* Guard 2 of billing/state.ts: once canceled is stored under the cancellation's date
\* or a later one, nothing moves the subscription to another status, however late, often
\* and concurrently Stripe's events and the tick's passes come.  (A checkout handler may
\* have stored canceled under the date of the checkout; that row is not spoken of.)
CanceledIsTerminal ==
    [][\A c \in Event :
         Cancels(c) /\ sub # NoRow /\ sub.status = "canceled" /\ sub.created >= feed[c].created
           => sub'.status = "canceled"]_vars

\* Guard 1 of billing/state.ts, over every writer of the row: its provider_event_created
\* never goes back, whatever was read before.
NewestWins == [][sub # NoRow => sub'.created >= sub.created]_vars

\* billing/events.ts:9-10, ordering is not assumed: when every event Stripe generated has
\* been answered, and none was left to nobody, the row says of the subscription what
\* Stripe does, and unpaid at most where Stripe says past_due.
Settled == issued = Len(feed) /\ acked = Event /\ excused = {}
           /\ (\A w \in Workers : ~Held(w)) /\ job = NoJob
SnapshotConverges ==
    Settled /\ Reported # {} =>
        /\ sub # NoRow
        /\ \/ sub.status = feed[Latest].status
           \/ sub.status = "unpaid" /\ feed[Latest].status = "past_due"
        /\ sub.status \in Serving => sub.period = feed[Latest].period

\* A subscription being served holds the allowance of its period once the invoice that
\* paid for it was handled: without the row of entitlements every run would be refused.
ServedHoldsItsAllowance ==
    Settled /\ sub # NoRow /\ sub.status \in Serving
            /\ (\E e \in Event : feed[e].type = "invoice_paid" /\ feed[e].period = sub.period)
        => sub.period \in allowance

\* Once the event of its cancellation is handled a subscription is canceled for good,
\* whatever older writes are still on their way.
HandledCancellationHolds ==
    \A c \in Event : receipts[c] = "done" /\ Cancels(c) => sub # NoRow /\ sub.status = "canceled"

\* Stripe's redelivery and the released receipt bring every event to its end, unless an
\* invocation was killed over it or a duplicate was answered while it was in hand.
EveryEventHandled ==
    <>[](\A e \in Issued : receipts[e] = "done" \/ e \in excused)

-----------------------------------------------------------------------------
(* What Stripe's own order of events must be for the mirror to converge:    *)
(* no two events share a second, a canceled subscription is over, and a     *)
(* failed payment shows in the subscription afterwards.  (Events of one     *)
(* second are the subject of a run of their own.)                           *)

NoSecondIsShared(h) == \A i, j \in 1..Len(h) : i < j => h[i].created < h[j].created

CanceledIsOver(h) ==
    \A i, j \in 1..Len(h) :
        /\ i < j /\ h[i].type = "subscription" /\ h[i].status = "canceled"
        => h[j].type \notin {"subscription", "payment_failed"}

FailuresShow(h) ==
    \A i \in 1..Len(h) : h[i].type = "payment_failed" =>
        \E j \in 1..Len(h) : i < j /\ h[j].type = "subscription"

Orderly(h) == NoSecondIsShared(h) /\ CanceledIsOver(h)

-----------------------------------------------------------------------------
(* The invariants behind the properties. *)

Steps == {"idle", "read", "save", "open", "order", "move", "finish", "abandon"}
OrderStatus == {"checkout_created", "payment_pending", "active", "failed", "cancelled"}
OrderEvents == {"payment_succeeded", "payment_failed", "subscription_cancelled",
                "checkout_completed_unpaid"}
RowOrNone == Row \cup {NoRow}
Handling == [at: Steps, event: Nat, snapshot: RowOrNone, period: Nat,
             orderEvent: OrderEvents \cup {"none"}, seen: OrderStatus \cup {"none"}]
Job == [at: {"idle", "sweep", "reconcile", "apply", "open"}, row: RowOrNone, began: Nat]

TypeOK ==
    /\ feed \in Histories /\ issued \in 0..Len(feed) /\ now \in Nat
    /\ receipts \in [Event -> {"none", "received", "done"}]
    /\ acked \subseteq Issued /\ excused \subseteq Issued
    /\ sub \in RowOrNone /\ allowance \subseteq Nat /\ order \in OrderStatus
    /\ handler \in [Workers -> Handling]
    /\ job \in Job
    /\ faults \in Nat /\ faults <= MaxFaults /\ passes \in Nat /\ passes <= MaxPasses

\* What a handler holds at each of its steps, and the tick's pass at its own.
HandlersEquipped ==
    \A w \in Workers :
        /\ Held(w) => handler[w].event \in Issued
        /\ handler[w].at = "save" => handler[w].snapshot \in Row /\ Type(w) # "invoice_paid"
        /\ handler[w].at = "move" => handler[w].orderEvent \in OrderEvents
        /\ handler[w].at \in {"read", "open", "save"} /\ Type(w) = "checkout" =>
             handler[w].orderEvent = "none"
        /\ handler[w].at = "order" /\ Type(w) # "checkout" => handler[w].orderEvent \in OrderEvents
        /\ handler[w].at = "save" /\ Type(w) = "payment_failed" =>
             handler[w].orderEvent \in OrderEvents

JobEquipped == job # NoJob => job.row \in Row

\* The latest change of the subscription Stripe knows of.
LatestKnown == Reported # {} => Latest \in Reported /\ \A d \in Reported : d <= Latest

\* An event is in one hand at a time, and what was answered and left to nobody
\* else is finished.
OneHolder ==
    /\ \A w \in Workers : Held(w) => receipts[handler[w].event] = "received"
    /\ \A v, w \in Workers :
         Held(v) /\ Held(w) /\ handler[v].event = handler[w].event => v = w
    /\ \A e \in acked \ excused : receipts[e] = "done"

\* A paid invoice opens its period before it is finished.
PaidIsOpened ==
    \A e \in Event : feed[e].type = "invoice_paid" =>
        /\ receipts[e] = "done" => feed[e].period \in allowance
        /\ \A w \in Workers : handler[w].event = e =>
             /\ handler[w].at = "open" => handler[w].period = feed[e].period
             /\ handler[w].at \in {"order", "move", "finish"} => feed[e].period \in allowance

\* Every row stored, or about to be, says what Stripe said of a subscription no
\* older than its date, or follows a failed payment; and only a canceled one
\* can be dated at a cancellation or later.
SaysWhatStripeSaid(row) ==
    \E d \in Reported :
        /\ row.status = feed[d].status \/ (row.status = "unpaid" /\ feed[d].status = "past_due")
        /\ row.period = feed[d].period
        /\ \A e \in Event : OfSubscription(e) /\ feed[e].created <= row.created => e <= d
FollowsAFailure(row) ==
    \E f \in Issued :
        /\ feed[f].type = "payment_failed" /\ row.created = feed[f].created
        /\ row.status \in {"past_due", "unpaid"}
Dated(row) ==
    /\ row.created <= now
    /\ SaysWhatStripeSaid(row) \/ FollowsAFailure(row)
    /\ row.status # "canceled" => \A c \in Event : Cancels(c) => row.created < feed[c].created

Rows == ({sub, job.row} \cup {handler[w].snapshot : w \in Workers}) \ {NoRow}
RowsDated ==
    /\ now = IF issued = 0 THEN 0 ELSE feed[issued].created
    /\ job.began <= now
    /\ \A row \in Rows : Dated(row)

\* The stored row is at least as new as every event handled, but for the
\* changes that came in after the cancellation.
Reached(e) ==
    /\ sub # NoRow
    /\ \/ sub.created >= feed[e].created
       \/ feed[e].status # "canceled" /\ \E c \in Reported : Cancels(c)

EventsReached ==
    \A e \in Event : OfSubscription(e) =>
        /\ receipts[e] = "done" => Reached(e)
        /\ \A w \in Workers : handler[w].event = e =>
             /\ handler[w].at = "save" => handler[w].snapshot.created = feed[e].created
             /\ handler[w].at \in {"open", "order", "move", "finish"} => Reached(e)

Equipped == TypeOK /\ HandlersEquipped /\ JobEquipped /\ LatestKnown
=============================================================================
