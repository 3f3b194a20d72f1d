------------------------- MODULE StripeMirrorProofs -------------------------
(***************************************************************************)
(* Proofs about StripeMirror, for any set of histories, any number of      *)
(* invocations and any number of faults and passes.                        *)
(***************************************************************************)
EXTENDS StripeMirror, TLAPS

(* Types. *)

\* What Stripe generated is a sequence of events.
LEMMA FeedTyped ==
  ASSUME feed \in Histories
  PROVE  /\ Len(feed) \in Nat
         /\ \A e \in Event : feed[e] \in StripeEvent
  <1>1. feed \in Seq(StripeEvent)
    BY MirrorAssumption
  <1>. QED BY <1>1 DEF Event

\* Records of the shapes handlers and rows are built with.
LEMMA Shapes ==
  /\ Idle \in Handling /\ Idle.at = "idle" /\ Idle.event = 0 /\ Idle.snapshot = NoRow
  /\ NoJob \in Job /\ NoJob.at = "idle" /\ NoJob.row = NoRow /\ NoJob.began = 0
  /\ \A e \in Nat, at \in Steps :
       /\ Claimed(e, at) \in Handling
       /\ Claimed(e, at).at = at /\ Claimed(e, at).event = e
       /\ Claimed(e, at).snapshot = NoRow /\ Claimed(e, at).orderEvent = "none"
  BY DEF Idle, Claimed, Handling, NoJob, Job, Steps, RowOrNone

-----------------------------------------------------------------------------
(* Type correctness. *)

\* One handler's step: the others stay.
LEMMA HandlerSet ==
  ASSUME TypeOK, NEW w \in Workers, NEW h \in Handling, handler' = [handler EXCEPT ![w] = h]
  PROVE  /\ handler' \in [Workers -> Handling] /\ handler'[w] = h
         /\ \A v \in Workers : v # w => handler'[v] = handler[v]
  BY DEF TypeOK

\* What a handler that leaves for another step looks like.
LEMMA GoneTo ==
  ASSUME TypeOK, NEW w \in Workers, NEW at \in Steps, Goes(w, at)
  PROVE  \E h \in Handling :
           /\ handler' = [handler EXCEPT ![w] = h]
           /\ h.at = at /\ h.event = handler[w].event
           /\ at \in {"finish", "abandon", "read"} => h.snapshot = NoRow /\ h.orderEvent = "none"
           /\ at \notin {"finish", "abandon", "read"} =>
                h.snapshot = handler[w].snapshot /\ h.period = handler[w].period
                /\ h.orderEvent = handler[w].orderEvent
  <1>1. handler[w] \in Handling /\ handler[w].event \in Nat
    BY DEF TypeOK, Handling
  <1>2. CASE at \in {"finish", "abandon", "read"}
    <2>1. handler' = [handler EXCEPT ![w] = Claimed(handler[w].event, at)]
      BY <1>2 DEF Goes
    <2>. QED BY <2>1, <1>1, <1>2, Shapes
  <1>3. CASE at \notin {"finish", "abandon", "read"}
    <2> DEFINE h == [handler[w] EXCEPT !.at = at]
    <2>1. handler' = [handler EXCEPT ![w] = h]
      BY <1>3 DEF Goes
    <2>2. /\ h \in Handling /\ h.at = at /\ h.event = handler[w].event
          /\ h.snapshot = handler[w].snapshot /\ h.period = handler[w].period
          /\ h.orderEvent = handler[w].orderEvent
      BY <1>1 DEF Handling
    <2>. QED BY <2>1, <2>2, <1>3
  <1>. QED BY <1>2, <1>3

\* There is a latest change once there is one.
LEMMA LatestGrows ==
  ASSUME LatestKnown, issued \in Nat, feed' = feed, issued' \in {issued, issued + 1}
  PROVE  LatestKnown'
  <1>1. SUFFICES ASSUME Reported' # {}
                 PROVE  \E e \in Reported' : \A d \in Reported' : d <= e
    BY DEF LatestKnown, Latest
  <1>2. CASE issued' = issued + 1 /\ OfSubscription(issued + 1)
    BY <1>2 DEF Reported, Issued, OfSubscription
  <1>3. CASE issued' = issued \/ ~OfSubscription(issued + 1)
    <2>1. Reported' = Reported
      BY <1>3 DEF Reported, Issued, OfSubscription
    <2>. QED BY <1>1, <2>1 DEF LatestKnown
  <1>. QED BY <1>2, <1>3

\* Stripe's own step.
LEMMA IssueTyped ==
  ASSUME Equipped, Issue
  PROVE  Equipped'
  <1>0. /\ feed \in Histories /\ issued \in 0..Len(feed) /\ Len(feed) \in Nat /\ feed' = feed
        /\ issued' = issued + 1 /\ issued < Len(feed) /\ now' = feed[issued + 1].created
    BY FeedTyped DEF Equipped, TypeOK, Issue
  <1>1. issued' \in 0..Len(feed) /\ issued + 1 \in Event
    BY <1>0 DEF Event
  <1>2. now' \in Nat
    BY <1>0, <1>1, FeedTyped DEF StripeEvent
  <1>3. Issued \subseteq Issued' /\ Event' = Event
    BY <1>0 DEF Issued, Event
  <1>4. TypeOK'
    BY <1>0, <1>1, <1>2, <1>3 DEF Equipped, TypeOK, Issue
  <1>5. HandlersEquipped' /\ JobEquipped'
    BY <1>0, <1>3 DEF Equipped, HandlersEquipped, JobEquipped, Issue, Held, Type, NoJob
  <1>6. LatestKnown'
    BY <1>0, LatestGrows DEF Equipped, TypeOK
  <1>. QED BY <1>4, <1>5, <1>6 DEF Equipped

\* A handler's step that keeps to its event: what is left to show.
LEMMA HandlerStep ==
  ASSUME Equipped, NEW w \in Workers, NEW h \in Handling,
         handler' = [handler EXCEPT ![w] = h],
         UNCHANGED <<feed, issued, now, job, passes>>, faults' \in Nat, faults' <= MaxFaults,
         receipts' \in [Event -> {"none", "received", "done"}],
         acked' \subseteq Issued, excused' \subseteq Issued,
         sub' \in RowOrNone, allowance' \subseteq Nat, order' \in OrderStatus,
         h.at # "idle" => h.event \in Issued,
         h.at = "save" => h.snapshot \in Row /\ feed[h.event].type # "invoice_paid",
         h.at = "move" => h.orderEvent \in OrderEvents,
         h.at \in {"read", "open", "save"} /\ feed[h.event].type = "checkout" => h.orderEvent = "none",
         h.at = "order" /\ feed[h.event].type # "checkout" => h.orderEvent \in OrderEvents,
         h.at = "save" /\ feed[h.event].type = "payment_failed" => h.orderEvent \in OrderEvents
  PROVE  Equipped'
  <1>0. TypeOK /\ HandlersEquipped /\ JobEquipped
    BY DEF Equipped
  <1>1. /\ handler' \in [Workers -> Handling] /\ handler'[w] = h
        /\ \A v \in Workers : v # w => handler'[v] = handler[v]
    BY <1>0, HandlerSet
  <1>2. Event' = Event /\ Issued' = Issued
    BY DEF Event, Issued
  <1>3. TypeOK'
    BY <1>0, <1>1, <1>2 DEF TypeOK
  <1>4. HandlersEquipped'
    BY <1>0, <1>1, <1>2 DEF HandlersEquipped, Held, Type
  <1>5. JobEquipped'
    BY <1>0 DEF JobEquipped, NoJob
  <1>6. LatestKnown'
    BY <1>0, LatestGrows DEF Equipped, TypeOK
  <1>. QED BY <1>3, <1>4, <1>5, <1>6 DEF Equipped

\* Deliveries, answers and faults.
LEMMA DeliveryTyped ==
  ASSUME Equipped, NEW w \in Workers,
         (\E e \in Event : Deliver(w, e)) \/ Finish(w) \/ Throw(w) \/ Abandon(w) \/ Strand(w)
  PROVE  Equipped'
  <1>0. /\ TypeOK /\ HandlersEquipped /\ JobEquipped
        /\ receipts \in [Event -> {"none", "received", "done"}]
        /\ acked \subseteq Issued /\ excused \subseteq Issued
        /\ sub \in RowOrNone /\ allowance \subseteq Nat /\ order \in OrderStatus
        /\ handler \in [Workers -> Handling] /\ handler[w] \in Handling
        /\ Held(w) => handler[w].event \in Issued
        /\ faults \in Nat /\ faults <= MaxFaults
    BY DEF Equipped, TypeOK, HandlersEquipped
  <1>1. Issued \subseteq Event /\ Issued \subseteq Nat
    BY <1>0, FeedTyped DEF Issued, Event, TypeOK
  <1>2. ASSUME NEW e \in Event, Deliver(w, e) PROVE Equipped'
    <2>1. e \in Issued /\ e \in Nat
      BY <1>1, <1>2 DEF Deliver
    <2>2. CASE receipts[e] = "none"
      <3>1. PICK at \in {"order", "read"} :
              /\ receipts' = [receipts EXCEPT ![e] = "received"]
              /\ handler' = [handler EXCEPT ![w] = Claimed(e, at)]
              /\ at = "order" => feed[e].type = "checkout"
              /\ UNCHANGED <<feed, issued, now, job, faults, passes, acked, excused, sub,
                             allowance, order>>
        BY <1>2, <2>2 DEF Deliver
      <3>2. /\ Claimed(e, at) \in Handling /\ Claimed(e, at).at = at /\ Claimed(e, at).event = e
            /\ Claimed(e, at).orderEvent = "none"
        BY <2>1, <3>1, Shapes DEF Steps
      <3>3. receipts' \in [Event -> {"none", "received", "done"}]
        BY <1>0, <3>1
      <3>. QED BY <1>0, <2>1, <3>1, <3>2, <3>3, HandlerStep
    <2>3. CASE receipts[e] # "none"
      <3>1. /\ acked' = acked \cup {e} /\ excused' \in {excused, excused \cup {e}}
            /\ UNCHANGED <<feed, issued, now, job, faults, passes, receipts, handler, sub,
                           allowance, order>>
        BY <1>2, <2>3 DEF Deliver
      <3>2. TypeOK' /\ HandlersEquipped' /\ JobEquipped'
        BY <1>0, <2>1, <3>1 DEF TypeOK, HandlersEquipped, JobEquipped, Held, Type, Event, Issued,
                                NoJob
      <3>3. LatestKnown'
        BY <3>1, LatestGrows DEF Equipped, TypeOK
      <3>. QED BY <3>2, <3>3 DEF Equipped
    <2>. QED BY <2>2, <2>3
  <1>3. ASSUME Finish(w) \/ Abandon(w) PROVE Equipped'
    <2>1. /\ Held(w) /\ handler' = [handler EXCEPT ![w] = Idle]
          /\ UNCHANGED <<feed, issued, now, job, faults, passes, excused, sub, allowance, order>>
          /\ acked' \in {acked, acked \cup {handler[w].event}}
          /\ \/ receipts' = [receipts EXCEPT ![handler[w].event] = "done"]
             \/ receipts' = [receipts EXCEPT ![handler[w].event] = "none"]
      BY <1>3 DEF Finish, Abandon, Held
    <2>2. receipts' \in [Event -> {"none", "received", "done"}]
      BY <1>0, <2>1
    <2>3. acked' \subseteq Issued
      BY <1>0, <2>1
    <2>. QED BY <1>0, <2>1, <2>2, <2>3, Shapes, HandlerStep
  <1>4. ASSUME Throw(w) PROVE Equipped'
    <2>1. /\ Held(w) /\ Goes(w, "abandon") /\ faults' = faults + 1 /\ faults < MaxFaults
          /\ UNCHANGED <<feed, issued, now, job, passes, receipts, acked, excused, sub, allowance,
                         order>>
      BY <1>4 DEF Throw, Fault
    <2>2. PICK h \in Handling : /\ handler' = [handler EXCEPT ![w] = h]
                                /\ h.at = "abandon" /\ h.event = handler[w].event
      BY <1>0, <2>1, GoneTo DEF Steps
    <2>3. faults' \in Nat /\ faults' <= MaxFaults
      BY <1>0, <2>1, MirrorAssumption DEF TypeOK
    <2>. QED BY <1>0, <2>1, <2>2, <2>3, HandlerStep
  <1>5. ASSUME Strand(w) PROVE Equipped'
    <2>1. /\ Held(w) /\ handler' = [handler EXCEPT ![w] = Idle]
          /\ faults' = faults + 1 /\ faults < MaxFaults
          /\ excused' = excused \cup {handler[w].event}
          /\ UNCHANGED <<feed, issued, now, job, passes, receipts, acked, sub, allowance, order>>
      BY <1>5 DEF Strand, Fault
    <2>2. faults' \in Nat /\ faults' <= MaxFaults /\ excused' \subseteq Issued
      BY <1>0, <2>1, MirrorAssumption DEF TypeOK
    <2>. QED BY <1>0, <2>1, <2>2, Shapes, HandlerStep
  <1>. QED BY <1>2, <1>3, <1>4, <1>5

\* A handler's fields.
LEMMA HandlerTyped ==
  ASSUME Equipped, NEW w \in Workers, handler[w].at # "idle"
  PROVE  /\ handler[w] \in Handling
         /\ handler[w].event \in Issued /\ handler[w].event \in Event
         /\ feed[handler[w].event] \in StripeEvent
         /\ feed[handler[w].event].created \in Nat
         /\ feed[handler[w].event].period \in Nat
         /\ Type(w) = "subscription" => handler[w].event \in Reported
         /\ feed[handler[w].event].type \in EventType
  <1>1. handler[w] \in Handling /\ handler[w].event \in Issued
    BY DEF Equipped, TypeOK, HandlersEquipped, Held
  <1>2. handler[w].event \in Event
    BY <1>1, FeedTyped DEF Equipped, TypeOK, Issued, Event
  <1>3. feed[handler[w].event] \in StripeEvent
    BY <1>2, FeedTyped DEF Equipped, TypeOK
  <1>. QED BY <1>1, <1>2, <1>3 DEF StripeEvent, Reported, OfSubscription, Type

\* The row Stripe's record makes.
LEMMA SnapshotTyped ==
  ASSUME Equipped, NEW e \in Reported, NEW created \in Nat
  PROVE  /\ Snapshot(e, created) \in Row
         /\ Snapshot(e, created).status = feed[e].status
         /\ Snapshot(e, created).period = feed[e].period
         /\ Snapshot(e, created).created = created
  <1>1. feed[e] \in StripeEvent
    BY FeedTyped DEF Equipped, TypeOK, Issued, Event, Reported
  <1>. QED BY <1>1 DEF Snapshot, Row, StripeEvent, Reported, OfSubscription

\* A row that takes another status, and another date.
LEMMA RowChanged ==
  ASSUME NEW row \in Row, NEW status \in SubscriptionStatus, NEW created \in Nat
  PROVE  /\ [row EXCEPT !.status = status] \in Row
         /\ [row EXCEPT !.status = status].status = status
         /\ [row EXCEPT !.status = status].period = row.period
         /\ [row EXCEPT !.status = status].created = row.created
         /\ [row EXCEPT !.status = status, !.created = created] \in Row
         /\ [row EXCEPT !.status = status, !.created = created].status = status
         /\ [row EXCEPT !.status = status, !.created = created].period = row.period
         /\ [row EXCEPT !.status = status, !.created = created].created = created
  BY DEF Row

\* A first look: the handler's event stays, and it writes Stripe's record or a
\* failed payment only where the row it saw lets it.
LEMMA ReadsRow ==
  ASSUME Equipped, NEW w \in Workers, Read(w)
  PROVE  \E h \in Handling :
           /\ handler' = [handler EXCEPT ![w] = h]
           /\ h.event = handler[w].event /\ h.at \in {"save", "open", "order", "finish"}
           /\ h.at # "save" => h.snapshot = handler[w].snapshot
           /\ h.at = "save" => h.snapshot \in Row
           /\ h.at = "save" =>
                \/ /\ Type(w) = "subscription"
                   /\ h.snapshot = Snapshot(handler[w].event, feed[handler[w].event].created)
                   /\ Applies(sub, h.snapshot)
                \/ /\ Type(w) = "payment_failed" /\ h.orderEvent = "payment_failed"
                   /\ sub \in Row /\ sub.status \in Serving /\ Applies(sub, h.snapshot)
                   /\ h.snapshot = [sub EXCEPT !.status = "past_due",
                                                !.created = feed[handler[w].event].created]
                \/ /\ Type(w) = "checkout" /\ h.orderEvent = handler[w].orderEvent
                   /\ sub = NoRow /\ Reported # {}
                   /\ h.snapshot = Snapshot(Latest, feed[handler[w].event].created)
           /\ h.at = "open" => /\ Type(w) = "invoice_paid"
                               /\ h.period = feed[handler[w].event].period
           /\ h.at = "order" => Type(w) = "payment_failed" /\ h.orderEvent = "payment_failed"
           /\ h.at = "finish" =>
                \/ Type(w) = "checkout"
                \/ /\ Type(w) = "subscription"
                   /\ ~Applies(sub, Snapshot(handler[w].event, feed[handler[w].event].created))
  <1> DEFINE e == handler[w].event
  <1>0. /\ handler[w].at = "read" /\ handler[w] \in Handling /\ e \in Issued
        /\ feed[e].created \in Nat /\ feed[e].period \in Nat /\ sub \in RowOrNone
    BY HandlerTyped DEF Read, Equipped, TypeOK
  <1>1. Type(w) = "subscription" => Snapshot(e, feed[e].created) \in Row
    BY <1>0, HandlerTyped, SnapshotTyped
  <1>2. CASE Type(w) = "subscription"
    <2>1. handler' = [handler EXCEPT ![w] =
                        IF Applies(sub, Snapshot(e, feed[e].created))
                        THEN [handler[w] EXCEPT !.at = "save",
                                                !.snapshot = Snapshot(e, feed[e].created)]
                        ELSE [handler[w] EXCEPT !.at = "finish"]]
      BY <1>2 DEF Read
    <2>2. CASE Applies(sub, Snapshot(e, feed[e].created))
      <3> DEFINE h == [handler[w] EXCEPT !.at = "save",
                                         !.snapshot = Snapshot(e, feed[e].created)]
      <3>1. /\ h \in Handling /\ h.event = e /\ h.at = "save"
            /\ h.snapshot = Snapshot(e, feed[e].created)
        BY <1>0, <1>1, <1>2 DEF Handling, Steps, RowOrNone
      <3>. QED BY <1>1, <1>2, <2>1, <2>2, <3>1
    <2>3. CASE ~Applies(sub, Snapshot(e, feed[e].created))
      <3> DEFINE h == [handler[w] EXCEPT !.at = "finish"]
      <3>1. h \in Handling /\ h.event = e /\ h.at = "finish" /\ h.snapshot = handler[w].snapshot
        BY <1>0 DEF Handling, Steps
      <3>. QED BY <1>2, <2>1, <2>3, <3>1
    <2>. QED BY <2>2, <2>3
  <1>3. CASE Type(w) = "payment_failed"
    <2> DEFINE incoming == [sub EXCEPT !.status = "past_due", !.created = feed[e].created]
               known == sub # NoRow /\ sub.status \in Serving /\ Applies(sub, incoming)
    <2>1. handler' = [handler EXCEPT ![w] =
                        [(IF known THEN [handler[w] EXCEPT !.at = "save", !.snapshot = incoming]
                          ELSE [handler[w] EXCEPT !.at = "order"])
                         EXCEPT !.orderEvent = "payment_failed"]]
      BY <1>3 DEF Read
    <2>2. CASE known
      <3> DEFINE h == [[handler[w] EXCEPT !.at = "save", !.snapshot = incoming]
                         EXCEPT !.orderEvent = "payment_failed"]
      <3>1. sub \in Row /\ incoming \in Row
        <4>1. sub \in Row
          BY <1>0, <2>2 DEF RowOrNone
        <4>2. [sub EXCEPT !.status = "past_due", !.created = feed[e].created] \in Row
          BY <1>0, <4>1, RowChanged DEF SubscriptionStatus
        <4>. QED BY <4>1, <4>2
      <3>2. /\ h \in Handling /\ h.event = e /\ h.at = "save" /\ h.snapshot = incoming
            /\ h.orderEvent = "payment_failed"
        BY <1>0, <3>1 DEF Handling, Steps, RowOrNone, OrderEvents
      <3>3. handler' = [handler EXCEPT ![w] = h]
        BY <2>1, <2>2
      <3>. QED BY <1>3, <2>2, <3>1, <3>2, <3>3
    <2>3. CASE ~known
      <3> DEFINE h == [[handler[w] EXCEPT !.at = "order"] EXCEPT !.orderEvent = "payment_failed"]
      <3>1. /\ h \in Handling /\ h.event = e /\ h.at = "order" /\ h.snapshot = handler[w].snapshot
            /\ h.orderEvent = "payment_failed"
        BY <1>0 DEF Handling, Steps, OrderEvents
      <3>2. handler' = [handler EXCEPT ![w] = h]
        BY <2>1, <2>3
      <3>. QED BY <1>3, <3>1, <3>2
    <2>. QED BY <2>2, <2>3
  <1>4. CASE Type(w) = "invoice_paid"
    <2> DEFINE next == IF sub = NoRow THEN "none" ELSE "payment_succeeded"
               h == [[handler[w] EXCEPT !.at = "open"] EXCEPT !.period = feed[e].period,
                                                              !.orderEvent = next]
    <2>1. handler' = [handler EXCEPT ![w] = h]
      BY <1>4 DEF Read
    <2>2. /\ h \in Handling /\ h.event = e /\ h.at = "open" /\ h.snapshot = handler[w].snapshot
          /\ h.period = feed[e].period
      BY <1>0 DEF Handling, Steps, OrderEvents
    <2>. QED BY <1>4, <2>1, <2>2
  <1>5. CASE Type(w) = "checkout"
    <2>1. CASE handler' = [handler EXCEPT ![w] = [handler[w] EXCEPT !.at = "finish"]]
      <3> DEFINE h == [handler[w] EXCEPT !.at = "finish"]
      <3>1. h \in Handling /\ h.event = e /\ h.at = "finish" /\ h.snapshot = handler[w].snapshot
        BY <1>0 DEF Handling, Steps
      <3>. QED BY <1>5, <2>1, <3>1
    <2>2. CASE /\ sub = NoRow /\ Reported # {}
               /\ handler' = [handler EXCEPT ![w] =
                     [handler[w] EXCEPT !.at = "save",
                                        !.snapshot = Snapshot(Latest, feed[e].created)]]
      <3> DEFINE h == [handler[w] EXCEPT !.at = "save",
                                         !.snapshot = Snapshot(Latest, feed[e].created)]
      <3>1. Latest \in Reported
        BY <2>2 DEF Equipped, LatestKnown
      <3>2. Snapshot(Latest, feed[e].created) \in Row
        BY <1>0, <3>1, SnapshotTyped
      <3>3. /\ h \in Handling /\ h.event = e /\ h.at = "save"
            /\ h.snapshot = Snapshot(Latest, feed[e].created)
            /\ h.orderEvent = handler[w].orderEvent
        BY <1>0, <3>2 DEF Handling, Steps, RowOrNone
      <3>. QED BY <1>5, <2>2, <3>2, <3>3
    <2>. QED BY <1>5, <2>1, <2>2 DEF Read
  <1>6. Type(w) \in EventType
    BY <1>0, HandlerTyped DEF Type
  <1>. QED BY <1>2, <1>3, <1>4, <1>5, <1>6 DEF EventType

\* The upsert keeps the newer of the two.
LEMMA SavedTyped ==
  ASSUME NEW row \in RowOrNone, NEW snapshot \in Row
  PROVE  /\ Saved(row, snapshot) \in Row /\ Saved(row, snapshot) \in {row, snapshot}
         /\ Saved(row, snapshot).created >= snapshot.created
         /\ row # NoRow => Saved(row, snapshot).created >= row.created
         /\ snapshot.created >= row.created => Saved(row, snapshot) = snapshot
  BY MirrorAssumption DEF Saved, RowOrNone, Row

\* The handler once its row is saved.
AfterSave(h, to, end, kind) ==
  [h EXCEPT !.at = to, !.snapshot = NoRow, !.period = end, !.orderEvent = kind]

LEMMA HandlerSaved ==
  ASSUME NEW h \in Handling, NEW to \in Steps, NEW end \in Nat,
         NEW kind \in OrderEvents \cup {"none"}
  PROVE  /\ AfterSave(h, to, end, kind) \in Handling
         /\ AfterSave(h, to, end, kind).at = to
         /\ AfterSave(h, to, end, kind).event = h.event
         /\ AfterSave(h, to, end, kind).snapshot = NoRow
         /\ AfterSave(h, to, end, kind).period = end
         /\ AfterSave(h, to, end, kind).orderEvent = kind
  BY DEF AfterSave, Handling, RowOrNone

\* The row as it stands decides what follows.
LEMMA Saves ==
  ASSUME Equipped, NEW w \in Workers, Save(w)
  PROVE  /\ sub' = Saved(sub, handler[w].snapshot) /\ sub' \in Row
         /\ \E h \in Handling :
              /\ handler' = [handler EXCEPT ![w] = h]
              /\ h.event = handler[w].event /\ h.snapshot = NoRow /\ h.period = sub'.period
              /\ h.at \in {"open", "order", "finish"}
              /\ h.at = "open" <=> sub'.status \in Serving
              /\ h.at = "finish" => Type(w) = "checkout"
              /\ h.at = "order" => Type(w) # "checkout"
              /\ Type(w) # "subscription" => h.orderEvent = handler[w].orderEvent
              /\ Type(w) = "subscription" => h.orderEvent \in OrderEvents
  <1> DEFINE row == Saved(sub, handler[w].snapshot)
             order_ == IF Type(w) = "checkout" THEN "finish" ELSE "order"
             to == IF row.status \in Serving THEN "open" ELSE order_
             kind == IF Type(w) = "subscription" THEN OrderEvent(row.status)
                      ELSE handler[w].orderEvent
             h == AfterSave(handler[w], to, row.period, kind)
  <1>1. /\ handler[w].at = "save" /\ handler[w] \in Handling /\ handler[w].snapshot \in Row
        /\ sub \in RowOrNone
    BY HandlerTyped DEF Save, Equipped, TypeOK, HandlersEquipped
  <1>2. row \in Row
    BY <1>1, SavedTyped
  <1>3. sub' = row /\ sub' = Saved(sub, handler[w].snapshot)
    BY DEF Save
  <1>4. handler' = [handler EXCEPT ![w] = h]
    BY DEF Save, AfterSave
  <1>5. OrderEvent(row.status) \in OrderEvents
    BY DEF OrderEvent, OrderEvents
  <1>6. kind \in OrderEvents \cup {"none"} /\ row.period \in Nat /\ to \in Steps
    BY <1>1, <1>2, <1>5 DEF Handling, Row, Steps
  <1>7. /\ h \in Handling /\ h.event = handler[w].event /\ h.snapshot = NoRow
        /\ h.period = row.period /\ h.at = to /\ h.orderEvent = kind
    <2>1. handler[w] \in Handling
      BY <1>1
    <2>. HIDE DEF row, to, kind
    <2>. QED BY <1>6, <2>1, HandlerSaved
  <1>8. /\ to \in {"open", "order", "finish"}
        /\ to = "open" <=> row.status \in Serving
        /\ to = "finish" => Type(w) = "checkout"
        /\ to = "order" => Type(w) # "checkout"
        /\ Type(w) # "subscription" => kind = handler[w].orderEvent
        /\ Type(w) = "subscription" => kind \in OrderEvents
    BY <1>5
  <1>. HIDE DEF row, to, kind, h
  <1>. QED BY <1>2, <1>3, <1>4, <1>7, <1>8

\* The other steps over the database, and where they lead.
LEMMA Opens ==
  ASSUME Equipped, NEW w \in Workers, Open(w)
  PROVE  \E h \in Handling :
           /\ handler' = [handler EXCEPT ![w] = h]
           /\ h.event = handler[w].event /\ h.at \in {"order", "finish"}
           /\ h.at = "order" => h.orderEvent \in OrderEvents /\ h.snapshot = handler[w].snapshot
                                /\ Type(w) # "checkout"
           /\ h.at = "finish" => h.snapshot = NoRow
  <1>1. handler[w].at = "open" /\ handler[w] \in Handling /\ TypeOK
    BY HandlerTyped DEF Open, Equipped
  <1>2. Type(w) = "checkout" => handler[w].orderEvent = "none"
    BY <1>1 DEF Equipped, HandlersEquipped
  <1>3. CASE handler[w].orderEvent = "none"
    <2>1. Goes(w, "finish")
      BY <1>3 DEF Open
    <2>2. PICK h \in Handling : /\ handler' = [handler EXCEPT ![w] = h] /\ h.at = "finish"
                                /\ h.event = handler[w].event /\ h.snapshot = NoRow
      BY <1>1, <2>1, GoneTo DEF Steps
    <2>. QED BY <2>2
  <1>4. CASE handler[w].orderEvent # "none"
    <2>1. Goes(w, "order")
      BY <1>4 DEF Open
    <2>2. PICK h \in Handling : /\ handler' = [handler EXCEPT ![w] = h] /\ h.at = "order"
                                /\ h.event = handler[w].event
                                /\ h.snapshot = handler[w].snapshot
                                /\ h.orderEvent = handler[w].orderEvent
      BY <1>1, <2>1, GoneTo DEF Steps
    <2>3. handler[w].orderEvent \in OrderEvents
      BY <1>1, <1>4 DEF Handling
    <2>. QED BY <1>2, <1>4, <2>2, <2>3
  <1>. QED BY <1>3, <1>4

LEMMA ReadsOrder ==
  ASSUME Equipped, NEW w \in Workers, ReadOrder(w)
  PROVE  \E h \in Handling :
           /\ handler' = [handler EXCEPT ![w] = h]
           /\ h.event = handler[w].event /\ h.at = "move" /\ h.snapshot = handler[w].snapshot
           /\ h.orderEvent \in OrderEvents
  <1> DEFINE kind == IF Type(w) # "checkout" THEN handler[w].orderEvent
                      ELSE IF feed[handler[w].event].status = "paid"
                           THEN "payment_succeeded" ELSE "checkout_completed_unpaid"
             h == [handler[w] EXCEPT !.at = "move", !.seen = order, !.period = 0,
                                     !.orderEvent = kind]
  <1>1. handler[w].at = "order" /\ handler[w] \in Handling /\ order \in OrderStatus
    BY HandlerTyped DEF ReadOrder, Equipped, TypeOK
  <1>2. kind \in OrderEvents
    BY <1>1 DEF Equipped, HandlersEquipped, OrderEvents
  <1>3. handler' = [handler EXCEPT ![w] = h]
    BY DEF ReadOrder
  <1>4. /\ h \in Handling /\ h.event = handler[w].event /\ h.at = "move"
        /\ h.snapshot = handler[w].snapshot /\ h.orderEvent = kind
    <2>. HIDE DEF kind
    <2>. QED BY <1>1, <1>2 DEF Handling, Steps
  <1>. QED BY <1>2, <1>3, <1>4

LEMMA MovesOrder ==
  ASSUME Equipped, NEW w \in Workers, MoveOrder(w)
  PROVE  /\ order' \in OrderStatus
         /\ \E h \in Handling :
              /\ handler' = [handler EXCEPT ![w] = h]
              /\ h.event = handler[w].event /\ h.snapshot = NoRow /\ h.orderEvent = "none"
              /\ h.at = IF Type(w) = "checkout" THEN "read" ELSE "finish"
  <1>1. /\ handler[w].at = "move" /\ handler[w].orderEvent \in OrderEvents
        /\ order \in OrderStatus /\ TypeOK
    BY DEF MoveOrder, Equipped, TypeOK, HandlersEquipped
  <1>2. To[handler[w].orderEvent] \in OrderStatus
    BY <1>1 DEF To, OrderEvents, OrderStatus
  <1>3. order' \in OrderStatus
    BY <1>1, <1>2 DEF MoveOrder, Moved
  <1>4. Goes(w, IF Type(w) = "checkout" THEN "read" ELSE "finish")
    BY DEF MoveOrder
  <1>5. PICK h \in Handling : /\ handler' = [handler EXCEPT ![w] = h]
                              /\ h.at = IF Type(w) = "checkout" THEN "read" ELSE "finish"
                              /\ h.event = handler[w].event
                              /\ h.snapshot = NoRow /\ h.orderEvent = "none"
    BY <1>1, <1>4, GoneTo DEF Steps
  <1>. QED BY <1>3, <1>5

LEMMA HandleTyped ==
  ASSUME Equipped, NEW w \in Workers,
         Read(w) \/ Save(w) \/ Open(w) \/ ReadOrder(w) \/ MoveOrder(w)
  PROVE  Equipped'
  <1>0. /\ TypeOK /\ HandlersEquipped
        /\ receipts \in [Event -> {"none", "received", "done"}]
        /\ acked \subseteq Issued /\ excused \subseteq Issued
        /\ sub \in RowOrNone /\ allowance \subseteq Nat /\ order \in OrderStatus
        /\ faults \in Nat /\ faults <= MaxFaults
        /\ handler[w].at # "idle" /\ handler[w].event \in Issued /\ handler[w] \in Handling
    BY HandlerTyped DEF Equipped, TypeOK, Read, Save, Open, ReadOrder, MoveOrder
  <1>1. ASSUME Read(w) PROVE Equipped'
    <2>1. UNCHANGED <<feed, issued, now, job, faults, passes, receipts, acked, excused, sub,
                      allowance, order>>
      BY <1>1 DEF Read
    <2>2. PICK h \in Handling :
           /\ handler' = [handler EXCEPT ![w] = h]
           /\ h.event = handler[w].event /\ h.at \in {"save", "open", "order", "finish"}
           /\ h.at = "save" => h.snapshot \in Row
           /\ h.at = "save" => \/ Type(w) = "subscription"
                               \/ Type(w) = "payment_failed" /\ h.orderEvent = "payment_failed"
                               \/ Type(w) = "checkout" /\ h.orderEvent = handler[w].orderEvent
           /\ h.at = "open" => Type(w) = "invoice_paid"
           /\ h.at = "order" => h.orderEvent = "payment_failed"
      BY <1>1, ReadsRow
    <2>3. Type(w) = "checkout" => handler[w].orderEvent = "none"
      BY <1>0, <1>1 DEF HandlersEquipped, Read
    <2>. QED BY <1>0, <2>1, <2>2, <2>3, HandlerStep DEF Type, OrderEvents
  <1>2. ASSUME Save(w) PROVE Equipped'
    <2>1. UNCHANGED <<feed, issued, now, job, faults, passes, receipts, acked, excused,
                      allowance, order>>
      BY <1>2 DEF Save
    <2>2. /\ handler[w].at = "save" /\ Type(w) # "invoice_paid" /\ Type(w) \in EventType
          /\ Type(w) = "checkout" => handler[w].orderEvent = "none"
          /\ Type(w) = "payment_failed" => handler[w].orderEvent \in OrderEvents
      BY <1>0, <1>2, HandlerTyped DEF HandlersEquipped, Save, Type
    <2>3. PICK h \in Handling :
              /\ handler' = [handler EXCEPT ![w] = h]
              /\ h.event = handler[w].event /\ h.at \in {"open", "order", "finish"}
              /\ Type(w) # "subscription" => h.orderEvent = handler[w].orderEvent
              /\ Type(w) = "subscription" => h.orderEvent \in OrderEvents
      BY <1>2, Saves
    <2>4. sub' \in RowOrNone
      BY <1>2, Saves DEF RowOrNone
    <2>. QED BY <1>0, <2>1, <2>2, <2>3, <2>4, HandlerStep DEF Type, EventType
  <1>3. ASSUME Open(w) PROVE Equipped'
    <2>1. /\ UNCHANGED <<feed, issued, now, job, faults, passes, receipts, acked, excused, sub,
                         order>>
          /\ allowance' = allowance \cup {handler[w].period}
      BY <1>3 DEF Open
    <2>2. allowance' \subseteq Nat
      BY <1>0, <2>1 DEF Handling
    <2>3. PICK h \in Handling :
           /\ handler' = [handler EXCEPT ![w] = h]
           /\ h.event = handler[w].event /\ h.at \in {"order", "finish"}
           /\ h.at = "order" => h.orderEvent \in OrderEvents
      BY <1>3, Opens
    <2>. QED BY <1>0, <2>1, <2>2, <2>3, HandlerStep
  <1>4. ASSUME ReadOrder(w) PROVE Equipped'
    <2>1. UNCHANGED <<feed, issued, now, job, faults, passes, receipts, acked, excused, sub,
                      allowance, order>>
      BY <1>4 DEF ReadOrder
    <2>2. PICK h \in Handling :
           /\ handler' = [handler EXCEPT ![w] = h]
           /\ h.event = handler[w].event /\ h.at = "move" /\ h.orderEvent \in OrderEvents
      BY <1>4, ReadsOrder
    <2>. QED BY <1>0, <2>1, <2>2, HandlerStep
  <1>5. ASSUME MoveOrder(w) PROVE Equipped'
    <2>1. UNCHANGED <<feed, issued, now, job, faults, passes, receipts, acked, excused, sub,
                      allowance>>
      BY <1>5 DEF MoveOrder
    <2>2. PICK h \in Handling :
           /\ handler' = [handler EXCEPT ![w] = h]
           /\ h.event = handler[w].event /\ h.at \in {"read", "finish"}
           /\ h.orderEvent = "none"
      BY <1>5, MovesOrder
    <2>3. order' \in OrderStatus
      BY <1>5, MovesOrder
    <2>. QED BY <1>0, <2>1, <2>2, <2>3, HandlerStep
  <1>. QED BY <1>1, <1>2, <1>3, <1>4, <1>5

-----------------------------------------------------------------------------
(* The tick's passes. *)

\* What Stripe's record of a subscription becomes when a pass takes it over.
Recovery ==
  [Snapshot(Latest, 0) EXCEPT !.created = IF job.began > job.row.created THEN job.began
                                          ELSE job.row.created]

LEMMA RecoveryTyped ==
  ASSUME Equipped, Reported # {}, job.row \in Row
  PROVE  /\ Recovery \in Row
         /\ Recovery.status = feed[Latest].status /\ Recovery.period = feed[Latest].period
         /\ Recovery.created \in {job.began, job.row.created}
         /\ Recovery.created >= job.began /\ Recovery.created >= job.row.created
  <1>1. Latest \in Reported /\ job.began \in Nat /\ job.row.created \in Nat
    BY DEF Equipped, LatestKnown, TypeOK, Job, Row
  <1>2. /\ Snapshot(Latest, 0) \in Row
        /\ Snapshot(Latest, 0).status = feed[Latest].status
        /\ Snapshot(Latest, 0).period = feed[Latest].period
    BY <1>1, SnapshotTyped
  <1>. QED BY <1>1, <1>2 DEF Recovery, Row

\* A step of a pass: it reads the row, writes it or opens a period.
LEMMA PassSteps ==
  ASSUME Equipped, Tick
  PROVE  /\ UNCHANGED <<feed, issued, now, receipts, acked, excused, order, handler>>
         /\ job' \in Job
         /\ job' # NoJob => job'.row \in Row
         /\ faults' \in Nat /\ faults' <= MaxFaults /\ passes' \in Nat /\ passes' <= MaxPasses
         /\ \/ sub' = sub
            \/ /\ job.at = "sweep" /\ job.row \in Row /\ job.row.status = "past_due"
               /\ sub' = Saved(sub, [job.row EXCEPT !.status = "unpaid"])
            \/ /\ job.at = "apply" /\ job.row \in Row
               /\ sub' = Saved(sub, job.row)
         /\ \/ job' = NoJob
            \/ job'.row \in {sub, sub'} /\ job'.began \in {now, job.began}
            \/ /\ job'.row = Recovery /\ job'.began = job.began /\ Reported # {} /\ job.row \in Row
               /\ feed[Latest].status \in Serving /\ Applies(job.row, Recovery)
         /\ allowance' \subseteq Nat /\ allowance \subseteq allowance'
  <1>0. /\ sub \in RowOrNone /\ job \in Job
        /\ job # NoJob => job.row \in Row
        /\ now \in Nat /\ faults \in Nat /\ faults <= MaxFaults
        /\ passes \in Nat /\ passes <= MaxPasses /\ allowance \subseteq Nat
        /\ MaxFaults \in Nat /\ MaxPasses \in Nat /\ NoJob \in Job /\ NoJob.at = "idle"
    BY MirrorAssumption, Shapes DEF Equipped, TypeOK, JobEquipped
  <1>1. ASSUME NEW kind \in {"sweep", "reconcile"}, BeginPass(kind)
        PROVE  /\ UNCHANGED <<feed, issued, now, receipts, acked, excused, order, handler, sub,
                              faults, allowance>>
               /\ passes' = passes + 1 /\ passes < MaxPasses
               /\ job' \in Job
               /\ job' # NoJob => job'.row \in Row
               /\ job' = NoJob \/ (job'.row = sub /\ job'.began = now)
    <2>1. CASE sub = NoRow
      BY <1>0, <1>1, <2>1 DEF BeginPass
    <2>2. CASE sub # NoRow
      <3> DEFINE next == [at |-> kind, row |-> sub, began |-> now]
      <3>1. sub \in Row /\ job' = next
        BY <1>0, <1>1, <2>2 DEF BeginPass, RowOrNone
      <3>2. next \in Job /\ next.row = sub /\ next.began = now
        BY <1>0, <3>1 DEF Job
      <3>. QED BY <1>1, <3>1, <3>2 DEF BeginPass
    <2>. QED BY <2>1, <2>2
  <1>2. ASSUME Reconcile
        PROVE  /\ UNCHANGED <<feed, issued, now, receipts, acked, excused, order, handler, sub,
                              faults, passes, allowance>>
               /\ job' \in Job
               /\ job' # NoJob => job'.row \in Row
               /\ \/ job' = NoJob
                  \/ /\ job'.row = Recovery /\ job'.began = job.began /\ Reported # {}
                     /\ job.row \in Row
                     /\ feed[Latest].status \in Serving /\ Applies(job.row, Recovery)
    <2>1. job.row \in Row
      BY <1>0, <1>2 DEF Reconcile
    <2> DEFINE taken == /\ Reported # {} /\ feed[Latest].status \in Serving
                        /\ job.row.status \notin Serving /\ Applies(job.row, Recovery)
               next == [job EXCEPT !.at = "apply", !.row = Recovery]
    <2>2. job' = IF taken THEN next ELSE NoJob
      BY <1>2 DEF Reconcile, Recovery
    <2>3. CASE taken
      <3>1. Recovery \in Row
        BY <2>1, <2>3, RecoveryTyped
      <3>2. next \in Job /\ next.row = Recovery /\ next.began = job.began
        BY <1>0, <3>1 DEF Job, RowOrNone
      <3>. QED BY <1>2, <2>1, <2>2, <2>3, <3>1, <3>2 DEF Reconcile
    <2>4. CASE ~taken
      BY <1>0, <1>2, <2>2, <2>4 DEF Reconcile
    <2>. QED BY <2>3, <2>4
  <1>3. ASSUME Apply
        PROVE  /\ UNCHANGED <<feed, issued, now, receipts, acked, excused, order, handler,
                              faults, passes, allowance>>
               /\ job' \in Job /\ job'.row \in Row
               /\ job'.row = sub' /\ job'.began = job.began
               /\ job.at = "apply" /\ job.row \in Row /\ sub' = Saved(sub, job.row)
    <2>1. job.at = "apply" /\ job.row \in Row
      BY <1>0, <1>3 DEF Apply
    <2>2. Saved(sub, job.row) \in Row
      BY <1>0, <2>1, SavedTyped
    <2>3. job' = [job EXCEPT !.at = "open", !.row = Saved(sub, job.row)]
      BY <1>3 DEF Apply
    <2>4. job' \in Job /\ job'.row = Saved(sub, job.row) /\ job'.began = job.began
      BY <1>0, <2>2, <2>3 DEF Job, RowOrNone
    <2>. QED BY <1>3, <2>1, <2>2, <2>4 DEF Apply
  <1>4. ASSUME OpenRecovered
        PROVE  /\ UNCHANGED <<feed, issued, now, receipts, acked, excused, order, handler, sub,
                              faults, passes>>
               /\ job' = NoJob /\ allowance' \subseteq Nat /\ allowance \subseteq allowance'
    <2>1. job.row \in Row
      BY <1>0, <1>4 DEF OpenRecovered
    <2>. QED BY <1>0, <1>4, <2>1 DEF OpenRecovered, Row
  <1>5. CASE BeginPass("sweep") \/ BeginPass("reconcile")
    BY <1>0, <1>1, <1>5
  <1>6. CASE Sweep
    BY <1>0, <1>6 DEF Sweep
  <1>7. CASE Reconcile
    BY <1>0, <1>2, <1>7
  <1>8. CASE Apply
    BY <1>0, <1>3, <1>8
  <1>9. CASE OpenRecovered
    BY <1>0, <1>4, <1>9
  <1>10. CASE PassFails
    BY <1>0, <1>10 DEF PassFails, Fault
  <1>. QED BY <1>5, <1>6, <1>7, <1>8, <1>9, <1>10 DEF Tick

LEMMA PassTyped ==
  ASSUME Equipped, Tick
  PROVE  Equipped'
  <1>1. /\ UNCHANGED <<feed, issued, now, receipts, acked, excused, order, handler>>
        /\ job' \in Job
        /\ job' # NoJob => job'.row \in Row
        /\ faults' \in Nat /\ faults' <= MaxFaults /\ passes' \in Nat /\ passes' <= MaxPasses
        /\ allowance' \subseteq Nat
    BY PassSteps
  <1>2. sub' \in RowOrNone
    <2>1. sub \in RowOrNone
      BY DEF Equipped, TypeOK
    <2>2. CASE /\ job.row \in Row
               /\ sub' = Saved(sub, [job.row EXCEPT !.status = "unpaid"])
      BY <2>1, <2>2, SavedTyped, RowChanged DEF SubscriptionStatus, RowOrNone
    <2>3. CASE job.row \in Row /\ sub' = Saved(sub, job.row)
      BY <2>1, <2>3, SavedTyped DEF RowOrNone
    <2>. QED BY <2>1, <2>2, <2>3, PassSteps
  <1>3. Event' = Event /\ Issued' = Issued
    BY <1>1 DEF Event, Issued
  <1>4. TypeOK' /\ HandlersEquipped'
    BY <1>1, <1>2, <1>3 DEF Equipped, TypeOK, HandlersEquipped, Held, Type
  <1>5. JobEquipped'
    BY <1>1 DEF JobEquipped, NoJob
  <1>6. LatestKnown'
    BY <1>1, LatestGrows DEF Equipped, TypeOK
  <1>. QED BY <1>4, <1>5, <1>6 DEF Equipped

LEMMA StepTyped ==
  ASSUME Equipped, [Next]_vars
  PROVE  Equipped'
  <1>1. CASE Issue
    BY <1>1, IssueTyped
  <1>2. ASSUME NEW w \in Workers, Handle(w) \/ Throw(w) \/ Strand(w) \/ \E e \in Event : Deliver(w, e)
        PROVE  Equipped'
    BY <1>2, HandleTyped, DeliveryTyped DEF Handle
  <1>3. CASE Tick
    BY <1>3, PassTyped
  <1>4. CASE UNCHANGED vars
    <2>1. LatestKnown'
      BY <1>4, LatestGrows DEF vars, Equipped, TypeOK
    <2>2. TypeOK' /\ HandlersEquipped' /\ JobEquipped'
      BY <1>4 DEF vars, Equipped, TypeOK, HandlersEquipped, JobEquipped, Held, Type, NoJob, Event,
                  Issued
    <2>. QED BY <2>1, <2>2 DEF Equipped
  <1>. QED BY <1>1, <1>2, <1>3, <1>4 DEF Next

LEMMA InitTyped == Init => Equipped
  <1>1. SUFFICES ASSUME Init PROVE Equipped
    OBVIOUS
  <1>2. Len(feed) \in Nat
    BY <1>1, FeedTyped DEF Init
  <1>3. TypeOK
    BY <1>1, <1>2, Shapes, MirrorAssumption DEF Init, TypeOK, RowOrNone, OrderStatus, Event
  <1>4. HandlersEquipped /\ JobEquipped
    BY <1>1, Shapes DEF Init, HandlersEquipped, JobEquipped, Held
  <1>5. LatestKnown
    BY <1>1 DEF Init, LatestKnown, Reported, Issued
  <1>. QED BY <1>3, <1>4, <1>5 DEF Equipped

\* In every behaviour the tables, the handlers and the tick's pass hold what they are
\* declared to hold, and each what its step needs (billing/events.ts, reconcile.ts).
THEOREM TypeCorrect == Spec => []TypeOK
  <1>1. Equipped => TypeOK
    BY DEF Equipped
  <1>. QED BY <1>1, InitTyped, StepTyped, PTL DEF Spec

LEMMA AlwaysEquipped == Spec => []Equipped
  BY InitTyped, StepTyped, PTL DEF Spec

-----------------------------------------------------------------------------
(* Guard 1: the newest wins. *)

\* Every writer of the row goes through the upsert.
LEMMA WritersUpsert ==
  ASSUME Equipped, [Next]_vars
  PROVE  \/ sub' = sub
         \/ \E w \in Workers : /\ Save(w) /\ handler[w].snapshot \in Row
                               /\ sub' = Saved(sub, handler[w].snapshot)
         \/ /\ job.row \in Row
            /\ \/ job.at = "apply" /\ sub' = Saved(sub, job.row)
               \/ /\ job.at = "sweep" /\ job.row.status = "past_due"
                  /\ sub' = Saved(sub, [job.row EXCEPT !.status = "unpaid"])
  <1>1. CASE Issue
    BY <1>1 DEF Issue
  <1>2. ASSUME NEW w \in Workers, Handle(w) \/ Throw(w) \/ Strand(w) \/ \E e \in Event : Deliver(w, e),
               ~Save(w)
        PROVE  sub' = sub
    BY <1>2 DEF Handle, Read, Open, ReadOrder, MoveOrder, Finish, Abandon, Throw, Strand, Deliver
  <1>3. ASSUME NEW w \in Workers, Save(w)
        PROVE  handler[w].snapshot \in Row /\ sub' = Saved(sub, handler[w].snapshot)
    BY <1>3, Saves DEF Save, Equipped, HandlersEquipped
  <1>4. CASE Tick
    BY <1>4, PassSteps
  <1>5. CASE UNCHANGED vars
    BY <1>5 DEF vars
  <1>. QED BY <1>1, <1>2, <1>3, <1>4, <1>5 DEF Next

\* provider_event_created of the stored row never goes back, whichever of the handlers
\* and passes writes it, and however old the row was that it read before.
THEOREM NewestStays == Spec => NewestWins
  <1>1. ASSUME Equipped, [Next]_vars
        PROVE  [sub # NoRow => sub'.created >= sub.created]_vars
    <2>1. SUFFICES ASSUME sub # NoRow PROVE sub'.created >= sub.created
      OBVIOUS
    <2>2. sub \in Row /\ sub \in RowOrNone
      BY <1>1, <2>1 DEF Equipped, TypeOK, RowOrNone
    <2>3. CASE sub' = sub
      BY <2>2, <2>3 DEF Row
    <2>4. ASSUME NEW snapshot \in Row, sub' = Saved(sub, snapshot) PROVE sub'.created >= sub.created
      BY <2>1, <2>2, <2>4, SavedTyped
    <2>5. job.row \in Row => [job.row EXCEPT !.status = "unpaid"] \in Row
      BY RowChanged DEF SubscriptionStatus
    <2>. QED BY <1>1, <2>3, <2>4, <2>5, WritersUpsert
  <1>. QED BY <1>1, AlwaysEquipped, PTL DEF Spec, NewestWins

-----------------------------------------------------------------------------
(* An event is in one hand at a time, and a paid invoice opens its period. *)

Hands == Equipped /\ OneHolder /\ PaidIsOpened

\* A step of a handler within its event.
LEMMA HandStep ==
  ASSUME Hands, NEW w \in Workers, NEW h \in Handling, Held(w),
         handler' = [handler EXCEPT ![w] = h], h.event = handler[w].event, h.at # "idle",
         UNCHANGED <<feed, receipts, acked>>, excused \subseteq excused',
         allowance \subseteq allowance',
         Type(w) = "invoice_paid" =>
           /\ h.at = "open" => h.period = feed[h.event].period
           /\ h.at \in {"order", "move", "finish"} => feed[h.event].period \in allowance'
  PROVE  OneHolder' /\ PaidIsOpened'
  <1>1. /\ handler' \in [Workers -> Handling] /\ handler'[w] = h
        /\ \A v \in Workers : v # w => handler'[v] = handler[v]
    BY HandlerSet DEF Hands, Equipped
  <1>2. Event' = Event
    BY DEF Event
  <1>3. OneHolder'
    BY <1>1 DEF Hands, OneHolder, Held
  <1>4. PaidIsOpened'
    BY <1>1, <1>2 DEF Hands, PaidIsOpened, Type
  <1>. QED BY <1>3, <1>4

\* A handler that lets go of its event.
LEMMA HandsLetGo ==
  ASSUME Hands, NEW w \in Workers, Finish(w) \/ Abandon(w) \/ Strand(w)
  PROVE  OneHolder' /\ PaidIsOpened'
  <1> DEFINE e == handler[w].event
  <1>1. /\ Held(w) /\ handler' = [handler EXCEPT ![w] = Idle] /\ UNCHANGED <<feed, allowance>>
    BY DEF Finish, Abandon, Strand, Held
  <1>2. /\ handler' \in [Workers -> Handling] /\ handler'[w] = Idle
        /\ \A v \in Workers : v # w => handler'[v] = handler[v]
    BY <1>1, HandlerSet, Shapes DEF Hands, Equipped
  <1>3. /\ e \in Event /\ receipts \in [Event -> {"none", "received", "done"}]
        /\ receipts[e] = "received" /\ e \notin acked \ excused
    BY <1>1, HandlerTyped DEF Hands, Equipped, TypeOK, OneHolder, Held
  <1>4. \A v \in Workers : v # w /\ Held(v) => handler[v].event # e
    BY <1>1 DEF Hands, OneHolder
  <1>5. \A v \in Workers : handler'[v].at # "idle" =>
          v # w /\ Held(v) /\ handler'[v] = handler[v] /\ handler[v].event # e
    BY <1>2, <1>4, Shapes DEF Held
  <1>6. \A d \in Event : d # e => receipts'[d] = receipts[d]
    BY <1>3 DEF Finish, Abandon, Strand
  <1>7. Event' = Event
    BY <1>1 DEF Event
  <1>8. /\ acked' \subseteq acked \cup {e} /\ excused \subseteq excused'
        /\ e \in acked' \ excused' => receipts'[e] = "done"
        /\ receipts'[e] = "done" => handler[w].at = "finish"
    BY <1>3 DEF Finish, Abandon, Strand
  <1>9. OneHolder'
    <2>1. \A v \in Workers : Held(v)' => receipts'[handler'[v].event] = "received"
      <3>1. SUFFICES ASSUME NEW v \in Workers, handler'[v].at # "idle"
                     PROVE  receipts'[handler'[v].event] = "received"
        BY DEF Held
      <3>2. Held(v) /\ handler'[v] = handler[v] /\ handler[v].event # e /\ handler[v].event \in Event
        BY <1>5, <3>1, HandlerTyped DEF Hands, Held
      <3>. QED BY <1>6, <3>2 DEF Hands, OneHolder
    <2>2. \A u, v \in Workers :
            Held(u)' /\ Held(v)' /\ handler'[u].event = handler'[v].event => u = v
      BY <1>5 DEF Hands, OneHolder, Held
    <2>3. \A d \in acked' \ excused' : receipts'[d] = "done"
      <3>1. acked \subseteq Event
        BY FeedTyped DEF Hands, Equipped, TypeOK, Issued, Event
      <3>. QED BY <1>6, <1>8, <3>1 DEF Hands, OneHolder
    <2>. QED BY <2>1, <2>2, <2>3 DEF OneHolder
  <1>10. PaidIsOpened'
    <2>1. SUFFICES ASSUME NEW d \in Event, feed[d].type = "invoice_paid"
                   PROVE  /\ receipts'[d] = "done" => feed[d].period \in allowance
                          /\ \A v \in Workers : handler'[v].event = d =>
                               /\ handler'[v].at = "open" => handler'[v].period = feed[d].period
                               /\ handler'[v].at \in {"order", "move", "finish"} =>
                                     feed[d].period \in allowance
      BY <1>1, <1>7 DEF PaidIsOpened
    <2>2. receipts'[d] = "done" => feed[d].period \in allowance
      BY <1>6, <1>8, <2>1 DEF Hands, PaidIsOpened
    <2>. QED BY <1>5, <2>1, <2>2 DEF Hands, PaidIsOpened
  <1>. QED BY <1>9, <1>10

LEMMA HandsTake ==
  ASSUME Hands, NEW w \in Workers, NEW e \in Event, Deliver(w, e)
  PROVE  OneHolder' /\ PaidIsOpened'
  <1>0. /\ receipts \in [Event -> {"none", "received", "done"}] /\ UNCHANGED <<feed, allowance>>
        /\ ~Held(w) /\ e \in Nat /\ Event' = Event
    BY FeedTyped DEF Hands, Equipped, TypeOK, Deliver, Event
  <1>1. CASE receipts[e] = "none"
    <2>1. PICK at \in {"order", "read"} :
            /\ receipts' = [receipts EXCEPT ![e] = "received"]
            /\ handler' = [handler EXCEPT ![w] = Claimed(e, at)]
            /\ at = "order" => feed[e].type = "checkout"
            /\ UNCHANGED <<acked, excused>>
      BY <1>1 DEF Deliver
    <2>2. Claimed(e, at) \in Handling /\ Claimed(e, at).at = at /\ Claimed(e, at).event = e
      BY <1>0, <2>1, Shapes DEF Steps
    <2>3. /\ handler' \in [Workers -> Handling] /\ handler'[w] = Claimed(e, at)
          /\ \A v \in Workers : v # w => handler'[v] = handler[v]
      BY <2>1, <2>2, HandlerSet DEF Hands, Equipped
    <2>4. \A v \in Workers : Held(v) => handler[v].event # e
      BY <1>1 DEF Hands, OneHolder
    <2>5. \A d \in Event : d # e => receipts'[d] = receipts[d]
      BY <1>0, <2>1
    <2>6. receipts'[e] = "received"
      BY <1>0, <2>1
    <2>7. OneHolder'
      <3>1. \A v \in Workers : Held(v)' => receipts'[handler'[v].event] = "received"
        <4>1. SUFFICES ASSUME NEW v \in Workers, v # w, Held(v)
                       PROVE  receipts'[handler[v].event] = "received"
          BY <2>2, <2>3, <2>6 DEF Held
        <4>2. handler[v].event \in Event /\ handler[v].event # e
          BY <2>4, <4>1, HandlerTyped DEF Hands, Held
        <4>. QED BY <2>5, <4>1, <4>2 DEF Hands, OneHolder
      <3>2. \A u, v \in Workers :
              Held(u)' /\ Held(v)' /\ handler'[u].event = handler'[v].event => u = v
        BY <2>2, <2>3, <2>4 DEF Hands, OneHolder, Held
      <3>3. \A d \in acked' \ excused' : receipts'[d] = "done"
        <4>1. acked \subseteq Event
          BY FeedTyped DEF Hands, Equipped, TypeOK, Issued, Event
        <4>. QED BY <1>1, <2>1, <2>5, <4>1 DEF Hands, OneHolder
      <3>. QED BY <3>1, <3>2, <3>3 DEF OneHolder
    <2>8. PaidIsOpened'
      BY <1>0, <2>1, <2>2, <2>3, <2>5, <2>6 DEF Hands, PaidIsOpened
    <2>. QED BY <2>7, <2>8
  <1>2. CASE receipts[e] # "none"
    <2>1. /\ UNCHANGED <<receipts, handler>> /\ acked' = acked \cup {e}
          /\ excused \subseteq excused'
          /\ e \notin excused' => receipts[e] = "done"
      BY <1>0, <1>2 DEF Deliver
    <2>. QED BY <1>0, <2>1 DEF Hands, OneHolder, PaidIsOpened, Held
  <1>. QED BY <1>1, <1>2

LEMMA HandsWork ==
  ASSUME Hands, NEW w \in Workers,
         Read(w) \/ Save(w) \/ Open(w) \/ ReadOrder(w) \/ MoveOrder(w) \/ Throw(w)
  PROVE  OneHolder' /\ PaidIsOpened'
  <1>0. /\ Held(w) /\ handler[w] \in Handling /\ handler[w].event \in Event /\ Equipped
        /\ UNCHANGED <<feed, receipts, acked, excused>>
        /\ Type(w) = "invoice_paid" =>
             /\ handler[w].at = "open" => handler[w].period = feed[handler[w].event].period
             /\ handler[w].at \in {"order", "move", "finish"} =>
                  feed[handler[w].event].period \in allowance
    <2>1. Held(w) /\ UNCHANGED <<feed, receipts, acked, excused>>
      BY DEF Held, Read, Save, Open, ReadOrder, MoveOrder, Throw
    <2>2. handler[w] \in Handling /\ handler[w].event \in Event /\ Equipped
      BY <2>1, HandlerTyped DEF Hands, Held
    <2>. QED BY <2>1, <2>2 DEF Hands, PaidIsOpened, Type
  <1>1. CASE Read(w)
    <2>1. PICK h \in Handling :
           /\ handler' = [handler EXCEPT ![w] = h]
           /\ h.event = handler[w].event /\ h.at \in {"save", "open", "order", "finish"}
           /\ h.at = "open" => h.period = feed[handler[w].event].period
           /\ h.at \in {"order", "finish"} => Type(w) # "invoice_paid"
      BY <1>0, <1>1, ReadsRow
    <2>2. allowance' = allowance
      BY <1>1 DEF Read
    <2>. QED BY <1>0, <2>1, <2>2, HandStep
  <1>2. CASE Save(w)
    <2>1. PICK h \in Handling :
           /\ handler' = [handler EXCEPT ![w] = h]
           /\ h.event = handler[w].event /\ h.at \in {"open", "order", "finish"}
      BY <1>0, <1>2, Saves
    <2>2. allowance' = allowance /\ Type(w) # "invoice_paid"
      BY <1>0, <1>2 DEF Save, Equipped, HandlersEquipped
    <2>. QED BY <1>0, <2>1, <2>2, HandStep
  <1>3. CASE Open(w)
    <2>1. PICK h \in Handling :
           /\ handler' = [handler EXCEPT ![w] = h]
           /\ h.event = handler[w].event /\ h.at \in {"order", "finish"}
      BY <1>0, <1>3, Opens
    <2>2. allowance' = allowance \cup {handler[w].period} /\ handler[w].at = "open"
      BY <1>3 DEF Open
    <2>. QED BY <1>0, <2>1, <2>2, HandStep
  <1>4. CASE ReadOrder(w)
    <2>1. PICK h \in Handling :
           /\ handler' = [handler EXCEPT ![w] = h] /\ h.event = handler[w].event /\ h.at = "move"
      BY <1>0, <1>4, ReadsOrder
    <2>2. allowance' = allowance /\ handler[w].at = "order"
      BY <1>4 DEF ReadOrder
    <2>. QED BY <1>0, <2>1, <2>2, HandStep
  <1>5. CASE MoveOrder(w)
    <2>1. PICK h \in Handling :
           /\ handler' = [handler EXCEPT ![w] = h] /\ h.event = handler[w].event
           /\ h.at \in {"read", "finish"}
      BY <1>0, <1>5, MovesOrder
    <2>2. allowance' = allowance /\ handler[w].at = "move"
      BY <1>5 DEF MoveOrder
    <2>. QED BY <1>0, <2>1, <2>2, HandStep
  <1>6. CASE Throw(w)
    <2>1. Goes(w, "abandon") /\ allowance' = allowance
      BY <1>6 DEF Throw
    <2>2. PICK h \in Handling : /\ handler' = [handler EXCEPT ![w] = h]
                                /\ h.at = "abandon" /\ h.event = handler[w].event
      BY <1>0, <2>1, GoneTo DEF Steps, Equipped
    <2>. QED BY <1>0, <2>1, <2>2, HandStep
  <1>. QED BY <1>1, <1>2, <1>3, <1>4, <1>5, <1>6

LEMMA AlwaysHands == Spec => []Hands
  <1>1. Init => Hands
    <2>1. SUFFICES ASSUME Init PROVE OneHolder /\ PaidIsOpened
      BY InitTyped DEF Hands
    <2>. QED BY <2>1, Shapes DEF Init, OneHolder, PaidIsOpened, Held
  <1>2. ASSUME Hands, [Next]_vars PROVE Hands'
    <2>1. Equipped'
      BY <1>2, StepTyped DEF Hands
    <2>2. CASE Issue \/ Tick \/ UNCHANGED vars
      <3>1. /\ UNCHANGED <<feed, receipts, acked, excused, handler>>
            /\ allowance \subseteq allowance'
        BY <1>2, <2>2, PassSteps DEF Issue, vars, Hands
      <3>2. OneHolder' /\ PaidIsOpened'
        BY <1>2, <3>1 DEF Hands, OneHolder, PaidIsOpened, Held, Event
      <3>. QED BY <2>1, <3>2 DEF Hands
    <2>3. ASSUME NEW w \in Workers,
                 Handle(w) \/ Throw(w) \/ Strand(w) \/ \E e \in Event : Deliver(w, e)
          PROVE  OneHolder' /\ PaidIsOpened'
      BY <1>2, <2>3, HandsWork, HandsLetGo, HandsTake DEF Handle
    <2>. QED BY <1>2, <2>1, <2>2, <2>3 DEF Next, Hands
  <1>. QED BY <1>1, <1>2, PTL DEF Spec

\* When everything Stripe generated is answered and nothing is left to nobody, a
\* subscription being served holds the allowance of its period if an invoice paid for
\* it: the handler opens the period before the receipt is finished, and no fault,
\* redelivery or other handler comes between the two (billing/events.ts, webhooks.ts).
THEOREM PaidPeriodsAreOpen == Spec => []ServedHoldsItsAllowance
  <1>1. Hands => ServedHoldsItsAllowance
    <2>1. SUFFICES ASSUME Hands, Settled, sub # NoRow,
                          NEW e \in Event, feed[e].type = "invoice_paid",
                          feed[e].period = sub.period
                   PROVE  sub.period \in allowance
      BY DEF ServedHoldsItsAllowance
    <2>2. receipts[e] = "done"
      BY <2>1 DEF Settled, Hands, OneHolder
    <2>. QED BY <2>1, <2>2 DEF Hands, PaidIsOpened
  <1>. QED BY <1>1, AlwaysHands, PTL

-----------------------------------------------------------------------------
(* Where rows come from.  A row stored, or about to be, was there before,  *)
(* or it is one of five: Stripe's record as a change reports it, a failed  *)
(* payment, Stripe's record as a checkout finds it, a past_due row that is *)
(* swept, and Stripe's record as the tick takes it over.                   *)

Reports(row) == \E e \in Reported : row = Snapshot(e, feed[e].created)
Fails(row) ==
  \E f \in Issued : /\ feed[f].type = "payment_failed"
                     /\ row.status = "past_due" /\ row.created = feed[f].created
ChecksOut(row) ==
  /\ sub = NoRow /\ Reported # {}
  /\ \E w \in Workers :
       /\ handler[w].at = "read" /\ Type(w) = "checkout"
       /\ row = Snapshot(Latest, feed[handler[w].event].created)
IsSwept(row) ==
  \E old \in Rows \cap Row : old.status = "past_due" /\ row = [old EXCEPT !.status = "unpaid"]
Recovers(row) ==
  Reported # {} /\ job.row \in Row /\ feed[Latest].status \in Serving /\ row = Recovery
Fresh(row) == Reports(row) \/ Fails(row) \/ ChecksOut(row) \/ IsSwept(row) \/ Recovers(row)

\* A handler's step that leaves the row: its own snapshot is the only new one.
LEMMA RowsOfAHandler ==
  ASSUME Equipped, NEW w \in Workers, NEW h \in Handling,
         handler' = [handler EXCEPT ![w] = h], UNCHANGED job
  PROVE  \A row \in Rows' : row \in Rows \/ row = sub' \/ row = h.snapshot
  <1>1. /\ handler' \in [Workers -> Handling] /\ handler'[w] = h
        /\ \A v \in Workers : v # w => handler'[v] = handler[v]
    BY HandlerSet DEF Equipped
  <1>. QED BY <1>1 DEF Rows

LEMMA RowsRead ==
  ASSUME Equipped, NEW w \in Workers, Read(w)
  PROVE  \A row \in Rows' : row \in Rows \/ Fresh(row)
  <1>1. /\ UNCHANGED <<job, sub>> /\ handler[w].at = "read" /\ handler[w].event \in Issued
        /\ Type(w) = "subscription" => handler[w].event \in Reported
        /\ feed[handler[w].event].created \in Nat
    BY HandlerTyped DEF Read
  <1>2. PICK h \in Handling :
           /\ handler' = [handler EXCEPT ![w] = h]
           /\ h.at # "save" => h.snapshot = handler[w].snapshot
           /\ h.at = "save" =>
                \/ /\ Type(w) = "subscription"
                   /\ h.snapshot = Snapshot(handler[w].event, feed[handler[w].event].created)
                \/ /\ Type(w) = "payment_failed" /\ sub \in Row
                   /\ h.snapshot = [sub EXCEPT !.status = "past_due",
                                                !.created = feed[handler[w].event].created]
                \/ /\ Type(w) = "checkout" /\ sub = NoRow /\ Reported # {}
                   /\ h.snapshot = Snapshot(Latest, feed[handler[w].event].created)
    BY ReadsRow
  <1>3. \A row \in Rows' : row \in Rows \/ row = h.snapshot
    BY <1>1, <1>2, RowsOfAHandler DEF Rows
  <1>4. SUFFICES ASSUME h.snapshot # NoRow PROVE h.snapshot \in Rows \/ Fresh(h.snapshot)
    <2>1. NoRow \notin Rows'
      BY DEF Rows
    <2>. QED BY <1>3, <2>1
  <1>5. CASE h.at # "save"
    BY <1>2, <1>4, <1>5 DEF Rows
  <1>6. CASE h.at = "save" /\ Type(w) = "subscription"
    BY <1>1, <1>2, <1>6 DEF Fresh, Reports
  <1>7. CASE h.at = "save" /\ Type(w) = "payment_failed"
    <2>1. h.snapshot.status = "past_due" /\ h.snapshot.created = feed[handler[w].event].created
      <3>1. sub \in Row /\ h.snapshot = [sub EXCEPT !.status = "past_due",
                                                   !.created = feed[handler[w].event].created]
        BY <1>2, <1>7
      <3>2. PICK stored \in Row, date \in Nat : stored = sub /\ date = feed[handler[w].event].created
        BY <1>1, <3>1
      <3>3. h.snapshot = [stored EXCEPT !.status = "past_due", !.created = date]
        BY <3>1, <3>2
      <3>4. PICK row : row = h.snapshot
        OBVIOUS
      <3>5. row = [stored EXCEPT !.status = "past_due", !.created = date]
        BY <3>3, <3>4
      <3>6. row.status = "past_due" /\ row.created = date
        BY <3>5 DEF Row
      <3>. QED BY <3>2, <3>4, <3>6
    <2>. QED BY <1>1, <1>7, <2>1 DEF Fresh, Fails, Type
  <1>8. CASE h.at = "save" /\ Type(w) = "checkout"
    BY <1>1, <1>2, <1>8 DEF Fresh, ChecksOut
  <1>. QED BY <1>2, <1>5, <1>6, <1>7, <1>8

LEMMA RowsWork ==
  ASSUME Equipped, NEW w \in Workers,
         \/ Save(w) \/ Open(w) \/ ReadOrder(w) \/ MoveOrder(w) \/ Finish(w) \/ Abandon(w)
         \/ Throw(w) \/ Strand(w) \/ \E e \in Event : Deliver(w, e)
  PROVE  Rows' \subseteq Rows
  <1>1. CASE Save(w)
    <2>1. /\ UNCHANGED job /\ sub' = Saved(sub, handler[w].snapshot)
          /\ handler[w].snapshot \in Row /\ sub \in RowOrNone
      BY <1>1, Saves DEF Save, Equipped, HandlersEquipped, TypeOK
    <2>2. PICK h \in Handling : handler' = [handler EXCEPT ![w] = h] /\ h.snapshot = NoRow
      BY <1>1, Saves
    <2>3. sub' \in {sub, handler[w].snapshot}
      BY <2>1, SavedTyped
    <2>. QED BY <2>1, <2>2, <2>3, RowsOfAHandler, MirrorAssumption DEF Rows
  <1>2. CASE Finish(w) \/ Abandon(w) \/ Strand(w)
    <2>1. UNCHANGED <<job, sub>> /\ handler' = [handler EXCEPT ![w] = Idle]
      BY <1>2 DEF Finish, Abandon, Strand
    <2>. QED BY <2>1, Shapes, RowsOfAHandler DEF Rows
  <1>3. CASE \E e \in Event : Deliver(w, e)
    <2>1. PICK e \in Event : Deliver(w, e)
      BY <1>3
    <2>2. UNCHANGED <<job, sub>> /\ e \in Nat
      BY <2>1, FeedTyped DEF Deliver, Event, Equipped, TypeOK
    <2>3. CASE UNCHANGED handler
      BY <2>2, <2>3 DEF Rows
    <2>4. ASSUME NEW at \in {"order", "read"}, handler' = [handler EXCEPT ![w] = Claimed(e, at)]
          PROVE  Rows' \subseteq Rows
      <3>1. Claimed(e, at) \in Handling /\ Claimed(e, at).snapshot = NoRow
        BY <2>2, Shapes DEF Steps
      <3>. QED BY <2>2, <2>4, <3>1, RowsOfAHandler DEF Rows
    <2>. QED BY <2>1, <2>3, <2>4 DEF Deliver
  <1>4. CASE Open(w) \/ ReadOrder(w) \/ MoveOrder(w) \/ Throw(w)
    <2>1. UNCHANGED <<job, sub>>
      BY <1>4 DEF Open, ReadOrder, MoveOrder, Throw
    <2>2. Throw(w) => Goes(w, "abandon")
      BY DEF Throw
    <2>3. PICK h \in Handling : /\ handler' = [handler EXCEPT ![w] = h]
                                /\ h.snapshot \in {NoRow, handler[w].snapshot}
      <3>1. CASE Throw(w)
        BY <2>2, <3>1, GoneTo DEF Steps, Equipped
      <3>. QED BY <1>4, <3>1, Opens, ReadsOrder, MovesOrder
    <2>. QED BY <2>1, <2>3, RowsOfAHandler DEF Rows
  <1>. QED BY <1>1, <1>2, <1>3, <1>4

LEMMA RowsOfAPass ==
  ASSUME Equipped, Tick
  PROVE  \A row \in Rows' : row \in Rows \/ Fresh(row)
  <1>1. UNCHANGED handler /\ sub \in RowOrNone
    BY PassSteps DEF Equipped, TypeOK
  <1>2. sub' # NoRow => sub' \in Rows \/ Fresh(sub')
    <2>1. CASE sub' = sub
      BY <2>1 DEF Rows
    <2>2. CASE job.at = "apply" /\ job.row \in Row /\ sub' = Saved(sub, job.row)
      <3>1. sub' \in {sub, job.row}
        BY <1>1, <2>2, SavedTyped
      <3>. QED BY <3>1 DEF Rows
    <2>3. CASE /\ job.row \in Row /\ job.row.status = "past_due"
               /\ sub' = Saved(sub, [job.row EXCEPT !.status = "unpaid"])
      <3>1. [job.row EXCEPT !.status = "unpaid"] \in Row
        BY <2>3, RowChanged DEF SubscriptionStatus
      <3>2. sub' \in {sub, [job.row EXCEPT !.status = "unpaid"]}
        BY <1>1, <2>3, <3>1, SavedTyped
      <3>3. job.row \in Rows
        BY <2>3, MirrorAssumption DEF Rows
      <3>4. IsSwept([job.row EXCEPT !.status = "unpaid"])
        BY <2>3, <3>3 DEF IsSwept
      <3>. QED BY <3>2, <3>4 DEF Rows, Fresh
    <2>. QED BY <2>1, <2>2, <2>3, PassSteps
  <1>3. job'.row # NoRow => job'.row \in Rows \/ job'.row = sub' \/ Fresh(job'.row)
    BY PassSteps, Shapes DEF Rows, Fresh, Recovers
  <1>. QED BY <1>1, <1>2, <1>3 DEF Rows

LEMMA RowsGrow ==
  ASSUME Equipped, [Next]_vars
  PROVE  \A row \in Rows' : row \in Rows \/ Fresh(row)
  <1>1. CASE Issue
    BY <1>1 DEF Issue, Rows
  <1>2. ASSUME NEW w \in Workers,
               Handle(w) \/ Throw(w) \/ Strand(w) \/ \E e \in Event : Deliver(w, e)
        PROVE  \A row \in Rows' : row \in Rows \/ Fresh(row)
    BY <1>2, RowsRead, RowsWork DEF Handle
  <1>3. CASE Tick
    BY <1>3, RowsOfAPass
  <1>4. CASE UNCHANGED vars
    BY <1>4 DEF vars, Rows
  <1>. QED BY <1>1, <1>2, <1>3, <1>4 DEF Next

-----------------------------------------------------------------------------
(* What a date says, where Stripe's own events are in order. *)

Timed == Equipped /\ Orderly(feed) /\ RowsDated

\* An event has happened when its second has come.
LEMMA IssuedInTime ==
  ASSUME Timed
  PROVE  /\ \A e \in Event : feed[e].created \in Nat
         /\ \A e \in Event : e \in Issued <=> feed[e].created <= now
         /\ Issued \subseteq Event /\ Event \subseteq Nat
         /\ \A d, e \in Event : d < e <=> feed[d].created < feed[e].created
  <1>1. /\ Len(feed) \in Nat /\ \A e \in Event : feed[e] \in StripeEvent
        /\ issued \in 0..Len(feed)
        /\ now = IF issued = 0 THEN 0 ELSE feed[issued].created
        /\ NoSecondIsShared(feed)
    BY FeedTyped DEF Timed, Equipped, TypeOK, Orderly, RowsDated
  <1>2. \A e \in Event : feed[e].created \in Nat /\ feed[e].created > 0
    BY <1>1 DEF StripeEvent
  <1>3. \A d, e \in Event : d < e => feed[d].created < feed[e].created
    BY <1>1 DEF NoSecondIsShared, Event
  <1>4. \A d, e \in Event : d < e <=> feed[d].created < feed[e].created
    <2>1. SUFFICES ASSUME NEW d \in Event, NEW e \in Event, feed[d].created < feed[e].created
                   PROVE  d < e
      BY <1>3
    <2>2. d \in Nat /\ e \in Nat
      BY DEF Event
    <2>3. d # e /\ ~(e < d)
      BY <1>2, <1>3, <2>1
    <2>. QED BY <2>2, <2>3
  <1>5. Issued \subseteq Event /\ Event \subseteq Nat /\ (issued # 0 => issued \in Issued)
    BY <1>1 DEF Issued, Event
  <1>6. ASSUME NEW e \in Event PROVE e \in Issued <=> feed[e].created <= now
    <2>1. CASE issued = 0
      BY <1>1, <1>2, <2>1 DEF Issued
    <2>2. CASE issued # 0
      <3>1. issued \in Event /\ now = feed[issued].created /\ e \in Nat /\ issued \in Nat
        BY <1>1, <1>5, <2>2
      <3>2. e \in Issued <=> e <= issued
        BY <1>1, <3>1 DEF Issued, Event
      <3>3. e <= issued => feed[e].created <= feed[issued].created
        BY <1>2, <1>4, <3>1
      <3>4. feed[e].created <= feed[issued].created => ~(issued < e)
        BY <1>2, <1>4, <3>1
      <3>. QED BY <3>1, <3>2, <3>3, <3>4
    <2>. QED BY <2>1, <2>2
  <1>. QED BY <1>2, <1>4, <1>5, <1>6

\* What is said of a row stays true as Stripe goes on.
LEMMA DatedStays ==
  ASSUME Timed, NEW row, Dated(row), feed' = feed, Issued \subseteq Issued', now' >= now,
         row.created \in Nat, now' \in Nat
  PROVE  Dated(row)'
  <1>1. Event' = Event /\ Reported \subseteq Reported' /\ now \in Nat
    BY DEF Event, Reported, OfSubscription, Timed, Equipped, TypeOK
  <1>2. row.created <= now'
    BY <1>1 DEF Dated
  <1>3. SaysWhatStripeSaid(row) => SaysWhatStripeSaid(row)'
    BY <1>1 DEF SaysWhatStripeSaid, OfSubscription
  <1>4. FollowsAFailure(row) => FollowsAFailure(row)'
    BY DEF FollowsAFailure
  <1>5. row.status # "canceled" => \A c \in Event' : Cancels(c)' => row.created < feed'[c].created
    BY <1>1 DEF Dated, Cancels, OfSubscription
  <1>. QED BY <1>2, <1>3, <1>4, <1>5 DEF Dated

\* A subscription that is not canceled at its latest change has no cancellation behind it.
LEMMA NotCanceledYet ==
  ASSUME Timed, NEW e \in Reported, feed[e].status # "canceled", NEW c \in Event, Cancels(c)
  PROVE  e < c
  <1>1. e \in Event /\ e \in Nat /\ c \in Nat /\ e # c
    BY IssuedInTime DEF Reported, Cancels
  <1>2. ~(c < e)
    BY <1>1 DEF Timed, Orderly, CanceledIsOver, Cancels, Reported, OfSubscription, Event
  <1>. QED BY <1>1, <1>2

LEMMA LatestIs ==
  ASSUME Timed, Reported # {}
  PROVE  /\ Latest \in Reported /\ Latest \in Issued
         /\ \A e \in Issued : OfSubscription(e) => e <= Latest
  BY DEF Timed, Equipped, LatestKnown, Reported

\* Stripe's record of now, under a date that has come.
LEMMA DatedAtLatest ==
  ASSUME Timed, Latest \in Reported, NEW row \in Row,
         row.status = feed[Latest].status, row.period = feed[Latest].period, row.created <= now
  PROVE  Dated(row)
  <1>0. /\ row.created \in Nat /\ now \in Nat
        /\ Issued \subseteq Event /\ Event \subseteq Nat
    BY IssuedInTime DEF Row, Timed, Equipped, TypeOK
  <1>1. \A e \in Event : feed[e].created <= row.created => e \in Issued
    BY <1>0, IssuedInTime
  <1>2. SaysWhatStripeSaid(row)
    BY <1>1, LatestIs DEF SaysWhatStripeSaid
  <1>3. ASSUME row.status # "canceled", NEW c \in Event, Cancels(c)
        PROVE  row.created < feed[c].created
    <2>1. Latest < c /\ Latest \in Nat /\ c \in Nat
      BY <1>0, <1>3, NotCanceledYet DEF Reported
    <2>2. c \notin Issued
      BY <1>3, <2>1, LatestIs DEF Cancels
    <2>3. ~(feed[c].created <= now) /\ feed[c].created \in Nat
      BY <1>3, <2>2, IssuedInTime
    <2>. QED BY <1>0, <2>3
  <1>. QED BY <1>2, <1>3 DEF Dated

\* Each of the five is dated.
LEMMA FreshIsDated ==
  ASSUME Timed, NEW row \in Row, Fresh(row)
  PROVE  Dated(row)
  <1>0. /\ row.created \in Nat /\ now \in Nat /\ Equipped
        /\ Issued \subseteq Event /\ Event \subseteq Nat
    BY IssuedInTime DEF Row, Timed, Equipped, TypeOK
  <1>1. CASE Reports(row)
    <2>1. PICK e \in Reported : row = Snapshot(e, feed[e].created)
      BY <1>1 DEF Reports
    <2>2. e \in Issued /\ e \in Event /\ feed[e].created \in Nat
      BY <1>0, IssuedInTime DEF Reported
    <2>3. row.status = feed[e].status /\ row.period = feed[e].period /\ row.created = feed[e].created
      BY <1>0, <2>1, <2>2, SnapshotTyped
    <2>4. row.created <= now
      BY <2>2, <2>3, IssuedInTime
    <2>5. \A d \in Event : feed[d].created <= row.created => d <= e
      <3>1. SUFFICES ASSUME NEW d \in Event, e < d PROVE ~(feed[d].created <= row.created)
        BY <1>0, <2>2
      <3>2. feed[e].created < feed[d].created /\ feed[d].created \in Nat
        BY <2>2, <3>1, IssuedInTime
      <3>. QED BY <2>2, <2>3, <3>2
    <2>6. SaysWhatStripeSaid(row)
      BY <2>3, <2>5 DEF SaysWhatStripeSaid
    <2>7. ASSUME row.status # "canceled", NEW c \in Event, Cancels(c)
          PROVE  row.created < feed[c].created
      <3>1. e < c
        BY <2>3, <2>7, NotCanceledYet
      <3>. QED BY <2>2, <2>3, <3>1, IssuedInTime
    <2>. QED BY <2>4, <2>6, <2>7 DEF Dated
  <1>2. CASE Fails(row)
    <2>1. PICK f \in Issued : /\ feed[f].type = "payment_failed"
                              /\ row.status = "past_due" /\ row.created = feed[f].created
      BY <1>2 DEF Fails
    <2>2. row.created <= now
      BY <1>0, <2>1, IssuedInTime
    <2>3. FollowsAFailure(row)
      BY <2>1 DEF FollowsAFailure
    <2>4. ASSUME NEW c \in Event, Cancels(c) PROVE row.created < feed[c].created
      <3>1. f \in Event /\ f \in Nat /\ c \in Nat /\ f # c
        BY <1>0, <2>1, <2>4 DEF Cancels, OfSubscription
      <3>2. ~(c < f)
        BY <2>1, <2>4, <3>1 DEF Timed, Orderly, CanceledIsOver, Cancels, OfSubscription, Event
      <3>. QED BY <2>1, <3>1, <3>2, IssuedInTime
    <2>. QED BY <2>2, <2>3, <2>4 DEF Dated
  <1>3. CASE ChecksOut(row)
    <2>1. PICK e \in Issued : row = Snapshot(Latest, feed[e].created)
      BY <1>0, <1>3, HandlerTyped DEF ChecksOut
    <2>2. /\ Latest \in Reported /\ e \in Event /\ feed[e].created \in Nat
          /\ feed[e].created <= now
      BY <1>0, <1>3, LatestIs, IssuedInTime DEF ChecksOut
    <2>3. /\ row.status = feed[Latest].status /\ row.period = feed[Latest].period
          /\ row.created = feed[e].created
      BY <1>0, <2>1, <2>2, SnapshotTyped
    <2>. QED BY <1>0, <2>2, <2>3, DatedAtLatest
  <1>4. CASE IsSwept(row)
    <2>1. PICK old \in Rows \cap Row : /\ old.status = "past_due"
                                      /\ row = [old EXCEPT !.status = "unpaid"]
      BY <1>4 DEF IsSwept
    <2>2. Dated(old)
      BY DEF Timed, RowsDated
    <2>3. row.status = "unpaid" /\ row.period = old.period /\ row.created = old.created
      BY <2>1 DEF Row
    <2>4. SaysWhatStripeSaid(old) => SaysWhatStripeSaid(row)
      BY <2>1, <2>3 DEF SaysWhatStripeSaid
    <2>5. FollowsAFailure(old) => FollowsAFailure(row)
      BY <2>3 DEF FollowsAFailure
    <2>. QED BY <2>1, <2>2, <2>3, <2>4, <2>5 DEF Dated
  <1>5. CASE Recovers(row)
    <2>1. /\ row.status = feed[Latest].status /\ row.period = feed[Latest].period
          /\ row.created \in {job.began, job.row.created} /\ Latest \in Reported
      BY <1>0, <1>5, RecoveryTyped, LatestIs DEF Recovers
    <2>2. job.began <= now /\ job.row.created <= now
      BY <1>5, MirrorAssumption DEF Timed, RowsDated, Rows, Recovers, Dated
    <2>. QED BY <2>1, <2>2, DatedAtLatest
  <1>. QED BY <1>1, <1>2, <1>3, <1>4, <1>5 DEF Fresh

LEMMA RowsTyped ==
  ASSUME Equipped'
  PROVE  Rows' \subseteq Row
  <1>1. sub' \in RowOrNone /\ job' \in Job /\ handler' \in [Workers -> Handling]
    BY DEF Equipped, TypeOK
  <1>2. job'.row \in RowOrNone /\ \A w \in Workers : handler'[w].snapshot \in RowOrNone
    BY <1>1 DEF Job, Handling
  <1>3. SUFFICES ASSUME NEW row \in Rows' PROVE row \in Row
    OBVIOUS
  <1>4. row \in RowOrNone /\ row # NoRow
    BY <1>1, <1>2, <1>3 DEF Rows
  <1>. QED BY <1>4 DEF RowOrNone

\* Time and Stripe's history only go on.
LEMMA TimeGoesOn ==
  ASSUME Timed, [Next]_vars
  PROVE  /\ feed' = feed /\ Event' = Event /\ Issued \subseteq Issued' /\ now' >= now
         /\ now' = IF issued' = 0 THEN 0 ELSE feed'[issued'].created
         /\ job'.began <= now'
         /\ \/ Issue
            \/ UNCHANGED <<issued, now>>
  <1>0. /\ now \in Nat /\ issued \in Nat /\ job \in Job /\ job.began <= now
        /\ now = IF issued = 0 THEN 0 ELSE feed[issued].created
        /\ Len(feed) \in Nat
    BY FeedTyped DEF Timed, Equipped, TypeOK, RowsDated
  <1>1. CASE Issue
    <2>1. /\ issued' = issued + 1 /\ issued < Len(feed) /\ now' = feed[issued + 1].created
          /\ UNCHANGED <<feed, job>> /\ issued + 1 \in Event
      BY <1>0, <1>1 DEF Issue, Event
    <2>2. issued + 1 \notin Issued
      BY <1>0 DEF Issued
    <2>3. now' \in Nat /\ ~(now' <= now)
      BY <2>1, <2>2, IssuedInTime
    <2>4. job.began \in Nat /\ Event' = Event /\ Issued \subseteq Issued'
      BY <1>0, <2>1 DEF Job, Event, Issued
    <2>5. now' = IF issued' = 0 THEN 0 ELSE feed'[issued'].created
      BY <1>0, <2>1
    <2>6. now' >= now /\ job'.began <= now'
      BY <1>0, <2>1, <2>3, <2>4
    <2>. QED BY <1>1, <2>1, <2>4, <2>5, <2>6
  <1>2. CASE Tick
    <2>1. UNCHANGED <<feed, issued, now>>
      BY <1>2, PassSteps DEF Timed
    <2>2. job'.began <= now'
      <3>1. job'.began \in {0, now, job.began}
        BY <1>2, PassSteps, Shapes DEF Timed
      <3>. QED BY <1>0, <2>1, <3>1
    <2>. QED BY <1>0, <2>1, <2>2 DEF Event, Issued
  <1>3. ASSUME NEW w \in Workers,
               Handle(w) \/ Throw(w) \/ Strand(w) \/ \E e \in Event : Deliver(w, e)
        PROVE  UNCHANGED <<feed, issued, now, job>>
    <2>1. CASE Read(w) \/ Save(w) \/ Open(w) \/ ReadOrder(w) \/ MoveOrder(w)
      BY <2>1 DEF Read, Save, Open, ReadOrder, MoveOrder
    <2>2. CASE Finish(w) \/ Abandon(w) \/ Throw(w) \/ Strand(w) \/ \E e \in Event : Deliver(w, e)
      BY <2>2 DEF Finish, Abandon, Throw, Strand, Deliver
    <2>. QED BY <1>3, <2>1, <2>2 DEF Handle
  <1>4. CASE UNCHANGED <<feed, issued, now, job>>
    <2>1. Event' = Event /\ Issued' = Issued
      BY <1>4 DEF Event, Issued
    <2>2. now' = IF issued' = 0 THEN 0 ELSE feed'[issued'].created
      BY <1>0, <1>4
    <2>. QED BY <1>0, <1>4, <2>1, <2>2
  <1>. QED BY <1>1, <1>2, <1>3, <1>4 DEF Next, vars

LEMMA TimedStays ==
  ASSUME Timed, [Next]_vars
  PROVE  Timed'
  <1>1. Equipped /\ Equipped'
    BY StepTyped DEF Timed
  <1>2. Orderly(feed)'
    BY TimeGoesOn DEF Timed, Orderly, NoSecondIsShared, CanceledIsOver
  <1>3. ASSUME NEW row \in Rows' PROVE Dated(row)'
    <2>1. row \in Row
      BY <1>1, RowsTyped
    <2>2. Dated(row)
      BY <1>1, <2>1, RowsGrow, FreshIsDated DEF Timed, RowsDated
    <2>3. row.created \in Nat /\ now' \in Nat
      BY <1>1, <2>1 DEF Row, Equipped, TypeOK
    <2>. QED BY <2>2, <2>3, TimeGoesOn, DatedStays
  <1>4. RowsDated'
    BY <1>3, TimeGoesOn DEF RowsDated
  <1>. QED BY <1>1, <1>2, <1>4 DEF Timed

-----------------------------------------------------------------------------
(* What was handled is in the row. *)

Mirrored == Hands /\ Timed /\ EventsReached

LEMMA ReachedStays ==
  ASSUME Timed, [Next]_vars, NEW e \in Event, Reached(e)
  PROVE  Reached(e)'
  <1>1. /\ sub \in Row /\ sub \in RowOrNone /\ feed[e].created \in Nat
        /\ feed' = feed /\ Reported \subseteq Reported'
    BY IssuedInTime, TimeGoesOn DEF Timed, Equipped, TypeOK, Reached, RowOrNone, Reported, OfSubscription
  <1>2. sub' \in Row /\ sub'.created >= sub.created
    <2>1. ASSUME NEW snapshot \in Row, sub' = Saved(sub, snapshot)
          PROVE  sub' \in Row /\ sub'.created >= sub.created
      BY <1>1, <2>1, SavedTyped DEF Reached
    <2>2. job.row \in Row => [job.row EXCEPT !.status = "unpaid"] \in Row
      BY RowChanged DEF SubscriptionStatus
    <2>3. CASE sub' = sub
      BY <1>1, <2>3 DEF Row
    <2>. QED BY <2>1, <2>2, <2>3, WritersUpsert DEF Timed
  <1>3. sub' # NoRow /\ sub.created \in Nat /\ sub'.created \in Nat
    BY <1>1, <1>2, MirrorAssumption DEF Row
  <1>. QED BY <1>1, <1>2, <1>3 DEF Reached, Cancels, OfSubscription

\* A handler that keeps to its event.
LEMMA ReachStep ==
  ASSUME Mirrored, [Next]_vars, NEW w \in Workers, NEW h \in Handling,
         handler' = [handler EXCEPT ![w] = h], UNCHANGED receipts, h.at # "idle" => h.event \in Event,
         OfSubscription(h.event) /\ h.at = "save" => h.snapshot.created = feed[h.event].created,
         OfSubscription(h.event) /\ h.at \in {"open", "order", "move", "finish"} => Reached(h.event)'
  PROVE  EventsReached'
  <1>1. /\ handler' \in [Workers -> Handling] /\ handler'[w] = h
        /\ \A v \in Workers : v # w => handler'[v] = handler[v]
    BY HandlerSet DEF Mirrored, Hands, Equipped
  <1>2. Event' = Event /\ feed' = feed
    BY TimeGoesOn DEF Mirrored
  <1>3. \A e \in Event : Reached(e) => Reached(e)'
    BY ReachedStays DEF Mirrored
  <1>. QED BY <1>1, <1>2, <1>3 DEF EventsReached, Mirrored, OfSubscription

\* A change that does not apply is one the row has seen.
LEMMA StaleIsReached ==
  ASSUME Timed, NEW e \in Reported, ~Applies(sub, Snapshot(e, feed[e].created))
  PROVE  Reached(e)
  <1>1. /\ sub \in RowOrNone /\ sub # NoRow /\ e \in Event /\ feed[e].created \in Nat
    BY IssuedInTime DEF Timed, Equipped, TypeOK, Applies, Reported
  <1>2. /\ Snapshot(e, feed[e].created).status = feed[e].status
        /\ Snapshot(e, feed[e].created).created = feed[e].created
        /\ sub \in Row /\ sub.created \in Nat
    BY <1>1, SnapshotTyped DEF Timed, RowOrNone, Row
  <1>3. CASE sub.status = "canceled" /\ feed[e].status # "canceled"
    <2>1. SaysWhatStripeSaid(sub)
      BY <1>1, <1>3 DEF Timed, RowsDated, Rows, Dated, FollowsAFailure
    <2>2. PICK d \in Reported : feed[d].status = "canceled"
      BY <1>3, <2>1 DEF SaysWhatStripeSaid
    <2>3. Cancels(d)
      BY <2>2 DEF Cancels, Reported
    <2>. QED BY <1>1, <1>3, <2>3 DEF Reached
  <1>4. CASE ~(sub.status = "canceled" /\ feed[e].status # "canceled")
    BY <1>1, <1>2, <1>4 DEF Applies, Reached
  <1>. QED BY <1>3, <1>4

LEMMA ReachedByHandlers ==
  ASSUME Mirrored, [Next]_vars, NEW w \in Workers,
         Read(w) \/ Save(w) \/ Open(w) \/ ReadOrder(w) \/ MoveOrder(w) \/ Throw(w) \/ Strand(w)
  PROVE  EventsReached'
  <1>. PICK e : e = handler[w].event
    OBVIOUS
  <1>0. /\ Equipped /\ e \in Event /\ UNCHANGED receipts /\ handler[w] \in Handling
        /\ handler[w].at # "idle" /\ feed[e].created \in Nat
        /\ Type(w) = "subscription" => e \in Reported
    <2>1. Equipped /\ UNCHANGED receipts /\ handler[w].at # "idle"
      BY DEF Mirrored, Hands, Read, Save, Open, ReadOrder, MoveOrder, Throw, Strand, Held
    <2>. QED BY <2>1, HandlerTyped
  <1>1. Type(w) = "subscription" <=> OfSubscription(e)
    BY DEF Type, OfSubscription
  <1>2. Reached(e) => Reached(e)'
    BY <1>0, ReachedStays DEF Mirrored
  <1>3. /\ OfSubscription(e) /\ handler[w].at = "save" => handler[w].snapshot.created = feed[e].created
        /\ OfSubscription(e) /\ handler[w].at \in {"open", "order", "move", "finish"} => Reached(e)
    BY <1>0 DEF Mirrored, EventsReached
  <1>4. CASE Read(w)
    <2>1. PICK h \in Handling :
           /\ handler' = [handler EXCEPT ![w] = h]
           /\ h.event = e /\ h.at \in {"save", "open", "order", "finish"}
           /\ h.at = "save" /\ Type(w) = "subscription" => h.snapshot = Snapshot(e, feed[e].created)
           /\ h.at \in {"open", "order"} => Type(w) # "subscription"
           /\ h.at = "finish" /\ Type(w) = "subscription" =>
                ~Applies(sub, Snapshot(e, feed[e].created))
      BY <1>0, <1>4, ReadsRow
    <2>2. h.at = "save" /\ Type(w) = "subscription" => h.snapshot.created = feed[e].created
      BY <1>0, <2>1, SnapshotTyped
    <2>3. h.at = "finish" /\ Type(w) = "subscription" => Reached(e)
      BY <1>0, <2>1, StaleIsReached DEF Mirrored
    <2>. QED BY <1>0, <1>1, <1>2, <2>1, <2>2, <2>3, ReachStep
  <1>5. CASE Save(w)
    <2>1. PICK h \in Handling :
           /\ handler' = [handler EXCEPT ![w] = h]
           /\ h.event = e /\ h.at \in {"open", "order", "finish"}
      BY <1>0, <1>5, Saves
    <2>2. /\ sub' = Saved(sub, handler[w].snapshot) /\ sub' \in Row
          /\ handler[w].snapshot \in Row /\ sub \in RowOrNone /\ handler[w].at = "save"
      BY <1>0, <1>5, Saves DEF Save, Equipped, HandlersEquipped, TypeOK
    <2>3. sub' # NoRow /\ sub'.created >= handler[w].snapshot.created
      BY <2>2, SavedTyped, MirrorAssumption
    <2>4. feed' = feed
      BY TimeGoesOn DEF Mirrored
    <2>5. OfSubscription(e) => Reached(e)'
      BY <1>3, <2>2, <2>3, <2>4 DEF Reached
    <2>. QED BY <1>0, <2>1, <2>5, ReachStep
  <1>6. CASE Open(w) \/ ReadOrder(w)
    <2>1. PICK h \in Handling : /\ handler' = [handler EXCEPT ![w] = h]
                                /\ h.event = e /\ h.at # "save"
      BY <1>0, <1>6, Opens, ReadsOrder
    <2>2. handler[w].at \in {"open", "order"}
      BY <1>6 DEF Open, ReadOrder
    <2>. QED BY <1>0, <1>2, <1>3, <2>1, <2>2, ReachStep
  <1>7. CASE MoveOrder(w)
    <2>1. PICK h \in Handling : /\ handler' = [handler EXCEPT ![w] = h]
                                /\ h.event = e /\ h.at # "save"
      BY <1>0, <1>7, MovesOrder
    <2>2. handler[w].at = "move"
      BY <1>7 DEF MoveOrder
    <2>. QED BY <1>0, <1>2, <1>3, <2>1, <2>2, ReachStep
  <1>8. CASE Throw(w)
    <2>1. Goes(w, "abandon") /\ TypeOK
      BY <1>0, <1>8 DEF Throw, Equipped
    <2>2. PICK h \in Handling : /\ handler' = [handler EXCEPT ![w] = h]
                                /\ h.at = "abandon" /\ h.event = handler[w].event
      BY <2>1, GoneTo DEF Steps
    <2>. QED BY <1>0, <2>2, ReachStep
  <1>9. CASE Strand(w)
    <2>1. handler' = [handler EXCEPT ![w] = Idle]
      BY <1>9 DEF Strand
    <2>. QED BY <1>0, <2>1, Shapes, ReachStep
  <1>. QED BY <1>4, <1>5, <1>6, <1>7, <1>8, <1>9

\* Receipts that are finished, given back or claimed.
LEMMA ReachedByReceipts ==
  ASSUME Mirrored, [Next]_vars, NEW w \in Workers,
         Finish(w) \/ Abandon(w) \/ \E e \in Event : Deliver(w, e)
  PROVE  EventsReached'
  <1>0. /\ Equipped /\ receipts \in [Event -> {"none", "received", "done"}]
        /\ Event' = Event /\ feed' = feed
        /\ \A e \in Event : Reached(e) => Reached(e)'
    BY ReachedStays, TimeGoesOn DEF Mirrored, Hands, Equipped, TypeOK
  <1>1. \E h \in Handling :
          /\ handler' \in {handler, [handler EXCEPT ![w] = h]}
          /\ h.at \in {"idle", "read", "order"}
          /\ h.at = "order" => h.event \in Event /\ ~OfSubscription(h.event)
    <2>1. CASE Finish(w) \/ Abandon(w)
      BY <2>1, Shapes DEF Finish, Abandon
    <2>2. ASSUME NEW e \in Event, Deliver(w, e) PROVE <1>1
      <3>1. e \in Nat
        BY FeedTyped, <1>0 DEF Equipped, TypeOK, Event
      <3>2. CASE UNCHANGED handler
        BY <3>2, Shapes
      <3>3. ASSUME NEW at \in {"read", "order"}, handler' = [handler EXCEPT ![w] = Claimed(e, at)],
                   at = "order" => feed[e].type = "checkout"
            PROVE  <1>1
        <4>1. Claimed(e, at) \in Handling /\ Claimed(e, at).at = at /\ Claimed(e, at).event = e
          BY <3>1, Shapes DEF Steps
        <4>. QED BY <3>3, <4>1 DEF OfSubscription
      <3>. QED BY <2>2, <3>2, <3>3 DEF Deliver
    <2>. QED BY <2>1, <2>2
  <1>2. PICK h \in Handling :
          /\ handler' \in {handler, [handler EXCEPT ![w] = h]}
          /\ h.at \in {"idle", "read", "order"}
          /\ h.at = "order" => h.event \in Event /\ ~OfSubscription(h.event)
    BY <1>1
  <1>3. \A v \in Workers : handler'[v] \in {handler[v], h}
    BY <1>0, <1>2 DEF Equipped, TypeOK
  <1>4. ASSUME NEW e \in Event, OfSubscription(e), receipts'[e] = "done" PROVE Reached(e)
    <2>1. CASE receipts[e] = "done"
      BY <1>4, <2>1 DEF Mirrored, EventsReached
    <2>2. CASE receipts[e] # "done"
      <3>1. Finish(w) /\ handler[w].event = e
        <4>1. \A d \in Event : Deliver(w, d) => receipts'[e] # "done"
          BY <1>0, <2>2 DEF Deliver
        <4>2. Abandon(w) => receipts'[e] # "done"
          BY <1>0, <2>2 DEF Abandon
        <4>3. Finish(w) /\ handler[w].event # e => receipts'[e] # "done"
          BY <1>0, <2>2 DEF Finish
        <4>. QED BY <1>4, <4>1, <4>2, <4>3
      <3>. QED BY <1>4, <3>1 DEF Finish, Mirrored, EventsReached
    <2>. QED BY <2>1, <2>2
  <1>. QED BY <1>0, <1>2, <1>3, <1>4 DEF Mirrored, EventsReached, OfSubscription

LEMMA MirroredStays ==
  ASSUME Mirrored, [Next]_vars
  PROVE  EventsReached'
  <1>1. CASE Issue \/ Tick \/ UNCHANGED vars
    <2>1. UNCHANGED <<feed, receipts, handler>>
      BY <1>1, PassSteps DEF Issue, vars, Mirrored, Hands
    <2>2. /\ Event' = Event
          /\ \A e \in Event : Reached(e) => Reached(e)'
      BY ReachedStays, TimeGoesOn DEF Mirrored
    <2>. QED BY <2>1, <2>2 DEF Mirrored, EventsReached, OfSubscription
  <1>2. ASSUME NEW w \in Workers,
               Handle(w) \/ Throw(w) \/ Strand(w) \/ \E e \in Event : Deliver(w, e)
        PROVE  EventsReached'
    BY <1>2, ReachedByHandlers, ReachedByReceipts DEF Handle
  <1>. QED BY <1>1, <1>2 DEF Next

LEMMA AlwaysMirrored ==
  ASSUME \A h \in Histories : Orderly(h)
  PROVE  Spec => []Mirrored
  <1>1. Init => Timed /\ EventsReached
    <2>1. SUFFICES ASSUME Init PROVE Timed /\ EventsReached
      OBVIOUS
    <2>2. Equipped /\ Orderly(feed)
      BY <2>1, InitTyped DEF Init
    <2>3. Rows = {}
      BY <2>1, Shapes DEF Init, Rows
    <2>4. RowsDated
      BY <2>1, <2>3, Shapes DEF Init, RowsDated
    <2>5. EventsReached
      BY <2>1, Shapes DEF Init, EventsReached
    <2>. QED BY <2>2, <2>4, <2>5 DEF Timed
  <1>2. Hands /\ Hands' /\ Timed /\ EventsReached /\ [Next]_vars => Timed' /\ EventsReached'
    BY TimedStays, MirroredStays DEF Mirrored
  <1>. QED BY <1>1, <1>2, AlwaysHands, PTL DEF Spec, Mirrored

LEMMA CanceledOnceHandled ==
  ASSUME Mirrored, NEW c \in Event, receipts[c] = "done", Cancels(c)
  PROVE  sub # NoRow /\ sub.status = "canceled"
  <1>1. sub # NoRow /\ sub.created >= feed[c].created
    BY DEF Mirrored, EventsReached, Reached, Cancels
  <1>2. Dated(sub) /\ sub \in Row
    BY <1>1 DEF Mirrored, Timed, RowsDated, Rows, Equipped, TypeOK, RowOrNone
  <1>3. feed[c].created \in Nat /\ sub.created \in Nat
    BY <1>2, IssuedInTime DEF Mirrored, Row
  <1>. QED BY <1>1, <1>2, <1>3 DEF Dated

\* Where Stripe's events are in order, a subscription is canceled for good from the
\* moment the event of its cancellation is handled: no handler that read the row
\* before, no redelivered event and no pass of the tick brings it back (guard 2 of
\* billing/state.ts, with the upsert's own guard behind it).
THEOREM CancellationHolds ==
  ASSUME \A h \in Histories : Orderly(h)
  PROVE  Spec => []HandledCancellationHolds
  <1>1. Mirrored => HandledCancellationHolds
    BY CanceledOnceHandled DEF HandledCancellationHolds
  <1>. QED BY <1>1, AlwaysMirrored, PTL

\* Where Stripe's events are in order and a failed payment shows in the subscription
\* afterwards, the row agrees with Stripe once every event is answered and none was
\* left to nobody, whatever order the events came in, how often they were sent again,
\* and what threw or wrote in between (billing/events.ts: ordering is not assumed).
THEOREM MirrorConverges ==
  ASSUME \A h \in Histories : Orderly(h) /\ FailuresShow(h)
  PROVE  Spec => []SnapshotConverges
  <1>1. ASSUME Mirrored, FailuresShow(feed) PROVE SnapshotConverges
    <2>1. SUFFICES ASSUME Settled, Reported # {}
                   PROVE  /\ sub # NoRow
                          /\ \/ sub.status = feed[Latest].status
                             \/ sub.status = "unpaid" /\ feed[Latest].status = "past_due"
                          /\ sub.status \in Serving => sub.period = feed[Latest].period
      BY DEF SnapshotConverges
    <2>2. /\ Timed /\ Issued = Event /\ \A e \in Event : receipts[e] = "done"
          /\ Event \subseteq Nat
      BY <1>1, <2>1, IssuedInTime DEF Settled, Mirrored, Hands, OneHolder, Issued, Event
    <2>3. /\ Latest \in Reported /\ Latest \in Event /\ Latest \in Nat /\ OfSubscription(Latest)
          /\ \A e \in Event : OfSubscription(e) => e <= Latest
      BY <2>1, <2>2, LatestIs DEF Reported
    <2>4. Reached(Latest)
      BY <1>1, <2>2, <2>3 DEF Mirrored, EventsReached
    <2>5. sub # NoRow /\ sub \in Row /\ Dated(sub) /\ sub.created \in Nat
      BY <2>2, <2>4 DEF Reached, Timed, RowsDated, Rows, Equipped, TypeOK, RowOrNone, Row
    <2>6. CASE feed[Latest].status = "canceled"
      <3>1. sub.status = "canceled"
        BY <1>1, <2>2, <2>3, <2>6, CanceledOnceHandled DEF Cancels
      <3>. QED BY <2>5, <2>6, <3>1 DEF Serving
    <2>7. CASE feed[Latest].status # "canceled"
      <3>1. sub.created >= feed[Latest].created
        <4>1. ASSUME NEW c \in Reported, Cancels(c) PROVE FALSE
          <5>1. c \in Event /\ Latest < c /\ c <= Latest /\ c \in Nat
            BY <2>2, <2>3, <2>7, <4>1, NotCanceledYet DEF Reported
          <5>. QED BY <2>3, <5>1
        <4>. QED BY <2>4, <4>1 DEF Reached
      <3>2. CASE SaysWhatStripeSaid(sub)
        <4>1. PICK d \in Reported :
                /\ sub.status = feed[d].status \/ (sub.status = "unpaid" /\ feed[d].status = "past_due")
                /\ sub.period = feed[d].period
                /\ \A e \in Event : OfSubscription(e) /\ feed[e].created <= sub.created => e <= d
          BY <3>2 DEF SaysWhatStripeSaid
        <4>2. feed[Latest].created <= sub.created
          BY <2>2, <2>3, <2>5, <3>1, IssuedInTime
        <4>3. d <= Latest /\ Latest <= d /\ d \in Nat
          BY <2>2, <2>3, <4>1, <4>2 DEF Reported
        <4>4. d = Latest
          BY <2>3, <4>3
        <4>. QED BY <2>5, <4>1, <4>4
      <3>3. CASE FollowsAFailure(sub)
        <4>1. PICK f \in Issued : feed[f].type = "payment_failed" /\ sub.created = feed[f].created
          BY <3>3 DEF FollowsAFailure
        <4>2. PICK j \in Event : f < j /\ OfSubscription(j)
          BY <1>1, <2>2, <4>1 DEF FailuresShow, Event, OfSubscription
        <4>3. f \in Event /\ f \in Nat /\ j \in Nat /\ j <= Latest
          BY <2>2, <2>3, <4>2
        <4>4. f < Latest
          BY <2>3, <4>2, <4>3
        <4>5. feed[f].created < feed[Latest].created
          BY <2>2, <2>3, <4>3, <4>4, IssuedInTime
        <4>6. feed[f].created \in Nat /\ feed[Latest].created \in Nat
          BY <2>2, <2>3, <4>3, IssuedInTime
        <4>. QED BY <3>1, <4>1, <4>5, <4>6
      <3>. QED BY <2>5, <3>2, <3>3 DEF Dated
    <2>. QED BY <2>6, <2>7
  <1>2. Mirrored => FailuresShow(feed)
    BY DEF Mirrored, Timed, Equipped, TypeOK
  <1>3. Spec => []Mirrored
    BY AlwaysMirrored
  <1>. QED BY <1>1, <1>2, <1>3, PTL

-----------------------------------------------------------------------------
(* Guard 2: a stored cancellation is the last word. *)

\* Where Stripe's events are in order, no writer brings back a subscription stored as
\* canceled under the cancellation's date or a later one: whatever else is on its way,
\* read before or after, is older than every cancellation, and the upsert refuses it
\* (billing/state.ts:18, guard 2).
THEOREM CanceledStaysCanceled ==
  ASSUME \A h \in Histories : Orderly(h)
  PROVE  Spec => CanceledIsTerminal
  <1> DEFINE Holds(c) == Cancels(c) /\ sub # NoRow /\ sub.status = "canceled"
                         /\ sub.created >= feed[c].created
  <1>1. ASSUME Mirrored, Mirrored', [Next]_vars, NEW c \in Event, Holds(c),
               sub'.status # "canceled"
        PROVE  FALSE
    <2>1. Equipped /\ Timed /\ Timed' /\ sub \in Row
      BY <1>1 DEF Mirrored, Timed, Equipped, TypeOK, RowOrNone
    <2>2. sub' \in Row /\ sub'.created >= sub.created
      <3>1. ASSUME NEW snapshot \in Row, sub' = Saved(sub, snapshot)
            PROVE  sub' \in Row /\ sub'.created >= sub.created
        BY <2>1, <3>1, SavedTyped, MirrorAssumption DEF RowOrNone
      <3>2. job.row \in Row => [job.row EXCEPT !.status = "unpaid"] \in Row
        BY RowChanged DEF SubscriptionStatus
      <3>. QED BY <1>1, <2>1, <3>1, <3>2, WritersUpsert
    <2>3. sub' \in Rows'
      BY <2>2, MirrorAssumption DEF Rows
    <2>4. UNCHANGED <<feed, Event>>
      BY <1>1, <2>1, TimeGoesOn
    <2>5. sub'.created < feed[c].created
      BY <1>1, <2>1, <2>3, <2>4 DEF Timed, RowsDated, Dated, Cancels, OfSubscription
    <2>6. feed[c].created \in Nat
      BY <1>1, <2>1, IssuedInTime
    <2>. QED BY <1>1, <2>1, <2>2, <2>5, <2>6 DEF Row
  <1>2. Mirrored /\ Mirrored' /\ [Next]_vars
          => [\A c \in Event : Holds(c) => sub'.status = "canceled"]_vars
    BY <1>1
  <1>3. Spec => []Mirrored
    BY AlwaysMirrored
  <1>. QED BY <1>2, <1>3, PTL DEF Spec, CanceledIsTerminal
=============================================================================
