------------------------ MODULE RefundApprovalsProofs -----------------------
(***************************************************************************)
(* Proofs about RefundApprovals, for any number of refunds, approvals and  *)
(* presses of the button.  The inductive invariant IInv says what a press  *)
(* under way may rely on (Bound), who may call Stripe (Authority), what    *)
(* Stripe then has (Money) and what its forgetting a key leaves (Memory).  *)
(***************************************************************************)
EXTENDS RefundApprovals, TLAPS

Answers == {"pending", "succeeded", "failed"}
States == {"none", "requested", "queued_for_owner", "submitted"} \cup Answers

\* What a press, a row, Stripe's refund, an event and the webhook are.
Asking == [at : {"opening", "queueing", "deciding", "consuming", "submitting", "submitted"},
           approval : Approvals, asked : Payload]
Calling == [at : {"calling"}, approval : Approvals, asked : Payload, saw : States]
Answered == [at : {"answered"}, approval : Approvals, asked : Payload, saw : States,
             as : Answers, id : Approvals]
ClickStates == {[at |-> "idle"], Done} \cup Asking \cup Calling \cup Answered
Row == [state : States, reason : Reasons \cup {"none"}, id : Approvals \cup {"none"}]
ProviderRefund == [under : Approvals, refund : Refunds, key : Refunds,
                   before : SUBSET Approvals, first : Answers, status : Answers,
                   remembered : BOOLEAN]
Event == [id : Approvals, status : Answers]
WebhookStates == {Waiting} \cup [at : {"applying"}, refund : Refunds, event : Event]

Typed ==
    /\ approval \in [Approvals -> {"none", "granted", "lapsed", "revoked", "consumed"}]
    /\ row \in [Refunds -> Row]
    /\ click \in [Clicks -> ClickStates]
    /\ provider \subseteq ProviderRefund
    /\ events \subseteq Event
    /\ webhook \in WebhookStates
    /\ spent \subseteq [click : Clicks, approval : Approvals]
    /\ faults \in 0..MaxFaults

\* A press under way, one whose row was read, one that has spent its approval,
\* and one that has not yet used it.
Underway(c) == click[c].at \notin {"idle", "done"}
Decided(c) == click[c].at \in {"consuming", "submitting", "submitted", "calling", "answered"}
Holds(c) == click[c].at \in {"submitting", "submitted", "calling", "answered"}
Ahead(c) == click[c].at \in {"submitting", "submitted", "calling"}

\* A press asks for what was approved, and has found its row to say so.
Bound ==
    /\ \A c \in Clicks : Underway(c) =>
         /\ Of[click[c].approval] = click[c].asked
         /\ approval[click[c].approval] # "none"
         /\ click[c].at # "opening" => row[Refund(c)].state # "none"
    /\ \A c \in Clicks : Decided(c) => row[Refund(c)].reason = click[c].asked.reason

\* The approval behind a call is spent, by one press, for one call.
Authority ==
    /\ \A c \in Clicks : Holds(c) => approval[click[c].approval] = "consumed"
    /\ \A c, d \in Clicks : Holds(c) /\ Holds(d) /\ click[c].approval = click[d].approval => c = d
    /\ \A c \in Clicks : Ahead(c) => \A s \in spent : s.approval # click[c].approval
    /\ OneCallPerApproval

\* Stripe's refunds were made in calls, for rows that are there.
Money ==
    /\ \A p \in provider :
         /\ p.key = p.refund
         /\ row[p.refund].state # "none"
         /\ \E s \in spent : s.approval = p.under
    /\ RefundedAsApproved

\* When Stripe has forgotten a refund, nothing that was approved before it can make
\* another.
Memory ==
    /\ \A p \in provider : \A a \in p.before : approval[a] # "none"
    /\ \A p \in provider : ~p.remembered =>
         /\ \A a \in p.before : approval[a] # "granted"
         /\ \A c \in Clicks : Underway(c) /\ click[c].at # "answered" =>
              click[c].approval \notin p.before
    /\ MovedAgainIsApprovedAgain

IInv == Typed /\ Bound /\ Authority /\ Money /\ Memory

-----------------------------------------------------------------------------
\* The first state has nothing in it.
LEMMA InitIInv == Init => IInv
<1>. SUFFICES ASSUME Init PROVE IInv OBVIOUS
<1>1. NotOpened \in Row
  BY DEF NotOpened, Row, States
<1>2. Typed
  BY <1>1, BoundAssumption DEF Init, Typed, ClickStates, WebhookStates
<1>3. Bound /\ Authority
  BY DEF Init, Bound, Underway, Decided, Authority, Holds, Ahead, OneCallPerApproval
<1>4. Money /\ Memory
  BY DEF Init, Money, RefundedAsApproved, Memory, MovedAgainIsApprovedAgain
<1>. QED BY <1>2, <1>3, <1>4 DEF IInv

\* A press that is under way has an approval, and by what it asks a refund.
LEMMA Equipped ==
  ASSUME Typed, NEW c \in Clicks, Underway(c)
  PROVE  /\ click[c] \in Asking \cup Calling \cup Answered
         /\ click[c].approval \in Approvals
         /\ click[c].asked \in Payload
         /\ Refund(c) \in Refunds
BY DEF Typed, ClickStates, Asking, Calling, Answered, Underway, Done, Refund, Payload

-----------------------------------------------------------------------------
(* What a step does to the presses, the approvals and the rows. *)

\* How a press goes on.
Onward == {<<"opening", "queueing">>, <<"opening", "deciding">>, <<"queueing", "deciding">>,
           <<"deciding", "consuming">>, <<"consuming", "submitting">>,
           <<"submitting", "submitted">>, <<"submitted", "calling">>, <<"calling", "answered">>}

\* The press c takes a step, or ends.
Goes(c) ==
    /\ Underway(c)
    /\ \A d \in Clicks \ {c} : click'[d] = click[d]
    /\ \/ click'[c] = Done
       \/ /\ <<click[c].at, click'[c].at>> \in Onward
          /\ click'[c].approval = click[c].approval /\ click'[c].asked = click[c].asked

\* A press that moves on by its position alone.
LEMMA NextPosition ==
  ASSUME Typed, NEW c \in Clicks, click[c] \in Asking,
         NEW at \in {"queueing", "deciding", "consuming", "submitting", "submitted"},
         <<click[c].at, at>> \in Onward, click' = [click EXCEPT ![c].at = at]
  PROVE  Goes(c) /\ click' \in [Clicks -> ClickStates]
<1>1. [click[c] EXCEPT !.at = at] \in Asking
  BY DEF Asking
<1>2. click' = [click EXCEPT ![c] = [click[c] EXCEPT !.at = at]]
  OBVIOUS
<1>3. /\ click'[c].at = at /\ click'[c].approval = click[c].approval
      /\ click'[c].asked = click[c].asked
  BY <1>2 DEF Typed, Asking
<1>. QED BY <1>1, <1>2, <1>3 DEF Goes, Typed, Underway, ClickStates, Asking

\* A press that ends.
LEMMA Ends ==
  ASSUME Typed, NEW c \in Clicks, Underway(c), click' = [click EXCEPT ![c] = Done]
  PROVE  Goes(c) /\ click' \in [Clicks -> ClickStates]
BY DEF Goes, Typed, ClickStates

\* Every step of a press but the first is one of these.
LEMMA PressGoes ==
  ASSUME Typed, NEW c \in Clicks, Go(c) \/ Die(c)
  PROVE  Goes(c) /\ click' \in [Clicks -> ClickStates]
<1>1. Underway(c)
  BY DEF Go, Open, Queue, Decide, Consume, Submit, ReadBack, Call, Finish, Die, Underway
<1>2. click[c] \in Asking \cup Calling \cup Answered
  BY <1>1, Equipped
<1>3. CASE Open(c) \/ Queue(c)
  <2>1. click[c] \in Asking
    BY <1>2, <1>3 DEF Open, Queue, Asking, Calling, Answered
  <2>. QED BY <1>3, <2>1, NextPosition DEF Open, Queue, Onward
<1>4. CASE Decide(c) \/ Consume(c)
  <2>1. click[c] \in Asking
    BY <1>2, <1>4 DEF Decide, Consume, Asking, Calling, Answered
  <2>2. \/ click' = [click EXCEPT ![c] = Done]
        \/ click[c].at = "deciding" /\ click' = [click EXCEPT ![c].at = "consuming"]
        \/ click[c].at = "consuming" /\ click' = [click EXCEPT ![c].at = "submitting"]
    BY <1>4 DEF Decide, Consume
  <2>. QED BY <1>1, <2>1, <2>2, NextPosition, Ends DEF Onward
<1>5. CASE Submit(c)
  <2>1. click[c] \in Asking
    BY <1>2, <1>5 DEF Submit, Asking, Calling, Answered
  <2>. QED BY <1>5, <2>1, NextPosition DEF Submit, Onward
<1>6. CASE ReadBack(c)
  <2>1. click[c] \in Asking /\ Refund(c) \in Refunds
    BY <1>1, <1>2, <1>6, Equipped DEF ReadBack, Asking, Calling, Answered
  <2> DEFINE next == [at |-> "calling", approval |-> click[c].approval,
                      asked |-> click[c].asked, saw |-> row[Refund(c)].state]
  <2>2. next \in Calling
    BY <2>1 DEF Typed, Asking, Calling, Row
  <2>3. click' = [click EXCEPT ![c] = next] /\ click[c].at = "submitted"
    BY <1>6 DEF ReadBack
  <2>. QED BY <1>1, <2>2, <2>3 DEF Typed, Goes, Onward, ClickStates
<1>7. CASE Call(c)
  <2>1. click[c] \in Calling /\ Refund(c) \in Refunds
    BY <1>1, <1>2, <1>7, Equipped DEF Call, Asking, Calling, Answered
  <2>2. PICK p \in IF Made(Key(c)) = {} THEN Fresh(c) ELSE Made(Key(c)) :
          \/ click' = [click EXCEPT ![c] = Done]
          \/ click' = [click EXCEPT ![c] =
                [at |-> "answered", approval |-> click[c].approval, asked |-> click[c].asked,
                 saw |-> click[c].saw, as |-> p.first, id |-> p.under]]
    BY <1>7, Zenon DEF Call
  <2>3. p.first \in Answers /\ p.under \in Approvals
    BY <2>1 DEF Typed, Made, Fresh, ProviderRefund, Answers, Calling
  <2> DEFINE next == [at |-> "answered", approval |-> click[c].approval, asked |-> click[c].asked,
                      saw |-> click[c].saw, as |-> p.first, id |-> p.under]
  <2>4. next \in Answered
    BY <2>1, <2>3 DEF Calling, Answered
  <2>5. ASSUME click' = [click EXCEPT ![c] = next]
        PROVE  Goes(c) /\ click' \in [Clicks -> ClickStates]
    BY <1>1, <1>7, <2>4, <2>5 DEF Call, Typed, Goes, Onward, ClickStates
  <2>. QED BY <1>1, <2>2, <2>5, Ends
<1>8. CASE Finish(c) \/ Die(c)
  BY <1>1, <1>8, Ends DEF Finish, Die
<1>. QED BY <1>3, <1>4, <1>5, <1>6, <1>7, <1>8 DEF Go

\* An UPDATE of a refund's row leaves a row, and every reason as it was.
LEMMA Writes ==
  ASSUME Typed, NEW r \in Refunds, NEW state \in States \ {"none"}, NEW id \in Approvals,
         row' = Write(r, state) \/ row' = WriteId(r, state, id)
  PROVE  /\ row' \in [Refunds -> Row]
         /\ \A q \in Refunds : row'[q].reason = row[q].reason
         /\ \A q \in Refunds : row[q].state # "none" => row'[q].state # "none"
<1>1. row' \in [Refunds -> Row]
  BY DEF Typed, Write, WriteId, Row
<1>2. /\ \A q \in Refunds \ {r} : row'[q] = row[q]
      /\ row'[r].reason = row[r].reason /\ row'[r].state = state
  BY DEF Typed, Write, WriteId, Row
<1>. QED BY <1>1, <1>2

\* The states a step writes.
LEMMA StatesReached ==
  /\ {Reached.queue_for_owner, Reached.owner_approved} \subseteq States \ {"none"}
  /\ \A status \in Answers : Reached[status] \in States \ {"none"}
BY DEF Reached, States, Answers

\* A row that is there stays, and keeps its reason.
LEMMA RowsKeep ==
  ASSUME Typed, [Next]_vars
  PROVE  /\ row' \in [Refunds -> Row]
         /\ \A r \in Refunds : row[r].state # "none" =>
              row'[r].state # "none" /\ row'[r].reason = row[r].reason
<1>1. CASE row' = row
  BY <1>1 DEF Typed
<1>2. ASSUME NEW c \in Clicks, Open(c), row' # row
      PROVE  /\ row' \in [Refunds -> Row]
             /\ \A r \in Refunds : row[r].state # "none" => row'[r] = row[r]
  <2>1. Refund(c) \in Refunds /\ click[c].asked.reason \in Reasons
    BY <1>2, Equipped DEF Open, Underway, Payload
  <2>2. /\ row[Refund(c)].state = "none"
        /\ row' = [row EXCEPT ![Refund(c)].state = "requested",
                              ![Refund(c)].reason = click[c].asked.reason]
    BY <1>2 DEF Open
  <2>3. row' \in [Refunds -> Row]
    BY <2>1, <2>2 DEF Typed, Row, States
  <2>. QED BY <2>2, <2>3 DEF Typed
<1>3. ASSUME NEW c \in Clicks, Queue(c) \/ Submit(c) \/ Finish(c), row' # row
      PROVE  \E r \in Refunds, state \in States \ {"none"}, id \in Approvals :
               row' = Write(r, state) \/ row' = WriteId(r, state, id)
  <2>1. /\ Refund(c) \in Refunds /\ click[c].approval \in Approvals
        /\ click[c] \in Asking \cup Calling \cup Answered
    BY <1>3, Equipped DEF Queue, Submit, Finish, Underway
  <2>2. CASE Queue(c) \/ Submit(c)
    <3>1. PICK state \in States \ {"none"} : row' = Write(Refund(c), state)
      BY <2>2, StatesReached DEF Queue, Submit
    <3>. QED BY <2>1, <3>1
  <2>3. CASE Finish(c)
    <3>1. click[c] \in Answered
      BY <2>1, <2>3 DEF Finish, Asking, Calling, Answered
    <3>2. Reached[click[c].as] \in States \ {"none"} /\ click[c].id \in Approvals
      BY <3>1, StatesReached DEF Answered
    <3>3. row' = WriteId(Refund(c), Reached[click[c].as], click[c].id)
      BY <1>3, <2>3 DEF Finish
    <3>. QED BY <2>1, <3>2, <3>3
  <2>. QED BY <1>3, <2>2, <2>3
<1>4. CASE Apply
  <2>1. webhook.refund \in Refunds /\ webhook.event \in Event
    BY <1>4 DEF Apply, Typed, WebhookStates, Waiting
  <2>2. webhook.event.id \in Approvals /\ Reached[webhook.event.status] \in States \ {"none"}
    BY <2>1, StatesReached DEF Event
  <2> DEFINE r == webhook.refund  state == Reached[webhook.event.status]  id == webhook.event.id
  <2>3. row' = Write(r, state) \/ row' = WriteId(r, state, id)
    BY <1>4 DEF Apply
  <2>4. r \in Refunds /\ state \in States \ {"none"} /\ id \in Approvals
    BY <2>1, <2>2
  <2>. HIDE DEF r, state, id
  <2>. QED BY <2>3, <2>4, Writes
<1>5. ASSUME NEW c \in Clicks, Queue(c) \/ Submit(c) \/ Finish(c), row' # row
      PROVE  /\ row' \in [Refunds -> Row]
             /\ \A r \in Refunds : row[r].state # "none" =>
                  row'[r].state # "none" /\ row'[r].reason = row[r].reason
  <2>1. PICK r \in Refunds, state \in States \ {"none"}, id \in Approvals :
          row' = Write(r, state) \/ row' = WriteId(r, state, id)
    BY <1>3, <1>5
  <2>. QED BY <2>1, Writes
<1>6. \/ row' = row \/ Apply
      \/ \E c \in Clicks : Open(c) \/ Queue(c) \/ Submit(c) \/ Finish(c)
  BY DEF Next, Go, vars, Grant, Lapse, Withdraw, Press, Decide, Consume, ReadBack, Call, Die,
     Settle, Forget, Receive
<1>. QED BY <1>1, <1>2, <1>4, <1>5, <1>6

\* An approval is granted once, and what is spent stays spent.
LEMMA ApprovalsKeep ==
  ASSUME Typed, [Next]_vars
  PROVE  /\ approval' \in [Approvals -> {"none", "granted", "lapsed", "revoked", "consumed"}]
         /\ \A a \in Approvals :
              /\ approval[a] # "none" => approval'[a] # "none"
              /\ approval'[a] = "granted" => approval[a] \in {"none", "granted"}
              /\ approval[a] = "consumed" => approval'[a] = "consumed"
<1>1. CASE approval' = approval
  BY <1>1 DEF Typed
<1>2. ASSUME NEW a \in Approvals, Grant(a) \/ Lapse(a) \/ Withdraw(a)
      PROVE  \/ approval[a] = "none" /\ approval' = [approval EXCEPT ![a] = "granted"]
             \/ /\ approval[a] \in {"granted", "lapsed"}
                /\ approval' \in {[approval EXCEPT ![a] = "lapsed"],
                                  [approval EXCEPT ![a] = "revoked"]}
  BY <1>2 DEF Grant, Lapse, Withdraw
<1>3. ASSUME NEW c \in Clicks, Consume(c), approval' # approval
      PROVE  /\ click[c].approval \in Approvals
             /\ approval' = [approval EXCEPT ![click[c].approval] = "consumed"]
  BY <1>3, Equipped DEF Consume, Underway
<1>4. \/ approval' = approval
      \/ \E a \in Approvals : Grant(a) \/ Lapse(a) \/ Withdraw(a)
      \/ \E c \in Clicks : Consume(c)
  BY DEF Next, Go, vars, Press, Open, Queue, Decide, Submit, ReadBack, Call, Finish, Die,
     Settle, Forget, Receive, Apply
<1>. QED BY <1>1, <1>2, <1>3, <1>4 DEF Typed

-----------------------------------------------------------------------------
(* What a step does to Stripe's refunds. *)

\* One refund at two times: only its status and the memory of its key change.
Same(p, q) == p.under = q.under /\ p.refund = q.refund /\ p.key = q.key /\ p.before = q.before

\* The refund q takes the place of p.
Replaces(p, q) ==
    /\ p \in provider /\ q \in ProviderRefund /\ Same(p, q)
    /\ provider' = (provider \ {p}) \cup {q}
    /\ \/ q.remembered = p.remembered
       \/ /\ \A a \in p.before : approval[a] # "granted"
          /\ \A c \in Clicks : ~Underway(c)
    /\ UNCHANGED <<approval, row, click, webhook, spent, faults>>

\* Stripe's own steps.
LEMMA StripeSteps ==
  ASSUME Typed, Settle \/ Forget
  PROVE  \E p, q \in ProviderRefund : Replaces(p, q)
<1>1. CASE Settle
  <2>1. PICK p \in provider, status \in {"succeeded", "failed"} :
          /\ p.status = "pending" \/ (p.status = "succeeded" /\ status = "failed")
          /\ provider' = (provider \ {p}) \cup {[p EXCEPT !.status = status]}
    BY <1>1 DEF Settle
  <2> DEFINE q == [p EXCEPT !.status = status]
  <2>2. p \in ProviderRefund
    BY DEF Typed
  <2>3. q \in ProviderRefund /\ Same(p, q) /\ q.remembered = p.remembered
    BY <2>2 DEF ProviderRefund, Same, Answers
  <2>. QED BY <1>1, <2>1, <2>2, <2>3 DEF Replaces, Settle
<1>2. CASE Forget
  <2>1. PICK p \in provider :
          /\ \A a \in p.before : approval[a] # "granted"
          /\ provider' = (provider \ {p}) \cup {[p EXCEPT !.remembered = FALSE]}
    BY <1>2 DEF Forget
  <2>2. p \in ProviderRefund
    BY DEF Typed
  <2>3. [p EXCEPT !.remembered = FALSE] \in ProviderRefund /\ Same(p, [p EXCEPT !.remembered = FALSE])
    BY <2>2 DEF ProviderRefund, Same
  <2>. QED BY <1>2, <2>1, <2>2, <2>3 DEF Replaces, Forget, Underway
<1>. QED BY <1>1, <1>2

\* A call is spent on its approval, and makes at most one refund: for a key that
\* Stripe does not remember.
LEMMA Calls ==
  ASSUME Typed, NEW c \in Clicks, Call(c)
  PROVE  /\ Underway(c) /\ Ahead(c) /\ click[c].at = "calling"
         /\ click'[c].at \notin {"submitting", "submitted", "calling"}
         /\ spent' = spent \cup {[click |-> c, approval |-> click[c].approval]}
         /\ UNCHANGED <<approval, row, webhook>>
         /\ events' \subseteq Event
         /\ \/ provider' = provider
            \/ /\ Made(Key(c)) = {}
               /\ \E p \in Fresh(c) : p \in ProviderRefund /\ provider' = provider \cup {p}
<1>1. /\ click[c] \in Calling /\ Refund(c) \in Refunds /\ click[c].approval \in Approvals
      /\ Underway(c) /\ Ahead(c) /\ click[c].at = "calling"
  <2>1. click[c].at = "calling" /\ Underway(c) /\ Ahead(c)
    BY DEF Call, Underway, Ahead
  <2>2. click[c] \in Asking \cup Calling \cup Answered
    BY <2>1, Equipped
  <2>3. click[c] \in Calling
    BY <2>1, <2>2 DEF Asking, Calling, Answered
  <2>. QED BY <2>1, <2>3, Equipped
<1>2. Fresh(c) \subseteq ProviderRefund
  <2> DEFINE before == {a \in Approvals : approval[a] # "none"}
  <2>1. before \in SUBSET Approvals /\ click[c].approval \in Approvals /\ Key(c) \in Refunds
    BY <1>1 DEF Key
  <2>2. Fresh(c) = {[under |-> click[c].approval, refund |-> Refund(c), key |-> Key(c),
                     before |-> before, first |-> status, status |-> status,
                     remembered |-> TRUE] : status \in Answers}
    BY DEF Fresh, Answers
  <2>. HIDE DEF before
  <2>3. ASSUME NEW status \in Answers
        PROVE  [under |-> click[c].approval, refund |-> Refund(c), key |-> Key(c),
                before |-> before, first |-> status, status |-> status,
                remembered |-> TRUE] \in ProviderRefund
    BY <1>1, <2>1 DEF ProviderRefund
  <2>. QED BY <2>2, <2>3
<1>3. Made(Key(c)) \subseteq ProviderRefund /\ Made(Key(c)) \subseteq provider
  BY DEF Made, Typed
<1>4. PICK p \in IF Made(Key(c)) = {} THEN Fresh(c) ELSE Made(Key(c)) :
        /\ provider' = provider \cup {p}
        /\ events' = IF p \in provider THEN events
                     ELSE events \cup {[id |-> p.under, status |-> p.status]}
        /\ \/ click' = [click EXCEPT ![c] = Done]
           \/ click' = [click EXCEPT ![c] =
                 [at |-> "answered", approval |-> click[c].approval, asked |-> click[c].asked,
                  saw |-> click[c].saw, as |-> p.first, id |-> p.under]]
  BY Zenon DEF Call
<1>5. p \in ProviderRefund
  BY <1>2, <1>3, <1>4
<1>6. events' \subseteq Event
  BY <1>4, <1>5 DEF Typed, Event, ProviderRefund
<1>7. \/ provider' = provider
      \/ Made(Key(c)) = {} /\ \E q \in Fresh(c) : q \in ProviderRefund /\ provider' = provider \cup {q}
  BY <1>3, <1>4, <1>5
<1>8. click'[c].at \notin {"submitting", "submitted", "calling"}
  BY <1>4 DEF Typed, Done
<1>9. /\ spent' = spent \cup {[click |-> c, approval |-> click[c].approval]}
      /\ UNCHANGED <<approval, row, webhook>>
  BY DEF Call
<1>. QED BY <1>1, <1>6, <1>7, <1>8, <1>9

\* Who writes what.
LEMMA Writers ==
  ASSUME Typed, [Next]_vars
  PROVE  /\ \A d \in Clicks : click'[d] # click[d] => Press(d) \/ Go(d) \/ Die(d)
         /\ \/ UNCHANGED <<provider, spent>>
            \/ spent' = spent /\ \E p, q \in ProviderRefund : Replaces(p, q)
            \/ \E c \in Clicks : Call(c)
<1>1. ASSUME NEW c \in Clicks, Press(c) \/ Go(c) \/ Die(c)
      PROVE  \A d \in Clicks \ {c} : click'[d] = click[d]
  BY <1>1, PressGoes DEF Goes, Press, Typed
<1>2. CASE UNCHANGED vars
  BY <1>2 DEF vars
<1>3. CASE \E a \in Approvals : Grant(a) \/ Lapse(a) \/ Withdraw(a)
  BY <1>3 DEF Grant, Lapse, Withdraw
<1>4. CASE Receive \/ Apply
  BY <1>4 DEF Receive, Apply
<1>5. CASE Settle \/ Forget
  BY <1>5, StripeSteps DEF Settle, Forget
<1>6. ASSUME NEW c \in Clicks, Press(c) \/ Go(c) \/ Die(c)
      PROVE  UNCHANGED <<provider, spent>> \/ Call(c)
  BY <1>6 DEF Press, Go, Open, Queue, Decide, Consume, Submit, ReadBack, Finish, Die
<1>. QED BY <1>1, <1>2, <1>3, <1>4, <1>5, <1>6 DEF Next

-----------------------------------------------------------------------------
(* The invariant, part by part. *)

LEMMA TypedStep ==
  ASSUME Typed, [Next]_vars
  PROVE  Typed'
<1>1. click' \in [Clicks -> ClickStates]
  <2>1. ASSUME NEW c \in Clicks, Press(c)
        PROVE  click' \in [Clicks -> ClickStates]
    <3>1. PICK a \in Approvals, asked \in Payload :
            click' = [click EXCEPT ![c] =
                IF approval[a] = "granted" /\ Covers(a, asked)
                THEN [at |-> "opening", approval |-> a, asked |-> asked] ELSE Done]
      BY <2>1, Zenon DEF Press
    <3>2. [at |-> "opening", approval |-> a, asked |-> asked] \in ClickStates
      BY DEF ClickStates, Asking
    <3>3. Done \in ClickStates
      BY DEF ClickStates
    <3>. QED BY <3>1, <3>2, <3>3 DEF Typed
  <2>2. \/ click' = click
        \/ \E c \in Clicks : Press(c) \/ Go(c) \/ Die(c)
    BY DEF Next, vars, Grant, Lapse, Withdraw, Settle, Forget, Receive, Apply
  <2>. QED BY <2>1, <2>2, PressGoes DEF Typed
<1>2. provider' \subseteq ProviderRefund /\ spent' \subseteq [click : Clicks, approval : Approvals]
  <2>1. ASSUME NEW c \in Clicks, Call(c)
        PROVE  provider' \subseteq ProviderRefund /\ spent' \subseteq [click : Clicks, approval : Approvals]
    BY <2>1, Calls, Equipped DEF Typed
  <2>. QED BY <2>1, Writers DEF Typed, Replaces
<1>3. events' \subseteq Event
  <2>1. CASE Settle
    BY <2>1 DEF Settle, Typed, ProviderRefund, Event, Answers
  <2>2. CASE Receive
    BY <2>2 DEF Receive, Typed
  <2>3. \/ events' = events \/ Settle \/ Receive \/ \E c \in Clicks : Call(c)
    BY DEF Next, Go, vars, Grant, Lapse, Withdraw, Press, Open, Queue, Decide, Consume, Submit,
       ReadBack, Finish, Die, Forget, Apply
  <2>. QED BY <2>1, <2>2, <2>3, Calls DEF Typed
<1>4. webhook' \in WebhookStates
  <2>1. CASE Receive
    BY <2>1 DEF Receive, Matched, Typed, WebhookStates
  <2>2. CASE Apply
    BY <2>2 DEF Apply, WebhookStates
  <2>3. webhook' = webhook \/ Receive \/ Apply
    BY DEF Next, Go, vars, Grant, Lapse, Withdraw, Press, Open, Queue, Decide, Consume, Submit,
       ReadBack, Call, Finish, Die, Settle, Forget
  <2>. QED BY <2>1, <2>2, <2>3 DEF Typed
<1>5. faults' \in 0..MaxFaults
  <2>1. ASSUME NEW c \in Clicks, Call(c)
        PROVE  faults' \in 0..MaxFaults
    BY <2>1, BoundAssumption DEF Call, Typed
  <2>2. ASSUME NEW c \in Clicks, Die(c)
        PROVE  faults' \in 0..MaxFaults
    BY <2>2, BoundAssumption DEF Die, Typed
  <2>3. faults' = faults \/ \E c \in Clicks : Call(c) \/ Die(c)
    BY DEF Next, Go, vars, Grant, Lapse, Withdraw, Press, Open, Queue, Decide, Consume, Submit,
       ReadBack, Finish, Settle, Forget, Receive, Apply
  <2>. QED BY <2>1, <2>2, <2>3 DEF Typed
<1>. QED BY <1>1, <1>2, <1>3, <1>4, <1>5, RowsKeep, ApprovalsKeep DEF Typed

LEMMA BoundStep ==
  ASSUME Typed, Bound, [Next]_vars
  PROVE  Bound'
<1>1. SUFFICES ASSUME NEW c \in Clicks, Underway(c)'
      PROVE  /\ Of[click'[c].approval] = click'[c].asked
             /\ approval'[click'[c].approval] # "none"
             /\ click'[c].at # "opening" => row'[click'[c].asked.refund].state # "none"
             /\ Decided(c)' => row'[click'[c].asked.refund].reason = click'[c].asked.reason
  BY DEF Bound, Refund, Decided, Underway
<1>2. CASE Underway(c) /\ click'[c].approval = click[c].approval /\ click'[c].asked = click[c].asked
           /\ (click[c].at # "opening" \/ row'[Refund(c)].state # "none" \/ click'[c].at = "opening")
           /\ (Decided(c)' => Decided(c) \/ Decide(c))
  <2>1. /\ click[c].approval \in Approvals /\ click[c].asked \in Payload /\ Refund(c) \in Refunds
    BY <1>2, Equipped
  <2>2. /\ Of[click[c].approval] = click[c].asked
        /\ approval'[click[c].approval] # "none"
    BY <1>2, <2>1, ApprovalsKeep DEF Bound
  <2>3. click'[c].at # "opening" => row'[Refund(c)].state # "none"
    BY <1>2, <2>1, RowsKeep DEF Bound
  <2>4. ASSUME Decided(c) PROVE row'[Refund(c)].reason = click[c].asked.reason
    BY <1>2, <2>1, <2>4, RowsKeep DEF Bound, Decided
  <2>5. ASSUME Decide(c), Decided(c)' PROVE row'[Refund(c)].reason = click[c].asked.reason
    <3>1. Covers(click[c].approval, Judged(c)) /\ row' = row
      BY <1>1, <2>5 DEF Decide, Decided, Typed, Done
    <3>. QED BY <2>2, <3>1 DEF Covers, Judged
  <2>. QED BY <1>2, <2>2, <2>3, <2>4, <2>5 DEF Refund
<1>3. CASE Press(c)
  <2>1. PICK a \in Approvals, asked \in Payload :
          click' = [click EXCEPT ![c] =
              IF approval[a] = "granted" /\ Covers(a, asked)
              THEN [at |-> "opening", approval |-> a, asked |-> asked] ELSE Done]
    BY <1>3, Zenon DEF Press
  <2>2. /\ approval[a] = "granted" /\ Covers(a, asked)
        /\ click'[c] = [at |-> "opening", approval |-> a, asked |-> asked]
    BY <1>1, <2>1 DEF Typed, Underway, Done
  <2>. QED BY <1>3, <2>2 DEF Press, Covers, Decided
<1>4. CASE Go(c) \/ Die(c)
  <2>1. Goes(c) /\ click'[c] # Done
    BY <1>1, <1>4, PressGoes DEF Underway, Done
  <2>2. /\ Underway(c) /\ <<click[c].at, click'[c].at>> \in Onward
        /\ click'[c].approval = click[c].approval /\ click'[c].asked = click[c].asked
    BY <2>1 DEF Goes
  <2>3. click[c].at = "opening" => Open(c)
    BY <1>4, <2>1 DEF Go, Open, Queue, Decide, Consume, Submit, ReadBack, Call, Finish, Die, Typed
  <2>4. Open(c) => row'[Refund(c)].state # "none"
    BY <2>2, Equipped DEF Open, Typed, Row
  <2>5. click[c].at = "deciding" => Decide(c)
    BY <1>4, <2>1 DEF Go, Open, Queue, Decide, Consume, Submit, ReadBack, Call, Finish, Die, Typed
  <2>6. Decided(c)' => Decided(c) \/ click[c].at = "deciding"
    BY <2>2 DEF Onward, Decided
  <2>. QED BY <1>2, <2>2, <2>3, <2>4, <2>5, <2>6
<1>5. CASE click'[c] = click[c]
  BY <1>1, <1>2, <1>5 DEF Underway, Decided
<1>. QED BY <1>3, <1>4, <1>5, Writers

\* A press that has spent its approval had spent it before, or spends it now.
LEMMA Spends ==
  ASSUME Typed, [Next]_vars, NEW c \in Clicks, Holds(c)'
  PROVE  /\ click'[c].approval = click[c].approval /\ click[c].approval \in Approvals
         /\ \/ Holds(c) /\ (Ahead(c)' => Ahead(c))
            \/ /\ ~Holds(c) /\ Claimable(click[c].approval)
               /\ approval' = [approval EXCEPT ![click[c].approval] = "consumed"]
               /\ UNCHANGED <<provider, spent>> /\ \A d \in Clicks \ {c} : click'[d] = click[d]
<1>1. CASE click'[c] = click[c]
  <2>1. Holds(c) /\ Underway(c) /\ (Ahead(c)' => Ahead(c))
    BY <1>1 DEF Holds, Underway, Ahead
  <2>. QED BY <1>1, <2>1, Equipped
<1>2. CASE Press(c)
  <2>1. click'[c].at \in {"opening", "done"}
    BY <1>2 DEF Press, Typed, Done
  <2>. QED BY <2>1 DEF Holds
<1>3. CASE Go(c) \/ Die(c)
  <2>1. Goes(c) /\ click'[c] # Done
    BY <1>3, PressGoes DEF Holds, Done
  <2>2. /\ Underway(c) /\ <<click[c].at, click'[c].at>> \in Onward
        /\ click'[c].approval = click[c].approval
        /\ \A d \in Clicks \ {c} : click'[d] = click[d]
    BY <2>1 DEF Goes
  <2>3. click[c].approval \in Approvals
    BY <2>2, Equipped
  <2>4. CASE click[c].at = "consuming"
    <3>1. Consume(c)
      BY <1>3, <2>1, <2>4 DEF Go, Open, Queue, Decide, Consume, Submit, ReadBack, Call, Finish, Die, Typed
    <3>2. Claimable(click[c].approval) /\ approval' = [approval EXCEPT ![click[c].approval] = "consumed"]
      BY <2>1, <3>1 DEF Consume, Typed
    <3>. QED BY <2>2, <2>3, <2>4, <3>1, <3>2 DEF Consume, Holds
  <2>5. CASE click[c].at # "consuming"
    BY <2>2, <2>3, <2>5 DEF Onward, Holds, Ahead
  <2>. QED BY <2>4, <2>5
<1>. QED BY <1>1, <1>2, <1>3, Writers

LEMMA AuthorityStep ==
  ASSUME Typed, Authority, [Next]_vars
  PROVE  Authority'
<1>1. ASSUME NEW c \in Clicks, Holds(c)'
      PROVE  approval'[click'[c].approval] = "consumed"
  BY <1>1, Spends, ApprovalsKeep DEF Authority, Typed
<1>2. ASSUME NEW c \in Clicks, NEW d \in Clicks, Holds(c)', Holds(d)',
             click'[c].approval = click'[d].approval
      PROVE  c = d
  <2>1. ASSUME NEW e \in Clicks, NEW f \in Clicks, Holds(f)', e # f,
               click[e].approval = click[f].approval, ~Holds(e), Claimable(click[e].approval),
               \A g \in Clicks \ {e} : click'[g] = click[g]
        PROVE  FALSE
    BY <2>1 DEF Authority, Claimable, Holds
  <2>. QED BY <1>2, <2>1, Spends DEF Authority
<1>3. ASSUME NEW c \in Clicks, Ahead(c)', NEW s \in spent', s.approval = click'[c].approval
      PROVE  FALSE
  <2>1. Holds(c)'
    BY <1>3 DEF Holds, Ahead
  <2>2. CASE ~Holds(c)
    BY <1>3, <2>1, <2>2, Spends DEF Authority, OneCallPerApproval, Claimable
  <2>3. CASE Holds(c)
    <3>1. Ahead(c) /\ click'[c].approval = click[c].approval
      BY <1>3, <2>1, <2>3, Spends
    <3>2. PICK d \in Clicks : Call(d) /\ s = [click |-> d, approval |-> click[d].approval]
      BY <1>3, <3>1, Writers, Calls DEF Authority
    <3>3. Holds(d) /\ click[d].approval = click[c].approval
      BY <1>3, <3>1, <3>2 DEF Call, Holds
    <3>. QED BY <1>3, <2>3, <3>2, <3>3, Calls DEF Authority, Ahead
  <2>. QED BY <2>2, <2>3
<1>4. OneCallPerApproval'
  <2>1. ASSUME NEW c \in Clicks, Call(c)
        PROVE  OneCallPerApproval'
    <3>1. /\ spent' = spent \cup {[click |-> c, approval |-> click[c].approval]}
          /\ approval' = approval /\ Ahead(c) /\ Holds(c)
      BY <2>1, Calls DEF Holds, Ahead
    <3>. QED BY <3>1 DEF Authority, OneCallPerApproval
  <2>2. CASE spent' = spent
    BY <2>2, ApprovalsKeep DEF Authority, OneCallPerApproval, Typed
  <2>. QED BY <2>1, <2>2, Writers
<1>. QED BY <1>1, <1>2, <1>3, <1>4 DEF Authority

\* Which refunds Stripe has after a step: those it had, one of a call that had not
\* been made, or one with another status or a forgotten key.
LEMMA Refunded ==
  ASSUME Typed, [Next]_vars
  PROVE  \/ provider' = provider
         \/ spent' = spent /\ \E p, q \in ProviderRefund : Replaces(p, q)
         \/ \E c \in Clicks : /\ Call(c) /\ Made(Key(c)) = {}
                             /\ \E p \in Fresh(c) : provider' = provider \cup {p}
BY Writers, Calls

LEMMA MoneyStep ==
  ASSUME Typed, Bound, Authority, Money, [Next]_vars
  PROVE  Money'
<1>0. spent \subseteq spent'
  BY Writers, Calls
<1> DEFINE Sound(p) ==
        /\ p.key = p.refund /\ row'[p.refund].state # "none"
        /\ \E s \in spent' : s.approval = p.under
        /\ approval'[p.under] = "consumed"
        /\ Of[p.under] = [refund |-> p.refund, reason |-> row'[p.refund].reason]
<1>1. ASSUME NEW p \in provider PROVE Sound(p)
  <2>1. p.refund \in Refunds /\ p.under \in Approvals
    BY DEF Typed, ProviderRefund
  <2>2. row'[p.refund].state # "none" /\ row'[p.refund].reason = row[p.refund].reason
    BY <2>1, RowsKeep DEF Money
  <2>. QED BY <1>0, <2>1, <2>2, ApprovalsKeep DEF Money, RefundedAsApproved
<1>2. ASSUME NEW c \in Clicks, Call(c), NEW p \in Fresh(c)
      PROVE  Sound(p) /\ \A q \in provider : q.under # p.under
  <2>1. /\ Underway(c) /\ click[c].at = "calling" /\ Ahead(c) /\ Holds(c) /\ Decided(c)
        /\ [click |-> c, approval |-> click[c].approval] \in spent'
        /\ row' = row /\ approval' = approval
    BY <1>2, Calls DEF Ahead, Holds, Decided
  <2>2. p.key = Refund(c) /\ p.refund = Refund(c) /\ p.under = click[c].approval
    BY DEF Fresh, Key
  <2>3. /\ row[Refund(c)].state # "none" /\ row[Refund(c)].reason = click[c].asked.reason
        /\ Of[click[c].approval] = click[c].asked /\ click[c].asked \in Payload
    BY <2>1, Equipped DEF Bound
  <2>4. click[c].asked = [refund |-> Refund(c), reason |-> row[Refund(c)].reason]
    BY <2>3 DEF Payload, Refund
  <2>5. approval[click[c].approval] = "consumed"
    BY <2>1 DEF Authority
  <2>6. \A q \in provider : q.under # p.under
    BY <2>1, <2>2 DEF Money, Authority
  <2>7. \E s \in spent' : s.approval = p.under
    BY <2>1, <2>2
  <2>. QED BY <2>1, <2>2, <2>3, <2>4, <2>5, <2>6, <2>7
<1>3. ASSUME NEW p \in ProviderRefund, NEW q \in ProviderRefund, Replaces(p, q)
      PROVE  p \in provider /\ Sound(q)
  BY <1>1, <1>3 DEF Replaces, Same
<1>4. \A p \in provider' : Sound(p)
  <2>. SUFFICES ASSUME NEW p \in provider' PROVE Sound(p) OBVIOUS
  <2>1. p \in provider => Sound(p)
    BY <1>1
  <2>2. \/ p \in provider
        \/ \E c \in Clicks : Call(c) /\ p \in Fresh(c)
        \/ \E q \in ProviderRefund : p \in ProviderRefund /\ Replaces(q, p)
    BY Refunded DEF Replaces
  <2>. QED BY <1>2, <1>3, <2>1, <2>2
<1>5. \A p, q \in provider' : q.under = p.under => q = p
  <2>1. \A p, q \in provider : q.under = p.under => q = p
    BY DEF Money, RefundedAsApproved
  <2>2. ASSUME NEW c \in Clicks, Call(c), NEW p \in Fresh(c), provider' = provider \cup {p}
        PROVE  \A r, q \in provider' : q.under = r.under => q = r
    <3>1. \A q \in provider : q.under # p.under
      BY <1>2, <2>2
    <3>. QED BY <2>1, <2>2, <3>1
  <2>3. ASSUME NEW p \in ProviderRefund, NEW q \in ProviderRefund, Replaces(p, q)
        PROVE  \A r, s \in provider' : s.under = r.under => s = r
    BY <2>1, <2>3 DEF Replaces, Same
  <2>. QED BY <2>1, <2>2, <2>3, Refunded
<1>. QED BY <1>4, <1>5 DEF Money, RefundedAsApproved

LEMMA MemoryStep ==
  ASSUME Typed, Bound, Authority, Money, Memory, [Next]_vars
  PROVE  Memory'
<1>1. ASSUME NEW c \in Clicks, Call(c), NEW p \in Fresh(c)
      PROVE  /\ p.before = {a \in Approvals : approval[a] # "none"} /\ p.remembered
             /\ p.refund = Refund(c) /\ p.under = click[c].approval
  BY DEF Fresh
<1>2. ASSUME NEW p \in provider, NEW a \in p.before
      PROVE  /\ a \in Approvals /\ approval[a] # "none" /\ approval'[a] # "none"
             /\ approval[a] # "granted" => approval'[a] # "granted"
  <2>1. a \in Approvals /\ approval[a] # "none"
    BY DEF Typed, ProviderRefund, Memory
  <2>. QED BY <2>1, ApprovalsKeep
\* A press that may still call had its approval before the step, or takes one that is
\* granted.
<1>3. ASSUME NEW c \in Clicks, Underway(c)', click'[c].at # "answered"
      PROVE  \/ Underway(c) /\ click[c].at # "answered" /\ click'[c].approval = click[c].approval
             \/ click'[c].approval \in Approvals /\ approval[click'[c].approval] = "granted"
  <2>1. CASE click'[c] = click[c]
    BY <1>3, <2>1 DEF Underway
  <2>2. CASE Press(c)
    <3>1. PICK a \in Approvals, asked \in Payload :
            click' = [click EXCEPT ![c] =
                IF approval[a] = "granted" /\ Covers(a, asked)
                THEN [at |-> "opening", approval |-> a, asked |-> asked] ELSE Done]
      BY <2>2, Zenon DEF Press
    <3>. QED BY <1>3, <3>1 DEF Typed, Underway, Done
  <2>3. CASE Go(c) \/ Die(c)
    <3>1. Goes(c) /\ click'[c] # Done
      BY <1>3, <2>3, PressGoes DEF Underway, Done
    <3>. QED BY <3>1 DEF Goes, Onward
  <2>. QED BY <2>1, <2>2, <2>3, Writers
<1>4. \A p \in provider' : \A a \in p.before : approval'[a] # "none"
  <2>1. ASSUME NEW c \in Clicks, Call(c), NEW p \in Fresh(c), NEW a \in p.before
        PROVE  approval'[a] # "none"
    BY <1>1, <2>1, Calls
  <2>2. ASSUME NEW p \in ProviderRefund, NEW q \in ProviderRefund, Replaces(p, q)
        PROVE  \A r \in provider' : \A a \in r.before : approval'[a] # "none"
    BY <1>2, <2>2 DEF Replaces, Same
  <2>. QED BY <1>2, <2>1, <2>2, Refunded
<1> DEFINE Over(p) ==
        /\ \A a \in p.before : approval'[a] # "granted"
        /\ \A c \in Clicks : Underway(c)' /\ click'[c].at # "answered" =>
             click'[c].approval \notin p.before
<1>5. ASSUME NEW p \in provider, ~p.remembered PROVE Over(p)
  <2>1. \A a \in p.before : approval[a] # "granted"
    BY <1>5 DEF Memory
  <2>2. ASSUME NEW c \in Clicks, Underway(c)', click'[c].at # "answered",
               click'[c].approval \in p.before
        PROVE  FALSE
    BY <1>3, <1>5, <2>1, <2>2 DEF Memory
  <2>. QED BY <1>2, <2>1, <2>2
<1>6. ASSUME NEW p \in ProviderRefund, NEW q \in ProviderRefund, Replaces(p, q), ~q.remembered
      PROVE  Over(q)
  <2>1. p \in provider /\ q.before = p.before
    BY <1>6 DEF Replaces, Same
  <2>2. CASE ~p.remembered
    BY <1>5, <2>1, <2>2
  <2>3. CASE p.remembered
    <3>1. /\ \A a \in p.before : approval[a] # "granted"
          /\ \A c \in Clicks : ~Underway(c)
          /\ approval' = approval /\ click' = click
      BY <1>6, <2>3 DEF Replaces
    <3>. QED BY <2>1, <3>1 DEF Underway
  <2>. QED BY <2>2, <2>3
<1>7. \A p \in provider' : ~p.remembered => Over(p)
  <2>. SUFFICES ASSUME NEW p \in provider', ~p.remembered PROVE Over(p) OBVIOUS
  <2>1. p \in provider => Over(p)
    BY <1>5
  <2>2. \/ p \in provider
        \/ \E c \in Clicks : Call(c) /\ p \in Fresh(c)
        \/ \E q \in ProviderRefund : p \in ProviderRefund /\ Replaces(q, p)
    BY Refunded DEF Replaces
  <2>. QED BY <1>1, <1>6, <2>1, <2>2
<1>8. MovedAgainIsApprovedAgain'
  <2>1. \A p, q \in provider :
          p.refund = q.refund /\ p # q => p.under \notin q.before \/ q.under \notin p.before
    BY DEF Memory, MovedAgainIsApprovedAgain
  <2>2. ASSUME NEW c \in Clicks, Call(c), Made(Key(c)) = {}, NEW p \in Fresh(c),
               provider' = provider \cup {p}
        PROVE  MovedAgainIsApprovedAgain'
    <3>1. /\ Underway(c) /\ click[c].at = "calling"
          /\ p.refund = Refund(c) /\ p.under = click[c].approval
      BY <1>1, <2>2, Calls
    <3>2. ASSUME NEW q \in provider, q.refund = p.refund
          PROVE  p.under \notin q.before
      <4>1. q.key = Key(c)
        BY <3>1, <3>2 DEF Money, Key
      <4>2. ~q.remembered
        BY <2>2, <4>1 DEF Made
      <4>. QED BY <3>1, <4>2 DEF Memory
    <3>. QED BY <2>1, <2>2, <3>2 DEF MovedAgainIsApprovedAgain
  <2>3. ASSUME NEW p \in ProviderRefund, NEW q \in ProviderRefund, Replaces(p, q)
        PROVE  MovedAgainIsApprovedAgain'
    BY <2>1, <2>3 DEF Replaces, Same, MovedAgainIsApprovedAgain
  <2>. QED BY <2>1, <2>2, <2>3, Refunded DEF MovedAgainIsApprovedAgain
<1>. QED BY <1>4, <1>7, <1>8 DEF Memory

-----------------------------------------------------------------------------
\* The invariant holds in every state, whatever the presses, faults, answers of
\* Stripe, webhooks and forgotten keys.
THEOREM InductiveInvariant == Spec => []IInv
<1>1. IInv /\ [Next]_vars => IInv'
  BY TypedStep, BoundStep, AuthorityStep, MoneyStep, MemoryStep DEF IInv
<1>. QED BY InitIInv, <1>1, PTL DEF Spec

\* Every variable keeps its type.
THEOREM TypeCorrect == Spec => []TypeOK
<1>1. IInv => TypeOK
  <2>. SUFFICES ASSUME IInv PROVE TypeOK OBVIOUS
  <2>1. \A c \in Clicks : click[c].at \notin {"idle", "done"} =>
          click[c].approval \in Approvals /\ click[c].asked \in Payload
    BY Equipped DEF IInv, Underway
  <2>. QED BY <2>1 DEF IInv, Typed, TypeOK, Row, States, Answers, ProviderRefund
<1>. QED BY <1>1, InductiveInvariant, PTL

\* issueRefund calls Stripe once under an approval, and the approval is spent by then.
THEOREM CallsAreApproved == Spec => []OneCallPerApproval
<1>1. IInv => OneCallPerApproval
  BY DEF IInv, Authority
<1>. QED BY <1>1, InductiveInvariant, PTL

\* Money goes back only as the owner approved it: every refund at Stripe has a spent
\* approval of its own, granted for what the refund's row says.
THEOREM MoneyMovesAsApproved == Spec => []RefundedAsApproved
<1>1. IInv => RefundedAsApproved
  BY DEF IInv, Money
<1>. QED BY <1>1, InductiveInvariant, PTL

\* One refund moves money twice only with an approval granted after the first time,
\* although Stripe forgets the keys.
THEOREM MoneyMovesAgainAsApproved == Spec => []MovedAgainIsApprovedAgain
<1>1. IInv => MovedAgainIsApprovedAgain
  BY DEF IInv, Memory
<1>. QED BY <1>1, InductiveInvariant, PTL
=============================================================================
