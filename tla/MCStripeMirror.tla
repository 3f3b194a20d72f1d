--------------------------- MODULE MCStripeMirror ---------------------------
(***************************************************************************)
(* Small instances of StripeMirror.  A history is what Stripe does with    *)
(* one subscription, each event with the second it is created in.          *)
(***************************************************************************)
EXTENDS StripeMirror

Sub(status, period, at) ==
    [type |-> "subscription", status |-> status, period |-> period, created |-> at]
Invoice(type, period, at) ==
    [type |-> type, status |-> "none", period |-> period, created |-> at]
Checkout(status, at) ==
    [type |-> "checkout", status |-> status, period |-> 0, created |-> at]

\* Bought and paid, and no more.
Subscribed == <<Sub("active", 1, 1), Invoice("invoice_paid", 1, 2)>>

\* A payment is missed, and the subscription is cancelled while it is past due.
Lost == <<Sub("active", 1, 1), Sub("past_due", 1, 3), Sub("canceled", 1, 5)>>

\* A renewal that fails, and is paid in the end.
Recovered == <<Sub("active", 1, 1), Invoice("payment_failed", 2, 3), Sub("active", 2, 5)>>

\* The checkout session completes, what it bought starts a second later, and is
\* cancelled.
CheckedOut == <<Checkout("paid", 1), Sub("active", 1, 2), Sub("canceled", 1, 4)>>

MCHistories == {Subscribed, Lost, Recovered, CheckedOut}

\* Each is one the convergence theorems are about.
ASSUME OrderlyHistories ==
    \A h \in MCHistories : Orderly(h) /\ FailuresShow(h)

\* Stripe warns that distinct events can share a timestamp.
MCSameSecond == {<<Sub("active", 1, 1), Sub("active", 2, 3), Sub("canceled", 2, 3)>>}
=============================================================================
