----------------------------- MODULE OrdersLive -----------------------------
(***************************************************************************)
(* What retries of interrupted requests achieve.  Orders lets a request    *)
(* fail at any await, for ever; here at most MaxFailures requests do, so *)
(* that a failure may still come at every step of an attempt and of its    *)
(* retry, and clients repeat the requests in Retried until they get an     *)
(* answer.                                                                 *)
(***************************************************************************)
EXTENDS Orders

CONSTANTS
  MaxFailures,   \* bound on the requests that fail
  Retried        \* the requests that clients repeat

ASSUME LiveAssumption == MaxFailures \in Nat /\ Retried \subseteq Workload

VARIABLE failures

liveVars == <<vars, failures>>

LiveInit == Init /\ failures = 0

Fail(h) ==
  /\ failures < MaxFailures
  /\ failures' = failures + 1
  /\ Abort(h)

LiveStep(h) == Step(h) /\ UNCHANGED failures

Request1(r) == \E h \in Handler : Begin(h, r) /\ UNCHANGED failures

LiveNext ==
  \/ \E h \in Handler : LiveStep(h) \/ Fail(h)
  \/ \E r \in Workload : Request1(r)
  \/ DeleteSite /\ UNCHANGED failures

\* A running handler goes on: every PocketBase call is bounded by its timeout
\* and its number of attempts, and a poll every 50 ms does not miss every
\* moment at which the lock is free.  Every repeated request is sent again
\* and again.
Fairness ==
  /\ \A h \in Handler : SF_liveVars(LiveStep(h))
  /\ \A r \in Retried : SF_liveVars(Request1(r))

LiveSpec == LiveInit /\ [][LiveNext]_liveVars /\ Fairness

\* An interrupted creation whose client retries ends with the order visible:
\* no crash leaves a draft that the same key and body cannot finish.
CreationRecovers ==
  (row = "hidden" /\ creation.state = "building") ~> (row = "visible" \/ siteDeleted)

\* "A retry repairs an order status write that failed after payment
\* creation": no order stays pending with a simulated payment that counts.
PaymentRecovers ==
  (status = "pending" /\ \E p \in PayId : LiveFake(payments[p]))
    ~> (siteDeleted \/ status # "pending" \/ \A p \in PayId : ~LiveFake(payments[p]))

\* A cancellation that voided the payment and failed before the status write
\* is completed by its retry: no order stays paid with nothing received.
CancellationRecovers ==
  (status = "paid" /\ Receipts = {})
    ~> (siteDeleted \/ status = "cancelled" \/ Receipts # {})
=============================================================================
