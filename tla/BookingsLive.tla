---------------------------- MODULE BookingsLive ----------------------------
(***************************************************************************)
(* What becomes of a public submission whose conversion failed.  At most   *)
(* MaxFailures requests fail; scripts/reconcile_bookings is run again and  *)
(* again, and converts what it finds.                                      *)
(***************************************************************************)
EXTENDS Bookings

CONSTANT MaxFailures   \* bound on the requests that fail

ASSUME LiveAssumption == MaxFailures \in Nat

VARIABLE failures

liveVars == <<vars, failures>>

LiveInit == Init /\ failures = 0

Fail(h) ==
  /\ failures < MaxFailures
  /\ failures' = failures + 1
  /\ Abort(h)

LiveStep(h) == Step(h) /\ UNCHANGED failures

Arrive(r) == \E h \in Handler : Begin(h, r) /\ UNCHANGED failures

LiveNext ==
  \/ \E h \in Handler : LiveStep(h) \/ Fail(h)
  \/ \E r \in Workload : Arrive(r)
  \/ DeleteSite /\ UNCHANGED failures

Reconcile == {r \in Workload : r.op = "convert"}

\* A running handler goes on (PocketBase calls are bounded by timeouts and
\* attempts, the lock is polled every 50 ms) and the script is repeated.
Fairness ==
  /\ \A h \in Handler : SF_liveVars(LiveStep(h))
  /\ \A r \in Reconcile : SF_liveVars(Arrive(r))

LiveSpec == LiveInit /\ [][LiveNext]_liveVars /\ Fairness

\* A submission that could be converted now and was not.
Waiting(s) ==
  /\ ~siteDeleted /\ Stored(submissions[s]) /\ ~submissions[s].deleted
  /\ Convertible(s)

\* Conversion is "retry-safe": no stored submission stays without its booking,
\* unless it is withdrawn or its slot is not free any more.
SubmissionIsConverted == \A s \in SubId : Waiting(s) ~> ~Waiting(s)
=============================================================================
