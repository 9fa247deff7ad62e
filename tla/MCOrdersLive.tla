---------------------------- MODULE MCOrdersLive ----------------------------
(***************************************************************************)
(* Small instances of OrdersLive for TLC.                                  *)
(***************************************************************************)
EXTENDS OrdersLive, TLC

CONSTANTS h1, h2, b1, b2, p1, p2, k1

\* A set with its elements listed, which the workers of TLC can share.
Listed(S) == {x : x \in S}

\* Positions 1 and 2 belong to bodies, 3 is the key of an added item.
MCItemId == 1..3

MCWanted ==
  b1 :> [i \in MCItemId |-> IF i = 3 THEN None ELSE i] @@
  b2 :> [i \in MCItemId |-> IF i = 1 THEN 2 ELSE None]

\* An item may be added, the order is paid with one key; it may be cancelled, but
\* that client does not insist.
Cancel == [op |-> "patch", to |-> "cancelled", meta |-> FALSE]
CheckoutRetries == {[op |-> "fake", key |-> k1]}
CheckoutLive == Listed(
  CheckoutRetries \cup {Cancel, [op |-> "add", item |-> 3, line |-> 1]}
  \cup [op : {"create"}, body : {b2}]
  \cup [op : {"pay"}, amount : {3}, status : {"failed"}])

\* Two clients create different orders with one key, and a cancellation is
\* repeated, while others pay, with a key or by hand.
CancelRetries == {Cancel} \cup [op : {"create"}, body : {b1, b2}]
CancelLive == Listed(
  CancelRetries
  \cup [op : {"fake"}, key : {k1}]
  \cup [op : {"pay"}, amount : {3}, status : {"completed", "failed"}])

LiveWork == Listed(CheckoutLive \cup CancelLive)
LiveRetries == CheckoutRetries \cup CancelRetries

VARIABLE focus   \* which of the two workloads a behaviour has

Work(f) == IF f = "checkout" THEN CheckoutLive ELSE CancelLive
Retries(f) == IF f = "checkout" THEN CheckoutRetries ELSE CancelRetries

allVars == <<liveVars, focus>>

FocusInit == LiveInit /\ focus \in {"checkout", "cancel"}

FocusNext ==
  /\ LiveNext
  /\ \A h \in Handler : req'[h] \in Work(focus) \cup {None}
  /\ UNCHANGED focus

\* Fairness of OrdersLive, for the workload there is.
FocusSpec ==
  /\ FocusInit /\ [][FocusNext]_allVars
  /\ \A h \in Handler : SF_allVars(LiveStep(h) /\ UNCHANGED focus)
  /\ \A r \in LiveRetries : SF_allVars(r \in Retries(focus) /\ Request1(r) /\ UNCHANGED focus)

\* Retries of an interrupted checkout repair the status, although nobody repeats
\* a cancellation.
CheckoutRecovers == focus = "checkout" => PaymentRecovers

\* Retries of a cancellation end one that was interrupted, ...
CancelRecovers == focus = "cancel" => CancellationRecovers

\* ... and retries of a creation make its order visible, next to another body
\* under the same key.
CreateRecovers == focus = "cancel" => CreationRecovers
=============================================================================
