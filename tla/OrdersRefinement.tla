--------------------------- MODULE OrdersRefinement ---------------------------
(***************************************************************************)
(* Orders implements OrderContract.  A draft that is still being built is  *)
(* no order yet; a payment counts while its row says "completed".          *)
(***************************************************************************)
EXTENDS Orders

Phase ==
  IF row = "absent" \/ creation.state = "building" THEN "none"
  ELSE IF row = "hidden" THEN "deleted"
  ELSE IF status = "pending" THEN "open"
  ELSE status

VisibleLines == IF Phase = "none" THEN NothingStored ELSE items

Counted ==
  [p \in PayId |-> IF Completed(payments[p]) THEN payments[p].amount ELSE None]

Contract ==
  INSTANCE OrderContract WITH
    Amount <- Totals \cup RealAmount,
    phase <- Phase, lines <- VisibleLines, receipts <- Counted

\* Every step of every handler, and every interruption, is one step of the
\* order's life or none that its users can see.
ImplementsContract == Contract!Spec
=============================================================================
