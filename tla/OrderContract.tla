---------------------------- MODULE OrderContract ----------------------------
(***************************************************************************)
(* What an order promises to the people who use it, with every operation   *)
(* done in one step: an order is opened with the items that were asked     *)
(* for, edited while nothing is paid, paid, fulfilled when the money       *)
(* received is the price of the items, cancelled only once the money is    *)
(* given back, and deleted only when nothing was received.  Drafts, locks, *)
(* stored totals, retries and interruptions are not part of the promise.   *)
(***************************************************************************)
EXTENDS Integers, Functions

CONSTANTS ItemId, LineTotal, Body, Wanted, PayId, Amount, None

VARIABLES
  phase,      \* where the order is in its life
  lines,      \* its items
  receipts    \* the amount of every payment that counts

Lines == [ItemId -> LineTotal \cup {None}]
HasItems(f) == \E i \in ItemId : f[i] # None
Price == SumFunction([i \in ItemId |-> IF lines[i] = None THEN 0 ELSE lines[i]])
Received == SumFunction([p \in PayId |-> IF receipts[p] = None THEN 0 ELSE receipts[p]])
NothingReceived == \A p \in PayId : receipts[p] = None

Init ==
  /\ phase = "none"
  /\ lines = [i \in ItemId |-> None]
  /\ receipts = [p \in PayId |-> None]

Open(b) ==
  /\ phase = "none"
  /\ phase' = "open" /\ lines' = Wanted[b]
  /\ UNCHANGED receipts

Edit ==
  /\ phase = "open" /\ NothingReceived
  /\ lines' \in Lines /\ HasItems(lines')
  /\ UNCHANGED <<phase, receipts>>

Receive(p, amount) ==
  /\ phase \in {"open", "paid"} /\ receipts[p] = None
  /\ receipts' = [receipts EXCEPT ![p] = amount]
  /\ UNCHANGED <<phase, lines>>

GiveBack(p) ==
  /\ phase \in {"open", "paid"} /\ receipts[p] # None
  /\ receipts' = [receipts EXCEPT ![p] = None]
  /\ UNCHANGED <<phase, lines>>

\* The payment that makes an order paid is one of its full price.
Settle ==
  /\ phase = "open" /\ \E p \in PayId : receipts[p] = Price
  /\ phase' = "paid"
  /\ UNCHANGED <<lines, receipts>>

Fulfil ==
  /\ phase = "paid" /\ ~NothingReceived /\ Received = Price
  /\ phase' = "fulfilled"
  /\ UNCHANGED <<lines, receipts>>

Cancel ==
  /\ phase \in {"open", "paid"} /\ NothingReceived
  /\ phase' = "cancelled"
  /\ UNCHANGED <<lines, receipts>>

Delete ==
  /\ phase \in {"open", "cancelled"} /\ NothingReceived
  /\ phase' = "deleted"
  /\ UNCHANGED <<lines, receipts>>

Next ==
  \/ \E b \in Body : Open(b)
  \/ Edit
  \/ \E p \in PayId : (\E amount \in Amount : Receive(p, amount)) \/ GiveBack(p)
  \/ Settle \/ Fulfil \/ Cancel \/ Delete

Spec == Init /\ [][Next]_<<phase, lines, receipts>>
=============================================================================
