--------------------------- MODULE OrdersInvariant ---------------------------
(***************************************************************************)
(* The inductive invariant of Orders.  The safety invariants are not       *)
(* inductive alone: they also rest on who holds the locks, on which        *)
(* request is at which await, and on what a handler that holds the locks   *)
(* has checked and may still rely on when it writes.                       *)
(***************************************************************************)
EXTENDS Orders

\* The awaits that a request of each kind passes.
Fits(label, op) ==
  /\ label \in {"insertOrder", "listItems", "insertLines"} => op = "create"
  /\ label = "insertItem" => op = "add"
  /\ label = "deleteItem" => op \in {"drop", "remove"}
  /\ label \in {"sumItems", "writeTotal"} => op \in {"add", "drop", "remove", "fake"}
  /\ label \in {"insertFake", "markPaid"} => op = "fake"
  /\ label = "insertReal" => op = "pay"
  /\ label = "patchOrder" => op = "patch"
  /\ label = "hideOrder" => op = "hide"
  /\ label = "order" => op # "create"

RequestInv ==
  \A h \in Handler :
    pc[h] # "idle" => req[h] \in Request /\ Fits(pc[h], req[h].op)

\* A handler beyond the first wait holds the site lock, and one that serves an
\* existing order and is beyond the second holds the order lock.
LockInv ==
  \A h \in Handler :
    /\ pc[h] \notin {"idle", "site"} <=> siteLock = h
    /\ orderLock = h <=>
         pc[h] \notin {"idle", "site", "order"} /\ req[h].op # "create"

\* A draft holds only items of its body and no payment.
DraftInv ==
  /\ row = "absent" =>
       /\ creation = None /\ status = "pending"
       /\ items = NothingStored
       /\ \A p \in PayId : payments[p] = None
  /\ row # "absent" => creation \in Creation
  /\ row = "visible" => creation.state = "complete"
  /\ row = "hidden" /\ creation.state = "building" =>
       /\ status = "pending"
       /\ \A i \in ItemId : items[i] \in {None, Wanted[creation.body][i]}
       /\ \A p \in PayId : payments[p] = None

\* What a handler has established and the locks keep true.
Building(h) ==
  row = "hidden" /\ creation = [state |-> "building", body |-> req[h].body]

Missing(h) == {i \in ItemId : Wanted[req[h].body][i] # None /\ items[i] = None}

NewKey(h) == HasItems(items) /\ WithKey(req[h].key) = {}

HandlerInv(h) ==
  /\ pc[h] = "insertOrder" => row = "absent"
  /\ pc[h] \in {"listItems", "insertLines"} => Building(h)
  /\ pc[h] = "insertLines" => todo[h] = Missing(h)
  /\ pc[h] \in {"insertItem", "deleteItem", "sumItems", "writeTotal", "insertFake"} =>
       Editable
  /\ pc[h] = "deleteItem" => SeveralItems
  /\ pc[h] \in {"sumItems", "writeTotal", "insertFake"} /\ req[h].op = "fake" => NewKey(h)
  /\ pc[h] \in {"writeTotal", "insertFake"} => sum[h] = Total(items)
  /\ pc[h] = "insertFake" => total = sum[h]
  /\ pc[h] = "markPaid" =>
       /\ row = "visible" /\ status = "pending"
       /\ \E p \in PayId : LiveFake(payments[p])
  /\ pc[h] = "insertReal" => row = "visible" /\ status \in {"pending", "paid"}
  /\ pc[h] = "hideOrder" => Deletable
  /\ pc[h] = "patchOrder" =>
       /\ row = "visible" /\ kept[h] = creation
       /\ req[h].to = "paid" => status = "paid"
       /\ req[h].to = "pending" => status = "pending"
       /\ req[h].to = "fulfilled" =>
            status = "fulfilled" \/ (status = "paid" /\ Fulfillable)
       /\ req[h].to = "cancelled" =>
            /\ status # "fulfilled"
            /\ Receipts \subseteq todo[h]
       /\ todo[h] \subseteq {p \in PayId : Held(payments[p])}
       /\ todo[h] # {} => req[h].to = "cancelled" /\ status \in {"pending", "paid"}

HandlersInv == \A h \in Handler : HandlerInv(h)

Safety ==
  /\ VisibleHasItems
  /\ SettledTotal
  /\ FakePaymentCovers
  /\ ChargedOnce
  /\ FulfilledIsPaid
  /\ CancelledIsRefunded
  /\ HiddenIsUnpaid

Inv == TypeOK /\ RequestInv /\ LockInv /\ DraftInv /\ HandlersInv /\ Safety
=============================================================================
