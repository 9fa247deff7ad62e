----------------------------- MODULE OrdersProofs -----------------------------
(***************************************************************************)
(* Inv of OrdersInvariant is an invariant of Orders for every set of       *)
(* handlers, items, bodies, payments and requests, and with it the type    *)
(* invariant and the safety properties of Orders.                          *)
(***************************************************************************)
EXTENDS OrdersInvariant, TLAPS

USE DEF Status

\* Every total the handlers compute is the total of some items.
LEMMA TotalType == \A f \in Lines : Total(f) \in Totals
  BY DEF Totals

LEMMA NothingIsLines == NothingStored \in Lines
  BY DEF NothingStored, Lines

LEMMA InitType == Init => TypeOK
  BY TotalType, NothingIsLines, NoneAssumption DEF Init, TypeOK, NothingStored

\* A request keeps the type of everything when it ends.
LEMMA FinishType ==
  ASSUME TypeOK, NEW h \in Handler, Finish(h)
  PROVE  /\ pc' = [pc EXCEPT ![h] = "idle"]
         /\ pc' \in [Handler -> {"idle", "site", "order", "load", "insertOrder",
                         "listItems", "insertLines", "insertItem", "deleteItem",
                         "sumItems", "writeTotal", "insertFake", "insertReal",
                         "markPaid", "patchOrder", "hideOrder"}]
         /\ req' \in [Handler -> Request \cup {None}]
         /\ todo' \in [Handler -> SUBSET (ItemId \cup PayId)]
         /\ sum' \in [Handler -> Totals]
         /\ kept' \in [Handler -> Creation \cup {None}]
         /\ siteLock' \in Handler \cup {None}
         /\ orderLock' \in Handler \cup {None}
  BY TotalType, NothingIsLines DEF Finish, Goto, TypeOK

LEMMA RejectType ==
  ASSUME TypeOK, NEW h \in Handler, Reject(h)
  PROVE  TypeOK'
  <1>1. Finish(h) /\ UNCHANGED <<siteDeleted, rows>>
    BY DEF Reject
  <1> QED
    BY <1>1, FinishType DEF TypeOK, rows

LEMMA ProceedType ==
  ASSUME TypeOK, NEW h \in Handler,
         NEW l \in {"order", "load", "insertOrder", "listItems", "insertItem", "deleteItem",
                    "sumItems", "insertReal", "markPaid", "hideOrder"},
         Proceed(h, l)
  PROVE  TypeOK'
  BY DEF Proceed, Goto, TypeOK, rows, locks, locals

\* The fields a request of each kind has.
LEMMA RequestFields ==
  ASSUME NEW r \in Request
  PROVE  /\ r.op \in {"create", "add", "drop", "remove", "patch", "hide", "pay", "fake"}
         /\ r.op = "create" => r.body \in Body
         /\ r.op \in {"add", "drop", "remove"} => r.item \in ItemId
         /\ r.op = "add" => r.line \in LineTotal
         /\ r.op = "patch" => r.to \in Status \cup {None} /\ r.meta \in BOOLEAN
         /\ r.op = "pay" => r.amount \in RealAmount /\ r.status \in PayStatus
         /\ r.op = "fake" => r.key \in FakeKey
  BY DEF Request

LEMMA LineType ==
  ASSUME NEW i \in ItemId, NEW x \in LineTotal \cup {None}, items \in Lines
  PROVE  [items EXCEPT ![i] = x] \in Lines
  BY DEF Lines

LEMMA WantedType ==
  ASSUME NEW b \in Body
  PROVE  /\ Wanted[b] \in Lines
         /\ HasItems(Wanted[b])
         /\ \A i \in ItemId : Wanted[b][i] \in LineTotal \cup {None}
  BY BodyAssumption DEF Lines

LEMMA ReadType ==
  ASSUME TypeOK, RequestInv, NEW h \in Handler, Read(h)
  PROVE  TypeOK'
  <1>1. CASE LoadCreate(h)
    BY <1>1, RejectType, ProceedType DEF LoadCreate
  <1>2. CASE LoadAdd(h)
    BY <1>2, RejectType, ProceedType DEF LoadAdd
  <1>3. CASE LoadDrop(h)
    BY <1>3, RejectType, ProceedType DEF LoadDrop
  <1>4. CASE LoadPatch(h)
    <2>1. CASE Reject(h)
      BY <2>1, RejectType
    <2>2. CASE ~Reject(h)
      BY <1>4, <2>2 DEF LoadPatch, Goto, ToVoid, TypeOK, rows, locks
    <2> QED
      BY <2>1, <2>2
  <1>5. CASE LoadHide(h)
    BY <1>5, RejectType, ProceedType DEF LoadHide
  <1>6. CASE LoadPay(h)
    BY <1>6, RejectType, ProceedType DEF LoadPay
  <1>7. CASE LoadFake(h)
    BY <1>7, RejectType, ProceedType DEF LoadFake
  <1>8. CASE ListItems(h)
    BY <1>8 DEF ListItems, Goto, TypeOK, rows, locks
  <1>9. CASE SumItems(h)
    BY <1>9, TotalType DEF SumItems, Goto, TypeOK, rows, locks
  <1> QED
    BY <1>1, <1>2, <1>3, <1>4, <1>5, <1>6, <1>7, <1>8, <1>9 DEF Read

LEMMA VoidedType ==
  ASSUME NEW payment \in Payment
  PROVE  /\ Voided(payment) \in Payment
         /\ Voided(payment).status = "cancelled"
         /\ Voided(payment).method = payment.method
         /\ Voided(payment).amount = payment.amount
         /\ Voided(payment).key = payment.key
  BY DEF Voided, Payment, PayStatus

LEMMA WriteType ==
  ASSUME TypeOK, RequestInv, NEW h \in Handler, HandlerInv(h), Write(h)
  PROVE  TypeOK'
  <1> DEFINE r == req[h]
  <1>0. pc[h] # "idle" => r \in Request
    BY DEF RequestInv
  <1>1. CASE InsertOrder(h)
    <2>1. r \in Request /\ r.op = "create"
      BY <1>0, <1>1 DEF InsertOrder, RequestInv, Fits
    <2>2. r.body \in Body /\ Total(Wanted[r.body]) \in Totals
      BY <2>1, RequestFields, WantedType, TotalType
    <2> QED
      BY <1>1, <2>2 DEF InsertOrder, Goto, TypeOK, Creation, locks, locals
  <1>2. CASE InsertLine(h)
    <2>1. r \in Request /\ r.op = "create"
      BY <1>0, <1>2 DEF InsertLine, RequestInv, Fits
    <2>2. r.body \in Body
      BY <2>1, RequestFields
    <2>3. PICK i \in todo[h] : /\ items[i] = None
                               /\ items' = [items EXCEPT ![i] = Wanted[r.body][i]]
                               /\ todo' = [todo EXCEPT ![h] = @ \ {i}]
      BY <1>2 DEF InsertLine
    <2>4. items' \in Lines
      BY <2>2, <2>3, WantedType DEF TypeOK, Lines
    <2> QED
      BY <1>2, <2>3, <2>4 DEF InsertLine, TypeOK, orderRow, locks
  <1>3. CASE Publish(h)
    <2>1. r \in Request /\ r.op = "create"
      BY <1>0, <1>3 DEF Publish, RequestInv, Fits
    <2>2. r.body \in Body
      BY <2>1, RequestFields
    <2> QED
      BY <1>3, <2>2, FinishType DEF Publish, TypeOK, Creation
  <1>4. CASE InsertItem(h)
    <2>1. r \in Request /\ r.op = "add"
      BY <1>0, <1>4 DEF InsertItem, RequestInv, Fits
    <2>2. items' \in Lines
      BY <1>4, <2>1, RequestFields, LineType DEF InsertItem, TypeOK
    <2> QED
      BY <1>4, <2>2 DEF InsertItem, Goto, TypeOK, orderRow, locks, locals
  <1>5. CASE DeleteItem(h)
    <2>1. r \in Request /\ r.op \in {"drop", "remove"}
      BY <1>0, <1>5 DEF DeleteItem, RequestInv, Fits
    <2>2. items' \in Lines
      BY <1>5, <2>1, RequestFields, LineType DEF DeleteItem, TypeOK
    <2> QED
      BY <1>5, <2>2 DEF DeleteItem, Goto, TypeOK, orderRow, locks, locals
  <1>6. CASE WriteTotal(h)
    <2>1. CASE Finish(h)
      BY <1>6, <2>1, FinishType DEF WriteTotal, TypeOK
    <2>2. CASE ~Finish(h)
      BY <1>6, <2>2 DEF WriteTotal, Goto, TypeOK, locks, locals
    <2> QED
      BY <2>1, <2>2
  <1>7. CASE VoidFake(h)
    <2>1. PICK p \in todo[h] :
            /\ payments' = [payments EXCEPT ![p] = Voided(@)]
            /\ todo' = [todo EXCEPT ![h] = @ \ {p}]
      BY <1>7 DEF VoidFake
    <2>2. p \in PayId /\ payments[p] \in Payment
      BY <1>7, <2>1 DEF VoidFake, HandlerInv, Held, TypeOK
    <2>3. payments' \in [PayId -> Payment \cup {None}]
      BY <2>1, <2>2, VoidedType DEF TypeOK
    <2> QED
      BY <1>7, <2>1, <2>3 DEF VoidFake, TypeOK, orderRow, locks
  <1>8. CASE PatchOrder(h)
    <2>1. r \in Request /\ r.op = "patch"
      BY <1>0, <1>8 DEF PatchOrder, RequestInv, Fits
    <2>2. r.to \in Status \cup {None}
      BY <2>1, RequestFields
    <2>3. status' \in Status /\ creation' \in Creation \cup {None}
      BY <1>8, <2>2 DEF PatchOrder, TypeOK
    <2> QED
      BY <1>8, <2>3, FinishType DEF PatchOrder, TypeOK
  <1>9. CASE HideOrder(h)
    BY <1>9, FinishType DEF HideOrder, TypeOK
  <1>10. CASE InsertReal(h)
    <2>1. r \in Request /\ r.op = "pay"
      BY <1>0, <1>10 DEF InsertReal, RequestInv, Fits
    <2>2. r.amount \in RealAmount /\ r.status \in PayStatus
      BY <2>1, RequestFields
    <2>3. payments' \in [PayId -> Payment \cup {None}]
      BY <1>10, <2>2 DEF InsertReal, TypeOK, Payment
    <2> QED
      BY <1>10, <2>3, FinishType DEF InsertReal, TypeOK, orderRow
  <1>11. CASE InsertFake(h)
    <2>1. r \in Request /\ r.op = "fake"
      BY <1>0, <1>11 DEF InsertFake, RequestInv, Fits
    <2>2. r.key \in FakeKey /\ sum[h] \in Totals
      BY <2>1, RequestFields DEF TypeOK
    <2>3. payments' \in [PayId -> Payment \cup {None}]
      BY <1>11, <2>2 DEF InsertFake, TypeOK, Payment, PayStatus
    <2> QED
      BY <1>11, <2>3 DEF InsertFake, Goto, TypeOK, orderRow, locks, locals
  <1>12. CASE MarkPaid(h)
    BY <1>12, FinishType DEF MarkPaid, TypeOK
  <1> QED
    BY <1>1, <1>2, <1>3, <1>4, <1>5, <1>6, <1>7, <1>8, <1>9, <1>10, <1>11, <1>12 DEF Write

LEMMA StepType ==
  ASSUME TypeOK, RequestInv, HandlersInv, [Next]_vars
  PROVE  TypeOK'
  <1>1. ASSUME NEW h \in Handler, NEW r \in Workload, Begin(h, r)
        PROVE  TypeOK'
    BY <1>1, WorkloadAssumption DEF Begin, Goto, TypeOK, rows, locks, locals
  <1>2. ASSUME NEW h \in Handler, EnterSite(h)
        PROVE  TypeOK'
    <2>1. CASE Reject(h)
      BY <2>1, RejectType
    <2>2. CASE ~Reject(h)
      BY <1>2, <2>2 DEF EnterSite, Goto, TypeOK, rows, locals
    <2> QED
      BY <2>1, <2>2
  <1>3. ASSUME NEW h \in Handler, EnterOrder(h)
        PROVE  TypeOK'
    BY <1>3 DEF EnterOrder, Goto, TypeOK, rows, locals
  <1>4. ASSUME NEW h \in Handler, Abort(h)
        PROVE  TypeOK'
    BY <1>4, RejectType DEF Abort
  <1>5. CASE DeleteSite
    BY <1>5 DEF DeleteSite, TypeOK, rows, locks, locals
  <1>6. CASE UNCHANGED vars
    BY <1>6 DEF vars, TypeOK, rows, locks, locals
  <1> QED
    BY <1>1, <1>2, <1>3, <1>4, <1>5, <1>6, ReadType, WriteType DEF Next, Step, HandlersInv

-----------------------------------------------------------------------------
(* Locks and requests.                                                     *)

Inner == {"load", "insertOrder", "listItems", "insertLines", "insertItem",
          "deleteItem", "sumItems", "writeTotal", "insertFake", "insertReal",
          "markPaid", "patchOrder", "hideOrder"}

LEMMA FinishControl ==
  ASSUME TypeOK, RequestInv, LockInv, NEW h \in Handler, Finish(h)
  PROVE  RequestInv' /\ LockInv'
  <1>1. /\ pc' = [pc EXCEPT ![h] = "idle"]
        /\ req' = [req EXCEPT ![h] = None]
        /\ siteLock' = IF siteLock = h THEN None ELSE siteLock
        /\ orderLock' = IF orderLock = h THEN None ELSE orderLock
    BY DEF Finish, Goto
  <1>2. None \notin Handler
    BY NoneAssumption
  <1>3. pc \in [Handler -> Inner \cup {"idle", "site", "order"}] /\ DOMAIN req = Handler
    BY DEF TypeOK, Inner
  <1>4. ASSUME NEW g \in Handler, g # h
        PROVE  /\ pc'[g] = pc[g] /\ req'[g] = req[g]
               /\ siteLock' = g <=> siteLock = g
               /\ orderLock' = g <=> orderLock = g
    BY <1>1, <1>2, <1>3, <1>4
  <1>5. pc'[h] = "idle" /\ siteLock' # h /\ orderLock' # h
    BY <1>1, <1>2, <1>3
  <1>6. RequestInv'
    BY <1>4, <1>5 DEF RequestInv
  <1>7. LockInv'
    BY <1>4, <1>5 DEF LockInv
  <1> QED
    BY <1>6, <1>7

LEMMA InnerControl ==
  ASSUME TypeOK, RequestInv, LockInv, NEW h \in Handler, NEW l \in Inner,
         pc[h] \in Inner, Goto(h, l), req' = req, UNCHANGED locks, Fits(l, req[h].op)
  PROVE  RequestInv' /\ LockInv'
  <1>1. pc' = [pc EXCEPT ![h] = l] /\ siteLock' = siteLock /\ orderLock' = orderLock
    BY DEF Goto, locks
  <1>2. pc \in [Handler -> Inner \cup {"idle", "site", "order"}]
    BY DEF TypeOK, Inner
  <1>3. RequestInv'
    BY <1>1, <1>2 DEF RequestInv, Inner
  <1>4. LockInv'
    BY <1>1, <1>2 DEF LockInv, Inner
  <1> QED
    BY <1>3, <1>4

\* A running handler that loads or writes stays inside its locks or ends.
LEMMA MoveControl ==
  ASSUME TypeOK, RequestInv, LockInv, NEW h \in Handler, Read(h) \/ Write(h)
  PROVE  RequestInv' /\ LockInv'
  <1> DEFINE r == req[h]
  <1>1. pc[h] \in Inner
    BY DEF Read, Write, LoadCreate, LoadAdd, LoadDrop, LoadPatch, LoadHide, LoadPay,
           LoadFake, Serving, ListItems, SumItems, InsertOrder, InsertLine, Publish,
           InsertItem, DeleteItem, WriteTotal, VoidFake, PatchOrder, HideOrder,
           InsertReal, InsertFake, MarkPaid, Inner
  <1>2. Fits(pc[h], r.op)
    BY <1>1 DEF RequestInv, Inner
  <1>3. \/ Finish(h)
        \/ \E l \in Inner : Goto(h, l) /\ req' = req /\ UNCHANGED locks /\ Fits(l, r.op)
    <2>1. CASE LoadCreate(h)
      BY <2>1 DEF LoadCreate, Serving, Reject, Proceed, Inner, Fits
    <2>2. CASE LoadAdd(h)
      BY <2>2 DEF LoadAdd, Serving, Reject, Proceed, Inner, Fits
    <2>3. CASE LoadDrop(h)
      BY <2>3 DEF LoadDrop, Serving, Reject, Proceed, Inner, Fits
    <2>4. CASE LoadPatch(h)
      BY <2>4 DEF LoadPatch, Serving, Reject, Inner, Fits
    <2>5. CASE LoadHide(h)
      BY <2>5 DEF LoadHide, Serving, Reject, Proceed, Inner, Fits
    <2>6. CASE LoadPay(h)
      BY <2>6 DEF LoadPay, Serving, Reject, Proceed, Inner, Fits
    <2>7. CASE LoadFake(h)
      BY <2>7 DEF LoadFake, Serving, Reject, Proceed, Inner, Fits
    <2>8. CASE ListItems(h)
      BY <1>2, <2>8 DEF ListItems, Inner, Fits
    <2>9. CASE SumItems(h)
      BY <1>2, <2>9 DEF SumItems, Inner, Fits
    <2>10. CASE InsertOrder(h)
      BY <1>2, <2>10 DEF InsertOrder, Inner, Fits
    <2>11. CASE InsertItem(h)
      BY <1>2, <2>11 DEF InsertItem, Inner, Fits
    <2>12. CASE DeleteItem(h)
      BY <1>2, <2>12 DEF DeleteItem, Inner, Fits
    <2>13. CASE WriteTotal(h)
      BY <1>2, <2>13 DEF WriteTotal, Inner, Fits
    <2>14. CASE InsertFake(h)
      BY <1>2, <2>14 DEF InsertFake, Inner, Fits
    <2>15. CASE InsertLine(h) \/ VoidFake(h)
      <3>1. pc' = pc /\ req' = req /\ UNCHANGED locks
        BY <2>15 DEF InsertLine, VoidFake
      <3>2. Goto(h, pc[h])
        BY <3>1 DEF Goto, TypeOK
      <3> QED
        BY <1>1, <1>2, <3>1, <3>2
    <2>16. CASE Publish(h) \/ PatchOrder(h) \/ HideOrder(h) \/ InsertReal(h) \/ MarkPaid(h)
      BY <2>16 DEF Publish, PatchOrder, HideOrder, InsertReal, MarkPaid
    <2> QED
      BY <2>1, <2>2, <2>3, <2>4, <2>5, <2>6, <2>7, <2>8, <2>9, <2>10, <2>11, <2>12,
         <2>13, <2>14, <2>15, <2>16 DEF Read, Write
  <1> QED
    BY <1>1, <1>3, FinishControl, InnerControl

LEMMA StepControl ==
  ASSUME TypeOK, RequestInv, LockInv, [Next]_vars
  PROVE  RequestInv' /\ LockInv'
  <1>1. ASSUME NEW h \in Handler, NEW r \in Workload, Begin(h, r)
        PROVE  RequestInv' /\ LockInv'
    <2>1. /\ pc[h] = "idle" /\ pc' = [pc EXCEPT ![h] = "site"]
          /\ req' = [req EXCEPT ![h] = r]
          /\ siteLock' = siteLock /\ orderLock' = orderLock
          /\ r \in Request
      BY <1>1, WorkloadAssumption DEF Begin, Goto, locks
    <2>2. RequestInv'
      BY <2>1 DEF RequestInv, Fits, TypeOK
    <2>3. LockInv'
      BY <2>1 DEF LockInv, TypeOK
    <2> QED
      BY <2>2, <2>3
  <1>2. ASSUME NEW h \in Handler, EnterSite(h)
        PROVE  RequestInv' /\ LockInv'
    <2>1. CASE siteDeleted
      BY <1>2, <2>1, FinishControl DEF EnterSite, Reject
    <2>2. CASE ~siteDeleted
      <3> DEFINE l == IF req[h].op = "create" THEN "load" ELSE "order"
      <3>1. /\ pc[h] = "site" /\ siteLock = None
            /\ siteLock' = h /\ orderLock' = orderLock /\ req' = req
            /\ pc' = [pc EXCEPT ![h] = l]
        BY <1>2, <2>2 DEF EnterSite, Goto
      <3>2. \A g \in Handler : siteLock # g
        BY <3>1, NoneAssumption
      <3>3. RequestInv'
        BY <3>1 DEF RequestInv, Fits, TypeOK
      <3>4. LockInv'
        BY <3>1, <3>2 DEF LockInv, TypeOK
      <3> QED
        BY <3>3, <3>4
    <2> QED
      BY <2>1, <2>2
  <1>3. ASSUME NEW h \in Handler, EnterOrder(h)
        PROVE  RequestInv' /\ LockInv'
    <2>1. /\ pc[h] = "order" /\ orderLock = None
          /\ siteLock' = siteLock /\ orderLock' = h /\ req' = req
          /\ pc' = [pc EXCEPT ![h] = "load"]
      BY <1>3 DEF EnterOrder, Goto
    <2>2. (\A g \in Handler : orderLock # g) /\ req[h].op # "create"
      BY <2>1, NoneAssumption DEF RequestInv, Fits
    <2>3. RequestInv'
      BY <2>1 DEF RequestInv, Fits, TypeOK
    <2>4. LockInv'
      BY <2>1, <2>2 DEF LockInv, TypeOK
    <2> QED
      BY <2>3, <2>4
  <1>4. ASSUME NEW h \in Handler, Abort(h)
        PROVE  RequestInv' /\ LockInv'
    BY <1>4, FinishControl DEF Abort, Reject
  <1>5. CASE DeleteSite \/ UNCHANGED vars
    <2>1. pc' = pc /\ req' = req /\ siteLock' = siteLock /\ orderLock' = orderLock
      BY <1>5 DEF DeleteSite, vars, locks
    <2> QED
      BY <2>1 DEF RequestInv, LockInv
  <1> QED
    BY <1>1, <1>2, <1>3, <1>4, <1>5, MoveControl DEF Next, Step

-----------------------------------------------------------------------------
(* What a step leaves alone.                                               *)

LEMMA SamePayments ==
  ASSUME payments' = payments
  PROVE  /\ Unpaid' = Unpaid
         /\ Receipts' = Receipts
         /\ Received' = Received
         /\ \A k : WithKey(k)' = WithKey(k)
  <1>1. Unpaid' = Unpaid
    BY DEF Unpaid
  <1>2. Receipts' = Receipts
    BY DEF Receipts
  <1>3. Received' = Received
    BY DEF Received
  <1>4. \A k : WithKey(k)' = WithKey(k)
    BY DEF WithKey
  <1> QED
    BY <1>1, <1>2, <1>3, <1>4

LEMMA SameRows ==
  ASSUME UNCHANGED rows
  PROVE  /\ DraftInv => DraftInv'
         /\ Safety => Safety'
         /\ Editable' = Editable
         /\ SeveralItems' = SeveralItems
         /\ Deletable' = Deletable
         /\ Fulfillable' = Fulfillable
  <1>1. /\ row' = row /\ status' = status /\ total' = total /\ creation' = creation
        /\ items' = items /\ payments' = payments
    BY DEF rows
  <1>2. DraftInv => DraftInv'
    BY <1>1 DEF DraftInv
  <1>3. Fulfillable' = Fulfillable
    BY <1>1, SamePayments DEF Fulfillable
  <1>4. Safety => Safety'
    <2>1. VisibleHasItems => VisibleHasItems'
      BY <1>1 DEF VisibleHasItems, HasItems
    <2>2. SettledTotal => SettledTotal'
      BY <1>1 DEF SettledTotal
    <2>3. FakePaymentCovers => FakePaymentCovers'
      BY <1>1 DEF FakePaymentCovers
    <2>4. ChargedOnce => ChargedOnce'
      BY <1>1, SamePayments DEF ChargedOnce
    <2>5. FulfilledIsPaid => FulfilledIsPaid'
      BY <1>1, <1>3 DEF FulfilledIsPaid
    <2>6. CancelledIsRefunded => CancelledIsRefunded'
      BY <1>1, SamePayments DEF CancelledIsRefunded
    <2>7. HiddenIsUnpaid => HiddenIsUnpaid'
      BY <1>1, SamePayments DEF HiddenIsUnpaid
    <2> QED
      BY <2>1, <2>2, <2>3, <2>4, <2>5, <2>6, <2>7 DEF Safety
  <1>5. Editable' = Editable /\ Deletable' = Deletable
    BY <1>1, SamePayments DEF Editable, Deletable
  <1>6. SeveralItems' = SeveralItems
    BY <1>1 DEF SeveralItems
  <1> QED
    BY <1>2, <1>3, <1>4, <1>5, <1>6

\* A handler that has checked nothing yet has nothing to rely on.
LEMMA QuietHandler ==
  ASSUME NEW g \in Handler, pc'[g] \in {"idle", "site", "order", "load"}
  PROVE  HandlerInv(g)'
  BY DEF HandlerInv

LEMMA SameHandler ==
  ASSUME UNCHANGED rows, NEW g \in Handler, HandlerInv(g),
         pc'[g] = pc[g], req'[g] = req[g], todo'[g] = todo[g], sum'[g] = sum[g],
         kept'[g] = kept[g]
  PROVE  HandlerInv(g)'
  <1>1. /\ row' = row /\ status' = status /\ total' = total /\ creation' = creation
        /\ items' = items /\ payments' = payments
    BY DEF rows
  <1>2. Building(g)' = Building(g)
    BY <1>1 DEF Building
  <1>3. Missing(g)' = Missing(g)
    BY <1>1 DEF Missing
  <1>4. NewKey(g)' = NewKey(g)
    BY <1>1, SamePayments DEF NewKey, HasItems
  <1>5. Receipts' = Receipts
    BY <1>1, SamePayments
  <1> QED
    BY <1>1, <1>2, <1>3, <1>4, <1>5, SameRows DEF HandlerInv

\* When a handler works inside the site lock, the others wait or are idle.
LEMMA OthersWait ==
  ASSUME LockInv, NEW h \in Handler, pc[h] \notin {"idle", "site"},
         NEW g \in Handler, g # h
  PROVE  pc[g] \in {"idle", "site"}
  BY DEF LockInv

\* No step of h touches where another handler is or what it read.
Frame(h) ==
  \A g \in Handler \ {h} :
    /\ pc'[g] = pc[g] /\ req'[g] = req[g] /\ todo'[g] = todo[g]
    /\ sum'[g] = sum[g] /\ kept'[g] = kept[g]

LEMMA FinishFrame ==
  ASSUME TypeOK, NEW h \in Handler, Finish(h)
  PROVE  Frame(h)
  BY DEF Finish, Goto, Frame, TypeOK

LEMMA GotoFrame ==
  ASSUME TypeOK, NEW h \in Handler, NEW l, Goto(h, l), req' = req, UNCHANGED locals
  PROVE  Frame(h) /\ pc'[h] = l /\ req'[h] = req[h] /\ todo'[h] = todo[h]
         /\ sum'[h] = sum[h] /\ kept'[h] = kept[h]
  BY DEF Goto, Frame, TypeOK, locals

LEMMA QuietState ==
  ASSUME Inv, NEW h \in Handler, UNCHANGED rows, Frame(h), HandlerInv(h)'
  PROVE  DraftInv' /\ HandlersInv' /\ Safety'
  <1>1. DraftInv' /\ Safety'
    BY SameRows DEF Inv
  <1>2. ASSUME NEW g \in Handler, g # h
        PROVE  HandlerInv(g)'
    BY <1>2, SameHandler DEF Inv, HandlersInv, Frame
  <1> QED
    BY <1>1, <1>2 DEF HandlersInv

LEMMA RejectState ==
  ASSUME Inv, NEW h \in Handler, Reject(h)
  PROVE  DraftInv' /\ HandlersInv' /\ Safety'
  <1>1. TypeOK /\ Finish(h) /\ UNCHANGED rows
    BY DEF Reject, Inv
  <1>2. pc'[h] = "idle"
    BY <1>1 DEF Finish, Goto, TypeOK
  <1> QED
    BY <1>1, <1>2, FinishFrame, QuietHandler, QuietState

LEMMA ProceedState ==
  ASSUME Inv, NEW h \in Handler, NEW l, Proceed(h, l),
         (/\ pc'[h] = l /\ req'[h] = req[h] /\ UNCHANGED rows) => HandlerInv(h)'
  PROVE  DraftInv' /\ HandlersInv' /\ Safety'
  <1>1. Frame(h) /\ pc'[h] = l /\ req'[h] = req[h] /\ UNCHANGED rows
    BY GotoFrame DEF Proceed, Inv
  <1> QED
    BY <1>1, QuietState

LEMMA ReadState ==
  ASSUME Inv, NEW h \in Handler, Read(h)
  PROVE  DraftInv' /\ HandlersInv' /\ Safety'
  <1> DEFINE r == req[h]
  <1>1. CASE LoadCreate(h)
    <2>1. CASE row = "absent" /\ Proceed(h, "insertOrder")
      <3>1. (pc'[h] = "insertOrder" /\ UNCHANGED rows) => HandlerInv(h)'
        BY <2>1 DEF HandlerInv, rows
      <3> QED
        BY <2>1, <3>1, ProceedState
    <2>2. CASE Resumable(r.body) /\ Proceed(h, "listItems")
      <3>1. (pc'[h] = "listItems" /\ req'[h] = r /\ UNCHANGED rows) => HandlerInv(h)'
        BY <2>2 DEF HandlerInv, Building, Resumable, rows
      <3> QED
        BY <2>2, <3>1, ProceedState
    <2> QED
      BY <1>1, <2>1, <2>2, RejectState DEF LoadCreate
  <1>2. CASE LoadAdd(h)
    <2>1. CASE Editable /\ Proceed(h, "insertItem")
      <3>1. (pc'[h] = "insertItem" /\ UNCHANGED rows) => HandlerInv(h)'
        BY <2>1, SameRows DEF HandlerInv
      <3> QED
        BY <2>1, <3>1, ProceedState
    <2>2. CASE Editable /\ Proceed(h, "sumItems")
      <3>1. (pc'[h] = "sumItems" /\ req'[h] = r /\ UNCHANGED rows) => HandlerInv(h)'
        BY <1>2, <2>2, SameRows DEF HandlerInv, LoadAdd, Serving
      <3> QED
        BY <2>2, <3>1, ProceedState
    <2> QED
      BY <1>2, <2>1, <2>2, RejectState DEF LoadAdd
  <1>3. CASE LoadDrop(h)
    <2>1. CASE Editable /\ SeveralItems /\ Proceed(h, "deleteItem")
      <3>1. (pc'[h] = "deleteItem" /\ UNCHANGED rows) => HandlerInv(h)'
        BY <2>1, SameRows DEF HandlerInv
      <3> QED
        BY <2>1, <3>1, ProceedState
    <2>2. CASE Editable /\ Proceed(h, "sumItems")
      <3>1. (pc'[h] = "sumItems" /\ req'[h] = r /\ UNCHANGED rows) => HandlerInv(h)'
        BY <1>3, <2>2, SameRows DEF HandlerInv, LoadDrop, Serving
      <3> QED
        BY <2>2, <3>1, ProceedState
    <2> QED
      BY <1>3, <2>1, <2>2, RejectState DEF LoadDrop
  <1>4. CASE LoadPatch(h)
    <2> DEFINE t == r.to
    <2>1. CASE Reject(h)
      BY <2>1, RejectState
    <2>2. CASE ~Reject(h)
      <3>1. /\ row = "visible" /\ (t # None => PatchAllowed(t))
            /\ pc' = [pc EXCEPT ![h] = "patchOrder"]
            /\ todo' = [todo EXCEPT ![h] = ToVoid(t)]
            /\ kept' = [kept EXCEPT ![h] = creation]
            /\ UNCHANGED <<rows, req, sum>>
        BY <1>4, <2>2 DEF LoadPatch, Goto
      <3>2. /\ pc'[h] = "patchOrder" /\ req'[h] = r /\ todo'[h] = ToVoid(t)
            /\ kept'[h] = creation' /\ UNCHANGED rows /\ Frame(h)
        BY <3>1 DEF Frame, Inv, TypeOK, rows
      <3>3. ToVoid(t) \subseteq Receipts /\ (ToVoid(t) # {} => t = "cancelled")
        BY DEF ToVoid, Receipts, LiveFake
      <3>4. t = "cancelled" => Receipts \subseteq ToVoid(t)
        BY <3>1, NoneAssumption DEF PatchAllowed, Cancellable, ToVoid, Receipts, LiveFake
      <3>5. ToVoid(t) # {} => status \in {"pending", "paid"}
        <4>1. status = "cancelled" => Receipts = {}
          BY DEF Inv, Safety, CancelledIsRefunded
        <4>2. t = "cancelled" => status # "fulfilled"
          BY <3>1, NoneAssumption DEF PatchAllowed, ValidTransition, Transitions
        <4> QED
          BY <3>3, <4>1, <4>2 DEF Inv, TypeOK
      <3>6. /\ t = "paid" => status = "paid"
            /\ t = "pending" => status = "pending"
            /\ t = "fulfilled" => status = "fulfilled" \/ (status = "paid" /\ Fulfillable)
            /\ t = "cancelled" => status # "fulfilled"
        BY <3>1, NoneAssumption DEF PatchAllowed, ValidTransition, Transitions
      <3>7. ToVoid(t) \subseteq {p \in PayId : Held(payments[p])}
        BY DEF ToVoid, LiveFake, Completed
      <3>8. /\ row' = row /\ status' = status /\ payments' = payments
            /\ Receipts' = Receipts /\ Fulfillable' = Fulfillable
        BY <3>2, SamePayments, SameRows DEF rows
      <3>9. HandlerInv(h)'
        BY <3>1, <3>2, <3>3, <3>4, <3>5, <3>6, <3>7, <3>8 DEF HandlerInv
      <3> QED
        BY <3>2, <3>9, QuietState
    <2> QED
      BY <2>1, <2>2
  <1>5. CASE LoadHide(h)
    <2>1. CASE Deletable /\ Proceed(h, "hideOrder")
      <3>1. (pc'[h] = "hideOrder" /\ UNCHANGED rows) => HandlerInv(h)'
        BY <2>1, SameRows DEF HandlerInv
      <3> QED
        BY <2>1, <3>1, ProceedState
    <2> QED
      BY <1>5, <2>1, RejectState DEF LoadHide
  <1>6. CASE LoadPay(h)
    <2>1. CASE AcceptsPayment /\ Proceed(h, "insertReal")
      <3>1. (pc'[h] = "insertReal" /\ UNCHANGED rows) => HandlerInv(h)'
        BY <2>1 DEF HandlerInv, AcceptsPayment, rows
      <3> QED
        BY <2>1, <3>1, ProceedState
    <2> QED
      BY <1>6, <2>1, RejectState DEF LoadPay
  <1>7. CASE LoadFake(h)
    <2>1. CASE Repairable(r.key) /\ Proceed(h, "markPaid")
      <3>1. \E p \in PayId : LiveFake(payments[p])
        BY <2>1 DEF Repairable, WithKey
      <3>2. (pc'[h] = "markPaid" /\ UNCHANGED rows) => HandlerInv(h)'
        BY <2>1, <3>1 DEF HandlerInv, Repairable, rows
      <3> QED
        BY <2>1, <3>2, ProceedState
    <2>2. CASE Chargeable(r.key) /\ Proceed(h, "sumItems")
      <3>1. (pc'[h] = "sumItems" /\ req'[h] = r /\ UNCHANGED rows) => HandlerInv(h)'
        BY <2>2, SameRows, SamePayments
           DEF HandlerInv, Chargeable, NewKey, HasItems, rows
      <3> QED
        BY <2>2, <3>1, ProceedState
    <2> QED
      BY <1>7, <2>1, <2>2, RejectState DEF LoadFake
  <1>8. CASE ListItems(h)
    <2>1. /\ pc[h] = "listItems" /\ pc'[h] = "insertLines" /\ req'[h] = r
          /\ todo'[h] = Missing(h) /\ Frame(h) /\ UNCHANGED rows
      BY <1>8 DEF ListItems, Goto, Frame, Missing, Inv, TypeOK
    <2>2. Missing(h)' = Missing(h) /\ Building(h)' = Building(h)
      BY <2>1 DEF Missing, Building, rows
    <2>3. HandlerInv(h)'
      BY <2>1, <2>2 DEF HandlerInv, Inv, HandlersInv
    <2> QED
      BY <2>1, <2>3, QuietState
  <1>9. CASE SumItems(h)
    <2>1. /\ pc[h] = "sumItems" /\ pc'[h] = "writeTotal" /\ req'[h] = r
          /\ sum'[h] = Total(items) /\ Frame(h) /\ UNCHANGED rows
      BY <1>9 DEF SumItems, Goto, Frame, Inv, TypeOK
    <2>2. Editable' = Editable /\ NewKey(h)' = NewKey(h) /\ items' = items
      BY <2>1, SameRows, SamePayments DEF NewKey, HasItems, rows
    <2>3. HandlerInv(h)'
      BY <2>1, <2>2 DEF HandlerInv, Inv, HandlersInv
    <2> QED
      BY <2>1, <2>3, QuietState
  <1> QED
    BY <1>1, <1>2, <1>3, <1>4, <1>5, <1>6, <1>7, <1>8, <1>9 DEF Read

-----------------------------------------------------------------------------
(* What a write leaves true.  Its handler is alone inside the site lock,   *)
(* so only its own facts and those about the rows can be disturbed.        *)

LEMMA AloneInside ==
  ASSUME Inv, NEW h \in Handler, pc[h] \in Inner, Frame(h), HandlerInv(h)'
  PROVE  HandlersInv'
  <1>1. ASSUME NEW g \in Handler, g # h
        PROVE  HandlerInv(g)'
    <2>1. pc'[g] = pc[g] /\ pc[g] \in {"idle", "site"}
      BY <1>1, OthersWait DEF Frame, Inv, Inner
    <2> QED
      BY <2>1, QuietHandler
  <1> QED
    BY <1>1 DEF HandlersInv

\* The end of a request leaves its handler idle, with nothing to rely on.
LEMMA EndsQuietly ==
  ASSUME Inv, NEW h \in Handler, pc[h] \in Inner, Finish(h)
  PROVE  HandlersInv'
  <1>1. Frame(h) /\ pc'[h] = "idle"
    BY FinishFrame DEF Finish, Goto, Inv, TypeOK
  <1> QED
    BY <1>1, QuietHandler, AloneInside

LEMMA InsertOrderState ==
  ASSUME Inv, NEW h \in Handler, InsertOrder(h)
  PROVE  DraftInv' /\ HandlersInv' /\ Safety'
  <1> DEFINE r == req[h]
  <1>1. /\ row = "absent" /\ status = "pending" /\ items = NothingStored
        /\ \A p \in PayId : payments[p] = None
    BY DEF InsertOrder, Inv, DraftInv
  <1>2. /\ row' = "hidden" /\ status' = "pending"
        /\ creation' = [state |-> "building", body |-> r.body]
        /\ items' = items /\ payments' = payments
    BY DEF InsertOrder
  <1>3. Frame(h) /\ pc'[h] = "listItems" /\ req'[h] = r /\ pc[h] \in Inner
    BY GotoFrame DEF InsertOrder, Inv, Inner
  <1>4. r.body \in Body
    BY RequestFields DEF InsertOrder, Inv, RequestInv, Fits
  <1>5. HandlerInv(h)'
    BY <1>2, <1>3 DEF HandlerInv, Building
  <1>6. DraftInv'
    BY <1>1, <1>2, <1>4 DEF DraftInv, NothingStored, Creation
  <1>7. Safety'
    BY <1>1, <1>2, SamePayments, NoneAssumption
       DEF Safety, VisibleHasItems, SettledTotal, FakePaymentCovers, ChargedOnce,
           FulfilledIsPaid, CancelledIsRefunded, HiddenIsUnpaid, LiveFake, Completed,
           Held, Unpaid, Unresolved, WithKey
  <1> QED
    BY <1>3, <1>5, <1>6, <1>7, AloneInside

LEMMA InsertLineState ==
  ASSUME Inv, NEW h \in Handler, InsertLine(h)
  PROVE  DraftInv' /\ HandlersInv' /\ Safety'
  <1> DEFINE r == req[h]
  <1>1. pc[h] = "insertLines" /\ pc[h] \in Inner /\ Building(h) /\ todo[h] = Missing(h)
    BY DEF InsertLine, Inv, HandlersInv, HandlerInv, Inner
  <1>2. PICK i \in todo[h] : /\ items[i] = None
                             /\ items' = [items EXCEPT ![i] = Wanted[r.body][i]]
                             /\ todo' = [todo EXCEPT ![h] = @ \ {i}]
    BY DEF InsertLine
  <1>3. /\ row' = row /\ status' = status /\ total' = total /\ creation' = creation
        /\ payments' = payments /\ pc' = pc /\ req' = req /\ sum' = sum /\ kept' = kept
    BY DEF InsertLine, orderRow
  <1>4. /\ i \in ItemId /\ Wanted[r.body][i] # None /\ r.body \in Body
        /\ items \in [ItemId -> LineTotal \cup {None}]
    BY <1>1, RequestFields DEF Missing, Inv, TypeOK, Lines, RequestInv, Fits
  <1>5. Frame(h) /\ todo'[h] = Missing(h)'
    <2>1. todo'[h] = Missing(h) \ {i} /\ Frame(h)
      BY <1>1, <1>2, <1>3 DEF Frame, Inv, TypeOK
    <2>2. Missing(h)' = Missing(h) \ {i}
      BY <1>2, <1>3, <1>4 DEF Missing
    <2> QED
      BY <2>1, <2>2
  <1>6. HandlerInv(h)'
    BY <1>1, <1>3, <1>5 DEF HandlerInv, Building
  <1>7. /\ row = "hidden" /\ status = "pending" /\ creation.state = "building"
        /\ creation.body = r.body /\ creation \in Creation
        /\ \A j \in ItemId : items[j] \in {None, Wanted[r.body][j]}
        /\ \A p \in PayId : payments[p] = None
    BY <1>1 DEF Building, Inv, DraftInv
  <1>8. DraftInv'
    BY <1>2, <1>3, <1>4, <1>7 DEF DraftInv
  <1>9. Safety'
    BY <1>3, <1>7, SamePayments, NoneAssumption
       DEF Safety, VisibleHasItems, SettledTotal, FakePaymentCovers, ChargedOnce,
           FulfilledIsPaid, CancelledIsRefunded, HiddenIsUnpaid, LiveFake, Completed,
           Held, Unpaid, Unresolved, WithKey
  <1> QED
    BY <1>1, <1>5, <1>6, <1>8, <1>9, AloneInside

LEMMA PublishState ==
  ASSUME Inv, NEW h \in Handler, Publish(h)
  PROVE  DraftInv' /\ HandlersInv' /\ Safety'
  <1> DEFINE r == req[h]
  <1>1. pc[h] \in Inner /\ Building(h) /\ Missing(h) = {} /\ Finish(h)
    BY DEF Publish, Inv, HandlersInv, HandlerInv, Inner
  <1>2. /\ row' = "visible" /\ creation' = [state |-> "complete", body |-> r.body]
        /\ status' = status /\ total' = total /\ items' = items /\ payments' = payments
    BY DEF Publish
  <1>3. r.body \in Body
    BY RequestFields DEF Publish, Inv, RequestInv, Fits
  <1>4. /\ status = "pending"
        /\ \A j \in ItemId : items[j] \in {None, Wanted[r.body][j]}
        /\ \A p \in PayId : payments[p] = None
    BY <1>1 DEF Building, Inv, DraftInv
  <1>5. \A j \in ItemId : items[j] = Wanted[r.body][j]
    BY <1>1, <1>4 DEF Missing
  <1>6. HasItems(items')
    BY <1>2, <1>3, <1>5, WantedType DEF HasItems
  <1>7. DraftInv'
    BY <1>2, <1>3 DEF DraftInv, Creation
  <1>8. Safety'
    BY <1>2, <1>4, <1>6, SamePayments, NoneAssumption
       DEF Safety, VisibleHasItems, SettledTotal, FakePaymentCovers, ChargedOnce,
           FulfilledIsPaid, CancelledIsRefunded, HiddenIsUnpaid, LiveFake, Completed,
           Held, WithKey
  <1> QED
    BY <1>1, <1>7, <1>8, EndsQuietly

\* Nothing counts as received while every payment is resolved otherwise.
LEMMA UnpaidReceivesNothing ==
  ASSUME Unpaid
  PROVE  \A p \in PayId : ~Completed(payments[p]) /\ ~LiveFake(payments[p])
  BY DEF Unpaid, Unresolved, Completed, LiveFake

\* Editing the items and the total of a pending, unpaid order is safe as long
\* as an item is left.
LEMMA EditingSafety ==
  ASSUME Safety, Editable, row' = row, status' = status, payments' = payments,
         HasItems(items')
  PROVE  Safety' /\ (row' = "visible" /\ status' = "pending" /\ Unpaid')
  <1>1. row' = "visible" /\ status' = "pending" /\ Unpaid'
    BY SamePayments DEF Editable
  <1>2. \A p \in PayId : ~LiveFake(payments'[p])
    BY UnpaidReceivesNothing DEF Editable
  <1>3. FakePaymentCovers'
    BY <1>2 DEF FakePaymentCovers
  <1>4. ChargedOnce'
    BY <1>2, SamePayments DEF Safety, ChargedOnce
  <1> QED
    BY <1>1, <1>3, <1>4 DEF Safety, VisibleHasItems, HasItems, SettledTotal, FulfilledIsPaid,
           CancelledIsRefunded, HiddenIsUnpaid

LEMMA InsertItemState ==
  ASSUME Inv, NEW h \in Handler, InsertItem(h)
  PROVE  DraftInv' /\ HandlersInv' /\ Safety'
  <1> DEFINE r == req[h]
  <1>1. pc[h] \in Inner /\ Editable /\ r \in Request /\ r.op = "add"
    BY DEF InsertItem, Inv, HandlersInv, HandlerInv, RequestInv, Fits, Inner
  <1>2. /\ row' = row /\ status' = status /\ creation' = creation /\ payments' = payments
        /\ items' = [items EXCEPT ![r.item] = r.line]
    BY DEF InsertItem, orderRow
  <1>3. Frame(h) /\ pc'[h] = "sumItems" /\ req'[h] = r
    BY GotoFrame DEF InsertItem, Inv
  <1>4. r.item \in ItemId /\ r.line \in LineTotal
    BY <1>1, RequestFields
  <1>5. HasItems(items')
    BY <1>2, <1>4, NoneAssumption DEF HasItems, Inv, TypeOK, Lines
  <1>6. Safety' /\ Editable'
    BY <1>1, <1>2, <1>5, EditingSafety DEF Inv, Editable
  <1>7. HandlerInv(h)'
    BY <1>1, <1>3, <1>6 DEF HandlerInv
  <1>8. DraftInv'
    BY <1>1, <1>2 DEF Inv, DraftInv, Editable
  <1> QED
    BY <1>1, <1>3, <1>6, <1>7, <1>8, AloneInside

LEMMA DeleteItemState ==
  ASSUME Inv, NEW h \in Handler, DeleteItem(h)
  PROVE  DraftInv' /\ HandlersInv' /\ Safety'
  <1> DEFINE r == req[h]
  <1>1. /\ pc[h] \in Inner /\ Editable /\ SeveralItems
        /\ r.op \in {"drop", "remove"}
    BY DEF DeleteItem, Inv, HandlersInv, HandlerInv, RequestInv, Fits, Inner
  <1>2. /\ row' = row /\ status' = status /\ creation' = creation /\ payments' = payments
        /\ items' = [items EXCEPT ![r.item] = None]
    BY DEF DeleteItem, orderRow
  <1>3. Frame(h) /\ pc'[h] = "sumItems" /\ req'[h] = r
    BY GotoFrame DEF DeleteItem, Inv
  <1>4. \E i \in ItemId : i # r.item /\ items[i] # None
    BY <1>1 DEF SeveralItems
  <1>5. HasItems(items')
    BY <1>2, <1>4 DEF HasItems, Inv, TypeOK, Lines
  <1>6. Safety' /\ Editable'
    BY <1>1, <1>2, <1>5, EditingSafety DEF Inv, Editable
  <1>7. HandlerInv(h)'
    BY <1>1, <1>3, <1>6 DEF HandlerInv
  <1>8. DraftInv'
    BY <1>1, <1>2 DEF Inv, DraftInv, Editable
  <1> QED
    BY <1>1, <1>3, <1>6, <1>7, <1>8, AloneInside

LEMMA WriteTotalState ==
  ASSUME Inv, NEW h \in Handler, WriteTotal(h)
  PROVE  DraftInv' /\ HandlersInv' /\ Safety'
  <1> DEFINE r == req[h]
  <1>1. /\ pc[h] \in Inner /\ Editable /\ sum[h] = Total(items)
        /\ r.op = "fake" => NewKey(h)
    BY DEF WriteTotal, Inv, HandlersInv, HandlerInv, Inner
  <1>2. /\ row' = row /\ status' = status /\ creation' = creation /\ payments' = payments
        /\ items' = items /\ total' = sum[h]
    BY DEF WriteTotal
  <1>3. HasItems(items')
    BY <1>1, <1>2 DEF Inv, Safety, VisibleHasItems, Editable
  <1>4. Safety' /\ Editable'
    BY <1>1, <1>2, <1>3, EditingSafety DEF Inv, Editable
  <1>5. DraftInv'
    BY <1>1, <1>2 DEF Inv, DraftInv, Editable
  <1>6. CASE Finish(h)
    BY <1>1, <1>4, <1>5, <1>6, EndsQuietly
  <1>7. CASE r.op = "fake" /\ Goto(h, "insertFake") /\ UNCHANGED <<locks, req, locals>>
    <2>1. /\ Frame(h) /\ pc'[h] = "insertFake" /\ req'[h] = r /\ sum'[h] = sum[h]
      BY <1>7, GotoFrame DEF Inv
    <2>2. NewKey(h)'
      BY <1>1, <1>2, <1>3, <1>7, <2>1, SamePayments DEF NewKey, HasItems
    <2>3. HandlerInv(h)'
      BY <1>1, <1>2, <1>4, <2>1, <2>2 DEF HandlerInv
    <2> QED
      BY <1>1, <1>4, <1>5, <2>1, <2>3, AloneInside
  <1> QED
    BY <1>6, <1>7 DEF WriteTotal

LEMMA InsertFakeState ==
  ASSUME Inv, NEW h \in Handler, InsertFake(h)
  PROVE  DraftInv' /\ HandlersInv' /\ Safety'
  <1> DEFINE r == req[h]
             new == [method |-> "fake", status |-> "completed",
                     amount |-> sum[h], key |-> r.key]
  <1>1. /\ pc[h] \in Inner /\ Editable /\ sum[h] = Total(items) /\ total = sum[h]
        /\ NewKey(h)
    BY DEF InsertFake, Inv, HandlersInv, HandlerInv, RequestInv, Fits, Inner
  <1>2. PICK p \in PayId : payments[p] = None /\ payments' = [payments EXCEPT ![p] = new]
    BY DEF InsertFake
  <1>3. /\ row' = row /\ status' = status /\ creation' = creation
        /\ items' = items /\ total' = total
    BY DEF InsertFake, orderRow
  <1>4. Frame(h) /\ pc'[h] = "markPaid" /\ req'[h] = r
    BY GotoFrame DEF InsertFake, Inv
  <1>5. payments'[p] = new /\ \A q \in PayId \ {p} : payments'[q] = payments[q]
    BY <1>2 DEF Inv, TypeOK
  <1>6. new \in Payment
    <2>1. r \in Request /\ r.op = "fake"
      BY DEF InsertFake, Inv, RequestInv, Fits
    <2>2. r.key \in FakeKey /\ sum[h] \in Totals
      BY <2>1, RequestFields DEF Inv, TypeOK
    <2> QED
      BY <2>2 DEF Payment, PayStatus
  <1>7. LiveFake(payments'[p]) /\ \A q \in PayId \ {p} : ~LiveFake(payments'[q])
    <2>1. new # None
      BY <1>6, WorkloadAssumption
    <2>2. LiveFake(new)
      BY <2>1 DEF LiveFake, Completed, Held
    <2> QED
      BY <1>1, <1>5, <2>2, UnpaidReceivesNothing DEF Editable
  <1>8. FakePaymentCovers'
    BY <1>1, <1>3, <1>5, <1>7 DEF FakePaymentCovers
  <1>9. ChargedOnce'
    <2>1. \A k \in FakeKey : \A q \in WithKey(k)' : q # p => q \in WithKey(k)
      BY <1>5 DEF WithKey
    <2>2. \A k \in FakeKey : p \in WithKey(k)' => k = r.key /\ WithKey(k) = {}
      BY <1>1, <1>5 DEF WithKey, NewKey
    <2>3. \A k \in FakeKey : \A q1, q2 \in WithKey(k) : q1 = q2
      BY DEF Inv, Safety, ChargedOnce
    <2>4. \A k \in FakeKey : \A q1, q2 \in WithKey(k)' : q1 = q2
      BY <2>1, <2>2, <2>3
    <2>5. \A q1, q2 \in PayId : (LiveFake(payments'[q1]) /\ LiveFake(payments'[q2])) => q1 = q2
      BY <1>7
    <2> QED
      BY <2>4, <2>5 DEF ChargedOnce
  <1>10. HasItems(items')
    BY <1>1, <1>3 DEF NewKey
  <1>11. Safety'
    BY <1>1, <1>3, <1>8, <1>9, <1>10
       DEF Safety, VisibleHasItems, HasItems, SettledTotal, FulfilledIsPaid,
           CancelledIsRefunded, HiddenIsUnpaid, Editable
  <1>12. HandlerInv(h)'
    BY <1>1, <1>3, <1>4, <1>7 DEF HandlerInv, Editable
  <1>13. DraftInv'
    BY <1>1, <1>3 DEF Inv, DraftInv, Editable
  <1> QED
    BY <1>1, <1>4, <1>11, <1>12, <1>13, AloneInside

LEMMA MarkPaidState ==
  ASSUME Inv, NEW h \in Handler, MarkPaid(h)
  PROVE  DraftInv' /\ HandlersInv' /\ Safety'
  <1>1. /\ pc[h] \in Inner /\ row = "visible" /\ status = "pending" /\ Finish(h)
        /\ \E p \in PayId : LiveFake(payments[p])
    BY DEF MarkPaid, Inv, HandlersInv, HandlerInv, Inner
  <1>2. /\ row' = row /\ status' = "paid" /\ total' = total /\ creation' = creation
        /\ items' = items /\ payments' = payments
    BY DEF MarkPaid
  <1>3. total = Total(items)
    BY <1>1 DEF Inv, Safety, FakePaymentCovers
  <1>4. FakePaymentCovers' /\ ChargedOnce'
    BY <1>2, SamePayments DEF Inv, Safety, FakePaymentCovers, ChargedOnce
  <1>5. Safety'
    BY <1>1, <1>2, <1>3, <1>4
       DEF Inv, Safety, VisibleHasItems, HasItems, SettledTotal, FulfilledIsPaid,
           CancelledIsRefunded, HiddenIsUnpaid
  <1>6. DraftInv'
    BY <1>1, <1>2 DEF Inv, DraftInv
  <1> QED
    BY <1>1, <1>5, <1>6, EndsQuietly

LEMMA VoidFakeState ==
  ASSUME Inv, NEW h \in Handler, VoidFake(h)
  PROVE  DraftInv' /\ HandlersInv' /\ Safety'
  <1> DEFINE r == req[h]
  <1>1. pc[h] = "patchOrder" /\ pc[h] \in Inner /\ HandlerInv(h)
    BY DEF VoidFake, Inv, HandlersInv, Inner
  <1>2. PICK p \in todo[h] : /\ payments' = [payments EXCEPT ![p] = Voided(@)]
                             /\ todo' = [todo EXCEPT ![h] = @ \ {p}]
    BY DEF VoidFake
  <1>3. /\ row' = row /\ status' = status /\ creation' = creation
        /\ items' = items /\ total' = total
        /\ pc' = pc /\ req' = req /\ kept' = kept /\ sum' = sum
    BY DEF VoidFake, orderRow
  <1>4. /\ row = "visible" /\ kept[h] = creation /\ r.to = "cancelled"
        /\ status \in {"pending", "paid"} /\ Receipts \subseteq todo[h]
        /\ todo[h] \subseteq {q \in PayId : Held(payments[q])}
    BY <1>1, <1>2 DEF HandlerInv
  <1>5. p \in PayId /\ payments[p] \in Payment
    BY <1>2, <1>4 DEF Held, Inv, TypeOK
  <1>6. /\ payments'[p] = Voided(payments[p])
        /\ \A q \in PayId \ {p} : payments'[q] = payments[q]
    BY <1>2, <1>5 DEF Inv, TypeOK
  <1>7. /\ Voided(payments[p]) \in Payment /\ Voided(payments[p]) # None
        /\ Voided(payments[p]).status = "cancelled"
        /\ Voided(payments[p]).key = payments[p].key
        /\ payments[p] # None
    BY <1>5, VoidedType, WorkloadAssumption
  <1>8. \A q \in PayId : Completed(payments'[q]) => Completed(payments[q]) /\ q # p
    BY <1>6, <1>7 DEF Completed
  <1>9. \A q \in PayId : LiveFake(payments'[q]) => LiveFake(payments[q]) /\ payments'[q] = payments[q]
    BY <1>6, <1>8 DEF LiveFake
  <1>10. \A q \in PayId : Held(payments'[q]) <=> Held(payments[q])
    BY <1>6, <1>7 DEF Held
  <1>11. \A k : WithKey(k)' = WithKey(k)
    BY <1>6, <1>7, <1>10 DEF WithKey
  <1>12. FakePaymentCovers'
    BY <1>3, <1>9 DEF Inv, Safety, FakePaymentCovers
  <1>13. ChargedOnce'
    BY <1>9, <1>11 DEF Inv, Safety, ChargedOnce
  <1>14. Safety'
    BY <1>3, <1>4, <1>12, <1>13
       DEF Inv, Safety, VisibleHasItems, HasItems, SettledTotal, FulfilledIsPaid,
           CancelledIsRefunded, HiddenIsUnpaid
  <1>15. Frame(h) /\ todo'[h] = todo[h] \ {p}
    BY <1>2, <1>3 DEF Frame, Inv, TypeOK
  <1>16. Receipts' \subseteq todo'[h]
    BY <1>4, <1>8, <1>15 DEF Receipts
  <1>17. todo'[h] \subseteq {q \in PayId : Held(payments'[q])}
    BY <1>4, <1>10, <1>15
  <1>18. HandlerInv(h)'
    BY <1>1, <1>3, <1>4, <1>16, <1>17 DEF HandlerInv
  <1>19. DraftInv'
    BY <1>3, <1>4 DEF Inv, DraftInv
  <1> QED
    BY <1>1, <1>14, <1>15, <1>18, <1>19, AloneInside

LEMMA PatchOrderState ==
  ASSUME Inv, NEW h \in Handler, PatchOrder(h)
  PROVE  DraftInv' /\ HandlersInv' /\ Safety'
  <1> DEFINE t == req[h].to
  <1>1. pc[h] = "patchOrder" /\ pc[h] \in Inner /\ HandlerInv(h) /\ todo[h] = {} /\ Finish(h)
    BY DEF PatchOrder, Inv, HandlersInv, Inner
  <1>2. t \in Status \cup {None}
    BY RequestFields DEF PatchOrder, Inv, RequestInv, Fits
  <1>3. /\ row = "visible" /\ kept[h] = creation
        /\ t = "paid" => status = "paid"
        /\ t = "pending" => status = "pending"
        /\ t = "fulfilled" => status = "fulfilled" \/ (status = "paid" /\ Fulfillable)
        /\ t = "cancelled" => Receipts = {}
    BY <1>1 DEF HandlerInv
  <1>4. /\ row' = row /\ creation' = creation /\ total' = total
        /\ items' = items /\ payments' = payments
        /\ status' = IF t = None THEN status ELSE t
    BY <1>3 DEF PatchOrder
  <1>5. Receipts' = Receipts /\ Fulfillable' = Fulfillable /\ HasItems(items') = HasItems(items)
    BY <1>4, SamePayments DEF Fulfillable, HasItems
  <1>6. FakePaymentCovers' /\ ChargedOnce'
    BY <1>4, SamePayments DEF Inv, Safety, FakePaymentCovers, ChargedOnce
  <1>7. SettledTotal'
    BY <1>2, <1>3, <1>4 DEF Inv, Safety, SettledTotal
  <1>8. FulfilledIsPaid'
    BY <1>2, <1>3, <1>4, <1>5 DEF Inv, Safety, FulfilledIsPaid
  <1>9. CancelledIsRefunded'
    BY <1>2, <1>3, <1>4, <1>5 DEF Inv, Safety, CancelledIsRefunded
  <1>10. VisibleHasItems' /\ HiddenIsUnpaid'
    BY <1>3, <1>4, <1>5 DEF Inv, Safety, VisibleHasItems, HiddenIsUnpaid
  <1>11. DraftInv'
    BY <1>3, <1>4 DEF Inv, DraftInv
  <1> QED
    BY <1>1, <1>6, <1>7, <1>8, <1>9, <1>10, <1>11, EndsQuietly DEF Safety

LEMMA HideOrderState ==
  ASSUME Inv, NEW h \in Handler, HideOrder(h)
  PROVE  DraftInv' /\ HandlersInv' /\ Safety'
  <1>1. pc[h] \in Inner /\ Deletable /\ Finish(h)
    BY DEF HideOrder, Inv, HandlersInv, HandlerInv, Inner
  <1>2. /\ row' = "hidden" /\ status' = status /\ total' = total /\ creation' = creation
        /\ items' = items /\ payments' = payments
    BY DEF HideOrder
  <1>3. Unpaid' /\ Receipts' = Receipts
    BY <1>1, <1>2, SamePayments DEF Deletable
  <1>4. FakePaymentCovers' /\ ChargedOnce'
    BY <1>2, SamePayments DEF Inv, Safety, FakePaymentCovers, ChargedOnce
  <1>5. Safety'
    BY <1>1, <1>2, <1>3, <1>4
       DEF Inv, Safety, VisibleHasItems, SettledTotal, FulfilledIsPaid,
           CancelledIsRefunded, HiddenIsUnpaid, Deletable
  <1>6. DraftInv'
    BY <1>1, <1>2 DEF Inv, DraftInv, Deletable
  <1> QED
    BY <1>1, <1>5, <1>6, EndsQuietly

LEMMA InsertRealState ==
  ASSUME Inv, NEW h \in Handler, InsertReal(h)
  PROVE  DraftInv' /\ HandlersInv' /\ Safety'
  <1> DEFINE new == [method |-> "real", status |-> req[h].status,
                     amount |-> req[h].amount, key |-> None]
  <1>1. /\ pc[h] \in Inner /\ row = "visible" /\ status \in {"pending", "paid"} /\ Finish(h)
    BY DEF InsertReal, Inv, HandlersInv, HandlerInv, Inner
  <1>2. PICK p \in PayId : payments[p] = None /\ payments' = [payments EXCEPT ![p] = new]
    BY DEF InsertReal
  <1>3. /\ row' = row /\ status' = status /\ total' = total /\ creation' = creation
        /\ items' = items
    BY DEF InsertReal, orderRow
  <1>4. payments'[p] = new /\ \A q \in PayId \ {p} : payments'[q] = payments[q]
    BY <1>2 DEF Inv, TypeOK
  <1>5. \A q \in PayId : LiveFake(payments'[q]) => LiveFake(payments[q]) /\ payments'[q] = payments[q]
    BY <1>4 DEF LiveFake
  <1>6. \A k \in FakeKey : WithKey(k)' \subseteq WithKey(k)
    BY <1>4, NoneAssumption DEF WithKey
  <1>7. FakePaymentCovers'
    BY <1>3, <1>5 DEF Inv, Safety, FakePaymentCovers
  <1>8. ChargedOnce'
    BY <1>5, <1>6 DEF Inv, Safety, ChargedOnce
  <1>9. Safety'
    BY <1>1, <1>3, <1>7, <1>8
       DEF Inv, Safety, VisibleHasItems, HasItems, SettledTotal, FulfilledIsPaid,
           CancelledIsRefunded, HiddenIsUnpaid
  <1>10. DraftInv'
    BY <1>1, <1>3 DEF Inv, DraftInv
  <1> QED
    BY <1>1, <1>9, <1>10, EndsQuietly

-----------------------------------------------------------------------------
(* The invariant.                                                          *)

LEMMA InitInv == Init => Inv
  <1> SUFFICES ASSUME Init
               PROVE  Inv
    OBVIOUS
  <1>1. \A h \in Handler : pc[h] = "idle"
    BY DEF Init
  <1>2. RequestInv /\ LockInv /\ HandlersInv
    BY <1>1, NoneAssumption DEF Init, RequestInv, LockInv, HandlersInv, HandlerInv
  <1>3. \A p \in PayId : payments[p] = None
    BY DEF Init
  <1>4. DraftInv
    BY <1>3 DEF Init, DraftInv
  <1>5. Safety
    BY <1>3 DEF Init, Safety, VisibleHasItems, SettledTotal, FakePaymentCovers, ChargedOnce,
           FulfilledIsPaid, CancelledIsRefunded, HiddenIsUnpaid, LiveFake, Completed,
           Held, Unpaid, Unresolved, WithKey
  <1> QED
    BY <1>2, <1>4, <1>5, InitType DEF Inv

LEMMA WriteState ==
  ASSUME Inv, NEW h \in Handler, Write(h)
  PROVE  DraftInv' /\ HandlersInv' /\ Safety'
  BY InsertOrderState, InsertLineState, PublishState, InsertItemState, DeleteItemState,
     WriteTotalState, VoidFakeState, PatchOrderState, HideOrderState, InsertRealState,
     InsertFakeState, MarkPaidState DEF Write

\* A step that only moves a handler to a point where it relies on nothing.
LEMMA EnterState ==
  ASSUME Inv, NEW h \in Handler, NEW l \in {"site", "order", "load"}, Goto(h, l),
         \A g \in Handler \ {h} : req'[g] = req[g],
         UNCHANGED <<rows, locals>>
  PROVE  DraftInv' /\ HandlersInv' /\ Safety'
  <1>1. Frame(h) /\ pc'[h] = l
    BY DEF Goto, Frame, Inv, TypeOK, locals
  <1> QED
    BY <1>1, QuietHandler, QuietState

LEMMA StepState ==
  ASSUME Inv, [Next]_vars
  PROVE  DraftInv' /\ HandlersInv' /\ Safety'
  <1>1. ASSUME NEW h \in Handler, NEW r \in Workload, Begin(h, r)
        PROVE  DraftInv' /\ HandlersInv' /\ Safety'
    BY <1>1, EnterState DEF Begin, Inv, TypeOK
  <1>2. ASSUME NEW h \in Handler, EnterSite(h)
        PROVE  DraftInv' /\ HandlersInv' /\ Safety'
    BY <1>2, EnterState, RejectState DEF EnterSite
  <1>3. ASSUME NEW h \in Handler, EnterOrder(h)
        PROVE  DraftInv' /\ HandlersInv' /\ Safety'
    BY <1>3, EnterState DEF EnterOrder
  <1>4. ASSUME NEW h \in Handler, Abort(h)
        PROVE  DraftInv' /\ HandlersInv' /\ Safety'
    BY <1>4, RejectState DEF Abort
  <1>5. CASE DeleteSite \/ UNCHANGED vars
    <2>1. UNCHANGED <<rows, pc, req, locals>>
      BY <1>5 DEF DeleteSite, vars
    <2>2. DraftInv' /\ Safety'
      BY <2>1, SameRows DEF Inv
    <2>3. HandlersInv'
      BY <2>1, SameHandler DEF Inv, HandlersInv, locals
    <2> QED
      BY <2>2, <2>3
  <1> QED
    BY <1>1, <1>2, <1>3, <1>4, <1>5, ReadState, WriteState DEF Next, Step

LEMMA StepInv == Inv /\ [Next]_vars => Inv'
  BY StepType, StepControl, StepState DEF Inv

\* Whatever interleaving, failure or retry of requests: the rows, the locks
\* and what every running handler relies on agree.
THEOREM Invariance == Spec => []Inv
  BY InitInv, StepInv, PTL DEF Spec

\* Every variable keeps its type, locals of handlers included.
THEOREM TypeCorrect == Spec => []TypeOK
  <1>1. Inv => TypeOK
    BY DEF Inv
  <1> QED
    BY <1>1, Invariance, PTL

\* create_order and the item deletions never leave a visible order empty.
THEOREM NeverEmpty == Spec => []VisibleHasItems
  <1>1. Inv => VisibleHasItems
    BY DEF Inv, Safety
  <1> QED
    BY <1>1, Invariance, PTL

\* fake_payment charges what the order holds, whatever edits and retries
\* interleave with it.
THEOREM ChargesExactly == Spec => []FakePaymentCovers
  <1>1. Inv => FakePaymentCovers
    BY DEF Inv, Safety
  <1> QED
    BY <1>1, Invariance, PTL

\* Checkouts, retries and keys of any number leave one simulated payment that
\* counts.
THEOREM ChargesOnce == Spec => []ChargedOnce
  <1>1. Inv => ChargedOnce
    BY DEF Inv, Safety
  <1> QED
    BY <1>1, Invariance, PTL

\* A paid or fulfilled order has the total of its items, and a fulfilled one
\* was paid to the cent (update_order, _validate_fulfillment).
THEOREM SettlesExactly == Spec => [](SettledTotal /\ FulfilledIsPaid)
  <1>1. Inv => SettledTotal /\ FulfilledIsPaid
    BY DEF Inv, Safety
  <1> QED
    BY <1>1, Invariance, PTL

\* A cancelled order has no payment that counts and a hidden one none that is
\* unresolved (_reconcile_fake_cancellation, delete_order).
THEOREM KeepsNoMoney == Spec => [](CancelledIsRefunded /\ HiddenIsUnpaid)
  <1>1. Inv => CancelledIsRefunded /\ HiddenIsUnpaid
    BY DEF Inv, Safety
  <1> QED
    BY <1>1, Invariance, PTL
===============================================================================
