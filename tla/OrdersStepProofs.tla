--------------------------- MODULE OrdersStepProofs ---------------------------
(***************************************************************************)
(* What the steps of Orders are, from the invariant of OrdersProofs: what  *)
(* none of them may do (the action properties), and that each is a step of *)
(* OrderContract or one that its users do not see (the refinement).  Only  *)
(* a write of a handler, made inside the site lock, changes a row; so each *)
(* proof looks at the writes, and at what their handler relies on.         *)
(***************************************************************************)
EXTENDS OrdersProofs, OrdersRefinement

LEMMA RowsStep ==
  ASSUME [Next]_vars
  PROVE  UNCHANGED rows \/ \E h \in Handler : Write(h)
  <1>1. \A h \in Handler : Reject(h) => UNCHANGED rows
    BY DEF Reject
  <1>2. \A h \in Handler : Read(h) => UNCHANGED rows
    BY DEF Read, LoadCreate, LoadAdd, LoadDrop, LoadPatch, LoadHide, LoadPay, LoadFake,
           ListItems, SumItems, Reject, Proceed
  <1>3. \A h \in Handler : EnterSite(h) \/ EnterOrder(h) \/ Abort(h) => UNCHANGED rows
    BY <1>1 DEF EnterSite, EnterOrder, Abort
  <1>4. \A h \in Handler, r \in Workload : Begin(h, r) => UNCHANGED rows
    BY DEF Begin
  <1>5. DeleteSite \/ UNCHANGED vars => UNCHANGED rows
    BY DEF DeleteSite, vars
  <1> QED
    BY <1>2, <1>3, <1>4, <1>5 DEF Next, Step

\* What the rows are when a handler writes them.
LEMMA WriteFacts ==
  ASSUME Inv, NEW h \in Handler
  PROVE  /\ InsertOrder(h) => row = "absent" /\ status = "pending" /\ creation = None
         /\ InsertLine(h) \/ Publish(h) =>
              /\ Building(h) /\ status = "pending" /\ Unpaid
              /\ req[h].body \in Body
              /\ \A i \in ItemId : items[i] \in {None, Wanted[req[h].body][i]}
         /\ InsertItem(h) \/ DeleteItem(h) \/ WriteTotal(h) \/ InsertFake(h) => Editable
         /\ MarkPaid(h) \/ InsertReal(h) => row = "visible" /\ status \in {"pending", "paid"}
         /\ MarkPaid(h) => status = "pending"
         /\ VoidFake(h) => row = "visible" /\ status \in {"pending", "paid"}
  <1>1. HandlerInv(h) /\ DraftInv
    BY DEF Inv, HandlersInv
  <1>2. ASSUME InsertLine(h) \/ Publish(h)
        PROVE  /\ Building(h) /\ status = "pending" /\ Unpaid
               /\ req[h].body \in Body
               /\ \A i \in ItemId : items[i] \in {None, Wanted[req[h].body][i]}
    <2>1. pc[h] = "insertLines"
      BY <1>2 DEF InsertLine, Publish
    <2>2. Building(h) /\ req[h].body \in Body
      BY <1>1, <2>1, RequestFields DEF HandlerInv, Inv, RequestInv, Fits
    <2>3. /\ status = "pending" /\ \A p \in PayId : payments[p] = None
          /\ \A i \in ItemId : items[i] \in {None, Wanted[req[h].body][i]}
      BY <1>1, <2>2 DEF DraftInv, Building
    <2> QED
      BY <2>2, <2>3 DEF Unpaid, Unresolved, Held
  <1>3. VoidFake(h) => row = "visible" /\ status \in {"pending", "paid"}
    BY <1>1 DEF VoidFake, HandlerInv
  <1> QED
    BY <1>1, <1>2, <1>3
       DEF DraftInv, HandlerInv, InsertOrder, InsertItem, DeleteItem, WriteTotal, InsertFake,
           MarkPaid, InsertReal

\* The same for the patch of an order: what its handler checked still holds.
LEMMA PatchFacts ==
  ASSUME Inv, NEW h \in Handler, PatchOrder(h)
  PROVE  /\ row = "visible" /\ creation' = creation
         /\ status' # status => <<status, status'>> \in Transitions
         /\ status \in {"fulfilled", "cancelled"} => status' = status
         /\ UNCHANGED <<row, total, items, payments>>
  <1> DEFINE t == req[h].to
  <1>1. HandlerInv(h) /\ pc[h] = "patchOrder" /\ status \in Status
    BY DEF PatchOrder, Inv, HandlersInv, TypeOK
  <1>2. t \in Status \cup {None}
    BY RequestFields DEF PatchOrder, Inv, RequestInv, Fits
  <1>3. /\ row = "visible" /\ kept[h] = creation
        /\ t = "paid" => status = "paid"
        /\ t = "pending" => status = "pending"
        /\ t = "fulfilled" => status = "fulfilled" \/ status = "paid"
        /\ t = "cancelled" => status # "fulfilled"
    BY <1>1 DEF HandlerInv
  <1>4. /\ creation' = creation /\ UNCHANGED <<row, total, items, payments>>
        /\ status' = IF t = None THEN status ELSE t
    BY <1>3 DEF PatchOrder
  <1>5. status' = status \/ (t \in Status /\ status' = t)
    BY <1>2, <1>4
  <1> QED
    BY <1>1, <1>3, <1>4, <1>5 DEF Status, Transitions

LEMMA StatusStep ==
  ASSUME Inv, [Next]_vars
  PROVE  status' # status => <<status, status'>> \in Transitions
  <1>1. CASE UNCHANGED rows
    BY <1>1 DEF rows
  <1>2. ASSUME NEW h \in Handler, Write(h)
        PROVE  status' # status => <<status, status'>> \in Transitions
    <2>1. CASE InsertOrder(h)
      BY <2>1, WriteFacts DEF InsertOrder
    <2>2. CASE MarkPaid(h)
      BY <2>2, WriteFacts DEF MarkPaid, Transitions
    <2>3. CASE PatchOrder(h)
      BY <2>3, PatchFacts
    <2>4. CASE ~InsertOrder(h) /\ ~MarkPaid(h) /\ ~PatchOrder(h)
      BY <1>2, <2>4 DEF Write, InsertLine, Publish, InsertItem, DeleteItem, WriteTotal,
         VoidFake, HideOrder, InsertReal, InsertFake, orderRow
    <2> QED
      BY <2>1, <2>2, <2>3, <2>4
  <1> QED
    BY <1>1, <1>2, RowsStep

LEMMA TerminalStep ==
  ASSUME Inv, [Next]_vars, status \in {"fulfilled", "cancelled"}
  PROVE  UNCHANGED <<status, total, items, payments>>
  <1>1. CASE UNCHANGED rows
    BY <1>1 DEF rows
  <1>2. ASSUME NEW h \in Handler, Write(h)
        PROVE  UNCHANGED <<status, total, items, payments>>
    <2>1. CASE PatchOrder(h)
      BY <2>1, PatchFacts
    <2>2. CASE Publish(h) \/ HideOrder(h)
      BY <2>2 DEF Publish, HideOrder
    <2>3. CASE ~PatchOrder(h) /\ ~Publish(h) /\ ~HideOrder(h)
      BY <1>2, <2>3, WriteFacts DEF Write, Editable
    <2> QED
      BY <2>1, <2>2, <2>3
  <1> QED
    BY <1>1, <1>2, RowsStep

LEMMA PinStep ==
  ASSUME Inv, [Next]_vars, ~Unpaid
  PROVE  /\ UNCHANGED items
         /\ \A p \in PayId : LiveFake(payments'[p]) => LiveFake(payments[p])
  <1>1. CASE UNCHANGED rows
    BY <1>1 DEF rows
  <1>2. ASSUME NEW h \in Handler, Write(h)
        PROVE  /\ UNCHANGED items
               /\ \A p \in PayId : LiveFake(payments'[p]) => LiveFake(payments[p])
    <2>1. ~InsertLine(h) /\ ~InsertItem(h) /\ ~DeleteItem(h) /\ ~InsertFake(h)
      BY WriteFacts DEF Editable
    <2>2. CASE InsertReal(h)
      <3>1. PICK p \in PayId :
              payments' = [payments EXCEPT ![p] =
                 [method |-> "real", status |-> req[h].status,
                  amount |-> req[h].amount, key |-> None]]
        BY <2>2 DEF InsertReal
      <3>2. ~LiveFake(payments'[p]) /\ \A q \in PayId \ {p} : payments'[q] = payments[q]
        BY <3>1 DEF LiveFake, Inv, TypeOK
      <3> QED
        BY <2>2, <3>2 DEF InsertReal
    <2>3. CASE VoidFake(h)
      <3>1. PICK p \in todo[h] : payments' = [payments EXCEPT ![p] = Voided(@)]
        BY <2>3 DEF VoidFake
      <3>2. \A q \in PayId : q # p => payments'[q] = payments[q]
        BY <3>1 DEF Inv, TypeOK
      <3>3. p \in PayId => ~LiveFake(payments'[p])
        BY <3>1 DEF LiveFake, Completed, Voided, Inv, TypeOK
      <3> QED
        BY <2>3, <3>2, <3>3 DEF VoidFake
    <2> QED
      BY <1>2, <2>1, <2>2, <2>3 DEF Write, InsertOrder, Publish, WriteTotal, PatchOrder,
         HideOrder, MarkPaid
  <1> QED
    BY <1>1, <1>2, RowsStep

LEMMA PublishStep ==
  ASSUME Inv, [Next]_vars, row # "visible", row' = "visible"
  PROVE  items' = Wanted[creation'.body]
  <1>1. PICK h \in Handler : Write(h)
    BY RowsStep DEF rows
  <1>2. Publish(h)
    BY <1>1, PatchFacts DEF Write, InsertOrder, InsertLine, InsertItem, DeleteItem, WriteTotal,
       VoidFake, HideOrder, InsertReal, InsertFake, MarkPaid, orderRow
  <1>3. /\ items' = items /\ creation'.body = req[h].body /\ Missing(h) = {}
        /\ req[h].body \in Body
        /\ \A i \in ItemId : items[i] \in {None, Wanted[req[h].body][i]}
    BY <1>2, WriteFacts DEF Publish, Inv, HandlersInv, HandlerInv
  <1>4. \A i \in ItemId : items[i] = Wanted[req[h].body][i]
    BY <1>3 DEF Missing
  <1>5. items \in [ItemId -> LineTotal \cup {None}]
        /\ Wanted[req[h].body] \in [ItemId -> LineTotal \cup {None}]
    BY <1>3, WantedType DEF Inv, TypeOK, Lines
  <1> QED
    BY <1>3, <1>4, <1>5

LEMMA CreationStep ==
  ASSUME Inv, [Next]_vars
  PROVE  /\ row = "hidden" /\ creation.state = "complete" => row' = "hidden"
         /\ creation # None =>
              /\ creation' # None
              /\ creation'.body = creation.body
              /\ (creation.state = "complete" => creation'.state = "complete")
  <1>1. CASE UNCHANGED rows
    BY <1>1 DEF rows
  <1>2. ASSUME NEW h \in Handler, Write(h)
        PROVE  /\ row = "hidden" /\ creation.state = "complete" => row' = "hidden"
               /\ creation # None =>
                    /\ creation' # None
                    /\ creation'.body = creation.body
                    /\ (creation.state = "complete" => creation'.state = "complete")
    <2>1. CASE InsertOrder(h)
      BY <2>1, WriteFacts
    <2>2. CASE Publish(h)
      <3>1. Building(h) /\ req[h].body \in Body
        BY <2>2, WriteFacts
      <3>2. creation' = [state |-> "complete", body |-> req[h].body]
        BY <2>2 DEF Publish
      <3>3. creation' \in Creation
        BY <3>1, <3>2 DEF Creation
      <3> QED
        BY <3>1, <3>2, <3>3, WorkloadAssumption DEF Building
    <2>3. CASE PatchOrder(h)
      BY <2>3, PatchFacts
    <2>4. CASE ~InsertOrder(h) /\ ~Publish(h) /\ ~PatchOrder(h)
      BY <1>2, <2>4 DEF Write, InsertLine, InsertItem, DeleteItem, WriteTotal,
         VoidFake, HideOrder, InsertReal, InsertFake, MarkPaid, orderRow
    <2> QED
      BY <2>1, <2>2, <2>3, <2>4
  <1> QED
    BY <1>1, <1>2, RowsStep

-----------------------------------------------------------------------------
(* Deletion of the site.                                                   *)

\* delete_site_record had the site lock to itself, and no request gets it later.
Closed == siteDeleted => siteLock = None

LEMMA ClosedStep ==
  ASSUME Inv, Closed, [Next]_vars
  PROVE  Closed' /\ (siteDeleted => UNCHANGED rows)
  <1>1. ASSUME siteDeleted, NEW h \in Handler
        PROVE  pc[h] \in {"idle", "site"}
    BY <1>1, NoneAssumption DEF Closed, Inv, LockInv
  <1>2. siteDeleted => \A h \in Handler : ~Write(h)
    BY <1>1 DEF Write, InsertOrder, InsertLine, Publish, InsertItem, DeleteItem, WriteTotal,
       VoidFake, PatchOrder, HideOrder, InsertReal, InsertFake, MarkPaid
  <1>3. CASE siteDeleted
    <2>1. siteLock = None
      BY <1>3 DEF Closed
    <2>2. \A h \in Handler : ~Read(h) /\ ~EnterOrder(h)
      BY <1>1, <1>3 DEF Read, LoadCreate, LoadAdd, LoadDrop, LoadPatch, LoadHide, LoadPay,
         LoadFake, Serving, ListItems, SumItems, EnterOrder
    <2>3. \A h \in Handler : EnterSite(h) \/ Abort(h) => siteLock' = None
      BY <1>3, <2>1 DEF EnterSite, Abort, Reject, Finish
    <2>4. \A h \in Handler, r \in Workload : Begin(h, r) => siteLock' = None
      BY <2>1 DEF Begin, locks
    <2>5. DeleteSite \/ UNCHANGED vars => siteLock' = None
      BY <2>1 DEF DeleteSite, vars, locks
    <2>6. siteLock' = None
      BY <1>2, <1>3, <2>2, <2>3, <2>4, <2>5 DEF Next, Step
    <2> QED
      BY <1>2, <1>3, <2>6, RowsStep DEF Closed
  <1>4. CASE ~siteDeleted
    <2>1. CASE DeleteSite
      BY <1>4, <2>1 DEF DeleteSite, Closed, locks
    <2>2. CASE ~DeleteSite
      <3>1. \A h \in Handler : Reject(h) => siteDeleted' = siteDeleted
        BY DEF Reject
      <3>2. \A h \in Handler : Read(h) => siteDeleted' = siteDeleted
        BY <3>1 DEF Read, LoadCreate, LoadAdd, LoadDrop, LoadPatch, LoadHide, LoadPay,
           LoadFake, ListItems, SumItems, Proceed
      <3>3. \A h \in Handler : Write(h) => siteDeleted' = siteDeleted
        BY DEF Write, InsertOrder, InsertLine, Publish, InsertItem, DeleteItem, WriteTotal,
           VoidFake, PatchOrder, HideOrder, InsertReal, InsertFake, MarkPaid
      <3>4. \A h \in Handler : EnterSite(h) \/ EnterOrder(h) \/ Abort(h) =>
              siteDeleted' = siteDeleted
        BY <3>1 DEF EnterSite, EnterOrder, Abort
      <3>5. \A h \in Handler, r \in Workload : Begin(h, r) => siteDeleted' = siteDeleted
        BY DEF Begin
      <3>6. siteDeleted' = siteDeleted
        BY <2>2, <3>2, <3>3, <3>4, <3>5 DEF Next, Step, vars
      <3> QED
        BY <1>4, <3>6 DEF Closed
    <2> QED
      BY <2>1, <2>2
  <1> QED
    BY <1>3, <1>4 DEF TypeOK, Inv

-----------------------------------------------------------------------------
\* update_order and fake_payment, the only writers of the status, move it
\* along TRANSITIONS although others wrote since the request was sent.
THEOREM MovesAlongTransitions == Spec => StatusFollowsTransitions
  <1>1. Inv /\ [Next]_vars => [status' # status => <<status, status'>> \in Transitions]_vars
    BY StatusStep
  <1> QED
    BY <1>1, Invariance, PTL DEF Spec, StatusFollowsTransitions

\* A fulfilled or cancelled order keeps its status, total, items and payments.
THEOREM StaysTerminal == Spec => TerminalIsFinal
  <1>1. Inv /\ [Next]_vars =>
          [(status \in {"fulfilled", "cancelled"}) =>
              UNCHANGED <<status, total, items, payments>>]_vars
    BY TerminalStep
  <1> QED
    BY <1>1, Invariance, PTL DEF Spec, TerminalIsFinal

\* No item is added or removed, and no simulated payment recorded, while a
\* payment is unresolved (_require_unpaid and fake_payment, under the locks of
\* the write that follows them).
THEOREM PinsOrder == Spec => PaymentPinsOrder
  <1>1. Inv /\ [Next]_vars =>
          [~Unpaid => /\ UNCHANGED items
                      /\ \A p \in PayId : LiveFake(payments'[p]) => LiveFake(payments[p])]_vars
    BY PinStep
  <1> QED
    BY <1>1, Invariance, PTL DEF Spec, PaymentPinsOrder

\* However many attempts built an order, it is shown with the items of the
\* body that its fingerprint stands for (create_order).
THEOREM PublishesTheRequest == Spec => PublishedAsRequested
  <1>1. Inv /\ [Next]_vars =>
          [row # "visible" /\ row' = "visible" => items' = Wanted[creation'.body]]_vars
    BY PublishStep
  <1> QED
    BY <1>1, Invariance, PTL DEF Spec, PublishedAsRequested

\* A retry of the creation never shows a deleted order again, and no metadata
\* write loses what such a retry is decided by.
THEOREM RemembersCreation == Spec => DeletedStaysDeleted /\ CreationIsKept
  <1>1. Inv /\ [Next]_vars =>
          [row = "hidden" /\ creation.state = "complete" => row' = "hidden"]_vars
    BY CreationStep
  <1>2. Inv /\ [Next]_vars =>
          [creation # None =>
             /\ creation' # None
             /\ creation'.body = creation.body
             /\ (creation.state = "complete" => creation'.state = "complete")]_vars
    BY CreationStep
  <1> QED
    BY <1>1, <1>2, Invariance, PTL DEF Spec, DeletedStaysDeleted, CreationIsKept

\* Once delete_site_record has marked the site, no order row changes.
THEOREM FreezesDeletedSite == Spec => DeletedSiteIsFrozen
  <1>1. Init => Closed
    BY DEF Init, Closed
  <1>2. Inv /\ Closed /\ [Next]_vars => Closed' /\ [siteDeleted => UNCHANGED rows]_vars
    BY ClosedStep
  <1> QED
    BY <1>1, <1>2, Invariance, PTL DEF Spec, DeletedSiteIsFrozen

-----------------------------------------------------------------------------
(* Orders implements OrderContract.  What a handler has checked when it    *)
(* writes is the guard of the contract's step.                             *)

\* What users see, in terms of the rows.
LEMMA PhaseOf ==
  ASSUME Inv
  PROVE  /\ row = "visible" =>
              Phase = IF status = "pending" THEN "open" ELSE status
         /\ row # "visible" => Phase \in {"none", "deleted"}
         /\ row = "hidden" /\ creation.state = "complete" => Phase = "deleted"
         /\ row = "absent" \/ creation.state = "building" => Phase = "none"
         /\ Phase # "none" => VisibleLines = items
         /\ Phase = "none" => VisibleLines = NothingStored
         /\ row = "visible" => Phase # "none"
  <1>1. row \in {"absent", "hidden", "visible"} /\ status \in Status
    BY DEF Inv, TypeOK
  <1>2. row = "visible" => creation.state = "complete"
    BY DEF Inv, DraftInv
  <1> QED
    BY <1>1, <1>2 DEF Phase, VisibleLines, Status

LEMMA SameSum ==
  ASSUME NEW f
  PROVE  Contract!SumFunction(f) = SumFunction(f)
  BY DEF Contract!SumFunction, Contract!SumFunctionOnSet, Contract!FoldFunctionOnSet,
         Contract!MapThenFoldSet, MapThenFoldSet,
         SumFunction, SumFunctionOnSet, FoldFunctionOnSet

\* The prices of the order and of the contract are one.
LEMMA PriceIsTotal ==
  ASSUME Phase # "none"
  PROVE  Contract!Price = Total(items)
  BY SameSum DEF Phase, VisibleLines, Contract!Price, Total

\* A payment that counts has an amount.
LEMMA CountedAmount ==
  ASSUME TypeOK, NEW p \in PayId
  PROVE  /\ Completed(payments[p]) =>
              Counted[p] = payments[p].amount /\ Counted[p] \in Totals \cup RealAmount
         /\ ~Completed(payments[p]) => Counted[p] = None
         /\ Counted[p] = None <=> ~Completed(payments[p])
  <1>1. payments[p] \in Payment \cup {None}
    BY DEF TypeOK
  <1>2. Completed(payments[p]) => payments[p].amount \in Totals \cup RealAmount
    BY <1>1 DEF Completed, Held, Payment
  <1> QED
    BY <1>2, AmountAssumption DEF Counted

LEMMA ReceivedIsReceived ==
  ASSUME TypeOK
  PROVE  Contract!Received = Received
  <1>1. ASSUME NEW p \in PayId
        PROVE  (IF Counted[p] = None THEN 0 ELSE Counted[p])
                 = IF Completed(payments[p]) THEN payments[p].amount ELSE 0
    BY CountedAmount
  <1>2. [p \in PayId |-> IF Counted[p] = None THEN 0 ELSE Counted[p]]
          = [p \in PayId |-> IF Completed(payments[p]) THEN payments[p].amount ELSE 0]
    BY <1>1
  <1> QED
    BY <1>2, SameSum DEF Contract!Received, Received, SumCompleted

LEMMA NothingReceivedIs ==
  ASSUME TypeOK
  PROVE  /\ Contract!NothingReceived <=> Receipts = {}
         /\ Unpaid => Contract!NothingReceived
  <1>1. Contract!NothingReceived <=> \A p \in PayId : ~Completed(payments[p])
    BY CountedAmount DEF Contract!NothingReceived
  <1> QED
    BY <1>1, UnpaidReceivesNothing DEF Receipts

-----------------------------------------------------------------------------
(* The writes, as steps of the contract.                                   *)

\* What the refinement needs to know of a state that satisfies the invariant.
View ==
  /\ row = "visible" => Phase = IF status = "pending" THEN "open" ELSE status
  /\ row = "visible" => Phase # "none" /\ HasItems(items)
  /\ row # "visible" => Phase \in {"none", "deleted"}
  /\ row = "hidden" /\ creation.state = "complete" => Phase = "deleted"
  /\ row = "visible" => creation.state = "complete"
  /\ row = "absent" \/ creation.state = "building" => Phase = "none"
  /\ Phase # "none" => VisibleLines = items
  /\ Phase = "none" => VisibleLines = NothingStored
  /\ Contract!NothingReceived <=> Receipts = {}
  /\ Unpaid => Contract!NothingReceived
  /\ items \in Lines

LEMMA InvView == Inv => View
  <1> SUFFICES ASSUME Inv
               PROVE  View
    OBVIOUS
  <1>1. TypeOK /\ items \in Lines /\ VisibleHasItems
        /\ (row = "visible" => creation.state = "complete")
    BY DEF Inv, TypeOK, Safety, DraftInv
  <1> QED
    BY <1>1, PhaseOf, NothingReceivedIs DEF View, VisibleHasItems

LEMMA ViewNext ==
  ASSUME Inv, [Next]_vars
  PROVE  View /\ View' /\ Inv'
  <1>1. Inv'
    BY StepInv
  <1>2. (Inv => View)'
    BY InvView, PTL
  <1> QED
    BY <1>1, <1>2, InvView

\* Users see nothing of the stored total, the locks and the handlers.
LEMMA NothingSeen ==
  ASSUME UNCHANGED <<row, status, creation, items, payments>>
  PROVE  UNCHANGED <<Phase, VisibleLines, Counted>>
  <1>1. Phase' = Phase
    BY DEF Phase
  <1> QED
    BY <1>1 DEF VisibleLines, Counted, NothingStored, Completed, Held

LEMMA SameCounted ==
  ASSUME payments' = payments
  PROVE  Counted' = Counted
  BY DEF Counted, Completed, Held

LEMMA PublishOpens ==
  ASSUME Inv, [Next]_vars, NEW h \in Handler, Publish(h)
  PROVE  \E b \in Body : Contract!Open(b)
  <1>1. /\ Building(h) /\ status = "pending" /\ req[h].body \in Body
        /\ View /\ View'
    BY WriteFacts, ViewNext
  <1>2. /\ row = "hidden" /\ row' = "visible" /\ status' = status /\ payments' = payments
        /\ creation = [state |-> "building", body |-> req[h].body]
        /\ creation' = [state |-> "complete", body |-> req[h].body]
    BY <1>1 DEF Publish, Building
  <1>3. items' = Wanted[req[h].body]
    BY <1>2, PublishStep
  <1>4. Phase = "none" /\ Phase' = "open"
    BY <1>1, <1>2 DEF View
  <1>5. VisibleLines' = items'
    BY <1>1, <1>4 DEF View
  <1> QED
    BY <1>1, <1>2, <1>3, <1>4, <1>5, SameCounted DEF Contract!Open

\* The body of a draft is written in steps that nobody sees.
LEMMA BuildingIsUnseen ==
  ASSUME Inv, [Next]_vars, NEW h \in Handler, InsertOrder(h) \/ InsertLine(h)
  PROVE  UNCHANGED <<Phase, VisibleLines, Counted>>
  <1>1. View /\ View' /\ payments' = payments
    BY ViewNext DEF InsertOrder, InsertLine
  <1>2. Phase = "none" /\ Phase' = "none"
    BY <1>1, WriteFacts DEF View, InsertOrder, InsertLine, Building, orderRow
  <1>3. VisibleLines' = VisibleLines
    BY <1>1, <1>2 DEF View, NothingStored
  <1> QED
    BY <1>1, <1>2, <1>3, SameCounted

LEMMA EditIsEdit ==
  ASSUME Inv, [Next]_vars, NEW h \in Handler, InsertItem(h) \/ DeleteItem(h)
  PROVE  Contract!Edit
  <1>1. Editable /\ View /\ View'
    BY WriteFacts, ViewNext
  <1>2. /\ row = "visible" /\ row' = "visible" /\ status = "pending" /\ status' = "pending"
        /\ Unpaid /\ payments' = payments
    BY <1>1 DEF Editable, InsertItem, DeleteItem, orderRow
  <1>3. Phase = "open" /\ Phase' = "open" /\ VisibleLines' = items'
    BY <1>1, <1>2 DEF View
  <1>4. items' \in Lines /\ HasItems(items')
    BY <1>1, <1>2 DEF View
  <1>5. Contract!NothingReceived /\ Counted' = Counted
    BY <1>1, <1>2, SameCounted DEF View
  <1> QED
    BY <1>3, <1>4, <1>5 DEF Contract!Edit, Contract!Lines, Contract!HasItems, Lines, HasItems

\* One payment that begins or ceases to count is all a step changes.
LEMMA OnePayment ==
  ASSUME TypeOK, TypeOK', NEW p \in PayId,
         \A q \in PayId \ {p} : payments'[q] = payments[q]
  PROVE  Counted' = [Counted EXCEPT ![p] = Counted'[p]]
  <1>1. \A q \in PayId \ {p} : Counted'[q] = Counted[q]
    BY DEF Counted, Completed, Held
  <1> QED
    BY <1>1 DEF Counted

LEMMA CountedNext ==
  ASSUME TypeOK', NEW p \in PayId
  PROVE  /\ Completed(payments'[p]) => Counted'[p] \in Totals \cup RealAmount
         /\ ~Completed(payments'[p]) => Counted'[p] = None
  <1>1. payments'[p] \in Payment \cup {None}
    BY DEF TypeOK
  <1>2. Completed(payments'[p]) => payments'[p].amount \in Totals \cup RealAmount
    BY <1>1 DEF Completed, Held, Payment
  <1> QED
    BY <1>2 DEF Counted

LEMMA PaymentIsReceived ==
  ASSUME Inv, [Next]_vars, NEW h \in Handler, InsertReal(h) \/ InsertFake(h)
  PROVE  \/ \E p \in PayId : \E amount \in Totals \cup RealAmount : Contract!Receive(p, amount)
         \/ UNCHANGED <<Phase, VisibleLines, Counted>>
  <1>1. row = "visible" /\ status \in {"pending", "paid"}
    BY WriteFacts DEF Editable
  <1>2. PICK p \in PayId : payments[p] = None /\ \A q \in PayId \ {p} : payments'[q] = payments[q]
    BY DEF InsertReal, InsertFake, Inv, TypeOK
  <1>3. UNCHANGED <<row, status, creation, items>>
    BY DEF InsertReal, InsertFake, orderRow
  <1>4. UNCHANGED <<Phase, VisibleLines>>
    BY <1>3 DEF Phase, VisibleLines, NothingStored
  <1>5. Phase \in {"open", "paid"}
    BY <1>1, ViewNext DEF View
  <1>6. TypeOK /\ TypeOK'
    BY ViewNext DEF Inv
  <1>7. Counted[p] = None
    BY <1>2, <1>6, CountedAmount DEF Completed, Held
  <1>8. Counted' = [Counted EXCEPT ![p] = Counted'[p]]
    BY <1>2, <1>6, OnePayment
  <1>9. CASE Completed(payments'[p])
    BY <1>4, <1>5, <1>6, <1>7, <1>8, <1>9, CountedNext DEF Contract!Receive
  <1>10. CASE ~Completed(payments'[p])
    <2>1. Counted'[p] = Counted[p]
      BY <1>6, <1>7, <1>10, CountedNext
    <2>2. Counted' = Counted
      BY <1>8, <2>1 DEF Counted
    <2> QED
      BY <1>4, <2>2
  <1> QED
    BY <1>9, <1>10

LEMMA VoidGivesBack ==
  ASSUME Inv, [Next]_vars, NEW h \in Handler, VoidFake(h)
  PROVE  \/ \E p \in PayId : Contract!GiveBack(p)
         \/ UNCHANGED <<Phase, VisibleLines, Counted>>
  <1>1. /\ row = "visible" /\ status \in {"pending", "paid"}
        /\ UNCHANGED <<row, status, creation, items>>
    BY WriteFacts DEF VoidFake, orderRow
  <1>2. TypeOK /\ TypeOK' /\ HandlerInv(h) /\ pc[h] = "patchOrder"
    BY ViewNext DEF Inv, HandlersInv, VoidFake
  <1>3. \A p \in todo[h] : p \in PayId /\ Held(payments[p])
    BY <1>2 DEF HandlerInv
  <1>4. PICK p \in todo[h] : payments' = [payments EXCEPT ![p] = Voided(@)]
    BY DEF VoidFake
  <1>5. p \in PayId /\ payments[p] \in Payment
    BY <1>2, <1>3, <1>4 DEF TypeOK, Held
  <1>6. payments'[p] = Voided(payments[p]) /\ \A q \in PayId \ {p} : payments'[q] = payments[q]
    BY <1>2, <1>4, <1>5 DEF TypeOK
  <1>7. Counted'[p] = None
    BY <1>2, <1>5, <1>6, VoidedType, CountedNext DEF Completed
  <1>8. Counted' = [Counted EXCEPT ![p] = None]
    BY <1>2, <1>5, <1>6, <1>7, OnePayment
  <1>9. UNCHANGED <<Phase, VisibleLines>> /\ Phase \in {"open", "paid"}
    BY <1>1, ViewNext DEF View, Phase, VisibleLines, NothingStored
  <1>10. CASE Counted[p] # None
    BY <1>5, <1>8, <1>9, <1>10 DEF Contract!GiveBack
  <1>11. CASE Counted[p] = None
    BY <1>5, <1>8, <1>9, <1>11 DEF Counted
  <1> QED
    BY <1>10, <1>11

\* The simulated payment that is there is one of the price.
LEMMA MarkPaidSettles ==
  ASSUME Inv, [Next]_vars, NEW h \in Handler, MarkPaid(h)
  PROVE  Contract!Settle
  <1>1. /\ row = "visible" /\ status = "pending" /\ status' = "paid"
        /\ UNCHANGED <<row, items, payments>>
        /\ \E p \in PayId : LiveFake(payments[p])
    BY DEF MarkPaid, Inv, HandlersInv, HandlerInv
  <1>2. PICK p \in PayId : LiveFake(payments[p])
    BY <1>1
  <1>3. payments[p].amount = total /\ total = Total(items)
    BY <1>2 DEF Inv, Safety, FakePaymentCovers
  <1>4. Phase = "open" /\ Phase' = "paid" /\ UNCHANGED VisibleLines
    BY <1>1, ViewNext DEF View
  <1>5. Counted[p] = Contract!Price
    BY <1>2, <1>3, <1>4, CountedAmount, PriceIsTotal DEF LiveFake, Inv
  <1> QED
    BY <1>1, <1>4, <1>5, SameCounted DEF Contract!Settle

LEMMA PatchIsSeen ==
  ASSUME Inv, [Next]_vars, NEW h \in Handler, PatchOrder(h)
  PROVE  \/ Contract!Fulfil \/ Contract!Cancel
         \/ UNCHANGED <<Phase, VisibleLines, Counted>>
  <1> DEFINE t == req[h].to
  <1>1. /\ row = "visible" /\ UNCHANGED <<row, creation, total, items, payments>>
        /\ status' # status => <<status, status'>> \in Transitions
    BY PatchFacts
  <1>2. pc[h] = "patchOrder" /\ HandlerInv(h) /\ todo[h] = {} /\ TypeOK
    BY DEF PatchOrder, Inv, HandlersInv
  <1>3. View /\ View' /\ UNCHANGED <<VisibleLines, Counted>>
    BY <1>1, ViewNext, SameCounted DEF View
  <1>4. CASE status' = status
    BY <1>1, <1>4, NothingSeen
  <1>5. ASSUME status' # status
        PROVE  Contract!Fulfil \/ Contract!Cancel
    <2>1. status' = t /\ t \in {"paid", "fulfilled", "cancelled"} /\ <<status, t>> \in Transitions
      BY <1>1, <1>5 DEF PatchOrder, Transitions
    <2>2. CASE t = "fulfilled"
      <3>1. status = "paid" /\ Fulfillable
        BY <1>2, <1>5, <2>1, <2>2 DEF HandlerInv
      <3>2. Receipts # {} /\ Received = total /\ total = Total(items)
        BY <3>1 DEF Fulfillable, Inv, Safety, SettledTotal
      <3>3. Phase = "paid" /\ Phase' = "fulfilled"
        BY <1>1, <1>3, <2>1, <2>2, <3>1 DEF View
      <3>4. Contract!Received = Contract!Price /\ ~Contract!NothingReceived
        BY <1>2, <1>3, <3>2, <3>3, ReceivedIsReceived, PriceIsTotal DEF View
      <3> QED
        BY <1>3, <3>3, <3>4 DEF Contract!Fulfil
    <2>3. CASE t = "cancelled"
      <3>1. Receipts = {} /\ status \in {"pending", "paid"}
        BY <1>2, <2>1, <2>3 DEF HandlerInv, Transitions
      <3>2. Phase \in {"open", "paid"} /\ Phase' = "cancelled" /\ Contract!NothingReceived
        BY <1>1, <1>3, <2>1, <2>3, <3>1 DEF View
      <3> QED
        BY <1>3, <3>2 DEF Contract!Cancel
    <2>4. CASE t = "paid"
      BY <1>2, <1>5, <2>1, <2>4 DEF HandlerInv
    <2> QED
      BY <2>1, <2>2, <2>3, <2>4
  <1> QED
    BY <1>4, <1>5

LEMMA HideDeletes ==
  ASSUME Inv, [Next]_vars, NEW h \in Handler, HideOrder(h)
  PROVE  Contract!Delete
  <1>1. Deletable /\ View /\ View'
    BY ViewNext DEF HideOrder, Inv, HandlersInv, HandlerInv
  <1>2. row' = "hidden" /\ UNCHANGED <<status, creation, items, payments>>
    BY DEF HideOrder
  <1>3. Phase \in {"open", "cancelled"} /\ Phase' = "deleted" /\ Contract!NothingReceived
    BY <1>1, <1>2 DEF View, Deletable
  <1>4. UNCHANGED <<VisibleLines, Counted>>
    BY <1>1, <1>2, <1>3, SameCounted DEF View
  <1> QED
    BY <1>3, <1>4 DEF Contract!Delete

LEMMA StepIsContract ==
  ASSUME Inv, [Next]_vars
  PROVE  Contract!Next \/ UNCHANGED <<Phase, VisibleLines, Counted>>
  <1>1. CASE UNCHANGED rows
    BY <1>1, NothingSeen DEF rows
  <1>2. ASSUME NEW h \in Handler, Write(h)
        PROVE  Contract!Next \/ UNCHANGED <<Phase, VisibleLines, Counted>>
    <2>1. WriteTotal(h) => UNCHANGED <<Phase, VisibleLines, Counted>>
      BY NothingSeen DEF WriteTotal
    <2>2. InsertOrder(h) \/ InsertLine(h) => UNCHANGED <<Phase, VisibleLines, Counted>>
      BY BuildingIsUnseen
    <2>3. Publish(h) => Contract!Next
      BY PublishOpens DEF Contract!Next
    <2>4. InsertItem(h) \/ DeleteItem(h) => Contract!Next
      BY EditIsEdit DEF Contract!Next
    <2>5. InsertReal(h) \/ InsertFake(h) =>
            Contract!Next \/ UNCHANGED <<Phase, VisibleLines, Counted>>
      BY PaymentIsReceived DEF Contract!Next
    <2>6. VoidFake(h) => Contract!Next \/ UNCHANGED <<Phase, VisibleLines, Counted>>
      BY VoidGivesBack DEF Contract!Next
    <2>7. MarkPaid(h) => Contract!Next
      BY MarkPaidSettles DEF Contract!Next
    <2>8. PatchOrder(h) => Contract!Next \/ UNCHANGED <<Phase, VisibleLines, Counted>>
      BY PatchIsSeen DEF Contract!Next
    <2>9. HideOrder(h) => Contract!Next
      BY HideDeletes DEF Contract!Next
    <2> QED
      BY <1>2, <2>1, <2>2, <2>3, <2>4, <2>5, <2>6, <2>7, <2>8, <2>9 DEF Write
  <1> QED
    BY <1>1, <1>2, RowsStep

LEMMA InitIsContract == Init => Contract!Init
  <1> SUFFICES ASSUME Init
               PROVE  Contract!Init
    OBVIOUS
  <1>1. Phase = "none" /\ VisibleLines = [i \in ItemId |-> None]
    BY DEF Init, Phase, VisibleLines, NothingStored
  <1>2. Counted = [p \in PayId |-> None]
    BY DEF Init, Counted, Completed, Held
  <1> QED
    BY <1>1, <1>2 DEF Contract!Init

\* Requests of many steps, locks, drafts, retries and interruptions amount to
\* an order that is opened, edited, paid, fulfilled, cancelled and deleted as
\* the contract says, each in one step (all of TransactionalService).
THEOREM Implements == Spec => ImplementsContract
  <1>1. Inv /\ [Next]_vars => [Contract!Next]_<<Phase, VisibleLines, Counted>>
    BY StepIsContract
  <1> QED
    BY <1>1, InitIsContract, Invariance, PTL DEF Spec, ImplementsContract, Contract!Spec
===============================================================================
