------------------------------- MODULE Orders -------------------------------
(***************************************************************************)
(* The life of one keyed order of one site: TransactionalService (create,  *)
(* items, payments, status, deletion) with the locks of order_policy,      *)
(* booking_policy and operation_lock around it.                            *)
(*                                                                         *)
(* The rows of the order in PocketBase (one "orders" row, its              *)
(* "order_items" and its "payments") are shared variables.  A handler is   *)
(* one HTTP request being served.  The awaits of a handler are its steps:  *)
(* it reads what it checks in one Load step made under the locks, keeps    *)
(* what it read in locals, and makes every write a step of its own.  What  *)
(* else happens between two steps is left open: another handler may run,   *)
(* or the handler may end there (Abort: an exception, a timeout, a         *)
(* cancelled request, the death of the process), leaving the writes it     *)
(* made.  A write whose answer is lost is the write followed by Abort.     *)
(*                                                                         *)
(* Abstractions.  An item is its line total.  A request body is a member   *)
(* of Body and stands for its own sha256 fingerprint.  All orders of the   *)
(* site share the site lock and no row, so one of them is enough; its      *)
(* currency never changes and every payment has it, so it is left out.     *)
(* An unkeyed request is a keyed one whose key is never used again.        *)
(***************************************************************************)
EXTENDS Integers, FiniteSets, Functions

CONSTANTS
  Handler,      \* requests that can be in flight together
  ItemId,       \* item identifiers: positions of a body, keys of added items
  LineTotal,    \* line totals an item can have
  Body,         \* bodies that clients send with the order's idempotency key
  Wanted,       \* Wanted[b][i]: line total at position i of body b, or None
  PayId,        \* payment identifiers
  FakeKey,      \* idempotency keys of simulated payments
  RealAmount,   \* amounts of manually recorded payments
  Workload,     \* the requests clients may send
  None          \* no row, no holder, no key, no request

ASSUME DataAssumption ==
  /\ ItemId \subseteq Nat /\ IsFiniteSet(ItemId)
  /\ LineTotal \subseteq Nat
  /\ RealAmount \subseteq Nat \ {0}

Status == {"pending", "paid", "fulfilled", "cancelled"}

Transitions == {<<"pending", "paid">>, <<"pending", "cancelled">>,
                <<"paid", "fulfilled">>, <<"paid", "cancelled">>}

ValidTransition(s, t) == s = t \/ <<s, t>> \in Transitions

Lines == [ItemId -> LineTotal \cup {None}]
HasItems(f) == \E i \in ItemId : f[i] # None

ASSUME NoneAssumption ==
  /\ None \notin LineTotal
  /\ None \notin Handler /\ None \notin Body /\ None \notin FakeKey
  /\ None \notin Status

ASSUME BodyAssumption ==
  Wanted \in [Body -> Lines] /\ \A b \in Body : HasItems(Wanted[b])

-----------------------------------------------------------------------------
(* Amounts, rows and requests.                                             *)

\* Free text in a recorded payment: these are the values the code tells apart,
\* "pending" standing for every other word.
PayStatus == {"pending", "completed", "failed", "cancelled", "refunded"}

Total(f) == SumFunction([i \in ItemId |-> IF f[i] = None THEN 0 ELSE f[i]])

Totals == {Total(f) : f \in Lines}

Payment == [method : {"fake", "real"}, status : PayStatus,
            amount : Totals \cup RealAmount, key : FakeKey \cup {None}]

\* metadata._creation: the state of the creation and the fingerprint
Creation == [state : {"building", "complete"}, body : Body]

Request ==
       [op : {"create"}, body : Body]
  \cup [op : {"add"}, item : ItemId, line : LineTotal]
  \cup [op : {"drop", "remove"}, item : ItemId]
  \cup [op : {"patch"}, to : Status \cup {None}, meta : BOOLEAN]
  \cup [op : {"hide"}]
  \cup [op : {"pay"}, amount : RealAmount, status : PayStatus]
  \cup [op : {"fake"}, key : FakeKey]

ASSUME WorkloadAssumption ==
  /\ Workload \subseteq Request
  /\ None \notin Request /\ None \notin Payment /\ None \notin Creation

ASSUME AmountAssumption == None \notin Totals \cup RealAmount

-----------------------------------------------------------------------------
VARIABLES
  siteDeleted,   \* config._nexa_lifecycle.deleted_at of the site is set
  row,           \* the order row: absent, hidden (deleted_at set), visible
  status,        \* its status
  total,         \* its stored total
  creation,      \* its metadata._creation
  items,         \* the order_items rows
  payments,      \* the payments rows
  siteLock,      \* who holds "site:<id>"
  orderLock,     \* who holds "order:<id>"
  pc, req,       \* where each handler is, and the request it serves
  todo,          \* ids the handler read and still has to write
  sum,           \* the total the handler computed from the items it read
  kept           \* the metadata._creation the handler read

orderRow == <<row, status, total, creation>>
rows     == <<row, status, total, creation, items, payments>>
locks    == <<siteLock, orderLock>>
locals   == <<todo, sum, kept>>
vars     == <<siteDeleted, rows, locks, pc, req, locals>>

Held(p) == p # None
\* Mutant of Unresolved: only a payment that is still pending counts.
UnresolvedPending(p) == Held(p) /\ p.status = "pending"

Unresolved(p) == Held(p) /\ p.status \notin {"failed", "cancelled"}
Completed(p) == Held(p) /\ p.status = "completed"
LiveFake(p) == Completed(p) /\ p.method = "fake"

Unpaid == \A p \in PayId : ~Unresolved(payments[p])

Receipts == {p \in PayId : Completed(payments[p])}

SumCompleted(pays) ==
  SumFunction([p \in PayId |-> IF Completed(pays[p]) THEN pays[p].amount ELSE 0])

Received == SumCompleted(payments)

FreePayId == \E p \in PayId : payments[p] = None

NothingStored == [i \in ItemId |-> None]

TypeOK ==
  /\ siteDeleted \in BOOLEAN
  /\ row \in {"absent", "hidden", "visible"}
  /\ status \in Status
  /\ total \in Totals
  /\ creation \in Creation \cup {None}
  /\ items \in Lines
  /\ payments \in [PayId -> Payment \cup {None}]
  /\ siteLock \in Handler \cup {None}
  /\ orderLock \in Handler \cup {None}
  /\ pc \in [Handler -> {"idle", "site", "order", "load", "insertOrder",
                         "listItems", "insertLines", "insertItem", "deleteItem",
                         "sumItems", "writeTotal", "insertFake", "insertReal",
                         "markPaid", "patchOrder", "hideOrder"}]
  /\ req \in [Handler -> Request \cup {None}]
  /\ todo \in [Handler -> SUBSET (ItemId \cup PayId)]
  /\ sum \in [Handler -> Totals]
  /\ kept \in [Handler -> Creation \cup {None}]

Init ==
  /\ siteDeleted = FALSE
  /\ row = "absent" /\ status = "pending" /\ total = Total(NothingStored)
  /\ creation = None
  /\ items = NothingStored
  /\ payments = [p \in PayId |-> None]
  /\ siteLock = None /\ orderLock = None
  /\ pc = [h \in Handler |-> "idle"]
  /\ req = [h \in Handler |-> None]
  /\ todo = [h \in Handler |-> {}]
  /\ sum = [h \in Handler |-> Total(NothingStored)]
  /\ kept = [h \in Handler |-> None]

-----------------------------------------------------------------------------
(* Control flow of a handler.                                              *)

Goto(h, label) == pc' = [pc EXCEPT ![h] = label]

\* Leaving the "async with" blocks closes the lock files; the kernel does the
\* same when the process dies.
Finish(h) ==
  /\ Goto(h, "idle")
  /\ req'  = [req EXCEPT ![h] = None]
  /\ todo' = [todo EXCEPT ![h] = {}]
  /\ sum'  = [sum EXCEPT ![h] = Total(NothingStored)]
  /\ kept' = [kept EXCEPT ![h] = None]
  /\ siteLock'  = IF siteLock = h THEN None ELSE siteLock
  /\ orderLock' = IF orderLock = h THEN None ELSE orderLock

Reject(h) == Finish(h) /\ UNCHANGED <<siteDeleted, rows>>

Proceed(h, label) ==
  Goto(h, label) /\ UNCHANGED <<siteDeleted, rows, locks, req, locals>>

Serving(h, ops) == pc[h] = "load" /\ req[h].op \in ops

\* serialize_order finds the order before it takes a lock, and the unscoped
\* item deletion finds the item first; a request that finds nothing changes
\* nothing.  create_order looks only once it holds the site lock.
Found(r) ==
  /\ r.op # "create" => row = "visible"
  /\ r.op = "drop" => items[r.item] # None

Begin(h, r) ==
  /\ pc[h] = "idle" /\ Found(r)
  /\ req' = [req EXCEPT ![h] = r]
  /\ Goto(h, "site")
  /\ UNCHANGED <<siteDeleted, rows, locks, locals>>

\* The site is read again under its lock; a deleted site ends the request.
EnterSite(h) ==
  /\ pc[h] = "site" /\ siteLock = None
  /\ IF siteDeleted
       THEN Reject(h)
       ELSE /\ siteLock' = h
            /\ Goto(h, IF req[h].op = "create" THEN "load" ELSE "order")
            /\ UNCHANGED <<siteDeleted, rows, orderLock, req, locals>>

EnterOrder(h) ==
  /\ pc[h] = "order" /\ orderLock = None
  /\ orderLock' = h
  /\ Goto(h, "load")
  /\ UNCHANGED <<siteDeleted, rows, siteLock, req, locals>>

\* Any await may be the last one of the request.
Abort(h) == pc[h] # "idle" /\ Reject(h)

-----------------------------------------------------------------------------
(* create_order, under the site lock only.                                 *)

\* Mutants of Resumable: any body resumes the draft; drafts are not resumed at
\* all.
ResumableByAnyBody(b) == row = "hidden" /\ creation.state = "building"
NeverResumable(b)     == FALSE

\* A draft that an earlier attempt with the same body left hidden.
Resumable(b) == row = "hidden" /\ creation = [state |-> "building", body |-> b]

\* The first request with a key creates the row and a retry resumes the draft;
\* everything else ends here (the order is returned, the key belongs to
\* another body, the order was deleted).
LoadCreate(h) ==
  /\ Serving(h, {"create"})
  /\ \/ row = "absent" /\ Proceed(h, "insertOrder")
     \/ row # "absent" /\ Resumable(req[h].body) /\ Proceed(h, "listItems")
     \/ row # "absent" /\ ~Resumable(req[h].body) /\ Reject(h)

InsertOrder(h) ==
  /\ pc[h] = "insertOrder" /\ row = "absent"
  /\ row' = "hidden"
  /\ status' = "pending"
  /\ total' = Total(Wanted[req[h].body])
  /\ creation' = [state |-> "building", body |-> req[h].body]
  /\ Goto(h, "listItems")
  /\ UNCHANGED <<siteDeleted, items, payments, locks, req, locals>>

ListItems(h) ==
  /\ pc[h] = "listItems"
  /\ todo' = [todo EXCEPT ![h] =
                {i \in ItemId : Wanted[req[h].body][i] # None /\ items[i] = None}]
  /\ Goto(h, "insertLines")
  /\ UNCHANGED <<siteDeleted, rows, locks, req, sum, kept>>

InsertLine(h) ==
  /\ pc[h] = "insertLines"
  /\ \E i \in todo[h] :
       /\ \A j \in todo[h] : i <= j
       /\ items[i] = None
       /\ items' = [items EXCEPT ![i] = Wanted[req[h].body][i]]
       /\ todo' = [todo EXCEPT ![h] = @ \ {i}]
  /\ UNCHANGED <<siteDeleted, orderRow, payments, locks, pc, req, sum, kept>>

\* Mutant of Publish: the order is shown as soon as its first item is stored.
PublishEarly(h) ==
  /\ pc[h] = "insertLines" /\ HasItems(items)
  /\ row' = "visible"
  /\ creation' = [state |-> "complete", body |-> req[h].body]
  /\ Finish(h)
  /\ UNCHANGED <<siteDeleted, status, total, items, payments>>

Publish(h) ==
  /\ pc[h] = "insertLines" /\ todo[h] = {}
  /\ row' = "visible"
  /\ creation' = [state |-> "complete", body |-> req[h].body]
  /\ Finish(h)
  /\ UNCHANGED <<siteDeleted, status, total, items, payments>>

-----------------------------------------------------------------------------
(* Items of a visible order.                                               *)

\* Mutant of Editable: payments are not looked at.
EditableThoughPaid == row = "visible" /\ status = "pending"

Editable == row = "visible" /\ status = "pending" /\ Unpaid

\* An item that exists with the same content only has its total repaired.
LoadAdd(h) ==
  /\ Serving(h, {"add"})
  /\ \/ Editable /\ items[req[h].item] = None /\ Proceed(h, "insertItem")
     \/ Editable /\ items[req[h].item] = req[h].line /\ Proceed(h, "sumItems")
     \/ /\ ~Editable \/ items[req[h].item] \notin {None, req[h].line}
        /\ Reject(h)

InsertItem(h) ==
  /\ pc[h] = "insertItem" /\ items[req[h].item] = None
  /\ items' = [items EXCEPT ![req[h].item] = req[h].line]
  /\ Goto(h, "sumItems")
  /\ UNCHANGED <<siteDeleted, orderRow, payments, locks, req, locals>>

SeveralItems == \E i, j \in ItemId : i # j /\ items[i] # None /\ items[j] # None

\* remove_order_item takes an item that is gone as already removed and repairs
\* the total; _delete_order_item was handed the item before it had the locks
\* and fails on the delete when the item is gone.
LoadDrop(h) ==
  /\ Serving(h, {"drop", "remove"})
  /\ LET gone == items[req[h].item] = None IN
     \/ Editable /\ ~gone /\ SeveralItems /\ Proceed(h, "deleteItem")
     \/ Editable /\ gone /\ req[h].op = "remove" /\ Proceed(h, "sumItems")
     \/ /\ \/ ~Editable
           \/ ~gone /\ ~SeveralItems
           \/ gone /\ req[h].op = "drop"
        /\ Reject(h)

DeleteItem(h) ==
  /\ pc[h] = "deleteItem"
  /\ items' = [items EXCEPT ![req[h].item] = None]
  /\ Goto(h, "sumItems")
  /\ UNCHANGED <<siteDeleted, orderRow, payments, locks, req, locals>>

\* _refresh_order_total reads the items again and writes their sum; the
\* simulated payment goes on from there.
SumItems(h) ==
  /\ pc[h] = "sumItems"
  /\ sum' = [sum EXCEPT ![h] = Total(items)]
  /\ Goto(h, "writeTotal")
  /\ UNCHANGED <<siteDeleted, rows, locks, req, todo, kept>>

WriteTotal(h) ==
  /\ pc[h] = "writeTotal"
  /\ total' = sum[h]
  /\ \/ /\ req[h].op = "fake"
        /\ Goto(h, "insertFake")
        /\ UNCHANGED <<locks, req, locals>>
     \/ req[h].op # "fake" /\ Finish(h)
  /\ UNCHANGED <<siteDeleted, row, status, creation, items, payments>>

-----------------------------------------------------------------------------
(* update_order and delete_order.                                          *)

Fulfillable ==
  /\ Receipts # {} /\ Received = total
  /\ \A p \in PayId :
       Held(payments[p]) => payments[p].status \notin {"pending", "refunded"}

\* Mutant of Cancellable: a retry finds nothing to void and is refused.
CancellableOnce ==
  Receipts # {} /\ \A p \in Receipts : payments[p].method = "fake"

Cancellable ==
  \A p \in PayId : Completed(payments[p]) => payments[p].method = "fake"

\* Mutant of ToVoid: only a paid order has payments to void.
ToVoidWhenPaid(t) ==
  IF t = "cancelled" /\ status = "paid" THEN {p \in PayId : LiveFake(payments[p])} ELSE {}

\* The simulated payments a cancellation has to void.
ToVoid(t) == IF t = "cancelled" THEN {p \in PayId : LiveFake(payments[p])} ELSE {}

\* A request may keep the status the order has; "cancelled" is checked and
\* reconciled again even then.
PatchAllowed(t) ==
  /\ ValidTransition(status, t)
  /\ t = "paid" => status = "paid"
  /\ t = "fulfilled" /\ status # "fulfilled" => Fulfillable
  /\ t = "cancelled" => Cancellable

LoadPatch(h) ==
  /\ Serving(h, {"patch"})
  /\ LET t == req[h].to IN
     \/ /\ row = "visible"
        /\ t # None => PatchAllowed(t)
        /\ todo' = [todo EXCEPT ![h] = ToVoid(t)]
        /\ kept' = [kept EXCEPT ![h] = creation]
        /\ Goto(h, "patchOrder")
        /\ UNCHANGED <<siteDeleted, rows, locks, req, sum>>
     \/ /\ row # "visible" \/ (t # None /\ ~PatchAllowed(t))
        /\ Reject(h)

Voided(payment) == [payment EXCEPT !.status = "cancelled"]

\* The listed simulated payments are cancelled one call at a time, in the
\* order of their (random) record ids.
VoidFake(h) ==
  /\ pc[h] = "patchOrder"
  /\ \E p \in todo[h] :
       /\ payments' = [payments EXCEPT ![p] = Voided(@)]
       /\ todo' = [todo EXCEPT ![h] = @ \ {p}]
  /\ UNCHANGED <<siteDeleted, orderRow, items, locks, pc, req, sum, kept>>

\* A metadata patch replaces the metadata and puts back the _creation it read.
PatchOrder(h) ==
  /\ pc[h] = "patchOrder" /\ todo[h] = {}
  /\ status' = IF req[h].to = None THEN status ELSE req[h].to
  /\ creation' = IF req[h].meta THEN kept[h] ELSE creation
  /\ Finish(h)
  /\ UNCHANGED <<siteDeleted, row, total, items, payments>>

Deletable == row = "visible" /\ status \in {"pending", "cancelled"} /\ Unpaid

LoadHide(h) ==
  /\ Serving(h, {"hide"})
  /\ \/ Deletable /\ Proceed(h, "hideOrder")
     \/ ~Deletable /\ Reject(h)

HideOrder(h) ==
  /\ pc[h] = "hideOrder"
  /\ row' = "hidden"
  /\ Finish(h)
  /\ UNCHANGED <<siteDeleted, status, total, creation, items, payments>>

-----------------------------------------------------------------------------
(* add_payment and fake_payment.  A row needs a free payment id: the pool  *)
(* PayId is the bound on the number of payments.                           *)

AcceptsPayment == row = "visible" /\ status \in {"pending", "paid"} /\ FreePayId

LoadPay(h) ==
  /\ Serving(h, {"pay"})
  /\ \/ AcceptsPayment /\ Proceed(h, "insertReal")
     \/ ~AcceptsPayment /\ Reject(h)

\* A manual payment is stored with the status the client gives; the order's
\* status stays as it is.
InsertReal(h) ==
  /\ pc[h] = "insertReal"
  /\ \E p \in PayId :
       /\ payments[p] = None
       /\ payments' = [payments EXCEPT ![p] =
            [method |-> "real", status |-> req[h].status,
             amount |-> req[h].amount, key |-> None]]
  /\ Finish(h)
  /\ UNCHANGED <<siteDeleted, orderRow, items>>

WithKey(k) == {p \in PayId : Held(payments[p]) /\ payments[p].key = k}

\* Mutant of Repairable: a retry only returns the payment it finds.
NeverRepairable(k) == FALSE

\* The payment of the key counts but the order was not marked paid.
Repairable(k) ==
  /\ row = "visible" /\ status = "pending"
  /\ \E p \in WithKey(k) : LiveFake(payments[p])

\* Mutant of Chargeable: only simulated payments are looked at.
ChargeableOverManual(k) ==
  /\ row = "visible" /\ status = "pending"
  /\ \A p \in PayId : Unresolved(payments[p]) => payments[p].method # "fake"
  /\ WithKey(k) = {} /\ HasItems(items) /\ FreePayId

Chargeable(k) == Editable /\ WithKey(k) = {} /\ HasItems(items) /\ FreePayId

\* A retry finds the payment of its key: it repairs the status of the order,
\* or only returns the payment (also when that one was cancelled since).
LoadFake(h) ==
  /\ Serving(h, {"fake"})
  /\ LET k == req[h].key IN
     \/ Repairable(k) /\ Proceed(h, "markPaid")
     \/ Chargeable(k) /\ Proceed(h, "sumItems")
     \/ ~Repairable(k) /\ ~Chargeable(k) /\ Reject(h)

InsertFake(h) ==
  /\ pc[h] = "insertFake"
  /\ \E p \in PayId :
       /\ payments[p] = None
       /\ payments' = [payments EXCEPT ![p] =
            [method |-> "fake", status |-> "completed",
             amount |-> sum[h], key |-> req[h].key]]
  /\ Goto(h, "markPaid")
  /\ UNCHANGED <<siteDeleted, orderRow, items, locks, req, locals>>

MarkPaid(h) ==
  /\ pc[h] = "markPaid"
  /\ status' = "paid"
  /\ Finish(h)
  /\ UNCHANGED <<siteDeleted, row, total, creation, items, payments>>

-----------------------------------------------------------------------------

\* delete_site_record marks the site deleted while its route holds the site
\* lock; it waits for nothing else here, so taking, writing and releasing is
\* one step.
DeleteSite ==
  /\ siteLock = None /\ ~siteDeleted
  /\ siteDeleted' = TRUE
  /\ UNCHANGED <<rows, locks, pc, req, locals>>

Read(h) ==
  \/ LoadCreate(h) \/ LoadAdd(h) \/ LoadDrop(h) \/ LoadPatch(h)
  \/ LoadHide(h) \/ LoadPay(h) \/ LoadFake(h)
  \/ ListItems(h) \/ SumItems(h)

Write(h) ==
  \/ InsertOrder(h) \/ InsertLine(h) \/ Publish(h)
  \/ InsertItem(h) \/ DeleteItem(h) \/ WriteTotal(h)
  \/ VoidFake(h) \/ PatchOrder(h) \/ HideOrder(h)
  \/ InsertReal(h) \/ InsertFake(h) \/ MarkPaid(h)

Step(h) == EnterSite(h) \/ EnterOrder(h) \/ Read(h) \/ Write(h)

Next ==
  \/ \E h \in Handler :
       \/ \E r \in Workload : Begin(h, r)
       \/ Step(h)
       \/ Abort(h)
  \/ DeleteSite

Spec == Init /\ [][Next]_vars

-----------------------------------------------------------------------------
(* Safety.                                                                 *)

\* A client never sees an order without items: creation publishes a full
\* order, and concurrent or interrupted deletions leave the last item
\* (transactional_service: create_order, _delete_order_item,
\* remove_order_item).
VisibleHasItems == row = "visible" => HasItems(items)

\* The total an order is settled with is the sum of its items, whatever
\* total writes were interrupted while it was pending.
SettledTotal == status \in {"paid", "fulfilled"} => total = Total(items)

\* A simulated payment that counts is worth what the order holds, from the
\* moment it is recorded, also before the order is marked paid.
FakePaymentCovers ==
  \A p \in PayId : LiveFake(payments[p]) =>
    payments[p].amount = total /\ total = Total(items)

\* Checkout charges once: two keys, two clients or a retry never leave two
\* simulated payments that count, nor two payments of one key.
ChargedOnce ==
  /\ \A p, q \in PayId : (LiveFake(payments[p]) /\ LiveFake(payments[q])) => p = q
  /\ \A k \in FakeKey : \A p, q \in WithKey(k) : p = q

\* A fulfilled order was paid exactly: its completed payments sum to its
\* total and nothing is pending or refunded.
FulfilledIsPaid == status = "fulfilled" => Fulfillable

\* A cancelled order keeps no completed payment, wherever cancellation or
\* checkout was interrupted before.
CancelledIsRefunded == status = "cancelled" => Receipts = {}

\* An order clients cannot see has no payment left to resolve.
HiddenIsUnpaid == row # "visible" => Unpaid

\* Statuses only move along TRANSITIONS, whichever handler wrote last.
StatusFollowsTransitions == [][status' # status => <<status, status'>> \in Transitions]_vars

\* "Terminal orders cannot be resurrected": nothing about a fulfilled or
\* cancelled order changes again but its metadata and its deletion.
TerminalIsFinal ==
  [][(status \in {"fulfilled", "cancelled"}) => UNCHANGED <<status, total, items, payments>>]_vars

\* While a payment is unresolved, recorded by hand or simulated, the items are
\* pinned, so what was paid for is what is delivered, and checkout charges
\* nothing on top of it, whoever recorded it between its check and its write.
PaymentPinsOrder ==
  [][~Unpaid => /\ UNCHANGED items
                /\ \A p \in PayId : LiveFake(payments'[p]) => LiveFake(payments[p])]_vars

\* An order becomes visible with exactly the items of the body whose
\* fingerprint it carries, whichever of several attempts wrote each item.
PublishedAsRequested ==
  [][row # "visible" /\ row' = "visible" => items' = Wanted[creation'.body]]_vars

\* A deleted order stays deleted, whoever retries its creation.
DeletedStaysDeleted ==
  [][row = "hidden" /\ creation.state = "complete" => row' = "hidden"]_vars

\* The creation record, which is what idempotent retries are decided by, is
\* never lost or moved back by a later write of the metadata.
CreationIsKept ==
  [][creation # None =>
       /\ creation' # None
       /\ creation'.body = creation.body
       /\ (creation.state = "complete" => creation'.state = "complete")]_vars

\* Once the site is deleted none of its order rows changes: no handler that
\* passed the site check is still writing.
DeletedSiteIsFrozen == [][siteDeleted => UNCHANGED rows]_vars
=============================================================================
