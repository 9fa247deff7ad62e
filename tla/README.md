# Verification of Nexa-Client-BE

TLA+ models of the Nexa client backend, TLC runs that check them on small
instances, and proofs that TLAPS checks for every instance.

Nexa-Client-BE is a FastAPI service. It keeps almost no state in memory: the state
is the rows of PocketBase, the objects of a bucket, and what Cloudflare serves. An
operation of the API is a handler that makes several PocketBase calls, one after
the other, each of which may fail, and PocketBase offers no transaction over them.
What the code has instead are file locks (`operation_lock`), checks made under
them, an order of writes, and idempotent retries. Whether these suffice is the
question of this project. So the models have these in common:

- **A step is an await.** A handler reads what it checks in one step, keeps what it
  read in local variables, and makes every write a step of its own. Any other
  handler may run in between.
- **Everything may stop anywhere.** `Abort` ends a handler at any await: an
  exception, a timeout, a cancelled request, the death of the process. The writes
  made so far stay; the locks are freed, because they are `flock`s on files the
  handler has open. A write whose answer is lost is that write followed by `Abort`;
  where the client sends it again and nothing refuses a second row, it is two writes.
- **Rows are records, values are small sets.** Names, texts and prices are members
  of constant sets. `None` stands for a missing row or value.

## Contents

1. [Inventory](#inventory)
2. [Modules and code](#modules-and-code)
3. [Runs](#runs)
4. [Fairness](#fairness)
5. [Proofs](#proofs)
6. [Findings](#findings)
7. [What is not modelled](#what-is-not-modelled)

## Inventory

Paths are relative to `src/app/`. "State" is what outlives a call.

| Component | State | Operations | Interacts with | Modules |
|---|---|---|---|---|
| Orders and payments: `application/services/transactional_service.py`, `order_policy.py` | rows of `orders` (status, total, `metadata._creation`), `order_items`, `payments` | create (with idempotency key), patch, delete, add/delete/remove item, manual payment, simulated payment | site and order locks; the site row | `Orders` and its companions |
| Bookings and availability: same service, `booking_policy.py` | rows of `bookings`, `availability` | book, patch, delete, edit opening hours | site lock; `properties` rows of services | `Bookings`, `Sweep`, `SweepDays` |
| Public submissions: `public_submission_service.py`, `legacy_booking_service.py` | `properties` rows of type `booking_submission`, then `bookings` | submit, convert, reconcile | bookings, site lock | `Bookings` |
| Operation locks: `infrastructure/operation_lock.py` | one lock file per key, polled every 50 ms | acquire, release | everything below that writes | in each module |
| Transaction, site and workflow gateways, `access.py` | none | check site, tenant and role again before each call | orders, bookings, sites | guards of each module |
| Site lifecycle: `site_lifecycle_service.py`, `interface/routes/site.py` | rows of `sites`, bucket of a site | create with rollback, update, link a domain, delete | domain, site and build locks; builds; serving; storage | `Files` (creation), `Sites` |
| Builds: `interface/routes/build.py`, `record_mutation.py` | rows of `builds` | create, edit, queue again, delete | site and build locks; the external executor | `Sites` |
| Serving: `serve_service.py`, `site_deployer.py` | serve status of a site; Pages project, DNS records | request, verify, serve, stop | builds, domains, Cloudflare | `Sites`, `Domains` |
| Cloudflare client: `infrastructure/cloudflare/client.py` | none | DNS, Pages, domains, with retries | serving | `Domains` |
| Properties: `property_service.py` | rows of `properties` | create, update, delete, slugs, category trees | site lock; bookings | `Catalog`, `Bookings` |
| Public site events: `public_site_events.py` | `properties` rows of subscribers | subscribe, record an event | properties, collector | `Catalog`, `Collector` |
| Files and storage: `site_file_service.py`, `media_service.py`, `storage_service.py`, `bucket_resolver.py` | file rows, bucket objects | presign, confirm, rename, delete | storage client, site lock | `Files` |
| Analytics collection: `infrastructure/analytics/collector.py` | a buffer in memory, `analytics_events` rows | record, flush, stop | PocketBase | `Collector` |
| Analytics aggregation: `aggregator.py`, `scheduler.py`, `analytics_service.py` | daily aggregates | aggregate, clean up, report | events, sites | `Rollup`, `Dashboards` |
| Insights and LLM: `insight_service.py`, `infrastructure/llm/*` | cache and budget of a request, batch queue, insight rows | analyse, queue, reuse, charge | OpenAI, PocketBase | `Insights` |
| Accounts and roles: `account_gateway.py`, `account_service.py`, `interface/rbac.py` | rows of `users` | create, update, delete | every route | `Accounts` |
| PocketBase client: `infrastructure/pocketbase/client.py`, `retry_utils.py` | admin token cache | five calls with retries | everything | its lost and repeated calls, in each module |
| Content routes: template, style, block, page, section | one row each | create, read, update, delete | PocketBase | none |
| Field validation | none | validate values against a form schema | properties, public submissions | none |
| Request plumbing: `main.py`, middlewares, logging | none | start, stop, CORS, body limit, access log | collector, scheduler | none |
| Scripts (`src/scripts`) | none | migrations, backfills, reconciliation | bookings, submissions | reconciliation in `Bookings` |

### What is hard, and what makes each component correct

**Orders.** Creation is a row and then a call per item; checkout is a payment row
and then a status write; cancellation voids payments one by one and then writes
the status; the total is stored and repaired. Each pair can be torn by a failure
and is meant to be mended by a retry with the same key. Correct means: nobody sees
an order without its items; an order is published with the items of the one body
its key stands for; a customer is charged once and exactly; what was paid for is
what is delivered; a fulfilled order was paid in full and a cancelled one gave the
money back; terminal orders stay as they are; retries reach an end.

**Bookings.** The capacity check counts rows and the write comes later, and four
kinds of requests (guest, staff, opening hours, service) disturb it. Correct means:
a booking has its place at the moment it is written; confirmed work does not
disappear; a stored submission gets its booking.

**Sites, builds and serving.** Three kinds of locks are taken in steps by requests
of different modules; a deployment takes minutes and rests on rows read before it;
an executor outside the repository runs builds; Cloudflare calls are sent again
after an outage and may then find their own work done. Correct means: a site goes
live only if what it is linked to is served and reached; nothing a deployment rests
on changes below it; a site that was stopped is reached by no name; a deleted site
is quiet and stays so; a domain has one site; no order of requests blocks the
others for ever.

**Site creation and files.** A row in PocketBase and an object or a bucket in S3
have no transaction, creation takes no lock, and browsers upload by themselves.
Correct means: a site whose creation was answered has its row and its bucket; a row
says "uploaded" only of an object that is there; an object without a row is one
that came too late; a bucket without a row, which refuses its site id for ever, is one
that an upload made, or a call whose answer was lost; a deleted site's files are frozen.

**Properties.** Slugs and children are looked up some calls before the row is
written, and no index stands behind them. Correct means: one slug, one property;
a category gets its child while that child is there.

**Accounts.** Requests decide by the caller as he was at authentication and by the
person as read before the write. Correct means: nobody becomes an owner through
the API, and nobody touches one, whatever changes meanwhile.

**Analytics.** One lock, one buffer, several tasks, and a cancelled task at
shutdown; then two aggregations of a day may overlap, and a cleanup deletes while
it pages. Correct means: events are written once, lost only with a failed call, and
never wait for ever; a day has one row per property; sums are of events that were
stored and shrink only for a reason; what a dashboard shows agrees with itself;
old events go.

**Insights.** The queue, the slots and the budget are checked before an await and
used after it. Correct means: limits hold, up to what one call can cost; a queued
batch gets its turn; the insight that was saved last is the one that is served.

The hazards are listed line by line in `PROJECT.json`, each with the properties
that would catch it; the two that no property covers say why.

## Modules and code

Every component has a module that knows nothing of TLC, one action per await of a
handler. MC modules give it small instances:

| MC module | Composes |
|---|---|
| `MCOrders`, `MCOrdersLive` | an instance of `OrdersRefinement`, `OrdersInvariant`; of `OrdersLive` |
| `MCBookings`, `MCBookingsLive`, `MCSweep` | an instance of `Bookings`; of `BookingsLive`; `MCBookings` and `SweepDays` |
| `MCSites`, `MCHosting` | an instance of `Sites` with its workloads; `MCSites` and `Domains` |
| `MCCollector`, `MCAnalytics` | an instance of `Collector`; `Collector`, `Dashboards` (with `Rollup`) and `Insights` |
| `MCResources` | `Files`, `Catalog` and `Accounts` |

A behaviour of `MCSweep`, `MCHosting`, `MCAnalytics`, `MCResources` and
`MCOrdersLive` is about one part, or one workload, which the variable `focus` names
and never changes. The product of the parts would show nothing more than each of
them: they share no state but the deletion of a site, which each has as its own
environment (`Retire` in `Files`, `Shut` in `Catalog`). What flows between them is in the
actions of the receiving part: an event that `Collector` has stored is what `Occur`
brings to `Rollup`; what `Sites` does between "serving" and "live" is what `Domains`
does in detail; a service that `Catalog` may change is what `Bookings` edits.

### Orders

| Module | Role |
|---|---|
| `Orders` | one order of one site with all its handlers |
| `OrdersLive` | the same with bounded failures and clients that repeat requests |
| `OrderContract` | what an order promises, every operation one step |
| `OrdersRefinement` | the mapping from `Orders` to `OrderContract` |
| `OrdersInvariant` | the inductive invariant |
| `OrdersProofs` | the theorems that are invariants |
| `OrdersStepProofs` | the theorems about steps, and the refinement |
| `MCOrders`, `MCOrdersLive` | instances |

`row`, `status`, `total`, `creation`, `items` and `payments` are the rows of the
order: `row` is whether it exists and whether `deleted_at` is set (a draft is
created with `deleted_at` set), `creation` is `metadata._creation`. `siteLock` and
`orderLock` are the locks of `order_policy.serialize_order` (`create_order` takes
only the first). `pc`, `req`, `todo`, `sum` and `kept` are a handler's position and
its locals. `Begin` is the read that a handler makes before it waits for locks,
`EnterSite` and `EnterOrder` take the locks (and look at the site again), a `Load...`
action is the check of one operation, and the actions after it are its writes in
the order of the code:

| Operation | Actions |
|---|---|
| `create_order` | `LoadCreate`, `InsertOrder`, `ListItems`, `InsertLine`*, `Publish` |
| `add_order_item` | `LoadAdd`, `InsertItem`, `SumItems`, `WriteTotal` |
| `delete_order_item`, `remove_order_item` | `LoadDrop`, `DeleteItem`, `SumItems`, `WriteTotal` |
| `update_order` | `LoadPatch`, `VoidFake`*, `PatchOrder` |
| `delete_order` | `LoadHide`, `HideOrder` |
| `add_payment` | `LoadPay`, `InsertReal` |
| `fake_payment` | `LoadFake`, `SumItems`, `WriteTotal`, `InsertFake`, `MarkPaid` |

One order is enough: orders of a site share the site lock and no row. One currency
is enough: every payment is made in the currency of its order. A request without
an idempotency key is one whose key nobody uses again.

`OrderContract` has an order's phase, lines and receipts and knows no drafts,
locks, stored totals or retries. Under the mapping a draft is an order that does
not exist yet, a receipt is a completed payment, and an order counts as paid when
its row says so.

### Bookings

`Sweep` is the sweep over start and end events in `_booking_slot`, next to the
definition it stands for: `Latest` and `Turn` are the loop over the sorted events,
`Peak` its result, and `SweepDays` the lists of bookings it may be given. `Bookings` has
the services, opening hours, bookings and stored submissions of one site under its site
lock. `Fits` is `_booking_slot`; `ChangeAllowed` the checks of `update_booking`,
`Patched` its merge. A public request is `LoadSubmit`, `InsertSubmission`, `Convert`,
`InsertConverted`, and `convert` requests are the rows of `scripts/reconcile_bookings`.
A converted booking has the name of its submission, since its id is a hash of it.
`BookingsLive` bounds failures and repeats the script. `BookingsProofs` has the
theorems.

### Sites and Domains

`Sites` has the `sites` and `builds` rows, what Cloudflare Pages serves (`pages`),
and the locks. `Path` is the order in which each route takes its first locks:
`SitePath`, the domain lock and then the site lock, for sites, `BuildPath`, the site
lock and then `build-lifecycle`, for builds; deletion adds `build-lifecycle` after its
first check.
`WriteRow` is the write through a site gateway, which looks at the site once more.
`LoadStatus`/`WriteStatus` are the manual patch of the serve status, `LoadServe` to
`MarkLive` are `serve_service.serve`, with `Upload` and `Bind` for the parts of
`site_deployer` that change what is served, `LoadStop` to `MarkStopped` are
`stop`. `Recheck`, `CheckBuilds` and `WriteDeleted` are `delete_site_record`.
`Reloaded` is the second read of `record_mutation.locked_record`.

The executor that runs builds is not in the repository. `Claim` and `Complete` are
what the code relies on it for: it starts queued builds while nobody holds
`build-lifecycle`, and nobody but it ends a build.

`Domains` is the inside of `Bind` and of `stop`: the CNAME of every name in every
zone (`cname`), what each name is bound to and whether Cloudflare has activated it
(`binding`), and one step per API call. `ResolveZone`, `ListRecord`, `Replace`,
`Create` are `deploy_site` and `setup_dns`, `BindName`, `Confirm` and `Poll` the
binding and its verification, `NextName`, `UnbindName`, `FindRecord`, `Erase` the
loop of `stop`. `Attempt` is one attempt of a call: it works, works and loses its
answer, or fails, and is sent again up to `MaxAttempts` times, so that a later
attempt may be refused because of an earlier one. `Relink` is the link that changes
while the site is up: what the old name leaves behind is in the states that the
properties are checked in. `spared` is a ghost: stop logs and goes on when the
removal of a record fails, and `StoppedLeavesNothing` says nothing of such a stop.

`SitesProofs` has the theorems of both.

### Files

`siteRow`, `bucket`, `file` and `object` are the rows and what the store has.
`CheckBucket`, `CheckReserved`, `Reserve`, `MakeBucket`, `Configure`, `DropBucket`
and `DropRow` are `create_site_record` and its rollback. `FindFile` and `LockSite`
are `_locked_file`; `Ensure`, `Exists`, `Make`, `Publish` and `NameBucket` are
`bucket_resolver`; `Upload`, `HeadObject`, `Mark`, `Rename`, `DropObject` and
`DropFile` the operations, media and documents alike. `Put` is a browser with a
signed URL, at any time. `answered`, `late`, `dropped` and `stray` are ghosts: the
sites whose creation was answered, the objects that came after the deletion of their
file had begun, the files whose deletion was asked for, and the buckets that somebody
made whom no creation answers for: an upload into a site that may be rolled back, or a
creation that was told its call had failed. `FilesProofs` has the theorems.

### Catalog

One row per property with its slug, kind, child and status. `Find` and `Enter` are
`locked_record`, `LoadRow` to `CheckChildren` the checks of `PropertyService`, each
a query, and `Write` the call after them. `subscribe` requests are
`subscribe_newsletter`. `Shut` deletes the site. `CatalogProofs` has the theorems.

### Accounts

`Authenticate` keeps the caller's record for the whole request, `FindPerson` and
`FindAgain` are the reads of the route and of `AccountGateway`, `WriteAccount` is the
write. `Rank` and `Outranks` are `rbac`, `Grants` is what a caller may give.
`CatalogProofs` has the theorems of both, `Catalog` and `Accounts`.

### Collector

`Collector` is `AnalyticsCollector`: recording requests, requests for a flush, the
flush task and the caller of `stop` are tasks that share one `asyncio.Lock`.
Between awaits nothing else runs, so a step is what happens from one await to the
next. `Reject` is a failed create call, which gives up the rest of its chunk.
`CancelPeriodic` is `stop` up to its own flush: the cancellation ends the flush
task wherever it awaits. `AnalyticsProofs` has the theorems of this module and of the
next three.

### Rollup

`event` are the stored events, `aggs` the daily rows, in order of creation. `Occur` is
an event of any day, since the client says when it happened: of a day that has been
aggregated, that has expired or that is still to come. `Night` is the scheduler's turn,
`Ask` the route that aggregates a range of days, `Fetch` one page of events and their
sums, `Lookup` and `Upsert` one row. `NewSweep`, `ListExpired`, `DeleteEvent` and
`TurnPage` are the retention cleanup, with the cutoff of the day it began on and the
page number it keeps while it deletes; a deletion works, fails, or works though its
answer is lost. `Stored` makes a second row when a create is sent again after a lost
answer (`again` marks such rows, `overlapped` the days that two aggregations worked on
at a time; both are ghosts).

### Dashboards

`Kpi`, `Trend`, `Breakdown` and `Top` are what `analytics_service` computes from the rows
of `Rollup`: sums over ranges of days (`SumViews`), buckets of a day or a week, and a list
sorted by views, where equal ones may come in any order. A dashboard keeps nothing, so
`OpenDashboard` opens one on any list of rows out of `RowLists`, the lists that
`Rollup` leaves or any other. Each part of a dashboard is a query of its own in the
code; parts that are read around a nightly upsert may differ by what it wrote, which
the model leaves out: the sums are compared on one list.

### Insights

A job is a request or a batch; its cache (`memo`) and what it has spent (`spent`) are
its own, because every request builds its own `LLMClient`, and a batch takes over the
one of its request. The tracker starts again when the month ends (`NewMonth`), and a
budget of 0 is none (`Affordable`). `Enqueue` and `StartBatch` are the queue and the
slots, `LoadProperty` to `SaveInsight` one property, `Shutdown` and `Cancel` the end of
the process. `shared` is a ghost: items that two jobs wrote at a time or that one create
made twice.

## Runs

Every constant is small because the hazards are about two or three actors and one
shared row; each row below says what makes its bounds enough. Requests are drawn
from a `Workload` in the MC module; a handler can serve any number of them, one
after the other, unless the row names a bound.

| Run | Question | Bounds |
|---|---|---|
| `orders` | do money, total, items and status agree, whoever pays, patches, cancels; does `Orders` implement `OrderContract`? | 2 handlers, a two-item order and one added item, 2 checkout keys, 2 payments, manual payments of 3: two payments are enough to charge twice, over- or underpay |
| `orders_live` | do retries repair checkout, cancellation and creation; is what gets visible the order that its key stands for? | 2 handlers, `MaxFailures = 2`: a failure in the first attempt and one in its retry. Two workloads, because repeated cancellations would hide a checkout that cannot be repaired |
| `bookings` | is a booking placed when it is written, does resolved work stay, and does the sweep find the busiest minute? | 2 handlers, 2 direct bookings and a submission that want the morning and the afternoon, a booking that moves onto another, capacity 1, hours that open, close and go. Sweep: every interval and list of up to 3 bookings on 5 points of time: touching, nested, equal and partly overlapping ones |
| `bookings_convert` | does a stored submission get its booking? | 2 handlers, a whole-day booking in the way, `MaxFailures = 2`, the script repeated |
| `sites` | does a deployment rest on what was chosen; is a live site served and reached, a stopped one not, a deleted one quiet; are builds undisturbed? | 2 handlers, 1 site, 1 domain linked at any time, 2 build ids used for up to `MaxBuilds = 2` builds: one to deploy, one that comes later. Names: 2 sites, 1 custom name that they may take from each other, 2 zones of which one contains the other, `MaxAttempts = 2` (one repetition shows what a lost answer does), `MaxPolls = 2` |
| `sites_locks` | does every request end, and has a domain one site? | 2 handlers, 2 sites, 1 domain, every lock path: two holders that wait for each other need no third |
| `resources` | do rows and objects agree; are slugs unique and children there; are owners out of reach? | Files: 2 handlers, 1 site, 2 files, `MaxFaults = 2` failed or lost calls: one in an operation, one in its rollback; the first file is handed out before the second, and nobody confirms the second, so that its object is always as declared (`FilesInTurn`). Catalog: 2 handlers, 2 properties that may want one slug and be parent and child. Accounts: 2 requests, 3 people: a caller, one who changes his role, a target |
| `files_collision` | are two sites kept out of one bucket? (they are not, see below) | 2 creations with one bucket name, no faults |
| `analytics` | is nothing lost or doubled without a cause; do sums and dashboards agree; do limits hold; is what was saved served? | Collector: 2 recorders, 3 events, buffer 3, chunk 2: a flush has a full chunk and a rest. Rollup: 2 requests, `EventCount = 2`, `AskCount = 2`, `LastDay = 2`, pages of 2, `AgainCount = 1` repeated create; events are about the first of two properties before the second, which are alike. Dashboard: every list of up to 3 rows. Insights: 2 jobs, 2 properties with one prompt, queue of 1, 1 slot, budget 2 (the theorems have no budget as well), calls that cost up to 2 |
| `analytics_live` | does a buffer that never fills get flushed, do old events go, do batches end? | as `analytics`, with pages of 1 and 2 events, so that the cleanup skips a page; 2 batches for 1 slot and no other job (`MCBatchWork`); without repeated creates (`AgainCount = 0`) |
| `collector_stop` | does `stop` flush what remains? (it does not, see below) | 3 events, buffer 2 |
| `nightly_rollup` | does the night aggregate live sites? (it does not, see below) | 1 site |

Symmetry is used in runs without liveness properties: over handlers, or over the pairs
of requests and jobs of the parts (`Mates`), which change places all together. The runs
of the collector, of the rollup and of the insights switch the deadlock check off,
because events, nights to ask for and jobs run out and a collector that was stopped
rests; everywhere else a state without a next step would be reported.

`PROJECT.json` holds, for every property of a passing run, a mutant of the code
that breaks it: a dropped guard, a lock not taken, a check made once too few. The
definitions marked "Mutant of" in the modules are these; nothing else uses them.

## Fairness

- *A running handler goes on* (`WF`/`SF` of `Step(h)`). Every PocketBase call has a
  timeout and a bounded number of attempts. Strong fairness where the step may be
  the taking of a lock: it is polled every 50 ms without a limit, and no holder
  keeps it, so a waiting handler does not miss it for ever. It is fairness towards
  repeated opportunities, not first come, first served; nothing in the code
  guarantees that order.
- *Clients repeat requests* (`SF` of `Request1(r)` for `r \in Retried`, of `Arrive(r)`
  for the reconciliation script). What retries achieve can only be said if there are
  retries; which requests are repeated is a constant of each run.
- *Failures end* (`MaxFailures`). Without it a request might fail for ever.
  `EveryRequestEnds`, `BufferDrains` and `BatchesEnd` do without.
- In `Sites`, a handler that waits for a lock does not end by itself, so that a
  deadlock would be seen; a handler that runs steps on or fails.
- In `Collector`, `asyncio` runs what can run, its lock is first come, first served,
  and the sleep of the flush task ends.
- In `Rollup`, nights come, and a query or a deletion that is tried in infinitely many
  nights succeeds in one of them (`SF` of `ListExpired`, and of a `DeleteEvent` that
  takes effect, answered or not): `OldEventsGo` is about the page number, which no
  number of nights would repair if it stayed wrong, not about a PocketBase that never
  answers.
- In `Insights`, a job's next call is made or fails, and a waiting batch gets a slot
  that is free again and again (`asyncio.Semaphore` is first come, first served).

## Proofs

The theorems are about `Orders` (with its refinement), `Bookings`, `Sites`, `Domains`,
`Files`, `Catalog`, `Accounts`, `Collector`, `Rollup` and `Insights`, for every number
of handlers, every set of items, prices, bookings, sites, names, files, people, events
and jobs, and every value of the bounds; and about `SweepDays` and `Dashboards`, for every
list that a sweep or a dashboard may find. Every safety invariant and every action
property that a passing run checks is a theorem. They rest on the assumptions that the
modules name:

| Module | Assumed of the constants | Evaluated by |
|---|---|---|
| `Orders` | prices are natural numbers and manual payments positive; `ItemId` is finite; every body has an item; `None` is none of the values it stands beside, amounts included | `MCOrders` |
| `Bookings` | intervals begin before they end; capacities are natural numbers; every day has a weekday; the ids of bookings and of submissions differ; `None` is no id, row or request | `MCBookings`, `MCSweep` |
| `SweepDays` | intervals begin before they end; lists have a bound (the theorem does not use it) | `MCSweep` |
| `Sites` | the requests are requests; `None` is none of the values it stands beside | `MCHosting` |
| `Domains` | derived names differ and are not custom; they are in the global zone or in none; a name is in finitely many zones; there is an attempt and a poll; `Off` and "other" stand for nothing else | `MCHosting` |
| `Files` | the requests are requests; `None` is no row, record, bucket or handler | `MCResources` |
| `Catalog` | a request that adds names its site; `Nil` and "same" are no slugs | `MCResources` |
| `Accounts` | requests are requests; `Nobody` is no record | `MCResources` |
| `Collector` | buffer and chunks have a size; the flush task and the caller of `stop` are not recorders | `MCCollector`, `MCAnalytics` |
| `Rollup` | pages, weeks and the calendar are not empty; the scheduler is no manual request | `MCAnalytics` |
| `Dashboards` | the lists of rows are lists of rows | `MCAnalytics` |
| `Insights` | each property has at least one type of insight, a request has a property; queue, slots and costs are positive; `NoItem` is no insight | `MCAnalytics` |

| Theorem | Says |
|---|---|
| `TypeCorrect` | `[]TypeOK` |
| `Invariance` | `[]Inv` |
| `NeverEmpty` | a visible order has items |
| `ChargesExactly` | a live simulated payment is of the order's price |
| `ChargesOnce` | there is one at most, and a key stands for one payment |
| `SettlesExactly` | a paid order's total is that of its items; a fulfilled one was paid exactly |
| `KeepsNoMoney` | a cancelled order keeps no completed payment, a hidden one nothing unresolved |
| `MovesAlongTransitions`, `StaysTerminal` | the status table, and the end of it |
| `PinsOrder` | while a payment is unresolved, items do not change and checkout charges nothing |
| `PublishesTheRequest` | an order is published with the items of its body |
| `RemembersCreation` | deleted orders stay deleted; the creation record is kept |
| `FreezesDeletedSite` | no row of a deleted site changes |
| `Implements` | `Orders` implements `OrderContract` |
| `BookingsInvariance` | `[]BookingsInv` |
| `StoredConverts` | the submission that its request stored can be converted, at the call that does it |
| `DeletedResolved` | a deleted booking was pending or cancelled |
| `WrittenArePlaced` | a booking that becomes live, moves or is confirmed has its place then |
| `SweepFindsBusiest` | the sweep computes the number of bookings at the busiest minute, for every interval and list |
| `SitesInvariance` | `[]SitesInv` |
| `DomainsStayExclusive` | a custom domain is linked to one site at most |
| `DeletedStaysQuiet` | a deleted site has no build that waits or runs and is not being served |
| `DeploymentStaysStable` | nothing takes away what a deployment under way rests on |
| `LiveMeansServed` | a site goes live only when its domain is bound and a build of it is on Pages |
| `RunningStaysUndisturbed` | no request touches a build while it runs |
| `DomainsInvariance` | `[]DomainsInv` |
| `LiveReached` | when a deployment ends as live, its name has the CNAME and the active binding of its project |
| `RightRecordKept` | only `stop`, or the deployment of another project under that name, replaces the CNAME of a project |
| `StopLeavesNothing` | after a `stop` without a spared record no name of the site is bound or points to its project |
| `FilesInvariance` | `[]FilesInv` |
| `ProvisionedKeep` | a site whose creation was answered has its row, and its bucket unless another id has the same bucket name |
| `StraysInvariance` | `[]StraysInv` |
| `OrphansExplained` | an object without a row came after the deletion of its file had begun; a bucket without a row was made by an upload, or by a call that its creation took for failed |
| `UploadedStored` | a row says "uploaded" only of an object that is there, until its deletion is asked for |
| `RetiredFrozen` | no file row of a deleted site changes |
| `CatalogInvariance` | `[]CatalogInv` |
| `SlugsStayUnique` | no two properties of a site have one slug |
| `ChildrenAreThere` | a category is written with a child only while that child is there |
| `AccountsInvariance` | `[]AccountsInv` |
| `OwnersStay` | no request makes, changes or removes an owner |
| `CollectorInvariance` | `[]CollectorInv` |
| `KeptWhileRunning` | until `stop` is called, events are lost with failed calls only |
| `RollupInvariance` | `[]RollupInv` |
| `DuplicatesExplained` | a day has a second row for a property only if two aggregations of it overlapped or a create was sent again |
| `RowsCountEvents` | a row counts events that were stored, at most |
| `ShrinksExplained` | a row gets smaller only when its day has expired, needs more than a page, or was aggregated twice at a time |
| `DashboardRight` | for every list of rows: a trend adds up to its number, two periods to both together, the top properties are the best of the catalog |
| `DashboardOfRollup` | the same of the rows in every state of `Rollup` |
| `InsightsInvariance` | `[]InsightsInv` |
| `LimitsKept` | the queue stays within its limit, and a budget is exceeded by less than one call |
| `SavedServed` | an item that no two jobs wrote at a time has one row, the insight that was saved last |

**The argument for orders.** None of the safety invariants is inductive alone. That a
checkout charges what the order holds, say, depends on nobody editing items between
the sum and the payment, hence on the locks, hence on which handler is where. `Inv`
(`OrdersInvariant`) therefore adds to `TypeOK` and `Safety`:

- `RequestInv`: a handler is only at awaits of its own kind of request;
- `LockInv`: exactly the handlers past the waits hold the locks (this replaces any
  talk of mutual exclusion: two handlers cannot both be the value of `siteLock`);
- `DraftInv`: what a draft, and what an order that does not exist yet, may hold;
- `HandlersInv`: what the handler has checked under the locks and still relies on at
  its next write, as in "at `insertFake`, `sum` is the total of the items".

`OrdersProofs` first shows types (`StepType`), then locks (`StepControl`), then the
state (`StepState`): a step of one handler leaves the others' `HandlerInv` alone
since they are not past the site lock (`OthersWait`, `SameHandler`), and for the
handler that moves there is one lemma per write and one for all reads. `StepInv`
puts them together. `OrdersStepProofs` gets the action properties from `Inv`: one
lemma tells what any step does to the rows, then one lemma per property.

**The refinement.** `Implements` maps every step of `Orders` to a step of
`OrderContract` or to one that its users cannot see. `ViewNext` says what is to be shown
in terms of rows, `PhaseOf` what the mapping makes of a row, and there is one lemma for
each step that can be seen: `PublishOpens`, `EditIsEdit`, `PaymentIsReceived`,
`VoidGivesBack`, `MarkPaidSettles`, `PatchIsSeen`, `HideDeletes`. Everything else is a
stutter, the building of a draft included (`BuildingIsUnseen`). The abstract guards are
the point: that an edit finds nothing unresolved, that a payment settles the price of
the lines now in the order (`SameSum`, `PriceIsTotal`), that a cancelled order has
given everything back, are facts that the code checked some calls earlier, and `Inv` is
what carries them to the write.

**The argument for bookings.** There is one lock, and a handler past its checks has it:
`LockInv`. Hence every other step is that of a handler that writes nothing, and
`CheckInv` can say that what a request has checked is so until its write; for a public
request until the second one, so that storing the submission does not take its slot.
`FitsPlaces` is the step from a check to a place: `Fits` counts the others with `Sweep`,
and a booking beside which each minute has room has its place (`FiniteRows`, since rows
are counted, and `PeakIsExact`).

**The argument for the sweep.** The loop takes the events in their order, so what it has
taken is always a set of first events (`First`). `Counted` says what it knows then:
`now` counts the bookings that have begun and not ended (`Open`); `high` is at least
the count of every minute whose events it has all taken, and at most the count of some
minute. The events up to a minute are a set of first events, and the bookings open after
them are those that occupy it (`OpenUpTo`), because an end comes before a start of the
same minute. One more event (`TurnCounted`) opens or closes one booking (`LastTurn`);
if it raises `high`, it is a start, and the bookings open then all occupy the minute of
that start. After the last event every minute has been counted.

**Folds.** Both the sweep and the sums are folds over finite sets. The provers cannot
instantiate an induction theorem that takes an operator, so `FoldProofs` argues with sets:
the good subsets of a finite set are all of them, because a smallest bad one would
have only good ones below it (`SubsetInduction`, from the well-foundedness of strict
inclusion). `FoldExists` says that the function a fold is defined by exists; without it
nothing could be said of a fold's value. `SumExists` says that a sum does not depend on the
order in which elements are taken; `LoopSums` that `MapThenSumSet` is that sum;
`SumOfUnion` and `SumOfParts` that sums of disjoint parts add up.

**The argument for sites.** All five properties say that something read before a call
still holds after it, and locks of three kinds, taken in different orders, are why.
`SitesInv` says so of each request: `LockInv`, past the waits it holds the locks of its
path; `ServeInv`, the site, the domain and the build that a deployment has chosen are
still as they were, and what it has brought to Pages is there; `ChangeInv`, the domain is
still free, and no build of a site that is being deleted waits or runs; `BuildInv`, the
build that is edited or dropped is still the one that was read, and does not run. Three
lemmas say what a write of a site, of a build and of a page leaves alone (`Locked`: a row
is written under its locks, and a build never changes its id or its site), `OthersKeep`
that every other request can still rely on what it has read, and one lemma per kind of
request that it can rely on what it has read itself. The steps of the executor hold no
lock: `ExecutorStepInv` shows why nobody who holds "build-lifecycle" minds.

**The argument for names.** `Domains` has no locks; what it has instead is that links are
exclusive (`LinkInv`), so that no two handlers are ever about one name. `SetUpInv`, a
record or binding that a deployment has found or made is there as long as it goes on,
is inductive for that reason. A stop relies on an invariant about the past: the CNAMEs
of projects are only in the one zone where it looks (`RecordInv`, with `LongestZone` for
the choice between zones that contain each other), though the handlers that made them
are gone. `StopInv` goes through the loop: a name of the site is still waiting to be taken
back, or it is clear. It is conditioned on `trouble`, what the code notes when a call
fails for good, and on `spared`.

**The argument for files.** Site creation holds no lock; `Creations` says that the
reservation of a row is one nevertheless: a handler between its reservation and its
answer is the only one for that site, and the row is there. So a rollback drops what its
own creation made. Everything else is under the lock of a site (`SiteLocks`), and nobody
deletes a site below a handler that has checked it (`StillThere`). `FileLife` and
`ObjectSeen` follow the object through the calls: a row is marked when its object was
seen, and dropped when the object is gone, unless a browser put it there again
afterwards, which `late` has noted. `StraysInv` says which row a bucket has: one that no
handler is about to give back without it (`StandsFor`). A creation gives its row back
after its bucket was deleted or when it was told that none was made, and what is left
then is a stray. `ProvisionedKeepsBucket` promises the bucket only to
a site that is `Alone` with its bucket name: for all the others the induction fails, at
the step that [`files_collision`](#findings) is about.

**The argument for properties.** A slug and a child are looked up some calls before the
row is written. `CatalogInv` adds to the types `GateInv`, a request past the wait holds
the lock of the site that its property is in, and `CheckInv`, what it has read and
checked is still so. Only the holder of a site's lock writes rows of that site, and no
row ever changes its site, so a step of another request leaves both alone; the write
itself then keeps `SlugsAreUnique`, and its child is there.

**The argument for accounts.** `OwnersAreFixed` is a property of single writes, but a
write relies on checks that are two reads old. `AccountsInv` says what has become of
them: `GrantsInv`, a request that was let in gives no owner's role, whatever its
caller is by now; `ReachInv`, a person that a request has read as manageable is not
an owner now. The second is inductive only with the first, since it is other requests
that could make the person an owner in between.

**The arguments for analytics.** *Collector:* events that were taken out of the buffer are
in the batch of a task that is writing, an event that a recorder brings is not added yet,
and until `stop` is called the one who cancels is idle; so every step that forgets an event
is a failed call. *Rollup:* `EventControl` says that only what has expired is gone,
`DayControl` that two tasks working on one day have been noted. With these, what a task
has summed and found is so when it writes: sums count stored events and are no lower than
the row they replace (`QueueFor`), the row it found is the one, and if it found none there
is none (`TargetFor`). *Insights:* `JobControl` says that the slots taken are the batches
that run, and that the queue is counted as it is; `RowControl` is to an item what
`TargetFor` is to a row: at "save", what the job has found is still there, and if it found
nothing nobody has written it, unless `shared` says that another job did. *Dashboards:*
every row of a range lies in one bucket (`TrendAddsUp`), and none in two periods
(`PeriodsAddUp`), so the sums are sums of disjoint parts. That there is a sorted list of a
finite set of properties at all is an induction too (`SortedExists`); any list without
repetitions as long as the set has all of it (`Lists`), so what is left out comes
later in the order (`RowsAreBest`).

**Only model-checked** are the liveness properties (`CheckoutRecovers`, `CancelRecovers`,
`CreateRecovers`, `SubmissionIsConverted`, `EveryRequestEnds`, `BufferDrains`,
`OldEventsGo`, `BatchesEnd`): fairness and ENABLED are out of the prover's reach.

## Findings

**`collector_stop`.** The docstring of `AnalyticsCollector.stop` says "Stop the flush
task and flush remaining events." (`infrastructure/analytics/collector.py:42`). `stop`
cancels the flush task at whatever it awaits. If that is a create call, the task
has already copied and cleared the buffer, `CancelledError` passes the `except
Exception` that would count the chunk as rejected, and `stop`'s own flush finds an
empty buffer: the rest of the batch was never tried and is gone. `LostOnlyByFailure`
shows that this is the only way: until `stop` is called, events are lost with failed
calls only.

**`files_collision`.** A comment in `create_site_record` says that its checks "prevent
normalized-name collisions" (`application/services/site_lifecycle_service.py:26`).
They are made before the row is written and under no lock, and `create_bucket` takes a
bucket that is already ours for a success: two creations whose site ids are normalized
to one name are both answered with 201 and share the bucket. When one of them then
fails at a later call, its rollback drops the bucket that the other was promised, which
is why `ProvisionedKeepsBucket` speaks of the bucket of a site only if it is alone with
the name.

**`nightly_rollup`.** The scheduler "runs daily aggregation for all active sites"
(`infrastructure/analytics/scheduler.py:15`) and selects sites with the status
`active`. No writer gives a site that status; a live site is `live`. The nightly
aggregation visits none of them, unless someone writes the status into PocketBase by
hand. The cleanup of the same night does its work: it asks for old events of any site.

Two weaker statements are what holds where a stronger one may be expected. A daily
row is unique unless two aggregations overlapped or a create was sent again
(`DuplicatesNeedOverlap`): nothing in the repository says that `agg_id` has a unique
index. A budget is exceeded by less than one call, and it is the budget of one
request (`OverspendIsOneCall`), because the tracker is made with the client
(`interface/routes/insights.py:35`).

## What is not modelled

- **Identity of ids.** The models take new ids of orders, items, payments and bookings as
  refused by an index when they are taken (`scripts/migrate_transactional.py`), and
  `site_id` and `property_id` likewise (the comments of the code rely on it). For
  `agg_id` and `insight_id` nothing says so, and second rows are modelled.
- **Writes that land after their handler has freed its locks.** The models let a write
  land and its handler fail, in this order. A later arrival could overwrite any row:
  updates carry no version, and there is nothing in the code to check against it.
- **Tenant and role checks of the other gateways.** Handlers of a model are allowed what
  they ask for, which is the larger set of behaviours. Expected refusals only end them.
- **A global zone that is not configured** (`cloudflare_zone_id` is empty): DNS is then
  skipped for a derived name that resolves to no zone. `Domains` assumes a zone.
- **Old names of a relinked live site.** `Relink` leaves them bound, as the code does; no
  property says that they go, because nothing in the code does.
- **Field validation** is a function without state, one check per field type: a model
  would repeat its conditions. **Content routes** make one call about one row.
  **Request plumbing** has no state but the tasks that `Collector` and `Rollup` start with.
- **Prompts, answers and scores of insights, payload checks of public requests, login,
  passwords and the own profile**: data of one row, or of none.
- **Scripts** other than the reconciliation: migrations and inventories that an operator
  runs once.
