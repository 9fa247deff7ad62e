------------------------------- MODULE Rollup -------------------------------
(***************************************************************************)
(* The analytics of a site after its events are stored: the daily          *)
(* aggregation (AnalyticsAggregator), which the scheduler runs every night *)
(* for yesterday and people run for the days they name, and the retention  *)
(* cleanup of the scheduler.                                               *)
(*                                                                         *)
(* Every call to PocketBase is a step.  A failed upsert is logged, and the *)
(* next one goes on; a failed read ends the aggregation of the day.  The   *)
(* client sends a call again when its answer is lost, and no index of      *)
(* agg_id is known, so that one create may make two rows.  No lock keeps   *)
(* two aggregations of one day apart.  Queries without a sort return a     *)
(* page in any order.                                                      *)
(*                                                                         *)
(* Abstractions: one site; one metric, the number of views, stands for all *)
(* that are summed; a week is WeekLength days; of the attempts at the      *)
(* create of a row at most two make one (an event that is stored twice is  *)
(* two events); the client says any day of an event, but says one.         *)
(***************************************************************************)
EXTENDS Integers, Sequences, FiniteSets, FiniteSetsExt, SequencesExt

CONSTANTS
  Scheduler,     \* the nightly task
  Manual,        \* requests that aggregate a range of days
  Product,       \* properties that events may be about
  EventCount,    \* bound on the events recorded
  AskCount,      \* bound on the aggregations that people ask for
  AgainCount,    \* bound on the rows made by a create that was sent again
  LastDay,       \* bound on the days that pass; nights go on
  Retention,     \* retention_days, where it is set
  PageSize,      \* records per page of a query
  WeekLength,    \* days of a week
  Nil            \* no event, no property

Roller == {Scheduler} \cup Manual
Day == 1 .. LastDay
SiteStatus == {"draft", "building", "live", "error"}
EventId == 1 .. EventCount

ASSUME RollupAssumption ==
  /\ EventCount \in Nat /\ AskCount \in Nat /\ AgainCount \in Nat /\ LastDay \in Nat \ {0} /\ Retention \in Nat
  /\ PageSize \in Nat \ {0} /\ WeekLength \in Nat \ {0}
  /\ Scheduler \notin Manual /\ Nil \notin Product

VARIABLES
  today,        \* the day it is
  event,        \* the events: day, property, and whether they are kept
  status,       \* the status of the site
  aggs,         \* the aggregate rows, in the order they were created
  asks,         \* the aggregations that were asked for
  phase,        \* where each aggregation is
  span,         \* the day it works on and the last one
  queue,        \* the rows it has computed and not yet written
  target,       \* the row it updates, 0 to create one
  clean,        \* the page, the cutoff, the rows left on it, its size, and the deletions
  overlapped    \* ghost: the days that two aggregations worked on at a time

rollupVars == <<today, event, status, aggs, asks, phase, span, queue, target, clean, overlapped>>

\* again is a ghost: the row was made by a call whose answer was lost.
Aggregate == [day : Day, product : Product \cup {Nil}, views : Nat, again : BOOLEAN]

\* Mutant of Cutoff: one day too many.
CutoffEarly(day) == day - Retention + 1

\* The first day that a cleanup of a day keeps.
Cutoff(day) == day - Retention

NoClean == [page |-> 0, cutoff |-> Cutoff(0), items |-> {}, size |-> 0, deleted |-> 0, total |-> 0]

RollupTypeOK ==
  /\ today \in Day /\ status \in SiteStatus
  /\ event \in Seq([day : Day, product : Product \cup {Nil}, kept : BOOLEAN])
  /\ aggs \in Seq(Aggregate)
  /\ phase \in [Roller -> {"idle", "fetch", "lookup", "store", "list", "delete"}]
  /\ target \in [Roller -> Nat]
  /\ overlapped \subseteq Day

\* Nothing runs; the events that are known, and the days of earlier aggregations.
RollupStart(events, days) ==
  /\ today = 1 /\ event = events /\ overlapped = days /\ status \in SiteStatus /\ aggs = <<>> /\ asks = 0
  /\ phase = [r \in Roller |-> "idle"]
  /\ span = [r \in Roller |-> [day |-> 1, last |-> 0]]
  /\ queue = [r \in Roller |-> <<>>]
  /\ target = [r \in Roller |-> 0]
  /\ clean = NoClean

RollupInit == RollupStart(<<>>, {})

-----------------------------------------------------------------------------
\* The events that are there, of a day.
Kept == {e \in DOMAIN event : event[e].kept}
OfDay(d) == {e \in Kept : event[e].day = d}

\* The results of a query for page p of a set, in no order.
PageSets(S, p) == kSubset(Max({0, Min({PageSize, Cardinality(S) - (p - 1) * PageSize})}), S)

\* An event is stored, of the day that the client says it is: one that has been
\* aggregated, that the retention is over for, or that is still to come.
Occur(p, d) ==
  /\ Len(event) < EventCount
  /\ event' = Append(event, [day |-> d, product |-> p, kept |-> TRUE])
  /\ UNCHANGED <<today, status, aggs, asks, phase, span, queue, target, clean, overlapped>>

Midnight ==
  /\ today < LastDay
  /\ today' = today + 1
  /\ UNCHANGED <<event, status, aggs, asks, phase, span, queue, target, clean, overlapped>>

\* Days that are being aggregated by somebody else.
Busy(r) == {span[q].day : q \in {q \in Roller \ {r} : phase[q] \in {"fetch", "lookup", "store"}}}

Begin(r, first, last) ==
  /\ phase' = [phase EXCEPT ![r] = "fetch"]
  /\ span' = [span EXCEPT ![r] = [day |-> first, last |-> last]]
  /\ overlapped' = overlapped \cup ({first} \cap Busy(r))
  /\ UNCHANGED <<today, event, status, aggs, queue, target, clean>>

\* POST /analytics/aggregate: the days of a range one after the other.
Ask(r, first, last) ==
  /\ r \in Manual /\ phase[r] = "idle" /\ first <= last /\ asks < AskCount
  /\ asks' = asks + 1
  /\ Begin(r, first, last)

\* Mutant of FirstPage: pages are counted from the second.
FirstPageSecond == 2

FirstPage == 1
\* A cleanup keeps the cutoff of the day it begins on.
NewSweep == [NoClean EXCEPT !.page = FirstPage, !.cutoff = Cutoff(today)]

\* _list_active_site_ids finds the site.
IsActive == status = "active"

\* The night of the scheduler: yesterday of each site whose status is "active",
\* then the cleanup.
Night ==
  /\ phase[Scheduler] = "idle" /\ today > 1
  /\ IF IsActive THEN Begin(Scheduler, today - 1, today - 1)
     ELSE /\ phase' = [phase EXCEPT ![Scheduler] = "list"]
          /\ clean' = NewSweep
          /\ UNCHANGED <<today, event, status, aggs, span, queue, target, overlapped>>
  /\ UNCHANGED asks

\* The day is done: the next day of the range, the cleanup, or the end.
NextDay(r) ==
  LET s == span[r]
      more == s.day < s.last IN
  /\ span' = [span EXCEPT ![r] = IF more THEN [s EXCEPT !.day = @ + 1] ELSE [day |-> 1, last |-> 0]]
  /\ phase' = [phase EXCEPT ![r] = IF more THEN "fetch" ELSE IF r = Scheduler THEN "list" ELSE "idle"]
  /\ clean' = IF ~more /\ r = Scheduler THEN NewSweep ELSE clean
  /\ overlapped' = IF more THEN overlapped \cup ({s.day + 1} \cap Busy(r)) ELSE overlapped

\* Mutant of Views: the events of one property are not told from the others.
ViewsOfAll(events, p) == Cardinality(events)

\* _compute_aggregates for the site (Nil) or one property.
Views(events, p) == Cardinality({e \in events : p = Nil \/ event[e].product = p})

\* The row of the site, then one for each property that was seen.
Computed(events) ==
  LET products == {event[e].product : e \in events} \ {Nil} IN
  [i \in 1 .. 1 + Cardinality(products) |->
     LET p == IF i = 1 THEN Nil ELSE SetToSeq(products)[i - 1] IN
     [product |-> p, views |-> Views(events, p)]]

\* aggregate_daily: one page of the events of the day.  Without any, or if the
\* query fails, the rows of the day stay as they are.
Fetch(r) ==
  /\ phase[r] = "fetch"
  /\ \/ \E events \in PageSets(OfDay(span[r].day), 1) :
          /\ events # {}
          /\ queue' = [queue EXCEPT ![r] = Computed(events)]
          /\ phase' = [phase EXCEPT ![r] = "lookup"]
          /\ UNCHANGED <<span, clean, overlapped>>
     \/ NextDay(r) /\ UNCHANGED queue
  /\ UNCHANGED <<today, event, status, aggs, asks, target>>

Key(r) == <<span[r].day, Head(queue[r]).product>>
RowsOf(key) == {i \in DOMAIN aggs : <<aggs[i].day, aggs[i].product>> = key}

\* Mutant of Existing: nothing is looked for.
ExistingNone(key) == {0}

\* The first row that has the id, or none.
Existing(key) == IF RowsOf(key) = {} THEN {0} ELSE RowsOf(key)

\* The next row to write, when one is written or has failed.
NextRow(r) ==
  /\ queue' = [queue EXCEPT ![r] = Tail(@)]
  /\ target' = [target EXCEPT ![r] = 0]
  /\ IF Len(queue[r]) > 1
       THEN phase' = [phase EXCEPT ![r] = "lookup"] /\ UNCHANGED <<span, clean, overlapped>>
       ELSE NextDay(r)

\* _upsert looks the row up ...
Lookup(r) ==
  /\ phase[r] = "lookup"
  /\ \/ /\ \E i \in Existing(Key(r)) : target' = [target EXCEPT ![r] = i]
        /\ phase' = [phase EXCEPT ![r] = "store"]
        /\ UNCHANGED <<span, queue, clean, overlapped>>
     \/ NextRow(r)
  /\ UNCHANGED <<today, event, status, aggs, asks>>

Again(rows) == {i \in DOMAIN rows : rows[i].again}

\* The rows after a write: as before, with the new one, or with it twice.
Stored(rows, at, new) ==
  {rows} \cup
  IF at # 0 THEN {[rows EXCEPT ![at] = [new EXCEPT !.again = rows[at].again]]}
  ELSE {Append(rows, new)} \cup
       {rows \o <<new, [new EXCEPT !.again = TRUE]>> : x \in 1 .. AgainCount - Cardinality(Again(rows))}

\* ... and updates or creates it.
Upsert(r) ==
  LET new == [day |-> span[r].day, product |-> Head(queue[r]).product,
              views |-> Head(queue[r]).views, again |-> FALSE] IN
  /\ phase[r] = "store"
  /\ aggs' \in Stored(aggs, target[r], new)
  /\ NextRow(r)
  /\ UNCHANGED <<today, event, status, asks>>

-----------------------------------------------------------------------------
(* The retention cleanup.                                                  *)

\* created_at < cutoff
ExpiredEvents == {e \in Kept : event[e].day < clean.cutoff}

EndNight ==
  /\ phase' = [phase EXCEPT ![Scheduler] = "idle"]
  /\ clean' = NoClean

\* A page of what is left.
ListExpired ==
  /\ phase[Scheduler] = "list"
  /\ \E items \in PageSets(ExpiredEvents, clean.page) :
       clean' = [clean EXCEPT !.items = items, !.size = Cardinality(items),
                              !.total = Cardinality(ExpiredEvents)]
  /\ phase' = [phase EXCEPT ![Scheduler] = "delete"]
  /\ UNCHANGED <<today, event, status, aggs, asks, span, queue, target, overlapped>>

\* A failed query ends the cleanup.
SweepFails ==
  /\ phase[Scheduler] = "list"
  /\ EndNight
  /\ UNCHANGED <<today, event, status, aggs, asks, span, queue, target, overlapped>>

\* The event that a deletion leaves.
Gone(e) == [e EXCEPT !.kept = FALSE]

\* One event of the page is deleted, or not, or is gone though the call failed;
\* what the call has told is counted.
DeleteEvent(gone, told) ==
  /\ phase[Scheduler] = "delete" /\ clean.items # {}
  /\ told => gone
  /\ LET e == Min(clean.items) IN
     /\ clean' = [clean EXCEPT !.items = @ \ {e}, !.deleted = @ + (IF told THEN 1 ELSE 0)]
     /\ event' = IF gone THEN [event EXCEPT ![e] = Gone(@)] ELSE event
  /\ UNCHANGED <<today, status, aggs, asks, phase, span, queue, target, overlapped>>

\* Whether another page is asked for; what was on it may have moved up.
MorePages(c) == c.size >= PageSize /\ c.deleted < c.total

TurnPage ==
  /\ phase[Scheduler] = "delete" /\ clean.items = {}
  /\ IF MorePages(clean)
       THEN /\ clean' = [clean EXCEPT !.page = @ + 1]
            /\ phase' = [phase EXCEPT ![Scheduler] = "list"]
       ELSE EndNight
  /\ UNCHANGED <<today, event, status, aggs, asks, span, queue, target, overlapped>>

Roll(r) == Fetch(r) \/ Lookup(r) \/ Upsert(r)
Clean == ListExpired \/ TurnPage \/ (\E gone, told \in BOOLEAN : DeleteEvent(gone, told))

RollupNext ==
  \/ \E p \in Product \cup {Nil}, d \in Day : Occur(p, d)
  \/ Midnight \/ Night
  \/ \E r \in Manual, first, last \in Day : Ask(r, first, last)
  \/ \E r \in Roller : Roll(r)
  \/ Clean \/ SweepFails

RollupSpec == RollupInit /\ [][RollupNext]_rollupVars

-----------------------------------------------------------------------------
\* "Upsert an aggregate record": one day has one row per property, unless two
\* aggregations of the day overlapped or the answer to a create was lost.  Sums
\* would count a second row too.
DuplicatesNeedOverlap ==
  \A i, j \in DOMAIN aggs :
    i # j /\ <<aggs[i].day, aggs[i].product>> = <<aggs[j].day, aggs[j].product>>
      => aggs[i].day \in overlapped \/ aggs[i].again \/ aggs[j].again

\* No row counts more than the events that were stored for its day and its
\* property, each of them once.
RowsCountStoredEvents ==
  \A i \in DOMAIN aggs :
    aggs[i].views <=
      Cardinality({e \in DOMAIN event : /\ event[e].day = aggs[i].day
                                        /\ aggs[i].product \in {Nil, event[e].product}})

\* An aggregate that was written is not replaced by a lower one, unless the
\* retention has begun to eat its day, the day has more events than a page, or
\* two aggregations overlapped.
ShrinksOnlyByCleanup ==
  [][\A i \in DOMAIN aggs :
       aggs'[i].views < aggs[i].views =>
         \/ aggs[i].day < today - Retention
         \/ Cardinality({e \in DOMAIN event : event[e].day = aggs[i].day}) > PageSize
         \/ aggs[i].day \in overlapped]_rollupVars

\* Every event that has outlived the retention is deleted in some night,
\* although the cleanup asks for the next page of what it has not deleted.
OldEventsGo ==
  \A e \in EventId :
    (e \in Kept /\ event[e].day < today - Retention) ~> (e \in DOMAIN event /\ ~event[e].kept)

\* "Background scheduler that runs daily aggregation for all active sites": a
\* night begins with the aggregation of a site that is live.
NightVisitsLiveSites ==
  [][Night /\ status = "live" => phase'[Scheduler] = "fetch"]_rollupVars
=============================================================================
