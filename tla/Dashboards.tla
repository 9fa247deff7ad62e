----------------------------- MODULE Dashboards -----------------------------
(***************************************************************************)
(* The sums that AnalyticsService shows of the rows of a site: the numbers *)
(* of a period and of the one before, their trend, and the properties with *)
(* the most views.  A dashboard keeps nothing: it may be opened on any     *)
(* list of rows.                                                           *)
(*                                                                         *)
(* Abstraction: every part of a dashboard is a query of its own; here they *)
(* all see the rows as they were when it was opened.                       *)
(***************************************************************************)
EXTENDS Rollup

CONSTANT RowLists   \* lists of rows that a dashboard may find

ASSUME RowsAssumption == RowLists \subseteq Seq(Aggregate)

VARIABLE opened     \* whether somebody looks at the rows

-----------------------------------------------------------------------------
(* What is shown.                                                          *)

InRange(p, start, end) ==
  {i \in DOMAIN aggs : aggs[i].product = p /\ aggs[i].day \in start .. end}

SumViews(rows) == MapThenSumSet(LAMBDA i : aggs[i].views, rows)

\* get_kpis of a site or a property.
Kpi(p, start, end) == SumViews(InRange(p, start, end))

\* The day that stands for a day in a trend.
BucketDay(d, weekly) == IF weekly THEN d - (d % WeekLength) ELSE d

\* Mutant of Bucket: a bucket keeps the last row only.
BucketLast(p, start, end, weekly, b) ==
  LET rows == {i \in InRange(p, start, end) : BucketDay(aggs[i].day, weekly) = b} IN
  IF rows = {} THEN {} ELSE {Max(rows)}

Bucket(p, start, end, weekly, b) ==
  {i \in InRange(p, start, end) : BucketDay(aggs[i].day, weekly) = b}

\* get_trend: the buckets that have a row, each with its value.
Trend(p, start, end, weekly) ==
  LET days == {BucketDay(aggs[i].day, weekly) : i \in InRange(p, start, end)} IN
  [b \in days |-> SumViews(Bucket(p, start, end, weekly, b))]

\* _previous_period_range
PreviousRange(start, end) == [start |-> start - 1 - (end - start), end |-> start - 1]

\* What a dashboard, a trend or the page of a property shows.
Dashboard(p, start, end, weekly) ==
  LET prev == PreviousRange(start, end) IN
  [kpi |-> Kpi(p, start, end),
   before |-> Kpi(p, prev.start, prev.end),
   trend |-> Trend(p, start, end, weekly)]

\* The properties that have a row in a range.
Seen(start, end) == {aggs[i].product : i \in {i \in DOMAIN aggs : aggs[i].day \in start .. end}} \ {Nil}

\* _breakdown_by_property
Breakdown(start, end) ==
  [p \in Seen(start, end) |->
     SumViews({i \in DOMAIN aggs : aggs[i].day \in start .. end /\ aggs[i].product = p})]

\* Sorted by their views, in any order where these are the same.
Ranked(products, start, end) ==
  LET views == Breakdown(start, end) IN
  CHOOSE q \in SetToSeqs(products) :
    \A i, j \in DOMAIN q : i < j => views[q[i]] >= views[q[j]]

FirstOf(seq, limit) == SubSeq(seq, 1, Min({limit, Len(seq)}))

\* Mutant of Top: the list is cut before it is filtered.
TopFiltered(start, end, catalog, limit) ==
  SelectSeq(FirstOf(Ranked(Seen(start, end), start, end), limit), LAMBDA p : p \in catalog)

\* get_top_properties: the properties that are still there, by their views.
Top(start, end, catalog, limit) ==
  FirstOf(Ranked(Seen(start, end) \cap catalog, start, end), limit)

-----------------------------------------------------------------------------
DashboardInit == aggs = <<>> /\ opened = FALSE

OpenDashboard == ~opened /\ opened' = TRUE /\ aggs' \in RowLists

DashboardSpec == DashboardInit /\ [][OpenDashboard]_<<aggs, opened>>

-----------------------------------------------------------------------------
\* What a dashboard shows adds up, for every range: the trend to the number above
\* it in both groupings, and a period and the one before to both together.
DashboardAddsUp ==
  \A p \in Product \cup {Nil}, start, end \in Day, weekly \in BOOLEAN : start <= end =>
    LET d == Dashboard(p, start, end, weekly) IN
    /\ MapThenSumSet(LAMBDA b : d.trend[b], DOMAIN d.trend) = d.kpi
    /\ d.before + d.kpi = Kpi(p, 2 * start - end - 1, end)

\* A property that is listed at the top is in the catalog, none that is left out
\* has more views, and none is left out while there is room.
TopIsBest ==
  \A catalog \in SUBSET Product, limit \in 1 .. 2 :
    LET top == Top(1, LastDay, catalog, limit)
        left == (catalog \cap Seen(1, LastDay)) \ ToSet(top) IN
    /\ ToSet(top) \subseteq catalog /\ Len(top) <= limit
    /\ left # {} => Len(top) = limit
    /\ \A p \in ToSet(top), q \in left : Kpi(p, 1, LastDay) >= Kpi(q, 1, LastDay)

\* For every list of rows, what a dashboard shows is what the rows say, in all of
\* its parts (AnalyticsService).
DashboardIsRight == opened => DashboardAddsUp /\ TopIsBest
=============================================================================
