---------------------------- MODULE MCAnalytics -----------------------------
(***************************************************************************)
(* Small instances of Collector, of Rollup, of Dashboards and of Insights  *)
(* for TLC, one of them in a behaviour: an event that the collector has    *)
(* stored is an event that Occur brings to the rollup.                     *)
(***************************************************************************)
EXTENDS Collector, Dashboards, Insights, TLC

CONSTANTS r1, r2, e1, e2, e3, periodic, stopper, m1, m2, q1, q2

CONSTANTS j1, j2, j3, i1, i2, o1

OnePrompt == [i \in Item |-> o1]

Listed(S) == {x : x \in S}

MCJobWork == Listed(
  {[batch |-> FALSE, forced |-> TRUE, left |-> <<<<i1, i2>>>>],
   [batch |-> TRUE, forced |-> FALSE, left |-> <<<<i1>>, <<i2>>>>],
   [batch |-> TRUE, forced |-> FALSE, left |-> <<>>]})

\* The batches alone.
MCBatchWork == {w \in MCJobWork : w.batch}

CONSTANT Focus   \* the parts that a run looks at

VARIABLE focus

\* What a dashboard may find: events that the cleanup has deleted, and their rows,
\* two of one day and property where two aggregations overlapped.
GoneEvents ==
  SetToSeq([day : Day, product : Product, kept : {FALSE}]) \o
  SetToSeq([day : Day, product : Product, kept : {FALSE}])
SomeRows == BoundedSeq([day : Day, product : Product \cup {Nil}, views : 1 .. 2, again : {FALSE}], 3)

AnalyticsInit ==
  /\ Init /\ InsightsInit /\ focus \in Focus
  /\ DashboardInit
  /\ IF focus = "dashboard" THEN RollupStart(GoneEvents, Day) ELSE RollupInit
  /\ status = "live"

Collects == focus = "collector" /\ UNCHANGED <<focus, opened, rollupVars, insightVars>>
Rolls == focus = "rollup" /\ UNCHANGED <<focus, opened, vars, insightVars>>
Analyses == focus = "insights" /\ UNCHANGED <<focus, opened, vars, rollupVars>>

Shows ==
  /\ focus = "dashboard" /\ OpenDashboard
  /\ UNCHANGED <<focus, vars, insightVars, today, event, status, asks, phase, span, queue,
                 target, clean, overlapped>>

\* The two properties are alike: events are about q1 before any is about q2.
PropertiesInTurn ==
  \A e \in DOMAIN event' : event'[e].product = q2 => \E f \in 1 .. e - 1 : event'[f].product = q1

AnalyticsNext ==
  \/ Collects /\ Next
  \/ Rolls /\ RollupNext /\ PropertiesInTurn
  \/ Analyses /\ InsightsNext
  \/ Shows

allVars == <<focus, opened, vars, rollupVars, insightVars>>

AnalyticsSpec == AnalyticsInit /\ [][AnalyticsNext]_allVars

\* Collector: as its Spec.  Rollup: nights come, calls end, and a query or a
\* deletion that is tried again and again succeeds.
AnalyticsFairSpec ==
  /\ AnalyticsSpec
  /\ \A t \in Task : SF_allVars(Collects /\ Step(t))
  /\ WF_allVars(Collects /\ Flush(Periodic))
  /\ WF_allVars(Rolls /\ Night)
  /\ WF_allVars(Rolls /\ Roll(Scheduler))
  /\ WF_allVars(Rolls /\ TurnPage)
  /\ SF_allVars(Rolls /\ ListExpired)
  /\ WF_allVars(Rolls /\ \E gone, told \in BOOLEAN : DeleteEvent(gone, told))
  /\ SF_allVars(Rolls /\ \E told \in BOOLEAN : DeleteEvent(TRUE, told))
  /\ \A j \in Job : SF_allVars(Analyses /\ JobStep(j))

\* The two actors of each part change places, all together.
Mates == {{r1, r2}, {m1, m2}, {j1, j2}}
Symmetry ==
  {p \in Permutations(UNION Mates) :
     (\A x \in DOMAIN p : p[x] = x) \/ (\A x \in DOMAIN p : {x, p[x]} \in Mates)}
=============================================================================
