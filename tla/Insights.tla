------------------------------ MODULE Insights -------------------------------
(***************************************************************************)
(* The AI analysis of properties: requests that analyse one property,      *)
(* batches that a bounded queue of background tasks works off, the         *)
(* language model behind its response cache and its budget, and the rows   *)
(* that keep an insight for the next reader.                               *)
(*                                                                         *)
(* A job is a request or a batch.  Each request builds a model client of   *)
(* its own, so the response cache and the tracker of what was spent are    *)
(* the job's, and a batch passes the ones of its request on.  Calls to     *)
(* PocketBase and to the model are steps; each may fail, and a create      *)
(* whose answer is lost is sent again and may make a second row.           *)
(*                                                                         *)
(* Abstractions: an item is a property and a type of insight; two items    *)
(* with one prompt are two whose fields are the same; a job is made once.  *)
(***************************************************************************)
EXTENDS Integers, Sequences, FiniteSets, SequencesExt

CONSTANTS
  Job,          \* requests and batches
  Item,         \* a property and a type of insight
  Prompt,       \* what the model is asked
  PromptOf,     \* the prompt of an item
  JobWork,      \* jobs that are asked for: what, for which items, forced
  QueueLimit,   \* batch tasks that may exist
  SlotCount,    \* batches that run at a time
  Budget,       \* what a client may spend in a month, 0 for no limit
  MaxCost,      \* bound on the cost of a call
  NoItem        \* no insight

\* can_afford asks for an estimate, the cost of the smallest call here.
Estimate == 1

Stage == {"new", "listing", "waiting", "load", "look", "complete", "find", "save", "done"}

ASSUME InsightsAssumption ==
  /\ PromptOf \in [Item -> Prompt]
  /\ NoItem \notin [item : Item, by : Job]
  /\ JobWork \subseteq [batch : BOOLEAN, forced : BOOLEAN, left : Seq(Seq(Item) \ {<<>>})]
  /\ \A w \in JobWork : w.batch \/ w.left # <<>>
  /\ QueueLimit \in Nat \ {0} /\ SlotCount \in Nat \ {0}
  /\ Budget \in Nat /\ MaxCost \in Nat \ {0}

VARIABLES
  stage,      \* where each job is
  work,       \* what it does: the items of each property that is left, ...
  spent,      \* ... what its client has spent this month,
  memo,       \* ... the prompts its client has a response for,
  found,      \* ... and the row it updates, 0 to create one
  slots,      \* the batches that run
  insights,   \* the rows, in the order they were created
  closed,     \* the application is shut down
  kept,       \* ghost: the last insight that was written for an item
  shared      \* ghost: the items that two jobs were writing at a time, and
              \* those whose row was made twice

jobVars == <<stage, work, spent, memo, found>>
insightVars == <<jobVars, slots, insights, closed, kept, shared>>

Insight == [item : Item, by : Job]

InsightsTypeOK ==
  /\ stage \in [Job -> Stage]
  /\ spent \in [Job -> Nat] /\ found \in [Job -> Nat]
  /\ slots \in 0 .. SlotCount
  /\ insights \in Seq(Insight)
  /\ closed \in BOOLEAN /\ shared \subseteq Item

NoWork == [batch |-> FALSE, forced |-> FALSE, left |-> <<>>]

InsightsInit ==
  /\ stage = [j \in Job |-> "new"]
  /\ work = [j \in Job |-> NoWork]
  /\ spent = [j \in Job |-> 0]
  /\ memo = [j \in Job |-> {}]
  /\ found = [j \in Job |-> 0]
  /\ slots = 0 /\ insights = <<>> /\ closed = FALSE
  /\ kept = [i \in Item |-> NoItem]
  /\ shared = {}

Enter(j, s) == stage' = [stage EXCEPT ![j] = s]

\* The tasks in _batch_tasks.
BatchTasks == {j \in Job : work[j].batch /\ stage[j] \notin {"new", "listing", "done"}}

\* Mutant of HasRoom: only the first of the two checks is made.
HasRoomFirst(s) == s = "listing" \/ Cardinality(BatchTasks) < QueueLimit

\* Whether the queue takes another batch, when a request is at s.
HasRoom(s) == Cardinality(BatchTasks) < QueueLimit

\* POST /insights/analyze, or /insights/batch-analyze up to the await of the list
\* of properties.
Analyze(j, w) ==
  /\ stage[j] = "new" /\ ~closed
  /\ w.batch => HasRoom("new")
  /\ work' = [work EXCEPT ![j] = w]
  /\ Enter(j, IF w.batch THEN "listing" ELSE "load")
  /\ UNCHANGED <<spent, memo, found, slots, insights, closed, kept, shared>>

\* The properties are listed: a task is created, if there still is room.
Enqueue(j) ==
  /\ stage[j] = "listing"
  /\ Enter(j, IF HasRoom("listing") /\ work[j].left # <<>> THEN "waiting" ELSE "done")
  /\ UNCHANGED <<work, spent, memo, found, slots, insights, closed, kept, shared>>

\* process_batch gets one of the slots.
StartBatch(j) ==
  /\ stage[j] = "waiting" /\ slots < SlotCount
  /\ slots' = slots + 1
  /\ Enter(j, "load")
  /\ UNCHANGED <<work, spent, memo, found, insights, closed, kept, shared>>

\* Mutant of Freed: a batch that ends after a failure keeps its slot.
FreedUnlessFailed(j, failed) == IF work[j].batch /\ ~failed THEN slots - 1 ELSE slots

\* The slots when a job ends.
Freed(j, failed) == IF work[j].batch THEN slots - 1 ELSE slots

\* What is left of a job.
WithLeft(w, left) == [w EXCEPT !.left = left]

\* The properties left when one is done or given up: the next one or the end.
NextProperty(j, failed) ==
  LET left == Tail(work[j].left) IN
  /\ work' = [work EXCEPT ![j] = WithLeft(@, left)]
  /\ Enter(j, IF left = <<>> THEN "done" ELSE "load")
  /\ slots' = IF left = <<>> THEN Freed(j, failed) ELSE slots

Current(j) == Head(Head(work[j].left))

FirstStep(j) == IF work[j].forced THEN "complete" ELSE "look"

\* The items left when the current one is done.
NextItem(j) ==
  LET items == Tail(Head(work[j].left)) IN
  IF items = <<>> THEN NextProperty(j, FALSE)
  ELSE /\ work' = [work EXCEPT ![j] = WithLeft(@, <<items>> \o Tail(@.left))]
       /\ Enter(j, FirstStep(j))
       /\ UNCHANGED slots

\* analyze_property reads the property, which may fail or be gone.
LoadProperty(j) ==
  /\ stage[j] = "load"
  /\ \/ Enter(j, FirstStep(j)) /\ UNCHANGED <<work, slots>>
     \/ NextProperty(j, TRUE)
  /\ UNCHANGED <<spent, memo, found, insights, closed, kept, shared>>

RowsFor(i) == {r \in DOMAIN insights : insights[r].item = i}

\* _get_cached_insight: what there is, however old and however broken; a failure
\* counts as nothing.
LookInsight(j) ==
  /\ stage[j] = "look"
  /\ \/ RowsFor(Current(j)) # {} /\ NextItem(j)
     \/ Enter(j, "complete") /\ UNCHANGED <<work, slots>>
  /\ UNCHANGED <<spent, memo, found, insights, closed, kept, shared>>

\* Mutant of Affordable: the estimate is left out.
AffordableAlready(cost) == Budget > 0 => cost <= Budget

\* can_afford
Affordable(cost) == Budget > 0 => cost + Estimate <= Budget

\* record_usage
Charged(cost, c) == cost + c

\* LLMCache.set
Remember(known, p) == known \cup {p}

\* A response that is kept and not too old, ...
UseMemo(j) ==
  /\ stage[j] = "complete" /\ PromptOf[Current(j)] \in memo[j]
  /\ Enter(j, "find")
  /\ UNCHANGED <<work, spent, memo, found, slots, insights, closed, kept, shared>>

\* ... one of the model, kept as an insight even if it is no JSON, ...
Complete(j, cost) ==
  /\ stage[j] = "complete" /\ Affordable(spent[j])
  /\ spent' = [spent EXCEPT ![j] = Charged(@, cost)]
  /\ memo' = [memo EXCEPT ![j] = Remember(@, PromptOf[Current(j)])]
  /\ Enter(j, "find")
  /\ UNCHANGED <<work, found, slots, insights, closed, kept, shared>>

\* ... or none: the budget is used up, or the call fails.  The rest of the
\* property is given up.
CompleteFails(j) ==
  /\ stage[j] = "complete"
  /\ NextProperty(j, TRUE)
  /\ UNCHANGED <<spent, memo, found, insights, closed, kept, shared>>

\* Mutant of RowToUpdate: every insight is a new row.
RowToUpdateNone(i) == {0}

RowToUpdate(i) == IF RowsFor(i) = {} THEN {0} ELSE RowsFor(i)

\* Another job is between its look for the row of the item and its write.
Writing(j, i) == \E k \in Job \ {j} : stage[k] = "save" /\ Current(k) = i

\* _cache_insight looks for the row; a failure is logged and the job goes on ...
FindInsight(j) ==
  /\ stage[j] = "find"
  /\ \/ /\ \E r \in RowToUpdate(Current(j)) : found' = [found EXCEPT ![j] = r]
        /\ shared' = IF Writing(j, Current(j)) THEN shared \cup {Current(j)} ELSE shared
        /\ Enter(j, "save")
        /\ UNCHANGED <<work, slots>>
     \/ NextItem(j) /\ UNCHANGED <<found, shared>>
  /\ UNCHANGED <<spent, memo, insights, closed, kept>>

\* The write of a job lands, or that of a create twice.
Land(j) ==
  LET row == [item |-> Current(j), by |-> j] IN
  /\ \/ /\ insights' = IF found[j] = 0 THEN Append(insights, row)
                                       ELSE [insights EXCEPT ![found[j]] = row]
        /\ UNCHANGED shared
     \/ /\ found[j] = 0
        /\ insights' = insights \o <<row, row>>
        /\ shared' = shared \cup {row.item}
  /\ kept' = [kept EXCEPT ![row.item] = row]

\* ... and updates or creates it, or fails to.
SaveInsight(j) ==
  /\ stage[j] = "save"
  /\ Land(j) \/ UNCHANGED <<insights, kept, shared>>
  /\ NextItem(j)
  /\ found' = [found EXCEPT ![j] = 0]
  /\ UNCHANGED <<spent, memo, closed>>

\* The lifespan ends when the requests are done.
Shutdown ==
  /\ ~closed /\ \A j \in Job \ BatchTasks : stage[j] \in {"new", "done"}
  /\ closed' = TRUE
  /\ UNCHANGED <<jobVars, slots, insights, kept, shared>>

\* A batch is cancelled where it awaits, a write under way landing or not.
Cancel(j) ==
  /\ j \in BatchTasks
  /\ (stage[j] = "save" /\ Land(j)) \/ UNCHANGED <<insights, kept, shared>>
  /\ slots' = IF stage[j] = "waiting" THEN slots ELSE slots - 1
  /\ Enter(j, "done")
  /\ UNCHANGED <<work, spent, memo, found, closed>>

\* A month begins: each client forgets what it has spent, at the next look.
NewMonth ==
  /\ \E j \in Job : spent[j] # 0
  /\ spent' = [j \in Job |-> 0]
  /\ UNCHANGED <<stage, work, memo, found, slots, insights, closed, kept, shared>>

JobStep(j) ==
  IF closed THEN Cancel(j)
  ELSE \/ Enqueue(j) \/ StartBatch(j) \/ LoadProperty(j) \/ LookInsight(j) \/ UseMemo(j)
       \/ CompleteFails(j) \/ FindInsight(j) \/ SaveInsight(j)
       \/ \E cost \in 1 .. MaxCost : Complete(j, cost)

InsightsNext ==
  \/ \E j \in Job, w \in JobWork : Analyze(j, w)
  \/ \E j \in Job : JobStep(j)
  \/ Shutdown \/ NewMonth

InsightsSpec == InsightsInit /\ [][InsightsNext]_insightVars

-----------------------------------------------------------------------------
\* "Analysis queue is full": however many requests pass the first check while
\* they wait for their lists, no more than the limit become tasks.
QueueIsBounded == Cardinality(BatchTasks) <= QueueLimit

\* "LLM monthly budget exceeded": a client with a budget goes over it by less than
\* one call in a month, also when the batches it works off fail and go on.
OverspendIsOneCall == Budget > 0 => \A j \in Job : spent[j] < Budget + MaxCost

\* What is bounded keeps its bounds: the queue of batches and each budget.
LimitsHold == QueueIsBounded /\ OverspendIsOneCall

\* The insight that was written last is the one that is read, and the only one,
\* unless two jobs wrote the item at a time or the answer to a create was lost.
SavedIsServed ==
  \A i \in Item \ shared :
    {insights[r] : r \in RowsFor(i)} = {kept[i]} \ {NoItem} /\ Cardinality(RowsFor(i)) <= 1

\* A batch that was queued gets a slot and ends, whatever fails in the ones
\* before it.
BatchesEnd == \A j \in Job : stage[j] = "waiting" ~> stage[j] = "done"
=============================================================================
