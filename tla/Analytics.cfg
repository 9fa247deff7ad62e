SPECIFICATION AnalyticsSpec
CONSTANTS
  r1 = r1
  r2 = r2
  e1 = e1
  e2 = e2
  e3 = e3
  periodic = periodic
  stopper = stopper
  None = None
  Event = {e1, e2, e3}
  Recorder = {r1, r2}
  Periodic = periodic
  Stopper = stopper
  BufferSize = 3
  ChunkSize = 2
  m1 = m1
  m2 = m2
  q1 = q1
  q2 = q2
  Nil = Nil
  Scheduler = scheduler
  Manual = {m1, m2}
  Product = {q1, q2}
  EventCount = 2
  AskCount = 2
  AgainCount = 1
  LastDay = 2
  Retention = 0
  PageSize = 2
  WeekLength = 3
  j1 = j1
  j2 = j2
  j3 = j3
  i1 = i1
  i2 = i2
  o1 = o1
  NoItem = NoItem
  Job = {j1, j2}
  Item = {i1, i2}
  Prompt = {o1}
  PromptOf <- OnePrompt
  JobWork <- MCJobWork
  QueueLimit = 1
  SlotCount = 1
  Budget = 2
  MaxCost = 2
  RowLists <- SomeRows
  Focus = {"collector", "rollup", "dashboard", "insights"}
SYMMETRY Symmetry
CHECK_DEADLOCK FALSE
PROPERTY LostOnlyByFailure
INVARIANT DuplicatesNeedOverlap
INVARIANT RowsCountStoredEvents
PROPERTY ShrinksOnlyByCleanup
INVARIANT DashboardIsRight
INVARIANT LimitsHold
INVARIANT SavedIsServed
