SPECIFICATION AnalyticsFairSpec
CONSTANTS
  r1 = r1
  r2 = r2
  e1 = e1
  e2 = e2
  e3 = e3
  periodic = periodic
  stopper = stopper
  None = None
  Event = {e1, e2, e3}
  Recorder = {r1, r2}
  Periodic = periodic
  Stopper = stopper
  BufferSize = 3
  ChunkSize = 2
  m1 = m1
  m2 = m2
  q1 = q1
  q2 = q2
  Nil = Nil
  Scheduler = scheduler
  Manual = {m1}
  Product = {q1}
  EventCount = 2
  AskCount = 1
  AgainCount = 0
  LastDay = 2
  Retention = 0
  PageSize = 1
  WeekLength = 3
  j1 = j1
  j2 = j2
  j3 = j3
  i1 = i1
  i2 = i2
  o1 = o1
  NoItem = NoItem
  Job = {j1, j2}
  Item = {i1, i2}
  Prompt = {o1}
  PromptOf <- OnePrompt
  JobWork <- MCBatchWork
  QueueLimit = 2
  SlotCount = 1
  Budget = 1
  MaxCost = 1
  RowLists <- SomeRows
  Focus = {"collector", "rollup", "insights"}
CHECK_DEADLOCK FALSE
PROPERTY BufferDrains
PROPERTY OldEventsGo
PROPERTY BatchesEnd
