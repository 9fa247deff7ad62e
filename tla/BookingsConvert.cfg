SPECIFICATION LiveSpec
CONSTANTS
  MaxFailures = 2
  h1 = h1
  h2 = h2
  s1 = s1
  s2 = s2
  d1 = d1
  d2 = d2
  monday = monday
  tuesday = tuesday
  k1 = k1
  k2 = k2
  p1 = p1
  w1 = w1
  w2 = w2
  None = None
  Handler = {h1, h2}
  Service = {s1}
  Day = {d1, d2}
  Weekday <- MCWeekday
  Interval <- MCIntervals
  Capacity = {0, 1}
  BookingId = {k1}
  SubId = {p1}
  WindowId = {w1}
  Workload <- ConvertWork
PROPERTY SubmissionIsConverted
