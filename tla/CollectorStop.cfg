SPECIFICATION Spec
CONSTANTS
  r1 = r1
  r2 = r2
  e1 = e1
  e2 = e2
  e3 = e3
  periodic = periodic
  stopper = stopper
  None = None
  Event = {e1, e2, e3}
  Recorder = {r1, r2}
  Periodic = periodic
  Stopper = stopper
  BufferSize = 2
  ChunkSize = 2
CHECK_DEADLOCK FALSE
PROPERTY StopFlushesRemaining
