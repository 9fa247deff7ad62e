SPECIFICATION HostingSpec
CONSTANTS
  h1 = h1
  h2 = h2
  h3 = h3
  s1 = s1
  s2 = s2
  d1 = d1
  k1 = k1
  k2 = k2
  None = None
  Handler = {h1, h2}
  Site = {s1}
  Domain = {d1}
  BuildId = {k1, k2}
  MaxBuilds = 2
  Workload <- HostingWork
  a1 = a1
  a2 = a2
  c1 = c1
  n1 = n1
  n2 = n2
  z1 = z1
  z2 = z2
  Off = Off
  Project = {a1, a2}
  Custom = {c1}
  Derived <- MCDerived
  Zone = {z1, z2}
  ZonesOf <- MCZonesOf
  Labels <- MCLabels
  GlobalZone = z1
  MaxAttempts = 2
  MaxPolls = 2
  Focus = {"deploy", "requeue", "builds", "domains"}
SYMMETRY HandlerSymmetry
INVARIANT DeploymentIsStable
PROPERTY LiveIsServed
INVARIANT DeletedIsQuiet
PROPERTY RunningIsUndisturbed
PROPERTY LiveIsReached
PROPERTY RightRecordStays
PROPERTY StoppedLeavesNothing
