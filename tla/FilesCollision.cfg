SPECIFICATION ResourcesSpec
CONSTANTS
  h1 = h1
  h2 = h2
  s1 = s1
  s2 = s2
  b1 = b1
  f1 = f1
  f2 = f2
  None = None
  Handler = {h1, h2}
  Site = {s1, s2}
  BucketName = {b1}
  BucketOf <- OneBucket
  FileId = {}
  FileWork <- ProvisionWork
  MaxFaults = 0
  w1 = w1
  w2 = w2
  q1 = q1
  p1 = p1
  p2 = p2
  x1 = x1
  Nil = Nil
  c1 = c1
  c2 = c2
  a1 = a1
  a2 = a2
  a3 = a3
  Nobody = Nobody
  Clerk = {}
  Person = {}
  AccountWork = {}
  Focus = {"files"}
  Worker = {}
  Shop = {}
  Entry = {}
  Slug = {}
  CatalogWork = {}
INVARIANT BucketsAreExclusive
