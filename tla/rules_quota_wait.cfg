SPECIFICATION Spec
CONSTANTS
  r1 = r1  r2 = r2  t1 = t1  t2 = t2  w1 = w1  w2 = w2
  Workers = {w1, w2}
  Requests <- TheRequests
  Writers <- TheWriters
  HomeOf <- TheHomes
  TTL = 2  MaxWait = 1  MaxVersion = 2  MaxTime = 2
  QuotaVersions <- FirstQuota
INVARIANT EvaluatesWhatItLoaded
