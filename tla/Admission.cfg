CONSTANTS
  Instances = {"i1", "i2"}
  Callers = {"c1"}
  Requests <- MCRequests
  At <- MCAt
  By <- MCBy
  QuotaField <- MCQuota
  ConcurrentField <- MCConcurrent
  DefaultQuota = 2
  DefaultConcurrent = 2
  MaxQueued = 1
  TTL = 1
  MaxTime = 1
  MaxDay = 1
  MaxChanges <- MCChanges
  MaxRequeues = 1
  MaxErrors = 1
  MaxLosses = 1
SPECIFICATION FairSpec
INVARIANTS TypeOK BacklogBounded ConcurrencyBounded QuotaKept RevocationInTime
CHECK_DEADLOCK FALSE
PROPERTY WaitingHelps
