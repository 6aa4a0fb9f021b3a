\* Two pages: with locks and a channel they retry, take over, release, crash, and a request is
\* rejected; with the record each may be frozen, crash or release, and two writes are refused.
CONSTANTS
  Tab = {t1, t2}
  NoTab = NoTab
  Channel = TRUE
  MaxTries = 2
  MaxTakeOvers = 1
  MaxFailures = 1
  RetryEvery = 2
  BeatEvery = 2
  Stale = 6
  MaxRecordTries = 1
  MaxFreezes = 2
  MaxRefusals = 2
SPECIFICATION LeaseSpec
INVARIANT RecordOneHost
PROPERTIES OneHost LockTaken Heals
CHECK_DEADLOCK FALSE
