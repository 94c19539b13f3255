SPECIFICATION FairSpec
CONSTANTS
  Call = {c1, c2}
  Once = {c2}
  Free = Free
  TTL = 3
  MaxDelay = 1
  MaxWait = 3
  Faults = {"crash", "redis", "refresh", "cancel"}
PROPERTIES OneLiveAtATime OwnLeaseOnly WaitEnds LeaseEnds
