SPECIFICATION Spec
CONSTANTS
  Exporter = exporter
  Approver = approver
  Sessions = {s1, s2}
  Requests = {q1, q2}
  Postgres = TRUE
  Approvals = {a1}
  FirstLockFailures = 2
  SecondLockFails = 3
  AssertionTTL = 1
  ApprovalTTL = 1
  FirstLock = 2
  Hour = 3
  MaxLag = 1
  MaxHold = 0
SYMMETRY ExportSymmetry
INVARIANTS OneExportPerApproval
PROPERTIES VerifiedSinceLock
