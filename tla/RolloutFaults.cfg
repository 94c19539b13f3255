SPECIFICATION Spec
CONSTANTS
  MaxVersion = 1
  MaxBuild = 2
  MaxRequired = 1
  User = {}
  NoUser = NoUser
  Request = {q1, q2}
  Bootstrap = {q2}
  NoRequest = NoRequest
  Deleter = {d1}
  Policies <- ApprovalsSwitched
  Faults = {"io", "crash"}
INVARIANTS TypeOK StoreConsistent PointerBootable
PROPERTIES SucceededIsLive
