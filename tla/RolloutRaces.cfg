SPECIFICATION FairSpec
CONSTANTS
  MaxVersion = 2
  MaxBuild = 2
  MaxRequired = 1
  User = {u1}
  NoUser = NoUser
  Request = {q1, q2}
  Bootstrap = {q2}
  NoRequest = NoRequest
  Deleter = {}
  Policies <- OneApproval
  Faults = {}
INVARIANTS ServesListedBuild ApprovedByOthers CurrentHasVotes CurrentIsPointed
PROPERTIES BootstrapYields JobSettles ApplyReturns
