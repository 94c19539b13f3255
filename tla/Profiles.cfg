CONSTANTS
  Deployments <- MCDeployments
  ManagementSite = "control-plane-access"
  Admins = {a1, a2}
  Policies <- MCPolicies
  Edits <- MCEdits
  MaxRules = 2
  MaxAccounts = 2
  MaxStages = 3
  MaxEdits = 2
  None = None
SYMMETRY Sym
SPECIFICATION Spec
INVARIANTS EnforcedAsAccepted WritableAsShown
