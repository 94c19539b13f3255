SPECIFICATION Spec
CONSTANTS
  a = a
  b = b
  h1 = h1
  h2 = h2
  Refused = Refused
  None = None
  Sites = {a, b}
  Hosts = {h1, h2}
  Upstreams = {1, 2}
  Patches = {v1}
  Secrets = {"s1"}
  Configured = a
  Procs = {p1, p2}
  Quiet = {p2}
  EasyFirst = {a}
  BuiltInNames = {h2}
  Rank <- MCRank
  Token <- MCToken
  Calls <- MCCalls
CHECK_DEADLOCK FALSE
INVARIANTS PublishedSound 
PROPERTIES RenameMoves PromotedDenied
