SPECIFICATION Spec
CONSTANTS
  MaxRev = 2
  MaxRelease = 1
  Slot = {s1, s2}
  Reloader = {r1}
  Updater = {u1}
  Hourly = {u1}
  NoSlot = NoSlot
  NoProc = NoProc
  Main = Main
  Faults = {"io", "exit", "crash"}
INVARIANTS TrafficOnPointer ReadyNeedsNginx Supervised RulesUsable RulesAgree
SYMMETRY SlotSymmetry
