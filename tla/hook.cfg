SPECIFICATION HookSpec
CONSTANTS
  Pods = {h1, h2}
  Versions = {1, 2, 3}
  Spare = 2
  Data = {d1, d2}
  Deployments = {p1}
  StatefulSets = {}
  NoVersion = NoVersion
  NoData = NoData
  Bare = Bare
  Absent = Absent
  MaxEdits = 1
  MaxApplies = 1
  MaxPods = 2
  MaxFaults = 0
  MaxCrashes = 0
CONSTRAINTS NamesInOrder TwoEvents
SYMMETRY Symmetry
INVARIANT HookTypeOK
PROPERTIES HookIsAtomic StampIsTruthful ImplementsVersionStore
