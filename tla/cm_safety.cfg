SPECIFICATION Spec
CONSTANTS
  Versions = {1, 2, 3, 4, 5}
  Spare = 3
  Data = {d1, d2}
  Deployments = {p1}
  StatefulSets = {}
  NoVersion = NoVersion
  NoData = NoData
  Bare = Bare
  Absent = Absent
  MaxEdits = 1
  MaxApplies = 1
  MaxPods = 1
  MaxFaults = 1
  MaxCrashes = 1
CONSTRAINT NamesInOrder
SYMMETRY Symmetry
INVARIANTS TypeOK StampedVersionSaved RevisionsSaved
PROPERTIES StampIsTruthful ImplementsVersionStore
