SPECIFICATION Spec
CONSTANTS
  Versions = {1, 2, 3, 4, 5}
  Spare = 3
  Data = {d1, d2, d3}
  Deployments = {}
  StatefulSets = {}
  NoVersion = NoVersion
  NoData = NoData
  Bare = Bare
  Absent = Absent
  MaxEdits = 2
  MaxApplies = 0
  MaxPods = 0
  MaxFaults = 0
  MaxCrashes = 0
CONSTRAINT NamesInOrder
SYMMETRY Symmetry
PROPERTY EditsKept
