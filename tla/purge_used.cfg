SPECIFICATION PurgeSpec
CONSTANTS
  Versions = {1, 2, 3}
  Spare = 1
  Data = {d1, d2}
  Deployments = {p1}
  StatefulSets = {}
  NoVersion = NoVersion
  NoData = NoData
  Bare = Bare
  Absent = Absent
  MaxEdits = 1
  MaxApplies = 0
  MaxPods = 0
  MaxFaults = 0
  MaxCrashes = 0
CONSTRAINTS NamesInOrder NamesLeft
SYMMETRY Symmetry
PROPERTY PurgeSparesUsed
