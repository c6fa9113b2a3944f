SPECIFICATION FairSpec
CONSTANTS
  Versions = {1, 2, 3}
  Spare = 2
  Data = {d1, d2}
  Deployments = {}
  StatefulSets = {s1}
  NoVersion = NoVersion
  NoData = NoData
  Bare = Bare
  Absent = Absent
  MaxEdits = 1
  MaxApplies = 1
  MaxPods = 1
  MaxFaults = 1
  MaxCrashes = 1
CONSTRAINT NamesInOrder
PROPERTY Settles
