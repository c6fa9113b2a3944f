SPECIFICATION FairPurgeSpec
CONSTANTS
  Versions = {1, 2}
  Spare = 1
  Data = {d1, d2}
  Deployments = {p1}
  StatefulSets = {s1}
  NoVersion = NoVersion
  NoData = NoData
  Bare = Bare
  Absent = Absent
  MaxEdits = 1
  MaxApplies = 1
  MaxPods = 0
  MaxFaults = 1
  MaxCrashes = 0
CONSTRAINTS NamesInOrder NamesLeft Late OneEvent NoBare Unedited
INVARIANT PurgeTypeOK
PROPERTIES PurgeSparesRevisions PurgeImplementsVersionStore UnusedGo
