SPECIFICATION FairPatientSpec
CONSTANTS
  Versions = {1, 2, 3, 4, 5}
  Spare = 3
  Data = {d1, d2, d3}
  Deployments = {p1, p2}
  StatefulSets = {}
  NoVersion = NoVersion
  NoData = NoData
  Bare = Bare
  Absent = Absent
  MaxEdits = 2
  MaxApplies = 0
  MaxPods = 1
  MaxFaults = 0
  MaxCrashes = 0
CONSTRAINT NamesInOrder
INVARIANTS SettledInStep TemplateFollows
PROPERTIES EditsSaved EditsKept
