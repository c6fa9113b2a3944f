SPECIFICATION FairSecretSpec
CONSTANTS
  Versions = {1, 2, 3, 4}
  Spare = 2
  Payloads = {d1, d2}
  Notes = {}
  NoNotes = NoNotes
  Data <- SecretContents
  Deployments = {}
  StatefulSets = {}
  NoVersion = NoVersion
  NoData = NoData
  Bare = Bare
  Absent = Absent
  MaxEdits = 1
  MaxApplies = 0
  MaxPods = 0
  MaxFaults = 1
  MaxCrashes = 0
CONSTRAINT NamesInOrder
PROPERTY SecretSettles
