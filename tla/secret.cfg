SPECIFICATION SecretSpec
CONSTANTS
  Versions = {1, 2, 3, 4}
  Spare = 2
  Payloads = {d1, d2}
  Notes = {n1}
  NoNotes = NoNotes
  Data <- SecretContents
  Deployments = {p1}
  StatefulSets = {}
  NoVersion = NoVersion
  NoData = NoData
  Bare = Bare
  Absent = Absent
  MaxEdits = 1
  MaxApplies = 1
  MaxPods = 1
  MaxFaults = 1
  MaxCrashes = 1
CONSTRAINTS NamesInOrder TwoEvents
SYMMETRY Symmetry
INVARIANTS TypeOK StampedVersionSaved RevisionsSaved
PROPERTIES SecretStampIsTruthful SecretImplementsVersionStore
