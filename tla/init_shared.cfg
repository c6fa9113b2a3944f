SPECIFICATION InstallSpec
CONSTANTS
  ConfigMaps = {c1}
  Secrets = {}
  Missing = {}
  Deployments = {p1, p2}
  StatefulSets = {}
  Owners = {}
  Lookalikes = {}
  Sync = Sync
  Versions = {1, 2, 3}
  NoVersion = NoVersion
  Written = Written
  NoKey = NoKey
  Clients = {walk}
  InitClient = walk
  MaxRequests = 0
  MaxStamps = 0
  MaxFaults = 0
CONSTRAINT NamesInOrder
SYMMETRY Symmetry
INVARIANT WalkAnnotates
