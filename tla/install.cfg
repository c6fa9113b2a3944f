SPECIFICATION FairInstallSpec
CONSTANTS
  ConfigMaps = {c1}
  Secrets = {x1}
  Missing = {x1}
  Deployments = {p1}
  StatefulSets = {s1}
  Owners = {l1}
  Lookalikes = {l1}
  Sync = Sync
  Versions = {1, 2, 3, 4}
  NoVersion = NoVersion
  Written = Written
  NoKey = NoKey
  Clients = {walk, u1}
  InitClient = walk
  MaxRequests = 1
  MaxStamps = 1
  MaxFaults = 1
CONSTRAINTS NamesInOrder SimpleStatefulSets
INVARIANTS InitTypeOK DeploymentsNamed TemplatesCarrySaved
PROPERTIES TemplatesMatchMounts StampsSeen InitEnds
