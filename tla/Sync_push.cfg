SPECIFICATION Spec
CONSTANTS
  a = a
  b = b
  User = {"user"}
  Conn = {"p", "q"}
  RepoID = {"here", "there"}
  Run <- RunIDs
  Stamp <- RunIDs
  Fingerprint = {"x", "y"}
  Origin = {"", "origin"}
  MaxRepos = 2
  Machine = {a, b}
  MachineOf <- PerMachine
  HomeOf <- Homes
  Remote <- Shared
  Reports <- XThenY
  MaxRunID = 2
  Scans <- TwoAndOne
  Syncs <- TwoSyncsAndOne
  MaxMishaps = 1
  Eventful = {a}
INVARIANTS
  OnePersonalOrg
  UploadedIsThere
  LatestRunOpens
  
PROPERTIES
  SyncEnds
CHECK_DEADLOCK FALSE
