SPECIFICATION Spec
CONSTANTS
  a = a
  b = b
  User = {"user"}
  Conn = {"p"}
  RepoID = {"here"}
  Run <- RunIDs
  Stamp <- RunIDs
  Fingerprint = {"x"}
  Origin = {""}
  MaxRepos = 2
  Machine = {a}
  MachineOf <- OneMachine
  HomeOf <- OneHome
  Remote <- NoRemote
  Reports <- XOnly
  MaxRunID = 2
  Scans <- TwoScans
  Syncs <- TwoSyncs
  MaxMishaps = 0
  Eventful = {a}
INVARIANTS
  RunsStayTogether
CHECK_DEADLOCK FALSE
