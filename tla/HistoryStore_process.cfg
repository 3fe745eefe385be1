SPECIFICATION ReadSpec
CONSTANTS
  c1 = c1
  c2 = c2
  Fingerprint = {x}
  Scanner = {trivy, osv}
  Scope = {all, part}
  Suffix = {0}
  Caller = {c1, c2}
  Process = {"first", "second"}
  Host <- OneProcess
  Second = {1}
  MaxRuns = 3
  MaxRunID = 6
  MaxDamaged = 1
  Retention <- KeepTwo
  Reader = {}
  PageLimit = 1
  Since = {}
  MaxWalk = 0
SYMMETRY CallersToo
INVARIANTS
  IndexMatchesRuns
  DeltasMatchRuns
  DiffAgreesWithHistory
PROPERTIES
  InProcessNeverRefused
  RebuildReproduces
