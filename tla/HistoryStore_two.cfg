SPECIFICATION ReadSpec
CONSTANTS
  c1 = c1
  c2 = c2
  Fingerprint = {x}
  Scanner = {trivy}
  Scope = {all}
  Suffix = {0}
  Caller = {c1, c2}
  Process = {"first", "second"}
  Host <- TwoProcesses
  Second = {1, 3}
  MaxRuns = 3
  MaxRunID = 6
  MaxDamaged = 0
  Retention <- KeepOneOrYoung
  Reader = {r}
  PageLimit = 1
  Since = {2}
  MaxWalk = 4
SYMMETRY CallersToo
INVARIANTS
  TypeOK
  ChainIsLinear
  WalkIsWhole
  LatestIsThere
PROPERTIES
  ImplementsLedger
  NewestRunSurvives
