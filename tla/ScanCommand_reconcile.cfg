SPECIFICATION Spec
CONSTANTS
  x = x
  y = y
  trivy = trivy
  osv = osv
  all = all
  part = part
  Fingerprint = {x}
  Scanner = {trivy, osv}
  Scope = {all, part}
  Suffix = {0}
  Registry <- TwoScanners
  Detects <- BothDetect
  Covers <- PartLacksX
  Whole = all
  Selections <- Everything
  Flaky = {trivy}
  Interruptible = TRUE
  MaxRuns = 3
INVARIANTS
  RowsTellPhases
PROPERTIES
  PrematureFixIsExplained
  FullScanReconciles
  
