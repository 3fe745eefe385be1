SPECIFICATION Spec
CONSTANTS
  x = x
  y = y
  trivy = trivy
  osv = osv
  all = all
  part = part
  Fingerprint = {x, y}
  Scanner = {trivy, osv}
  Scope = {all}
  Suffix = {0}
  Registry <- TwoScanners
  Detects <- TrivyMore
  Covers <- WholeOnly
  Whole = all
  Selections <- Everything
  Flaky = {trivy, osv}
  Interruptible = FALSE
  MaxRuns = 3
PROPERTIES
  FixedWasLookedFor
