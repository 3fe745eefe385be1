SPECIFICATION Spec
CONSTANTS
  x = x
  y = y
  trivy = trivy
  osv = osv
  all = all
  part = part
  Fingerprint = {x, y}
  Scanner = {trivy}
  Scope = {all}
  Suffix = {0}
  Registry <- OneScanner
  Detects <- TrivyOnly
  Covers <- WholeOnly
  Whole = all
  Selections <- OrVulnOnly
  Flaky = {}
  Interruptible = FALSE
  MaxRuns = 3
PROPERTIES
  FixedWasLookedFor
