SPECIFICATION Spec
CONSTANTS
  x = x
  y = y
  trivy = trivy
  osv = osv
  all = all
  part = part
  Fingerprint = {x, y}
  Scanner = {trivy}
  Scope = {all, part}
  Suffix = {0}
  Registry <- OneScanner
  Detects <- TrivyOnly
  Covers <- PartLacksY
  Whole = all
  Selections <- Everything
  Flaky = {}
  Interruptible = FALSE
  MaxRuns = 3
PROPERTIES
  FixedWasLookedFor
