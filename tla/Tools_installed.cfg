SPECIFICATION Spec
CONSTANTS
  trivy = trivy
  osv = osv
  p = p
  q = q
  Process = {p, q}
  Tool = {trivy, osv}
  Dir = {"bin", "path"}
  Managed = "bin"
  PathDirs = {"path"}
  MaxVersion = 2
  MaxCommands = 3
  MaxOwn = 1
INVARIANTS
  TypeOK
  
  RecordAgrees

  
SYMMETRY Alike
CHECK_DEADLOCK FALSE
