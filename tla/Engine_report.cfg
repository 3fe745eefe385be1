SPECIFICATION Spec
CONSTANTS
  CVE <- CVEs
  Alphabet <- Segments
  Wild <- Wilds
  Classed = {"[ab].pem"}
  Expands <- Expansion
  Dotted = {"..cache"}
  Registry <- Registered
  Cases <- Tried
  OtherRoot <- Elsewhere
  MaxTrouble = 1
  MaxScans = 2
INVARIANTS
  
  TempOutlivesTool
  
  ShownIsWhatWasTold
  OneIssueOnce
  OutcomeAgrees
  SameScanSameReport
  
  

  
CHECK_DEADLOCK FALSE
