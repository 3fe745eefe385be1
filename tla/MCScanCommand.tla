---------------------------- MODULE MCScanCommand ----------------------------
(* Small instances of ScanCommand for TLC: trivy detects everything,       *)
(* osv-scanner the dependency finding x only; y, or in PartLacksX the only *)
(* finding there is, lies outside "part".                                  *)
EXTENDS ScanCommand, TLC

CONSTANTS x, y, trivy, osv, all, part

TwoScanners == <<trivy, osv>>

OneScanner == <<trivy>>

TrivyMore == trivy :> {x, y} @@ osv :> {x}

TrivyOnly == trivy :> {x, y}

PartLacksY == all :> {x, y} @@ part :> {x}

WholeOnly == all :> {x, y}

BothDetect == trivy :> {x} @@ osv :> {x}

PartLacksX == all :> {x} @@ part :> {}

Everything == {Fingerprint}

OrVulnOnly == {{x, y}, {x}}
=============================================================================
