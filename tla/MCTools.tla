------------------------------ MODULE MCTools ------------------------------
(* A small instance of Tools for TLC.                                      *)
EXTENDS Tools, TLC

CONSTANTS trivy, osv, p, q

Alike == Permutations({trivy, osv}) \cup Permutations({p, q})
=============================================================================
