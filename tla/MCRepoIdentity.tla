--------------------------- MODULE MCRepoIdentity ---------------------------
(* Small instances of RepoIdentity for TLC: k1, k2 and k3 are checkouts of *)
(* one repository, k4 is one of another, and k5 has no remote.             *)
EXTENDS RepoIdentity, TLC

CONSTANTS k1, k2, k3, k4, k5

Remotes == [k \in Checkout |-> IF k \in {k1, k2, k3} THEN "origin"
                               ELSE IF k = k4 THEN "other" ELSE ""]

Interchangeable == Permutations(Path)
=============================================================================
