--------------------------- MODULE MCHistoryStore ---------------------------
(* Small instances of HistoryStore for TLC.                                *)
EXTENDS HistoryReads, TLC

CONSTANTS c1, c2

TwoProcesses == c1 :> "first" @@ c2 :> "second"

Alone == c1 :> "first"

OneProcess == c1 :> "first" @@ c2 :> "first"

KeepTwo == {[maxRuns |-> 2, maxAge |-> 0]}

KeepOneOrYoung == {[maxRuns |-> 1, maxAge |-> 0], [maxRuns |-> 0, maxAge |-> 1]}

Interchangeable ==
  Permutations(Fingerprint) \cup Permutations(Scanner) \cup Permutations(Scope)

(* Only whether two callers share a process is ever asked.                 *)
CallersToo == Interchangeable \cup Permutations(Caller)
=============================================================================
