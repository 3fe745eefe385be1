------------------------------ MODULE Lifecycle ------------------------------
(***************************************************************************)
(* The pure fold of internal/history: how one recorded run moves the       *)
(* lifecycle index of a repository (state.go, fold.go), how a run gets its *)
(* identifier (identity.go), and which runs a retention policy drops.      *)
(*                                                                         *)
(* A run row is abstracted to what the fold reads and writes.  The report  *)
(* document is the function "found" from fingerprints to the scanners that *)
(* reported them, {} standing for "not in the report"; findings without a  *)
(* fingerprint never enter the fold and are left out.                      *)
(***************************************************************************)
EXTENDS Integers, Sequences

CONSTANTS
  Fingerprint,   \* identities of findings
  Scanner,       \* names of scanners
  Scope,         \* digests of the scanned path and the exclusions (ScopeHash)
  Suffix         \* the random suffixes of run ids

ASSUME SuffixAssumption == Suffix \subseteq {0, 1} /\ Suffix # {}

NoRun == 0       \* the empty RunID

RunID == Nat \ {0}

OpenStatuses == {"new", "open", "regressed"}

(* A finding_states row; "absent" stands for a fingerprint without a row.  *)
FindingState ==
  [status : OpenStatuses \cup {"absent", "fixed"},
   firstRun : Nat, lastRun : Nat, fixedRun : Nat,
   scanners : SUBSET Scanner, occurrences : Nat, regressions : Nat]

Absent ==
  [status |-> "absent", firstRun |-> NoRun, lastRun |-> NoRun,
   fixedRun |-> NoRun, scanners |-> {}, occurrences |-> 0, regressions |-> 0]

EmptyIndex == [fp \in Fingerprint |-> Absent]

(* The statuses one run assigned, "none" where it assigned none.           *)
Marks == [Fingerprint -> OpenStatuses \cup {"fixed", "none"}]

NoMarks == [fp \in Fingerprint |-> "none"]

(* A runs row: marks is the Status map inside the stored document, delta   *)
(* the classes counted in the delta column, counted a ghost: the index     *)
(* includes this run's report.                                             *)
RunRow ==
  [id : RunID, prev : Nat, scope : Scope, ran : SUBSET Scanner,
   found : [Fingerprint -> SUBSET Scanner], readable : BOOLEAN,
   marks : Marks, delta : Marks, counted : BOOLEAN]

NewRow(id, scope, ran, found) ==
  [id |-> id, prev |-> NoRun, scope |-> scope, ran |-> ran, found |-> found,
   readable |-> TRUE, marks |-> NoMarks, delta |-> NoMarks, counted |-> TRUE]

-----------------------------------------------------------------------------
(* state.go: one run's effect on one fingerprint.                          *)

CheckedBy(reporters, ran) == reporters \cap ran # {}

(* Faulty variant: a finding that comes back stays fixed.                  *)
SightedKeepingFixed(st, reporters, id) ==
  [st EXCEPT !.status = IF @ = "absent" THEN "new" ELSE @,
             !.firstRun = IF @ = NoRun THEN id ELSE @,
             !.lastRun = id, !.scanners = @ \cup reporters,
             !.occurrences = @ + 1]

Sighted(st, reporters, id) ==
  [status |-> IF st.status = "absent" THEN "new"
              ELSE IF st.status = "fixed" THEN "regressed" ELSE "open",
   firstRun |-> IF st.status = "absent" THEN id ELSE st.firstRun,
   lastRun |-> id,
   fixedRun |-> st.fixedRun,
   scanners |-> st.scanners \cup reporters,
   occurrences |-> st.occurrences + 1,
   regressions |-> IF st.status = "fixed" THEN st.regressions + 1
                   ELSE st.regressions]

Missed(st, ran, changed, id) ==
  IF st.status \in OpenStatuses /\ ~changed /\ CheckedBy(st.scanners, ran)
  THEN [st EXCEPT !.status = "fixed", !.fixedRun = id]
  ELSE st

Advance(states, row, changed) ==
  [fp \in Fingerprint |->
     IF row.found[fp] # {} THEN Sighted(states[fp], row.found[fp], row.id)
     ELSE Missed(states[fp], row.ran, changed, row.id)]

(* Faulty variant: only the findings of the run itself are reported on.    *)
MarksOfFound(states, next, row) ==
  [fp \in Fingerprint |->
     IF row.found[fp] # {} THEN next[fp].status ELSE "none"]

(* The statuses advance reports: every finding of the run, and those it    *)
(* concludes fixed.                                                        *)
MarksOf(states, next, row) ==
  [fp \in Fingerprint |->
     IF row.found[fp] # {} \/ next[fp].status # states[fp].status
     THEN next[fp].status ELSE "none"]

-----------------------------------------------------------------------------
(* fold.go: folding a run row into a repository's runs and index.          *)

Fold == [runs : Seq(RunRow), states : [Fingerprint -> FindingState]]

EmptyFold == [runs |-> <<>>, states |-> EmptyIndex]

NewestID(runs) == IF runs = <<>> THEN NoRun ELSE runs[Len(runs)].id

(* Faulty variant: unreadable runs are skipped, as if they had no scope.   *)
ScopeChangedSkipping(runs, scope) ==
  /\ runs # <<>>
  /\ runs[Len(runs)].readable
  /\ runs[Len(runs)].scope # scope

ScopeChanged(runs, scope) ==
  /\ runs # <<>>
  /\ runs[Len(runs)].scope # scope

(* An unreadable row joins the chain but moves no finding, and keeps the   *)
(* summary stored for it; a readable one without findings to report on     *)
(* leaves the status map inside its document as it was.                    *)
ApplyRun(fold, row) ==
  LET next  == Advance(fold.states, row, ScopeChanged(fold.runs, row.scope))
      marks == MarksOf(fold.states, next, row)
      base  == [row EXCEPT !.prev = NewestID(fold.runs), !.counted = row.readable]
  IN  IF row.readable
      THEN [runs |-> Append(fold.runs,
                       [base EXCEPT !.delta = marks,
                                    !.marks = IF marks = NoMarks THEN @ ELSE marks]),
            states |-> next]
      ELSE [runs |-> Append(fold.runs, base), states |-> fold.states]

-----------------------------------------------------------------------------
(* identity.go: a RunID is a UTC second followed by a random suffix and    *)
(* compares as text.  Two suffixes are enough for a clash in either order. *)

SecondOf(id) == id \div 2

(* Faulty variant: the first second is a run's empty id.                   *)
RunIDFromZero(second, suffix) == 2 * (second - 1) + suffix

RunIDAt(second, suffix) == 2 * second + suffix

(* Faulty variant: the newest run is not looked at.                        *)
MintAnyRunID(finished, newest) ==
  {RunIDAt(finished, suffix) : suffix \in Suffix}

(* The ids that can be minted: a draw for the finishing second that sorts  *)
(* after the newest run or, once a draw did not, any in the newest run's   *)
(* next second.                                                            *)
MintRunIDAfter(finished, newest) ==
  LET draws == {RunIDAt(finished, suffix) : suffix \in Suffix}
      later == {id \in draws : id > newest}
  IN  IF newest = NoRun \/ draws = later THEN draws
      ELSE later \cup {RunIDAt(SecondOf(newest) + 1, suffix) : suffix \in Suffix}

-----------------------------------------------------------------------------
(* Retention: the ids to drop of an ascending list; never the newest.      *)
(* A bound of 0 is "keep everything" for that dimension.                   *)

(* Faulty variant: age alone may drop the newest run.                      *)
ExpiredByAge(ids, maxRuns, maxAge, now) ==
  {ids[i] : i \in {k \in 1 .. Len(ids) :
      \/ maxRuns > 0 /\ Len(ids) - (k - 1) > maxRuns
      \/ maxAge > 0 /\ now - SecondOf(ids[k]) > maxAge}}

Expired(ids, maxRuns, maxAge, now) ==
  {ids[i] : i \in {k \in 1 .. Len(ids) - 1 :
      \/ maxRuns > 0 /\ Len(ids) - (k - 1) > maxRuns
      \/ maxAge > 0 /\ now - SecondOf(ids[k]) > maxAge}}
=============================================================================
