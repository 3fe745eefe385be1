----------------------------- MODULE ScanCommand -----------------------------
(***************************************************************************)
(* "pindrop scan", run again and again on a tree that its developers       *)
(* change: the scanners run concurrently (internal/scan/run.go), some are  *)
(* not installed, fail or are cancelled, the progress display keeps a row  *)
(* for each (internal/tui/scan.go), and what was collected is recorded in  *)
(* the history (internal/cli/scan.go, history_record.go).                  *)
(*                                                                         *)
(* The history is a fold that takes a run in one step, which HistoryStore  *)
(* shows the SQLite store to provide.  Cross-tool duplicates share their   *)
(* fingerprint, so merging them is taking the set of their scanners.       *)
(***************************************************************************)
EXTENDS Lifecycle, FiniteSets

CONSTANTS
  Registry,      \* scannerRegistry: every scanner, in order
  Detects,       \* Detects[s]: the findings scanner s can report
  Covers,        \* Covers[h]: the findings inside the paths of scope h
  Whole,         \* the scope that covers everything
  Selections,    \* what --scanners may narrow a scan to, as sets of findings
  Flaky,         \* the scanners that may fail or run into their timeout
  Interruptible, \* whether the user may interrupt a scan
  MaxRuns        \* bound: runs recorded

ASSUME ScanAssumption ==
  /\ Registry \in Seq(Scanner)
  /\ "" \notin Scanner
  /\ \A s \in Scanner : Cardinality({i \in DOMAIN Registry : Registry[i] = s}) = 1
  /\ Detects \in [Scanner -> SUBSET Fingerprint]
  /\ Covers \in [Scope -> SUBSET Fingerprint]
  /\ Whole \in Scope /\ Covers[Whole] = Fingerprint
  /\ Selections \subseteq SUBSET Fingerprint
  /\ Flaky \subseteq Scanner
  /\ Interruptible \in BOOLEAN
  /\ MaxRuns \in Nat

VARIABLES
  present,   \* the findings there are to report in the tree
  history,   \* the repository's runs and lifecycle index
  phase,     \* the phase of each scanner in the scan underway
  seen,      \* what each scanner reported in it
  scan,      \* the scan underway: its scope and selection, and what befell it
  rows       \* the rows of the progress display

vars == <<present, history, phase, seen, scan, rows>>

(* Faulty variant: a skipped scanner is waited for.                        *)
TerminalWithoutSkipped == {"done", "failed"}

Terminal == {"done", "failed", "skipped"}

Phase == Terminal \cup {"queued", "running", "idle"}

Blank == [name |-> "", phase |-> "idle"]

Scan == [scope : Scope, selection : SUBSET Fingerprint,
         cancelled : BOOLEAN, steady : BOOLEAN]

Init ==
  /\ present \in SUBSET Fingerprint
  /\ history = EmptyFold
  /\ phase = [s \in Scanner |-> "idle"]
  /\ seen = [s \in Scanner |-> {}]
  /\ scan = [scope |-> Whole, selection |-> Fingerprint,
             cancelled |-> FALSE, steady |-> TRUE]
  /\ rows = [i \in DOMAIN Registry |-> Blank]

Underway == \E s \in Scanner : phase[s] # "idle"

Usable == {s \in Scanner : phase[s] \notin {"idle", "skipped"}}

-----------------------------------------------------------------------------
(* The display.  scan.Run numbers the usable scanners from the start, and  *)
(* replaySkipped the others after them.                                    *)

IndexAmong(S, s) ==
  LET before == CHOOSE i \in DOMAIN Registry : Registry[i] = s
  IN  Cardinality({i \in 1 .. before : Registry[i] \in S})

(* Faulty variant: a skipped scanner keeps its place in the registry.      *)
SkippedInPlace(usable, s) == IndexAmong(Scanner, s)

SkippedIndex(usable, s) == Cardinality(usable) + IndexAmong(Scanner \ usable, s)

(* apply: an event overwrites the row of its index.                        *)
Apply(index, s, ph) == rows' = [rows EXCEPT ![index] = [name |-> s, phase |-> ph]]

FirstRows(usable) ==
  [i \in DOMAIN Registry |->
     IF i <= Cardinality(usable)
     THEN [name |-> CHOOSE s \in usable : IndexAmong(usable, s) = i, phase |-> "queued"]
     ELSE IF \E s \in Scanner \ usable : SkippedIndex(usable, s) = i
     THEN [name |-> CHOOSE s \in Scanner \ usable : SkippedIndex(usable, s) = i,
           phase |-> "skipped"]
     ELSE Blank]

-----------------------------------------------------------------------------
(* The developers add or remove a finding, also while scanners are reading *)
(* the tree.                                                               *)
Change(fp) ==
  /\ present' = IF fp \in present THEN present \ {fp} ELSE present \cup {fp}
  /\ scan' = [scan EXCEPT !.steady = @ /\ ~ Underway]
  /\ UNCHANGED <<history, phase, seen, rows>>

(* resolveScanners leaves some scanner usable, and scan.Run announces the  *)
(* whole set before it starts any.                                         *)
Start(usable, scope, selection) ==
  /\ ~ Underway
  /\ Len(history.runs) < MaxRuns
  /\ usable # {}
  /\ phase' = [s \in Scanner |-> IF s \in usable THEN "queued" ELSE "skipped"]
  /\ seen' = [s \in Scanner |-> {}]
  /\ scan' = [scope |-> scope, selection |-> selection,
              cancelled |-> FALSE, steady |-> TRUE]
  /\ rows' = FirstRows(usable)
  /\ UNCHANGED <<present, history>>

Begin(s) ==
  /\ phase[s] = "queued"
  /\ phase' = [phase EXCEPT ![s] = "running"]
  /\ Apply(IndexAmong(Usable, s), s, "running")
  /\ UNCHANGED <<present, history, seen, scan>>

(* A scanner returns what it sees, without what the exclusions filter.     *)
Finish(s) ==
  /\ phase[s] = "running"
  /\ phase' = [phase EXCEPT ![s] = "done"]
  /\ seen' = [seen EXCEPT ![s] =
                present \cap Detects[s] \cap Covers[scan.scope] \cap scan.selection]
  /\ Apply(IndexAmong(Usable, s), s, "done")
  /\ UNCHANGED <<present, history, scan>>

(* A scanner fails, exceeds its timeout, or is killed with the command.    *)
Fail(s) ==
  /\ phase[s] = "running"
  /\ s \in Flaky \/ scan.cancelled
  /\ phase' = [phase EXCEPT ![s] = "failed"]
  /\ Apply(IndexAmong(Usable, s), s, "failed")
  /\ UNCHANGED <<present, history, seen, scan>>

Cancel ==
  /\ Interruptible
  /\ Underway
  /\ ~ scan.cancelled
  /\ scan' = [scan EXCEPT !.cancelled = TRUE]
  /\ UNCHANGED <<present, history, phase, seen, rows>>

(* Faulty variant: a scanner that is not installed counts as having run.   *)
RanAll == Scanner

(* withSilentScanners: those recorded as having run are the usable ones.   *)
Ran == Usable

(* The next free id: the clock is left out here.                           *)
NextRun == NewRow(Len(history.runs) + 1, scan.scope, Ran,
                  [fp \in Fingerprint |-> {s \in Scanner : fp \in seen[s]}])

(* All scanners have returned.  Nothing is recorded when none reported, or *)
(* when Put finds its context cancelled; and Put itself may fail, which is *)
(* a warning.                                                              *)
End ==
  /\ Underway
  /\ \A s \in Scanner : phase[s] \in Terminal
  /\ \/ /\ \E s \in Scanner : phase[s] = "done"
        /\ ~ scan.cancelled
        /\ history' = ApplyRun(history, NextRun)
     \/ history' = history
  /\ phase' = [s \in Scanner |-> "idle"]
  /\ UNCHANGED <<present, seen, scan, rows>>

ScannerStep(s) == Begin(s) \/ Finish(s) \/ Fail(s)

Next ==
  \/ \E fp \in Fingerprint : Change(fp)
  \/ \E usable \in SUBSET Scanner, scope \in Scope, selection \in Selections :
       Start(usable, scope, selection)
  \/ \E s \in Scanner : ScannerStep(s)
  \/ Cancel
  \/ End

(* A scanner's goroutine runs, and its tool returns or is killed at its    *)
(* timeout; runScan then goes on by itself.                                *)
Fairness == /\ \A s \in Scanner : WF_vars(ScannerStep(s))
            /\ WF_vars(End)

Spec == Init /\ [][Next]_vars /\ Fairness

-----------------------------------------------------------------------------
TypeOK ==
  /\ present \subseteq Fingerprint
  /\ history \in Fold
  /\ phase \in [Scanner -> Phase]
  /\ seen \in [Scanner -> SUBSET Fingerprint]
  /\ scan \in Scan
  /\ rows \in [DOMAIN Registry -> [name : Scanner \cup {""}, phase : Phase]]

(* The scan being recorded really looked for fp: a scanner that reported   *)
(* it before ran to its end, was asked for it, and over the paths it is in.*)
LookedFor(fp) ==
  \E s \in history.states[fp].scanners :
    phase[s] = "done" /\ fp \in scan.selection /\ fp \in Covers[scan.scope]

(* history.go: "a finding is fixed only if a scanner that previously       *)
(* reported it actually ran" (rule 1), and "not fixed when it vanished     *)
(* because the exclusion set changed" (rule 2): only a scan that looked    *)
(* for a finding concludes that it is fixed.                               *)
FixedWasLookedFor ==
  [][\A fp \in Fingerprint :
       /\ history.states[fp].status \in OpenStatuses
       /\ history'.states[fp].status = "fixed"
       => LookedFor(fp)]_vars

(* What is concluded fixed without having been looked for is explained: a  *)
(* scanner that had reported it failed in this very scan, or the user      *)
(* narrowed the scanners or the scope.  A scanner that is not installed, a *)
(* tree that changes meanwhile or an interrupted scan never explains it.   *)
PrematureFixIsExplained ==
  [][\A fp \in Fingerprint :
       /\ history.states[fp].status \in OpenStatuses
       /\ history'.states[fp].status = "fixed"
       /\ ~ LookedFor(fp)
       => \/ \E s \in history.states[fp].scanners : phase[s] = "failed"
          \/ scan.selection # Fingerprint
          \/ scan.scope # Whole]_vars

(* "A rare premature 'fixed' [is] corrected to 'regressed' on the next     *)
(* full scan": after two scans of the whole tree in a row of which the     *)
(* second used every scanner, a finding is open in the index exactly when  *)
(* it is in the tree and some scanner detects it, whatever failed earlier. *)
WholeBefore ==
  history.runs # <<>> => history.runs[Len(history.runs)].scope = Whole

FullScanReconciles ==
  [][/\ history' # history
     /\ scan.steady /\ scan.scope = Whole /\ scan.selection = Fingerprint
     /\ \A s \in Scanner : phase[s] = "done"
     /\ WholeBefore
     => \A fp \in Fingerprint :
          history'.states[fp].status \in OpenStatuses
            <=> \E s \in Scanner : fp \in present \cap Detects[s]]_vars

(* While a scan is underway every scanner has one row, which shows its     *)
(* phase: no scanner's row is taken over by another's events.              *)
RowsTellPhases ==
  Underway => \A s \in Scanner :
    \E i \in DOMAIN rows : /\ rows[i] = [name |-> s, phase |-> phase[s]]
                           /\ \A j \in DOMAIN rows : rows[j].name = s => j = i

(* Every scan comes to its end, whatever its scanners do.                  *)
ScansEnd == Underway ~> ~ Underway
=============================================================================
