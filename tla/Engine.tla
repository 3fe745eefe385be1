------------------------------- MODULE Engine -------------------------------
(* One command "pindrop scan --format json --out FILE", run again and      *)
(* again on a tree that stays the same (internal/scan/run.go, cli/scan.go, *)
(* the adapters' Scan): the tools run concurrently, each with temporary    *)
(* files and a deadline of its own; they end as they should, end with part *)
(* of their output, crash or hang; what the others reported is filtered,   *)
(* merged, recorded, cut at --min-severity and written to the file that    *)
(* "pindrop serve --results" reads on every request.                       *)
EXTENDS Adapters

CONSTANTS
  Cases,         \* the trees, machines and command lines to try, by name
  Registry,      \* scannerRegistry: the tools, in order
  OtherRoot,     \* where another checkout of the tree may be
  MaxTrouble,    \* bound: the tools of one scan that do not end as they should
  MaxScans       \* bound: scans

NoThreshold == 6      \* --fail-on was not given

(* A record tool s may write: of a kind it finds, below the tree.          *)
RecordOf(s, r) ==
  /\ r.rule \in Nat /\ r.aliases \subseteq Nat /\ r.category \in Kinds(s)
  /\ r.path \in Paths /\ r.path # <<>> /\ r.path[1] \notin {"/", ".."}
  /\ r.line \in Int /\ r.fixedIn \in STRING
  /\ r.snippet \in [tokens : STRING, layout : STRING]
  /\ r.package \in [ecosystem : STRING, name : STRING, version : STRING]

ASSUME BoundsAssumption == MaxTrouble \in Nat /\ MaxScans \in Nat

ASSUME RegistryAssumption == Registry \in Seq(Tools) /\ InSeq(Registry) = Tools

ASSUME CasesAssumption ==
  /\ OtherRoot \in Paths
  /\ \A c \in DOMAIN Cases :
       /\ Cases[c].root \in Paths /\ Cases[c].root # <<>> /\ Cases[c].root[1] = "/"
       /\ Cases[c].min \in Int /\ Cases[c].failOn \in Int
       /\ \A s \in Tools :
            /\ Cases[c].reports[s] \in Seq(InSeq(Cases[c].reports[s]))
            /\ \A r \in InSeq(Cases[c].reports[s]) : RecordOf(s, r)

(* A vulnerability is one of a package, and CanonicalEcosystem knows the   *)
(* names that the tools give to the ecosystem of a package in a manifest   *)
(* ("Both Trivy's names and OSV's are covered").                           *)
ASSUME EcosystemAssumption ==
  \A c \in DOMAIN Cases, s, t \in Tools :
    \A r \in InSeq(Cases[c].reports[s]), q \in InSeq(Cases[c].reports[t]) :
      r.category = "vulnerability" /\ q.category = "vulnerability" =>
        /\ r.package.name # ""
        /\ r.path = q.path /\ r.package.name = q.package.name =>
             CanonicalEcosystem(r.package.ecosystem) = CanonicalEcosystem(q.package.ecosystem)

VARIABLES
  case,      \* which of the cases it is
  phase,     \* where each tool is
  ended,     \* how its process ended: fate, exit code, form of the output
  late,      \* the tools whose deadline has passed
  temp,      \* the tools whose temporary files exist
  result,    \* the findings in the result of each tool
  outcome,   \* what the last scan was told, recorded and showed, its exit
  told,      \* what the scans were told by the tools and what they showed
  file,      \* the report file
  scans      \* how many scans were begun

vars == <<case, phase, ended, late, temp, result, outcome, told, file, scans>>

Alive == [fate |-> "alive", code |-> 0, form |-> "empty"]

NoOutcome == [by |-> <<>>, recorded |-> <<>>, shown |-> <<>>, exit |-> "none"]

NoFile == [state |-> "absent", version |-> 0, findings |-> <<>>]

SchemaVersion == 2

(* The tree, and what each tool would report of it if it skipped nothing;  *)
(* the machine; the configuration and the command line.                    *)
setup == Cases[case]

Init ==
  /\ case \in DOMAIN Cases
  /\ phase = [s \in Tools |-> "idle"]
  /\ ended = [s \in Tools |-> Alive]
  /\ late = {}
  /\ temp = {}
  /\ result = [s \in Tools |-> <<>>]
  /\ outcome = NoOutcome
  /\ told = {}
  /\ file \in {NoFile, [NoFile EXCEPT !.state = "whole", !.version = SchemaVersion + 1]}
  /\ scans = 0

At(s, p) == phase[s] = p

Going(s, p) == phase' = [phase EXCEPT ![s] = p]

Underway == \E s \in Tools : ~ At(s, "idle")

Usable == {s \in Tools : Preflight(s, setup.machine[s])}

Excluded ==
  [c \in DOMAIN Cases |-> ResolveExcludes(Cases[c].config, Cases[c].replace, Cases[c].user)]

Troubled ==
  late \cup {s \in Tools : At(s, "hung") \/ ended[s].fate \notin {"alive", "fine"}}

MayFail(s) == Cardinality(Troubled \cup {s}) <= MaxTrouble

-----------------------------------------------------------------------------
(* The tools, external to pindrop.                                         *)

ReportedIn(c, s) ==
  LET all == Cases[c].reports[s]
      skips(r) == Skipped(s, Excluded[c], Cases[c].licenses, Cases[c].root, r.path)
  IN  Picked(all, {i \in DOMAIN all : ~ skips(all[i])})

ReportedIf == [c \in DOMAIN Cases |-> [s \in Tools |-> ReportedIn(c, s)]]

Reported(s) == ReportedIf[case][s]

(* OSV-Scanner alone tells by its code whether it found something.         *)
Fine(s) ==
  [fate |-> "fine",
   code |-> IF s # "osv" THEN 0 ELSE IF Reported(s) = <<>> THEN 128 ELSE 1,
   form |-> IF Reported(s) = <<>> /\ s # "trivy" THEN "empty" ELSE "records"]

(* One source file did not parse.                                          *)
Partial == [fate |-> "partial", code |-> 3, form |-> "records"]

CrashCodes(s) ==
  CASE s = "trivy" -> {1, Killed}
    [] s = "osv" -> {127, Killed}
    [] s = "opengrep" -> {2, Killed}
    [] s = "trufflehog" -> {1, Killed}

(* A tool that crashed may have written all it had to write.               *)
Crashed(s) == [fate : {"crashed"}, code : CrashCodes(s), form : {"records"}]

(* Its output is not what the adapter understands.                         *)
Garbled == [fate |-> "garbled", code |-> 0, form |-> "garbled"]

(* The records a tool wrote, by how it ended.                              *)
Output(s) ==
  CASE ended[s].form # "records" -> <<>>
    [] ended[s].fate = "partial" /\ Reported(s) # <<>> -> Tail(Reported(s))
    [] OTHER -> Reported(s)

-----------------------------------------------------------------------------
(* scan.Run.                                                               *)

Start ==
  /\ ~ Underway /\ file.state # "torn"
  /\ scans < MaxScans
  /\ Usable # {}
  /\ scans' = scans + 1
  /\ phase' = [s \in Tools |-> IF s \in Usable THEN "queued" ELSE "idle"]
  /\ ended' = [s \in Tools |-> Alive]
  /\ late' = {}
  /\ result' = [s \in Tools |-> <<>>]
  /\ outcome' = NoOutcome
  /\ UNCHANGED <<case, temp, told, file>>

(* The tools that are given files: Opengrep its rules, TruffleHog its      *)
(* patterns.                                                               *)
Given == {"opengrep", "trufflehog"}

(* Faulty variant: the files are removed where they were written.          *)
BeginThenCleanUp(s) ==
  /\ At(s, "queued")
  /\ Going(s, "running")
  /\ UNCHANGED <<case, ended, late, temp, result, outcome, told, file, scans>>

(* Scan writes the files and starts the process.                           *)
Begin(s) ==
  /\ At(s, "queued")
  /\ Going(s, "running")
  /\ temp' = temp \cup ({s} \cap Given)
  /\ UNCHANGED <<case, ended, late, result, outcome, told, file, scans>>

(* The binary is gone since Preflight, or a file could not be written.     *)
Stillborn(s) ==
  /\ At(s, "queued")
  /\ MayFail(s)
  /\ Going(s, "failed")
  /\ ended' = [ended EXCEPT ![s].fate = "stillborn"]
  /\ UNCHANGED <<case, late, temp, result, outcome, told, file, scans>>

Hang(s) ==
  /\ At(s, "running")
  /\ MayFail(s)
  /\ Going(s, "hung")
  /\ UNCHANGED <<case, ended, late, temp, result, outcome, told, file, scans>>

End(s, how) ==
  /\ Going(s, "ended")
  /\ ended' = [ended EXCEPT ![s] = how]
  /\ UNCHANGED <<case, late, temp, result, outcome, told, file, scans>>

Finish(s) ==
  /\ At(s, "running") /\ s \notin late
  /\ End(s, Fine(s))

Fail(s) ==
  /\ At(s, "running")
  /\ MayFail(s)
  /\ \E how \in Crashed(s) \cup {Garbled} \cup (IF s = "opengrep" THEN {Partial} ELSE {}) :
       End(s, how)

(* Faulty variant: the deadline is looked at once the process has ended.   *)
DeadlineAfterwards(s) ==
  /\ At(s, "ended")
  /\ s \notin late /\ MayFail(s)
  /\ late' = late \cup {s}
  /\ UNCHANGED <<case, phase, ended, temp, result, outcome, told, file, scans>>

(* WithTimeout: it may also pass after the process ended and before run    *)
(* asks for ctx.Err.                                                       *)
Deadline(s) ==
  /\ phase[s] \in {"running", "hung", "ended"}
  /\ s \notin late
  /\ At(s, "hung") \/ MayFail(s)
  /\ late' = late \cup {s}
  /\ UNCHANGED <<case, phase, ended, temp, result, outcome, told, file, scans>>

Kill(s) ==
  /\ phase[s] \in {"running", "hung"} /\ s \in late
  /\ End(s, [fate |-> "killed", code |-> Killed, form |-> "records"])

(* Scan classifies the exit, decodes and converts; Run filters.  Whatever  *)
(* it returns, the files are removed.                                      *)
Return(s) ==
  LET e == ended[s]
      good == Completed(s, e.code, s \in late) /\ Decodes(s, e.form)
  IN
  /\ At(s, "ended")
  /\ Going(s, IF good THEN "done" ELSE "failed")
  /\ \E output \in {Output(s)} :
     \E found \in {Convert(s, setup.root, setup.verify, output)} :
       result' = [result EXCEPT ![s] = IF good THEN Filter(Excluded[case], found) ELSE @]
  /\ temp' = temp \ {s}
  /\ UNCHANGED <<case, ended, late, outcome, told, file, scans>>

-----------------------------------------------------------------------------
(* runScan.                                                                *)

Done == {s \in Tools : At(s, "done")}

(* Faulty variant: the results in the order the tools happen to have ended *)
(* in, here those that had trouble last.                                   *)
CollectedAsEnded ==
  LET of(S) == Picked(Registry, {i \in DOMAIN Registry : Registry[i] \in Done \cap S})
      order == of(Tools \ late) \o of(late)
  IN  [i \in DOMAIN order |-> result[order[i]]]

(* Run keeps a slot for each scanner, and drops those that failed.         *)
Slots(results, S) ==
  Picked([i \in DOMAIN Registry |-> results[Registry[i]]],
         {i \in DOMAIN Registry : Registry[i] \in S})

Collected == Slots(result, Done)

(* Faulty variant: the filter comes first, and history records what it     *)
(* left.                                                                   *)
RecordedFiltered(results) ==
  LET above(q) == Picked(q, {k \in DOMAIN q : q[k].severity > setup.min})
  IN  Findings([i \in DOMAIN results |-> above(results[i])])

Recorded(results) == Findings(results)

FilterBySeverity(results, min) ==
  LET above(q) == Picked(q, {k \in DOMAIN q : q[k].severity >= min})
  IN  [i \in DOMAIN results |-> above(results[i])]

ExceedsThreshold(results, threshold) ==
  \E i \in DOMAIN results : \E k \in DOMAIN results[i] : results[i][k].severity >= threshold

(* What history and the user get of the results; writeReport has created,  *)
(* or truncated, the file.                                                 *)
Report ==
  /\ Underway
  /\ \A s \in Tools : phase[s] \in {"idle", "done", "failed"}
  /\ Done # {}
  /\ \E kept \in {FilterBySeverity(Collected, setup.min)} :
     \E by \in {[s \in Done |-> Output(s)]},
        recorded \in {Recorded(Collected)}, shown \in {Findings(kept)} :
       /\ outcome' = [by |-> by, recorded |-> recorded, shown |-> shown,
                      exit |-> IF ExceedsThreshold(kept, setup.failOn) THEN "threshold" ELSE "ok"]
       /\ told' = told \cup {[by |-> by, shown |-> shown]}
  /\ file' = [state |-> "torn", version |-> 0, findings |-> <<>>]
  /\ phase' = [s \in Tools |-> "idle"]
  /\ UNCHANGED <<case, ended, late, temp, result, scans>>

Write ==
  /\ file.state = "torn"
  /\ file' = [state |-> "whole", version |-> SchemaVersion, findings |-> outcome.shown]
  /\ UNCHANGED <<case, phase, ended, late, temp, result, outcome, told, scans>>

(* Not one tool has a result.                                              *)
GiveUp ==
  /\ Underway
  /\ \A s \in Tools : phase[s] \in {"idle", "failed"}
  /\ outcome' = [NoOutcome EXCEPT !.exit = "error"]
  /\ phase' = [s \in Tools |-> "idle"]
  /\ UNCHANGED <<case, ended, late, temp, result, told, file, scans>>

(* FileSource, DecodeDocument: what a request reads.                       *)
Unreadable == [ok |-> FALSE, findings |-> <<>>]

(* Faulty variant: a file that ends early is a report without findings.    *)
DocumentOrEmpty ==
  IF file.state # "absent" /\ file.version \in 0 .. SchemaVersion
  THEN [ok |-> TRUE, findings |-> file.findings] ELSE Unreadable

Document ==
  IF file.state = "whole" /\ file.version \in 1 .. SchemaVersion
  THEN [ok |-> TRUE, findings |-> file.findings] ELSE Unreadable

ToolStep(s) ==
  Begin(s) \/ Stillborn(s) \/ Hang(s) \/ Finish(s) \/ Fail(s)
    \/ Deadline(s) \/ Kill(s) \/ Return(s)

(* Processes and goroutines go on, a deadline passes, and runScan goes on  *)
(* once all have returned: something does, whichever it is.  Nobody has to *)
(* begin another scan.                                                     *)
Onward ==
  \/ \E s \in Tools : ToolStep(s)
  \/ Report
  \/ Write
  \/ GiveUp

Next == Start \/ Onward

Spec == Init /\ [][Next]_vars /\ WF_vars(Onward)
-----------------------------------------------------------------------------
TypeOK ==
  /\ case \in DOMAIN Cases
  /\ phase \in [Tools -> {"idle", "queued", "running", "hung", "ended", "done", "failed"}]
  /\ late \subseteq Tools
  /\ temp \subseteq Given
  /\ \A f \in InSeq(outcome.recorded) :
       f.severity \in Severity /\ f.category \in Categories
  /\ outcome.exit \in {"none", "ok", "threshold", "error"}
  /\ file.state \in {"absent", "torn", "whole"}
  /\ scans \in 0 .. MaxScans

(* run.go, "one scanner failing does not discard the others", and          *)
(* finding.go, "a non-nil error means the tool itself failed": a tool that *)
(* crashed, was killed or could not be understood is never taken for one   *)
(* that looked and found nothing, whatever its exit code and its output.   *)
FailureIsNeverSilent ==
  \A s \in Tools : At(s, "done") => ended[s].fate \in {"fine", "partial"}

(* exclude.go writes that writeExcludeFile's file must outlive cmd.Wait,   *)
(* and rules.go likewise: a tool never runs without its files, and none    *)
(* are left when the scan is over, however its tools ended.                *)
TempOutlivesTool ==
  /\ \A s \in Given : phase[s] \in {"running", "hung"} => s \in temp
  /\ ~ Underway => temp = {}

(* What a tool is known to skip although the exclusions keep it: lockfiles *)
(* for the secret scanner; every path of a tree that lies in a directory   *)
(* with an excluded name, for the patterns of TruffleHog; and a directory  *)
(* with the name of an excluded file, for Opengrep.                        *)
KnownToSkip(c, s, p) ==
  \/ s = "trufflehog" /\ p[Len(p)] \in SecretNoiseExcludes
  \/ s = "trufflehog" /\ InDir(Excluded[c].dirs, Cases[c].root \o <<"">>)
  \/ s = "opengrep" /\ InDir(Excluded[c].files, p)

(* All that a tool may tell of the tree of a case.                         *)
ReportsOf(c) == UNION {[tool : {s}, record : InSeq(Cases[c].reports[s])] : s \in Tools}

SkippedUnexplained ==
  [c \in DOMAIN Cases |->
    {x \in ReportsOf(c) :
       \E s \in {x.tool}, p \in {x.record.path} :
         /\ Skipped(s, Excluded[c], Cases[c].licenses, Cases[c].root, p)
         /\ ~ Match(Excluded[c], p) /\ ~ KnownToSkip(c, s, p)}]

(* exclude.go, "native scanner flags are the fast path": apart from that,  *)
(* no tool is told to skip what the exclusions keep, so that the flags     *)
(* change how long a scan takes and not what it reports; a file named like *)
(* an excluded directory, above all, is scanned.                           *)
SkipsAreExplained == SkippedUnexplained[case] = {}

(* Run filters what comes back: nothing inside an excluded path is shown   *)
(* or recorded, whatever the tools were able to skip.                      *)
NothingExcluded ==
  \A f \in InSeq(outcome.shown) \cup InSeq(outcome.recorded) : ~ Match(Excluded[case], f.path)

(* The exclusions are applied twice, by each tool as it understands its    *)
(* flags and by Run: the two hide the same.                                *)
ExclusionsAgree == SkipsAreExplained /\ NothingExcluded

(* What the tools told that is worth showing, as a set.                    *)
Worth ==
  {f \in UNION {{FindingOf(s, setup.root, setup.verify, r) :
                   r \in {q \in InSeq(outcome.by[s]) : Actionable(s, q)}} :
                 s \in DOMAIN outcome.by} :
     ~ Match(Excluded[case], f.path) /\ f.severity >= setup.min}

(* run.go and dedup.go: the report has each problem that some tool told of *)
(* once, with the greatest severity and all the tools that gave it, and    *)
(* nothing else; through conversion, filters, merging and sorting nothing  *)
(* is lost, and the greater severity comes first.                          *)
ShownIsWhatWasTold ==
  LET same(g) == {f \in Worth : f.fingerprint = g.fingerprint}
      shown == outcome.shown
  IN
  /\ {g.fingerprint : g \in InSeq(shown)} = {f.fingerprint : f \in Worth}
  /\ \A i, j \in DOMAIN shown :
       i < j => /\ shown[i].fingerprint # shown[j].fingerprint
                /\ shown[i].severity >= shown[j].severity
  /\ \A g \in InSeq(shown) : \A group \in {same(g)} :
       /\ g.scanners = {f.scanner : f \in group}
       /\ g.severity \in {f.severity : f \in group}
       /\ \A f \in group : f.severity <= g.severity
       /\ Fingerprint(g) = g.fingerprint

(* canonical.go, "two tools describing one problem produce one             *)
(* fingerprint": two tools never make two issues of one package in one     *)
(* manifest and one CVE, unless one of them names several.                 *)
OneIssueOnce ==
  \A f, g \in InSeq(outcome.shown) :
    LET cves(h) == ({h.ruleID} \cup h.aliases) \cap CVE IN
    /\ f # g
    /\ f.category = "vulnerability" /\ g.category = "vulnerability"
    /\ f.path = g.path /\ f.package.name = g.package.name
    => \A id \in CVE : cves(f) # {id} \/ cves(g) # {id}

(* cli/scan.go, "persist BEFORE filtering": --min-severity hides whole     *)
(* findings.  What is shown is recorded with the same severity, by at      *)
(* least the same tools, and what is recorded at that severity is shown.   *)
ShownIsRecorded ==
  LET known == InSeq(outcome.recorded) IN
  /\ \A f \in InSeq(outcome.shown) : \E g \in known :
       /\ g.fingerprint = f.fingerprint /\ g.severity = f.severity
       /\ f.scanners \subseteq g.scanners /\ Agreement(f) <= Agreement(g)
  /\ \A g \in known :
       g.severity >= setup.min => g.fingerprint \in {f.fingerprint : f \in InSeq(outcome.shown)}

(* --fail-on is decided on the findings of each tool, before they are      *)
(* merged, and yet fails the command exactly when the report shows such a  *)
(* finding.                                                                *)
FailOnAgreesWithReport ==
  outcome.exit \in {"ok", "threshold"} =>
    (outcome.exit = "threshold" <=> \E f \in InSeq(outcome.shown) : f.severity >= setup.failOn)

(* What a scan records, shows and exits with is decided at three stages of *)
(* one list of findings: none contradicts another.                         *)
OutcomeAgrees == ShownIsRecorded /\ FailOnAgreesWithReport

(* run.go, "identical scans render identically": two scans that were told  *)
(* the same by the same tools show the same report, in whatever order the  *)
(* tools started and ended.                                                *)
SameScanSameReport ==
  \A t, u \in told : t.by = u.by => t.shown = u.shown

(* source.go reads the file on every request, while scans truncate and     *)
(* write it in place: a request gets a report some scan wrote, or an       *)
(* error, and never part of one.                                           *)
ReadsAreWhole ==
  Document.ok => \E t \in told : t.shown = Document.findings

Moved ==
  [c \in DOMAIN Cases |->
    {x \in ReportsOf(c) :
       LET print(root) == FindingOf(x.tool, root, Cases[c].verify, x.record).fingerprint
       IN  /\ print(Cases[c].root) # print(OtherRoot)
           /\ ~ (x.tool \in {"osv", "opengrep"} /\ x.record.path[1] \in Dotted)}]

(* osv's relativePath, "an absolute path would make a finding's identity   *)
(* depend on the checkout directory": a finding has one identity in every  *)
(* checkout, except below a directory whose name begins with "..", of      *)
(* which osv and opengrep think that it is outside the tree.               *)
IdentityIsPortable == Moved[case] = {}

(* A scan ends, though tools crash or hang, and the file is whole again.   *)
ScanReturns == Underway ~> ~ Underway /\ file.state # "torn"
=============================================================================
