------------------------------ MODULE Adapters ------------------------------
(* The four adapters (internal/scan/trivy, osv, opengrep, trufflehog):     *)
(* when a tool can be used, what it skips, which exit codes and outputs    *)
(* are results, which of its records are worth showing, and the findings   *)
(* they become.                                                            *)
(*                                                                         *)
(* A record of a tool has its path below the scanned directory; OSV,       *)
(* Opengrep and TruffleHog report it absolute.  grade is in the tool's own *)
(* vocabulary, note is what the filter of its adapter looks at.            *)
EXTENDS Findings, Excludes

CONSTANT Dotted   \* the segments that begin with "..", which is not itself one

Tools == {"trivy", "osv", "opengrep", "trufflehog"}

(* What each of them finds.                                                *)
Kinds(s) ==
  CASE s = "trivy" -> Categories \ {"code"}
    [] s = "osv" -> {"vulnerability"}
    [] s = "opengrep" -> {"code"}
    [] s = "trufflehog" -> {"secret"}

-----------------------------------------------------------------------------
(* Preflight.  A binary is missing, broken or works, in some version.      *)
Binary == [state : {"missing", "broken", "works"}, version : {"old", "odd", "recent"}]

TooOld(version) == version = "old"

(* Only Trivy has a least version, and an odd one passes.                  *)
Preflight(s, binary) ==
  /\ binary.state = "works"
  /\ s = "trivy" => ~ TooOld(binary.version)

-----------------------------------------------------------------------------
(* Skipping.  TruffleHog's patterns meet the absolute path.                *)
Skipped(s, e, licenses, root, p) ==
  CASE s = "trivy" -> SkipArgs(e, licenses, p)
    [] s = "osv" -> OSVArgs(e, p)
    [] s = "opengrep" -> OpengrepArgs(e, p)
    [] s = "trufflehog" -> \/ TruffleHogPatterns(e, root \o p)
                           \/ p[Len(p)] \in SecretNoiseExcludes

-----------------------------------------------------------------------------
(* Exits.  Killed is what a signal leaves behind.                          *)
Killed == 0 - 1

TrivyResult(code) == code = 0

(* Faulty variant: 127 is one of the codes for findings.                   *)
OSVResultTo127(code) == code \in 0 .. 128

(* OSV-Scanner tells by its exit code that there are findings, up to 126,  *)
(* or that there are no packages.                                          *)
OSVResult(code) == code \in 0 .. 126 \/ code = 128

(* Opengrep ends with 3 when some source file did not parse.               *)
OpengrepResult(code) == code \in {0, 1, 3}

TruffleHogResult(code) == code \in {0, 183}

ResultExit(s, code) ==
  CASE s = "trivy" -> TrivyResult(code)
    [] s = "osv" -> OSVResult(code)
    [] s = "opengrep" -> OpengrepResult(code)
    [] s = "trufflehog" -> TruffleHogResult(code)

(* run: a deadline that has passed makes any other exit than 0 a timeout.  *)
Completed(s, code, late) == code = 0 \/ (~ late /\ ResultExit(s, code))

(* An output is the records in it, empty, or does not parse.               *)
Decodes(s, form) == form = "records" \/ (form = "empty" /\ s # "trivy")

-----------------------------------------------------------------------------
(* Filters.                                                                *)
ActionableLicense(r) == r.note \in {"forbidden", "restricted", "reciprocal"}

(* Suppressed by a comment, not a defect, or of low confidence.            *)
ActionableMatch(r) ==
  r.note \notin {"ignored", "low confidence"} /\ r.grade \notin {"EXPERIMENT", "INVENTORY"}

(* A record without a detector, a file or a secret cannot be identified.   *)
ActionableSecret(r) == r.note # "unplaced"

Actionable(s, r) ==
  CASE s = "trivy" -> r.category = "license" => ActionableLicense(r)
    [] s = "osv" -> TRUE
    [] s = "opengrep" -> ActionableMatch(r)
    [] s = "trufflehog" -> ActionableSecret(r)

-----------------------------------------------------------------------------
(* Grades.                                                                 *)
TrivySeverity(grade) ==
  CASE grade = "CRITICAL" -> 5 [] grade = "HIGH" -> 4 [] grade = "MEDIUM" -> 3
    [] grade = "LOW" -> 2 [] grade \in {"INFO", "INFORMATIONAL"} -> 1 [] OTHER -> 0

(* The bands of CVSS 3.1, in tenths; what is no score is below 0.          *)
OSVSeverity(score) ==
  CASE score >= 90 -> 5 [] score \in 70 .. 89 -> 4 [] score \in 40 .. 69 -> 3
    [] score \in 1 .. 39 -> 2 [] score = 0 -> 1 [] OTHER -> 0

OpengrepSeverity(grade) ==
  CASE grade = "CRITICAL" -> 5 [] grade \in {"ERROR", "HIGH"} -> 4
    [] grade \in {"WARNING", "MEDIUM"} -> 3 [] grade = "LOW" -> 2
    [] grade = "INFO" -> 1 [] OTHER -> 0

(* Without verification a secret was claimed neither live nor dead, and a  *)
(* verification that failed says no more.                                  *)
TruffleHogSeverity(grade, verify) ==
  CASE verify /\ grade = "verified" -> 5
    [] verify /\ grade = "dead" -> 3
    [] OTHER -> 4

-----------------------------------------------------------------------------
(* Conversion.                                                             *)
(* Faulty variant: the path stays as the tool gave it.                     *)
RelativeKept(root, p) == root \o p

(* trufflehog.                                                             *)
Relative(root, p) == p

(* osv and opengrep take a path whose first segment begins with ".." for   *)
(* one that leaves the root, and keep it absolute.                         *)
RelativePath(root, p) == IF p[1] \in Dotted THEN root \o p ELSE p

Finding(s, r) ==
  [fingerprint |-> Unnamed, scanner |-> s, scanners |-> {}, ruleID |-> r.rule,
   aliases |-> {}, category |-> r.category, severity |-> 0, path |-> r.path, line |-> 0,
   snippet |-> NoSnippet, package |-> NoPackage, fixedIn |-> ""]

(* No aliases; the path is the one Trivy gives.                            *)
TrivyFinding(r) ==
  LET f == [Finding("trivy", r) EXCEPT !.severity = TrivySeverity(r.grade)]
  IN  CASE r.category = "vulnerability" ->
             [f EXCEPT !.package = r.package, !.fixedIn = r.fixedIn]
        [] r.category = "license" -> [f EXCEPT !.package = [r.package EXCEPT !.version = ""]]
        [] OTHER -> [f EXCEPT !.line = r.line, !.snippet = r.snippet]

OSVFinding(root, r) ==
  [Finding("osv", r) EXCEPT
     !.aliases = r.aliases, !.severity = OSVSeverity(r.grade),
     !.path = RelativePath(root, r.path), !.package = r.package, !.fixedIn = r.fixedIn]

OpengrepFinding(root, r) ==
  [Finding("opengrep", r) EXCEPT
     !.severity = OpengrepSeverity(r.grade), !.path = RelativePath(root, r.path),
     !.line = r.line, !.snippet = r.snippet]

(* The snippet is a digest of the secret, which is the model's snippet.    *)
TruffleHogFinding(root, verify, r) ==
  [Finding("trufflehog", r) EXCEPT
     !.severity = TruffleHogSeverity(r.grade, verify), !.path = Relative(root, r.path),
     !.line = r.line, !.snippet = [tokens |-> r.snippet.tokens, layout |-> ""]]

FindingOf(s, root, verify, r) ==
  LET f == CASE s = "trivy" -> TrivyFinding(r)
             [] s = "osv" -> OSVFinding(root, r)
             [] s = "opengrep" -> OpengrepFinding(root, r)
             [] s = "trufflehog" -> TruffleHogFinding(root, verify, r)
  IN  [f EXCEPT !.fingerprint = Fingerprint(f)]

Convert(s, root, verify, records) ==
  Picked([i \in DOMAIN records |-> FindingOf(s, root, verify, records[i])],
         {i \in DOMAIN records : Actionable(s, records[i])})
=============================================================================
