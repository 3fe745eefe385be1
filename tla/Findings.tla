------------------------------ MODULE Findings ------------------------------
(* The finding of internal/scan and its identity (finding.go,              *)
(* fingerprint.go, canonical.go), the merging of what several tools report *)
(* (dedup.go), and the order in which findings are shown (run.go).         *)
(*                                                                         *)
(* A path is the sequence of its segments, an absolute one with "/" for    *)
(* its first.  A rule identifier is a number: identifiers are compared in  *)
(* upper case, and the numbers follow the order of their spelling.         *)
(* Fingerprints are the tuples that are hashed; SHA-256 is taken to keep   *)
(* them apart.  fixedIn stands for every field that merging only fills.    *)
EXTENDS Integers, SequencesExt, Lists

CONSTANTS
  CVE,        \* the identifiers that begin with "CVE-"
  Alphabet    \* every path segment, in the order of its spelling

ASSUME FindingsAssumption == CVE \subseteq Nat /\ Alphabet \in Seq(STRING)

Severity == 0 .. 5     \* by Rank: unknown, info, low, medium, high, critical

Categories == {"vulnerability", "secret", "misconfiguration", "code", "license"}

NoPackage == [ecosystem |-> "", name |-> "", version |-> ""]

NoSnippet == [tokens |-> "", layout |-> ""]

Paths == Seq(InSeq(Alphabet))

Unnamed == <<>>        \* the fingerprint of a finding that has none yet

-----------------------------------------------------------------------------
(* Identity.                                                               *)

(* Faulty variant: the identifier is taken as the tool gave it.            *)
CanonicalByRule(ruleID, aliases) == ruleID

CanonicalAdvisoryID(ruleID, aliases) ==
  LET cves == ({ruleID} \cup aliases) \cap CVE
  IN  IF cves = {} THEN ruleID ELSE CHOOSE id \in cves : \A other \in cves : id <= other

CanonicalEcosystem(e) ==
  CASE e \in {"Go", "go", "gomod", "gobinary", "go-module"} -> "golang"
    [] e \in {"yarn", "pnpm"} -> "npm"
    [] e \in {"PyPI", "pip", "poetry", "pipenv", "uv", "python-pkg"} -> "pypi"
    [] e \in {"pom", "gradle", "jar"} -> "maven"
    [] OTHER -> e

NormalizePath(p) == SelectSeq(p, LAMBDA segment : segment # ".")

NormalizeSnippet(s) == s.tokens

(* The manifest is part of it, the installed version is not.               *)
DependencyIdentity(f) ==
  <<"pkg", CanonicalAdvisoryID(f.ruleID, f.aliases), NormalizePath(f.path)>>
    \o (IF f.package = NoPackage THEN <<>>
        ELSE <<CanonicalEcosystem(f.package.ecosystem), f.package.name>>)

LocationIdentity(f) ==
  <<"loc", f.ruleID, NormalizePath(f.path), NormalizeSnippet(f.snippet)>>

Fingerprint(f) ==
  IF f.category \in {"vulnerability", "license"}
  THEN DependencyIdentity(f) ELSE LocationIdentity(f)

-----------------------------------------------------------------------------
(* Merging.                                                                *)

Filled(old, new, none) == IF old = none THEN new ELSE old

(* Faulty variant: the grading of the first tool is kept.                  *)
MergeKeepingFirst(a, b) ==
  [a EXCEPT !.scanners = @ \cup {b.scanner}, !.aliases = @ \cup b.aliases]

(* mergeFinding, and Dedup's set of the scanners.                          *)
MergeFinding(a, b) ==
  [a EXCEPT
     !.scanners = @ \cup {b.scanner},
     !.severity = IF b.severity > @ THEN b.severity ELSE @,
     !.line = Filled(@, b.line, 0),
     !.snippet = Filled(@, b.snippet, NoSnippet),
     !.package = Filled(@, b.package, NoPackage),
     !.fixedIn = Filled(@, b.fixedIn, ""),
     !.aliases = @ \cup b.aliases \cup ({b.ruleID} \ {a.ruleID})]

(* A fingerprint keeps the place of its first finding, and the others are  *)
(* merged into that one in order; a finding without one passes.            *)
Take(merged, f) ==
  LET index == {i \in DOMAIN merged : merged[i].fingerprint = f.fingerprint}
  IN  IF f.fingerprint = Unnamed THEN Append(merged, f)
      ELSE IF index = {} THEN Append(merged, [f EXCEPT !.scanners = {f.scanner}])
      ELSE [merged EXCEPT ![Only(index)] = MergeFinding(@, f)]

Dedup(findings) ==
  LET merged[n \in 0 .. Len(findings)] ==
        IF n = 0 THEN <<>>
        ELSE Only({Take(q, f) : q \in {merged[n - 1]}, f \in {findings[n]}})
  IN  merged[Len(findings)]

Agreement(f) == IF f.scanners = {} THEN 1 ELSE Cardinality(f.scanners)

-----------------------------------------------------------------------------
(* Presentation.                                                           *)

SegmentRank(segment) == CHOOSE i \in DOMAIN Alphabet : Alphabet[i] = segment

PathBefore(p, q) ==
  \E i \in DOMAIN q :
    /\ \A j \in 1 .. i - 1 : j \in DOMAIN p /\ p[j] = q[j]
    /\ i \in DOMAIN p => SegmentRank(p[i]) < SegmentRank(q[i])

ShownBefore(a, b) ==
  CASE a.severity # b.severity -> a.severity > b.severity
    [] a.severity = b.severity /\ a.path # b.path -> PathBefore(a.path, b.path)
    [] a.severity = b.severity /\ a.path = b.path /\ a.line # b.line -> a.line < b.line
    [] OTHER -> a.ruleID < b.ruleID

(* sort.SliceStable: each finding comes before those it is shown before,   *)
(* and ties keep the order they have.                                      *)
Placed(sorted, f) ==
  LET after == {i \in DOMAIN sorted : ShownBefore(f, sorted[i])}
      n == Len(sorted) - Cardinality(after)
  IN  SubSeq(sorted, 1, n) \o <<f>> \o SubSeq(sorted, n + 1, Len(sorted))

Sorted(findings) ==
  LET sorted[n \in 0 .. Len(findings)] ==
        IF n = 0 THEN <<>>
        ELSE Only({Placed(q, f) : q \in {sorted[n - 1]}, f \in {findings[n]}})
  IN  sorted[Len(findings)]

(* Findings flattens the results of the scanners.                          *)
Findings(results) == Sorted(Dedup(FlattenSeq(results)))

=============================================================================
