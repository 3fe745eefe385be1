---------------------------- MODULE HistoryRules ----------------------------
(***************************************************************************)
(* What a sequence of scans says about each finding, by the rules of       *)
(* history.go and the transition table of state.go.  The rules are stated  *)
(* over all the scans at once, not run by run: this is the reference       *)
(* definition the fold of Lifecycle is compared with.                      *)
(*                                                                         *)
(* Only the id, scope, ran, found and counted of a scan are read: the      *)
(* operators apply to a ledger and to a sequence of run rows alike.        *)
(***************************************************************************)
EXTENDS Lifecycle, FiniteSets

Reports(l, fp, i) == l[i].counted /\ l[i].found[fp] # {}

Sightings(l, fp) == {i \in DOMAIN l : Reports(l, fp, i)}

Reporters(l, fp, n) ==
  UNION {l[i].found[fp] : i \in {k \in Sightings(l, fp) : k <= n}}

(* Scan j saw that fp was gone: some scanner that had reported it ran      *)
(* (rule 1) over the scope of the scan before (rule 2), and no scanner     *)
(* reported it.                                                            *)
Concludes(l, fp, j) ==
  /\ l[j].counted
  /\ l[j].found[fp] = {}
  /\ j > 1 /\ l[j].scope = l[j - 1].scope
  /\ Reporters(l, fp, j) \cap l[j].ran # {}

(* After the first n scans fp is fixed: one of them concluded so and none  *)
(* from it on reported fp.                                                 *)
FixedAsOf(l, fp, n) ==
  \E j \in 1 .. n : /\ Concludes(l, fp, j)
                    /\ \A k \in j .. n : ~ Reports(l, fp, k)

(* The scans that turned fp from open to fixed, and the ones that reported *)
(* it back.                                                                *)
Fixes(l, fp) ==
  {j \in DOMAIN l : Concludes(l, fp, j) /\ ~ FixedAsOf(l, fp, j - 1)}

Returns(l, fp) == {k \in Sightings(l, fp) : FixedAsOf(l, fp, k - 1)}

IsFirst(i, S) == i \in S /\ \A k \in S : i <= k

IsLast(i, S) == i \in S /\ \A k \in S : k <= i

StatusFrom(l, fp, first, last) ==
  IF FixedAsOf(l, fp, Len(l)) THEN "fixed"
  ELSE IF first = last THEN "new"
  ELSE IF last \in Returns(l, fp) THEN "regressed"
  ELSE "open"

(* st is the index entry the ledger gives fp.                              *)
Explains(l, fp, st) ==
  LET seen == Sightings(l, fp) IN
  \/ seen = {} /\ st = Absent
  \/ \E first, last \in seen :
       /\ IsFirst(first, seen) /\ IsLast(last, seen)
       /\ st.firstRun = l[first].id
       /\ st.lastRun = l[last].id
       /\ st.status = StatusFrom(l, fp, first, last)
       /\ st.scanners = Reporters(l, fp, Len(l))
       /\ st.occurrences = Cardinality(seen)
       /\ st.regressions = Cardinality(Returns(l, fp))
       /\ \/ Fixes(l, fp) = {} /\ st.fixedRun = NoRun
          \/ \E j \in Fixes(l, fp) : IsLast(j, Fixes(l, fp)) /\ st.fixedRun = l[j].id

(* What scan i, one that counts, counted for fp.                           *)
MarkOf(l, fp, i) ==
  LET seen == Sightings(l, fp) IN
  IF i \in Fixes(l, fp) THEN "fixed"
  ELSE IF i \notin seen THEN "none"
  ELSE IF IsFirst(i, seen) THEN "new"
  ELSE IF i \in Returns(l, fp) THEN "regressed"
  ELSE "open"

(* What a run row counts and what its document stores are what the scans   *)
(* say of it.                                                              *)
DeltasOf(rows) ==
  \A i \in DOMAIN rows : rows[i].counted =>
    \A fp \in Fingerprint :
      /\ rows[i].delta[fp] = MarkOf(rows, fp, i)
      /\ rows[i].found[fp] # {} => rows[i].marks[fp] = rows[i].delta[fp]

IndexOf(l, states) == \A fp \in Fingerprint : Explains(l, fp, states[fp])

=============================================================================
