--------------------------- MODULE LifecycleProofs ---------------------------
(* Facts about the fold of Lifecycle, for every run row and every index.   *)
EXTENDS HistoryRules, FiniteSetTheorems, TLAPS

-----------------------------------------------------------------------------
(* A minted id sorts after the newest run, and is not the empty id.        *)
LEMMA MintedIsNewer ==
  ASSUME NEW second \in Nat \ {0}, NEW newest \in Nat,
         NEW id \in MintRunIDAfter(second, newest)
  PROVE  id \in RunID /\ newest < id
<1> DEFINE draws == {RunIDAt(second, suffix) : suffix \in Suffix}
           later == {i \in draws : i > newest}
<1>1. \A suffix \in Suffix : suffix \in {0, 1}
  BY SuffixAssumption
<1>2. \A i \in draws : i \in RunID
  BY <1>1 DEF RunIDAt, RunID
<1>3. \A suffix \in Suffix : /\ RunIDAt(SecondOf(newest) + 1, suffix) \in RunID
                             /\ RunIDAt(SecondOf(newest) + 1, suffix) > newest
  BY <1>1 DEF RunIDAt, RunID, SecondOf
<1>4. CASE newest = NoRun \/ draws = later
  <2>1. id \in draws
    BY <1>4 DEF MintRunIDAfter
  <2> QED
    BY <1>2, <1>4, <2>1 DEF NoRun, RunID
<1>5. CASE ~ (newest = NoRun \/ draws = later)
  <2>1. id \in later \cup {RunIDAt(SecondOf(newest) + 1, suffix) : suffix \in Suffix}
    BY <1>5 DEF MintRunIDAfter
  <2> QED
    BY <1>2, <1>3, <2>1 DEF RunID
<1> QED
  BY <1>4, <1>5

(* One run moves one fingerprint's entry to an entry.                      *)
LEMMA SightedType ==
  ASSUME NEW st \in FindingState, NEW reporters \in SUBSET Scanner, NEW id \in Nat
  PROVE  Sighted(st, reporters, id) \in FindingState
BY DEF Sighted, FindingState, OpenStatuses

LEMMA MissedType ==
  ASSUME NEW st \in FindingState, NEW ran, NEW changed, NEW id \in Nat
  PROVE  Missed(st, ran, changed, id) \in FindingState
BY DEF Missed, FindingState, OpenStatuses

(* The fold of an index is an index.                                       *)
LEMMA AdvanceType ==
  ASSUME NEW states \in [Fingerprint -> FindingState], NEW row \in RunRow,
         NEW changed
  PROVE  Advance(states, row, changed) \in [Fingerprint -> FindingState]
<1>1. row.id \in Nat /\ \A fp \in Fingerprint : row.found[fp] \in SUBSET Scanner
  BY DEF RunRow, RunID
<1>2. ASSUME NEW fp \in Fingerprint
      PROVE  /\ Sighted(states[fp], row.found[fp], row.id) \in FindingState
             /\ Missed(states[fp], row.ran, changed, row.id) \in FindingState
  BY <1>1, SightedType, MissedType
<1> QED
  BY <1>2 DEF Advance

(* A finding a run reports on holds one of the four statuses after it.     *)
LEMMA MarksOfType ==
  ASSUME NEW states \in [Fingerprint -> FindingState], NEW row \in RunRow,
         NEW changed
  PROVE  MarksOf(states, Advance(states, row, changed), row) \in Marks
<1> DEFINE next == Advance(states, row, changed)
<1>1. ASSUME NEW fp \in Fingerprint,
             row.found[fp] # {} \/ next[fp].status # states[fp].status
      PROVE  next[fp].status \in OpenStatuses \cup {"fixed"}
  <2>1. CASE row.found[fp] # {}
    <3>1. next[fp] = Sighted(states[fp], row.found[fp], row.id)
      BY <2>1 DEF Advance
    <3> QED
      BY <3>1 DEF Sighted, OpenStatuses
  <2>2. CASE row.found[fp] = {}
    <3>1. next[fp] = Missed(states[fp], row.ran, changed, row.id)
      BY <2>2 DEF Advance
    <3>2. states[fp] \in FindingState
      OBVIOUS
    <3> QED
      BY <1>1, <2>2, <3>1, <3>2 DEF Missed, FindingState, OpenStatuses
  <2> QED
    BY <2>1, <2>2
<1> QED
  BY <1>1 DEF MarksOf, Marks

(* The newest id of a sequence of rows.                                    *)
LEMMA NewestIDType ==
  ASSUME NEW rows \in Seq(RunRow)
  PROVE  NewestID(rows) \in Nat
<1>1. CASE rows = <<>>
  BY <1>1 DEF NewestID, NoRun
<1>2. CASE rows # <<>>
  <2>1. Len(rows) \in DOMAIN rows
    BY <1>2
  <2>2. rows[Len(rows)] \in RunRow
    BY <2>1
  <2> QED
    BY <1>2, <2>2 DEF NewestID, RunRow, RunID
<1> QED
  BY <1>1, <1>2

(* The row a run leaves in the fold: what the scan said, chained to the    *)
(* newest run before it.                                                   *)
LEMMA ApplyRunShape ==
  ASSUME NEW fold \in Fold, NEW row \in RunRow
  PROVE  /\ ApplyRun(fold, row) \in Fold
         /\ \E new \in RunRow :
              /\ ApplyRun(fold, row).runs = Append(fold.runs, new)
              /\ new.id = row.id
              /\ new.prev = NewestID(fold.runs)
<1> DEFINE changed == ScopeChanged(fold.runs, row.scope)
           next == Advance(fold.states, row, changed)
           marks == MarksOf(fold.states, next, row)
           base == [row EXCEPT !.prev = NewestID(fold.runs), !.counted = row.readable]
           told == [base EXCEPT !.delta = marks,
                                !.marks = IF marks = NoMarks THEN @ ELSE marks]
<1>1. fold.runs \in Seq(RunRow) /\ fold.states \in [Fingerprint -> FindingState]
  BY DEF Fold
<1>2. next \in [Fingerprint -> FindingState] /\ marks \in Marks
  BY <1>1, AdvanceType, MarksOfType
<1>3. ApplyRun(fold, row) =
        IF row.readable THEN [runs |-> Append(fold.runs, told), states |-> next]
        ELSE [runs |-> Append(fold.runs, base), states |-> fold.states]
  BY DEF ApplyRun
<1> HIDE DEF marks, next
<1>4. base \in RunRow /\ base.id = row.id /\ base.prev = NewestID(fold.runs)
  BY <1>1, NewestIDType DEF RunRow
<1> HIDE DEF base
<1>5. told \in RunRow /\ told.id = row.id /\ told.prev = NewestID(fold.runs)
  BY <1>2, <1>4 DEF RunRow
<1> HIDE DEF told
<1>6. \A new \in RunRow : Append(fold.runs, new) \in Seq(RunRow)
  BY <1>1
<1>7. CASE row.readable
  BY <1>2, <1>3, <1>5, <1>6, <1>7 DEF Fold
<1>8. CASE ~ row.readable
  BY <1>1, <1>3, <1>4, <1>6, <1>8 DEF Fold
<1> QED
  BY <1>7, <1>8

-----------------------------------------------------------------------------
(* The rules, one scan at a time: m is l and one more scan, the last.      *)
Longer(l, m, n) ==
  /\ n \in Nat /\ Len(l) = n /\ Len(m) = n + 1
  /\ DOMAIN l = 1 .. n /\ DOMAIN m = 1 .. n + 1
  /\ \A i \in 1 .. n : m[i] = l[i]

LEMMA AppendIsLonger ==
  ASSUME NEW S, NEW l \in Seq(S), NEW new \in S
  PROVE  Longer(l, Append(l, new), Len(l)) /\ Append(l, new)[Len(l) + 1] = new
BY DEF Longer

(* What the first n scans say stays as it was.                             *)
LEMMA PastStays ==
  ASSUME NEW l, NEW m, NEW n, NEW fp, Longer(l, m, n)
  PROVE  /\ \A i \in 1 .. n : Reports(m, fp, i) <=> Reports(l, fp, i)
         /\ \A k \in 0 .. n : Reporters(m, fp, k) = Reporters(l, fp, k)
         /\ \A j \in 1 .. n : Concludes(m, fp, j) <=> Concludes(l, fp, j)
         /\ \A k \in 0 .. n : FixedAsOf(m, fp, k) <=> FixedAsOf(l, fp, k)
<1>1. \A i \in 1 .. n : Reports(m, fp, i) <=> Reports(l, fp, i)
  BY DEF Longer, Reports
<1>2. ASSUME NEW k \in 0 .. n PROVE Reporters(m, fp, k) = Reporters(l, fp, k)
  <2>1. {i \in Sightings(m, fp) : i <= k} = {i \in Sightings(l, fp) : i <= k}
    BY <1>1 DEF Longer, Sightings
  <2>2. \A i \in {i \in Sightings(l, fp) : i <= k} : m[i] = l[i]
    BY DEF Longer, Sightings
  <2> QED
    BY <2>1, <2>2 DEF Reporters
<1>3. ASSUME NEW j \in 1 .. n PROVE Concludes(m, fp, j) <=> Concludes(l, fp, j)
  <2>1. m[j] = l[j] /\ (j > 1 => m[j - 1] = l[j - 1])
    BY DEF Longer
  <2> QED
    BY <1>2, <2>1 DEF Longer, Concludes
<1>4. ASSUME NEW k \in 0 .. n PROVE FixedAsOf(m, fp, k) <=> FixedAsOf(l, fp, k)
  <2>1. \A j \in 1 .. k : j \in 1 .. n
    BY DEF Longer
  <2> QED
    BY <1>1, <1>3, <2>1 DEF FixedAsOf
<1> QED
  BY <1>1, <1>2, <1>3, <1>4

(* What the last scan adds.                                                *)
LEMMA LastAdds ==
  ASSUME NEW l, NEW m, NEW n, NEW fp, Longer(l, m, n)
  PROVE  /\ Reports(m, fp, n + 1) => Sightings(m, fp) = Sightings(l, fp) \cup {n + 1}
         /\ ~ Reports(m, fp, n + 1) => Sightings(m, fp) = Sightings(l, fp)
         /\ Reports(m, fp, n + 1) =>
              Reporters(m, fp, n + 1) = Reporters(l, fp, n) \cup m[n + 1].found[fp]
         /\ ~ Reports(m, fp, n + 1) => Reporters(m, fp, n + 1) = Reporters(l, fp, n)
         /\ FixedAsOf(m, fp, n + 1) <=>
              /\ ~ Reports(m, fp, n + 1)
              /\ FixedAsOf(l, fp, n) \/ Concludes(m, fp, n + 1)
         /\ Concludes(m, fp, n + 1) /\ ~ FixedAsOf(l, fp, n) =>
              Fixes(m, fp) = Fixes(l, fp) \cup {n + 1}
         /\ ~ Concludes(m, fp, n + 1) \/ FixedAsOf(l, fp, n) => Fixes(m, fp) = Fixes(l, fp)
         /\ Reports(m, fp, n + 1) /\ FixedAsOf(l, fp, n) =>
              Returns(m, fp) = Returns(l, fp) \cup {n + 1}
         /\ ~ Reports(m, fp, n + 1) \/ ~ FixedAsOf(l, fp, n) =>
              Returns(m, fp) = Returns(l, fp)
<1>0. /\ n \in Nat /\ DOMAIN l = 1 .. n /\ DOMAIN m = (1 .. n) \cup {n + 1}
      /\ n + 1 \notin 1 .. n /\ \A i \in 1 .. n : m[i] = l[i]
  BY DEF Longer
<1>1. IF Reports(m, fp, n + 1) THEN Sightings(m, fp) = Sightings(l, fp) \cup {n + 1}
                               ELSE Sightings(m, fp) = Sightings(l, fp)
  BY <1>0, PastStays DEF Sightings
<1>2. IF Reports(m, fp, n + 1)
      THEN Reporters(m, fp, n + 1) = Reporters(l, fp, n) \cup m[n + 1].found[fp]
      ELSE Reporters(m, fp, n + 1) = Reporters(l, fp, n)
  <2>1. {k \in Sightings(m, fp) : k <= n + 1} = Sightings(m, fp)
    BY <1>0 DEF Sightings
  <2>2. {k \in Sightings(l, fp) : k <= n} = Sightings(l, fp)
    BY <1>0 DEF Sightings
  <2>3. \A k \in Sightings(l, fp) : m[k].found[fp] = l[k].found[fp]
    BY <1>0 DEF Sightings
  <2> QED
    BY <1>1, <2>1, <2>2, <2>3 DEF Reporters
<1>3. FixedAsOf(m, fp, n + 1) <=>
        /\ ~ Reports(m, fp, n + 1)
        /\ FixedAsOf(l, fp, n) \/ Concludes(m, fp, n + 1)
  <2>1. \A j \in 1 .. n : j .. n + 1 = (j .. n) \cup {n + 1}
    BY <1>0
  <2>2. (n + 1) .. (n + 1) = {n + 1} /\ 1 .. n + 1 = (1 .. n) \cup {n + 1}
    BY <1>0
  <2>3. FixedAsOf(m, fp, n + 1) <=>
          \/ Concludes(m, fp, n + 1) /\ ~ Reports(m, fp, n + 1)
          \/ FixedAsOf(m, fp, n) /\ ~ Reports(m, fp, n + 1)
    BY <2>1, <2>2 DEF FixedAsOf
  <2>4. FixedAsOf(m, fp, n) <=> FixedAsOf(l, fp, n)
    <3>1. n \in 0 .. n
      BY <1>0
    <3> QED
      BY <3>1, PastStays
  <2> QED
    BY <2>3, <2>4
<1>4. \A j \in 1 .. n : FixedAsOf(m, fp, j - 1) <=> FixedAsOf(l, fp, j - 1)
  <2>1. \A j \in 1 .. n : j - 1 \in 0 .. n
    BY <1>0
  <2> QED
    BY <2>1, PastStays
<1>5. (n + 1) - 1 = n /\ (FixedAsOf(m, fp, n) <=> FixedAsOf(l, fp, n))
  <2>1. n \in 0 .. n /\ (n + 1) - 1 = n
    BY <1>0
  <2> QED
    BY <2>1, PastStays
<1>6. IF Concludes(m, fp, n + 1) /\ ~ FixedAsOf(l, fp, n)
      THEN Fixes(m, fp) = Fixes(l, fp) \cup {n + 1}
      ELSE Fixes(m, fp) = Fixes(l, fp)
  <2>1. \A j \in 1 .. n : Concludes(m, fp, j) <=> Concludes(l, fp, j)
    BY PastStays
  <2>2. DOMAIN m = 1 .. n + 1 /\ DOMAIN l = 1 .. n
    BY <1>0
  <2> QED
    BY <1>0, <1>4, <1>5, <2>1, <2>2 DEF Fixes
<1>7. IF Reports(m, fp, n + 1) /\ FixedAsOf(l, fp, n)
      THEN Returns(m, fp) = Returns(l, fp) \cup {n + 1}
      ELSE Returns(m, fp) = Returns(l, fp)
  <2>1. Sightings(l, fp) \subseteq 1 .. n
    BY <1>0 DEF Sightings
  <2> QED
    BY <1>1, <1>4, <1>5, <2>1 DEF Returns
<1> QED
  BY <1>1, <1>2, <1>3, <1>6, <1>7

LEMMA SilentAdds ==
  ASSUME NEW l, NEW m, NEW n, NEW fp, Longer(l, m, n), ~ Reports(m, fp, n + 1)
  PROVE  /\ Sightings(m, fp) = Sightings(l, fp)
         /\ Reporters(m, fp, n + 1) = Reporters(l, fp, n)
         /\ FixedAsOf(m, fp, n + 1) <=> FixedAsOf(l, fp, n) \/ Concludes(m, fp, n + 1)
         /\ Returns(m, fp) = Returns(l, fp)
BY LastAdds

(* A finding that no scan reports is never fixed.                          *)
LEMMA NeverSeen ==
  ASSUME NEW l, NEW n \in Nat, NEW fp, DOMAIN l = 1 .. n, Sightings(l, fp) = {}
  PROVE  /\ \A k : Reporters(l, fp, k) = {}
         /\ \A j : ~ Concludes(l, fp, j)
         /\ \A k : ~ FixedAsOf(l, fp, k)
         /\ Fixes(l, fp) = {} /\ Returns(l, fp) = {}
BY DEF Reporters, Concludes, FixedAsOf, Fixes, Returns

(* The sets the index counts are finite.                                   *)
LEMMA Countable ==
  ASSUME NEW l, NEW n \in Nat, NEW fp, DOMAIN l = 1 .. n
  PROVE  /\ Sightings(l, fp) \in SUBSET (1 .. n) /\ IsFiniteSet(Sightings(l, fp))
         /\ Returns(l, fp) \in SUBSET (1 .. n) /\ IsFiniteSet(Returns(l, fp))
         /\ Fixes(l, fp) \in SUBSET (1 .. n)
<1>1. IsFiniteSet(1 .. n)
  BY FS_Interval
<1>2. /\ Sightings(l, fp) \in SUBSET (1 .. n) /\ Returns(l, fp) \in SUBSET (1 .. n)
      /\ Fixes(l, fp) \in SUBSET (1 .. n)
  BY DEF Sightings, Returns, Fixes
<1> QED
  BY <1>1, <1>2, FS_Subset

LEMMA OneMoreCounted ==
  ASSUME NEW n \in Nat, NEW S \in SUBSET (1 .. n)
  PROVE  Cardinality(S \cup {n + 1}) = Cardinality(S) + 1
<1>1. IsFiniteSet(1 .. n)
  BY FS_Interval
<1>2. IsFiniteSet(S)
  BY <1>1, FS_Subset
<1>3. n + 1 \notin S
  OBVIOUS
<1> QED
  BY <1>2, <1>3, FS_AddElement

(* An entry says whether its finding was ever seen and is fixed.           *)
LEMMA EntrySays ==
  ASSUME NEW l, NEW n \in Nat, NEW fp, NEW st, DOMAIN l = 1 .. n, Len(l) = n,
         Explains(l, fp, st)
  PROVE  /\ st.status = "absent" <=> Sightings(l, fp) = {}
         /\ st.status = "fixed" <=> FixedAsOf(l, fp, n)
         /\ st.scanners = Reporters(l, fp, n)
         /\ st.status \in {"absent", "fixed", "new", "regressed", "open"}
<1>1. CASE Sightings(l, fp) = {}
  <2>1. st = Absent
    BY <1>1 DEF Explains
  <2>2. Reporters(l, fp, n) = {} /\ ~ FixedAsOf(l, fp, n)
    BY <1>1, NeverSeen
  <2> QED
    BY <1>1, <2>1, <2>2 DEF Absent
<1>2. CASE Sightings(l, fp) # {}
  BY <1>2 DEF Explains, StatusFrom
<1> QED
  BY <1>1, <1>2

(* What the index reads of the scans being the same, the entry is too.     *)
LEMMA SameSays ==
  ASSUME NEW l, NEW m, NEW n, NEW fp, NEW st,
         Longer(l, m, n), Explains(l, fp, st),
         Sightings(m, fp) = Sightings(l, fp),
         Reporters(m, fp, n + 1) = Reporters(l, fp, n),
         FixedAsOf(m, fp, n + 1) <=> FixedAsOf(l, fp, n),
         Fixes(m, fp) = Fixes(l, fp), Returns(m, fp) = Returns(l, fp)
  PROVE  Explains(m, fp, st)
<1>0. /\ n \in Nat /\ Len(l) = n /\ Len(m) = n + 1 /\ DOMAIN l = 1 .. n
      /\ \A i \in 1 .. n : m[i] = l[i]
  BY DEF Longer
<1>1. Sightings(l, fp) \subseteq 1 .. n /\ Fixes(l, fp) \subseteq 1 .. n
  BY <1>0 DEF Sightings, Fixes
<1>2. CASE Sightings(l, fp) = {} /\ st = Absent
  BY <1>2 DEF Explains
<1>3. CASE ~ (Sightings(l, fp) = {} /\ st = Absent)
  <2> DEFINE seen == Sightings(l, fp)
  <2>1. PICK first \in seen, last \in seen :
       /\ IsFirst(first, seen) /\ IsLast(last, seen)
       /\ st.firstRun = l[first].id /\ st.lastRun = l[last].id
       /\ st.status = StatusFrom(l, fp, first, last)
       /\ st.scanners = Reporters(l, fp, n)
       /\ st.occurrences = Cardinality(seen)
       /\ st.regressions = Cardinality(Returns(l, fp))
       /\ \/ Fixes(l, fp) = {} /\ st.fixedRun = NoRun
          \/ \E j \in Fixes(l, fp) : IsLast(j, Fixes(l, fp)) /\ st.fixedRun = l[j].id
    BY <1>0, <1>3 DEF Explains
  <2>2. /\ m[first] = l[first] /\ m[last] = l[last]
        /\ \A j \in Fixes(l, fp) : m[j] = l[j]
    BY <1>0, <1>1
  <2>3. StatusFrom(m, fp, first, last) = StatusFrom(l, fp, first, last)
    BY <1>0 DEF StatusFrom
  <2> QED
    BY <1>0, <2>1, <2>2, <2>3 DEF Explains
<1> QED
  BY <1>2, <1>3

(* A sighting: rule 3 and the first two lines of the transition table.     *)
LEMMA SightedAsRuled ==
  ASSUME NEW l, NEW m, NEW n, NEW fp, NEW st \in FindingState,
         Longer(l, m, n), Explains(l, fp, st), Reports(m, fp, n + 1)
  PROVE  LET next == Sighted(st, m[n + 1].found[fp], m[n + 1].id)
         IN  Explains(m, fp, next) /\ MarkOf(m, fp, n + 1) = next.status
<1> DEFINE next == Sighted(st, m[n + 1].found[fp], m[n + 1].id)
           seen == Sightings(l, fp)
<1>0. /\ n \in Nat /\ Len(l) = n /\ Len(m) = n + 1
      /\ DOMAIN l = 1 .. n /\ DOMAIN m = 1 .. n + 1
      /\ \A i \in 1 .. n : m[i] = l[i]
  BY DEF Longer
<1>1. ~ Concludes(m, fp, n + 1)
  BY DEF Concludes, Reports
<1>2. /\ Sightings(m, fp) = seen \cup {n + 1}
      /\ Reporters(m, fp, n + 1) = Reporters(l, fp, n) \cup m[n + 1].found[fp]
      /\ ~ FixedAsOf(m, fp, n + 1)
      /\ Fixes(m, fp) = Fixes(l, fp)
      /\ Returns(m, fp) = IF FixedAsOf(l, fp, n) THEN Returns(l, fp) \cup {n + 1}
                          ELSE Returns(l, fp)
  <2>1. Sightings(m, fp) = seen \cup {n + 1}
    BY LastAdds
  <2>2. Reporters(m, fp, n + 1) = Reporters(l, fp, n) \cup m[n + 1].found[fp]
    BY LastAdds
  <2>3. ~ FixedAsOf(m, fp, n + 1)
    BY LastAdds
  <2>4. Fixes(m, fp) = Fixes(l, fp)
    BY <1>1, LastAdds
  <2>5. Returns(m, fp) = IF FixedAsOf(l, fp, n) THEN Returns(l, fp) \cup {n + 1}
                         ELSE Returns(l, fp)
    BY LastAdds
  <2> QED
    BY <2>1, <2>2, <2>3, <2>4, <2>5
<1>3. /\ seen \in SUBSET (1 .. n) /\ Returns(l, fp) \in SUBSET (1 .. n)
      /\ Fixes(l, fp) \in SUBSET (1 .. n) /\ n + 1 \notin 1 .. n
  BY <1>0, Countable
<1>4. Cardinality(Sightings(m, fp)) = Cardinality(seen) + 1
  BY <1>0, <1>2, <1>3, OneMoreCounted
<1>5. IsLast(n + 1, Sightings(m, fp))
  BY <1>0, <1>2, <1>3 DEF IsLast
<1> HIDE DEF seen
<1>6. CASE seen = {}
  <2>1. st = Absent /\ FixedAsOf(l, fp, n) = FALSE /\ Fixes(l, fp) = {}
        /\ Returns(l, fp) = {} /\ Reporters(l, fp, n) = {}
    BY <1>0, <1>6, NeverSeen DEF Explains, seen
  <2>2. Returns(m, fp) = {} /\ Sightings(m, fp) = {n + 1}
    BY <1>2, <1>6, <2>1
  <2>3. IsFirst(n + 1, Sightings(m, fp))
    BY <1>0, <2>2 DEF IsFirst
  <2>4. Cardinality(seen) = 0
    BY <1>6, FS_EmptySet
  <2>5. next = [status |-> "new", firstRun |-> m[n + 1].id, lastRun |-> m[n + 1].id,
                fixedRun |-> NoRun, scanners |-> m[n + 1].found[fp],
                occurrences |-> 1, regressions |-> 0]
    BY <2>1 DEF Sighted, Absent
  <2> HIDE DEF next
  <2>6. Cardinality(Sightings(m, fp)) = 1 /\ Cardinality(Returns(m, fp)) = 0
    BY <1>4, <2>2, <2>4, FS_EmptySet
  <2>7. StatusFrom(m, fp, n + 1, n + 1) = "new"
    BY <1>0, <1>2 DEF StatusFrom
  <2>8. Explains(m, fp, next)
    BY <1>0, <1>2, <1>5, <2>1, <2>2, <2>3, <2>5, <2>6, <2>7 DEF Explains
  <2>9. MarkOf(m, fp, n + 1) = "new"
    BY <1>2, <2>1, <2>2, <2>3 DEF MarkOf
  <2> QED
    BY <2>5, <2>8, <2>9 DEF next
<1>7. CASE seen # {}
  <2>1. PICK first \in seen, last \in seen :
       /\ IsFirst(first, seen) /\ IsLast(last, seen)
       /\ st.firstRun = l[first].id
       /\ st.status = StatusFrom(l, fp, first, last)
       /\ st.scanners = Reporters(l, fp, n)
       /\ st.occurrences = Cardinality(seen)
       /\ st.regressions = Cardinality(Returns(l, fp))
       /\ \/ Fixes(l, fp) = {} /\ st.fixedRun = NoRun
          \/ \E j \in Fixes(l, fp) : IsLast(j, Fixes(l, fp)) /\ st.fixedRun = l[j].id
    BY <1>0, <1>7 DEF Explains, seen
  <2>2. first \in 1 .. n /\ first # n + 1 /\ m[first] = l[first]
    BY <1>0, <1>3
  <2>3. IsFirst(first, Sightings(m, fp)) /\ ~ IsFirst(n + 1, Sightings(m, fp))
    <3>1. n + 1 \in Sightings(m, fp) /\ first \in Sightings(m, fp) /\ first < n + 1
      BY <1>0, <1>2, <2>2
    <3>2. \A k \in Sightings(m, fp) : first <= k
      <4>1. \A k \in seen : first <= k
        BY <2>1 DEF IsFirst
      <4>2. first <= n + 1
        BY <1>0, <2>2
      <4> QED
        BY <1>2, <4>1, <4>2
    <3> QED
      BY <1>0, <2>2, <3>1, <3>2 DEF IsFirst
  <2>4. Cardinality(Returns(m, fp)) =
          IF FixedAsOf(l, fp, n) THEN st.regressions + 1 ELSE st.regressions
    <3>1. Cardinality(Returns(l, fp) \cup {n + 1}) = Cardinality(Returns(l, fp)) + 1
      BY <1>0, <1>3, OneMoreCounted
    <3>2. CASE FixedAsOf(l, fp, n)
      BY <1>2, <2>1, <3>1, <3>2
    <3>3. CASE ~ FixedAsOf(l, fp, n)
      <4>1. Returns(m, fp) = Returns(l, fp)
        BY <1>2, <3>3
      <4> QED
        BY <2>1, <3>3, <4>1
    <3> QED
      BY <3>2, <3>3
  <2>5. st.status = "fixed" <=> FixedAsOf(l, fp, n)
    BY <1>0, EntrySays
  <2>6. st.status # "absent"
    BY <1>0, <1>7, EntrySays DEF seen
  <2>7. /\ next.status = IF FixedAsOf(l, fp, n) THEN "regressed" ELSE "open"
        /\ next.firstRun = m[first].id /\ next.lastRun = m[n + 1].id
        /\ next.fixedRun = st.fixedRun
        /\ next.scanners = Reporters(m, fp, n + 1)
        /\ next.occurrences = Cardinality(Sightings(m, fp))
        /\ next.regressions = Cardinality(Returns(m, fp))
    BY <1>2, <1>4, <2>1, <2>2, <2>4, <2>5, <2>6 DEF Sighted
  <2>8. \/ Fixes(m, fp) = {} /\ st.fixedRun = NoRun
        \/ \E j \in Fixes(m, fp) : IsLast(j, Fixes(m, fp)) /\ st.fixedRun = m[j].id
    <3>1. \A j \in Fixes(l, fp) : m[j] = l[j]
      BY <1>0, <1>3
    <3> QED
      BY <1>2, <2>1, <3>1
  <2>9. n + 1 \in Returns(m, fp) <=> FixedAsOf(l, fp, n)
    BY <1>2, <1>3
  <2>10. StatusFrom(m, fp, first, n + 1) = next.status
    BY <1>0, <1>2, <2>2, <2>7, <2>9 DEF StatusFrom
  <2>11. MarkOf(m, fp, n + 1) = next.status
    BY <1>2, <1>3, <2>3, <2>7, <2>9 DEF MarkOf
  <2> HIDE DEF next
  <2>12. first \in Sightings(m, fp) /\ n + 1 \in Sightings(m, fp)
    BY <1>2
  <2>13. Explains(m, fp, next)
    BY <1>0, <1>5, <2>3, <2>7, <2>8, <2>10, <2>12 DEF Explains
  <2> QED
    BY <2>11, <2>13 DEF next
<1> QED
  BY <1>6, <1>7

(* A scan that counts and does not report the finding: rules 1 and 2.      *)
LEMMA MissedAsRuled ==
  ASSUME NEW l, NEW m, NEW n, NEW fp, NEW st \in FindingState, NEW changed \in BOOLEAN,
         Longer(l, m, n), Explains(l, fp, st),
         m[n + 1].counted, m[n + 1].found[fp] = {},
         changed <=> n > 0 /\ m[n + 1].scope # l[n].scope
  PROVE  LET next == Missed(st, m[n + 1].ran, changed, m[n + 1].id)
         IN  /\ Explains(m, fp, next)
             /\ MarkOf(m, fp, n + 1) = IF next.status = st.status THEN "none" ELSE next.status
<1> DEFINE next == Missed(st, m[n + 1].ran, changed, m[n + 1].id)
           gone == Concludes(m, fp, n + 1)
           late == gone /\ ~ FixedAsOf(l, fp, n)
           seen == Sightings(l, fp)
<1>0. /\ n \in Nat /\ Len(l) = n /\ Len(m) = n + 1
      /\ DOMAIN l = 1 .. n /\ DOMAIN m = 1 .. n + 1
      /\ \A i \in 1 .. n : m[i] = l[i]
  BY DEF Longer
<1>1. ~ Reports(m, fp, n + 1)
  BY DEF Reports
<1>2. /\ Sightings(m, fp) = seen
      /\ Reporters(m, fp, n + 1) = Reporters(l, fp, n)
      /\ Returns(m, fp) = Returns(l, fp)
  BY <1>1, SilentAdds
<1>3. Reporters(m, fp, n + 1) = Reporters(l, fp, n)
  BY <1>2
<1>4. FixedAsOf(m, fp, n + 1) <=> FixedAsOf(l, fp, n) \/ gone
  BY <1>1, SilentAdds
<1>5. /\ late => Fixes(m, fp) = Fixes(l, fp) \cup {n + 1}
      /\ ~ late => Fixes(m, fp) = Fixes(l, fp)
  BY LastAdds
<1>6. Returns(m, fp) = Returns(l, fp)
  BY <1>2
<1>7. /\ seen \in SUBSET (1 .. n) /\ Fixes(l, fp) \in SUBSET (1 .. n)
      /\ n + 1 \notin 1 .. n
  BY <1>0, Countable
<1>8. /\ st.status = "absent" <=> seen = {}
      /\ st.status = "fixed" <=> FixedAsOf(l, fp, n)
      /\ st.scanners = Reporters(l, fp, n)
      /\ st.status \in {"absent", "fixed", "new", "regressed", "open"}
  BY <1>0, EntrySays
<1>9. gone <=> n > 0 /\ ~ changed /\ CheckedBy(st.scanners, m[n + 1].ran)
  <2>1. n > 0 => m[n] = l[n] /\ (n + 1) - 1 = n
    BY <1>0
  <2>2. n + 1 > 1 <=> n > 0
    BY <1>0
  <2>3. n > 0 => (m[n + 1].scope = m[(n + 1) - 1].scope <=> ~ changed)
    BY <2>1
  <2>4. gone <=> /\ n + 1 > 1 /\ m[n + 1].scope = m[(n + 1) - 1].scope
                 /\ Reporters(m, fp, n + 1) \cap m[n + 1].ran # {}
    BY DEF Concludes
  <2> HIDE DEF gone
  <2> QED
    BY <1>3, <1>8, <2>2, <2>3, <2>4 DEF CheckedBy
<1>10. seen = {} => ~ gone
  <2>1. ASSUME seen = {} PROVE Reporters(l, fp, n) = {}
    BY <1>0, <2>1, NeverSeen
  <2> QED
    BY <1>3, <2>1 DEF Concludes
<1> HIDE DEF gone
<1>11. late <=> /\ st.status \in OpenStatuses /\ ~ changed
                /\ CheckedBy(st.scanners, m[n + 1].ran)
  <2>1. st.status \in OpenStatuses => n > 0
    <3>1. st.status \in OpenStatuses => seen # {}
      BY <1>8 DEF OpenStatuses
    <3> QED
      BY <1>0, <1>7, <3>1
  <2> QED
    BY <1>8, <1>9, <1>10, <2>1 DEF OpenStatuses
<1> HIDE DEF late, seen
<1>12. MarkOf(m, fp, n + 1) = IF late THEN "fixed" ELSE "none"
  BY <1>2, <1>5, <1>7 DEF MarkOf
<1>13. CASE late
  <2>1. next = [st EXCEPT !.status = "fixed", !.fixedRun = m[n + 1].id]
    BY <1>11, <1>13 DEF Missed
  <2>2. st.status # "fixed" /\ seen # {}
    BY <1>8, <1>11, <1>13 DEF OpenStatuses
  <2>3. /\ next.status = "fixed" /\ next.fixedRun = m[n + 1].id
        /\ next.firstRun = st.firstRun /\ next.lastRun = st.lastRun
        /\ next.scanners = st.scanners /\ next.occurrences = st.occurrences
        /\ next.regressions = st.regressions
    BY <2>1 DEF FindingState
  <2> HIDE DEF next
  <2>4. PICK first \in seen, last \in seen :
       /\ IsFirst(first, seen) /\ IsLast(last, seen)
       /\ st.firstRun = l[first].id /\ st.lastRun = l[last].id
       /\ st.occurrences = Cardinality(seen)
       /\ st.regressions = Cardinality(Returns(l, fp))
    BY <2>2 DEF Explains, seen
  <2>5. m[first] = l[first] /\ m[last] = l[last]
    BY <1>0, <1>7
  <2>6. n + 1 \in Fixes(m, fp) /\ IsLast(n + 1, Fixes(m, fp))
    BY <1>0, <1>5, <1>7, <1>13 DEF IsLast
  <2>7. StatusFrom(m, fp, first, last) = "fixed"
    BY <1>0, <1>4, <1>13 DEF StatusFrom, late
  <2>8. Explains(m, fp, next)
    BY <1>0, <1>2, <1>3, <1>6, <1>8, <2>3, <2>4, <2>5, <2>6, <2>7 DEF Explains
  <2> QED
    BY <1>12, <1>13, <2>2, <2>3, <2>8 DEF next
<1>14. CASE ~ late
  <2>1. next = st
    BY <1>11, <1>14 DEF Missed
  <2>2. FixedAsOf(m, fp, n + 1) <=> FixedAsOf(l, fp, n)
    BY <1>4, <1>14 DEF late
  <2>3. Fixes(m, fp) = Fixes(l, fp)
    BY <1>5, <1>14
  <2>4. Explains(m, fp, st)
    BY <1>0, <1>2, <1>3, <1>6, <2>2, <2>3, SameSays DEF seen
  <2> HIDE DEF next
  <2> QED
    BY <1>12, <1>14, <2>1, <2>4 DEF next
<1> QED
  BY <1>13, <1>14

(* A scan that does not count says nothing.                                *)
LEMMA UncountedSaysNothing ==
  ASSUME NEW l, NEW m, NEW n, NEW fp, NEW st,
         Longer(l, m, n), Explains(l, fp, st), ~ m[n + 1].counted
  PROVE  Explains(m, fp, st) /\ MarkOf(m, fp, n + 1) = "none"
<1>0. n \in Nat /\ Len(l) = n /\ Len(m) = n + 1
  BY DEF Longer
<1>1. ~ Reports(m, fp, n + 1) /\ ~ Concludes(m, fp, n + 1)
  BY DEF Reports, Concludes
<1>2. /\ Sightings(m, fp) = Sightings(l, fp)
      /\ Reporters(m, fp, n + 1) = Reporters(l, fp, n)
      /\ FixedAsOf(m, fp, n + 1) <=> FixedAsOf(l, fp, n)
      /\ Fixes(m, fp) = Fixes(l, fp)
      /\ Returns(m, fp) = Returns(l, fp)
  BY <1>1, LastAdds
<1>3. Explains(m, fp, st)
  BY <1>0, <1>2, SameSays
<1>4. n + 1 \notin Sightings(m, fp) /\ n + 1 \notin Fixes(m, fp)
  BY <1>0, <1>1 DEF Sightings, Fixes
<1> QED
  BY <1>3, <1>4 DEF MarkOf

-----------------------------------------------------------------------------
(* The fold is what the rules say.                                         *)

(* A scan whose document decodes counts, and the document of one that      *)
(* counts was rewritten with all of its delta unless that was empty.       *)
Written(rows) ==
  \A i \in DOMAIN rows :
    /\ rows[i].readable => rows[i].counted
    /\ rows[i].counted /\ rows[i].delta # NoMarks => rows[i].marks = rows[i].delta

Ruled(rows, states) == IndexOf(rows, states) /\ DeltasOf(rows) /\ Written(rows)

LEMMA PastMarks ==
  ASSUME NEW l, NEW m, NEW n, NEW fp, Longer(l, m, n), NEW i \in 1 .. n
  PROVE  MarkOf(m, fp, i) = MarkOf(l, fp, i)
<1>0. n \in Nat /\ DOMAIN l = 1 .. n /\ DOMAIN m = 1 .. n + 1 /\ i \in 1 .. n + 1
      /\ i - 1 \in 0 .. n
  BY DEF Longer
<1>1. i \in Fixes(m, fp) <=> i \in Fixes(l, fp)
  BY <1>0, PastStays DEF Fixes
<1>2. i \in Sightings(m, fp) <=> i \in Sightings(l, fp)
  BY <1>0, PastStays DEF Sightings
<1>3. i \in Returns(m, fp) <=> i \in Returns(l, fp)
  BY <1>0, <1>2, PastStays DEF Returns
<1>4. IsFirst(i, Sightings(m, fp)) <=> IsFirst(i, Sightings(l, fp))
  <2>1. \A k \in 1 .. n : k \in Sightings(m, fp) <=> k \in Sightings(l, fp)
    BY <1>0, PastStays DEF Sightings
  <2>2. \A k \in Sightings(m, fp) : k \in 1 .. n \/ (k = n + 1 /\ i <= k)
    BY <1>0 DEF Sightings
  <2>3. Sightings(l, fp) \subseteq 1 .. n
    BY <1>0 DEF Sightings
  <2> QED
    BY <1>2, <2>1, <2>2, <2>3 DEF IsFirst
<1> QED
  BY <1>1, <1>2, <1>3, <1>4 DEF MarkOf

(* The row and the index a run leaves behind.                              *)
LEMMA ApplyRunRow ==
  ASSUME NEW fold \in Fold, NEW row \in RunRow
  PROVE  LET next == Advance(fold.states, row, ScopeChanged(fold.runs, row.scope))
             marks == MarksOf(fold.states, next, row)
         IN  /\ ApplyRun(fold, row).states = IF row.readable THEN next ELSE fold.states
             /\ \E new \in RunRow :
                  /\ ApplyRun(fold, row).runs = Append(fold.runs, new)
                  /\ new.id = row.id /\ new.prev = NewestID(fold.runs)
                  /\ new.scope = row.scope /\ new.ran = row.ran
                  /\ new.found = row.found /\ new.readable = row.readable
                  /\ new.counted = row.readable
                  /\ new.delta = IF row.readable THEN marks ELSE row.delta
                  /\ new.marks = IF row.readable /\ marks # NoMarks THEN marks
                                 ELSE row.marks
<1> DEFINE next == Advance(fold.states, row, ScopeChanged(fold.runs, row.scope))
           marks == MarksOf(fold.states, next, row)
           base == [row EXCEPT !.prev = NewestID(fold.runs), !.counted = row.readable]
           kept == IF marks = NoMarks THEN base.marks ELSE marks
           told == [base EXCEPT !.delta = marks, !.marks = kept]
           new == IF row.readable THEN told ELSE base
<1>1. fold.runs \in Seq(RunRow) /\ fold.states \in [Fingerprint -> FindingState]
  BY DEF Fold
<1>2. marks \in Marks
  BY <1>1, MarksOfType
<1>3. /\ ApplyRun(fold, row).runs = Append(fold.runs, new)
      /\ ApplyRun(fold, row).states = IF row.readable THEN next ELSE fold.states
  BY DEF ApplyRun
<1> HIDE DEF marks, next
<1>4. /\ base \in RunRow /\ base.id = row.id /\ base.prev = NewestID(fold.runs)
      /\ base.scope = row.scope /\ base.ran = row.ran /\ base.found = row.found
      /\ base.readable = row.readable /\ base.counted = row.readable
      /\ base.delta = row.delta /\ base.marks = row.marks
  BY <1>1, NewestIDType DEF RunRow
<1> HIDE DEF base
<1>5. kept \in Marks
  BY <1>2, <1>4 DEF RunRow
<1> HIDE DEF kept
<1>6. /\ told \in RunRow /\ told.id = row.id /\ told.prev = NewestID(fold.runs)
      /\ told.scope = row.scope /\ told.ran = row.ran /\ told.found = row.found
      /\ told.readable = row.readable /\ told.counted = row.readable
      /\ told.delta = marks /\ told.marks = kept
  BY <1>2, <1>4, <1>5 DEF RunRow
<1> HIDE DEF told
<1>7. kept = IF marks = NoMarks THEN row.marks ELSE marks
  BY <1>4 DEF kept
<1>8. new \in RunRow
  BY <1>4, <1>6
<1>9. /\ new.id = row.id /\ new.prev = NewestID(fold.runs)
      /\ new.scope = row.scope /\ new.ran = row.ran
      /\ new.found = row.found /\ new.readable = row.readable
      /\ new.counted = row.readable
      /\ new.delta = IF row.readable THEN marks ELSE row.delta
      /\ new.marks = IF row.readable /\ marks # NoMarks THEN marks ELSE row.marks
  BY <1>4, <1>6, <1>7
<1> HIDE DEF new
<1> QED
  BY <1>3, <1>8, <1>9 DEF next, marks

(* One run more, for one finding: its entry, and what the run counted.     *)
LEMMA OneFinding ==
  ASSUME NEW l \in Seq(RunRow), NEW new \in RunRow, NEW states \in [Fingerprint -> FindingState],
         NEW fp \in Fingerprint, new.counted, Explains(l, fp, states[fp])
  PROVE  LET next == Advance(states, new, ScopeChanged(l, new.scope))
             m == Append(l, new)
         IN  /\ Explains(m, fp, next[fp])
             /\ MarksOf(states, next, new)[fp] = MarkOf(m, fp, Len(l) + 1)
             /\ new.found[fp] # {} => MarksOf(states, next, new)[fp] # "none"
<1> DEFINE changed == ScopeChanged(l, new.scope)
           next == Advance(states, new, changed)
           n == Len(l)
           m == Append(l, new)
           mark == MarksOf(states, next, new)[fp]
<1>1. Longer(l, m, n) /\ m[n + 1] = new
  BY AppendIsLonger
<1>2. changed \in BOOLEAN /\ (changed <=> n > 0 /\ m[n + 1].scope # l[n].scope)
  BY <1>1 DEF ScopeChanged
<1>3. n \in Nat /\ states[fp] \in FindingState
  OBVIOUS
<1> HIDE DEF m, n, changed
<1>4. mark = IF new.found[fp] # {} \/ next[fp].status # states[fp].status
             THEN next[fp].status ELSE "none"
  BY DEF MarksOf
<1>5. CASE new.found[fp] # {}
  <2> DEFINE st == Sighted(states[fp], new.found[fp], new.id)
  <2>1. next[fp] = st
    BY <1>5 DEF Advance
  <2>2. Reports(m, fp, n + 1)
    BY <1>1, <1>5 DEF Reports
  <2>3. Explains(m, fp, st) /\ MarkOf(m, fp, n + 1) = st.status
    BY <1>1, <1>3, <2>2, SightedAsRuled
  <2>4. st.status # "none"
    BY DEF Sighted
  <2> HIDE DEF st
  <2>5. mark = st.status
    BY <1>4, <1>5, <2>1
  <2> QED
    BY <2>1, <2>3, <2>4, <2>5 DEF m, n, changed
<1>6. CASE new.found[fp] = {}
  <2> DEFINE st == Missed(states[fp], new.ran, changed, new.id)
  <2>1. next[fp] = st
    BY <1>6 DEF Advance
  <2>2. Explains(m, fp, st)
        /\ MarkOf(m, fp, n + 1) = IF st.status = states[fp].status THEN "none" ELSE st.status
    BY <1>1, <1>2, <1>3, <1>6, MissedAsRuled
  <2> HIDE DEF st
  <2>3. mark = IF st.status = states[fp].status THEN "none" ELSE st.status
    BY <1>4, <1>6, <2>1
  <2> QED
    BY <1>6, <2>1, <2>2, <2>3 DEF m, n, changed
<1> QED
  BY <1>5, <1>6

(* One run more: the index, the deltas and the documents stay as the rules *)
(* have them.                                                              *)
LEMMA ApplyRunAsRuled ==
  ASSUME NEW fold \in Fold, NEW row \in RunRow, Ruled(fold.runs, fold.states)
  PROVE  Ruled(ApplyRun(fold, row).runs, ApplyRun(fold, row).states)
<1> DEFINE l == fold.runs
           n == Len(l)
           changed == ScopeChanged(l, row.scope)
           next == Advance(fold.states, row, changed)
           marks == MarksOf(fold.states, next, row)
           states == ApplyRun(fold, row).states
<1>1. l \in Seq(RunRow) /\ fold.states \in [Fingerprint -> FindingState]
  BY DEF Fold
<1>2. PICK new \in RunRow :
        /\ ApplyRun(fold, row).runs = Append(l, new)
        /\ new.id = row.id
        /\ new.scope = row.scope /\ new.ran = row.ran
        /\ new.found = row.found /\ new.readable = row.readable
        /\ new.counted = row.readable
        /\ new.delta = IF row.readable THEN marks ELSE row.delta
        /\ new.marks = IF row.readable /\ marks # NoMarks THEN marks ELSE row.marks
  BY ApplyRunRow
<1>3. states = IF row.readable THEN next ELSE fold.states
  BY ApplyRunRow
<1> HIDE DEF states
<1> DEFINE m == Append(l, new)
<1>4. Longer(l, m, n) /\ m[n + 1] = new
  BY <1>1, AppendIsLonger
<1>5. /\ next = Advance(fold.states, new, ScopeChanged(l, new.scope))
      /\ marks = MarksOf(fold.states, next, new)
  <2>1. next = Advance(fold.states, new, changed)
    BY <1>2 DEF Advance
  <2>2. MarksOf(fold.states, next, row) = MarksOf(fold.states, next, new)
    BY <1>2 DEF MarksOf
  <2> QED
    BY <1>2, <2>1, <2>2
<1>6. \A fp \in Fingerprint : Explains(l, fp, fold.states[fp])
  BY DEF Ruled, IndexOf
<1>7. ASSUME NEW fp \in Fingerprint, row.readable
      PROVE  /\ Explains(m, fp, next[fp])
             /\ marks[fp] = MarkOf(m, fp, n + 1)
             /\ new.found[fp] # {} => marks[fp] # "none"
  <2> HIDE DEF l
  <2>1. new.counted /\ Explains(l, fp, fold.states[fp])
    BY <1>2, <1>6, <1>7
  <2> DEFINE after == Advance(fold.states, new, ScopeChanged(l, new.scope))
  <2>2. /\ Explains(m, fp, after[fp])
        /\ MarksOf(fold.states, after, new)[fp] = MarkOf(m, fp, n + 1)
        /\ new.found[fp] # {} => MarksOf(fold.states, after, new)[fp] # "none"
    <3> HIDE DEF after
    <3>1. fold.states \in [Fingerprint -> FindingState] /\ l \in Seq(RunRow)
      BY <1>1
    <3> QED
      BY <2>1, <3>1, OneFinding DEF after
  <2>3. after = next /\ marks = MarksOf(fold.states, after, new)
    BY <1>5
  <2> QED
    BY <2>2, <2>3
<1>8. /\ n \in Nat /\ DOMAIN l = 1 .. n /\ DOMAIN m = 1 .. n + 1
      /\ \A i \in 1 .. n : m[i] = l[i]
  BY <1>4 DEF Longer
<1> HIDE DEF next, marks, changed, m, n
<1>9. IndexOf(m, states)
  <2>1. CASE row.readable
    BY <1>3, <1>7, <2>1 DEF IndexOf
  <2>2. CASE ~ row.readable
    <3>1. ~ m[n + 1].counted
      BY <1>2, <1>4, <2>2
    <3> QED
      BY <1>3, <1>4, <1>6, <2>2, <3>1, UncountedSaysNothing DEF IndexOf
  <2> QED
    BY <2>1, <2>2
<1>10. DeltasOf(m)
  <2> SUFFICES ASSUME NEW i \in DOMAIN m, m[i].counted, NEW fp \in Fingerprint
               PROVE  /\ m[i].delta[fp] = MarkOf(m, fp, i)
                      /\ m[i].found[fp] # {} => m[i].marks[fp] = m[i].delta[fp]
    BY DEF DeltasOf
  <2>1. CASE i \in 1 .. n
    <3>1. MarkOf(m, fp, i) = MarkOf(l, fp, i)
      BY <1>4, <2>1, PastMarks
    <3>2. m[i] = l[i] /\ i \in DOMAIN l
      BY <1>8, <2>1
    <3> QED
      BY <3>1, <3>2 DEF Ruled, DeltasOf
  <2>2. CASE i = n + 1
    <3>1. m[i] = new /\ row.readable
      BY <1>2, <1>4, <2>2
    <3>2. marks[fp] # "none" => marks # NoMarks
      BY DEF NoMarks
    <3> QED
      BY <1>2, <1>7, <2>2, <3>1, <3>2
  <2> QED
    BY <1>8, <2>1, <2>2
<1>11. Written(m)
  <2> SUFFICES ASSUME NEW i \in DOMAIN m
               PROVE  /\ m[i].readable => m[i].counted
                      /\ m[i].counted /\ m[i].delta # NoMarks => m[i].marks = m[i].delta
    BY DEF Written
  <2>1. CASE i \in 1 .. n
    <3>1. m[i] = l[i] /\ i \in DOMAIN l
      BY <1>8, <2>1
    <3> QED
      BY <3>1 DEF Ruled, Written
  <2>2. CASE i = n + 1
    <3>1. m[i] = new
      BY <1>4, <2>2
    <3> QED
      BY <1>2, <3>1
  <2> QED
    BY <1>8, <2>1, <2>2
<1> QED
  BY <1>2, <1>9, <1>10, <1>11 DEF Ruled, states, m

LEMMA NothingRuled == Ruled(<<>>, EmptyIndex)
<1>1. ASSUME NEW fp \in Fingerprint PROVE Explains(<<>>, fp, EmptyIndex[fp])
  BY DEF Explains, Sightings, EmptyIndex
<1> QED
  BY <1>1 DEF Ruled, IndexOf, DeltasOf, Written

-----------------------------------------------------------------------------
(* The rules read nothing of a scan but its id, scope, scanners, findings  *)
(* and whether it counts ...                                               *)
SameScan(e, f) ==
  /\ e.id = f.id /\ e.scope = f.scope /\ e.ran = f.ran
  /\ e.found = f.found /\ e.counted = f.counted

SameScans(l, m) ==
  /\ Len(l) \in Nat /\ Len(m) = Len(l)
  /\ DOMAIN l = 1 .. Len(l) /\ DOMAIN m = 1 .. Len(l)
  /\ \A i \in 1 .. Len(l) : SameScan(l[i], m[i])

LEMMA SameScansSameRules ==
  ASSUME NEW l, NEW m, SameScans(l, m), NEW fp
  PROVE  /\ \A st : Explains(l, fp, st) <=> Explains(m, fp, st)
         /\ \A i \in DOMAIN l : MarkOf(l, fp, i) = MarkOf(m, fp, i)
<1> DEFINE n == Len(l)
<1>1. /\ n \in Nat /\ Len(m) = n /\ DOMAIN l = 1 .. n /\ DOMAIN m = 1 .. n
      /\ \A i \in 1 .. n : /\ l[i].id = m[i].id /\ l[i].scope = m[i].scope
                           /\ l[i].ran = m[i].ran /\ l[i].found = m[i].found
                           /\ l[i].counted = m[i].counted
  BY DEF SameScans, SameScan
<1> HIDE DEF n
<1>2. \A i \in 1 .. n : Reports(l, fp, i) <=> Reports(m, fp, i)
  BY <1>1 DEF Reports
<1>3. Sightings(l, fp) = Sightings(m, fp) /\ Sightings(l, fp) \subseteq 1 .. n
  BY <1>1, <1>2 DEF Sightings
<1>4. \A k : Reporters(l, fp, k) = Reporters(m, fp, k)
  <2> SUFFICES ASSUME NEW k PROVE Reporters(l, fp, k) = Reporters(m, fp, k)
    OBVIOUS
  <2>1. \A i \in Sightings(l, fp) : l[i].found[fp] = m[i].found[fp]
    BY <1>1, <1>3
  <2> QED
    BY <1>3, <2>1 DEF Reporters
<1>5. \A j \in 1 .. n : Concludes(l, fp, j) <=> Concludes(m, fp, j)
  <2> SUFFICES ASSUME NEW j \in 1 .. n PROVE Concludes(l, fp, j) <=> Concludes(m, fp, j)
    OBVIOUS
  <2>1. j > 1 => j - 1 \in 1 .. n
    BY <1>1
  <2> QED
    BY <1>1, <1>4, <2>1 DEF Concludes
<1>6. \A k \in 0 .. n : FixedAsOf(l, fp, k) <=> FixedAsOf(m, fp, k)
  <2> SUFFICES ASSUME NEW k \in 0 .. n PROVE FixedAsOf(l, fp, k) <=> FixedAsOf(m, fp, k)
    OBVIOUS
  <2>1. \A j \in 1 .. k : j \in 1 .. n /\ \A i \in j .. k : i \in 1 .. n
    BY <1>1
  <2> QED
    BY <1>2, <1>5, <2>1 DEF FixedAsOf
<1>7. \A j \in 1 .. n : j - 1 \in 0 .. n
  BY <1>1
<1>8. Fixes(l, fp) = Fixes(m, fp) /\ Fixes(l, fp) \subseteq 1 .. n
  BY <1>1, <1>5, <1>6, <1>7 DEF Fixes
<1>9. Returns(l, fp) = Returns(m, fp)
  BY <1>3, <1>6, <1>7 DEF Returns
<1>10. \A first, last : StatusFrom(l, fp, first, last) = StatusFrom(m, fp, first, last)
  BY <1>1, <1>6, <1>9 DEF StatusFrom, n
<1>11. \A i \in DOMAIN l : MarkOf(l, fp, i) = MarkOf(m, fp, i)
  BY <1>3, <1>8, <1>9 DEF MarkOf
<1>12. Reporters(l, fp, Len(l)) = Reporters(m, fp, Len(m)) /\ Len(l) = Len(m)
  BY <1>1, <1>4 DEF n
<1>13. ASSUME NEW st PROVE Explains(l, fp, st) <=> Explains(m, fp, st)
  <2>1. ASSUME NEW a, NEW b, Sightings(a, fp) = Sightings(b, fp),
               Sightings(a, fp) \subseteq 1 .. n, Fixes(a, fp) \subseteq 1 .. n,
               \A i \in 1 .. n : a[i].id = b[i].id,
               \A first, last : StatusFrom(a, fp, first, last) = StatusFrom(b, fp, first, last),
               Reporters(a, fp, Len(a)) = Reporters(b, fp, Len(b)),
               Fixes(a, fp) = Fixes(b, fp), Returns(a, fp) = Returns(b, fp),
               Explains(a, fp, st)
        PROVE  Explains(b, fp, st)
    BY <2>1 DEF Explains
  <2> QED
    BY <1>1, <1>3, <1>8, <1>9, <1>10, <1>12, <2>1
<1> QED
  BY <1>11, <1>13

(* ... and leave nothing open: there is one entry they give a finding.     *)
LEMMA OneLast ==
  ASSUME NEW S \in SUBSET Nat, NEW i, NEW j, IsLast(i, S), IsLast(j, S)
  PROVE  i = j
<1>1. i \in Nat /\ j \in Nat /\ i <= j /\ j <= i
  BY DEF IsLast
<1> QED
  BY <1>1

LEMMA OneFirst ==
  ASSUME NEW S \in SUBSET Nat, NEW i, NEW j, IsFirst(i, S), IsFirst(j, S)
  PROVE  i = j
<1>1. i \in Nat /\ j \in Nat /\ i <= j /\ j <= i
  BY DEF IsFirst
<1> QED
  BY <1>1

LEMMA OneEntry ==
  ASSUME NEW l \in Seq(RunRow), NEW fp, NEW a \in FindingState, NEW b \in FindingState,
         Explains(l, fp, a), Explains(l, fp, b)
  PROVE  a = b
<1> DEFINE seen == Sightings(l, fp)
<1>1. seen \in SUBSET Nat /\ Fixes(l, fp) \in SUBSET Nat
  <2>1. DOMAIN l = 1 .. Len(l) /\ Len(l) \in Nat
    OBVIOUS
  <2> QED
    BY <2>1 DEF Sightings, Fixes
<1>2. CASE seen = {}
  BY <1>2 DEF Explains
<1>3. CASE seen # {}
  <2> DEFINE Entry(st, first, last) ==
        /\ IsFirst(first, seen) /\ IsLast(last, seen)
        /\ st.firstRun = l[first].id
        /\ st.lastRun = l[last].id
        /\ st.status = StatusFrom(l, fp, first, last)
        /\ st.scanners = Reporters(l, fp, Len(l))
        /\ st.occurrences = Cardinality(seen)
        /\ st.regressions = Cardinality(Returns(l, fp))
        /\ \/ Fixes(l, fp) = {} /\ st.fixedRun = NoRun
           \/ \E j \in Fixes(l, fp) : IsLast(j, Fixes(l, fp)) /\ st.fixedRun = l[j].id
  <2>1. PICK f1, l1 : Entry(a, f1, l1)
    BY <1>3 DEF Explains
  <2>2. PICK f2, l2 : Entry(b, f2, l2)
    BY <1>3 DEF Explains
  <2>3. f1 = f2 /\ l1 = l2
    BY <1>1, <2>1, <2>2, OneFirst, OneLast
  <2>4. a.fixedRun = b.fixedRun
    BY <1>1, <2>1, <2>2, OneLast
  <2>5. /\ a.firstRun = b.firstRun /\ a.lastRun = b.lastRun /\ a.status = b.status
        /\ a.scanners = b.scanners /\ a.occurrences = b.occurrences
        /\ a.regressions = b.regressions
    BY <2>1, <2>2, <2>3
  <2> QED
    BY <2>4, <2>5 DEF FindingState
<1> QED
  BY <1>2, <1>3

(* Two histories of the same scans count the same for every finding.       *)
LEMMA OneDelta ==
  ASSUME NEW l \in Seq(RunRow), NEW m \in Seq(RunRow), SameScans(l, m),
         DeltasOf(l), DeltasOf(m), NEW i \in DOMAIN l, l[i].counted
  PROVE  l[i].delta = m[i].delta
<1>1. i \in DOMAIN m /\ m[i].counted
  BY DEF SameScans, SameScan
<1>2. l[i].delta \in Marks /\ m[i].delta \in Marks
  <2>1. l[i] \in RunRow /\ m[i] \in RunRow
    BY <1>1
  <2> QED
    BY <2>1 DEF RunRow
<1>3. ASSUME NEW fp \in Fingerprint PROVE l[i].delta[fp] = m[i].delta[fp]
  <2>1. l[i].delta[fp] = MarkOf(l, fp, i) /\ m[i].delta[fp] = MarkOf(m, fp, i)
    BY <1>1 DEF DeltasOf
  <2>2. MarkOf(l, fp, i) = MarkOf(m, fp, i)
    BY SameScansSameRules
  <2> QED
    BY <2>1, <2>2
<1> QED
  BY <1>2, <1>3 DEF Marks
=============================================================================
