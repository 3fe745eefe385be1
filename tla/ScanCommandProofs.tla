-------------------------- MODULE ScanCommandProofs --------------------------
(* Theorems about scan after scan, for any number of scanners, findings,   *)
(* scopes and runs: the display, and what the history concludes.           *)
EXTENDS ScanCommand, LifecycleProofs, FiniteSetTheorems

-----------------------------------------------------------------------------
(* The registry.  Every scanner has one place in it.                       *)
Place(s) == CHOOSE i \in DOMAIN Registry : Registry[i] = s

LEMMA Places ==
  /\ DOMAIN Registry = 1 .. Len(Registry) /\ Len(Registry) \in Nat
  /\ \A i \in DOMAIN Registry : Registry[i] \in Scanner
  /\ \A s \in Scanner : Place(s) \in DOMAIN Registry /\ Registry[Place(s)] = s
  /\ \A i \in DOMAIN Registry : Place(Registry[i]) = i
<1>1. /\ DOMAIN Registry = 1 .. Len(Registry) /\ Len(Registry) \in Nat
      /\ \A i \in DOMAIN Registry : Registry[i] \in Scanner
  <2>1. Registry \in Seq(Scanner)
    BY ScanAssumption
  <2> QED
    BY <2>1
<1>2. ASSUME NEW s \in Scanner
      PROVE  \E i \in DOMAIN Registry : {j \in DOMAIN Registry : Registry[j] = s} = {i}
  <2> DEFINE at == {j \in DOMAIN Registry : Registry[j] = s}
  <2>1. IsFiniteSet(DOMAIN Registry)
    BY <1>1, FS_Interval
  <2>2. IsFiniteSet(at) /\ Cardinality(at) = 1
    BY <2>1, FS_Subset, ScanAssumption
  <2>3. PICK i : at = {i}
    BY <2>2, FS_Singleton
  <2> QED
    BY <2>3
<1>3. ASSUME NEW s \in Scanner
      PROVE  Place(s) \in DOMAIN Registry /\ Registry[Place(s)] = s
  BY <1>2 DEF Place
<1>4. ASSUME NEW i \in DOMAIN Registry PROVE Place(Registry[i]) = i
  <2>1. PICK k \in DOMAIN Registry :
          {j \in DOMAIN Registry : Registry[j] = Registry[i]} = {k}
    BY <1>1, <1>2
  <2>2. Place(Registry[i]) \in {j \in DOMAIN Registry : Registry[j] = Registry[i]}
    BY <1>1, <1>3
  <2> QED
    BY <2>1, <2>2
<1> QED
  BY <1>1, <1>3, <1>4

(* Counting the members of S along the registry counts S.                  *)
LEMMA Counting ==
  ASSUME NEW S \in SUBSET Scanner
  PROVE  /\ IsFiniteSet(S) /\ Cardinality(S) \in Nat
         /\ Cardinality({i \in DOMAIN Registry : Registry[i] \in S}) = Cardinality(S)
<1> DEFINE at == {i \in DOMAIN Registry : Registry[i] \in S}
           f == [i \in at |-> Registry[i]]
<1>1. IsFiniteSet(at)
  <2>1. IsFiniteSet(DOMAIN Registry)
    BY Places, FS_Interval
  <2>2. at \in SUBSET DOMAIN Registry
    OBVIOUS
  <2> QED
    BY <2>1, <2>2, FS_Subset
<1>2. f \in Bijection(at, S)
  <2>1. f \in [at -> S]
    OBVIOUS
  <2>2. \A i, j \in at : f[i] = f[j] => i = j
    BY Places
  <2>3. \A s \in S : \E i \in at : f[i] = s
    <3> SUFFICES ASSUME NEW s \in S PROVE \E i \in at : f[i] = s
      OBVIOUS
    <3>1. Place(s) \in at /\ f[Place(s)] = s
      BY Places
    <3> QED
      BY <3>1
  <2> HIDE DEF f, at
  <2>4. DOMAIN f = at
    BY <2>1
  <2> QED
    BY <2>1, <2>2, <2>3, <2>4 DEF Bijection, Injection, Surjection, IsInjective
<1> HIDE DEF f, at
<1>3. IsFiniteSet(S) /\ Cardinality(S) = Cardinality(at)
  BY <1>1, <1>2, FS_Bijection DEF ExistsBijection
<1> QED
  BY <1>3, FS_CardinalityType DEF at

LEMMA AllCounted ==
  ASSUME NEW S \in SUBSET Scanner
  PROVE  Cardinality(S) + Cardinality(Scanner \ S) = Len(Registry)
<1> DEFINE in == {i \in DOMAIN Registry : Registry[i] \in S}
           out == {i \in DOMAIN Registry : Registry[i] \in Scanner \ S}
<1>1. IsFiniteSet(DOMAIN Registry) /\ Cardinality(DOMAIN Registry) = Len(Registry)
  <2>1. DOMAIN Registry = 1 .. Len(Registry) /\ Len(Registry) \in Nat
    BY Places
  <2> QED
    <3>1. /\ IsFiniteSet(1 .. Len(Registry))
          /\ Cardinality(1 .. Len(Registry)) =
               IF 1 > Len(Registry) THEN 0 ELSE Len(Registry) - 1 + 1
      BY <2>1, FS_Interval
    <3> QED
      BY <2>1, <3>1
<1>2. IsFiniteSet(in) /\ IsFiniteSet(out)
  BY <1>1, FS_Subset
<1>3. in \cup out = DOMAIN Registry /\ in \cap out = {}
  BY Places
<1>4. Cardinality(in) = Cardinality(S) /\ Cardinality(out) = Cardinality(Scanner \ S)
  BY Counting
<1>5. Cardinality(S) \in Nat /\ Cardinality(Scanner \ S) \in Nat
  BY Counting
<1> HIDE DEF in, out
<1>6. Cardinality(in \cup out) = Cardinality(in) + Cardinality(out) - Cardinality(in \cap out)
  BY <1>2, FS_Union
<1>7. Cardinality(in \cap out) = 0
  BY <1>3, FS_EmptySet
<1> QED
  BY <1>1, <1>3, <1>4, <1>5, <1>6, <1>7

(* The members of S are numbered without gaps.                             *)
LEMMA Numbering ==
  ASSUME NEW S \in SUBSET Scanner
  PROVE  /\ \A s \in S : IndexAmong(S, s) \in 1 .. Cardinality(S)
         /\ \A s, t \in S : IndexAmong(S, s) = IndexAmong(S, t) => s = t
         /\ \A i \in 1 .. Cardinality(S) : \E s \in S : IndexAmong(S, s) = i
<1> DEFINE upTo(n) == {i \in 1 .. n : Registry[i] \in S}
<1>1. \A s \in S : IndexAmong(S, s) = Cardinality(upTo(Place(s)))
  BY DEF IndexAmong, Place
<1>2. ASSUME NEW n \in 0 .. Len(Registry)
      PROVE  IsFiniteSet(upTo(n)) /\ Cardinality(upTo(n)) \in Nat
  <2>1. upTo(n) \in SUBSET (1 .. n) /\ IsFiniteSet(1 .. n)
    BY FS_Interval
  <2>2. IsFiniteSet(upTo(n))
    BY <2>1, FS_Subset
  <2> QED
    BY <2>2, FS_CardinalityType
<1>3. ASSUME NEW s \in S
      PROVE  IndexAmong(S, s) \in 1 .. Cardinality(S)
  <2>1. Place(s) \in DOMAIN Registry /\ Registry[Place(s)] = s
    BY Places
  <2>2. Place(s) \in 1 .. Len(Registry)
    BY <2>1, Places
  <2>3. Place(s) \in upTo(Place(s)) /\ upTo(Place(s)) \subseteq upTo(Len(Registry))
    BY <2>1, <2>2, Places
  <2>4. upTo(Len(Registry)) = {i \in DOMAIN Registry : Registry[i] \in S}
    BY Places
  <2>5. /\ IsFiniteSet(upTo(Place(s))) /\ Cardinality(upTo(Place(s))) \in Nat
        /\ IsFiniteSet(upTo(Len(Registry)))
    BY <1>2, <2>2, Places
  <2>6. Cardinality(upTo(Len(Registry))) = Cardinality(S) /\ Cardinality(S) \in Nat
    BY <2>4, Counting
  <2>7. Cardinality(upTo(Place(s))) <= Cardinality(upTo(Len(Registry)))
    BY <2>3, <2>5, FS_Subset
  <2>8. Cardinality(upTo(Place(s))) # 0
    BY <2>3, <2>5, FS_EmptySet
  <2> HIDE DEF upTo
  <2> QED
    BY <1>1, <2>5, <2>6, <2>7, <2>8
<1>4. ASSUME NEW s \in S, NEW t \in S, Place(s) < Place(t)
      PROVE  IndexAmong(S, s) # IndexAmong(S, t)
  <2>1. /\ Place(s) \in 1 .. Len(Registry) /\ Place(t) \in 1 .. Len(Registry)
        /\ Registry[Place(t)] = t
    BY Places
  <2>2. /\ upTo(Place(s)) \subseteq upTo(Place(t))
        /\ Place(t) \in upTo(Place(t)) /\ Place(t) \notin upTo(Place(s))
    BY <1>4, <2>1, Places
  <2>3. IsFiniteSet(upTo(Place(t)))
    BY <1>2, <2>1, Places
  <2>4. Cardinality(upTo(Place(s))) # Cardinality(upTo(Place(t)))
    BY <2>2, <2>3, FS_Subset
  <2> HIDE DEF upTo
  <2> QED
    BY <1>1, <2>4
<1>5. ASSUME NEW s \in S, NEW t \in S, IndexAmong(S, s) = IndexAmong(S, t)
      PROVE  s = t
  <2>1. /\ Place(s) \in Nat /\ Place(t) \in Nat
        /\ Registry[Place(s)] = s /\ Registry[Place(t)] = t
    BY Places
  <2>2. ~ (Place(s) < Place(t)) /\ ~ (Place(t) < Place(s))
    BY <1>4, <1>5
  <2> QED
    BY <2>1, <2>2
<1>6. \A i \in 1 .. Cardinality(S) : \E s \in S : IndexAmong(S, s) = i
  <2> DEFINE T == 1 .. Cardinality(S)
             f == [s \in S |-> IndexAmong(S, s)]
  <2>1. f \in [S -> T] /\ \A s, t \in S : f[s] = f[t] => s = t
    BY <1>3, <1>5
  <2>2. /\ IsFiniteSet(T) /\ Cardinality(T) = Cardinality(S)
    <3>1. Cardinality(S) \in Nat
      BY Counting
    <3> QED
      BY <3>1, FS_Interval
  <2>3. \A i : (\E s \in S : f[s] = i) <=> (\E s \in S : IndexAmong(S, s) = i)
    OBVIOUS
  <2> HIDE DEF f, T
  <2>4. f \in Injection(S, T)
    BY <2>1 DEF Injection, IsInjective
  <2>5. f \in Surjection(S, T)
    BY <2>2, <2>4, FS_Injection
  <2> QED
    BY <2>3, <2>5 DEF Surjection, T
<1> QED
  BY <1>3, <1>5, <1>6

(* The row a scanner's events are sent to, when the usable ones are U.     *)
RowAmong(U, s) == IF s \in U THEN IndexAmong(U, s) ELSE SkippedIndex(U, s)

LEMMA RowsApart ==
  ASSUME NEW U \in SUBSET Scanner
  PROVE  /\ \A s \in Scanner : RowAmong(U, s) \in DOMAIN Registry
         /\ \A s, t \in Scanner : RowAmong(U, s) = RowAmong(U, t) => s = t
         /\ \A s \in Scanner : RowAmong(U, s) <= Cardinality(U) <=> s \in U
<1>1. /\ Cardinality(U) \in Nat /\ Cardinality(Scanner \ U) \in Nat
      /\ Cardinality(U) + Cardinality(Scanner \ U) = Len(Registry)
      /\ DOMAIN Registry = 1 .. Len(Registry) /\ Len(Registry) \in Nat
  BY Counting, AllCounted, Places
<1>2. /\ \A s \in U : IndexAmong(U, s) \in 1 .. Cardinality(U)
      /\ \A s, t \in U : IndexAmong(U, s) = IndexAmong(U, t) => s = t
  BY Numbering
<1>3. /\ \A s \in Scanner \ U : IndexAmong(Scanner \ U, s) \in 1 .. Cardinality(Scanner \ U)
      /\ \A s, t \in Scanner \ U :
           IndexAmong(Scanner \ U, s) = IndexAmong(Scanner \ U, t) => s = t
  <2> DEFINE V == Scanner \ U
  <2>1. V \in SUBSET Scanner
    OBVIOUS
  <2> HIDE DEF V
  <2>2. /\ \A s \in V : IndexAmong(V, s) \in 1 .. Cardinality(V)
        /\ \A s, t \in V : IndexAmong(V, s) = IndexAmong(V, t) => s = t
    BY <2>1, Numbering
  <2> QED
    BY <2>2 DEF V
<1> DEFINE n == Cardinality(U)
           k == Cardinality(Scanner \ U)
<1>4. n \in Nat /\ k \in Nat /\ n + k = Len(Registry)
  BY <1>1
<1>5. \A s \in U : RowAmong(U, s) = IndexAmong(U, s) /\ RowAmong(U, s) \in 1 .. n
  BY <1>2 DEF RowAmong
<1>6. \A s \in Scanner \ U : /\ RowAmong(U, s) = n + IndexAmong(Scanner \ U, s)
                             /\ RowAmong(U, s) \in n + 1 .. n + k
                             /\ IndexAmong(Scanner \ U, s) \in Nat
  <2> SUFFICES ASSUME NEW s \in Scanner \ U
               PROVE  /\ RowAmong(U, s) = n + IndexAmong(Scanner \ U, s)
                      /\ RowAmong(U, s) \in n + 1 .. n + k
                      /\ IndexAmong(Scanner \ U, s) \in Nat
    OBVIOUS
  <2> DEFINE i == IndexAmong(Scanner \ U, s)
  <2>1. i \in 1 .. k
    BY <1>3
  <2>2. RowAmong(U, s) = n + i
    BY DEF RowAmong, SkippedIndex
  <2> HIDE DEF i, n, k
  <2>3. n + i \in n + 1 .. n + k /\ i \in Nat
    BY <1>4, <2>1
  <2> QED
    BY <2>2, <2>3 DEF i
<1> HIDE DEF n, k
<1>7. ASSUME NEW s \in Scanner
      PROVE  /\ RowAmong(U, s) \in 1 .. Len(Registry)
             /\ RowAmong(U, s) <= n <=> s \in U
  BY <1>4, <1>5, <1>6
<1>8. ASSUME NEW s \in Scanner, NEW t \in Scanner, RowAmong(U, s) = RowAmong(U, t)
      PROVE  s = t
  <2>1. s \in U <=> t \in U
    BY <1>7, <1>8
  <2>2. CASE s \in U
    BY <1>2, <1>5, <1>8, <2>1, <2>2
  <2>3. CASE s \notin U
    <3> DEFINE i == IndexAmong(Scanner \ U, s)
               j == IndexAmong(Scanner \ U, t)
    <3>1. i \in Nat /\ j \in Nat /\ n + i = n + j
      BY <1>6, <1>8, <2>1, <2>3
    <3>2. i = j => s = t
      BY <1>3, <2>1, <2>3
    <3> HIDE DEF i, j
    <3> QED
      BY <1>4, <3>1, <3>2
  <2> QED
    BY <2>2, <2>3
<1> QED
  BY <1>1, <1>7, <1>8 DEF n

(* At the start every scanner has its row, and only that one.              *)
LEMMA RowsAnnounced ==
  ASSUME NEW U \in SUBSET Scanner, NEW s \in Scanner
  PROVE  LET first == FirstRows(U)
         IN  /\ first \in [DOMAIN Registry -> [name : Scanner \cup {""}, phase : Phase]]
             /\ first[RowAmong(U, s)] =
                  [name |-> s, phase |-> IF s \in U THEN "queued" ELSE "skipped"]
             /\ \A j \in DOMAIN Registry : first[j].name = s => j = RowAmong(U, s)
<1>1. Cardinality(U) \in Nat
  BY Counting
<1>2. \A i \in DOMAIN Registry : i <= Cardinality(U) => i \in 1 .. Cardinality(U)
  BY <1>1, Places
<1>3. ASSUME NEW i \in DOMAIN Registry, i <= Cardinality(U)
      PROVE  \E t \in U : /\ FirstRows(U)[i] = [name |-> t, phase |-> "queued"]
                          /\ RowAmong(U, t) = i
  <2>1. \E t \in U : IndexAmong(U, t) = i
    BY <1>2, <1>3, Numbering
  <2> DEFINE t == CHOOSE u \in U : IndexAmong(U, u) = i
  <2>2. t \in U /\ IndexAmong(U, t) = i
    BY <2>1
  <2>3. FirstRows(U)[i] = [name |-> t, phase |-> "queued"]
    BY <1>3 DEF FirstRows
  <2> HIDE DEF t
  <2> QED
    BY <2>2, <2>3 DEF RowAmong
<1>4. ASSUME NEW i \in DOMAIN Registry, ~ (i <= Cardinality(U)),
             \E t \in Scanner \ U : SkippedIndex(U, t) = i
      PROVE  \E t \in Scanner \ U : /\ FirstRows(U)[i] = [name |-> t, phase |-> "skipped"]
                                    /\ RowAmong(U, t) = i
  <2> DEFINE t == CHOOSE u \in Scanner \ U : SkippedIndex(U, u) = i
  <2>1. t \in Scanner \ U /\ SkippedIndex(U, t) = i
    BY <1>4
  <2>2. FirstRows(U)[i] = [name |-> t, phase |-> "skipped"]
    BY <1>4 DEF FirstRows
  <2> HIDE DEF t
  <2> QED
    BY <2>1, <2>2 DEF RowAmong
<1>5. ASSUME NEW i \in DOMAIN Registry, ~ (i <= Cardinality(U)),
             ~ \E t \in Scanner \ U : SkippedIndex(U, t) = i
      PROVE  FirstRows(U)[i] = Blank
  BY <1>5 DEF FirstRows
<1>6. FirstRows(U) \in [DOMAIN Registry -> [name : Scanner \cup {""}, phase : Phase]]
  <2>1. ASSUME NEW i \in DOMAIN Registry
        PROVE  FirstRows(U)[i] \in [name : Scanner \cup {""}, phase : Phase]
    <3>1. Blank \in [name : Scanner \cup {""}, phase : Phase]
      BY DEF Blank, Phase
    <3>2. \A t \in Scanner : /\ [name |-> t, phase |-> "queued"] \in [name : Scanner \cup {""}, phase : Phase]
                             /\ [name |-> t, phase |-> "skipped"] \in [name : Scanner \cup {""}, phase : Phase]
      BY DEF Phase, Terminal
    <3>3. CASE i <= Cardinality(U)
      BY <1>3, <3>2, <3>3
    <3>4. CASE ~ (i <= Cardinality(U)) /\ \E t \in Scanner \ U : SkippedIndex(U, t) = i
      BY <1>4, <3>2, <3>4
    <3>5. CASE ~ (i <= Cardinality(U)) /\ ~ \E t \in Scanner \ U : SkippedIndex(U, t) = i
      BY <1>5, <3>1, <3>5
    <3> QED
      BY <3>3, <3>4, <3>5
  <2> DEFINE row(i) ==
        IF i <= Cardinality(U)
        THEN [name |-> CHOOSE t \in U : IndexAmong(U, t) = i, phase |-> "queued"]
        ELSE IF \E t \in Scanner \ U : SkippedIndex(U, t) = i
        THEN [name |-> CHOOSE t \in Scanner \ U : SkippedIndex(U, t) = i, phase |-> "skipped"]
        ELSE Blank
  <2>2. FirstRows(U) = [i \in DOMAIN Registry |-> row(i)]
    BY DEF FirstRows
  <2> HIDE DEF row
  <2> QED
    BY <2>1, <2>2
<1>7. \A j \in DOMAIN Registry : FirstRows(U)[j].name = s => j = RowAmong(U, s)
  <2> SUFFICES ASSUME NEW j \in DOMAIN Registry, FirstRows(U)[j].name = s
               PROVE  j = RowAmong(U, s)
    OBVIOUS
  <2> DEFINE row == FirstRows(U)[j]
  <2>0. row.name = s
    OBVIOUS
  <2>1. CASE j <= Cardinality(U)
    <3>1. PICK t \in U : row = [name |-> t, phase |-> "queued"] /\ RowAmong(U, t) = j
      BY <1>3, <2>1
    <3> HIDE DEF row
    <3> QED
      BY <2>0, <3>1
  <2>2. CASE ~ (j <= Cardinality(U)) /\ \E t \in Scanner \ U : SkippedIndex(U, t) = j
    <3>1. PICK t \in Scanner \ U : row = [name |-> t, phase |-> "skipped"] /\ RowAmong(U, t) = j
      BY <1>4, <2>2
    <3> HIDE DEF row
    <3> QED
      BY <2>0, <3>1
  <2>3. CASE ~ (j <= Cardinality(U)) /\ ~ \E t \in Scanner \ U : SkippedIndex(U, t) = j
    <3>1. row = Blank
      BY <1>5, <2>3
    <3> HIDE DEF row
    <3>2. s = ""
      BY <2>0, <3>1 DEF Blank
    <3> QED
      BY <3>2, ScanAssumption
  <2> QED
    BY <2>1, <2>2, <2>3
<1>8. FirstRows(U)[RowAmong(U, s)] =
        [name |-> s, phase |-> IF s \in U THEN "queued" ELSE "skipped"]
  <2> DEFINE i == RowAmong(U, s)
  <2>1. i \in DOMAIN Registry /\ (i <= Cardinality(U) <=> s \in U)
    BY RowsApart
  <2>2. CASE s \in U
    BY <1>3, <2>1, <2>2, RowsApart
  <2>3. CASE s \notin U
    <3>1. SkippedIndex(U, s) = i
      BY <2>3 DEF RowAmong
    <3> HIDE DEF i
    <3>2. PICK t \in Scanner \ U : /\ FirstRows(U)[i] = [name |-> t, phase |-> "skipped"]
                                   /\ RowAmong(U, t) = i
      BY <1>4, <2>1, <2>3, <3>1
    <3>3. t = s
      BY <3>2, RowsApart DEF i
    <3> QED
      BY <2>3, <3>2, <3>3 DEF i
  <2> QED
    BY <2>2, <2>3
<1> QED
  BY <1>6, <1>7, <1>8

-----------------------------------------------------------------------------
LEMMA NextRunTyped == TypeOK => NextRun \in RunRow
<1> SUFFICES ASSUME TypeOK PROVE NextRun \in RunRow
  OBVIOUS
<1>1. Len(history.runs) + 1 \in RunID /\ scan.scope \in Scope
  <2>1. history.runs \in Seq(RunRow)
    BY DEF TypeOK, Fold
  <2>2. Len(history.runs) \in Nat
    BY <2>1
  <2> QED
    <3>1. Len(history.runs) + 1 \in RunID
      BY <2>2 DEF RunID
    <3> QED
      BY <3>1 DEF TypeOK, Scan
<1>2. [fp \in Fingerprint |-> {s \in Scanner : fp \in seen[s]}] \in [Fingerprint -> SUBSET Scanner]
  OBVIOUS
<1>3. Ran \in SUBSET Scanner
  BY DEF Ran, Usable
<1>4. NoMarks \in Marks
  BY DEF NoMarks, Marks
<1> QED
  BY <1>1, <1>2, <1>3, <1>4 DEF NextRun, NewRow, RunRow, NoRun

LEMMA StepTyped == TypeOK /\ [Next]_vars => TypeOK'
<1> SUFFICES ASSUME TypeOK, [Next]_vars PROVE TypeOK'
  OBVIOUS
<1>1. /\ phase \in [Scanner -> Phase] /\ scan \in Scan
      /\ rows \in [DOMAIN Registry -> [name : Scanner \cup {""}, phase : Phase]]
      /\ seen \in [Scanner -> SUBSET Fingerprint] /\ history \in Fold
      /\ present \subseteq Fingerprint
  BY DEF TypeOK
<1>2. ASSUME NEW fp \in Fingerprint, Change(fp) PROVE TypeOK'
  <2>1. scan' = [scan EXCEPT !.steady = scan.steady /\ ~ Underway]
    BY <1>2 DEF Change
  <2>2. scan' \in Scan
    BY <1>1, <2>1 DEF Scan
  <2> QED
    BY <1>1, <1>2, <2>2 DEF Change, TypeOK
<1>3. ASSUME NEW usable \in SUBSET Scanner, NEW scope \in Scope, NEW selection \in Selections,
             Start(usable, scope, selection)
      PROVE  TypeOK'
  <2>1. scan' \in Scan
    BY <1>3, ScanAssumption DEF Start, Scan
  <2>2. phase' \in [Scanner -> Phase] /\ seen' \in [Scanner -> SUBSET Fingerprint]
    BY <1>3 DEF Start, Phase, Terminal
  <2>3. rows' \in [DOMAIN Registry -> [name : Scanner \cup {""}, phase : Phase]]
    BY <1>3, RowsAnnounced DEF Start
  <2> QED
    BY <1>1, <1>3, <2>1, <2>2, <2>3 DEF Start, TypeOK
<1>4. ASSUME NEW s \in Scanner, NEW i, NEW ph \in Phase, Apply(i, s, ph)
      PROVE  rows' \in [DOMAIN Registry -> [name : Scanner \cup {""}, phase : Phase]]
  BY <1>1, <1>4 DEF Apply
<1>5. ASSUME NEW s \in Scanner, ScannerStep(s) PROVE TypeOK'
  <2>1. CASE Begin(s)
    BY <1>1, <1>4, <2>1 DEF Begin, TypeOK, Phase, Terminal
  <2>2. CASE Finish(s)
    <3>1. seen' \in [Scanner -> SUBSET Fingerprint]
      BY <1>1, <2>2 DEF Finish
    <3> QED
      BY <1>1, <1>4, <2>2, <3>1 DEF Finish, TypeOK, Phase, Terminal
  <2>3. CASE Fail(s)
    BY <1>1, <1>4, <2>3 DEF Fail, TypeOK, Phase, Terminal
  <2> QED
    BY <1>5, <2>1, <2>2, <2>3 DEF ScannerStep
<1>6. CASE Cancel
  <2>1. scan' \in Scan
    BY <1>1, <1>6 DEF Cancel, Scan
  <2> QED
    BY <1>1, <1>6, <2>1 DEF Cancel, TypeOK
<1>7. CASE End
  <2>1. ApplyRun(history, NextRun) \in Fold
    BY <1>1, NextRunTyped, ApplyRunShape
  <2>2. history' \in Fold
    BY <1>1, <1>7, <2>1 DEF End
  <2> QED
    BY <1>1, <1>7, <2>2 DEF End, TypeOK, Phase
<1>8. CASE UNCHANGED vars
  BY <1>1, <1>8 DEF vars, TypeOK
<1> QED
  BY <1>2, <1>3, <1>5, <1>6, <1>7, <1>8 DEF Next

LEMMA InitTyped == Init => TypeOK
<1> SUFFICES ASSUME Init PROVE TypeOK
  OBVIOUS
<1>1. EmptyFold \in Fold
  BY DEF EmptyFold, Fold, EmptyIndex, FindingState, Absent, NoRun
<1>2. scan \in Scan
  BY ScanAssumption DEF Init, Scan
<1> QED
  BY <1>1, <1>2 DEF Init, TypeOK, Phase, Blank

(* The rows, the phases and the history are what they are declared to be.  *)
THEOREM Typed == Spec => []TypeOK
BY InitTyped, StepTyped, PTL DEF Spec

-----------------------------------------------------------------------------
(* While a scan is underway its usable scanners stay the same, and with    *)
(* them everybody's row.                                                   *)
RowsHeld ==
  Underway => \A s \in Scanner :
    LET i == RowAmong(Usable, s)
    IN  /\ rows[i] = [name |-> s, phase |-> phase[s]]
        /\ \A j \in DOMAIN rows : rows[j].name = s => j = i

(* scan.Run and replaySkipped number the rows by two functions that never  *)
(* send the events of two scanners to one row.                             *)
THEOREM OneRowEach == Spec => []RowsTellPhases
<1>1. Init => RowsHeld
  BY DEF Init, RowsHeld, Underway
<1>2. TypeOK /\ RowsHeld => RowsTellPhases
  <2> SUFFICES ASSUME TypeOK, RowsHeld, Underway, NEW s \in Scanner
               PROVE  \E i \in DOMAIN rows : /\ rows[i] = [name |-> s, phase |-> phase[s]]
                                             /\ \A j \in DOMAIN rows : rows[j].name = s => j = i
    BY DEF RowsTellPhases
  <2>1. RowAmong(Usable, s) \in DOMAIN rows
    BY RowsApart DEF TypeOK, Usable
  <2> QED
    BY <2>1 DEF RowsHeld
<1>3. TypeOK /\ RowsHeld /\ [Next]_vars => RowsHeld'
  <2> SUFFICES ASSUME TypeOK, RowsHeld, [Next]_vars PROVE RowsHeld'
    OBVIOUS
  <2>1. /\ phase \in [Scanner -> Phase] /\ DOMAIN rows = DOMAIN Registry
        /\ \A i \in DOMAIN rows : rows[i] \in [name : Scanner \cup {""}, phase : Phase]
    BY DEF TypeOK
  <2>2. CASE UNCHANGED <<phase, rows>>
    BY <2>2 DEF RowsHeld, Underway, Usable
  <2>3. ASSUME NEW usable \in SUBSET Scanner, NEW scope \in Scope, NEW selection \in Selections,
               Start(usable, scope, selection)
        PROVE  RowsHeld'
    <3>1. Usable' = usable
      BY <2>3 DEF Start, Usable
    <3>2. rows' = FirstRows(usable) /\ DOMAIN rows' = DOMAIN Registry
      BY <2>3 DEF Start, FirstRows
    <3>3. \A s \in Scanner : phase'[s] = IF s \in usable THEN "queued" ELSE "skipped"
      BY <2>3 DEF Start
    <3>4. \A s \in Scanner :
            /\ rows'[RowAmong(usable, s)] = [name |-> s, phase |-> phase'[s]]
            /\ \A j \in DOMAIN rows' : rows'[j].name = s => j = RowAmong(usable, s)
      BY <3>2, <3>3, RowsAnnounced
    <3> QED
      BY <3>1, <3>4 DEF RowsHeld
  <2>4. ASSUME NEW s \in Scanner, NEW ph \in {"running", "done", "failed"},
               phase[s] \in {"queued", "running"},
               phase' = [phase EXCEPT ![s] = ph], Apply(IndexAmong(Usable, s), s, ph)
        PROVE  RowsHeld'
    <3>1. Usable' = Usable /\ s \in Usable /\ Underway /\ Usable \in SUBSET Scanner
      BY <2>1, <2>4 DEF Usable, Underway
    <3> DEFINE i == RowAmong(Usable, s)
    <3>2. rows' = [rows EXCEPT ![i] = [name |-> s, phase |-> ph]] /\ i \in DOMAIN rows
      BY <2>1, <2>4, <3>1, RowsApart DEF Apply, RowAmong
    <3>3. \A t \in Scanner \ {s} : RowAmong(Usable, t) # i
      BY <3>1, RowsApart
    <3>4. ASSUME NEW t \in Scanner
          PROVE  /\ rows'[RowAmong(Usable, t)] = [name |-> t, phase |-> phase'[t]]
                 /\ \A j \in DOMAIN rows' : rows'[j].name = t => j = RowAmong(Usable, t)
      <4>1. /\ rows[RowAmong(Usable, t)] = [name |-> t, phase |-> phase[t]]
            /\ \A j \in DOMAIN rows : rows[j].name = t => j = RowAmong(Usable, t)
            /\ RowAmong(Usable, t) \in DOMAIN rows
        BY <2>1, <3>1, RowsApart DEF RowsHeld
      <4> HIDE DEF i
      <4>2. CASE t = s
        BY <2>1, <2>4, <3>2, <4>1, <4>2 DEF i
      <4>3. CASE t # s
        BY <2>1, <2>4, <3>2, <3>3, <4>1, <4>3
      <4> QED
        BY <4>2, <4>3
    <3> QED
      BY <3>1, <3>4 DEF RowsHeld
  <2>5. ASSUME NEW s \in Scanner, ScannerStep(s) PROVE RowsHeld'
    BY <2>4, <2>5 DEF ScannerStep, Begin, Finish, Fail
  <2>6. CASE End
    BY <2>6 DEF End, RowsHeld, Underway
  <2>7. CASE Cancel \/ (\E fp \in Fingerprint : Change(fp)) \/ UNCHANGED vars
    BY <2>2, <2>7 DEF Cancel, Change, vars
  <2> QED
    BY <2>3, <2>5, <2>6, <2>7 DEF Next
<1> QED
  BY <1>1, <1>2, <1>3, InitTyped, StepTyped, PTL DEF Spec

-----------------------------------------------------------------------------
(* Only the end of a scan moves the index, by the rules of the fold.       *)
LEMMA IndexMoves ==
  ASSUME TypeOK, [Next]_vars, history' # history
  PROVE  /\ End /\ \A s \in Scanner : phase[s] \in Terminal
         /\ history' = ApplyRun(history, NextRun)
         /\ \A fp \in Fingerprint :
              history'.states[fp] =
                IF NextRun.found[fp] # {}
                THEN Sighted(history.states[fp], NextRun.found[fp], NextRun.id)
                ELSE Missed(history.states[fp], Usable,
                            ScopeChanged(history.runs, scan.scope), NextRun.id)
<1>1. End
  BY DEF Next, vars, Change, Start, ScannerStep, Begin, Finish, Fail, Cancel
<1>2. (\A s \in Scanner : phase[s] \in Terminal) /\ history' = ApplyRun(history, NextRun)
  BY <1>1 DEF End
<1>3. NextRun.readable /\ NextRun.scope = scan.scope /\ NextRun.ran = Usable
  BY DEF NextRun, NewRow, Ran
<1>4. history'.states =
        Advance(history.states, NextRun, ScopeChanged(history.runs, scan.scope))
  BY <1>2, <1>3 DEF ApplyRun
<1> QED
  BY <1>1, <1>2, <1>3, <1>4 DEF Advance

LEMMA FixedByMiss ==
  ASSUME TypeOK, [Next]_vars, NEW fp \in Fingerprint,
         history.states[fp].status \in OpenStatuses,
         history'.states[fp].status = "fixed"
  PROVE  /\ ~ ScopeChanged(history.runs, scan.scope)
         /\ \A s \in Scanner : phase[s] \in Terminal
         /\ \E s \in history.states[fp].scanners : s \in Usable
<1>1. history' # history
  BY DEF OpenStatuses
<1> DEFINE st == history.states[fp]
           changed == ScopeChanged(history.runs, scan.scope)
<1>2. Sighted(st, NextRun.found[fp], NextRun.id).status # "fixed"
  BY DEF Sighted
<1>3. Missed(st, Usable, changed, NextRun.id).status = "fixed" =>
        ~ changed /\ CheckedBy(st.scanners, Usable)
  BY DEF Missed, OpenStatuses
<1> HIDE DEF st, changed
<1>4. ~ changed /\ CheckedBy(st.scanners, Usable)
  BY <1>1, <1>2, <1>3, IndexMoves DEF st, changed
<1> QED
  BY <1>1, <1>4, IndexMoves DEF CheckedBy, st, changed

(* What the history concludes fixed without having been looked for is      *)
(* explained: by a scanner that failed and counts as having run, or by the *)
(* user having narrowed the scanners or the scope.                         *)
THEOREM FixesExplained == Spec => PrematureFixIsExplained
<1>1. TypeOK /\ [Next]_vars =>
        [\A fp \in Fingerprint :
           /\ history.states[fp].status \in OpenStatuses
           /\ history'.states[fp].status = "fixed"
           /\ ~ LookedFor(fp)
           => \/ \E s \in history.states[fp].scanners : phase[s] = "failed"
              \/ scan.selection # Fingerprint
              \/ scan.scope # Whole]_vars
  <2> SUFFICES ASSUME TypeOK, [Next]_vars, NEW fp \in Fingerprint,
                      history.states[fp].status \in OpenStatuses,
                      history'.states[fp].status = "fixed",
                      ~ LookedFor(fp),
                      scan.selection = Fingerprint, scan.scope = Whole
               PROVE  \E s \in history.states[fp].scanners : phase[s] = "failed"
    OBVIOUS
  <2>1. PICK s \in history.states[fp].scanners : s \in Usable
    BY FixedByMiss
  <2>2. phase[s] \in {"done", "failed"}
    BY <2>1, FixedByMiss DEF Usable, Terminal
  <2>3. phase[s] # "done"
    BY <2>1, ScanAssumption DEF LookedFor
  <2> QED
    BY <2>1, <2>2, <2>3
<1> QED
  BY <1>1, InitTyped, StepTyped, PTL DEF Spec, PrematureFixIsExplained

-----------------------------------------------------------------------------
(* An indexed finding has a scanner that reported it, and while nothing    *)
(* changes a scanner reports what there is of what it was asked for.       *)
Reported == \A fp \in Fingerprint :
  history.states[fp].status # "absent" => history.states[fp].scanners # {}

SeenNow ==
  Underway /\ scan.steady => \A s \in Scanner : phase[s] = "done" =>
    seen[s] = present \cap Detects[s] \cap Covers[scan.scope] \cap scan.selection

LEMMA InitSeen == Init => Reported /\ SeenNow
BY DEF Init, Reported, SeenNow, Underway, EmptyFold, EmptyIndex, Absent

LEMMA StaysReported == TypeOK /\ Reported /\ [Next]_vars => Reported'
<1> SUFFICES ASSUME TypeOK, Reported, [Next]_vars, NEW fp \in Fingerprint,
                    history'.states[fp].status # "absent"
             PROVE  history'.states[fp].scanners # {}
  BY DEF Reported
<1>1. CASE history' = history
  BY <1>1 DEF Reported
<1>2. CASE history' # history
  <2> DEFINE st == history.states[fp]
             changed == ScopeChanged(history.runs, scan.scope)
             found == NextRun.found[fp]
  <2>1. st.status # "absent" => st.scanners # {}
    BY DEF Reported
  <2>2. st \in FindingState
    BY DEF TypeOK, Fold
  <2> HIDE DEF st, changed, found
  <2>3. found # {} => Sighted(st, found, NextRun.id).scanners # {}
    BY DEF Sighted
  <2>4. Missed(st, Usable, changed, NextRun.id).status # "absent" =>
          Missed(st, Usable, changed, NextRun.id).scanners # {}
    BY <2>1, <2>2 DEF Missed, FindingState, OpenStatuses
  <2> QED
    BY <1>2, <2>3, <2>4, IndexMoves DEF st, changed, found
<1> QED
  BY <1>1, <1>2

LEMMA StaysSeen == TypeOK /\ SeenNow /\ [Next]_vars => SeenNow'
<1> SUFFICES ASSUME TypeOK, SeenNow, [Next]_vars PROVE SeenNow'
  OBVIOUS
<1>1. /\ phase \in [Scanner -> Phase] /\ seen \in [Scanner -> SUBSET Fingerprint]
      /\ scan \in Scan
  BY DEF TypeOK
<1>2. ASSUME NEW fp \in Fingerprint, Change(fp) PROVE SeenNow'
  <2>1. scan' = [scan EXCEPT !.steady = scan.steady /\ ~ Underway] /\ phase' = phase
    BY <1>2 DEF Change
  <2>2. Underway' = Underway /\ (Underway => ~ scan'.steady)
    BY <1>1, <2>1 DEF Underway, Scan
  <2> QED
    BY <2>2 DEF SeenNow
<1>3. ASSUME NEW usable \in SUBSET Scanner, NEW scope \in Scope, NEW selection \in Selections,
             Start(usable, scope, selection)
      PROVE  SeenNow'
  BY <1>3 DEF Start, SeenNow
<1>4. ASSUME NEW s \in Scanner, Begin(s) \/ Fail(s) PROVE SeenNow'
  <2>1. PICK ph \in {"running", "failed"} : phase' = [phase EXCEPT ![s] = ph]
    BY <1>4 DEF Begin, Fail
  <2>2. Underway /\ UNCHANGED <<scan, seen, present>>
    BY <1>4 DEF Begin, Fail, Underway
  <2> QED
    BY <1>1, <2>1, <2>2 DEF SeenNow
<1>5. ASSUME NEW s \in Scanner, Finish(s) PROVE SeenNow'
  <2>1. /\ phase' = [phase EXCEPT ![s] = "done"] /\ UNCHANGED <<scan, present>> /\ Underway
        /\ seen' = [seen EXCEPT ![s] =
                      present \cap Detects[s] \cap Covers[scan.scope] \cap scan.selection]
    BY <1>5 DEF Finish, Underway
  <2> QED
    BY <1>1, <2>1 DEF SeenNow
<1>6. CASE Cancel
  <2>1. /\ scan' = [scan EXCEPT !.cancelled = TRUE]
        /\ UNCHANGED <<phase, seen, present>>
    BY <1>6 DEF Cancel
  <2>2. scan'.steady = scan.steady /\ scan'.scope = scan.scope /\ scan'.selection = scan.selection
    BY <1>1, <2>1 DEF Scan
  <2> QED
    BY <2>1, <2>2 DEF SeenNow, Underway
<1>7. CASE End
  BY <1>7 DEF End, SeenNow, Underway
<1>8. CASE UNCHANGED vars
  BY <1>8 DEF vars, SeenNow, Underway
<1> QED
  BY <1>2, <1>3, <1>4, <1>5, <1>6, <1>7, <1>8 DEF Next, ScannerStep

(* After a full scan whose predecessor was full as well, a finding is open *)
(* in the index exactly when it is in the tree and some scanner detects it,*)
(* whatever failed, was skipped or narrowed before.                        *)
THEOREM FullScansReconcile == Spec => FullScanReconciles
<1>1. TypeOK /\ Reported /\ SeenNow /\ [Next]_vars =>
        [/\ history' # history
         /\ scan.steady /\ scan.scope = Whole /\ scan.selection = Fingerprint
         /\ \A s \in Scanner : phase[s] = "done"
         /\ WholeBefore
         => \A fp \in Fingerprint :
              history'.states[fp].status \in OpenStatuses
                <=> \E s \in Scanner : fp \in present \cap Detects[s]]_vars
  <2> SUFFICES ASSUME TypeOK, Reported, SeenNow, [Next]_vars, history' # history,
                      scan.steady, scan.scope = Whole, scan.selection = Fingerprint,
                      \A s \in Scanner : phase[s] = "done", WholeBefore,
                      NEW fp \in Fingerprint
               PROVE  history'.states[fp].status \in OpenStatuses
                        <=> \E s \in Scanner : fp \in present \cap Detects[s]
    OBVIOUS
  <2> DEFINE st == history.states[fp]
             changed == ScopeChanged(history.runs, scan.scope)
             found == NextRun.found[fp]
  <2>1. Underway
    BY IndexMoves DEF End
  <2>2. \A s \in Scanner : fp \in seen[s] <=> fp \in present \cap Detects[s]
    BY <2>1, ScanAssumption DEF SeenNow
  <2>3. found = {s \in Scanner : fp \in present \cap Detects[s]}
    BY <2>2 DEF NextRun, NewRow
  <2>4. ~ changed
    BY DEF ScopeChanged, WholeBefore
  <2>5. st \in FindingState /\ (st.status # "absent" => st.scanners # {})
    BY DEF TypeOK, Fold, Reported
  <2>6. Usable = Scanner
    BY DEF Usable
  <2> HIDE DEF st, changed, found
  <2>7. Sighted(st, found, NextRun.id).status \in OpenStatuses
    BY DEF Sighted, OpenStatuses
  <2>8. Missed(st, Scanner, changed, NextRun.id).status \notin OpenStatuses
    BY <2>4, <2>5 DEF Missed, CheckedBy, FindingState, OpenStatuses
  <2>9. history'.states[fp] = IF found # {} THEN Sighted(st, found, NextRun.id)
                              ELSE Missed(st, Scanner, changed, NextRun.id)
    BY <2>6, IndexMoves DEF st, changed, found
  <2> QED
    BY <2>3, <2>7, <2>8, <2>9
<1> QED
  BY <1>1, InitTyped, StepTyped, InitSeen, StaysReported, StaysSeen, PTL
     DEF Spec, FullScanReconciles
=============================================================================
