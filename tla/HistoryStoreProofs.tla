-------------------------- MODULE HistoryStoreProofs --------------------------
(* Theorems about the SQLite store, for any number of callers and          *)
(* processes, any scans and retention policies, and without the bounds     *)
(* mattering.                                                              *)
EXTENDS HistoryReads, LifecycleProofs, FiniteSetTheorems

-----------------------------------------------------------------------------
LEMMA AtType == \A pc \in Step : At(pc) \in Operation
BY DEF At, Operation, EmptyFold, Fold, EmptyIndex, FindingState, Absent, NoRun

LEMMA InitTyped == Init => TypeOK
<1> SUFFICES ASSUME Init PROVE TypeOK
  OBVIOUS
<1>1. EmptyIndex \in [Fingerprint -> FindingState]
  BY DEF EmptyIndex, FindingState, Absent, NoRun
<1>2. At("idle") \in Operation
  BY AtType DEF Step
<1> QED
  BY <1>1, <1>2 DEF Init, TypeOK, NoRun

(* The row of a new scan.                                                  *)
LEMMA NewRowType ==
  ASSUME NEW report \in Report, NEW id \in RunID
  PROVE  NewRow(id, report.scope, report.ran, report.found) \in RunRow
<1>1. NoMarks \in Marks
  BY DEF NoMarks, Marks
<1> QED
  BY <1>1 DEF NewRow, RunRow, Report, NoRun

LEMMA CommittedType ==
  ASSUME TypeOK, NEW c \in Caller, Committed(c)
  PROVE  tx' \in [Caller -> Operation]
<1>1. At("idle") \in Operation
  BY AtType DEF Step
<1>2. \A d \in Caller :
        [tx[d] EXCEPT !.stale = @ \/ tx[d].pc \in {"put", "rebuild"}] \in Operation
  <2> SUFFICES ASSUME NEW d \in Caller
               PROVE  [tx[d] EXCEPT !.stale = @ \/ tx[d].pc \in {"put", "rebuild"}]
                        \in Operation
    OBVIOUS
  <2>1. tx[d] \in Operation
    BY DEF TypeOK
  <2> QED
    BY <2>1 DEF Operation
<1> QED
  BY <1>1, <1>2 DEF Committed

LEMMA StepTyped == TypeOK /\ [Next]_vars => TypeOK'
<1> SUFFICES ASSUME TypeOK, [Next]_vars PROVE TypeOK'
  OBVIOUS
<1> USE DEF TypeOK
<1>1. ASSUME NEW c \in Caller, PutRead(c) PROVE TypeOK'
  <2>1. [At("put") EXCEPT !.fold = [runs |-> runs, states |-> states]] \in Operation
    BY AtType DEF Operation, Step, Fold
  <2> QED
    BY <1>1, <2>1 DEF PutRead
<1>2. ASSUME NEW c \in Caller, Put(c) PROVE TypeOK'
  <2>1. PICK report \in Report, now \in Second :
          \E id \in MintRunIDAfter(now, NewestID(tx[c].fold.runs)) : PutCommit(c, report, id)
    BY <1>2 DEF Put
  <2>2. PICK id \in MintRunIDAfter(now, NewestID(tx[c].fold.runs)) : PutCommit(c, report, id)
    BY <2>1
  <2>3. tx[c].fold \in Fold /\ tx[c].fold.runs \in Seq(RunRow)
    BY DEF Operation, Fold
  <2>4. id \in RunID
    BY <2>3, NewestIDType, MintedIsNewer, StoreAssumption
  <2> DEFINE row == NewRow(id, report.scope, report.ran, report.found)
             fold == ApplyRun(tx[c].fold, row)
  <2>5. row \in RunRow
    BY <2>4, NewRowType
  <2> HIDE DEF row
  <2>6. PICK new \in RunRow : fold.runs = Append(tx[c].fold.runs, new)
    BY <2>3, <2>5, ApplyRunShape
  <2>7. fold \in Fold
    BY <2>3, <2>5, ApplyRunShape
  <2> HIDE DEF fold
  <2>8. fold.runs[Len(fold.runs)] = new /\ NewestID(fold.runs) \in Nat
    <3>1. fold.runs \in Seq(RunRow)
      BY <2>7 DEF Fold
    <3>2. fold.runs[Len(fold.runs)] = new
      BY <2>3, <2>6
    <3> QED
      BY <3>1, <3>2, NewestIDType
  <2>9. /\ runs' = Append(runs, new)
        /\ states' = Upsert(states, fold.states)
        /\ lastRun' = NewestID(fold.runs)
        /\ Committed(c)
        /\ UNCHANGED writer
    BY <2>2, <2>8 DEF PutCommit, row, fold
  <2>10. states' \in [Fingerprint -> FindingState]
    BY <2>7, <2>9 DEF Upsert, Fold
  <2> QED
    BY <2>8, <2>9, <2>10, CommittedType
<1>3. ASSUME NEW c \in Caller, RebuildRead(c) PROVE TypeOK'
  <2>1. [At("rebuild") EXCEPT !.todo = runs] \in Operation
    BY AtType DEF Operation, Step
  <2> QED
    BY <1>3, <2>1 DEF RebuildRead
<1>4. ASSUME NEW c \in Caller, RebuildDelete(c) PROVE TypeOK'
  <2>1. [tx[c] EXCEPT !.pc = "replay"] \in Operation
    BY DEF Operation, Step
  <2> QED
    BY <1>4, <2>1 DEF RebuildDelete
<1>5. ASSUME NEW c \in Caller, Replay(c) PROVE TypeOK'
  <2> DEFINE op == tx[c]
             row == Head(op.todo)
             fold == IF row.id \in op.doomed THEN op.fold ELSE ApplyRun(op.fold, row)
  <2>1. op \in Operation /\ op.fold \in Fold /\ op.todo \in Seq(RunRow) /\ op.todo # <<>>
    BY <1>5 DEF Operation, Replay
  <2>2. row \in RunRow /\ Tail(op.todo) \in Seq(RunRow)
    BY <2>1
  <2>3. fold \in Fold
    BY <2>1, <2>2, ApplyRunShape
  <2>4. tx' = [tx EXCEPT ![c] = [op EXCEPT !.todo = Tail(op.todo), !.fold = fold]]
    BY <1>5 DEF Replay
  <2> HIDE DEF fold
  <2>5. [op EXCEPT !.todo = Tail(op.todo), !.fold = fold] \in Operation
    BY <2>1, <2>2, <2>3 DEF Operation
  <2> QED
    BY <1>5, <2>4, <2>5 DEF Replay
<1>6. ASSUME NEW c \in Caller, ReplayCommit(c) PROVE TypeOK'
  <2>1. tx[c].fold \in Fold
    BY DEF Operation
  <2>2. tx[c].fold.runs \in Seq(RunRow) /\ NewestID(tx[c].fold.runs) \in Nat
    BY <2>1, NewestIDType DEF Fold
  <2> QED
    BY <1>6, <2>1, <2>2, CommittedType DEF ReplayCommit, Fold
<1>7. ASSUME NEW c \in Caller, NEW policy \in Retention, NEW now \in Second,
             PruneList(c, policy, now)
      PROVE  TypeOK'
  <2> DEFINE ids == [i \in DOMAIN runs |-> runs[i].id]
             doomed == Expired(ids, policy.maxRuns, policy.maxAge, now)
  <2>1. \A i \in DOMAIN runs : runs[i].id \in RunID
    <3>1. \A i \in DOMAIN runs : runs[i] \in RunRow
      OBVIOUS
    <3> QED
      BY <3>1 DEF RunRow
  <2>2. Len(ids) = Len(runs) /\ DOMAIN runs = 1 .. Len(runs) /\ Len(runs) \in Nat
    OBVIOUS
  <2>3. doomed \in SUBSET RunID
    <3>1. \A i \in 1 .. Len(ids) - 1 : ids[i] \in RunID
      BY <2>1, <2>2
    <3> HIDE DEF ids
    <3> QED
      BY <3>1 DEF Expired
  <2>4. tx' = [tx EXCEPT ![c] = [At("prune") EXCEPT !.doomed = doomed]]
    BY <1>7 DEF PruneList
  <2> HIDE DEF doomed
  <2>5. [At("prune") EXCEPT !.doomed = doomed] \in Operation
    BY <2>3, AtType DEF Operation, Step
  <2> QED
    BY <1>7, <2>4, <2>5 DEF PruneList
<1>8. ASSUME NEW c \in Caller, PruneDelete(c) PROVE TypeOK'
  <2>1. /\ At("idle") \in Operation
        /\ [tx[c] EXCEPT !.pc = "replay", !.todo = runs] \in Operation
    BY AtType DEF Operation, Step
  <2> QED
    BY <1>8, <2>1 DEF PruneDelete
<1>9. ASSUME NEW c \in Caller, Forget(c) PROVE TypeOK'
  <2>1. EmptyIndex \in [Fingerprint -> FindingState]
    BY DEF EmptyIndex, FindingState, Absent, NoRun
  <2> QED
    BY <1>9, <2>1, CommittedType DEF Forget, NoRun
<1>10. ASSUME NEW c \in Caller, Refuse(c) \/ Crash(c) PROVE TypeOK'
  <2>1. At("idle") \in Operation /\ At("refused") \in Operation
    BY AtType DEF Step
  <2> QED
    BY <1>10, <2>1 DEF Refuse, Crash
<1>11. ASSUME NEW i \in DOMAIN runs, Damage(i) PROVE TypeOK'
  <2>1. runs[i] \in RunRow
    OBVIOUS
  <2>2. [runs[i] EXCEPT !.readable = FALSE] \in RunRow
    BY <2>1 DEF RunRow
  <2>3. runs' \in Seq(RunRow)
    BY <1>11, <2>2 DEF Damage
  <2>4. ASSUME NEW d \in Caller
        PROVE  [tx[d] EXCEPT !.stale = @ \/ tx[d].pc \in {"put", "rebuild"}] \in Operation
    <3>1. tx[d] \in Operation
      OBVIOUS
    <3> QED
      BY <3>1 DEF Operation
  <2> QED
    BY <1>11, <2>3, <2>4 DEF Damage
<1>12. CASE UNCHANGED vars
  BY <1>12 DEF vars
<1> QED
  BY <1>1, <1>2, <1>3, <1>4, <1>5, <1>6, <1>7, <1>8, <1>9, <1>10, <1>11, <1>12
  DEF Next, CallerStep

(* Every variable always holds a value of its type, whoever does what.     *)
THEOREM Typed == Spec => []TypeOK
BY InitTyped, StepTyped, PTL DEF Spec

-----------------------------------------------------------------------------
(* Sequences of run rows.                                                  *)

LEMMA NewestIsLast ==
  ASSUME NEW rows \in Seq(RunRow), rows # <<>>
  PROVE  /\ Len(rows) \in DOMAIN rows
         /\ NewestID(rows) = rows[Len(rows)].id
         /\ NewestID(rows) \in RunID
<1>1. Len(rows) \in DOMAIN rows
  OBVIOUS
<1>2. rows[Len(rows)] \in RunRow
  BY <1>1
<1> QED
  BY <1>1, <1>2 DEF NewestID, RunRow

LEMMA RowIDs ==
  ASSUME NEW rows \in Seq(RunRow), NEW i \in DOMAIN rows
  PROVE  rows[i].id \in RunID /\ rows[i].prev \in Nat
<1>1. rows[i] \in RunRow
  OBVIOUS
<1> QED
  BY <1>1 DEF RunRow

LEMMA AppendKeepsChain ==
  ASSUME NEW rows \in Seq(RunRow), Chained(rows), Ascending(rows),
         NEW new \in RunRow, new.prev = NewestID(rows), NewestID(rows) < new.id
  PROVE  /\ Chained(Append(rows, new))
         /\ Ascending(Append(rows, new))
         /\ NewestID(Append(rows, new)) = new.id
<1> DEFINE longer == Append(rows, new)
<1>1. /\ Len(longer) = Len(rows) + 1 /\ Len(rows) \in Nat
      /\ DOMAIN longer = 1 .. Len(rows) + 1 /\ DOMAIN rows = 1 .. Len(rows)
      /\ longer[Len(rows) + 1] = new
      /\ \A i \in DOMAIN rows : longer[i] = rows[i]
      /\ longer # <<>>
  OBVIOUS
<1> HIDE DEF longer
<1>2. new.id \in Nat /\ new.prev \in Nat
  BY DEF RunRow, RunID
<1>3. \A i \in DOMAIN rows : rows[i].id \in Nat /\ rows[i].id < new.id
  <2> SUFFICES ASSUME NEW i \in DOMAIN rows
               PROVE  rows[i].id \in Nat /\ rows[i].id < new.id
    OBVIOUS
  <2>1. rows # <<>> /\ i \in 1 .. Len(rows)
    BY <1>1
  <2>2. Len(rows) \in DOMAIN rows /\ NewestID(rows) = rows[Len(rows)].id
    BY <2>1, NewestIsLast
  <2>3. rows[i].id \in Nat /\ rows[Len(rows)].id \in Nat
    BY <2>2, RowIDs DEF RunID
  <2>4. i = Len(rows) \/ i < Len(rows)
    BY <1>1, <2>1
  <2> QED
    BY <1>2, <2>2, <2>3, <2>4 DEF Ascending
<1>4. Ascending(longer)
  BY <1>1, <1>3 DEF Ascending
<1>5. NewestID(longer) = new.id
  BY <1>1 DEF NewestID
<1>6. ASSUME NEW i \in DOMAIN longer
      PROVE  /\ i = 1 => longer[i].prev = NoRun
             /\ i > 1 => /\ longer[i].prev = longer[i - 1].id
                         /\ longer[i].prev < longer[i].id
  <2>1. CASE i \in DOMAIN rows
    BY <1>1, <2>1 DEF Chained
  <2>2. CASE i = Len(rows) + 1
    <3>1. CASE rows = <<>>
      BY <1>1, <2>2, <3>1 DEF NewestID
    <3>2. CASE rows # <<>>
      BY <1>1, <2>2, <3>2, NewestIsLast
    <3> QED
      BY <3>1, <3>2
  <2> QED
    BY <1>1, <2>1, <2>2
<1>7. Chained(longer)
  BY <1>6 DEF Chained
<1> QED
  BY <1>4, <1>5, <1>7 DEF longer

LEMMA TailKeepsOrder ==
  ASSUME NEW rows \in Seq(RunRow), rows # <<>>, Ascending(rows)
  PROVE  /\ Ascending(Tail(rows))
         /\ Tail(rows) = <<>> => Head(rows).id = NewestID(rows)
         /\ Tail(rows) # <<>> => /\ NewestID(Tail(rows)) = NewestID(rows)
                                 /\ Head(rows).id < Tail(rows)[1].id
<1> DEFINE rest == Tail(rows)
<1>1. /\ Len(rows) \in Nat /\ Len(rows) > 0
      /\ DOMAIN rows = 1 .. Len(rows)
      /\ Len(rest) = Len(rows) - 1 /\ DOMAIN rest = 1 .. Len(rows) - 1
      /\ \A i \in 1 .. Len(rows) - 1 : rest[i] = rows[i + 1]
      /\ Head(rows) = rows[1]
      /\ rest \in Seq(RunRow)
  OBVIOUS
<1> HIDE DEF rest
<1>2. Ascending(rest)
  <2> SUFFICES ASSUME NEW i \in DOMAIN rest, NEW j \in DOMAIN rest, i < j
               PROVE  rest[i].id < rest[j].id
    BY DEF Ascending
  <2>1. i + 1 \in DOMAIN rows /\ j + 1 \in DOMAIN rows /\ i + 1 < j + 1
    BY <1>1
  <2>2. rest[i] = rows[i + 1] /\ rest[j] = rows[j + 1]
    BY <1>1
  <2> QED
    BY <2>1, <2>2 DEF Ascending
<1>3. rest = <<>> <=> Len(rest) = 0
  BY <1>1
<1>4. CASE rest = <<>>
  <2>0. Len(rest) = 0
    BY <1>3, <1>4
  <2>1. Len(rows) = 1
    <3>1. Len(rest) = Len(rows) - 1 /\ Len(rows) \in Nat
      BY <1>1
    <3>2. \A n \in Nat : n - 1 = 0 => n = 1
      OBVIOUS
    <3> QED
      BY <2>0, <3>1, <3>2
  <2>2. Head(rows).id = NewestID(rows)
    BY <1>1, <2>1, rows # <<>> DEF NewestID
  <2> QED
    BY <1>2, <1>4, <2>2 DEF rest
<1>5. CASE rest # <<>>
  <2>1. Len(rest) \in 1 .. Len(rows) - 1 /\ 1 \in DOMAIN rows /\ 2 \in DOMAIN rows
    BY <1>1, <1>3, <1>5
  <2>2. rest[1] = rows[2] /\ rest[Len(rest)] = rows[Len(rows)]
    BY <1>1, <2>1
  <2>3. NewestID(rest) = NewestID(rows)
    BY <1>5, <2>2 DEF NewestID
  <2>4. Head(rows).id < rest[1].id
    BY <1>1, <2>1, <2>2 DEF Ascending
  <2> QED
    BY <1>2, <1>5, <2>3, <2>4 DEF rest
<1> QED
  BY <1>4, <1>5

-----------------------------------------------------------------------------
(* A caller that takes no step stays on course ...                         *)

(* ... while the database does not change,                                 *)
LEMMA BystanderKeepsCourse ==
  ASSUME NEW d \in Caller, OnCourse(d),
         UNCHANGED <<runs, states>>, (writer' = d) <=> (writer = d),
         tx'[d] = tx[d]
  PROVE  OnCourse(d)'
BY DEF OnCourse, SnapshotHolds, LeadsToNewest, Chained, Ascending, NewestID

(* ... and when another commits: its snapshot is stale from then on.       *)
LEMMA CommitOutdates ==
  ASSUME TypeOK, NEW d \in Caller, OnCourse(d), writer # d, writer' # d,
         tx'[d] = [tx[d] EXCEPT !.stale = @ \/ tx[d].pc \in {"put", "rebuild"}],
         (NewestID(runs))' \notin tx[d].doomed
  PROVE  OnCourse(d)'
<1>1. tx[d] \in Operation
  BY DEF TypeOK
<1>2. /\ tx'[d].pc = tx[d].pc /\ tx'[d].fold = tx[d].fold
      /\ tx'[d].doomed = tx[d].doomed
      /\ tx'[d].pc \in {"put", "rebuild"} => tx'[d].stale
  BY <1>1 DEF Operation
<1>3. SnapshotHolds(d)'
  BY <1>2 DEF SnapshotHolds
<1> QED
  BY <1>2, <1>3 DEF OnCourse

(* A caller that is at rest, or has just begun, is on course.              *)
LEMMA RestIsOnCourse ==
  ASSUME TypeOK', NEW c \in Caller, NEW pc \in {"idle", "refused"},
         tx'[c] = At(pc), writer' # c
  PROVE  OnCourse(c)'
BY DEF At, OnCourse, SnapshotHolds

(* The empty id is no run's, and dooms nothing.                            *)
LEMMA NoRunNotDoomed == TypeOK => \A c \in Caller : NoRun \notin tx[c].doomed
<1> SUFFICES ASSUME TypeOK, NEW c \in Caller PROVE NoRun \notin tx[c].doomed
  OBVIOUS
<1>1. tx[c] \in Operation
  BY DEF TypeOK
<1> QED
  BY <1>1 DEF Operation, RunID, NoRun

LEMMA InitChain == Init => ChainInvariant
<1> SUFFICES ASSUME Init PROVE ChainInvariant
  OBVIOUS
<1>1. ASSUME NEW c \in Caller PROVE OnCourse(c)
  BY NobodyAssumption DEF Init, OnCourse, SnapshotHolds, At
<1>2. ChainIsLinear /\ Ascending(runs) /\ RepoRowAgrees
  BY DEF Init, ChainIsLinear, Chained, Ascending, RepoRowAgrees, NewestID
<1> QED
  BY <1>1, <1>2 DEF ChainInvariant

(* Put appends to a chain it saw whole.                                    *)
LEMMA PutKeepsChain ==
  ASSUME TypeOK, TypeOK', ChainInvariant, NEW c \in Caller, Put(c)
  PROVE  ChainInvariant'
<1>1. PICK report \in Report, now \in Second :
        \E id \in MintRunIDAfter(now, NewestID(tx[c].fold.runs)) :
          Fresh(id) /\ PutCommit(c, report, id)
  BY DEF Put
<1>2. PICK id \in MintRunIDAfter(now, NewestID(tx[c].fold.runs)) :
        Fresh(id) /\ PutCommit(c, report, id)
  BY <1>1
<1>3. tx[c].pc = "put" /\ writer = Nobody /\ ~ tx[c].stale
  BY <1>2 DEF PutCommit, CanWrite
<1>4. tx[c].fold.runs = runs
  BY <1>3 DEF ChainInvariant, OnCourse, SnapshotHolds
<1>5. runs \in Seq(RunRow) /\ tx[c].fold \in Fold /\ NewestID(runs) \in Nat
  BY NewestIDType DEF TypeOK, Operation
<1>6. id \in RunID /\ NewestID(runs) < id
  <2>1. id \in MintRunIDAfter(now, NewestID(runs)) /\ now \in Nat \ {0}
    BY <1>4, StoreAssumption
  <2> QED
    BY <1>5, <2>1, MintedIsNewer
<1> DEFINE row == NewRow(id, report.scope, report.ran, report.found)
           fold == ApplyRun(tx[c].fold, row)
<1>7. row \in RunRow /\ row.id = id
  BY <1>6, NewRowType DEF NewRow
<1> HIDE DEF row
<1>8. PICK new \in RunRow :
        fold.runs = Append(runs, new) /\ new.id = id /\ new.prev = NewestID(runs)
  <2>1. PICK new \in RunRow : /\ fold.runs = Append(tx[c].fold.runs, new)
                              /\ new.id = row.id
                              /\ new.prev = NewestID(tx[c].fold.runs)
    BY <1>5, <1>7, ApplyRunShape
  <2> QED
    BY <1>4, <1>7, <2>1
<1> HIDE DEF fold
<1>9. fold.runs[Len(fold.runs)] = new
  BY <1>5, <1>8
<1>10. /\ runs' = Append(runs, new)
       /\ lastRun' = NewestID(Append(runs, new))
       /\ Committed(c)
       /\ writer' = writer
  BY <1>2, <1>8, <1>9 DEF PutCommit, fold, row
<1>11. Chained(runs) /\ Ascending(runs)
  BY DEF ChainInvariant, ChainIsLinear
<1>12. Chained(runs') /\ Ascending(runs') /\ NewestID(runs') = id
  BY <1>5, <1>6, <1>8, <1>10, <1>11, AppendKeepsChain
<1>13. ASSUME NEW d \in Caller PROVE OnCourse(d)'
  <2>1. CASE d = c
    BY <1>3, <1>10, <2>1, RestIsOnCourse, NobodyAssumption DEF Committed
  <2>2. CASE d # c
    <3>1. id \notin tx[d].doomed /\ OnCourse(d)
      BY <1>2 DEF Fresh, ChainInvariant
    <3>2. tx'[d] = [tx[d] EXCEPT !.stale = @ \/ tx[d].pc \in {"put", "rebuild"}]
      BY <1>10, <2>2 DEF Committed
    <3> QED
      BY <1>3, <1>10, <1>12, <3>1, <3>2, CommitOutdates, NobodyAssumption
  <2> QED
    BY <2>1, <2>2
<1> QED
  BY <1>10, <1>12, <1>13 DEF ChainInvariant, ChainIsLinear, RepoRowAgrees

(* Replaying one run leads on to the newest: a run a prune dooms is not    *)
(* the last one left.                                                      *)
LEMMA ReplayLeadsOn ==
  ASSUME NEW fold \in Fold, NEW todo \in Seq(RunRow), NEW doomed,
         todo # <<>>, LeadsToNewest(fold.runs, todo), NewestID(runs) \notin doomed
  PROVE  LET row == Head(todo) IN
         LeadsToNewest((IF row.id \in doomed THEN fold ELSE ApplyRun(fold, row)).runs,
                       Tail(todo))
<1> DEFINE row == Head(todo)
           rest == Tail(todo)
<1>1. /\ Chained(fold.runs) /\ Ascending(fold.runs) /\ Ascending(todo)
      /\ NewestID(todo) = NewestID(runs)
      /\ NewestID(fold.runs) < todo[1].id
  BY DEF LeadsToNewest
<1>2. /\ row \in RunRow /\ row.id \in RunID /\ row = todo[1]
      /\ rest \in Seq(RunRow) /\ fold.runs \in Seq(RunRow)
  <2>1. row \in RunRow /\ row = todo[1] /\ rest \in Seq(RunRow)
    OBVIOUS
  <2>2. row.id \in RunID
    BY <2>1 DEF RunRow
  <2>3. fold.runs \in Seq(RunRow)
    BY DEF Fold
  <2> QED
    BY <2>1, <2>2, <2>3
<1>3. /\ Ascending(rest)
      /\ rest = <<>> => row.id = NewestID(todo)
      /\ rest # <<>> => NewestID(rest) = NewestID(todo) /\ row.id < rest[1].id
  BY <1>1, TailKeepsOrder
<1>4. NewestID(fold.runs) \in Nat /\ NewestID(fold.runs) < row.id
  BY <1>1, <1>2, NewestIDType
<1>5. rest # <<>> => rest[1].id \in RunID
  <2>1. rest # <<>> => 1 \in DOMAIN rest
    BY <1>2
  <2> QED
    BY <1>2, <2>1, RowIDs
<1> HIDE DEF row, rest
<1>6. CASE row.id \in doomed
  <2>1. rest # <<>>
    BY <1>1, <1>3, <1>6
  <2>2. NewestID(fold.runs) < rest[1].id
    BY <1>2, <1>3, <1>4, <1>5, <2>1 DEF RunID
  <2> QED
    BY <1>1, <1>3, <1>6, <2>1, <2>2 DEF LeadsToNewest, row, rest
<1>7. CASE row.id \notin doomed
  <2>1. PICK new \in RunRow : /\ ApplyRun(fold, row).runs = Append(fold.runs, new)
                              /\ new.id = row.id
                              /\ new.prev = NewestID(fold.runs)
    BY <1>2, ApplyRunShape
  <2>2. /\ Chained(Append(fold.runs, new)) /\ Ascending(Append(fold.runs, new))
        /\ NewestID(Append(fold.runs, new)) = row.id
    BY <1>1, <1>2, <1>4, <2>1, AppendKeepsChain
  <2>3. LeadsToNewest(ApplyRun(fold, row).runs, rest)
    BY <1>1, <1>3, <2>1, <2>2 DEF LeadsToNewest
  <2> QED
    BY <1>7, <2>3 DEF row, rest
<1> QED
  BY <1>6, <1>7

(* No policy expires the newest of an ascending chain.                     *)
LEMMA ExpiredSparesNewest ==
  ASSUME NEW rows \in Seq(RunRow), Ascending(rows),
         NEW maxRuns, NEW maxAge, NEW now
  PROVE  NewestID(rows) \notin
           Expired([i \in DOMAIN rows |-> rows[i].id], maxRuns, maxAge, now)
<1> DEFINE ids == [i \in DOMAIN rows |-> rows[i].id]
<1>1. /\ Len(rows) \in Nat /\ DOMAIN rows = 1 .. Len(rows) /\ Len(ids) = Len(rows)
      /\ \A i \in DOMAIN rows : ids[i] = rows[i].id
  OBVIOUS
<1> HIDE DEF ids
<1>2. \A id \in Expired(ids, maxRuns, maxAge, now) :
        \E k \in 1 .. Len(rows) - 1 : id = rows[k].id
  BY <1>1 DEF Expired
<1>3. ASSUME NEW k \in 1 .. Len(rows) - 1 PROVE rows[k].id # NewestID(rows)
  <2>1. rows # <<>> /\ k \in DOMAIN rows /\ Len(rows) \in DOMAIN rows /\ k < Len(rows)
    BY <1>1
  <2>2. rows[k].id < rows[Len(rows)].id
    BY <2>1 DEF Ascending
  <2>3. rows[k].id \in Nat
    BY <2>1, RowIDs DEF RunID
  <2> QED
    BY <2>1, <2>2, <2>3, NewestIsLast
<1> QED
  BY <1>2, <1>3 DEF ids

(* The commit of a rebuild or a prune puts a chain in place of the runs    *)
(* that ends in the same run.                                              *)
LEMMA ReplayCommitKeepsChain ==
  ASSUME TypeOK, TypeOK', ChainInvariant, NEW c \in Caller, ReplayCommit(c)
  PROVE  ChainInvariant'
<1>1. /\ tx[c].pc = "replay" /\ tx[c].todo = <<>>
      /\ runs' = tx[c].fold.runs
      /\ lastRun' = IF tx[c].fold.runs = <<>> THEN lastRun ELSE NewestID(tx[c].fold.runs)
      /\ writer' = Nobody
      /\ Committed(c)
  BY DEF ReplayCommit
<1>2. runs # <<>> /\ LeadsToNewest(tx[c].fold.runs, tx[c].todo) /\ writer = c
  BY <1>1 DEF ChainInvariant, OnCourse
<1>3. Chained(runs') /\ Ascending(runs') /\ NewestID(runs') = NewestID(runs)
  BY <1>1, <1>2 DEF LeadsToNewest
<1>4. NewestID(runs) \in RunID /\ lastRun = NewestID(runs)
  BY <1>2, NewestIsLast DEF TypeOK, ChainInvariant, RepoRowAgrees
<1>5. lastRun' = NewestID(runs')
  BY <1>1, <1>3, <1>4
<1>6. ASSUME NEW d \in Caller PROVE OnCourse(d)'
  <2>1. CASE d = c
    BY <1>1, <2>1, RestIsOnCourse, NobodyAssumption DEF Committed
  <2>2. CASE d # c
    <3>1. OnCourse(d) /\ NewestID(runs') \notin tx[d].doomed
      BY <1>3 DEF ChainInvariant, OnCourse
    <3>2. tx'[d] = [tx[d] EXCEPT !.stale = @ \/ tx[d].pc \in {"put", "rebuild"}]
      BY <1>1, <2>2 DEF Committed
    <3> QED
      BY <1>1, <1>2, <2>2, <3>1, <3>2, CommitOutdates, NobodyAssumption
  <2> QED
    BY <2>1, <2>2
<1> QED
  BY <1>3, <1>5, <1>6 DEF ChainInvariant, ChainIsLinear, RepoRowAgrees

(* A step that leaves the database alone leaves the chain alone.           *)
LEMMA QuietStepKeepsChain ==
  ASSUME ChainInvariant, UNCHANGED <<lastRun, runs, states>>,
         \A d \in Caller : OnCourse(d)'
  PROVE  ChainInvariant'
BY DEF ChainInvariant, ChainIsLinear, Chained, Ascending, RepoRowAgrees, NewestID

LEMMA ChainStep == TypeOK /\ TypeOK' /\ ChainInvariant /\ [Next]_vars => ChainInvariant'
<1> SUFFICES ASSUME TypeOK, TypeOK', ChainInvariant, [Next]_vars PROVE ChainInvariant'
  OBVIOUS
<1>0. /\ \A d \in Caller : OnCourse(d)
      /\ Chained(runs) /\ Ascending(runs) /\ lastRun = NewestID(runs)
      /\ runs \in Seq(RunRow)
      /\ tx \in [Caller -> Operation]
  BY DEF ChainInvariant, ChainIsLinear, RepoRowAgrees, TypeOK
<1>1. ASSUME NEW c \in Caller, UNCHANGED <<lastRun, runs, states>>,
             \A d \in Caller \ {c} : tx'[d] = tx[d] /\ (writer' = d <=> writer = d),
             OnCourse(c)'
      PROVE  ChainInvariant'
  <2>1. ASSUME NEW d \in Caller \ {c} PROVE OnCourse(d)'
    BY <1>0, <1>1, <2>1, BystanderKeepsCourse
  <2> QED
    BY <1>1, <2>1, QuietStepKeepsChain
<1>2. ASSUME NEW c \in Caller, PutRead(c) PROVE ChainInvariant'
  <2>1. OnCourse(c)'
    BY <1>0, <1>2, NoRunNotDoomed, NobodyAssumption DEF PutRead, OnCourse, SnapshotHolds, At, Free, Resting
  <2> QED
    BY <1>0, <1>1, <1>2, <2>1 DEF PutRead
<1>3. ASSUME NEW c \in Caller, RebuildRead(c) PROVE ChainInvariant'
  <2>1. runs # <<>>
    BY <1>0, <1>3 DEF RebuildRead, NewestID
  <2>2. OnCourse(c)'
    BY <1>0, <1>3, <2>1 DEF RebuildRead, OnCourse, SnapshotHolds, At, Free, Resting
  <2> QED
    BY <1>0, <1>1, <1>3, <2>2 DEF RebuildRead
<1>4. ASSUME NEW c \in Caller, RebuildDelete(c) PROVE ChainInvariant'
  <2>1. runs # <<>> /\ tx[c].todo = runs /\ tx[c].fold = EmptyFold
    BY <1>0, <1>4 DEF RebuildDelete, CanWrite, OnCourse, SnapshotHolds
  <2>2. NewestID(<<>>) < runs[1].id
    <3>1. 1 \in DOMAIN runs
      BY <1>0, <2>1
    <3> QED
      BY <1>0, <3>1, RowIDs DEF NewestID, NoRun, RunID
  <2>3. LeadsToNewest(<<>>, runs)
    BY <1>0, <2>1, <2>2 DEF LeadsToNewest, Chained, Ascending
  <2>4. /\ tx'[c].pc = "replay" /\ tx'[c].todo = runs /\ tx'[c].fold.runs = <<>>
        /\ tx'[c].doomed = tx[c].doomed /\ writer' = c /\ UNCHANGED <<runs, states>>
    BY <1>0, <1>4, <2>1 DEF RebuildDelete, Operation, EmptyFold
  <2>5. LeadsToNewest(<<>>, runs)'
    BY <2>3, <2>4 DEF LeadsToNewest, Chained, Ascending, NewestID
  <2>6. OnCourse(c)'
    BY <1>0, <2>1, <2>4, <2>5 DEF OnCourse, SnapshotHolds, LeadsToNewest
  <2> QED
    BY <1>0, <1>1, <1>4, <2>6, NobodyAssumption DEF RebuildDelete, CanWrite
<1>5. ASSUME NEW c \in Caller, Replay(c) PROVE ChainInvariant'
  <2> DEFINE row == Head(tx[c].todo)
             fold == IF row.id \in tx[c].doomed THEN tx[c].fold ELSE ApplyRun(tx[c].fold, row)
  <2>1. /\ tx[c].pc = "replay" /\ tx[c].todo # <<>>
        /\ tx[c] \in Operation /\ tx[c].fold \in Fold /\ tx[c].todo \in Seq(RunRow)
    BY <1>0, <1>5 DEF Replay, Operation
  <2>2. /\ LeadsToNewest(tx[c].fold.runs, tx[c].todo) /\ writer = c /\ runs # <<>>
        /\ NewestID(runs) \notin tx[c].doomed
    BY <1>0, <2>1 DEF OnCourse
  <2>3. LeadsToNewest(fold.runs, Tail(tx[c].todo))
    BY <2>1, <2>2, ReplayLeadsOn
  <2>4. tx' = [tx EXCEPT ![c] = [tx[c] EXCEPT !.todo = Tail(tx[c].todo), !.fold = fold]]
    BY <1>5 DEF Replay
  <2> HIDE DEF fold
  <2>5. /\ tx'[c].pc = "replay" /\ tx'[c].todo = Tail(tx[c].todo) /\ tx'[c].fold = fold
        /\ tx'[c].doomed = tx[c].doomed
    BY <1>0, <2>1, <2>4 DEF Operation
  <2>6. UNCHANGED <<lastRun, runs, states, writer>>
    BY <1>5 DEF Replay
  <2>7. LeadsToNewest(tx[c].fold.runs, tx[c].todo)'
    BY <2>3, <2>5, <2>6 DEF LeadsToNewest, Chained, Ascending, NewestID
  <2>8. OnCourse(c)'
    BY <2>2, <2>5, <2>6, <2>7 DEF OnCourse, SnapshotHolds
  <2> QED
    BY <1>0, <1>1, <2>4, <2>6, <2>8
<1>6. ASSUME NEW c \in Caller, NEW policy \in Retention, NEW now \in Second,
             PruneList(c, policy, now)
      PROVE  ChainInvariant'
  <2> DEFINE ids == [i \in DOMAIN runs |-> runs[i].id]
             doomed == Expired(ids, policy.maxRuns, policy.maxAge, now)
  <2>1. NewestID(runs) \notin doomed
    BY <1>0, ExpiredSparesNewest
  <2>2. tx' = [tx EXCEPT ![c] = [At("prune") EXCEPT !.doomed = doomed]] /\ Free(c)
    BY <1>6 DEF PruneList
  <2>3. UNCHANGED <<lastRun, runs, states, writer>>
    BY <1>6 DEF PruneList
  <2> HIDE DEF doomed
  <2>4. /\ tx'[c].pc = "prune" /\ tx'[c].doomed = doomed /\ tx'[c].fold = EmptyFold
        /\ tx[c].pc # "replay"
    BY <1>0, <2>2 DEF At, Free, Resting
  <2>5. OnCourse(c)'
    BY <1>0, <2>1, <2>3, <2>4 DEF OnCourse, SnapshotHolds
  <2> QED
    BY <1>0, <1>1, <2>2, <2>3, <2>5
<1>7. ASSUME NEW c \in Caller, PruneDelete(c) PROVE ChainInvariant'
  <2>1. UNCHANGED <<lastRun, runs, states>> /\ tx[c].pc = "prune" /\ writer = Nobody
    BY <1>7 DEF PruneDelete
  <2>2. CASE lastRun = NoRun
    <3>1. tx' = [tx EXCEPT ![c] = At("idle")] /\ writer' = writer
      BY <1>7, <2>2 DEF PruneDelete
    <3>2. OnCourse(c)'
      BY <1>0, <2>1, <3>1, RestIsOnCourse, NobodyAssumption
    <3> QED
      BY <1>0, <1>1, <2>1, <3>1, <3>2
  <2>3. CASE lastRun # NoRun
    <3>1. tx' = [tx EXCEPT ![c] = [tx[c] EXCEPT !.pc = "replay", !.todo = runs]] /\ writer' = c
      BY <1>7, <2>3 DEF PruneDelete
    <3>2. runs # <<>> /\ tx[c].fold = EmptyFold /\ NewestID(runs) \notin tx[c].doomed
      BY <1>0, <2>1, <2>3 DEF NewestID, OnCourse
    <3>3. NewestID(<<>>) < runs[1].id
      <4>1. 1 \in DOMAIN runs
        BY <1>0, <3>2
      <4> QED
        BY <1>0, <4>1, RowIDs DEF NewestID, NoRun, RunID
    <3>4. /\ tx'[c].pc = "replay" /\ tx'[c].todo = runs /\ tx'[c].fold.runs = <<>>
          /\ tx'[c].doomed = tx[c].doomed
      BY <1>0, <3>1, <3>2 DEF Operation, EmptyFold
    <3>5. LeadsToNewest(<<>>, runs)'
      BY <1>0, <2>1, <3>2, <3>3 DEF LeadsToNewest, Chained, Ascending, NewestID
    <3>6. OnCourse(c)'
      BY <2>1, <3>1, <3>2, <3>4, <3>5 DEF OnCourse, SnapshotHolds, LeadsToNewest
    <3> QED
      BY <1>0, <1>1, <2>1, <3>1, <3>6, NobodyAssumption
  <2> QED
    BY <2>2, <2>3
<1>8. ASSUME NEW c \in Caller, Forget(c) PROVE ChainInvariant'
  <2>1. /\ lastRun' = NoRun /\ runs' = <<>> /\ writer' = writer /\ writer = Nobody
        /\ Committed(c)
    BY <1>8 DEF Forget
  <2>2. ASSUME NEW d \in Caller PROVE OnCourse(d)'
    <3>1. NewestID(runs') \notin tx[d].doomed
      BY <2>1, NoRunNotDoomed DEF NewestID
    <3>2. CASE d = c
      BY <2>1, <3>2, RestIsOnCourse, NobodyAssumption DEF Committed
    <3>3. CASE d # c
      <4>1. tx'[d] = [tx[d] EXCEPT !.stale = @ \/ tx[d].pc \in {"put", "rebuild"}]
        BY <2>1, <3>3 DEF Committed
      <4> QED
        BY <1>0, <2>1, <3>1, <4>1, CommitOutdates, NobodyAssumption
    <3> QED
      BY <3>2, <3>3
  <2> QED
    BY <2>1, <2>2 DEF ChainInvariant, ChainIsLinear, Chained, Ascending, RepoRowAgrees, NewestID
<1>9. ASSUME NEW c \in Caller, Refuse(c) PROVE ChainInvariant'
  <2>1. tx[c].pc # "replay" /\ tx' = [tx EXCEPT ![c] = At("refused")]
    BY <1>9 DEF Refuse
  <2>2. UNCHANGED <<lastRun, runs, states, writer>>
    BY <1>9 DEF Refuse
  <2>3. OnCourse(c)'
    BY <1>0, <2>1, <2>2, RestIsOnCourse DEF OnCourse
  <2> QED
    BY <1>0, <1>1, <2>1, <2>2, <2>3
<1>10. ASSUME NEW c \in Caller, Crash(c) PROVE ChainInvariant'
  <2>1. /\ tx' = [tx EXCEPT ![c] = At("idle")]
        /\ writer' = IF writer = c THEN Nobody ELSE writer
        /\ UNCHANGED <<lastRun, runs, states>>
    BY <1>10 DEF Crash
  <2>2. OnCourse(c)'
    BY <1>0, <2>1, RestIsOnCourse, NobodyAssumption
  <2> QED
    BY <1>0, <1>1, <2>1, <2>2, NobodyAssumption
<1>11. ASSUME NEW i \in DOMAIN runs, Damage(i) PROVE ChainInvariant'
  <2>1. /\ runs' = [runs EXCEPT ![i].readable = FALSE] /\ writer = Nobody
        /\ writer' = writer /\ lastRun' = lastRun
    BY <1>11 DEF Damage
  <2>2. /\ DOMAIN runs' = DOMAIN runs /\ Len(runs') = Len(runs)
        /\ runs' = <<>> <=> runs = <<>>
    BY <1>0, <2>1
  <2>3. ASSUME NEW j \in DOMAIN runs
        PROVE  runs'[j].id = runs[j].id /\ runs'[j].prev = runs[j].prev
    <3>1. runs[j] \in RunRow
      BY <1>0
    <3> QED
      BY <1>0, <2>1, <3>1 DEF RunRow
  <2>4. NewestID(runs') = NewestID(runs)
    BY <1>0, <2>2, <2>3, NewestIsLast DEF NewestID
  <2>5. Ascending(runs')
    BY <1>0, <2>2, <2>3 DEF Ascending
  <2>6. Chained(runs')
    <3>1. \A j \in DOMAIN runs : j > 1 => j - 1 \in DOMAIN runs
      BY <1>0
    <3> QED
      BY <1>0, <2>2, <2>3, <3>1 DEF Chained
  <2>7. ASSUME NEW d \in Caller PROVE OnCourse(d)'
    <3>1. tx'[d] = [tx[d] EXCEPT !.stale = @ \/ tx[d].pc \in {"put", "rebuild"}]
      BY <1>11 DEF Damage
    <3>2. NewestID(runs') \notin tx[d].doomed
      BY <1>0, <2>4 DEF OnCourse
    <3> QED
      BY <1>0, <2>1, <3>1, <3>2, CommitOutdates, NobodyAssumption
  <2> QED
    BY <1>0, <2>1, <2>4, <2>5, <2>6, <2>7 DEF ChainInvariant, ChainIsLinear, RepoRowAgrees
<1>12. CASE UNCHANGED vars
  <2>1. \A d \in Caller : OnCourse(d)'
    BY <1>0, <1>12, BystanderKeepsCourse DEF vars
  <2> QED
    BY <1>12, <2>1, QuietStepKeepsChain DEF vars
<1> QED
  BY <1>2, <1>3, <1>4, <1>5, <1>6, <1>7, <1>8, <1>9, <1>10, <1>11, <1>12,
     PutKeepsChain, ReplayCommitKeepsChain
  DEF Next, CallerStep

(* The runs form one linear chain and the repos row names its end, however *)
(* many processes record, rebuild, prune and forget at once.               *)
THEOREM ChainStaysLinear == Spec => [](ChainIsLinear /\ RepoRowAgrees)
<1>1. TypeOK /\ ChainInvariant /\ [Next]_vars => (TypeOK /\ ChainInvariant)'
  BY StepTyped, ChainStep
<1>2. ChainInvariant => ChainIsLinear /\ RepoRowAgrees
  BY DEF ChainInvariant
<1> QED
  BY InitTyped, InitChain, <1>1, <1>2, PTL DEF Spec

-----------------------------------------------------------------------------
(* A step that changes the runs keeps the newest of them, unless it        *)
(* forgets the repository.                                                 *)
LEMMA StepSparesNewest ==
  ASSUME TypeOK, TypeOK', ChainInvariant, Next, runs # <<>>, lastRun' # NoRun
  PROVE  \E i \in DOMAIN runs' : runs'[i].id = NewestID(runs)
<1>1. /\ runs \in Seq(RunRow) /\ runs' \in Seq(RunRow)
      /\ Len(runs) \in DOMAIN runs /\ NewestID(runs) = runs[Len(runs)].id
      /\ NewestID(runs) \in RunID
  BY NewestIsLast DEF TypeOK
<1>2. CASE runs' = runs
  BY <1>1, <1>2
<1>3. ASSUME NEW c \in Caller, Put(c) PROVE \E i \in DOMAIN runs' : runs'[i].id = NewestID(runs)
  <2>1. PICK row : runs' = Append(runs, row)
    BY <1>3 DEF Put, PutCommit
  <2>2. Len(runs) \in DOMAIN runs' /\ runs'[Len(runs)] = runs[Len(runs)]
    BY <1>1, <2>1
  <2> QED
    BY <1>1, <2>2
<1>4. ASSUME NEW c \in Caller, ReplayCommit(c) PROVE \E i \in DOMAIN runs' : runs'[i].id = NewestID(runs)
  <2>1. runs' = tx[c].fold.runs /\ NewestID(runs') = NewestID(runs)
    BY <1>4 DEF ReplayCommit, ChainInvariant, OnCourse, LeadsToNewest
  <2>2. runs' # <<>>
    BY <1>1, <2>1 DEF NewestID, NoRun, RunID
  <2> QED
    BY <1>1, <2>1, <2>2, NewestIsLast
<1>5. ASSUME NEW c \in Caller, Forget(c) PROVE FALSE
  BY <1>5 DEF Forget
<1>6. ASSUME NEW k \in DOMAIN runs, Damage(k) PROVE \E i \in DOMAIN runs' : runs'[i].id = NewestID(runs)
  <2>1. runs' = [runs EXCEPT ![k].readable = FALSE]
    BY <1>6 DEF Damage
  <2>2. runs[Len(runs)] \in RunRow /\ Len(runs) \in DOMAIN runs'
    BY <1>1, <2>1
  <2>3. runs'[Len(runs)].id = runs[Len(runs)].id
    BY <1>1, <2>1, <2>2 DEF RunRow
  <2> QED
    BY <1>1, <2>2, <2>3
<1> QED
  BY <1>2, <1>3, <1>4, <1>5, <1>6
  DEF Next, CallerStep, PutRead, RebuildRead, RebuildDelete, Replay, PruneList,
      PruneDelete, Refuse, Crash

(* Prune and Rebuild never delete the newest run, whatever was recorded    *)
(* between the listing and the deletion.                                   *)
THEOREM NewestStays == Spec => NewestRunSurvives
<1>1. TypeOK /\ ChainInvariant /\ [Next]_vars => (TypeOK /\ ChainInvariant)'
  BY StepTyped, ChainStep
<1>2. TypeOK /\ TypeOK' /\ ChainInvariant /\ [Next]_vars =>
        [runs # <<>> /\ lastRun' # NoRun =>
           \E i \in DOMAIN runs' : runs'[i].id = NewestID(runs)]_vars
  BY StepSparesNewest
<1> QED
  BY InitTyped, InitChain, <1>1, <1>2, PTL DEF Spec, NewestRunSurvives

-----------------------------------------------------------------------------
LEMMA InitAlternate == Init => Alternate
BY NobodyAssumption DEF Init, Alternate, Resting, At

(* Operations of one process go on alternating: each of them steps while   *)
(* all the others rest.                                                    *)
LEMMA AlternateStep ==
  OneHost /\ TypeOK /\ ChainInvariant /\ Alternate /\ [Next]_vars => Alternate'
<1> SUFFICES ASSUME OneHost, TypeOK, ChainInvariant, Alternate, [Next]_vars
             PROVE  Alternate'
  OBVIOUS
<1>0. \A c \in Caller : Held(c) <=> \E e \in Caller \ {c} : ~ Resting(e)
  BY DEF OneHost, Held
<1>1. tx \in [Caller -> Operation] /\ writer \in Caller \cup {Nobody}
  BY DEF TypeOK
<1>2. ASSUME NEW c \in Caller,
             Free(c) \/ ~ Resting(c),
             \A e \in Caller \ {c} : tx'[e].pc = tx[e].pc,
             tx'[c].pc \in {"put", "rebuild"} => ~ tx'[c].stale,
             writer' \in {c, Nobody},
             writer' = c => tx'[c].pc = "replay"
      PROVE  Alternate'
  <2>1. \A e \in Caller \ {c} : Resting(e) /\ tx'[e].pc \in {"idle", "refused"}
    BY <1>0, <1>2 DEF Free, Alternate, Resting
  <2>2. Resting(c)' \/ ~ Held(c)'
    BY <2>1 DEF Held, Resting
  <2> QED
    BY <1>2, <2>1, <2>2, NobodyAssumption DEF Alternate, Resting
<1>3. ASSUME NEW c \in Caller, Free(c) PROVE writer = Nobody
  BY <1>0, <1>1, <1>3 DEF Free, Resting, Alternate
<1>4. ASSUME NEW c \in Caller, NEW d \in Caller, Committed(c)
      PROVE  IF d = c THEN tx'[d] = At("idle") ELSE tx'[d].pc = tx[d].pc
  <2>1. tx[d] \in Operation
    BY <1>1
  <2> QED
    BY <1>4, <2>1 DEF Committed, Operation
<1>5. ASSUME NEW c \in Caller, PutRead(c) \/ RebuildRead(c) PROVE Alternate'
  <2>1. tx'[c].pc \in {"put", "rebuild"} /\ ~ tx'[c].stale
    BY <1>1, <1>5 DEF PutRead, RebuildRead, At
  <2> QED
    BY <1>1, <1>2, <1>3, <1>5, <2>1, NobodyAssumption DEF PutRead, RebuildRead
<1>6. ASSUME NEW c \in Caller, Put(c) \/ Forget(c) PROVE Alternate'
  <2>1. (Free(c) \/ ~ Resting(c)) /\ Committed(c) /\ writer' = writer /\ writer = Nobody
    BY <1>6 DEF Put, PutCommit, Forget, CanWrite, Resting
  <2>2. tx'[c].pc = "idle" /\ \A e \in Caller \ {c} : tx'[e].pc = tx[e].pc
    BY <1>4, <2>1 DEF At
  <2> QED
    BY <1>2, <2>1, <2>2, NobodyAssumption
<1>7. ASSUME NEW c \in Caller, RebuildDelete(c) \/ Replay(c) PROVE Alternate'
  <2>1. tx[c].pc \in {"rebuild", "replay"} /\ tx[c] \in Operation
    BY <1>1, <1>7 DEF RebuildDelete, Replay
  <2>2. tx'[c].pc = "replay" /\ \A e \in Caller \ {c} : tx'[e] = tx[e]
    BY <1>1, <1>7, <2>1 DEF RebuildDelete, Replay, Operation
  <2>3. writer' \in {c, Nobody}
    BY <1>7, <2>1 DEF RebuildDelete, Replay, Alternate, Resting
  <2> QED
    BY <1>2, <2>1, <2>2, <2>3 DEF Resting
<1>8. ASSUME NEW c \in Caller, ReplayCommit(c) PROVE Alternate'
  <2>1. ~ Resting(c) /\ Committed(c) /\ writer' = Nobody
    BY <1>8 DEF ReplayCommit, Resting
  <2>2. tx'[c].pc = "idle" /\ \A e \in Caller \ {c} : tx'[e].pc = tx[e].pc
    BY <1>4, <2>1 DEF At
  <2> QED
    BY <1>2, <2>1, <2>2, NobodyAssumption
<1>9. ASSUME NEW c \in Caller, NEW policy \in Retention, NEW now \in Second,
             PruneList(c, policy, now)
      PROVE  Alternate'
  <2>1. Free(c) /\ writer' = writer /\ \A e \in Caller \ {c} : tx'[e] = tx[e]
    BY <1>1, <1>9 DEF PruneList
  <2>2. tx'[c].pc = "prune"
    BY <1>1, <1>9 DEF PruneList, At
  <2> QED
    BY <1>2, <1>3, <2>1, <2>2, NobodyAssumption
<1>10. ASSUME NEW c \in Caller, PruneDelete(c) PROVE Alternate'
  <2>1. tx[c].pc = "prune" /\ writer = Nobody /\ tx[c] \in Operation
    BY <1>1, <1>10 DEF PruneDelete
  <2>2. \A e \in Caller \ {c} : tx'[e] = tx[e]
    BY <1>1, <1>10 DEF PruneDelete
  <2>3. \/ tx'[c].pc = "idle" /\ writer' = Nobody
        \/ tx'[c].pc = "replay" /\ writer' = c
    BY <1>1, <1>10, <2>1 DEF PruneDelete, At, Operation
  <2> QED
    BY <1>2, <2>1, <2>2, <2>3, NobodyAssumption DEF Resting
<1>11. ASSUME NEW c \in Caller, Refuse(c) PROVE Alternate'
  <2>1. ~ Resting(c) /\ tx' = [tx EXCEPT ![c] = At("refused")] /\ writer' = writer
    BY <1>11 DEF Refuse, Resting
  <2>2. writer' = Nobody
    BY <1>11, <2>1 DEF Refuse, Alternate
  <2> QED
    BY <1>1, <1>2, <2>1, <2>2, NobodyAssumption DEF At
<1>12. ASSUME NEW c \in Caller, Crash(c) PROVE Alternate'
  <2>1. ~ Resting(c) /\ tx' = [tx EXCEPT ![c] = At("idle")]
        /\ writer' = IF writer = c THEN Nobody ELSE writer
    BY <1>12 DEF Crash
  <2>2. writer' = Nobody
    BY <2>1 DEF Alternate
  <2> QED
    BY <1>1, <1>2, <2>1, <2>2, NobodyAssumption DEF At
<1>13. ASSUME NEW k \in DOMAIN runs, Damage(k) PROVE Alternate'
  <2>1. /\ writer = Nobody /\ writer' = writer
        /\ runs \in Seq(RunRow) /\ runs[k].readable
        /\ runs' = [runs EXCEPT ![k].readable = FALSE]
    BY <1>13 DEF Damage, TypeOK
  <2>2. /\ DOMAIN runs' = DOMAIN runs /\ ~ runs'[k].readable
        /\ \A i \in DOMAIN runs : ~ runs[i].readable => ~ runs'[i].readable
    <3>1. DOMAIN runs' = DOMAIN runs
      BY <2>1
    <3>2. ASSUME NEW i \in DOMAIN runs
          PROVE  i = k \/ ~ runs[i].readable => ~ runs'[i].readable
      <4>1. runs[i] \in RunRow
        BY <2>1, <3>2
      <4> QED
        BY <1>13, <2>1, <3>2, <4>1 DEF RunRow
    <3> QED
      BY <1>13, <3>1, <3>2
  <2>3. ASSUME NEW c \in Caller
        PROVE  /\ tx'[c].pc = tx[c].pc /\ tx'[c].fold = tx[c].fold
               /\ tx'[c].todo = tx[c].todo
    <3>1. tx[c] \in Operation
      BY <1>1
    <3> QED
      BY <1>13, <3>1 DEF Damage, Operation
  <2>4. ASSUME NEW c \in Caller, tx[c].pc \in {"put", "rebuild"}
        PROVE  DamagedSince(c)'
    <3>1. Snapshot(c)' = Snapshot(c)
      BY <2>3 DEF Snapshot
    <3>2. CASE tx[c].stale
      BY <2>2, <2>4, <3>1, <3>2 DEF Alternate, DamagedSince
    <3>3. CASE ~ tx[c].stale
      <4>1. Snapshot(c) = runs
        BY <2>4, <3>3 DEF ChainInvariant, OnCourse, SnapshotHolds, Snapshot
      <4> QED
        BY <1>13, <2>1, <2>2, <3>1, <4>1 DEF DamagedSince
    <3> QED
      BY <3>2, <3>3
  <2>5. \A c \in Caller : (Resting(c)' <=> Resting(c)) /\ (Held(c)' <=> Held(c))
    BY <2>3 DEF Resting, Held
  <2> QED
    BY <2>1, <2>3, <2>4, <2>5, NobodyAssumption DEF Alternate
<1>14. CASE UNCHANGED vars
  BY <1>14 DEF vars, Alternate, Resting, Held, DamagedSince, Snapshot
<1> QED
  BY <1>5, <1>6, <1>7, <1>8, <1>9, <1>10, <1>11, <1>12, <1>13, <1>14
  DEF Next, CallerStep

(* Only damage turns an operation away while operations alternate.         *)
LEMMA RefusedByDamage ==
  TypeOK /\ Alternate /\ [Next]_vars =>
    \A c \in Caller :
      tx[c].pc # "refused" /\ tx'[c].pc = "refused" => DamagedSince(c)
<1> SUFFICES ASSUME TypeOK, Alternate, [Next]_vars, NEW c \in Caller,
                    tx[c].pc # "refused", tx'[c].pc = "refused"
             PROVE  DamagedSince(c)
  OBVIOUS
<1>1. tx \in [Caller -> Operation]
  BY DEF TypeOK
<1>2. ASSUME NEW d \in Caller, Committed(d) PROVE FALSE
  <2>1. tx[c] \in Operation
    BY <1>1
  <2> QED
    BY <1>2, <2>1 DEF Committed, At, Operation
<1>3. ASSUME NEW d \in Caller, Refuse(d) PROVE DamagedSince(c)
  <2>1. d = c
    BY <1>1, <1>3 DEF Refuse
  <2>2. tx[c].pc \in {"put", "rebuild", "prune"} /\ writer \in {c, Nobody}
    BY <1>3, <2>1 DEF Refuse, Alternate, Resting
  <2>3. writer = Nobody
    BY <2>2 DEF Alternate
  <2> QED
    BY <1>3, <2>1, <2>3 DEF Refuse, CanWrite, Alternate
<1>4. ASSUME NEW d \in Caller, CallerStep(d), ~ Refuse(d) PROVE FALSE
  <2>1. CASE Put(d) \/ Forget(d) \/ ReplayCommit(d)
    BY <1>2, <2>1 DEF Put, PutCommit, Forget, ReplayCommit
  <2>2. CASE ~ (Put(d) \/ Forget(d) \/ ReplayCommit(d))
    <3>1. tx[c] \in Operation /\ tx[d] \in Operation
      BY <1>1
    <3>2. CASE PutRead(d) \/ RebuildRead(d) \/ Crash(d)
      BY <1>1, <3>1, <3>2 DEF PutRead, RebuildRead, Crash, At
    <3>3. CASE RebuildDelete(d) \/ Replay(d)
      <4>1. tx'[c].pc = tx[c].pc \/ tx'[c].pc = "replay"
        <5>1. CASE RebuildDelete(d)
          BY <1>1, <3>1, <5>1 DEF RebuildDelete, Operation
        <5>2. CASE Replay(d)
          <6>1. c = d \/ tx'[c] = tx[c]
            BY <1>1, <5>2 DEF Replay
          <6> QED
            BY <1>1, <3>1, <5>2, <6>1 DEF Replay, Operation
        <5> QED
          BY <3>3, <5>1, <5>2
      <4> QED
        BY <4>1
    <3>4. ASSUME NEW policy \in Retention, NEW now \in Second,
                 PruneList(d, policy, now)
          PROVE  FALSE
      BY <1>1, <3>1, <3>4 DEF PruneList, At
    <3>5. CASE PruneDelete(d)
      <4>1. c = d \/ tx'[c] = tx[c]
        BY <1>1, <3>5 DEF PruneDelete
      <4>2. tx'[d].pc \in {"idle", "replay"}
        BY <1>1, <3>1, <3>5 DEF PruneDelete, At, Operation
      <4> QED
        BY <4>1, <4>2
    <3> QED
      BY <1>4, <2>2, <3>2, <3>3, <3>4, <3>5 DEF CallerStep
  <2> QED
    BY <2>1, <2>2
<1>5. ASSUME NEW k \in DOMAIN runs, Damage(k) PROVE FALSE
  <2>1. tx[c] \in Operation
    BY <1>1
  <2> QED
    BY <1>5, <2>1 DEF Damage, Operation
<1> QED
  BY <1>3, <1>4, <1>5 DEF Next, vars

(* The operations of one process are turned away only for what others did  *)
(* to the file: they never make each other's snapshots stale.              *)
THEOREM OneProcessNeverRefused == Spec => InProcessNeverRefused
<1>1. CASE OneHost
  <2> DEFINE Inv == TypeOK /\ ChainInvariant /\ Alternate
  <2>1. Inv /\ [Next]_vars => Inv'
    BY <1>1, StepTyped, ChainStep, AlternateStep
  <2>2. Inv /\ [Next]_vars =>
          [OneHost => \A c \in Caller :
             tx[c].pc # "refused" /\ tx'[c].pc = "refused" => DamagedSince(c)]_vars
    BY RefusedByDamage
  <2>3. Init => Inv
    BY InitTyped, InitChain, InitAlternate
  <2> HIDE DEF Inv
  <2> QED
    BY <2>1, <2>2, <2>3, PTL DEF Spec, InProcessNeverRefused
<1>2. CASE ~ OneHost
  <2>1. [Next]_vars =>
          [OneHost => \A c \in Caller :
             tx[c].pc # "refused" /\ tx'[c].pc = "refused" => DamagedSince(c)]_vars
    BY <1>2
  <2> QED
    BY <2>1, PTL DEF Spec, InProcessNeverRefused
<1> QED
  BY <1>1, <1>2

-----------------------------------------------------------------------------
(* Why the index matches the runs.  What is stored, and what a replay has  *)
(* folded so far, is as the rules have it; a prune dooms only runs that    *)
(* come before those it keeps; and a replay has folded the runs it keeps   *)
(* of those it has read, in their order, and nothing else.                 *)

(* A run as it is folded: what the scan found out, and whether it counts   *)
(* by whether its document decodes.                                        *)
FoldedFrom(new, old) ==
  /\ new.id = old.id /\ new.scope = old.scope /\ new.ran = old.ran
  /\ new.found = old.found /\ new.readable = old.readable
  /\ new.counted = old.readable
  /\ new.marks = IF new.readable /\ new.delta # NoMarks THEN new.delta ELSE old.marks

DoomsOldest(rows, doomed) ==
  \A i, j \in DOMAIN rows : i < j /\ rows[j].id \in doomed => rows[i].id \in doomed

(* Of the p runs read so far n were doomed.                                *)
Place(rows, doomed, done, todo, n, p) ==
  /\ Len(rows) = p + Len(todo) /\ p = n + Len(done)
  /\ \A k \in DOMAIN todo : todo[k] = rows[p + k]
  /\ \A k \in DOMAIN done : FoldedFrom(done[k], rows[n + k])
  /\ \A i \in 1 .. p : rows[i].id \in doomed <=> i <= n

InPlace(c) ==
  \E n, p \in Nat : Place(runs, tx[c].doomed, tx[c].fold.runs, tx[c].todo, n, p)


FoldsByRule(c) ==
  /\ DoomsOldest(runs, tx[c].doomed)
  /\ tx[c].pc = "replay" => Ruled(tx[c].fold.runs, tx[c].fold.states) /\ InPlace(c)

RulesInvariant == Ruled(runs, states) /\ \A c \in Caller : FoldsByRule(c)

LEMMA RowScan ==
  ASSUME NEW rows \in Seq(RunRow), NEW i \in DOMAIN rows PROVE rows[i] \in RunRow
OBVIOUS

(* Losing documents takes nothing from what was counted.                   *)
LEMMA DamageKeepsRules ==
  ASSUME NEW rows \in Seq(RunRow), NEW index, NEW k \in DOMAIN rows, Ruled(rows, index)
  PROVE  Ruled([rows EXCEPT ![k].readable = FALSE], index)
<1> DEFINE after == [rows EXCEPT ![k].readable = FALSE]
<1>1. /\ DOMAIN after = DOMAIN rows /\ Len(after) = Len(rows) /\ Len(rows) \in Nat
      /\ DOMAIN rows = 1 .. Len(rows)
  OBVIOUS
<1>2. ASSUME NEW i \in DOMAIN rows
      PROVE  /\ SameScan(rows[i], after[i])
             /\ after[i].delta = rows[i].delta /\ after[i].marks = rows[i].marks
             /\ after[i].readable => rows[i].readable
  <2>1. rows[i] \in RunRow
    OBVIOUS
  <2> QED
    BY <2>1 DEF SameScan, RunRow
<1> HIDE DEF after
<1>3. SameScans(rows, after)
  BY <1>1, <1>2 DEF SameScans
<1>4. IndexOf(after, index)
  BY <1>3, SameScansSameRules DEF Ruled, IndexOf
<1>5. Written(after)
  BY <1>1, <1>2 DEF Ruled, Written, SameScan
<1>6. DeltasOf(after)
  <2> SUFFICES ASSUME NEW i \in DOMAIN rows, rows[i].counted, NEW fp \in Fingerprint
               PROVE  /\ after[i].delta[fp] = MarkOf(after, fp, i)
                      /\ after[i].found[fp] # {} => after[i].marks[fp] = after[i].delta[fp]
    BY <1>1, <1>2 DEF DeltasOf, SameScan
  <2>1. /\ rows[i].delta[fp] = MarkOf(rows, fp, i)
        /\ rows[i].found[fp] # {} => rows[i].marks[fp] = rows[i].delta[fp]
    BY DEF Ruled, DeltasOf
  <2>2. MarkOf(rows, fp, i) = MarkOf(after, fp, i)
    BY <1>3, SameScansSameRules
  <2> QED
    BY <1>2, <2>1, <2>2 DEF SameScan
<1> QED
  BY <1>4, <1>5, <1>6 DEF Ruled, after

(* The index a run leaves replaces every entry it had.                     *)
LEMMA UpsertReplaces ==
  ASSUME NEW fold \in Fold, NEW row \in RunRow
  PROVE  Upsert(fold.states, ApplyRun(fold, row).states) = ApplyRun(fold, row).states
<1> DEFINE old == fold.states
           new == ApplyRun(fold, row).states
           changed == ScopeChanged(fold.runs, row.scope)
           next == Advance(old, row, changed)
<1>1. new = IF row.readable THEN next ELSE old
  BY ApplyRunRow
<1>2. new \in [Fingerprint -> FindingState] /\ old \in [Fingerprint -> FindingState]
  BY ApplyRunShape DEF Fold
<1>3. ASSUME NEW fp \in Fingerprint PROVE next[fp] = Absent => old[fp] = Absent
  <2>1. CASE row.found[fp] # {}
    BY <2>1 DEF Advance, Sighted, Absent
  <2>2. CASE row.found[fp] = {}
    <3>1. next[fp] = Missed(old[fp], row.ran, changed, row.id)
      BY <2>2 DEF Advance
    <3>2. next[fp] = old[fp] \/ next[fp] = [old[fp] EXCEPT !.status = "fixed", !.fixedRun = row.id]
      BY <3>1 DEF Missed
    <3>3. old[fp] \in FindingState
      BY <1>2
    <3> HIDE DEF old, next
    <3>4. [old[fp] EXCEPT !.status = "fixed", !.fixedRun = row.id].status = "fixed"
      BY <3>3 DEF FindingState
    <3>5. Absent.status # "fixed"
      BY DEF Absent
    <3> QED
      BY <3>2, <3>4, <3>5
  <2> QED
    BY <2>1, <2>2
<1>4. \A fp \in Fingerprint : new[fp] = Absent => old[fp] = Absent
  BY <1>1, <1>3
<1> HIDE DEF new, old
<1>5. \A fp \in Fingerprint : Upsert(old, new)[fp] = new[fp]
  BY <1>4 DEF Upsert
<1> QED
  BY <1>2, <1>5 DEF Upsert, new, old

(* A policy dooms the oldest runs: neither age nor number spares a run     *)
(* that is older than one it takes.                                        *)
LEMMA ExpiredDoomsOldest ==
  ASSUME NEW rows \in Seq(RunRow), Ascending(rows),
         NEW maxRuns \in Nat, NEW maxAge \in Nat, NEW now \in Nat
  PROVE  DoomsOldest(rows, Expired([i \in DOMAIN rows |-> rows[i].id], maxRuns, maxAge, now))
<1> DEFINE ids == [i \in DOMAIN rows |-> rows[i].id]
           Old(k) == \/ maxRuns > 0 /\ Len(rows) - (k - 1) > maxRuns
                     \/ maxAge > 0 /\ now - SecondOf(rows[k].id) > maxAge
<1>1. /\ Len(rows) \in Nat /\ DOMAIN rows = 1 .. Len(rows) /\ Len(ids) = Len(rows)
      /\ \A i \in DOMAIN rows : ids[i] = rows[i].id
  OBVIOUS
<1>2. \A i \in DOMAIN rows : rows[i].id \in Nat
  BY RowIDs DEF RunID
<1> HIDE DEF ids
<1>3. \A id : id \in Expired(ids, maxRuns, maxAge, now) <=>
        \E k \in 1 .. Len(rows) - 1 : id = rows[k].id /\ Old(k)
  BY <1>1 DEF Expired
<1> SUFFICES ASSUME NEW i \in DOMAIN rows, NEW j \in DOMAIN rows, i < j,
                    rows[j].id \in Expired(ids, maxRuns, maxAge, now)
             PROVE  rows[i].id \in Expired(ids, maxRuns, maxAge, now)
  BY DEF DoomsOldest, ids
<1>4. PICK k \in 1 .. Len(rows) - 1 : rows[j].id = rows[k].id /\ Old(k)
  BY <1>3
<1>5. k = j
  <2>1. k \in DOMAIN rows
    BY <1>1
  <2>2. ~ k < j /\ ~ j < k
    BY <1>2, <1>4, <2>1 DEF Ascending
  <2> QED
    BY <1>1, <2>1, <2>2
<1>6. rows[i].id < rows[j].id
  BY DEF Ascending
<1>7. SecondOf(rows[i].id) <= SecondOf(rows[j].id) /\ SecondOf(rows[i].id) \in Int /\ SecondOf(rows[j].id) \in Int
  BY <1>2, <1>6 DEF SecondOf
<1>8. i \in 1 .. Len(rows) - 1
  BY <1>1, <1>5
<1>9. Old(i)
  <2>1. CASE maxRuns > 0 /\ Len(rows) - (k - 1) > maxRuns
    BY <1>1, <1>5, <2>1
  <2>2. CASE maxAge > 0 /\ now - SecondOf(rows[k].id) > maxAge
    BY <1>5, <1>7, <2>2
  <2> QED
    BY <1>4, <2>1, <2>2
<1> QED
  BY <1>3, <1>8, <1>9

(* A replay reads one run more, and folds it unless a prune dooms it: then *)
(* all it has read was doomed.                                             *)
LEMMA PlaceBegins ==
  ASSUME NEW rows \in Seq(RunRow), NEW doomed
  PROVE  Place(rows, doomed, <<>>, rows, 0, 0)
<1>1. Len(rows) \in Nat /\ Len(rows) = 0 + Len(rows) /\ \A k \in DOMAIN rows : rows[0 + k] = rows[k]
  OBVIOUS
<1> QED
  BY <1>1 DEF Place

LEMMA RestFollows ==
  ASSUME NEW rows \in Seq(RunRow), NEW todo \in Seq(RunRow), NEW p \in Nat,
         todo # <<>>, Len(rows) = p + Len(todo),
         \A k \in DOMAIN todo : todo[k] = rows[p + k]
  PROVE  /\ p + 1 \in DOMAIN rows /\ Head(todo) = rows[p + 1]
         /\ Len(rows) = p + 1 + Len(Tail(todo))
         /\ \A k \in DOMAIN Tail(todo) : Tail(todo)[k] = rows[p + 1 + k]
<1>1. /\ Len(todo) \in Nat /\ DOMAIN todo = 1 .. Len(todo) /\ 1 \in DOMAIN todo
      /\ Head(todo) = todo[1]
  OBVIOUS
<1>2. /\ Len(Tail(todo)) = Len(todo) - 1
      /\ DOMAIN Tail(todo) = 1 .. Len(todo) - 1
      /\ \A k \in 1 .. Len(todo) - 1 : Tail(todo)[k] = todo[k + 1]
  OBVIOUS
<1>3. DOMAIN rows = 1 .. Len(rows) /\ p + 1 \in 1 .. Len(rows)
  BY <1>1
<1>4. Head(todo) = rows[p + 1]
  BY <1>1
<1>5. Len(rows) = p + 1 + Len(Tail(todo))
  BY <1>1, <1>2
<1>6. ASSUME NEW k \in DOMAIN Tail(todo) PROVE Tail(todo)[k] = rows[p + 1 + k]
  <2>1. k + 1 \in DOMAIN todo /\ p + (k + 1) = p + 1 + k
    BY <1>1, <1>2
  <2> QED
    BY <1>2, <2>1
<1> QED
  BY <1>3, <1>4, <1>5, <1>6

LEMMA RestIsRead ==
  ASSUME NEW rows \in Seq(RunRow), NEW doomed, NEW done,
         NEW todo \in Seq(RunRow), NEW n, NEW p \in Nat,
         Place(rows, doomed, done, todo, n, p), todo # <<>>
  PROVE  /\ p + 1 \in DOMAIN rows /\ Head(todo) = rows[p + 1]
         /\ Len(rows) = p + 1 + Len(Tail(todo))
         /\ \A k \in DOMAIN Tail(todo) : Tail(todo)[k] = rows[p + 1 + k]
BY RestFollows, Zenon DEF Place

LEMMA PlaceSkips ==
  ASSUME NEW rows \in Seq(RunRow), NEW doomed, NEW done \in Seq(RunRow),
         NEW todo \in Seq(RunRow), NEW n \in Nat, NEW p \in Nat,
         Place(rows, doomed, done, todo, n, p), DoomsOldest(rows, doomed),
         todo # <<>>, Head(todo).id \in doomed
  PROVE  Place(rows, doomed, done, Tail(todo), n + 1, p + 1)
<1>1. /\ Len(rows) = p + Len(todo) /\ p = n + Len(done)
      /\ \A k \in DOMAIN todo : todo[k] = rows[p + k]
      /\ \A i \in 1 .. p : rows[i].id \in doomed <=> i <= n
  BY DEF Place
<1>2. /\ p + 1 \in DOMAIN rows /\ rows[p + 1].id \in doomed
      /\ Len(rows) = p + 1 + Len(Tail(todo))
      /\ \A k \in DOMAIN Tail(todo) : Tail(todo)[k] = rows[p + 1 + k]
  <2>1. /\ p + 1 \in DOMAIN rows /\ Head(todo) = rows[p + 1]
        /\ Len(rows) = p + 1 + Len(Tail(todo))
        /\ \A k \in DOMAIN Tail(todo) : Tail(todo)[k] = rows[p + 1 + k]
    BY RestIsRead, Zenon
  <2> QED
    BY <2>1
<1>3. DOMAIN rows = 1 .. Len(rows) /\ Len(rows) \in Nat /\ Len(done) \in Nat
  OBVIOUS
<1>4. n = p
  <2>1. n <= p
    BY <1>1, <1>3
  <2>2. ASSUME n < p PROVE FALSE
    <3>1. p \in DOMAIN rows /\ p < p + 1 /\ p \in 1 .. p
      BY <1>2, <1>3, <2>2
    <3>2. rows[p].id \in doomed
      BY <1>2, <3>1 DEF DoomsOldest
    <3> QED
      BY <1>1, <2>2, <3>1, <3>2
  <2> QED
    BY <2>1, <2>2
<1>5. Len(done) = 0 /\ DOMAIN done = {}
  <2>1. Len(done) = 0
    BY <1>1, <1>3, <1>4
  <2> QED
    BY <2>1
<1>6. ASSUME NEW i \in 1 .. p + 1 PROVE rows[i].id \in doomed <=> i <= n + 1
  <2>1. CASE i = p + 1
    BY <1>2, <1>4, <2>1
  <2>2. CASE i \in 1 .. p
    <3>1. i <= n /\ i <= n + 1
      BY <1>4, <2>2
    <3> QED
      BY <1>1, <2>2, <3>1
  <2> QED
    BY <2>1, <2>2
<1>7. p + 1 = n + 1 + Len(done)
  BY <1>4, <1>5
<1> QED
  BY <1>2, <1>5, <1>6, <1>7 DEF Place

LEMMA PlaceFolds ==
  ASSUME NEW rows \in Seq(RunRow), NEW doomed, NEW done \in Seq(RunRow),
         NEW todo \in Seq(RunRow), NEW n \in Nat, NEW p \in Nat,
         Place(rows, doomed, done, todo, n, p),
         todo # <<>>, Head(todo).id \notin doomed,
         NEW new \in RunRow, FoldedFrom(new, Head(todo))
  PROVE  Place(rows, doomed, Append(done, new), Tail(todo), n, p + 1)
<1>1. /\ Len(rows) = p + Len(todo) /\ p = n + Len(done)
      /\ \A k \in DOMAIN todo : todo[k] = rows[p + k]
      /\ \A k \in DOMAIN done : FoldedFrom(done[k], rows[n + k])
      /\ \A i \in 1 .. p : rows[i].id \in doomed <=> i <= n
  BY DEF Place
<1>2. /\ p + 1 \in DOMAIN rows /\ rows[p + 1].id \notin doomed
      /\ FoldedFrom(new, rows[p + 1])
      /\ Len(rows) = p + 1 + Len(Tail(todo))
      /\ \A k \in DOMAIN Tail(todo) : Tail(todo)[k] = rows[p + 1 + k]
  <2>1. /\ p + 1 \in DOMAIN rows /\ Head(todo) = rows[p + 1]
        /\ Len(rows) = p + 1 + Len(Tail(todo))
        /\ \A k \in DOMAIN Tail(todo) : Tail(todo)[k] = rows[p + 1 + k]
    BY RestIsRead, ZenonT(60)
  <2> QED
    BY <2>1
<1>3. /\ Len(done) \in Nat /\ DOMAIN done = 1 .. Len(done)
      /\ Len(Append(done, new)) = Len(done) + 1
      /\ DOMAIN Append(done, new) = 1 .. Len(done) + 1
      /\ \A k \in 1 .. Len(done) : Append(done, new)[k] = done[k]
      /\ Append(done, new)[Len(done) + 1] = new
  OBVIOUS
<1>4. ASSUME NEW k \in DOMAIN Append(done, new)
      PROVE  FoldedFrom(Append(done, new)[k], rows[n + k])
  <2>1. CASE k \in DOMAIN done
    BY <1>1, <1>3, <2>1
  <2>2. CASE k = Len(done) + 1
    <3>1. n + k = p + 1
      BY <1>1, <1>3, <2>2
    <3> QED
      BY <1>2, <1>3, <2>2, <3>1
  <2> QED
    BY <1>3, <2>1, <2>2
<1>5. \A i \in 1 .. p + 1 : rows[i].id \in doomed <=> i <= n
  <2> SUFFICES ASSUME NEW i \in 1 .. p + 1 PROVE rows[i].id \in doomed <=> i <= n
    OBVIOUS
  <2>1. CASE i \in 1 .. p
    BY <1>1, <2>1
  <2>2. CASE i = p + 1
    <3>1. ~ i <= n
      BY <1>1, <1>3, <2>2
    <3> QED
      BY <1>2, <2>2, <3>1
  <2> QED
    BY <2>1, <2>2
<1>6. p + 1 = n + Len(Append(done, new))
  BY <1>1, <1>3
<1> QED
  BY <1>2, <1>4, <1>5, <1>6 DEF Place

LEMMA FoldsTheRow ==
  ASSUME NEW fold \in Fold, NEW row \in RunRow
  PROVE  \E new \in RunRow : /\ ApplyRun(fold, row).runs = Append(fold.runs, new)
                             /\ FoldedFrom(new, row)
<1> DEFINE next == Advance(fold.states, row, ScopeChanged(fold.runs, row.scope))
           marks == MarksOf(fold.states, next, row)
<1>1. PICK new \in RunRow :
        /\ ApplyRun(fold, row).runs = Append(fold.runs, new)
        /\ new.id = row.id /\ new.scope = row.scope /\ new.ran = row.ran
        /\ new.found = row.found /\ new.readable = row.readable
        /\ new.counted = row.readable
        /\ new.delta = IF row.readable THEN marks ELSE row.delta
        /\ new.marks = IF row.readable /\ marks # NoMarks THEN marks ELSE row.marks
  BY ApplyRunRow
<1> HIDE DEF marks
<1>2. FoldedFrom(new, row)
  BY <1>1 DEF FoldedFrom
<1> QED
  BY <1>1, <1>2

LEMMA InitRules == Init => RulesInvariant
<1> SUFFICES ASSUME Init PROVE RulesInvariant
  OBVIOUS
<1>1. ASSUME NEW c \in Caller PROVE FoldsByRule(c)
  BY DEF Init, FoldsByRule, DoomsOldest, At
<1> QED
  BY <1>1, NothingRuled DEF Init, RulesInvariant

(* A caller that takes no step goes on folding by the rules: the runs it   *)
(* replays do not change, and those it dooms stay the oldest.              *)
LEMMA BystanderFolds ==
  ASSUME NEW d \in Caller, FoldsByRule(d), UNCHANGED runs,
         tx'[d].pc = tx[d].pc, tx'[d].fold = tx[d].fold,
         tx'[d].todo = tx[d].todo, tx'[d].doomed = tx[d].doomed
  PROVE  FoldsByRule(d)'
BY DEF FoldsByRule, InPlace

LEMMA CommitSparesFold ==
  ASSUME TypeOK, NEW d \in Caller, tx[d].pc # "replay",
         tx'[d] = [tx[d] EXCEPT !.stale = @ \/ tx[d].pc \in {"put", "rebuild"}],
         DoomsOldest(runs', tx[d].doomed)
  PROVE  FoldsByRule(d)'
<1>1. tx[d] \in Operation
  BY DEF TypeOK
<1>2. tx'[d].pc = tx[d].pc /\ tx'[d].doomed = tx[d].doomed
  BY <1>1 DEF Operation
<1> QED
  BY <1>2 DEF FoldsByRule

LEMMA RestFolds ==
  ASSUME NEW c \in Caller, NEW pc \in Step \ {"replay"}, tx'[c].pc = pc, tx'[c].doomed = {}
  PROVE  FoldsByRule(c)'
BY DEF FoldsByRule, DoomsOldest

LEMMA QuietStepKeepsRules ==
  ASSUME RulesInvariant, UNCHANGED <<runs, states>>, \A d \in Caller : FoldsByRule(d)'
  PROVE  RulesInvariant'
BY DEF RulesInvariant

(* Put stores the run and the index its fold made of what it saw, which is *)
(* what is stored.                                                         *)
LEMMA PutFolds ==
  ASSUME TypeOK, ChainInvariant, NEW c \in Caller, Put(c)
  PROVE  \E row \in RunRow, new \in RunRow :
           LET after == ApplyRun([runs |-> runs, states |-> states], row) IN
           /\ runs' = after.runs /\ states' = after.states
           /\ after.runs = Append(runs, new) /\ FoldedFrom(new, row)
           /\ row.readable /\ row.id > NewestID(runs)
           /\ \A d \in Caller : row.id \notin tx[d].doomed
           /\ writer = Nobody /\ Committed(c)
<1>1. PICK report \in Report, now \in Second :
        \E id \in MintRunIDAfter(now, NewestID(tx[c].fold.runs)) :
          Fresh(id) /\ PutCommit(c, report, id)
  BY DEF Put
<1>2. PICK id \in MintRunIDAfter(now, NewestID(tx[c].fold.runs)) :
        Fresh(id) /\ PutCommit(c, report, id)
  BY <1>1
<1>3. tx[c].pc = "put" /\ writer = Nobody /\ ~ tx[c].stale
  BY <1>2 DEF PutCommit, CanWrite
<1>4. tx[c].fold = [runs |-> runs, states |-> states]
  BY <1>3 DEF ChainInvariant, OnCourse, SnapshotHolds
<1>5. /\ runs \in Seq(RunRow) /\ NewestID(runs) \in Nat
      /\ [runs |-> runs, states |-> states] \in Fold
  BY NewestIDType DEF TypeOK, Fold
<1>6. id \in RunID /\ NewestID(runs) < id
  <2>1. id \in MintRunIDAfter(now, NewestID(runs)) /\ now \in Nat \ {0}
    BY <1>4, StoreAssumption
  <2> QED
    BY <1>5, <2>1, MintedIsNewer
<1> DEFINE row == NewRow(id, report.scope, report.ran, report.found)
           old == [runs |-> runs, states |-> states]
           after == ApplyRun(old, row)
<1>7. row \in RunRow /\ row.id = id /\ row.readable
  BY <1>6, NewRowType DEF NewRow
<1>8. /\ runs' = Append(runs, after.runs[Len(after.runs)])
      /\ states' = Upsert(states, after.states) /\ Committed(c)
  BY <1>2, <1>4 DEF PutCommit
<1> HIDE DEF row
<1>9. PICK new \in RunRow : after.runs = Append(runs, new) /\ FoldedFrom(new, row)
  BY <1>5, <1>7, FoldsTheRow
<1>10. Upsert(states, after.states) = after.states
  BY <1>5, <1>7, UpsertReplaces
<1> HIDE DEF after
<1>11. after.runs[Len(after.runs)] = new
  BY <1>5, <1>9
<1>12. runs' = after.runs /\ states' = after.states
  BY <1>8, <1>9, <1>10, <1>11
<1>13. /\ runs' = after.runs /\ states' = after.states
       /\ after.runs = Append(runs, new) /\ FoldedFrom(new, row)
       /\ row.readable /\ row.id > NewestID(runs)
       /\ \A d \in Caller : row.id \notin tx[d].doomed
       /\ writer = Nobody /\ Committed(c)
  BY <1>2, <1>3, <1>6, <1>7, <1>8, <1>9, <1>12 DEF Fresh
<1> QED
  BY <1>7, <1>13 DEF after

(* What a replay commits is made of the runs it found, from some place on, *)
(* and no caller dooms a later one of these without the earlier.           *)
LEMMA CommitIsSuffix ==
  ASSUME TypeOK, ChainInvariant, RulesInvariant, NEW c \in Caller, ReplayCommit(c)
  PROVE  \E n \in 0 .. Len(runs) - 1 :
           /\ Len(runs) = n + Len(runs')
           /\ \A k \in DOMAIN runs' : n + k \in DOMAIN runs /\ FoldedFrom(runs'[k], runs[n + k])
<1>1. tx[c].pc = "replay" /\ tx[c].todo = <<>> /\ runs' = tx[c].fold.runs
  BY DEF ReplayCommit
<1>2. PICK n \in Nat, p \in Nat :
        Place(runs, tx[c].doomed, tx[c].fold.runs, tx[c].todo, n, p)
  BY <1>1 DEF RulesInvariant, FoldsByRule, InPlace
<1>3. /\ runs # <<>> /\ NewestID(runs) \notin tx[c].doomed /\ runs \in Seq(RunRow)
      /\ runs' \in Seq(RunRow)
  <2>1. tx[c] \in Operation
    BY DEF TypeOK
  <2> QED
    BY <1>1, <2>1 DEF ChainInvariant, OnCourse, TypeOK, Operation, Fold
<1>4. /\ Len(runs) \in Nat /\ DOMAIN runs = 1 .. Len(runs) /\ Len(<<>>) = 0
      /\ DOMAIN runs' = 1 .. Len(runs') /\ Len(runs') \in Nat
      /\ Len(runs) \in DOMAIN runs
  BY <1>3
<1>5. /\ Len(runs) = p /\ p = n + Len(runs')
      /\ \A k \in DOMAIN runs' : FoldedFrom(runs'[k], runs[n + k])
      /\ \A i \in 1 .. p : runs[i].id \in tx[c].doomed <=> i <= n
  <2>1. Place(runs, tx[c].doomed, runs', <<>>, n, p)
    BY <1>1, <1>2
  <2>2. Len(runs) = p + Len(<<>>)
    BY <2>1 DEF Place
  <2>3. Len(runs) = p
    BY <1>4, <2>2
  <2> QED
    BY <2>1, <2>3 DEF Place
<1>6. runs[Len(runs)].id \notin tx[c].doomed
  BY <1>3, NewestIsLast
<1>7. ~ Len(runs) <= n
  BY <1>4, <1>5, <1>6
<1>8. n \in 0 .. Len(runs) - 1
  BY <1>4, <1>7
<1>9. \A k \in DOMAIN runs' : n + k \in DOMAIN runs
  BY <1>4, <1>5
<1> QED
  BY <1>5, <1>8, <1>9

LEMMA RulesStep ==
  TypeOK /\ TypeOK' /\ ChainInvariant /\ RulesInvariant /\ [Next]_vars => RulesInvariant'
<1> SUFFICES ASSUME TypeOK, TypeOK', ChainInvariant, RulesInvariant, [Next]_vars
             PROVE  RulesInvariant'
  OBVIOUS
<1>0. /\ \A d \in Caller : FoldsByRule(d) /\ OnCourse(d)
      /\ Ruled(runs, states) /\ Ascending(runs)
      /\ runs \in Seq(RunRow) /\ tx \in [Caller -> Operation]
  BY DEF ChainInvariant, RulesInvariant, TypeOK
<1>1. ASSUME NEW c \in Caller, UNCHANGED <<runs, states>>,
             \A d \in Caller \ {c} : tx'[d] = tx[d], FoldsByRule(c)'
      PROVE  RulesInvariant'
  <2>1. ASSUME NEW d \in Caller \ {c} PROVE FoldsByRule(d)'
    BY <1>0, <1>1, <2>1, BystanderFolds
  <2> QED
    BY <1>1, <2>1, QuietStepKeepsRules
<1>2. ASSUME NEW c \in Caller, Committed(c), tx[c].pc = "replay" \/ writer = Nobody,
             \A d \in Caller : DoomsOldest(runs', tx[d].doomed), Ruled(runs', states')
      PROVE  RulesInvariant'
  <2>1. ASSUME NEW d \in Caller, d # c PROVE FoldsByRule(d)'
    <3>1. tx[d].pc # "replay"
      BY <1>0, <1>2, <2>1, NobodyAssumption DEF OnCourse
    <3>2. tx'[d] = [tx[d] EXCEPT !.stale = @ \/ tx[d].pc \in {"put", "rebuild"}]
      BY <1>2, <2>1 DEF Committed
    <3> QED
      BY <1>2, <3>1, <3>2, CommitSparesFold
  <2>2. FoldsByRule(c)'
    BY <1>2, RestFolds DEF Committed, At, Step
  <2> QED
    BY <1>2, <2>1, <2>2 DEF RulesInvariant
<1>3. ASSUME NEW c \in Caller, PutRead(c) \/ RebuildRead(c) \/ Refuse(c) \/ Crash(c)
      PROVE  RulesInvariant'
  <2>1. /\ UNCHANGED <<runs, states>> /\ \A d \in Caller \ {c} : tx'[d] = tx[d]
        /\ tx'[c].pc \in Step \ {"replay"} /\ tx'[c].doomed = {}
    BY <1>0, <1>3 DEF PutRead, RebuildRead, Refuse, Crash, At, Step
  <2> QED
    BY <1>1, <2>1, RestFolds
<1>4. ASSUME NEW c \in Caller, Put(c) PROVE RulesInvariant'
  <2> DEFINE old == [runs |-> runs, states |-> states]
  <2>1. PICK row \in RunRow, new \in RunRow :
          /\ runs' = ApplyRun(old, row).runs /\ states' = ApplyRun(old, row).states
          /\ runs' = Append(runs, new) /\ new.id = row.id
          /\ \A d \in Caller : row.id \notin tx[d].doomed
          /\ writer = Nobody /\ Committed(c)
    BY <1>4, PutFolds DEF FoldedFrom
  <2>2. old \in Fold
    BY DEF TypeOK, Fold
  <2>3. Ruled(runs', states')
    BY <1>0, <2>1, <2>2, ApplyRunAsRuled
  <2>4. ASSUME NEW d \in Caller PROVE DoomsOldest(runs', tx[d].doomed)
    <3>1. /\ DOMAIN runs' = 1 .. Len(runs) + 1 /\ DOMAIN runs = 1 .. Len(runs)
          /\ Len(runs) \in Nat /\ runs'[Len(runs) + 1] = new
          /\ \A i \in 1 .. Len(runs) : runs'[i] = runs[i]
      BY <1>0, <2>1
    <3>2. new.id \notin tx[d].doomed /\ DoomsOldest(runs, tx[d].doomed)
      BY <1>0, <2>1 DEF FoldsByRule
    <3> SUFFICES ASSUME NEW i \in DOMAIN runs', NEW j \in DOMAIN runs', i < j,
                        runs'[j].id \in tx[d].doomed
                 PROVE  runs'[i].id \in tx[d].doomed
      BY DEF DoomsOldest
    <3>3. j # Len(runs) + 1
      BY <3>1, <3>2
    <3>4. i \in 1 .. Len(runs) /\ j \in 1 .. Len(runs)
      BY <3>1, <3>3
    <3> QED
      BY <3>1, <3>2, <3>4 DEF DoomsOldest
  <2> QED
    BY <1>2, <2>1, <2>3, <2>4
<1>5. ASSUME NEW c \in Caller, RebuildDelete(c) PROVE RulesInvariant'
  <2>1. tx[c].todo = runs /\ tx[c].fold = EmptyFold
    BY <1>0, <1>5 DEF RebuildDelete, CanWrite, OnCourse, SnapshotHolds
  <2>2. /\ tx'[c].pc = "replay" /\ tx'[c].todo = runs /\ tx'[c].fold = EmptyFold
        /\ tx'[c].doomed = tx[c].doomed /\ UNCHANGED <<runs, states>>
        /\ \A d \in Caller \ {c} : tx'[d] = tx[d]
    BY <1>0, <1>5, <2>1 DEF RebuildDelete, Operation
  <2>3. FoldsByRule(c)'
    BY <1>0, <2>2, NothingRuled, PlaceBegins DEF FoldsByRule, InPlace, EmptyFold
  <2> QED
    BY <1>1, <2>2, <2>3
<1>6. ASSUME NEW c \in Caller, Replay(c) PROVE RulesInvariant'
  <2> DEFINE op == tx[c]
             row == Head(op.todo)
             fold == IF row.id \in op.doomed THEN op.fold ELSE ApplyRun(op.fold, row)
  <2>1. /\ op.pc = "replay" /\ op.todo # <<>> /\ op \in Operation
        /\ op.fold \in Fold /\ op.fold.runs \in Seq(RunRow) /\ op.todo \in Seq(RunRow)
        /\ Ruled(op.fold.runs, op.fold.states) /\ DoomsOldest(runs, op.doomed)
    BY <1>0, <1>6 DEF Replay, Operation, Fold, FoldsByRule
  <2>2. row \in RunRow
    BY <2>1
  <2>3. PICK n \in Nat, p \in Nat : Place(runs, op.doomed, op.fold.runs, op.todo, n, p)
    BY <1>0, <2>1 DEF FoldsByRule, InPlace
  <2>4. Ruled(fold.runs, fold.states)
    <3>1. CASE row.id \in op.doomed
      BY <2>1, <3>1
    <3>2. CASE row.id \notin op.doomed
      BY <2>1, <2>2, <3>2, ApplyRunAsRuled
    <3> QED
      BY <3>1, <3>2
  <2>5. \E i, j \in Nat : Place(runs, op.doomed, fold.runs, Tail(op.todo), i, j)
    <3>1. CASE row.id \in op.doomed
      <4>1. Place(runs, op.doomed, op.fold.runs, Tail(op.todo), n + 1, p + 1)
        BY <1>0, <2>1, <2>3, <3>1, PlaceSkips
      <4>2. n + 1 \in Nat /\ p + 1 \in Nat /\ fold = op.fold
        BY <3>1
      <4> HIDE DEF fold
      <4> QED
        BY <4>1, <4>2
    <3>2. CASE row.id \notin op.doomed
      <4>1. PICK new \in RunRow : fold.runs = Append(op.fold.runs, new) /\ FoldedFrom(new, row)
        BY <2>1, <2>2, <3>2, FoldsTheRow
      <4> HIDE DEF fold
      <4>2. Place(runs, op.doomed, Append(op.fold.runs, new), Tail(op.todo), n, p + 1)
        BY <1>0, <2>1, <2>3, <3>2, <4>1, PlaceFolds
      <4> QED
        BY <4>1, <4>2, p + 1 \in Nat
    <3> QED
      BY <3>1, <3>2
  <2>6. tx' = [tx EXCEPT ![c] = [tx[c] EXCEPT !.todo = Tail(tx[c].todo), !.fold = fold]]
        /\ UNCHANGED <<runs, states>>
    BY <1>6 DEF Replay
  <2> HIDE DEF fold
  <2>7. /\ tx'[c].pc = "replay" /\ tx'[c].todo = Tail(op.todo) /\ tx'[c].fold = fold
        /\ tx'[c].doomed = op.doomed
    BY <1>0, <2>1, <2>6 DEF Operation
  <2>8. FoldsByRule(c)'
    BY <2>1, <2>4, <2>5, <2>6, <2>7 DEF FoldsByRule, InPlace
  <2> QED
    BY <1>0, <1>1, <2>6, <2>8
<1>7. ASSUME NEW c \in Caller, ReplayCommit(c) PROVE RulesInvariant'
  <2>1. tx[c].pc = "replay" /\ Committed(c) /\ runs' = tx[c].fold.runs
        /\ states' = tx[c].fold.states
    BY <1>7 DEF ReplayCommit
  <2>2. Ruled(runs', states')
    BY <1>0, <2>1 DEF FoldsByRule
  <2>3. PICK n \in 0 .. Len(runs) - 1 :
          \A k \in DOMAIN runs' : n + k \in DOMAIN runs /\ FoldedFrom(runs'[k], runs[n + k])
    BY <1>7, CommitIsSuffix
  <2>4. ASSUME NEW d \in Caller PROVE DoomsOldest(runs', tx[d].doomed)
    <3>1. DoomsOldest(runs, tx[d].doomed)
      BY <1>0 DEF FoldsByRule
    <3> SUFFICES ASSUME NEW i \in DOMAIN runs', NEW j \in DOMAIN runs', i < j,
                        runs'[j].id \in tx[d].doomed
                 PROVE  runs'[i].id \in tx[d].doomed
      BY DEF DoomsOldest
    <3>2. n + i < n + j
      <4>1. DOMAIN runs' = 1 .. Len(runs') /\ Len(runs') \in Nat
        BY DEF TypeOK
      <4> QED
        BY <4>1
    <3> QED
      BY <2>3, <3>1, <3>2 DEF DoomsOldest, FoldedFrom
  <2> QED
    BY <1>2, <2>1, <2>2, <2>4
<1>8. ASSUME NEW c \in Caller, NEW policy \in Retention, NEW now \in Second,
             PruneList(c, policy, now)
      PROVE  RulesInvariant'
  <2> DEFINE ids == [i \in DOMAIN runs |-> runs[i].id]
             doomed == Expired(ids, policy.maxRuns, policy.maxAge, now)
  <2>1. policy.maxRuns \in Nat /\ policy.maxAge \in Nat /\ now \in Nat
    BY StoreAssumption
  <2>2. DoomsOldest(runs, doomed)
    BY <1>0, <2>1, ExpiredDoomsOldest
  <2>3. tx' = [tx EXCEPT ![c] = [At("prune") EXCEPT !.doomed = doomed]]
        /\ UNCHANGED <<runs, states>>
    BY <1>8 DEF PruneList
  <2> HIDE DEF doomed
  <2>4. tx'[c].pc = "prune" /\ tx'[c].doomed = doomed
    BY <1>0, <2>3 DEF At
  <2>5. FoldsByRule(c)'
    BY <2>2, <2>3, <2>4 DEF FoldsByRule
  <2> QED
    BY <1>0, <1>1, <2>3, <2>5
<1>9. ASSUME NEW c \in Caller, PruneDelete(c) PROVE RulesInvariant'
  <2>1. UNCHANGED <<lastRun, runs, states>> /\ tx[c].pc = "prune"
    BY <1>9 DEF PruneDelete
  <2>2. CASE lastRun = NoRun
    <3>1. tx' = [tx EXCEPT ![c] = At("idle")]
      BY <1>9, <2>2 DEF PruneDelete
    <3>2. FoldsByRule(c)'
      BY <1>0, <3>1, RestFolds DEF At, Step
    <3> QED
      BY <1>0, <1>1, <2>1, <3>1, <3>2
  <2>3. CASE lastRun # NoRun
    <3>1. tx' = [tx EXCEPT ![c] = [tx[c] EXCEPT !.pc = "replay", !.todo = runs]]
      BY <1>9, <2>3 DEF PruneDelete
    <3>2. tx[c].fold = EmptyFold
      BY <1>0, <2>1 DEF OnCourse
    <3>3. /\ tx'[c].pc = "replay" /\ tx'[c].todo = runs /\ tx'[c].fold = EmptyFold
          /\ tx'[c].doomed = tx[c].doomed
      BY <1>0, <3>1, <3>2 DEF Operation
    <3>4. FoldsByRule(c)'
      BY <1>0, <2>1, <3>3, NothingRuled, PlaceBegins DEF FoldsByRule, InPlace, EmptyFold
    <3> QED
      BY <1>0, <1>1, <2>1, <3>1, <3>4
  <2> QED
    BY <2>2, <2>3
<1>10. ASSUME NEW c \in Caller, Forget(c) PROVE RulesInvariant'
  <2>1. /\ runs' = <<>> /\ states' = EmptyIndex /\ Committed(c) /\ writer = Nobody
    BY <1>10 DEF Forget
  <2>2. \A d \in Caller : DoomsOldest(runs', tx[d].doomed)
    BY <2>1 DEF DoomsOldest
  <2> QED
    BY <1>2, <2>1, <2>2, NothingRuled
<1>11. ASSUME NEW k \in DOMAIN runs, Damage(k) PROVE RulesInvariant'
  <2>1. /\ runs' = [runs EXCEPT ![k].readable = FALSE] /\ states' = states /\ writer = Nobody
        /\ \A d \in Caller :
             tx'[d] = [tx[d] EXCEPT !.stale = @ \/ tx[d].pc \in {"put", "rebuild"}]
    BY <1>11 DEF Damage
  <2>2. Ruled(runs', states')
    BY <1>0, <2>1, DamageKeepsRules
  <2>3. DOMAIN runs' = DOMAIN runs /\ \A i \in DOMAIN runs : runs'[i].id = runs[i].id
    <3>1. \A i \in DOMAIN runs : runs[i] \in RunRow
      BY <1>0
    <3> QED
      BY <1>0, <2>1, <3>1 DEF RunRow
  <2>4. ASSUME NEW d \in Caller PROVE FoldsByRule(d)'
    <3>1. tx[d].pc # "replay"
      BY <1>0, <2>1, NobodyAssumption DEF OnCourse
    <3>2. DoomsOldest(runs', tx[d].doomed)
      BY <1>0, <2>3 DEF FoldsByRule, DoomsOldest
    <3> QED
      BY <2>1, <3>1, <3>2, CommitSparesFold
  <2> QED
    BY <2>2, <2>4 DEF RulesInvariant
<1>12. CASE UNCHANGED vars
  BY <1>0, <1>12, BystanderFolds, QuietStepKeepsRules DEF vars
<1> QED
  BY <1>3, <1>4, <1>5, <1>6, <1>7, <1>8, <1>9, <1>10, <1>11, <1>12 DEF Next, CallerStep

LEMMA StoreAsRuled == Spec => [](TypeOK /\ ChainInvariant /\ RulesInvariant)
<1>1. Init => TypeOK /\ ChainInvariant /\ RulesInvariant
  BY InitTyped, InitChain, InitRules
<1>2. TypeOK /\ ChainInvariant /\ RulesInvariant /\ [Next]_vars
        => (TypeOK /\ ChainInvariant /\ RulesInvariant)'
  BY StepTyped, ChainStep, RulesStep
<1> QED
  BY <1>1, <1>2, PTL DEF Spec

(* The index rows are what the stored scans say, whoever records,          *)
(* rebuilds, prunes, forgets, dies or damages a document.                  *)
THEOREM IndexIsAsRuled == Spec => []IndexMatchesRuns
<1>1. RulesInvariant => IndexMatchesRuns
  BY DEF RulesInvariant, Ruled, IndexMatchesRuns
<1> QED
  BY StoreAsRuled, <1>1, PTL

(* What a run counted when it was recorded, or last rebuilt, is what the   *)
(* scans that are stored say of it, and so is what its document shows.     *)
THEOREM DeltasAreAsRuled == Spec => []DeltasMatchRuns
<1>1. RulesInvariant => DeltasMatchRuns
  BY DEF RulesInvariant, Ruled, DeltasMatchRuns
<1> QED
  BY StoreAsRuled, <1>1, PTL

-----------------------------------------------------------------------------
(* Two rows of one place in a chain that are folded from the same scan,    *)
(* and have the same delta, are the same row.                              *)
LEMMA SameRow ==
  ASSUME NEW old \in RunRow, NEW new \in RunRow, FoldedFrom(new, old), old.readable,
         old.counted, new.prev = old.prev, new.delta = old.delta,
         old.delta # NoMarks => old.marks = old.delta
  PROVE  new = old
<1>1. new.marks = old.marks
  BY DEF FoldedFrom
<1>2. new.counted = old.counted /\ old.counted \in BOOLEAN /\ new.counted \in BOOLEAN
  BY DEF FoldedFrom, RunRow
<1>3. /\ new.id = old.id /\ new.scope = old.scope /\ new.ran = old.ran
      /\ new.found = old.found /\ new.readable = old.readable
  BY DEF FoldedFrom
<1>4. \A row \in RunRow :
        row = [id |-> row.id, prev |-> row.prev, scope |-> row.scope, ran |-> row.ran,
               found |-> row.found, readable |-> row.readable, marks |-> row.marks,
               delta |-> row.delta, counted |-> row.counted]
  BY DEF RunRow
<1>5. new.readable = old.readable /\ new.counted = old.counted
  BY <1>2, <1>3
<1> QED
  BY <1>1, <1>3, <1>4, <1>5, Zenon

LEMMA RebuildIsExact ==
  ASSUME TypeOK, TypeOK', ChainInvariant, ChainInvariant', RulesInvariant, RulesInvariant',
         NEW c \in Caller, ReplayCommit(c), Len(tx[c].fold.runs) = Len(runs),
         \A i \in DOMAIN runs : runs[i].readable
  PROVE  UNCHANGED database
<1>1. runs' = tx[c].fold.runs
      /\ lastRun' = IF tx[c].fold.runs = <<>> THEN lastRun ELSE NewestID(tx[c].fold.runs)
  BY DEF ReplayCommit
<1>2. /\ runs \in Seq(RunRow) /\ runs' \in Seq(RunRow) /\ Len(runs') = Len(runs)
      /\ DOMAIN runs = 1 .. Len(runs) /\ DOMAIN runs' = 1 .. Len(runs)
      /\ Len(runs) \in Nat
  BY <1>1 DEF TypeOK
<1>3. /\ Ruled(runs, states) /\ Ruled(runs', states') /\ Chained(runs) /\ Chained(runs')
      /\ lastRun = NewestID(runs) /\ runs # <<>>
  BY DEF RulesInvariant, ChainInvariant, ChainIsLinear, RepoRowAgrees, OnCourse, ReplayCommit
<1>4. \A k \in 1 .. Len(runs) : FoldedFrom(runs'[k], runs[k])
  <2>1. PICK n \in 0 .. Len(runs) - 1 :
          /\ Len(runs) = n + Len(runs')
          /\ \A k \in DOMAIN runs' : FoldedFrom(runs'[k], runs[n + k])
    BY CommitIsSuffix
  <2>2. n = 0
    BY <1>2, <2>1
  <2>3. \A k \in 1 .. Len(runs) : n + k = k
    BY <1>2, <2>2
  <2> QED
    BY <1>2, <2>1, <2>3
<1>5. \A k \in 1 .. Len(runs) : runs[k].readable /\ runs[k].counted
  BY <1>2, <1>3 DEF Ruled, Written
<1>6. SameScans(runs, runs')
  <2>1. ASSUME NEW k \in 1 .. Len(runs) PROVE SameScan(runs[k], runs'[k])
    <3>1. FoldedFrom(runs'[k], runs[k]) /\ runs[k].readable /\ runs[k].counted
      BY <1>4, <1>5
    <3>2. runs[k] \in RunRow
      BY <1>2
    <3>3. runs[k].counted = TRUE /\ runs[k].readable = TRUE
      BY <3>1, <3>2 DEF RunRow
    <3> QED
      BY <3>1, <3>3 DEF FoldedFrom, SameScan
  <2> QED
    BY <1>2, <2>1 DEF SameScans
<1>7. ASSUME NEW k \in 1 .. Len(runs) PROVE runs'[k] = runs[k]
  <2>1. runs[k] \in RunRow /\ runs'[k] \in RunRow
    BY <1>2
  <2>2. FoldedFrom(runs'[k], runs[k]) /\ runs[k].readable /\ runs[k].counted
    BY <1>4, <1>5
  <2>3. runs[k].delta = runs'[k].delta
    BY <1>2, <1>3, <1>6, <2>2, OneDelta DEF Ruled
  <2>4. runs'[k].prev = runs[k].prev
    <3>1. CASE k = 1
      BY <1>2, <1>3, <3>1 DEF Chained
    <3>2. CASE k > 1
      <4>1. k - 1 \in 1 .. Len(runs)
        BY <1>2, <3>2
      <4>2. runs'[k - 1].id = runs[k - 1].id
        BY <1>4, <4>1 DEF FoldedFrom
      <4> QED
        BY <1>2, <1>3, <3>2, <4>2 DEF Chained
    <3> QED
      BY <1>2, <3>1, <3>2
  <2>5. runs[k].delta # NoMarks => runs[k].marks = runs[k].delta
    BY <1>2, <1>3, <2>2 DEF Ruled, Written
  <2> QED
    BY <2>1, <2>2, <2>3, <2>4, <2>5, SameRow
<1>8. runs' = runs
  BY <1>2, <1>7
<1>9. states' = states
  <2>1. ASSUME NEW fp \in Fingerprint PROVE states'[fp] = states[fp]
    <3>1. states[fp] \in FindingState /\ states'[fp] \in FindingState
      BY DEF TypeOK
    <3>2. Explains(runs, fp, states[fp]) /\ Explains(runs, fp, states'[fp])
      BY <1>3, <1>8 DEF Ruled, IndexOf
    <3> QED
      BY <1>2, <3>1, <3>2, OneEntry
  <2>2. states \in [Fingerprint -> FindingState] /\ states' \in [Fingerprint -> FindingState]
    BY DEF TypeOK
  <2> QED
    BY <2>1, <2>2
<1>10. lastRun' = lastRun
  BY <1>1, <1>3, <1>8
<1> QED
  BY <1>8, <1>9, <1>10 DEF database

(* Rebuilding a history that can all be read changes nothing of it: no     *)
(* entry, no link of the chain, no delta and no stored status.             *)
THEOREM RebuildChangesNothing == Spec => RebuildReproduces
<1> DEFINE Inv == TypeOK /\ ChainInvariant /\ RulesInvariant
<1>1. Inv /\ Inv' /\ [Next]_vars =>
        [\A c \in Caller :
           /\ ReplayCommit(c)
           /\ Len(tx[c].fold.runs) = Len(runs)
           /\ \A i \in DOMAIN runs : runs[i].readable
           => UNCHANGED database]_vars
  BY RebuildIsExact
<1>2. Spec => []Inv
  BY StoreAsRuled
<1> HIDE DEF Inv
<1> QED
  BY <1>1, <1>2, PTL DEF Spec, RebuildReproduces

-----------------------------------------------------------------------------
(* The store implements the ledger.  The rules are the same on both sides. *)
LEMMA SameRules == \A l, index : L!IndexOf(l, index) <=> IndexOf(l, index)
<1>1. /\ \A l, fp, i : L!Reports(l, fp, i) <=> Reports(l, fp, i)
      /\ \A i, S : L!IsFirst(i, S) <=> IsFirst(i, S)
      /\ \A i, S : L!IsLast(i, S) <=> IsLast(i, S)
  BY DEF L!Reports, Reports, L!IsFirst, IsFirst, L!IsLast, IsLast
<1>2. \A l, fp : L!Sightings(l, fp) = Sightings(l, fp)
  BY <1>1 DEF L!Sightings, Sightings
<1>3. \A l, fp, n : L!Reporters(l, fp, n) = Reporters(l, fp, n)
  BY <1>2 DEF L!Reporters, Reporters
<1>4. \A l, fp, j : L!Concludes(l, fp, j) <=> Concludes(l, fp, j)
  BY <1>3 DEF L!Concludes, Concludes
<1>5. \A l, fp, n : L!FixedAsOf(l, fp, n) <=> FixedAsOf(l, fp, n)
  BY <1>1, <1>4 DEF L!FixedAsOf, FixedAsOf
<1>6. \A l, fp : L!Fixes(l, fp) = Fixes(l, fp) /\ L!Returns(l, fp) = Returns(l, fp)
  BY <1>2, <1>4, <1>5 DEF L!Fixes, Fixes, L!Returns, Returns
<1>7. \A l, fp, i, j : L!StatusFrom(l, fp, i, j) = StatusFrom(l, fp, i, j)
  BY <1>5, <1>6 DEF L!StatusFrom, StatusFrom
<1>0. \A S : L!Cardinality(S) = Cardinality(S)
  BY DEF L!Cardinality, Cardinality
<1>8. \A l, fp, st : L!Explains(l, fp, st) <=> Explains(l, fp, st)
  BY <1>0, <1>1, <1>2, <1>3, <1>6, <1>7
  DEF L!Explains, Explains, L!Absent, Absent, L!NoRun, NoRun
<1> QED
  BY <1>8 DEF L!IndexOf, IndexOf

(* The ledger entry of a run row.                                          *)
Entry(row) ==
  [id |-> row.id, scope |-> row.scope, ran |-> row.ran, found |-> row.found,
   counted |-> row.counted]

LedgerOf(rows) == [i \in DOMAIN rows |-> Entry(rows[i])]

LEMMA LedgerShape ==
  ASSUME NEW rows \in Seq(RunRow)
  PROVE  /\ LedgerOf(rows) \in Seq(L!Entry) /\ Len(LedgerOf(rows)) = Len(rows)
         /\ DOMAIN LedgerOf(rows) = 1 .. Len(rows)
         /\ \A i \in 1 .. Len(rows) : LedgerOf(rows)[i] = Entry(rows[i])
         /\ SameScans(rows, LedgerOf(rows))
<1>1. \A i \in 1 .. Len(rows) : rows[i] \in RunRow
  OBVIOUS
<1>2. \A i \in 1 .. Len(rows) : Entry(rows[i]) \in L!Entry
  BY <1>1 DEF Entry, L!Entry, RunRow, RunID, L!RunID
<1>3. DOMAIN rows = 1 .. Len(rows) /\ Len(rows) \in Nat
  OBVIOUS
<1>4. LedgerOf(rows) \in Seq(L!Entry) /\ Len(LedgerOf(rows)) = Len(rows)
      /\ DOMAIN LedgerOf(rows) = 1 .. Len(rows)
      /\ \A i \in 1 .. Len(rows) : LedgerOf(rows)[i] = Entry(rows[i])
  BY <1>2, <1>3 DEF LedgerOf
<1> QED
  BY <1>3, <1>4 DEF SameScans, SameScan, Entry

LEMMA RuledInLedger ==
  ASSUME NEW rows \in Seq(RunRow), NEW entries, Ruled(rows, entries)
  PROVE  L!IndexOf(LedgerOf(rows), entries)
<1>1. SameScans(rows, LedgerOf(rows))
  BY LedgerShape
<1>2. IndexOf(LedgerOf(rows), entries)
  BY <1>1, SameScansSameRules DEF Ruled, IndexOf
<1> QED
  BY <1>2, SameRules

LEMMA PutRecords ==
  ASSUME TypeOK, TypeOK', ChainInvariant, RulesInvariant', NEW c \in Caller, Put(c)
  PROVE  L!Next
<1>1. PICK new \in RunRow :
        runs' = Append(runs, new) /\ new.counted /\ new.id > NewestID(runs)
  BY PutFolds DEF FoldedFrom
<1>2. runs \in Seq(RunRow) /\ runs' \in Seq(RunRow)
  BY DEF TypeOK
<1> DEFINE l == LedgerOf(runs)
           m == LedgerOf(runs')
           n == Len(runs)
<1>3. /\ l \in Seq(L!Entry) /\ Len(l) = n /\ \A i \in 1 .. n : l[i] = Entry(runs[i])
      /\ m \in Seq(L!Entry) /\ Len(m) = Len(runs') /\ DOMAIN m = 1 .. Len(runs')
      /\ \A i \in 1 .. Len(runs') : m[i] = Entry(runs'[i])
  BY <1>2, LedgerShape
<1>4. /\ n \in Nat /\ Len(runs') = n + 1 /\ runs'[n + 1] = new
      /\ \A i \in 1 .. n : runs'[i] = runs[i]
  BY <1>1, <1>2
<1>5. Ledger = l /\ Ledger' = m
  BY DEF Ledger, LedgerOf, Entry
<1> HIDE DEF l, m, n
<1>6. m[n + 1] = Entry(new) /\ Len(m) = n + 1 /\ m # <<>>
  BY <1>3, <1>4
<1>7. m = Append(l, Entry(new))
  <2>1. Entry(new) \in L!Entry
    BY <1>3, <1>4, <1>6
  <2>2. /\ Append(l, Entry(new)) \in Seq(L!Entry) /\ Len(Append(l, Entry(new))) = n + 1
        /\ \A i \in 1 .. n : Append(l, Entry(new))[i] = l[i]
        /\ Append(l, Entry(new))[n + 1] = Entry(new)
    BY <1>3, <1>4, <2>1
  <2>3. \A i \in 1 .. n + 1 : m[i] = Append(l, Entry(new))[i]
    BY <1>3, <1>4, <1>6, <2>2
  <2> QED
    BY <1>3, <1>4, <1>6, <2>2, <2>3
<1>8. Entry(new).counted /\ Entry(new).id > L!NewestID(l)
  <2>1. CASE n = 0
    <3>1. l = <<>> /\ runs = <<>>
      BY <1>2, <1>3, <2>1 DEF n
    <3> QED
      BY <1>1, <3>1 DEF Entry, L!NewestID, NewestID, L!NoRun, NoRun
  <2>2. CASE n # 0
    <3>1. l # <<>> /\ runs # <<>> /\ l[n] = Entry(runs[n])
      BY <1>3, <1>4, <2>2 DEF n
    <3> QED
      BY <1>1, <1>3, <3>1 DEF Entry, L!NewestID, NewestID, n
  <2> QED
    BY <2>1, <2>2
<1>9. L!IndexOf(m, states')
  BY <1>2, RuledInLedger DEF RulesInvariant, m
<1> QED
  BY <1>5, <1>6, <1>7, <1>8, <1>9 DEF L!Next, L!Record

LEMMA CommitRetires ==
  ASSUME TypeOK, TypeOK', ChainInvariant, RulesInvariant, RulesInvariant',
         NEW c \in Caller, ReplayCommit(c)
  PROVE  L!Next
<1>1. runs \in Seq(RunRow) /\ runs' \in Seq(RunRow)
  BY DEF TypeOK
<1>2. PICK n \in 0 .. Len(runs) - 1 :
        /\ Len(runs) = n + Len(runs')
        /\ \A k \in DOMAIN runs' : n + k \in DOMAIN runs /\ FoldedFrom(runs'[k], runs[n + k])
  BY CommitIsSuffix
<1> DEFINE l == LedgerOf(runs)
           m == LedgerOf(runs')
<1>3. /\ l \in Seq(L!Entry) /\ Len(l) = Len(runs)
      /\ \A i \in 1 .. Len(runs) : l[i] = Entry(runs[i])
      /\ m \in Seq(L!Entry) /\ Len(m) = Len(runs') /\ DOMAIN m = 1 .. Len(runs')
      /\ \A i \in 1 .. Len(runs') : m[i] = Entry(runs'[i])
  BY <1>1, LedgerShape
<1>4. /\ DOMAIN runs = 1 .. Len(runs) /\ Len(runs) \in Nat
      /\ DOMAIN runs' = 1 .. Len(runs') /\ Len(runs') \in Nat
  BY <1>1
<1>5. Ledger = l /\ Ledger' = m
  BY DEF Ledger, LedgerOf, Entry
<1> HIDE DEF l, m
<1>6. n \in 0 .. Len(l) - 1 /\ Len(m) = Len(l) - n
  BY <1>2, <1>3, <1>4
<1>7. ASSUME NEW i \in DOMAIN m
      PROVE  /\ m[i].counted => l[i + n].counted
             /\ m[i] = [l[i + n] EXCEPT !.counted = m[i].counted]
  <2>1. i + n \in DOMAIN runs /\ FoldedFrom(runs'[i], runs[i + n]) /\ i + n = n + i
    BY <1>2, <1>3, <1>4
  <2>2. m[i] = Entry(runs'[i]) /\ l[i + n] = Entry(runs[i + n])
    BY <1>3, <1>4, <2>1
  <2>3. runs[i + n].readable => runs[i + n].counted
    BY <2>1 DEF RulesInvariant, Ruled, Written
  <2>4. m[i].counted => l[i + n].counted
    BY <2>1, <2>2, <2>3 DEF FoldedFrom, Entry
  <2>5. m[i] = [l[i + n] EXCEPT !.counted = m[i].counted]
    BY <2>1, <2>2 DEF FoldedFrom, Entry
  <2> QED
    BY <2>4, <2>5
<1>8. L!IndexOf(m, states')
  BY <1>1, RuledInLedger DEF RulesInvariant, m
<1>9. L!Retire(n)
  BY <1>5, <1>6, <1>7, <1>8 DEF L!Retire
<1> QED
  BY <1>5, <1>6, <1>9 DEF L!Next

LEMMA DamageIsUnseen ==
  ASSUME TypeOK, NEW k \in DOMAIN runs, Damage(k) PROVE UNCHANGED L!vars
<1>1. /\ runs' = [runs EXCEPT ![k].readable = FALSE] /\ states' = states
      /\ runs \in Seq(RunRow)
  BY DEF Damage, TypeOK
<1>2. DOMAIN runs' = DOMAIN runs
  BY <1>1
<1>3. ASSUME NEW i \in DOMAIN runs PROVE Entry(runs'[i]) = Entry(runs[i])
  <2>1. runs[i] \in RunRow
    BY <1>1
  <2> QED
    BY <1>1, <2>1 DEF Entry, RunRow
<1>4. Ledger' = Ledger
  BY <1>2, <1>3 DEF Ledger, Entry
<1> QED
  BY <1>1, <1>4 DEF L!vars

LEMMA StepIsLedgerStep ==
  TypeOK /\ TypeOK' /\ ChainInvariant /\ RulesInvariant /\ RulesInvariant' /\ [Next]_vars
    => [L!Next]_(L!vars)
<1> SUFFICES ASSUME TypeOK, TypeOK', ChainInvariant, RulesInvariant, RulesInvariant',
                    [Next]_vars
             PROVE  L!Next \/ UNCHANGED L!vars
  OBVIOUS
<1>1. CASE runs' = runs /\ states' = states
  BY <1>1 DEF L!vars, Ledger
<1>2. ASSUME NEW c \in Caller, Forget(c) PROVE L!Next
  <2>1. runs' = <<>> /\ states' = EmptyIndex
    BY <1>2 DEF Forget
  <2>2. Ledger' = <<>>
    BY <2>1 DEF Ledger
  <2> QED
    BY <2>1, <2>2 DEF L!Next, L!Forget, L!EmptyIndex, EmptyIndex, L!Absent, Absent, L!NoRun, NoRun
<1> QED
  BY <1>1, <1>2, PutRecords, CommitRetires, DamageIsUnseen
  DEF Next, CallerStep, vars, PutRead, RebuildRead, RebuildDelete, Replay, PruneList,
      PruneDelete, Refuse, Crash

(* Concurrent recording, rebuilding, pruning and forgetting amount to      *)
(* atomic steps of one ledger: every scan is recorded whole or not at all, *)
(* only the oldest are retired, and the index always fits.                 *)
THEOREM StoreImplementsLedger == Spec => ImplementsLedger
<1> DEFINE Inv == TypeOK /\ ChainInvariant /\ RulesInvariant
<1>1. Init => L!Init
  <2>1. runs = <<>> => Ledger = <<>>
    BY DEF Ledger
  <2> QED
    BY <2>1 DEF Init, L!Init, L!EmptyIndex, EmptyIndex, L!Absent, Absent, L!NoRun, NoRun
<1>2. Inv /\ Inv' /\ [Next]_vars => [L!Next]_(L!vars)
  BY StepIsLedgerStep
<1>3. Spec => []Inv
  BY StoreAsRuled
<1> HIDE DEF Inv
<1> QED
  BY <1>1, <1>2, <1>3, PTL DEF Spec, ImplementsLedger, L!Spec

-----------------------------------------------------------------------------
(* A comparison of two runs and what the whole history decided.            *)

LEMMA DiffsAgree ==
  ASSUME TypeOK, RulesInvariant PROVE DiffAgreesWithHistory
<1> DEFINE n == Len(runs)
<1>0. /\ runs \in Seq(RunRow) /\ n \in Nat /\ DOMAIN runs = 1 .. n
      /\ IndexOf(runs, states) /\ DeltasOf(runs)
  BY DEF TypeOK, RulesInvariant, Ruled
<1> HIDE DEF n
<1>1. ASSUME NEW i \in DOMAIN runs \ {1}, runs[i - 1].counted, runs[i].counted,
             NEW fp \in Fingerprint
      PROVE  LET base == runs[i - 1]
                 head == runs[i]
             IN  /\ fp \in DiffFixed(base, head) => head.delta[fp] = "fixed"
                 /\ fp \in DiffRegressed(base, head) => head.delta[fp] = "regressed"
                 /\ fp \in DiffStillOpen(base, head) => head.delta[fp] = "open"
                 /\ head.delta[fp] = "new" => fp \in DiffNew(base, head)
  <2> DEFINE base == runs[i - 1]
             head == runs[i]
  <2>1. i \in 1 .. n /\ i - 1 \in 1 .. n /\ i > 1 /\ i \in Nat
    BY <1>0
  <2>2. /\ head.delta[fp] = MarkOf(runs, fp, i)
        /\ head.found[fp] # {} => head.marks[fp] = head.delta[fp]
    BY <1>0, <1>1 DEF DeltasOf
  <2>3. /\ fp \in Found(base) <=> Reports(runs, fp, i - 1)
        /\ fp \in Found(head) <=> Reports(runs, fp, i)
        /\ fp \in Found(base) <=> i - 1 \in Sightings(runs, fp)
        /\ fp \in Found(head) <=> i \in Sightings(runs, fp)
    BY <1>0, <1>1, <2>1 DEF Found, Reports, Sightings
  <2>4. fp \in Found(base) => ~ FixedAsOf(runs, fp, i - 1)
    <3>1. \A j \in 1 .. i - 1 : i - 1 \in j .. i - 1
      BY <2>1
    <3> QED
      BY <2>3, <3>1 DEF FixedAsOf
  <2>5. ASSUME fp \in DiffFixed(base, head) PROVE head.delta[fp] = "fixed"
    <3>1. /\ fp \in Found(base) /\ head.found[fp] = {} /\ base.scope = head.scope
          /\ base.found[fp] \cap head.ran # {}
      BY <2>5 DEF DiffFixed, CheckedBy, Found
    <3>2. base.found[fp] \subseteq Reporters(runs, fp, i)
      BY <2>1, <2>3, <3>1 DEF Reporters
    <3>3. Concludes(runs, fp, i)
      BY <1>1, <2>1, <3>1, <3>2 DEF Concludes
    <3>4. i \in Fixes(runs, fp)
      BY <1>0, <2>1, <2>4, <3>1, <3>3 DEF Fixes
    <3> QED
      BY <2>2, <3>4 DEF MarkOf
  <2>6. fp \in DiffRegressed(base, head) => head.delta[fp] = "regressed"
    BY <2>2 DEF DiffRegressed, Found
  <2>7. ASSUME fp \in DiffStillOpen(base, head) PROVE head.delta[fp] = "open"
    <3>1. fp \in Found(base) /\ fp \in Found(head) /\ head.found[fp] # {}
      BY <2>7 DEF DiffStillOpen, Found
    <3>2. i \notin Fixes(runs, fp)
      BY <3>1 DEF Fixes, Concludes
    <3>3. i \notin Returns(runs, fp)
      BY <2>4, <3>1 DEF Returns
    <3>4. ~ IsFirst(i, Sightings(runs, fp))
      BY <2>1, <2>3, <3>1 DEF IsFirst
    <3> QED
      BY <2>2, <2>3, <3>1, <3>2, <3>3, <3>4 DEF MarkOf
  <2>8. ASSUME head.delta[fp] = "new" PROVE fp \in DiffNew(base, head)
    <3>1. i \in Sightings(runs, fp) /\ IsFirst(i, Sightings(runs, fp))
      BY <2>2, <2>8 DEF MarkOf
    <3>2. fp \notin Found(base)
      BY <2>1, <2>3, <3>1 DEF IsFirst
    <3> QED
      BY <2>2, <2>3, <2>8, <3>1, <3>2 DEF DiffNew, Found
  <2> QED
    BY <2>5, <2>6, <2>7, <2>8
<1>2. ASSUME NEW i \in 1 .. n - 1, runs[i].counted, runs[n].counted,
             runs[n - 1].scope = runs[n].scope,
             NEW fp \in DiffFixed(runs[i], runs[n])
      PROVE  fp \notin OpenNow
  <2>1. i \in DOMAIN runs /\ n \in DOMAIN runs /\ n > 1 /\ i <= n
    BY <1>0
  <2>2. /\ fp \in Fingerprint /\ runs[i].found[fp] # {} /\ runs[n].found[fp] = {}
        /\ runs[i].found[fp] \cap runs[n].ran # {}
    BY <1>2 DEF DiffFixed, CheckedBy, Found
  <2>3. runs[i].found[fp] \subseteq Reporters(runs, fp, n)
    BY <1>2, <2>1, <2>2 DEF Reporters, Sightings, Reports
  <2>4. Concludes(runs, fp, n) /\ ~ Reports(runs, fp, n)
    BY <1>2, <2>1, <2>2, <2>3 DEF Concludes, Reports
  <2>5. FixedAsOf(runs, fp, n)
    <3>1. n \in 1 .. n /\ \A k \in n .. n : k = n
      BY <1>0, <2>1
    <3> QED
      BY <2>4, <3>1 DEF FixedAsOf
  <2>6. states[fp].status = "fixed"
    BY <1>0, <2>2, <2>5, EntrySays DEF IndexOf, n
  <2> QED
    BY <2>6 DEF OpenNow, OpenStatuses
<1>3. DiffAgreesWithDelta
  BY <1>1 DEF DiffAgreesWithDelta
<1>4. DiffFixedIsNotOpen
  BY <1>2 DEF DiffFixedIsNotOpen, n
<1> QED
  BY <1>3, <1>4 DEF DiffAgreesWithHistory

-----------------------------------------------------------------------------
(* Pages.                                                                  *)

Descending(ids) == \A i, j \in DOMAIN ids : i < j => ids[i] > ids[j]

Listed(ids) == {ids[i] : i \in DOMAIN ids}

LEMMA FiniteIDs == ASSUME NEW rows \in Seq(RunRow) PROVE IsFiniteSet(IDs(rows)) /\ IDs(rows) \subseteq RunID
<1> DEFINE f == [i \in 1 .. Len(rows) |-> rows[i].id]
<1>1. DOMAIN rows = 1 .. Len(rows) /\ Len(rows) \in Nat
  OBVIOUS
<1>2. f \in Surjection(1 .. Len(rows), IDs(rows))
  BY <1>1 DEF Surjection, IDs
<1>3. IsFiniteSet(1 .. Len(rows))
  BY <1>1, FS_Interval
<1>4. IsFiniteSet(IDs(rows))
  BY <1>2, <1>3, FS_Surjection
<1>5. IDs(rows) \subseteq RunID
  BY RowIDs DEF IDs
<1> QED
  BY <1>4, <1>5

(* A page leaves nothing out but what is older than its last run, and that *)
(* only when it is full.                                                   *)
LEMMA PageLeavesOlder ==
  ASSUME NEW older \in SUBSET RunID, IsFiniteSet(older), NEW limit \in Nat \ {0},
         NEW page \in PagesOf(older, limit)
  PROVE  /\ page \in Seq(older) /\ Descending(page)
         /\ Len(page) = limit =>
              /\ page[limit] \in older /\ \A i \in DOMAIN page : page[i] >= page[limit]
              /\ \A id \in older : id \in Listed(page) \/ id < page[limit]
         /\ Len(page) # limit => older \subseteq Listed(page)
<1> DEFINE size == Cardinality(older)
           n == IF limit < size THEN limit ELSE size
<1>1. size \in Nat /\ n \in Nat /\ n <= limit /\ (n # limit => n = size)
  BY FS_CardinalityType
<1>2. /\ page \in [1 .. n -> older]
      /\ \A i, j \in 1 .. n : i < j => page[i] > page[j]
      /\ \A id \in older : (\E i \in 1 .. n : page[i] = id) \/ (\A i \in 1 .. n : page[i] > id)
  BY DEF PagesOf
<1>3. (n # limit => n = Cardinality(older))
  BY <1>1
<1> HIDE DEF n, size
<1>4. page \in Seq(older) /\ Len(page) = n /\ DOMAIN page = 1 .. n
  BY <1>1, <1>2
<1>5. \A i \in 1 .. n : page[i] \in older /\ page[i] \in Nat
  BY <1>2 DEF RunID
<1>6. Descending(page)
  BY <1>2, <1>4 DEF Descending
<1>7. ASSUME n = limit
      PROVE  /\ page[limit] \in older /\ \A i \in DOMAIN page : page[i] >= page[limit]
             /\ \A id \in older : id \in Listed(page) \/ id < page[limit]
  <2>1. limit \in 1 .. n
    BY <1>7
  <2>2. ASSUME NEW i \in DOMAIN page PROVE page[i] >= page[limit]
    <3>1. i = limit \/ i < limit
      BY <1>4, <1>7
    <3>2. page[i] \in Nat /\ page[limit] \in Nat
      BY <1>4, <1>5, <2>1
    <3> QED
      BY <1>2, <1>4, <2>1, <3>1, <3>2
  <2>3. \A id \in older : id \in Listed(page) \/ id < page[limit]
    BY <1>2, <1>4, <2>1 DEF Listed
  <2> QED
    BY <1>5, <2>1, <2>2, <2>3
<1>8. ASSUME n # limit PROVE older \subseteq Listed(page)
  <2>1. page \in Injection(1 .. n, older)
    <3>1. ASSUME NEW i \in 1 .. n, NEW j \in 1 .. n, page[i] = page[j] PROVE i = j
      <4>1. i < j \/ j < i \/ i = j
        OBVIOUS
      <4>2. page[i] \in Nat /\ page[j] \in Nat
        BY <1>5
      <4> QED
        BY <1>2, <3>1, <4>1, <4>2
    <3> QED
      BY <1>2, <3>1 DEF Injection, IsInjective
  <2>2. Cardinality(1 .. n) = Cardinality(older)
    BY <1>1, <1>3, <1>8, FS_Interval
  <2>3. page \in Surjection(1 .. n, older)
    BY <2>1, <2>2, FS_Injection
  <2> QED
    BY <1>4, <2>3 DEF Surjection, Listed
<1> QED
  BY <1>4, <1>6, <1>7, <1>8

-----------------------------------------------------------------------------
(* Why a walk is whole: of the runs it is to show, those it has not listed *)
(* are older than its cursor, and it lists none twice because nothing it   *)
(* listed is.  Why the newest run can be opened: it is the one named until *)
(* another takes its place.                                                *)
Walking(r) ==
  LET walk == reading[r] IN
  /\ Descending(walk.listed)
  /\ walk.pc = "walk" =>
       /\ walk.kept \subseteq IDs(runs)
       /\ \A id \in walk.kept : Matches(id, walk.since)
       /\ \A i \in DOMAIN walk.listed :
            walk.cursor # NoRun /\ walk.listed[i] >= walk.cursor
       /\ \A id \in walk.kept :
            id \in Listed(walk.listed) \/ walk.cursor = NoRun \/ id < walk.cursor
  /\ walk.pc = "done" => walk.kept \subseteq Listed(walk.listed)

Opening(r) ==
  LET named == reading[r] IN
  /\ named.pc \in {"idle", "open"} => named.kept = {}
  /\ named.pc = "open" /\ ~ named.replaced =>
       named.cursor = lastRun /\ lastRun # NoRun
  /\ named.pc = "missing" => named.replaced

ReadInvariant ==
  /\ reading \in [Reader -> Reading]
  /\ \A r \in Reader : Walking(r) /\ Opening(r)

LEMMA WaitingType == Waiting \in Reading
BY DEF Waiting, Reading, NoRun

LEMMA WaitingReads ==
  ASSUME NEW r \in Reader, reading'[r] = Waiting PROVE Walking(r)' /\ Opening(r)'
BY DEF Walking, Opening, Waiting, Descending

LEMMA InitReads == ReadInit => ReadInvariant
<1> SUFFICES ASSUME ReadInit PROVE ReadInvariant
  OBVIOUS
<1>1. ASSUME NEW r \in Reader PROVE Walking(r) /\ Opening(r)
  BY DEF ReadInit, Walking, Opening, Waiting, Descending
<1> QED
  BY <1>1, WaitingType DEF ReadInit, ReadInvariant

(* One reader's step.                                                      *)
LEMMA ReaderKeeps ==
  ASSUME ReadInvariant, UNCHANGED vars, NEW r \in Reader, NEW after \in Reading,
         reading' = [reading EXCEPT ![r] = after], Walking(r)', Opening(r)'
  PROVE  ReadInvariant'
<1>1. reading \in [Reader -> Reading]
  BY DEF ReadInvariant
<1>2. reading' \in [Reader -> Reading] /\ \A s \in Reader \ {r} : reading'[s] = reading[s]
  BY <1>1
<1>3. ASSUME NEW s \in Reader, s # r PROVE Walking(s)' /\ Opening(s)'
  <2>1. Walking(s) /\ Opening(s) /\ reading'[s] = reading[s]
    BY <1>2, <1>3 DEF ReadInvariant
  <2> QED
    BY <2>1 DEF Walking, Opening, vars
<1> QED
  BY <1>2, <1>3 DEF ReadInvariant

LEMMA StartKeeps ==
  ASSUME TypeOK, ReadInvariant, UNCHANGED vars, StoreAssumption, ReadsAssumption,
         NEW r \in Reader, NEW since \in Since, StartWalk(r, since)
  PROVE  ReadInvariant'
<1> DEFINE kept == {id \in IDs(runs) : SecondOf(id) >= since}
           after == [Waiting EXCEPT !.pc = "walk", !.since = since, !.kept = kept]
<1>1. kept \in SUBSET RunID /\ kept \subseteq IDs(runs) /\ \A id \in kept : Matches(id, since)
  BY FiniteIDs DEF TypeOK, Matches
<1>2. since \in Nat
  BY DEF ReadsAssumption
<1>3. reading' = [reading EXCEPT ![r] = after]
  BY DEF StartWalk
<1> HIDE DEF kept
<1>4. /\ after \in Reading /\ after.pc = "walk" /\ after.kept = kept /\ after.since = since
      /\ after.listed = <<>> /\ after.cursor = NoRun
  <2>1. Waiting \in Reading /\ Waiting.listed = <<>> /\ Waiting.cursor = NoRun
    BY WaitingType DEF Waiting
  <2> QED
    BY <1>1, <1>2, <2>1 DEF Reading
<1> HIDE DEF after
<1>5. reading'[r] = after
  BY <1>3 DEF ReadInvariant
<1>6. Walking(r)' /\ Opening(r)'
  BY <1>1, <1>4, <1>5 DEF Walking, Opening, Descending, vars
<1> QED
  BY <1>3, <1>4, <1>6, ReaderKeeps

(* What a page adds to a walk.                                             *)
LEMMA PageAdds ==
  ASSUME NEW listed \in Seq(RunID), NEW page \in Seq(RunID), NEW cursor \in Nat,
         Descending(listed), Descending(page),
         \A i \in DOMAIN listed : cursor # NoRun /\ listed[i] >= cursor,
         \A id \in Listed(page) : cursor # NoRun => id < cursor
  PROVE  /\ listed \o page \in Seq(RunID) /\ Descending(listed \o page)
         /\ Listed(listed \o page) = Listed(listed) \cup Listed(page)
<1> DEFINE all == listed \o page
           n == Len(listed)
           k == Len(page)
<1>1. /\ all \in Seq(RunID) /\ n \in Nat /\ k \in Nat
      /\ DOMAIN listed = 1 .. n /\ DOMAIN page = 1 .. k /\ DOMAIN all = 1 .. n + k
      /\ \A i \in 1 .. n : all[i] = listed[i]
      /\ \A i \in n + 1 .. n + k : all[i] = page[i - n]
  OBVIOUS
<1> HIDE DEF all, n, k
<1>2. ASSUME NEW i \in n + 1 .. n + k PROVE i - n \in 1 .. k
  BY <1>1
<1>3. ASSUME NEW i \in 1 .. k PROVE n + i \in n + 1 .. n + k /\ all[n + i] = page[i]
  <2>1. n + i \in n + 1 .. n + k /\ (n + i) - n = i
    BY <1>1
  <2> QED
    BY <1>1, <2>1
<1>4. Listed(all) \subseteq Listed(listed) \cup Listed(page)
  <2> SUFFICES ASSUME NEW i \in 1 .. n + k PROVE all[i] \in Listed(listed) \cup Listed(page)
    BY <1>1 DEF Listed
  <2>1. CASE i \in 1 .. n
    BY <1>1, <2>1 DEF Listed
  <2>2. CASE i \in n + 1 .. n + k
    BY <1>1, <1>2, <2>2 DEF Listed
  <2> QED
    BY <1>1, <2>1, <2>2
<1>5. Listed(listed) \cup Listed(page) \subseteq Listed(all)
  <2>1. ASSUME NEW i \in 1 .. n PROVE listed[i] \in Listed(all)
    <3>1. i \in 1 .. n + k
      BY <1>1
    <3> QED
      BY <1>1, <3>1 DEF Listed
  <2>2. ASSUME NEW i \in 1 .. k PROVE page[i] \in Listed(all)
    <3>1. n + i \in 1 .. n + k
      BY <1>1
    <3> QED
      BY <1>1, <1>3, <3>1 DEF Listed
  <2> QED
    BY <1>1, <2>1, <2>2 DEF Listed
<1>6. Descending(all)
  <2> SUFFICES ASSUME NEW i \in 1 .. n + k, NEW j \in 1 .. n + k, i < j
               PROVE  all[i] > all[j]
    BY <1>1 DEF Descending
  <2>1. CASE j \in 1 .. n
    <3>1. i \in 1 .. n
      BY <1>1, <2>1
    <3> QED
      BY <1>1, <2>1, <3>1 DEF Descending
  <2>2. CASE i \in n + 1 .. n + k
    <3>1. j \in n + 1 .. n + k /\ i - n < j - n
      BY <1>1, <2>2
    <3> QED
      BY <1>1, <1>2, <2>2, <3>1 DEF Descending
  <2>3. CASE i \in 1 .. n /\ j \in n + 1 .. n + k
    <3>1. all[i] = listed[i] /\ all[j] = page[j - n] /\ j - n \in DOMAIN page
      BY <1>1, <1>2, <2>3
    <3>2. listed[i] \in Nat /\ page[j - n] \in Nat
      BY <1>1, <2>3, <3>1 DEF RunID
    <3>3. cursor # NoRun /\ listed[i] >= cursor /\ page[j - n] < cursor
      BY <1>1, <2>3, <3>1 DEF Listed
    <3> QED
      BY <3>1, <3>2, <3>3
  <2> QED
    BY <1>1, <2>1, <2>2, <2>3
<1> QED
  BY <1>1, <1>4, <1>5, <1>6 DEF all

LEMMA PageKeeps ==
  ASSUME TypeOK, ReadInvariant, UNCHANGED vars, ReadsAssumption, NEW r \in Reader, Page(r)
  PROVE  ReadInvariant'
<1> DEFINE walk == reading[r]
           older == {id \in IDs(runs) :
                       Matches(id, walk.since) /\ (walk.cursor # NoRun => id < walk.cursor)}
<1>1. /\ walk \in Reading /\ walk.pc = "walk" /\ walk.listed \in Seq(RunID)
      /\ walk.cursor \in Nat /\ walk.kept \in SUBSET RunID /\ walk.since \in Nat
      /\ reading \in [Reader -> Reading] /\ Walking(r)
  <2>1. walk \in Reading /\ reading \in [Reader -> Reading] /\ Walking(r) /\ walk.pc = "walk"
    BY DEF ReadInvariant, Page
  <2> QED
    BY <2>1 DEF Reading
<1>2. older \in SUBSET RunID /\ IsFiniteSet(older) /\ PageLimit \in Nat \ {0}
  <2>1. IsFiniteSet(IDs(runs)) /\ IDs(runs) \subseteq RunID /\ older \in SUBSET IDs(runs)
    BY FiniteIDs DEF TypeOK
  <2> QED
    BY <2>1, FS_Subset DEF ReadsAssumption
<1>3. PICK page \in PagesOf(older, PageLimit) :
        reading' = [reading EXCEPT ![r] =
          IF lastRun = NoRun \/ walk.cursor \notin IDs(runs) \cup {NoRun}
          THEN [walk EXCEPT !.pc = "gone"]
          ELSE [walk EXCEPT
                  !.listed = walk.listed \o page,
                  !.pc = IF Len(page) = PageLimit THEN "walk" ELSE "done",
                  !.cursor = IF Len(page) = PageLimit THEN page[PageLimit] ELSE walk.cursor]]
  BY DEF Page, RunsBefore
<1>4. \A id \in older : walk.cursor # NoRun => id < walk.cursor
  OBVIOUS
<1>5. \A id \in walk.kept : id \in Listed(walk.listed) \/ id \in older
  BY <1>1 DEF Walking
<1> HIDE DEF older
<1>6. /\ page \in Seq(older) /\ Descending(page)
      /\ Len(page) = PageLimit =>
           /\ page[PageLimit] \in older /\ \A i \in DOMAIN page : page[i] >= page[PageLimit]
           /\ \A id \in older : id \in Listed(page) \/ id < page[PageLimit]
      /\ Len(page) # PageLimit => older \subseteq Listed(page)
  BY <1>2, PageLeavesOlder
<1>7. page \in Seq(RunID) /\ \A id \in Listed(page) : id \in older
  BY <1>2, <1>6 DEF Listed
<1> DEFINE all == walk.listed \o page
<1>8. /\ all \in Seq(RunID) /\ Descending(all)
      /\ Listed(all) = Listed(walk.listed) \cup Listed(page)
  BY <1>1, <1>4, <1>6, <1>7, PageAdds DEF Walking
<1>9. CASE lastRun = NoRun \/ walk.cursor \notin IDs(runs) \cup {NoRun}
  <2> DEFINE after == [walk EXCEPT !.pc = "gone"]
  <2>1. after \in Reading /\ after.pc = "gone" /\ after.listed = walk.listed
    BY <1>1 DEF Reading
  <2>2. reading' = [reading EXCEPT ![r] = after]
    BY <1>3, <1>9
  <2> HIDE DEF after
  <2>3. reading'[r] = after
    BY <1>1, <2>2
  <2>4. Walking(r)' /\ Opening(r)'
    BY <1>1, <2>1, <2>3 DEF Walking, Opening
  <2> QED
    BY <2>1, <2>2, <2>4, ReaderKeeps
<1>10. CASE ~ (lastRun = NoRun \/ walk.cursor \notin IDs(runs) \cup {NoRun})
  <2> DEFINE pc == IF Len(page) = PageLimit THEN "walk" ELSE "done"
             cursor == IF Len(page) = PageLimit THEN page[PageLimit] ELSE walk.cursor
             after == [walk EXCEPT !.listed = all, !.pc = pc, !.cursor = cursor]
  <2>1. reading' = [reading EXCEPT ![r] = after]
    BY <1>3, <1>10
  <2>2. /\ pc \in {"walk", "done"} /\ cursor \in Nat
        /\ pc = "walk" => Len(page) = PageLimit /\ cursor = page[PageLimit]
        /\ pc = "done" => Len(page) # PageLimit
    BY <1>1, <1>2, <1>6 DEF RunID
  <2> HIDE DEF pc, cursor, all
  <2>3. /\ after \in Reading /\ after.pc = pc /\ after.cursor = cursor /\ after.listed = all
        /\ after.kept = walk.kept /\ after.since = walk.since /\ after.replaced = walk.replaced
    BY <1>1, <1>8, <2>2 DEF Reading
  <2> HIDE DEF after
  <2>4. reading'[r] = after
    BY <1>1, <2>1
  <2>5. ASSUME pc = "done" PROVE walk.kept \subseteq Listed(all)
    BY <1>5, <1>6, <1>8, <2>2, <2>5
  <2>6. ASSUME pc = "walk"
        PROVE  /\ \A i \in DOMAIN all : cursor # NoRun /\ all[i] >= cursor
               /\ \A id \in walk.kept : id \in Listed(all) \/ id < cursor
    <3>1. /\ cursor \in older /\ cursor \in RunID /\ cursor # NoRun
          /\ \A id \in older : id \in Listed(page) \/ id < cursor
          /\ \A i \in DOMAIN page : page[i] >= cursor
      BY <1>2, <1>6, <2>2, <2>6 DEF RunID, NoRun
    <3>2. \A id \in Listed(all) : id >= cursor
      <4> SUFFICES ASSUME NEW id \in Listed(all) PROVE id >= cursor
        OBVIOUS
      <4>1. CASE id \in Listed(page)
        BY <3>1, <4>1 DEF Listed
      <4>2. CASE id \in Listed(walk.listed)
        <5>1. PICK i \in DOMAIN walk.listed : id = walk.listed[i]
          BY <4>2 DEF Listed
        <5>2. id \in Nat /\ walk.cursor # NoRun /\ id >= walk.cursor
          BY <1>1, <5>1 DEF Walking, RunID
        <5>3. cursor < walk.cursor /\ cursor \in Nat
          BY <1>4, <2>2, <3>1, <5>2
        <5> QED
          BY <1>1, <5>2, <5>3
      <4> QED
        BY <1>8, <4>1, <4>2
    <3>3. \A i \in DOMAIN all : all[i] \in Listed(all)
      BY DEF Listed
    <3> QED
      BY <1>5, <1>8, <3>1, <3>2, <3>3
  <2>7. Walking(r)'
    BY <1>1, <1>8, <2>2, <2>3, <2>4, <2>5, <2>6 DEF Walking, vars
  <2>8. Opening(r)'
    BY <2>2, <2>3, <2>4 DEF Opening
  <2> QED
    BY <2>1, <2>3, <2>7, <2>8, ReaderKeeps
<1> QED
  BY <1>9, <1>10

LEMMA NameKeeps ==
  ASSUME TypeOK, ReadInvariant, UNCHANGED vars, NEW r \in Reader, NameLatest(r)
  PROVE  ReadInvariant'
<1> DEFINE after == [Waiting EXCEPT !.pc = "open", !.cursor = lastRun]
<1>1. reading' = [reading EXCEPT ![r] = after] /\ lastRun # NoRun
  BY DEF NameLatest
<1>2. /\ after \in Reading /\ after.pc = "open" /\ after.cursor = lastRun
      /\ after.kept = {} /\ after.listed = <<>>
  <2>1. Waiting \in Reading /\ Waiting.listed = <<>> /\ Waiting.kept = {}
    BY WaitingType DEF Waiting
  <2> QED
    BY <2>1 DEF Reading, TypeOK
<1> HIDE DEF after
<1>3. reading'[r] = after
  BY <1>1 DEF ReadInvariant
<1>4. Walking(r)' /\ Opening(r)'
  BY <1>1, <1>2, <1>3 DEF Walking, Opening, Descending, vars
<1> QED
  BY <1>1, <1>2, <1>4, ReaderKeeps

LEMMA OpenKeeps ==
  ASSUME TypeOK, ChainInvariant, ReadInvariant, UNCHANGED vars, NEW r \in Reader,
         OpenLatest(r)
  PROVE  ReadInvariant'
<1> DEFINE named == reading[r]
           found == DocumentOf(runs, named.cursor)
           after == [named EXCEPT !.pc = found]
<1>1. /\ named.pc = "open" /\ named \in Reading /\ Walking(r) /\ Opening(r)
      /\ reading \in [Reader -> Reading]
      /\ reading' = [reading EXCEPT ![r] = after]
  BY DEF OpenLatest, ReadInvariant
<1>2. found \in {"missing", "done", "unreadable"}
      /\ (found = "missing" => named.cursor \notin IDs(runs))
  BY DEF DocumentOf
<1> HIDE DEF found
<1>3. /\ after \in Reading /\ after.pc = found /\ after.kept = named.kept
      /\ after.listed = named.listed /\ after.replaced = named.replaced
  BY <1>1, <1>2 DEF Reading
<1> HIDE DEF after
<1>4. reading'[r] = after
  BY <1>1
<1>5. ASSUME ~ named.replaced PROVE named.cursor \in IDs(runs)
  <2>1. named.cursor = NewestID(runs) /\ NewestID(runs) # NoRun /\ runs \in Seq(RunRow)
    BY <1>1, <1>5 DEF Opening, ChainInvariant, RepoRowAgrees, TypeOK
  <2>2. runs # <<>>
    BY <2>1 DEF NewestID
  <2> QED
    BY <2>1, <2>2, NewestIsLast DEF IDs
<1>6. Walking(r)' /\ Opening(r)'
  BY <1>1, <1>2, <1>3, <1>4, <1>5 DEF Walking, Opening
<1> QED
  BY <1>1, <1>3, <1>6, ReaderKeeps

(* The store's own steps: runs that are gone are no longer missed, and a   *)
(* run named newest is replaced as soon as it is not.                      *)
LEMMA OvertakenKeeps ==
  ASSUME TypeOK', ReadInvariant, Overtaken PROVE ReadInvariant'
<1>1. reading \in [Reader -> Reading] /\ \A r \in Reader : Walking(r) /\ Opening(r)
  BY DEF ReadInvariant
<1>2. IDs(runs') \subseteq RunID
  BY FiniteIDs DEF TypeOK
<1>3. ASSUME NEW r \in Reader
      PROVE  reading'[r] \in Reading /\ Walking(r)' /\ Opening(r)'
  <2>0. reading[r] \in Reading /\ Walking(r) /\ Opening(r)
    BY <1>1
  <2>1. CASE reading[r].pc = "walk"
    <3> DEFINE after == [reading[r] EXCEPT !.kept = reading[r].kept \cap IDs(runs')]
    <3>1. reading'[r] = after
      BY <2>1 DEF Overtaken
    <3>2. /\ after \in Reading /\ after.pc = "walk"
          /\ after.kept = reading[r].kept \cap IDs(runs')
          /\ after.listed = reading[r].listed /\ after.cursor = reading[r].cursor
          /\ after.since = reading[r].since
      BY <2>0, <2>1 DEF Reading
    <3> HIDE DEF after
    <3> QED
      BY <2>0, <2>1, <3>1, <3>2 DEF Walking, Opening
  <2>2. CASE reading[r].pc = "open"
    <3> DEFINE gone == reading[r].replaced \/ lastRun' # reading[r].cursor
               after == [reading[r] EXCEPT !.replaced = gone]
    <3>1. reading'[r] = after
      BY <2>2 DEF Overtaken
    <3>2. gone \in BOOLEAN /\ (~ gone => ~ reading[r].replaced /\ lastRun' = reading[r].cursor)
      BY <2>0 DEF Reading
    <3> HIDE DEF gone
    <3>3. /\ after \in Reading /\ after.pc = "open" /\ after.replaced = gone
          /\ after.kept = reading[r].kept /\ after.listed = reading[r].listed
          /\ after.cursor = reading[r].cursor
      BY <2>0, <2>2, <3>2 DEF Reading
    <3> HIDE DEF after
    <3> QED
      BY <2>0, <2>2, <3>1, <3>2, <3>3 DEF Walking, Opening
  <2>3. CASE reading[r].pc \notin {"walk", "open"}
    <3>1. reading'[r] = reading[r]
      BY <2>3 DEF Overtaken
    <3> QED
      BY <2>0, <2>3, <3>1 DEF Walking, Opening
  <2> QED
    BY <2>1, <2>2, <2>3
<1>4. reading' = [r \in Reader |-> reading'[r]]
  BY DEF Overtaken
<1>5. reading' \in [Reader -> Reading]
  BY <1>3, <1>4
<1> QED
  BY <1>3, <1>5 DEF ReadInvariant

LEMMA ReadStep ==
  TypeOK /\ TypeOK' /\ ChainInvariant /\ ReadInvariant /\ [ReadNext]_<<vars, reading>>
    => ReadInvariant'
<1> SUFFICES ASSUME TypeOK, TypeOK', ChainInvariant, ReadInvariant,
                    [ReadNext]_<<vars, reading>>
             PROVE  ReadInvariant'
  OBVIOUS
<1>1. CASE Overtaken
  BY <1>1, OvertakenKeeps
<1>2. ASSUME NEW r \in Reader, ReaderStep(r), UNCHANGED vars PROVE ReadInvariant'
  <2>1. CASE Answered(r)
    <3>1. reading' = [reading EXCEPT ![r] = Waiting] /\ reading'[r] = Waiting
      BY <2>1 DEF Answered, ReadInvariant
    <3> QED
      BY <1>2, <3>1, WaitingType, WaitingReads, ReaderKeeps
  <2> QED
    BY <1>2, <2>1, StartKeeps, PageKeeps, NameKeeps, OpenKeeps, StoreAssumption,
       ReadsAssumption
    DEF ReaderStep
<1>3. CASE UNCHANGED <<vars, reading>>
  BY <1>3 DEF ReadInvariant, Walking, Opening, vars
<1> QED
  BY <1>1, <1>2, <1>3 DEF ReadNext

LEMMA ReadsInvariant == ReadSpec => [](RulesInvariant /\ TypeOK /\ ReadInvariant)
<1> DEFINE Inv == TypeOK /\ ChainInvariant /\ RulesInvariant /\ ReadInvariant
<1>1. ReadInit => Inv
  BY InitTyped, InitChain, InitRules, InitReads DEF ReadInit
<1>2. Inv /\ [ReadNext]_<<vars, reading>> => Inv'
  <2>1. [ReadNext]_<<vars, reading>> => [Next]_vars
    BY DEF ReadNext
  <2> QED
    BY <2>1, StepTyped, ChainStep, RulesStep, ReadStep
<1>3. Inv => RulesInvariant /\ TypeOK /\ ReadInvariant
  OBVIOUS
<1> HIDE DEF Inv
<1> QED
  BY <1>1, <1>2, <1>3, PTL DEF ReadSpec

(* A walk through the runs misses and repeats none that stays, whatever is *)
(* recorded, rebuilt, pruned or forgotten between two pages.               *)
THEOREM WalksAreWhole == ReadSpec => []WalkIsWhole
<1>1. ReadInvariant => WalkIsWhole
  BY DEF ReadInvariant, Walking, WalkIsWhole, Descending, Listed
<1> QED
  BY ReadsInvariant, <1>1, PTL

(* The newest run can be opened by the name it was given until another     *)
(* takes its place.                                                        *)
THEOREM LatestOpens == ReadSpec => []LatestIsThere
<1>1. ReadInvariant => LatestIsThere
  BY DEF ReadInvariant, Opening, LatestIsThere
<1> QED
  BY ReadsInvariant, <1>1, PTL

(* A comparison of two runs contradicts neither the deltas nor the index.  *)
THEOREM DiffsAgreeWithHistory == ReadSpec => []DiffAgreesWithHistory
BY ReadsInvariant, DiffsAgree, PTL
=============================================================================
