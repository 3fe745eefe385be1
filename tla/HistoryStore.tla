---------------------------- MODULE HistoryStore ----------------------------
(***************************************************************************)
(* The SQLite scan-history store (internal/history/sqlite/store.go) for    *)
(* one repository, used by several callers at once: goroutines of one      *)
(* process, and separate pindrop processes on the same database file.      *)
(*                                                                         *)
(* A transaction is deferred: it reads a snapshot, and takes the write     *)
(* lock at its first write.  SQLite refuses that lock when another         *)
(* connection committed after the snapshot (SQLITE_BUSY_SNAPSHOT) or holds *)
(* the lock past busy_timeout; the operation then fails whole.  A caller   *)
(* may die at any step, which rolls its transaction back.                  *)
(***************************************************************************)
EXTENDS HistoryRules

CONSTANTS
  Caller,        \* those using the store
  Process,       \* operating-system processes
  Host,          \* Host[c] is the process caller c lives in
  Second,        \* readings of the clock, in any order
  MaxRuns,       \* bound: runs kept at once
  MaxRunID,      \* bound: the largest run id
  MaxDamaged,    \* bound: unreadable runs at once
  Retention      \* the policies passed to Prune: [maxRuns, maxAge]

ASSUME StoreAssumption ==
  /\ Host \in [Caller -> Process]
  /\ Second \subseteq Nat \ {0}
  /\ MaxRuns \in Nat \ {0}
  /\ MaxRunID \in Nat
  /\ MaxDamaged \in Nat
  /\ Retention \subseteq [maxRuns : Nat, maxAge : Nat]

VARIABLES
  lastRun,   \* the repos row: its last_run_id, NoRun while there is no row
  runs,      \* the runs rows, in the order of ListRunsByRepo
  states,    \* the finding_states rows
  writer,    \* the caller holding the database's write lock, if any
  tx         \* per caller, the operation it is in

database == <<lastRun, runs, states>>

vars == <<lastRun, runs, states, writer, tx>>

Nobody == "nobody"

ASSUME NobodyAssumption == Nobody \notin Caller

(* The step an operation has reached: "put" and "rebuild" have read their  *)
(* snapshot, "prune" has listed the runs outside any transaction, "replay" *)
(* holds the write lock and folds todo into fold; "refused" is the outcome *)
(* of an operation SQLite turned away.                                     *)
Step == {"idle", "put", "rebuild", "prune", "replay", "refused"}

Operation ==
  [pc : Step, stale : BOOLEAN, fold : Fold, todo : Seq(RunRow),
   doomed : SUBSET RunID]

At(pc) == [pc |-> pc, stale |-> FALSE, fold |-> EmptyFold, todo |-> <<>>,
           doomed |-> {}]

Report == [scope : Scope, ran : SUBSET Scanner,
           found : [Fingerprint -> SUBSET Scanner]]

(* Some scanner ran, and only those that ran report anything.              *)
Plausible(report) ==
  /\ report.ran # {}
  /\ \A fp \in Fingerprint : report.found[fp] \subseteq report.ran

-----------------------------------------------------------------------------
Init ==
  /\ lastRun = NoRun
  /\ runs = <<>>
  /\ states = EmptyIndex
  /\ writer = Nobody
  /\ tx = [c \in Caller |-> At("idle")]

Resting(c) == tx[c].pc \in {"idle", "refused"}

(* Faulty variant: neither the lock nor the single connection exists.      *)
HeldByNobody(c) == FALSE

(* hold: operations on the repository exclude each other in one process    *)
(* (whose only connection their transactions would share in any case).     *)
Held(c) == \E d \in Caller \ {c} : Host[d] = Host[c] /\ ~ Resting(d)

Free(c) == Resting(c) /\ ~ Held(c)

(* Faulty variant: a stale snapshot is no obstacle to writing.             *)
CanWriteStale(c) == writer = Nobody

(* The first write of a transaction whose snapshot was read earlier.       *)
CanWrite(c) == writer = Nobody /\ ~ tx[c].stale

(* A commit ends c's operation and outdates the snapshots of the others.   *)
Committed(c) ==
  tx' = [d \in Caller |->
           IF d = c THEN At("idle")
           ELSE [tx[d] EXCEPT !.stale = @ \/ tx[d].pc \in {"put", "rebuild"}]]

(* Put: the snapshot loadFold reads.                                       *)
PutRead(c) ==
  /\ Free(c)
  /\ Len(runs) < MaxRuns
  /\ tx' = [tx EXCEPT ![c] =
               [At("put") EXCEPT !.fold = [runs |-> runs, states |-> states]]]
  /\ UNCHANGED <<lastRun, runs, states, writer>>

(* saveStates writes the entries of the fold and deletes none.             *)
Upsert(old, new) ==
  [fp \in Fingerprint |-> IF new[fp] = Absent THEN old[fp] ELSE new[fp]]

(* Put: the run is minted, folded and written, from the snapshot.          *)
PutCommit(c, report, id) ==
  LET fold == ApplyRun(tx[c].fold, NewRow(id, report.scope, report.ran, report.found))
  IN  /\ tx[c].pc = "put"
      /\ CanWrite(c)
      /\ runs' = Append(runs, fold.runs[Len(fold.runs)])
      /\ states' = Upsert(states, fold.states)
      /\ lastRun' = NewestID(fold.runs)
      /\ Committed(c)
      /\ UNCHANGED writer

(* 32 random bits do not repeat the id of a run that was listed earlier    *)
(* and has been forgotten since.                                           *)
Fresh(id) == \A d \in Caller : id \notin tx[d].doomed

Put(c) ==
  \E report \in Report, now \in Second :
    \E id \in MintRunIDAfter(now, NewestID(tx[c].fold.runs)) :
      Plausible(report) /\ Fresh(id) /\ id <= MaxRunID /\ PutCommit(c, report, id)

-----------------------------------------------------------------------------
(* Rebuild: rebuildTx reads the repository and its runs ...                *)
RebuildRead(c) ==
  /\ Free(c)
  /\ lastRun # NoRun
  /\ tx' = [tx EXCEPT ![c] = [At("rebuild") EXCEPT !.todo = runs]]
  /\ UNCHANGED <<lastRun, runs, states, writer>>

(* Faulty variant: the runs are folded on top of the stored states.        *)
RebuildOnTop(c) ==
  /\ tx[c].pc = "rebuild"
  /\ CanWrite(c)
  /\ writer' = c
  /\ tx' = [tx EXCEPT ![c].pc = "replay", ![c].fold.states = states]
  /\ UNCHANGED <<lastRun, runs, states>>

(* ... deletes the finding states, its first write ...                     *)
RebuildDelete(c) ==
  /\ tx[c].pc = "rebuild"
  /\ CanWrite(c)
  /\ writer' = c
  /\ tx' = [tx EXCEPT ![c].pc = "replay"]
  /\ UNCHANGED <<lastRun, runs, states>>

(* ... folds the runs in order into an empty index, those that a prune     *)
(* deleted at the same point no longer among them ...                      *)
Replay(c) ==
  LET row == Head(tx[c].todo)
  IN  /\ tx[c].pc = "replay"
      /\ tx[c].todo # <<>>
      /\ tx' = [tx EXCEPT ![c].todo = Tail(@),
                          ![c].fold = IF row.id \in tx[c].doomed THEN @
                                      ELSE ApplyRun(@, row)]
      /\ UNCHANGED <<lastRun, runs, states, writer>>

(* ... and commits what it folded.                                         *)
ReplayCommit(c) ==
  /\ tx[c].pc = "replay"
  /\ tx[c].todo = <<>>
  /\ runs' = tx[c].fold.runs
  /\ states' = tx[c].fold.states
  /\ lastRun' = IF tx[c].fold.runs = <<>> THEN lastRun ELSE NewestID(tx[c].fold.runs)
  /\ writer' = Nobody
  /\ Committed(c)

(* Prune: the runs are listed before the transaction begins ...            *)
PruneList(c, policy, now) ==
  LET ids    == [i \in DOMAIN runs |-> runs[i].id]
      doomed == Expired(ids, policy.maxRuns, policy.maxAge, now)
  IN  /\ Free(c)
      /\ doomed # {}
      /\ tx' = [tx EXCEPT ![c] = [At("prune") EXCEPT !.doomed = doomed]]
      /\ UNCHANGED <<lastRun, runs, states, writer>>

(* ... which starts with a write, so it waits for the lock and reads what  *)
(* is there then; rebuildTx gives up when the repository is gone.          *)
PruneDelete(c) ==
  /\ tx[c].pc = "prune"
  /\ writer = Nobody
  /\ IF lastRun = NoRun
     THEN tx' = [tx EXCEPT ![c] = At("idle")] /\ UNCHANGED writer
     ELSE /\ tx' = [tx EXCEPT ![c].pc = "replay", ![c].todo = runs]
          /\ writer' = c
  /\ UNCHANGED <<lastRun, runs, states>>

(* Forget: one statement; the foreign keys delete the runs and the index.  *)
Forget(c) ==
  /\ Free(c)
  /\ writer = Nobody
  /\ lastRun' = NoRun
  /\ runs' = <<>>
  /\ states' = EmptyIndex
  /\ Committed(c)
  /\ UNCHANGED writer

(* SQLite turns the operation away: its snapshot is stale, or another      *)
(* caller keeps the write lock too long.  The transaction rolls back.      *)
Refuse(c) ==
  /\ \/ tx[c].pc \in {"put", "rebuild"} /\ ~ CanWrite(c)
     \/ tx[c].pc = "prune" /\ writer # Nobody
  /\ tx' = [tx EXCEPT ![c] = At("refused")]
  /\ UNCHANGED <<lastRun, runs, states, writer>>

-----------------------------------------------------------------------------
(* The caller's process dies, or its context is cancelled.                 *)
Crash(c) ==
  /\ ~ Resting(c)
  /\ tx' = [tx EXCEPT ![c] = At("idle")]
  /\ writer' = IF writer = c THEN Nobody ELSE writer
  /\ UNCHANGED <<lastRun, runs, states>>

(* The stored document of a run stops decoding: it was damaged, or         *)
(* rewritten under a schema this build does not read.                      *)
Damage(i) ==
  /\ writer = Nobody
  /\ runs[i].readable
  /\ Cardinality({k \in DOMAIN runs : ~ runs[k].readable}) < MaxDamaged
  /\ runs' = [runs EXCEPT ![i].readable = FALSE]
  /\ tx' = [d \in Caller |->
              [tx[d] EXCEPT !.stale = @ \/ tx[d].pc \in {"put", "rebuild"}]]
  /\ UNCHANGED <<lastRun, states, writer>>

CallerStep(c) ==
  \/ PutRead(c) \/ Put(c)
  \/ RebuildRead(c) \/ RebuildDelete(c) \/ Replay(c) \/ ReplayCommit(c)
  \/ \E policy \in Retention, now \in Second : PruneList(c, policy, now)
  \/ PruneDelete(c)
  \/ Forget(c) \/ Refuse(c) \/ Crash(c)

Next ==
  \/ \E c \in Caller : CallerStep(c)
  \/ \E i \in DOMAIN runs : Damage(i)

Spec == Init /\ [][Next]_vars

-----------------------------------------------------------------------------
TypeOK ==
  /\ lastRun \in Nat
  /\ runs \in Seq(RunRow)
  /\ states \in [Fingerprint -> FindingState]
  /\ writer \in Caller \cup {Nobody}
  /\ tx \in [Caller -> Operation]

-----------------------------------------------------------------------------
(* The store as a ledger of scans with its index.                          *)

Ledger ==
  [i \in DOMAIN runs |->
     [id |-> runs[i].id, scope |-> runs[i].scope, ran |-> runs[i].ran,
      found |-> runs[i].found, counted |-> runs[i].counted]]

L == INSTANCE HistoryLedger WITH ledger <- Ledger, index <- states

(* Concurrent callers on one database are a sequence of atomic recordings, *)
(* retirements and forgettings: Put, Rebuild, Prune and Forget implement   *)
(* HistoryLedger ("safe for concurrent use, including from separate        *)
(* processes").                                                            *)
ImplementsLedger == L!Spec

(* The finding_states rows are what the stored runs say under rules 1 to   *)
(* 3, whatever was recorded, rebuilt, pruned or lost to whom: no scan's    *)
(* effect on the index is lost or counted twice.                           *)
IndexMatchesRuns == IndexOf(runs, states)

(* The runs form one chain: ids ascend and every prev names the run before *)
(* it, so two scans at once never claim the same predecessor.              *)
Chained(rows) ==
  \A i \in DOMAIN rows :
    /\ i = 1 => rows[i].prev = NoRun
    /\ i > 1 => /\ rows[i].prev = rows[i - 1].id
                /\ rows[i].prev < rows[i].id

ChainIsLinear == Chained(runs)

(* The repos row exists exactly when runs do, and names the newest.        *)
RepoRowAgrees == lastRun = NewestID(runs)

(* Why the chain stays linear.  A caller about to write from a snapshot    *)
(* that is not stale sees the database as it is; the holder of the write   *)
(* lock is the one replaying; and what is folded, followed by what is left *)
(* to fold, leads to the newest run, which no prune in progress dooms.     *)
Ascending(rows) == \A i, j \in DOMAIN rows : i < j => rows[i].id < rows[j].id

SnapshotHolds(c) ==
  ~ tx[c].stale => /\ tx[c].pc = "put" =>
                        tx[c].fold = [runs |-> runs, states |-> states]
                   /\ tx[c].pc = "rebuild" =>
                        /\ runs # <<>>
                        /\ tx[c].todo = runs /\ tx[c].fold = EmptyFold

LeadsToNewest(fold, todo) ==
  /\ Chained(fold) /\ Ascending(fold) /\ Ascending(todo)
  /\ todo = <<>> => NewestID(fold) = NewestID(runs)
  /\ todo # <<>> => /\ NewestID(todo) = NewestID(runs)
                    /\ NewestID(fold) < todo[1].id

OnCourse(c) ==
  /\ SnapshotHolds(c)
  /\ NewestID(runs) \notin tx[c].doomed
  /\ tx[c].pc = "prune" => tx[c].fold = EmptyFold
  /\ tx[c].pc = "replay" <=> writer = c
  /\ tx[c].pc = "replay" =>
       runs # <<>> /\ LeadsToNewest(tx[c].fold.runs, tx[c].todo)

ChainInvariant ==
  /\ ChainIsLinear /\ Ascending(runs)
  /\ RepoRowAgrees
  /\ \A c \in Caller : OnCourse(c)

(* Every run that counts has the delta the ledger gives it, and every      *)
(* finding of its document the status it held as of that run, also after a *)
(* prune made a later run the first.                                       *)
DeltasMatchRuns == DeltasOf(runs)

(* Prune "never deletes the newest run", though it chooses what to delete  *)
(* before its transaction begins: only Forget removes the newest run.      *)
NewestRunSurvives ==
  [][runs # <<>> /\ lastRun' # NoRun =>
       \E i \in DOMAIN runs' : runs'[i].id = NewestID(runs)]_vars

(* A rebuild of a history in which every document still decodes reproduces *)
(* the index, every prev, every delta and every stored status.             *)
RebuildReproduces ==
  [][\A c \in Caller :
       /\ ReplayCommit(c)
       /\ Len(tx[c].fold.runs) = Len(runs)
       /\ \A i \in DOMAIN runs : runs[i].readable
       => UNCHANGED database]_vars

(* Within one process, an operation is turned away only if something else  *)
(* rewrote a stored document since it read its snapshot: the               *)
(* per-repository lock keeps the process's own operations from making each *)
(* other's snapshots stale.                                                *)
OneHost == \A c, d \in Caller : Host[c] = Host[d]

Snapshot(c) == IF tx[c].pc = "put" THEN tx[c].fold.runs ELSE tx[c].todo

DamagedSince(c) ==
  \E i \in DOMAIN runs \cap DOMAIN Snapshot(c) :
    Snapshot(c)[i].readable /\ ~ runs[i].readable

InProcessNeverRefused ==
  [][OneHost => \A c \in Caller :
       tx[c].pc # "refused" /\ tx'[c].pc = "refused" => DamagedSince(c)]_vars

(* Why: at most one caller is at work, only damage makes its snapshot      *)
(* stale, and the write lock is nobody else's.                             *)
Alternate ==
  \A c \in Caller :
    /\ tx[c].pc \in {"put", "rebuild"} /\ tx[c].stale => DamagedSince(c)
    /\ ~ Resting(c) => ~ Held(c) /\ writer \in {c, Nobody}
    /\ writer = c => tx[c].pc = "replay"

-----------------------------------------------------------------------------
(* history.go of States: "one entry per fingerprint ever seen in this      *)
(* repository".  An entry is dropped only with the whole history.          *)
EverSeenStaysIndexed ==
  [][\A fp \in Fingerprint :
       states[fp] # Absent /\ lastRun' # NoRun => states'[fp] # Absent]_vars

(* report/json.go of Status: "lifecycle status as of this run".  The map   *)
(* stored in a document and the delta stored beside it agree.              *)
StatusMapMatchesDelta ==
  \A i \in DOMAIN runs : runs[i].counted => runs[i].marks = runs[i].delta
=============================================================================
