---------------------------- MODULE HistoryReads ----------------------------
(***************************************************************************)
(* Reading the scan history: what the dashboard's API, `pindrop history`   *)
(* and `pindrop status` answer from the rows of HistoryStore.  Every read  *)
(* is one statement outside any transaction; a request that needs several, *)
(* or a client that pages through the runs, sees the database change       *)
(* between them.                                                           *)
(***************************************************************************)
EXTENDS HistoryStore

CONSTANTS
  Reader,      \* the clients of the dashboard
  PageLimit,   \* the ?limit= of a page of runs
  Since,       \* values of the ?since= filter
  MaxWalk      \* bound: runs a walk lists

ASSUME ReadsAssumption ==
  PageLimit \in Nat \ {0} /\ MaxWalk \in Nat /\ Since \subseteq Nat

VARIABLE reading   \* per reader, the request or the walk it is in

(* cursor is the ?before= of the next page, or the run to be opened; kept, *)
(* a ghost, the runs that were there when the walk began and still are;    *)
(* replaced, a ghost, that the run to be opened is the newest no more.     *)
Reading ==
  [pc : {"idle", "walk", "open", "done", "gone", "missing", "unreadable"},
   cursor : Nat, since : Nat, listed : Seq(RunID), kept : SUBSET RunID,
   replaced : BOOLEAN]

Waiting ==
  [pc |-> "idle", cursor |-> NoRun, since |-> 0, listed |-> <<>>, kept |-> {},
   replaced |-> FALSE]

IDs(rows) == {rows[i].id : i \in DOMAIN rows}

-----------------------------------------------------------------------------
(* Queries on the rows.                                                    *)

(* The runs of a query, newest first: those that finished since a time and *)
(* are older than the cursor, as many of them as limit allows, and those   *)
(* left out all older than the ones listed.  There is one such page.       *)
Matches(id, since) == SecondOf(id) >= since

PagesOf(older, limit) ==
  LET n == IF limit < Cardinality(older) THEN limit ELSE Cardinality(older)
  IN  {page \in [1 .. n -> older] :
         /\ \A i, j \in 1 .. n : i < j => page[i] > page[j]
         /\ \A id \in older : \/ \E i \in 1 .. n : page[i] = id
                              \/ \A i \in 1 .. n : page[i] > id}

(* Faulty variant: the page starts at the cursor.                          *)
RunsUpTo(rows, since, before, limit) ==
  PagesOf({id \in IDs(rows) : Matches(id, since) /\ (before # NoRun => id <= before)},
          limit)

RunsBefore(rows, since, before, limit) ==
  PagesOf({id \in IDs(rows) : Matches(id, since) /\ (before # NoRun => id < before)},
          limit)

(* The stored document of a run, as an answer to a request.                *)
DocumentOf(rows, id) ==
  IF id \notin IDs(rows) THEN "missing"
  ELSE IF \E i \in DOMAIN rows : rows[i].id = id /\ rows[i].readable THEN "done"
  ELSE "unreadable"

(* Findings: a finding without a stored status is open.                    *)
StatusOf(row, fp) == IF row.marks[fp] = "none" THEN "open" ELSE row.marks[fp]

Found(row) == {fp \in Fingerprint : row.found[fp] # {}}

(* DiffRuns, of two runs whose documents decode: what the head reports and *)
(* the base does not is new, or has regressed if the head's document says  *)
(* so; what only the base reports is fixed if the head had the same scope  *)
(* and one of its reporters.                                               *)
DiffNew(base, head) ==
  {fp \in Found(head) \ Found(base) : head.marks[fp] # "regressed"}

DiffRegressed(base, head) ==
  {fp \in Found(head) \ Found(base) : head.marks[fp] = "regressed"}

DiffStillOpen(base, head) == Found(head) \cap Found(base)

(* Faulty variant: the scopes are not compared.                            *)
DiffFixedAnyScope(base, head) ==
  {fp \in Found(base) \ Found(head) : CheckedBy(base.found[fp], head.ran)}

DiffFixed(base, head) ==
  {fp \in Found(base) \ Found(head) :
     base.scope = head.scope /\ CheckedBy(base.found[fp], head.ran)}

(* `pindrop status` and the open counts of a repository.                   *)
OpenNow == {fp \in Fingerprint : states[fp].status \in OpenStatuses}

-----------------------------------------------------------------------------
ReadInit == Init /\ reading = [r \in Reader |-> Waiting]

(* GET /repos/{id}/runs?limit=..&since=..: the first page of a walk.       *)
StartWalk(r, since) ==
  /\ reading[r].pc = "idle"
  /\ lastRun # NoRun
  /\ reading' = [reading EXCEPT ![r] =
       [Waiting EXCEPT !.pc = "walk", !.since = since,
          !.kept = {id \in IDs(runs) : SecondOf(id) >= since}]]

(* A page; a full one offers a cursor, and the walk goes on from it.  A    *)
(* cursor whose run is gone is "not found", and so is a forgotten history. *)
Page(r) ==
  LET walk == reading[r] IN
  /\ walk.pc = "walk"
  /\ Len(walk.listed) < MaxWalk
  /\ \E page \in RunsBefore(runs, walk.since, walk.cursor, PageLimit) :
       reading' = [reading EXCEPT ![r] =
         IF lastRun = NoRun \/ walk.cursor \notin IDs(runs) \cup {NoRun}
         THEN [walk EXCEPT !.pc = "gone"]
         ELSE [walk EXCEPT
                 !.listed = @ \o page,
                 !.pc = IF Len(page) = PageLimit THEN "walk" ELSE "done",
                 !.cursor = IF Len(page) = PageLimit THEN page[PageLimit] ELSE @]]

(* GET /findings: the repository's row names the newest run ...            *)
NameLatest(r) ==
  /\ reading[r].pc = "idle"
  /\ lastRun # NoRun
  /\ reading' = [reading EXCEPT ![r] =
       [Waiting EXCEPT !.pc = "open", !.cursor = lastRun]]

(* ... whose document a second statement reads.                            *)
OpenLatest(r) ==
  /\ reading[r].pc = "open"
  /\ reading' = [reading EXCEPT ![r].pc = DocumentOf(runs, reading[r].cursor)]

Answered(r) ==
  /\ reading[r].pc \in {"done", "gone", "missing", "unreadable"}
  /\ reading' = [reading EXCEPT ![r] = Waiting]

ReaderStep(r) ==
  \/ \E since \in Since : StartWalk(r, since)
  \/ Page(r) \/ NameLatest(r) \/ OpenLatest(r) \/ Answered(r)

(* The ghosts follow every step of the store.                              *)
Overtaken ==
  reading' = [r \in Reader |->
    CASE reading[r].pc = "walk" -> [reading[r] EXCEPT !.kept = @ \cap IDs(runs')]
      [] reading[r].pc = "open" ->
           [reading[r] EXCEPT !.replaced = @ \/ lastRun' # reading[r].cursor]
      [] OTHER -> reading[r]]

(* An answer is looked at as soon as it is there, which changes nothing in *)
(* the store: no interleaving is lost by it.                               *)
Settled == \A r \in Reader : reading[r].pc \in {"idle", "walk", "open"}

ReadNext ==
  \/ Settled /\ Next /\ Overtaken
  \/ (\E r \in Reader : ReaderStep(r)) /\ UNCHANGED vars

ReadSpec == ReadInit /\ [][ReadNext]_<<vars, reading>>

-----------------------------------------------------------------------------
(* "Paging is anchored on a run ID rather than an offset so a scan         *)
(* finishing between two pages cannot shift the window": a walk that comes *)
(* to its end listed, newest first and once each, every run that was there *)
(* when it began and still is, whatever was recorded, rebuilt or pruned    *)
(* meanwhile.                                                              *)
WalkIsWhole ==
  \A r \in Reader :
    LET walk == reading[r] IN
    /\ \A i, j \in DOMAIN walk.listed : i < j => walk.listed[i] > walk.listed[j]
    /\ walk.pc = "done" =>
         walk.kept \subseteq {walk.listed[i] : i \in DOMAIN walk.listed}

(* The newest report can be opened by name although a prune or a rebuild   *)
(* runs between the two statements: only a later scan followed by a prune, *)
(* or a forgotten history, makes the request fail.                         *)
LatestIsThere ==
  \A r \in Reader : reading[r].pc = "missing" => reading[r].replaced

(* A comparison with the run before agrees with what that run's delta      *)
(* counted: every fix and regression it shows was counted, and everything  *)
(* counted as new it shows as new.                                         *)
DiffAgreesWithDelta ==
  \A i \in DOMAIN runs \ {1} :
    LET base == runs[i - 1]
        head == runs[i]
    IN  base.counted /\ head.counted =>
          \A fp \in Fingerprint :
            /\ fp \in DiffFixed(base, head) => head.delta[fp] = "fixed"
            /\ fp \in DiffRegressed(base, head) => head.delta[fp] = "regressed"
            /\ fp \in DiffStillOpen(base, head) => head.delta[fp] = "open"
            /\ head.delta[fp] = "new" => fp \in DiffNew(base, head)

(* A finding that a comparison of any earlier run with the newest shows as *)
(* fixed is not open in the index, unless the newest run's predecessor had *)
(* another scope: then the index waits and the comparison does not.        *)
DiffFixedIsNotOpen ==
  \A i \in 1 .. Len(runs) - 1 :
    LET base == runs[i]
        head == runs[Len(runs)]
    IN  /\ base.counted /\ head.counted
        /\ runs[Len(runs) - 1].scope = head.scope
        => DiffFixed(base, head) \cap OpenNow = {}

(* DiffRuns decides by rules of its own what the fold has decided from the *)
(* whole history: comparisons contradict neither the deltas nor the index. *)
DiffAgreesWithHistory == DiffAgreesWithDelta /\ DiffFixedIsNotOpen
=============================================================================
