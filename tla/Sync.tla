-------------------------------- MODULE Sync --------------------------------
(* pindrop sync: processes that push the local history of their machine to *)
(* the sync API, and remember in a checkpoint file how far they got, while *)
(* scans are recorded, pruned and forgotten, users log in and out, requests*)
(* fail and processes die.                                                 *)
(*                                                                         *)
(* The local history is that of HistoryStore, reduced to what a sync reads *)
(* of it: a repository's runs in order, whether their documents decode, and*)
(* when each finding of the index was last seen.  One clock per machine    *)
(* numbers the runs and is not set back.                                   *)
EXTENDS SyncServer, SequencesExt

CONSTANTS
  Machine,
  MachineOf,    \* MachineOf[p] is the machine of process p
  HomeOf,       \* HomeOf[r] is the machine of local repository r
  Remote,       \* Remote[r] is r's remote, or ""
  Reports,      \* Reports[id]: the sets of findings a scan with that run id
                \* may report
  MaxRunID,     \* bound: run ids
  Scans,        \* bound: Scans[m] <= MaxRunID runs are ever recorded on m
  Syncs,        \* bound: Syncs[p] commands are ever begun by p
  MaxMishaps,   \* bound: things that happen besides scans and syncs that
                \* succeed
  Eventful      \* bound: the machines they happen to

VARIABLES
  history,      \* history[r]: the runs, oldest first, and the index
  clock,        \* clock[m] numbers the runs of machine m
  account,      \* account[m] is the user of m's credentials file, or Nobody
  checkpoint,   \* checkpoint[m] is m's sync-state.json
  sync,         \* sync[p] is the command of process p
  begun,        \* begun[p] counts the commands of p
  mishaps

vars == <<serverVars, history, clock, account, checkpoint, sync, begun, mishaps>>

bounds == <<begun, mishaps>>

Nobody == "nobody"

ID == 0 .. MaxRunID

ASSUME SyncAssumption ==
  /\ MachineOf \in [Conn -> Machine]
  /\ HomeOf \in [RepoID -> Machine]
  /\ Remote \in [RepoID -> Origin]
  /\ MaxRunID \in Nat /\ MaxMishaps \in Nat
  /\ Scans \in [Machine -> ID]
  /\ RepoID \X ID \subseteq Run \cap Stamp

LocalRun == [id : ID \ {0}, readable : BOOLEAN]

Checkpoint == [RepoID -> ID]

NoCheckpoint == [r \in RepoID |-> 0]

Command ==
  [step : {"next", "linking", "pushing", "running", "stating"},
   user : User,                 \* whose token the command began with
   as : User,                   \* whose token this repository is synced with
   renewed : BOOLEAN,           \* this request was retried with a new token
   todo : SUBSET RepoID, repo : RepoID,
   listed : Checkpoint,         \* last runs, as syncTargets listed them
   loaded : Checkpoint,
   pending : SUBSET ID]

Idle == [step |-> "idle"]

Init ==
  /\ InitServer
  /\ history = [r \in RepoID |-> [runs |-> <<>>, index |-> NoIndex]]
  /\ clock = [m \in Machine |-> 0]
  /\ account \in [Machine -> User \cup {Nobody}]
  /\ checkpoint = [m \in Machine |-> NoCheckpoint]
  /\ sync = [p \in Conn |-> Idle]
  /\ begun = [p \in Conn |-> 0]
  /\ mishaps = 0

LastID(r) == IF history[r].runs = <<>> THEN 0 ELSE Last(history[r].runs).id

RunOf(r, id) == IF id = 0 THEN NoRun ELSE <<r, id>>

IDs(r) == {run.id : run \in ToSet(history[r].runs)}

-----------------------------------------------------------------------------
(* What happens to the local history, the session and the checkpoint file. *)

local == <<history, clock>>

Record(r) ==
  LET m == HomeOf[r]
      id == clock[m] + 1
  IN  /\ clock[m] < Scans[m]
      /\ clock' = [clock EXCEPT ![m] = id]
      /\ \E reported \in Reports[id] :
           history' = [history EXCEPT
             ![r].runs = Append(@, [id |-> id, readable |-> TRUE]),
             ![r].index = [fp \in Fingerprint |->
                             IF fp \in reported \/ @[fp] # Unseen
                             THEN <<r, id>> ELSE Unseen]]
      /\ UNCHANGED <<serverVars, account, checkpoint, sync>>

Prune(r) ==
  /\ Len(history[r].runs) > 1
  /\ history' = [history EXCEPT ![r].runs = Tail(@)]
  /\ UNCHANGED <<serverVars, clock, account, checkpoint, sync>>

Forget(r) ==
  /\ history[r].runs # <<>>
  /\ history' = [history EXCEPT ![r] = [runs |-> <<>>, index |-> NoIndex]]
  /\ UNCHANGED <<serverVars, clock, account, checkpoint, sync>>

(* A stored document stops decoding.                                       *)
Damage(r) ==
  /\ \E i \in DOMAIN history[r].runs :
       /\ history[r].runs[i].readable
       /\ history' = [history EXCEPT ![r].runs[i].readable = FALSE]
  /\ UNCHANGED <<serverVars, clock, account, checkpoint, sync>>

Login(m, u) ==
  /\ account[m] # u
  /\ account' = [account EXCEPT ![m] = u]
  /\ UNCHANGED <<serverVars, local, checkpoint, sync>>

Logout(m) ==
  /\ account[m] # Nobody
  /\ account' = [account EXCEPT ![m] = Nobody]
  /\ UNCHANGED <<serverVars, local, checkpoint, sync>>

(* LoadState starts afresh when the file is missing or does not decode.    *)
LoseCheckpoint(m) ==
  /\ checkpoint[m] # NoCheckpoint
  /\ checkpoint' = [checkpoint EXCEPT ![m] = NoCheckpoint]
  /\ UNCHANGED <<serverVars, local, account, sync>>

-----------------------------------------------------------------------------
(* The command.                                                            *)

outside == <<orgs, repos, links, local, account, checkpoint>>

Recorded(m) == {r \in RepoID : HomeOf[r] = m /\ history[r].runs # <<>>}

LoggedIn(m) == account[m] # Nobody

(* runSync up to LoadState: a token for whoever is logged in, and the      *)
(* repositories, with --all or the one of the given directory.             *)
Start(p) ==
  LET m == MachineOf[p]
  IN  /\ sync[p].step = "idle"
      /\ begun[p] < Syncs[p]
      /\ begun' = [begun EXCEPT ![p] = @ + 1]
      /\ LoggedIn(m)
      /\ \E todo \in {Recorded(m)} \cup {{r} : r \in Recorded(m)} :
           /\ todo # {}
           /\ sync' = [sync EXCEPT ![p] =
                [step |-> "next", user |-> account[m], as |-> account[m],
                 renewed |-> FALSE, todo |-> todo, repo |-> CHOOSE r \in todo : TRUE,
                 listed |-> [r \in RepoID |-> IF r \in todo THEN LastID(r) ELSE 0],
                 loaded |-> checkpoint[m], pending |-> {}]]
      /\ UNCHANGED <<outside, req>>

Send(p, step, as, call) ==
  /\ req' = [req EXCEPT ![p] = NewRequest(as, call)]
  /\ sync' = [sync EXCEPT ![p].step = step, ![p].as = as, ![p].renewed = FALSE,
                          ![p].repo = call.repo]
  /\ UNCHANGED outside

(* syncRepo gets the client by value: each repository begins with the token*)
(* the command began with.                                                 *)
PutRepo(p) ==
  /\ sync[p].step = "next"
  /\ \E r \in sync[p].todo :
       Send(p, "linking", sync[p].user,
            [op |-> "repo", repo |-> r, origin |-> Remote[r],
             lastRun |-> RunOf(r, sync[p].listed[r])])

Answered(p, step) ==
  /\ sync[p].step = step
  /\ req[p].step = "replied"
  /\ req[p].status = "ok"
  /\ req' = [req EXCEPT ![p] = Quiet]

(* A forgotten repository is not found.                                    *)
Known(r) == history[r].runs # <<>>

(* Faulty variant: runs are pushed up to the one listed at the start only, *)
(* the newest not among them.                                              *)
RunsToSyncBefore(r, after) == {id \in IDs(r) : id > after /\ id # LastID(r)}

(* RunsToSync: those after the checkpoint.                                 *)
RunsToSync(r, after) == {id \in IDs(r) : id > after}

ListRuns(p) ==
  LET r == sync[p].repo
  IN  /\ Answered(p, "linking")
      /\ Known(r)
      /\ sync' = [sync EXCEPT ![p].step = "pushing",
                              ![p].pending = RunsToSync(r, sync[p].loaded[r])]
      /\ UNCHANGED outside

Readable(r, id) ==
  \E run \in ToSet(history[r].runs) : run.id = id /\ run.readable

(* Runs are pushed oldest first.                                           *)
NextRun(p) ==
  CHOOSE id \in sync[p].pending : \A other \in sync[p].pending : id <= other

(* The run's document and findings are read when its turn comes.           *)
PushRun(p) ==
  LET r == sync[p].repo
  IN  /\ sync[p].step = "pushing"
      /\ sync[p].pending # {}
      /\ Readable(r, NextRun(p))
      /\ Send(p, "running", sync[p].as,
              [op |-> "run", repo |-> r, run |-> <<r, NextRun(p)>>])

RunPushed(p) ==
  /\ Answered(p, "running")
  /\ sync' = [sync EXCEPT ![p].step = "pushing", ![p].pending = @ \ {NextRun(p)}]
  /\ UNCHANGED outside

PushStates(p) ==
  /\ sync[p].step = "pushing"
  /\ sync[p].pending = {}
  /\ Known(sync[p].repo)
  /\ Send(p, "stating", sync[p].as,
          [op |-> "states", repo |-> sync[p].repo,
           index |-> history[sync[p].repo].index])

(* Faulty variant: the checkpoint is the newest run there is by now.       *)
CheckpointNow(p) == LastID(sync[p].repo)

(* The checkpoint is the last run as it was listed at the start.           *)
NewCheckpoint(p) == sync[p].listed[sync[p].repo]

RepoDone(p) ==
  LET r == sync[p].repo
  IN  /\ Answered(p, "stating")
      /\ sync' = [sync EXCEPT
           ![p].step = "next", ![p].todo = @ \ {r},
           ![p].loaded[r] = IF NewCheckpoint(p) # 0 THEN NewCheckpoint(p) ELSE @]
      /\ UNCHANGED outside

(* Faulty variant: the repository is tried again.                          *)
GiveUpForNow(p) ==
  /\ req' = [req EXCEPT ![p] = Quiet]
  /\ sync' = [sync EXCEPT ![p].step = "next"]
  /\ UNCHANGED outside

(* The repository is given up, the next one's turn comes.                  *)
GiveUp(p) ==
  /\ req' = [req EXCEPT ![p] = Quiet]
  /\ sync' = [sync EXCEPT ![p].step = "next", ![p].todo = @ \ {sync[p].repo}]
  /\ UNCHANGED outside

Replied(p, status) == req[p].step = "replied" /\ req[p].status = status

(* A document is gone or does not decode, or the repository was forgotten. *)
Unreadable(p) ==
  LET r == sync[p].repo
  IN  /\ \/ /\ sync[p].step = "linking" /\ Replied(p, "ok")
            /\ ~ Known(r)
         \/ /\ sync[p].step = "pushing"
            /\ IF sync[p].pending = {} THEN ~ Known(r)
               ELSE ~ Readable(r, NextRun(p))
      /\ GiveUp(p)

MayRenew(p) == ~ sync[p].renewed /\ LoggedIn(MachineOf[p])

(* doRetry: one retry with the token of whoever is logged in by now.       *)
Renew(p) ==
  /\ Replied(p, "unauthorized")
  /\ MayRenew(p)
  /\ LET u == account[MachineOf[p]]
     IN  /\ req' = [req EXCEPT ![p] = NewRequest(u, req[p].call)]
         /\ sync' = [sync EXCEPT ![p].as = u, ![p].renewed = TRUE]
  /\ UNCHANGED outside

RequestFailed(p) ==
  /\ \/ Replied(p, "unauthorized") /\ ~ MayRenew(p)
     \/ Replied(p, "not found")
     \/ Replied(p, "error")
  /\ GiveUp(p)

(* SaveState, once, whatever failed.                                       *)
Save(p) ==
  /\ sync[p].step = "next"
  /\ sync[p].todo = {}
  /\ checkpoint' = [checkpoint EXCEPT ![MachineOf[p]] = sync[p].loaded]
  /\ sync' = [sync EXCEPT ![p] = Idle]
  /\ UNCHANGED <<serverVars, local, account>>

(* The process dies; the server rolls back what it had begun for it.       *)
Crash(p) ==
  /\ sync[p].step # "idle"
  /\ sync' = [sync EXCEPT ![p] = Idle]
  /\ req' = [req EXCEPT ![p] = Quiet]
  /\ UNCHANGED outside

ClientStep(p) ==
  \/ PutRepo(p) \/ ListRuns(p) \/ PushRun(p) \/ RunPushed(p) \/ PushStates(p)
  \/ RepoDone(p) \/ Unreadable(p) \/ Renew(p) \/ RequestFailed(p) \/ Save(p)

elsewhere == <<local, account, checkpoint, sync, bounds>>

Mishap ==
  \/ \E r \in RepoID : HomeOf[r] \in Eventful /\ (Prune(r) \/ Forget(r) \/ Damage(r))
  \/ \E m \in Eventful, u \in User : Login(m, u)
  \/ \E m \in Eventful : Logout(m) \/ LoseCheckpoint(m)
  \/ \E p \in {q \in Conn : MachineOf[q] \in Eventful} :
       \/ Crash(p)
       \/ /\ Unauthorized(p) \/ FailRequest(p)
          /\ UNCHANGED <<local, account, checkpoint, sync>>

(* The command and the server go on by themselves, one of them at a time,  *)
(* and Postgres serves the transactions waiting for a lock in turn.        *)
Turn(p) ==
  \/ ClientStep(p) /\ UNCHANGED bounds
  \/ ServerStep(p) /\ UNCHANGED elsewhere

Next ==
  \/ \E r \in RepoID : Record(r) /\ UNCHANGED bounds
  \/ \E p \in Conn : Start(p) /\ UNCHANGED mishaps
  \/ \E p \in Conn : Turn(p)
  \/ /\ mishaps < MaxMishaps
     /\ mishaps' = mishaps + 1
     /\ Mishap
     /\ UNCHANGED begun

Fairness == \A p \in Conn : SF_vars(Turn(p))

Spec == Init /\ [][Next]_vars /\ Fairness

-----------------------------------------------------------------------------
TypeOK ==
  /\ ServerTypeOK
  /\ history \in [RepoID -> [runs : Seq(LocalRun), index : Index]]
  /\ clock \in [Machine -> ID]
  /\ account \in [Machine -> User \cup {Nobody}]
  /\ checkpoint \in [Machine -> Checkpoint]
  /\ sync \in [Conn -> {Idle} \cup Command]
  /\ begun \in [Conn -> Nat] /\ mishaps \in 0 .. MaxMishaps

(* "creates the user row and a 1:1 personal org if needed": requests of a  *)
(* new user, from several machines at once, create one organisation.       *)
OnePersonalOrg == \A u \in User : orgs[u] <= 1

(* The runs a machine takes for uploaded.                                  *)
Uploaded(r) == {id \in IDs(r) : id <= checkpoint[HomeOf[r]][r]}

(* No run is skipped by the checkpoint that the server does not hold,      *)
(* whatever failed, crashed, was recorded or was pruned in between.        *)
UploadedIsHeld ==
  \A r \in RepoID : \A id \in Uploaded(r) :
    \E i \in DOMAIN repos : <<r, id>> \in repos[i].runs

(* The rows of u that stand for the repository r is a checkout of.         *)
Rows(u, r) == GetRepoByOrigin(u, Remote[r])

(* The dashboard shows, under the repository r is linked to, every run     *)
(* that r's machine takes for uploaded, unless the remote is unknown or    *)
(* concurrent first syncs have made two rows of it.                        *)
UploadedIsShown ==
  \A r \in RepoID : Remote[r] # "" =>
    \E u \in User :
      \/ Cardinality(Rows(u, r)) > 1
      \/ \A id \in Uploaded(r) : <<r, id>> \in ListRunsByRepo(u, links[u][r])

(* "Already-uploaded runs are skipped": a run that will never be sent again*)
(* is held, and is shown where its repository leads to.                    *)
UploadedIsThere == UploadedIsHeld /\ UploadedIsShown

(* A row's last run opens, unless its machine has forgotten it, or does not*)
(* take it for uploaded yet: the link to the latest run is dead only until *)
(* the sync that set it is repeated.                                       *)
LatestRunOpens ==
  \A u \in User : \A i \in ReposOf(u) :
    LET latest == repos[i].lastRun
    IN  \/ latest = NoRun
        \/ Summary(u, i).latest # {}
        \/ latest[2] \notin Uploaded(latest[1])
        \/ Cardinality(Rows(u, latest[1])) > 1

(* "PutStates replaces the lifecycle index for a repo wholesale": whatever *)
(* of a machine's index is stored in a row is of one state of that index.  *)
IndexIsOfOneRun ==
  \A i \in DOMAIN repos : \A f, g \in Stored(i) :
    LET s == repos[i].states[f]
        t == repos[i].states[g]
    IN  s[1] = t[1] => s = t

(* "Canonical repository: one row per real-world repo per org": the runs   *)
(* of one local repository lie in one row.                                 *)
RunsStayTogether ==
  \A r \in RepoID : \A i, j \in DOMAIN repos :
    /\ repos[i].org = repos[j].org
    /\ \E id \in ID : <<r, id>> \in repos[i].runs
    /\ \E id \in ID : <<r, id>> \in repos[j].runs
    => i = j

(* Every sync comes to its end: no transaction waits for ever for another. *)
SyncEnds == \A p \in Conn : sync[p].step # "idle" ~> sync[p].step = "idle"
=============================================================================
