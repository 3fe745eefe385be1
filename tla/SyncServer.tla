----------------------------- MODULE SyncServer -----------------------------
(* The sync API of the product server and its Postgres store.  A request   *)
(* is authenticated, given the personal organisation of its user, and then *)
(* handled in one or more transactions at READ COMMITTED: each statement   *)
(* sees what was committed when it began, and rows another transaction has *)
(* written make it wait.  One step here is one such statement, or several  *)
(* whose order no other transaction can see.                               *)
(*                                                                         *)
(* A user has at most one organisation, or the oldest counts, so the user  *)
(* stands for it.  A canonical repository is its position in repos.  Rows  *)
(* keep what the sync decides on: names, paths, metadata, timestamps and   *)
(* the content of runs are left out.                                       *)
EXTENDS Naturals, Sequences, FiniteSets

CONSTANTS
  User,         \* the subjects of verified tokens
  Conn,         \* clients, each with at most one request underway
  RepoID,       \* a client's ids of its repositories: external ids
  Run,          \* client run ids
  Fingerprint,
  Origin,       \* remotes, among them ""
  Stamp,        \* values of an entry of the lifecycle index
  MaxRepos      \* bound: canonical repositories ever inserted

ASSUME ServerAssumption == MaxRepos \in Nat

VARIABLES
  orgs,         \* orgs[u] = how many organisations u owns
  repos,        \* the canonical repositories, with their runs and states
  links,        \* links[u][r] = the repository u's external id r is linked to
  req           \* req[c] = the request of c and how far it got

serverVars == <<orgs, repos, links, req>>

NoRow == 0

NoRun == <<>>

Unseen == <<>>

Index == [Fingerprint -> Stamp \cup {Unseen}]

NoIndex == [fp \in Fingerprint |-> Unseen]

Repo == [org : User, origin : Origin, lastRun : Run \cup {NoRun},
         runs : SUBSET Run, states : Index]

Call ==
  [op : {"repo"}, repo : RepoID, origin : Origin, lastRun : Run \cup {NoRun}]
  \cup [op : {"run"}, repo : RepoID, run : Run]
  \cup [op : {"states"}, repo : RepoID, index : Index]

(* gone is what a PutStates transaction has deleted, or is waiting to.     *)
Request ==
  [step : {"sent", "provisioning", "handling", "resolved", "waiting", "deleted"},
   user : User, call : Call, row : 0 .. MaxRepos, gone : SUBSET Fingerprint]

Reply == [step : {"replied"}, status : {"ok", "unauthorized", "not found", "error"},
          call : Call]

Quiet == [step |-> "none"]

InitServer ==
  /\ orgs = [u \in User |-> 0]
  /\ repos = <<>>
  /\ links = [u \in User |-> [r \in RepoID |-> NoRow]]
  /\ req = [c \in Conn |-> Quiet]

NewRequest(user, call) ==
  [step |-> "sent", user |-> user, call |-> call, row |-> NoRow, gone |-> {}]

Answer(c, status) == [step |-> "replied", status |-> status, call |-> req[c].call]

At(c, step, op) == req[c].step = step /\ req[c].call.op = op

-----------------------------------------------------------------------------
(* The queries.                                                            *)

ReposOf(u) == {i \in DOMAIN repos : repos[i].org = u}

GetRepoByOrigin(u, origin) ==
  {i \in ReposOf(u) : origin # "" /\ repos[i].origin = origin}

GetRepoByID(u, i) == ReposOf(u) \cap {i}

GetRepoLinkByExternal(u, r) == GetRepoByID(u, links[u][r])

ListRunsByRepo(u, i) == IF i \in ReposOf(u) THEN repos[i].runs ELSE {}

(* GetRun by the client's id: the row is looked up by repository, and its  *)
(* organisation compared afterwards.                                       *)
GetRun(u, i, run) ==
  {k \in DOMAIN repos : k = i /\ run \in repos[k].runs /\ repos[k].org = u}

ListFindingStatesByRepo(u, i) ==
  {fp \in Fingerprint : i \in ReposOf(u) /\ repos[i].states[fp] # Unseen}

(* The row of ListRepos and GetRepo that the dashboard shows.              *)
Summary(u, i) ==
  [links  |-> {r \in RepoID : links[u][r] = i},
   runs   |-> Cardinality(ListRunsByRepo(u, i)),
   latest |-> GetRun(u, i, repos[i].lastRun)]

-----------------------------------------------------------------------------
(* authmw: the token does not verify, or has expired.                      *)
Unauthorized(c) ==
  /\ req[c].step = "sent"
  /\ req' = [req EXCEPT ![c] = Answer(c, "unauthorized")]
  /\ UNCHANGED <<orgs, repos, links>>

(* Faulty variant: UpsertUser does not touch a user who exists.            *)
UserLockedByNobody(u) == FALSE

(* UpsertUser writes the user's row: a second request of that user waits   *)
(* for the first one's transaction.                                        *)
UserLocked(u) ==
  \E d \in Conn : req[d].step = "provisioning" /\ req[d].user = u

(* orgmw: EnsurePersonalOrg up to GetPersonalOrgForUser.                   *)
EnsurePersonalOrg(c) ==
  /\ req[c].step = "sent"
  /\ ~ UserLocked(req[c].user)
  /\ req' = [req EXCEPT ![c].step =
               IF orgs[req[c].user] = 0 THEN "provisioning" ELSE "handling"]
  /\ UNCHANGED <<orgs, repos, links>>

CreateOrg(c) ==
  /\ req[c].step = "provisioning"
  /\ orgs' = [orgs EXCEPT ![req[c].user] = @ + 1]
  /\ req' = [req EXCEPT ![c].step = "handling"]
  /\ UNCHANGED <<repos, links>>

(* LinkRepo, its first statement: a repository with the same remote, if    *)
(* there is a remote; which one of several is up to the database.          *)
LinkMatch(c) ==
  /\ At(c, "handling", "repo")
  /\ LET found == GetRepoByOrigin(req[c].user, req[c].call.origin)
     IN  \E i \in IF found = {} THEN {NoRow} ELSE found :
           req' = [req EXCEPT ![c].step = "resolved", ![c].row = i]
  /\ UNCHANGED <<orgs, repos, links>>

(* LinkRepo, the rest: InsertRepo or UpdateRepoSynced, UpsertRepoLink.  An *)
(* insert beyond the bound fails.                                          *)
LinkRepo(c) ==
  LET user == req[c].user
      call == req[c].call
      found == req[c].row
      row == IF found # NoRow THEN found ELSE Len(repos) + 1
      new == [org |-> user, origin |-> call.origin, lastRun |-> call.lastRun,
              runs |-> {}, states |-> NoIndex]
  IN  /\ At(c, "resolved", "repo")
      /\ UNCHANGED orgs
      /\ IF row > MaxRepos
         THEN /\ req' = [req EXCEPT ![c] = Answer(c, "error")]
              /\ UNCHANGED <<repos, links>>
         ELSE /\ repos' = IF found = NoRow THEN Append(repos, new)
                          ELSE [repos EXCEPT ![found].origin = call.origin,
                                             ![found].lastRun = call.lastRun]
              /\ links' = [links EXCEPT ![user][call.repo] = row]
              /\ req' = [req EXCEPT ![c] = Answer(c, "ok")]

(* putRun and putStates: ResolveRepoLink, outside the transaction.         *)
ResolveRepoLink(c) ==
  /\ At(c, "handling", "run") \/ At(c, "handling", "states")
  /\ LET found == GetRepoLinkByExternal(req[c].user, req[c].call.repo)
     IN  IF found = {}
         THEN req' = [req EXCEPT ![c] = Answer(c, "not found")]
         ELSE \E i \in found :
                req' = [req EXCEPT ![c].step = "resolved", ![c].row = i]
  /\ UNCHANGED <<orgs, repos, links>>

(* PutRun: the run and its findings are replaced, and the repository's     *)
(* last run is this one.  UpsertRun's row lock makes pushes of one run     *)
(* follow each other.                                                      *)
PutRun(c) ==
  /\ At(c, "resolved", "run")
  /\ GetRepoByID(req[c].user, req[c].row) # {}
  /\ repos' = [repos EXCEPT ![req[c].row].runs = @ \cup {req[c].call.run},
                            ![req[c].row].lastRun = req[c].call.run]
  /\ req' = [req EXCEPT ![c] = Answer(c, "ok")]
  /\ UNCHANGED <<orgs, links>>

-----------------------------------------------------------------------------
(* PutStates deletes the index it sees and inserts the one it was given.   *)

Stored(i) == {fp \in Fingerprint : repos[i].states[fp] # Unseen}

(* Another transaction has deleted some of these rows.                     *)
StatesLocked(i, rows) ==
  \E d \in Conn : /\ req[d].step = "deleted" /\ req[d].row = i
                  /\ req[d].gone \cap rows # {}

(* The DELETE sees the rows committed by now, and takes them or waits.     *)
DeleteStates(c) ==
  /\ At(c, "resolved", "states")
  /\ GetRepoByID(req[c].user, req[c].row) # {}
  /\ req' = [req EXCEPT
               ![c].step = IF StatesLocked(req[c].row, Stored(req[c].row))
                           THEN "waiting" ELSE "deleted",
               ![c].gone = Stored(req[c].row)]
  /\ UNCHANGED <<orgs, repos, links>>

(* The wait is over: rows that another transaction replaced meanwhile are  *)
(* not the rows this DELETE saw, and it passes over them.                  *)
ResumeDelete(c) ==
  /\ At(c, "waiting", "states")
  /\ ~ StatesLocked(req[c].row, req[c].gone)
  /\ req' = [req EXCEPT ![c].step = "deleted"]
  /\ UNCHANGED <<orgs, repos, links>>

Waits(d, i) == req[d].step = "waiting" /\ req[d].row = i

(* Faulty variant: the index given is added to the one there is.           *)
MergedIndex(old, gone, new) ==
  [fp \in Fingerprint |-> IF new[fp] # Unseen THEN new[fp] ELSE old[fp]]

ReplacedIndex(old, gone, new) ==
  [fp \in Fingerprint |->
     IF new[fp] # Unseen THEN new[fp] ELSE IF fp \in gone THEN Unseen ELSE old[fp]]

(* The INSERTs and the commit: the primary key refuses a fingerprint that  *)
(* is still there, and the transaction with it.                            *)
InsertStates(c) ==
  LET i == req[c].row
      new == req[c].call.index
      kept == Stored(i) \ req[c].gone
  IN  /\ At(c, "deleted", "states")
      /\ IF \E fp \in kept : new[fp] # Unseen
         THEN /\ req' = [req EXCEPT ![c] = Answer(c, "error")]
              /\ UNCHANGED repos
         ELSE /\ repos' = [repos EXCEPT ![i].states =
                             ReplacedIndex(@, req[c].gone, new)]
              /\ req' = [d \in Conn |->
                           IF d = c THEN Answer(c, "ok")
                           ELSE IF Waits(d, i)
                           THEN [req[d] EXCEPT !.gone = @ \ req[c].gone] ELSE req[d]]
      /\ UNCHANGED <<orgs, links>>

(* The database or the connection fails: a transaction underway is rolled  *)
(* back, and a reply already given does not arrive.                        *)
FailRequest(c) ==
  /\ req[c].step # "none"
  /\ req[c].step = "replied" => req[c].status # "error"
  /\ req' = [req EXCEPT ![c] = Answer(c, "error")]
  /\ UNCHANGED <<orgs, repos, links>>

ServerStep(c) ==
  \/ EnsurePersonalOrg(c) \/ CreateOrg(c)
  \/ LinkMatch(c) \/ LinkRepo(c) \/ ResolveRepoLink(c) \/ PutRun(c)
  \/ DeleteStates(c) \/ ResumeDelete(c) \/ InsertStates(c)

ServerTypeOK ==
  /\ orgs \in [User -> Nat]
  /\ repos \in Seq(Repo) /\ Len(repos) <= MaxRepos
  /\ links \in [User -> [RepoID -> 0 .. MaxRepos]]
  /\ req \in [Conn -> {Quiet} \cup Reply \cup Request]
=============================================================================
