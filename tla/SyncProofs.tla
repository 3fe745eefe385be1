----------------------------- MODULE SyncProofs -----------------------------
(* The sync of any number of machines, users, repositories and runs: a     *)
(* user gets one organisation, and the checkpoint of a machine passes over *)
(* no run that the server does not hold.                                   *)
EXTENDS Sync, TLAPS, FiniteSetTheorems

(* A request is underway only while the command waits for its answer, and  *)
(* a transaction that replaces an index has found its row.                 *)
Asking(p) ==
  /\ sync[p].step \notin {"linking", "running", "stating"} => req[p] = Quiet
  /\ req[p].step \in {"waiting", "deleted"} => req[p].row \in DOMAIN repos

Typing == TypeOK /\ \A p \in Conn : Asking(p)

Asked == {Quiet} \cup Reply \cup Request

Underway == {"sent", "provisioning", "handling", "resolved", "waiting", "deleted"}

-----------------------------------------------------------------------------
(* Values of requests.                                                     *)
LEMMA RequestUnderway ==
  ASSUME NEW q \in Asked, q.step \in Underway PROVE q \in Request
<1>1. CASE q \in Reply
  BY <1>1 DEF Reply, Underway
<1>2. CASE q = Quiet
  BY <1>2 DEF Quiet, Underway
<1> QED
  BY <1>1, <1>2 DEF Asked

LEMMA RequestReplied ==
  ASSUME NEW q \in Asked, q.step = "replied" PROVE q \in Reply
BY DEF Asked, Request, Quiet

LEMMA RequestCalls ==
  ASSUME NEW q \in Asked, q.step # "none" PROVE q.call \in Call
<1>1. CASE q \in Reply
  BY <1>1 DEF Reply
<1>2. CASE q \in Request
  BY <1>2 DEF Request
<1>3. CASE q = Quiet
  BY <1>3 DEF Quiet
<1> QED
  BY <1>1, <1>2, <1>3 DEF Asked

LEMMA RequestMoves ==
  ASSUME NEW q \in Request, NEW s \in Underway
  PROVE  [q EXCEPT !.step = s] \in Request
BY DEF Request, Underway

LEMMA RequestResolves ==
  ASSUME NEW q \in Request, NEW i \in 0 .. MaxRepos
  PROVE  [q EXCEPT !.step = "resolved", !.row = i] \in Request
BY DEF Request

LEMMA RequestDeletes ==
  ASSUME NEW q \in Request, NEW s \in Underway, NEW gone \in SUBSET Fingerprint
  PROVE  [q EXCEPT !.step = s, !.gone = gone] \in Request
BY DEF Request, Underway

LEMMA RequestPassesOver ==
  ASSUME NEW q \in Request, NEW gone \in SUBSET Fingerprint
  PROVE  [q EXCEPT !.gone = gone] \in Request
BY DEF Request

LEMMA Replies ==
  ASSUME NEW call \in Call, NEW status \in {"ok", "unauthorized", "not found", "error"}
  PROVE  [step |-> "replied", status |-> status, call |-> call] \in Reply
BY DEF Reply

LEMMA Requests ==
  ASSUME NEW call \in Call, NEW u \in User
  PROVE  NewRequest(u, call) \in Request
BY ServerAssumption DEF Request, NewRequest, NoRow

LEMMA CallsOfRuns ==
  ASSUME NEW call \in Call, call.op = "run" PROVE call.repo \in RepoID /\ call.run \in Run
BY DEF Call

LEMMA CallsOfStates ==
  ASSUME NEW call \in Call, call.op = "states"
  PROVE  call.repo \in RepoID /\ call.index \in Index
BY DEF Call

LEMMA CallsOfRepos ==
  ASSUME NEW call \in Call, call.op = "repo"
  PROVE  /\ call.repo \in RepoID /\ call.origin \in Origin
         /\ call.lastRun \in Run \cup {NoRun}
BY DEF Call

(* Rows of the table of repositories.                                      *)
LEMMA RowReplaced ==
  ASSUME NEW rows \in Seq(Repo), NEW i, NEW row \in Repo
  PROVE  /\ [rows EXCEPT ![i] = row] \in Seq(Repo)
         /\ Len([rows EXCEPT ![i] = row]) = Len(rows)
         /\ DOMAIN [rows EXCEPT ![i] = row] = DOMAIN rows
<1> DEFINE new == [rows EXCEPT ![i] = row]
<1>1. rows \in [1 .. Len(rows) -> Repo] /\ Len(rows) \in Nat
  OBVIOUS
<1>2. new \in [1 .. Len(rows) -> Repo]
  BY <1>1
<1> HIDE DEF new
<1>3. new \in Seq(Repo)
  BY <1>1, <1>2
<1>4. Len(new) = Len(rows)
  BY <1>1, <1>2, <1>3
<1> QED
  BY <1>1, <1>2, <1>3, <1>4 DEF new

LEMMA RowLinked ==
  ASSUME NEW row \in Repo, NEW origin \in Origin, NEW run \in Run \cup {NoRun}
  PROVE  [row EXCEPT !.origin = origin, !.lastRun = run] \in Repo
BY DEF Repo

LEMMA RowGetsRun ==
  ASSUME NEW row \in Repo, NEW run \in Run
  PROVE  [row EXCEPT !.runs = row.runs \cup {run}, !.lastRun = run] \in Repo
BY DEF Repo

LEMMA RowGetsStates ==
  ASSUME NEW row \in Repo, NEW states \in Index
  PROVE  [row EXCEPT !.states = states] \in Repo
BY DEF Repo

LEMMA NewRow ==
  ASSUME NEW u \in User, NEW origin \in Origin, NEW run \in Run \cup {NoRun}
  PROVE  [org |-> u, origin |-> origin, lastRun |-> run, runs |-> {}, states |-> NoIndex]
           \in Repo
BY DEF Repo, NoIndex, Index

LEMMA IndexReplaced ==
  ASSUME NEW old \in Index, NEW gone \in SUBSET Fingerprint, NEW new \in Index
  PROVE  ReplacedIndex(old, gone, new) \in Index
BY DEF ReplacedIndex, Index

-----------------------------------------------------------------------------
(* One request moves, and nothing else.                                    *)
LEMMA RequestMovesTyped ==
  ASSUME Typing, NEW c \in Conn, NEW new \in Asked,
         req' = [req EXCEPT ![c] = new],
         new.step \in {"waiting", "deleted"} => new.row \in DOMAIN repos,
         req[c].step # "none",
         UNCHANGED <<orgs, repos, links>>, UNCHANGED elsewhere
  PROVE  Typing'
<1>1. TypeOK /\ req \in [Conn -> Asked] /\ \A p \in Conn : Asking(p)
  BY DEF Typing, TypeOK, ServerTypeOK, Asked
<1>2. req' \in [Conn -> Asked] /\ req'[c] = new /\ \A p \in Conn \ {c} : req'[p] = req[p]
  BY <1>1
<1>3. TypeOK'
  BY <1>1, <1>2 DEF TypeOK, ServerTypeOK, Asked, elsewhere, local, bounds
<1>4. ASSUME NEW p \in Conn PROVE Asking(p)'
  <2>1. sync'[p] = sync[p] /\ repos' = repos /\ Asking(p)
    BY <1>1 DEF elsewhere
  <2>2. CASE p # c
    BY <1>2, <2>1, <2>2 DEF Asking
  <2>3. CASE p = c
    BY <1>2, <2>1, <2>3 DEF Asking, Quiet
  <2> QED
    BY <2>2, <2>3
<1> QED
  BY <1>3, <1>4 DEF Typing

(* Some row is linked, or written, and the request is answered.            *)
LEMMA RowsWrittenTyped ==
  ASSUME Typing, NEW c \in Conn, req[c].step # "none",
         req' \in [Conn -> Asked],
         \A p \in Conn \ {c} : req'[p].step = req[p].step /\ (req[p].step \in Underway => req'[p].row = req[p].row),
         \A p \in Conn \ {c} : req[p] = Quiet => req'[p] = Quiet,
         req'[c].step = "replied",
         orgs' = orgs, links' \in [User -> [RepoID -> 0 .. MaxRepos]],
         repos' \in Seq(Repo), Len(repos') <= MaxRepos, DOMAIN repos \subseteq DOMAIN repos',
         UNCHANGED elsewhere
  PROVE  Typing'
<1>1. TypeOK /\ \A p \in Conn : Asking(p)
  BY DEF Typing
<1>2. TypeOK'
  BY <1>1 DEF TypeOK, ServerTypeOK, Asked, elsewhere, local, bounds
<1>3. ASSUME NEW p \in Conn PROVE Asking(p)'
  <2>1. sync'[p] = sync[p] /\ Asking(p)
    BY <1>1 DEF elsewhere
  <2>2. CASE p # c
    BY <2>1, <2>2 DEF Asking, Underway
  <2>3. CASE p = c
    BY <2>1, <2>3 DEF Asking, Quiet
  <2> QED
    BY <2>2, <2>3
<1> QED
  BY <1>2, <1>3 DEF Typing

LEMMA ServerStepTyped ==
  ASSUME Typing, NEW c \in Conn, ServerStep(c), UNCHANGED elsewhere
  PROVE  Typing'
<1>1. /\ req \in [Conn -> Asked] /\ req[c] \in Asked /\ repos \in Seq(Repo)
      /\ Len(repos) <= MaxRepos /\ links \in [User -> [RepoID -> 0 .. MaxRepos]]
      /\ orgs \in [User -> Nat] /\ DOMAIN repos = 1 .. Len(repos) /\ Len(repos) \in Nat
      /\ \A i \in DOMAIN repos : repos[i] \in Repo
  BY DEF Typing, TypeOK, ServerTypeOK, Asked
<1>2. req[c].step \in Underway
  BY DEF ServerStep, EnsurePersonalOrg, CreateOrg, LinkMatch, LinkRepo, ResolveRepoLink,
         PutRun, DeleteStates, ResumeDelete, InsertStates, At, Underway
<1>3. /\ req[c] \in Request /\ req[c].call \in Call /\ req[c].user \in User
      /\ req[c].row \in 0 .. MaxRepos /\ req[c].gone \in SUBSET Fingerprint
      /\ req[c].step # "none"
  <2>1. req[c] \in Request
    BY <1>1, <1>2, RequestUnderway
  <2> QED
    BY <1>2, <2>1 DEF Request, Underway
<1>4. ASSUME NEW status \in {"ok", "not found", "error"} PROVE Answer(c, status) \in Asked
  BY <1>3, Replies DEF Answer, Asked
<1>5. CASE EnsurePersonalOrg(c)
  <2> DEFINE s == IF orgs[req[c].user] = 0 THEN "provisioning" ELSE "handling"
             new == [req[c] EXCEPT !.step = s]
  <2>1. req' = [req EXCEPT ![c] = new] /\ UNCHANGED <<orgs, repos, links>>
    BY <1>5 DEF EnsurePersonalOrg
  <2>2. new \in Request /\ new.step \notin {"waiting", "deleted"}
    BY <1>3, RequestMoves DEF Underway, Request
  <2> HIDE DEF new
  <2> QED
    BY <1>3, <2>1, <2>2, RequestMovesTyped DEF Asked
<1>6. CASE CreateOrg(c)
  <2> DEFINE new == [req[c] EXCEPT !.step = "handling"]
  <2>1. req' = [req EXCEPT ![c] = new] /\ UNCHANGED <<repos, links>>
        /\ orgs' = [orgs EXCEPT ![req[c].user] = @ + 1]
    BY <1>6 DEF CreateOrg
  <2>2. new \in Asked /\ new.step = "handling"
    BY <1>3, RequestMoves DEF Underway, Request, Asked
  <2> HIDE DEF new
  <2>3. /\ req' \in [Conn -> Asked] /\ req'[c] = new
        /\ \A p \in Conn \ {c} : req'[p] = req[p]
        /\ orgs' \in [User -> Nat]
    BY <1>1, <1>3, <2>1, <2>2
  <2>4. TypeOK'
    BY <1>1, <2>1, <2>3 DEF Typing, TypeOK, ServerTypeOK, Asked, elsewhere, local, bounds
  <2>5. ASSUME NEW p \in Conn PROVE Asking(p)'
    <3>1. sync'[p] = sync[p] /\ Asking(p)
      BY DEF elsewhere, Typing
    <3> QED
      BY <1>3, <2>1, <2>2, <2>3, <3>1 DEF Asking, Quiet
  <2> QED
    BY <2>4, <2>5 DEF Typing
<1>7. CASE LinkMatch(c) \/ ResolveRepoLink(c)
  <2>1. UNCHANGED <<orgs, repos, links>>
    BY <1>7 DEF LinkMatch, ResolveRepoLink
  <2>2. \/ req' = [req EXCEPT ![c] = Answer(c, "not found")]
        \/ \E i \in 0 .. MaxRepos :
             req' = [req EXCEPT ![c] = [req[c] EXCEPT !.step = "resolved", !.row = i]]
    <3>1. \A S \in SUBSET DOMAIN repos : S \subseteq 0 .. MaxRepos
      BY <1>1, ServerAssumption
    <3>2. CASE LinkMatch(c)
      <4> DEFINE found == GetRepoByOrigin(req[c].user, req[c].call.origin)
      <4>1. found \subseteq DOMAIN repos
        BY DEF GetRepoByOrigin, ReposOf
      <4>2. (IF found = {} THEN {NoRow} ELSE found) \subseteq 0 .. MaxRepos
        BY <3>1, <4>1, ServerAssumption DEF NoRow
      <4>3. PICK i \in IF found = {} THEN {NoRow} ELSE found :
              req' = [req EXCEPT ![c].step = "resolved", ![c].row = i]
        BY <3>2 DEF LinkMatch
      <4> QED
        BY <4>2, <4>3
    <3>3. CASE ResolveRepoLink(c)
      <4> DEFINE found == GetRepoLinkByExternal(req[c].user, req[c].call.repo)
      <4>1. found \subseteq DOMAIN repos
        BY DEF GetRepoLinkByExternal, GetRepoByID, ReposOf
      <4>2. CASE found = {}
        BY <3>3, <4>2 DEF ResolveRepoLink
      <4>3. CASE found # {}
        <5>1. PICK i \in found : req' = [req EXCEPT ![c].step = "resolved", ![c].row = i]
          BY <3>3, <4>3 DEF ResolveRepoLink
        <5> QED
          BY <3>1, <4>1, <5>1
      <4> QED
        BY <4>2, <4>3
    <3> QED
      BY <1>7, <3>2, <3>3
  <2>3. CASE req' = [req EXCEPT ![c] = Answer(c, "not found")]
    <3>1. Answer(c, "not found").step \notin {"waiting", "deleted"}
      BY DEF Answer
    <3> QED
      BY <1>3, <1>4, <2>1, <2>3, <3>1, RequestMovesTyped
  <2>4. ASSUME NEW i \in 0 .. MaxRepos,
               req' = [req EXCEPT ![c] = [req[c] EXCEPT !.step = "resolved", !.row = i]]
        PROVE  Typing'
    <3> DEFINE new == [req[c] EXCEPT !.step = "resolved", !.row = i]
    <3>1. new \in Asked /\ new.step = "resolved"
      BY <1>3, RequestResolves DEF Asked, Request
    <3>2. req' = [req EXCEPT ![c] = new]
      BY <2>4
    <3> HIDE DEF new
    <3> QED
      BY <1>3, <2>1, <3>1, <3>2, RequestMovesTyped
  <2> QED
    BY <2>2, <2>3, <2>4
<1>8. CASE LinkRepo(c)
  <2> DEFINE user == req[c].user
             call == req[c].call
             found == req[c].row
             row == IF found # NoRow THEN found ELSE Len(repos) + 1
             new == [org |-> user, origin |-> call.origin, lastRun |-> call.lastRun,
                     runs |-> {}, states |-> NoIndex]
  <2>1. /\ call.op = "repo" /\ call.repo \in RepoID /\ call.origin \in Origin
        /\ call.lastRun \in Run \cup {NoRun}
    BY <1>3, <1>8, CallsOfRepos DEF LinkRepo, At
  <2>2. CASE row > MaxRepos
    <3>1. req' = [req EXCEPT ![c] = Answer(c, "error")] /\ UNCHANGED <<orgs, repos, links>>
      BY <1>8, <2>2 DEF LinkRepo
    <3>2. Answer(c, "error").step \notin {"waiting", "deleted"}
      BY DEF Answer
    <3> QED
      BY <1>3, <1>4, <3>1, <3>2, RequestMovesTyped
  <2>3. CASE ~ (row > MaxRepos)
    <3>1. /\ orgs' = orgs
          /\ repos' = IF found = NoRow THEN Append(repos, new)
                      ELSE [repos EXCEPT ![found].origin = call.origin,
                                         ![found].lastRun = call.lastRun]
          /\ links' = [links EXCEPT ![user][call.repo] = row]
          /\ req' = [req EXCEPT ![c] = Answer(c, "ok")]
      BY <1>8, <2>3 DEF LinkRepo
    <3>2. row \in 0 .. MaxRepos
      BY <1>1, <1>3, <2>3, ServerAssumption DEF NoRow
    <3>3. links' \in [User -> [RepoID -> 0 .. MaxRepos]]
      BY <1>1, <1>3, <2>1, <3>1, <3>2
    <3>4. /\ repos' \in Seq(Repo) /\ Len(repos') <= MaxRepos
          /\ DOMAIN repos \subseteq DOMAIN repos'
      <4>1. CASE found = NoRow
        <5>1. new \in Repo
          BY <1>3, <2>1, NewRow
        <5>2. row = Len(repos) + 1 /\ repos' = Append(repos, new)
          BY <3>1, <4>1
        <5> HIDE DEF new
        <5> QED
          BY <1>1, <3>2, <5>1, <5>2, ServerAssumption
      <4>2. CASE found # NoRow
        <5> DEFINE linked == [repos[found] EXCEPT !.origin = call.origin,
                                                  !.lastRun = call.lastRun]
        <5>1. repos' = [repos EXCEPT ![found] = linked]
          BY <3>1, <4>2
        <5>2. CASE found \in DOMAIN repos
          <6>1. linked \in Repo
            BY <1>1, <2>1, <5>2, RowLinked
          <6> HIDE DEF linked
          <6> QED
            BY <1>1, <5>1, <6>1, RowReplaced
        <5>3. CASE found \notin DOMAIN repos
          <6>1. repos' = repos
            BY <1>1, <5>1, <5>3
          <6> QED
            BY <1>1, <6>1
        <5> QED
          BY <5>2, <5>3
      <4> QED
        BY <4>1, <4>2
    <3>5. /\ req' \in [Conn -> Asked] /\ req'[c].step = "replied"
          /\ \A p \in Conn \ {c} : req'[p] = req[p]
      BY <1>1, <1>4, <3>1 DEF Answer
    <3> QED
      BY <1>3, <3>1, <3>3, <3>4, <3>5, RowsWrittenTyped
  <2> QED
    BY <2>2, <2>3
<1>9. CASE PutRun(c)
  <2> DEFINE i == req[c].row
             run == req[c].call.run
             new == [repos[i] EXCEPT !.runs = repos[i].runs \cup {run}, !.lastRun = run]
  <2>1. /\ run \in Run /\ i \in DOMAIN repos
        /\ repos' = [repos EXCEPT ![i] = new]
        /\ req' = [req EXCEPT ![c] = Answer(c, "ok")] /\ UNCHANGED <<orgs, links>>
    BY <1>3, <1>9, CallsOfRuns DEF PutRun, At, GetRepoByID, ReposOf
  <2>2. new \in Repo
    BY <1>1, <2>1, RowGetsRun
  <2> HIDE DEF new
  <2>3. /\ repos' \in Seq(Repo) /\ Len(repos') = Len(repos) /\ DOMAIN repos' = DOMAIN repos
    BY <1>1, <2>1, <2>2, RowReplaced
  <2>4. /\ req' \in [Conn -> Asked] /\ req'[c].step = "replied"
        /\ \A p \in Conn \ {c} : req'[p] = req[p]
    BY <1>1, <1>4, <2>1 DEF Answer
  <2> QED
    BY <1>1, <1>3, <2>1, <2>3, <2>4, RowsWrittenTyped
<1>10. CASE DeleteStates(c)
  <2> DEFINE i == req[c].row
             s == IF StatesLocked(i, Stored(i)) THEN "waiting" ELSE "deleted"
             new == [req[c] EXCEPT !.step = s, !.gone = Stored(i)]
  <2>1. /\ req' = [req EXCEPT ![c] = new] /\ UNCHANGED <<orgs, repos, links>>
        /\ i \in DOMAIN repos
    BY <1>10 DEF DeleteStates, GetRepoByID, ReposOf
  <2>2. new \in Request /\ new.row = i
    BY <1>3, RequestDeletes DEF Stored, Underway, Request
  <2> HIDE DEF new
  <2> QED
    BY <1>3, <2>1, <2>2, RequestMovesTyped DEF Asked
<1>11. CASE ResumeDelete(c)
  <2> DEFINE new == [req[c] EXCEPT !.step = "deleted"]
  <2>1. /\ req' = [req EXCEPT ![c] = new] /\ UNCHANGED <<orgs, repos, links>>
        /\ req[c].row \in DOMAIN repos
    BY <1>11 DEF ResumeDelete, At, Typing, Asking
  <2>2. new \in Request /\ new.row = req[c].row
    BY <1>3, RequestMoves DEF Underway, Request
  <2> HIDE DEF new
  <2> QED
    BY <1>3, <2>1, <2>2, RequestMovesTyped DEF Asked
<1>12. CASE InsertStates(c)
  <2> DEFINE i == req[c].row
             index == req[c].call.index
             states == ReplacedIndex(repos[i].states, req[c].gone, index)
             new == [repos[i] EXCEPT !.states = states]
  <2>1. index \in Index /\ i \in DOMAIN repos
    BY <1>3, <1>12, CallsOfStates DEF InsertStates, At, Typing, Asking
  <2>2. CASE req' = [req EXCEPT ![c] = Answer(c, "error")] /\ UNCHANGED <<orgs, repos, links>>
    <3>1. Answer(c, "error").step \notin {"waiting", "deleted"}
      BY DEF Answer
    <3> QED
      BY <1>3, <1>4, <2>2, <3>1, RequestMovesTyped
  <2>3. CASE /\ repos' = [repos EXCEPT ![i] = new] /\ UNCHANGED <<orgs, links>>
             /\ req' = [d \in Conn |->
                          IF d = c THEN Answer(c, "ok")
                          ELSE IF Waits(d, i)
                          THEN [req[d] EXCEPT !.gone = @ \ req[c].gone] ELSE req[d]]
    <3>1. states \in Index
      BY <1>1, <1>3, <2>1, IndexReplaced DEF Repo
    <3> HIDE DEF states
    <3>2. new \in Repo
      BY <1>1, <2>1, <3>1, RowGetsStates
    <3> HIDE DEF new
    <3>3. /\ repos' \in Seq(Repo) /\ Len(repos') = Len(repos) /\ DOMAIN repos' = DOMAIN repos
      BY <1>1, <2>3, <3>2, RowReplaced
    <3>4. req'[c] \in Asked /\ req'[c].step = "replied"
      BY <1>4, <2>3 DEF Answer
    <3>5. ASSUME NEW d \in Conn \ {c}
          PROVE  /\ req'[d] \in Asked /\ req'[d].step = req[d].step
                 /\ req[d].step \in Underway => req'[d].row = req[d].row
                 /\ req[d] = Quiet => req'[d] = Quiet
      <4>1. CASE Waits(d, i)
        <5>1. req[d] \in Request
          BY <1>1, <4>1, RequestUnderway DEF Waits, Underway
        <5>2. req'[d] = [req[d] EXCEPT !.gone = @ \ req[c].gone]
          BY <2>3, <4>1
        <5>3. req[d].gone \ req[c].gone \in SUBSET Fingerprint
          BY <5>1 DEF Request
        <5>4. req'[d] \in Request
          BY <5>1, <5>2, <5>3, RequestPassesOver
        <5>5. req'[d].step = req[d].step /\ req'[d].row = req[d].row
          BY <5>1, <5>2 DEF Request
        <5> QED
          BY <4>1, <5>4, <5>5 DEF Asked, Waits, Quiet
      <4>2. CASE ~ Waits(d, i)
        BY <1>1, <2>3, <4>2
      <4> QED
        BY <4>1, <4>2
    <3>6. req' \in [Conn -> Asked]
      BY <2>3, <3>4, <3>5
    <3> QED
      BY <1>1, <1>3, <2>3, <3>3, <3>4, <3>5, <3>6, RowsWrittenTyped
  <2> QED
    BY <1>12, <2>2, <2>3 DEF InsertStates
<1> QED
  BY <1>5, <1>6, <1>7, <1>8, <1>9, <1>10, <1>11, <1>12 DEF ServerStep

-----------------------------------------------------------------------------
(* Values of commands.                                                     *)
Steps == {"next", "linking", "pushing", "running", "stating"}

LEMMA CommandGoesOn ==
  ASSUME NEW c \in {Idle} \cup Command, c.step \in Steps PROVE c \in Command
BY DEF Idle, Steps

LEMMA CommandSends ==
  ASSUME NEW c \in Command, NEW s \in Steps, NEW u \in User, NEW r \in RepoID
  PROVE  [c EXCEPT !.step = s, !.as = u, !.renewed = FALSE, !.repo = r] \in Command
BY DEF Command, Steps

LEMMA CommandPends ==
  ASSUME NEW c \in Command, NEW pending \in SUBSET ID
  PROVE  [c EXCEPT !.step = "pushing", !.pending = pending] \in Command
BY DEF Command

LEMMA CommandIsDone ==
  ASSUME NEW c \in Command, NEW todo \in SUBSET RepoID, NEW loaded \in Checkpoint
  PROVE  [c EXCEPT !.step = "next", !.todo = todo, !.loaded = loaded] \in Command
BY DEF Command

LEMMA CommandGivesUp ==
  ASSUME NEW c \in Command, NEW todo \in SUBSET RepoID
  PROVE  [c EXCEPT !.step = "next", !.todo = todo] \in Command
BY DEF Command

LEMMA CommandRenews ==
  ASSUME NEW c \in Command, NEW u \in User
  PROVE  [c EXCEPT !.as = u, !.renewed = TRUE] \in Command
BY DEF Command

LEMMA CommandStarts ==
  ASSUME NEW u \in User, NEW todo \in SUBSET RepoID, NEW r \in RepoID,
         NEW listed \in Checkpoint, NEW loaded \in Checkpoint
  PROVE  [step |-> "next", user |-> u, as |-> u, renewed |-> FALSE, todo |-> todo,
          repo |-> r, listed |-> listed, loaded |-> loaded, pending |-> {}] \in Command
BY DEF Command

-----------------------------------------------------------------------------
(* One command moves, with its request, and maybe saves.                   *)
LEMMA CommandMovesTyped ==
  ASSUME Typing, NEW p \in Conn, NEW new \in {Idle} \cup Command, NEW q \in Asked,
         sync' = [sync EXCEPT ![p] = new], req' = [req EXCEPT ![p] = q],
         new.step \notin {"linking", "running", "stating"} => q = Quiet,
         q.step \notin {"waiting", "deleted"},
         UNCHANGED <<orgs, repos, links, local, account>>,
         checkpoint' \in [Machine -> Checkpoint],
         begun' \in [Conn -> Nat], mishaps' \in 0 .. MaxMishaps
  PROVE  Typing'
<1>1. TypeOK /\ \A c \in Conn : Asking(c)
  BY DEF Typing
<1>2. /\ sync' \in [Conn -> {Idle} \cup Command] /\ sync'[p] = new
      /\ req' \in [Conn -> Asked] /\ req'[p] = q
      /\ \A c \in Conn \ {p} : sync'[c] = sync[c] /\ req'[c] = req[c]
  BY <1>1 DEF TypeOK, ServerTypeOK, Asked
<1>3. TypeOK'
  BY <1>1, <1>2 DEF TypeOK, ServerTypeOK, Asked, local
<1>4. ASSUME NEW c \in Conn PROVE Asking(c)'
  BY <1>1, <1>2 DEF Asking
<1> QED
  BY <1>3, <1>4 DEF Typing

LEMMA HistoryMovesTyped ==
  ASSUME Typing, UNCHANGED <<serverVars, sync>>,
         history' \in [RepoID -> [runs : Seq(LocalRun), index : Index]],
         clock' \in [Machine -> ID], account' \in [Machine -> User \cup {Nobody}],
         checkpoint' \in [Machine -> Checkpoint],
         begun' \in [Conn -> Nat], mishaps' \in 0 .. MaxMishaps
  PROVE  Typing'
BY DEF Typing, TypeOK, ServerTypeOK, serverVars, Asking

LEMMA InitTyped == Init => Typing
<1> SUFFICES ASSUME Init PROVE Typing
  OBVIOUS
<1>1. NoIndex \in Index /\ NoCheckpoint \in Checkpoint
  BY SyncAssumption DEF NoIndex, Index, NoCheckpoint, Checkpoint, ID
<1>2. ServerTypeOK
  BY ServerAssumption DEF Init, InitServer, ServerTypeOK, NoRow
<1>3. history \in [RepoID -> [runs : Seq(LocalRun), index : Index]]
  BY <1>1 DEF Init
<1>4. TypeOK
  BY <1>1, <1>2, <1>3, SyncAssumption DEF Init, TypeOK, ID
<1> QED
  BY <1>4 DEF Typing, Asking, Init, InitServer, Quiet

LEMMA IDsOfRuns ==
  ASSUME NEW runs \in Seq(LocalRun) PROVE \A run \in ToSet(runs) : run.id \in ID \ {0}
<1>1. \A i \in DOMAIN runs : runs[i] \in LocalRun
  OBVIOUS
<1>2. \A run \in LocalRun : run.id \in ID \ {0}
  BY DEF LocalRun
<1> QED
  BY <1>1, <1>2 DEF ToSet

LEMMA ClientStepTyped ==
  ASSUME Typing, NEW p \in Conn, ClientStep(p), UNCHANGED bounds
  PROVE  Typing'
<1> DEFINE c == sync[p]
<1>1. /\ sync \in [Conn -> {Idle} \cup Command] /\ req \in [Conn -> Asked]
      /\ account \in [Machine -> User \cup {Nobody}] /\ checkpoint \in [Machine -> Checkpoint]
      /\ Asking(p) /\ begun' \in [Conn -> Nat] /\ mishaps' \in 0 .. MaxMishaps
      /\ Quiet \in Asked /\ Quiet.step = "none" /\ checkpoint \in [Machine -> Checkpoint]
  BY DEF Typing, TypeOK, ServerTypeOK, Asked, bounds, Quiet
<1>2. c.step \in Steps
  <2>1. c.step # "idle"
    <3>1. CASE Renew(p) \/ RequestFailed(p)
      <4>1. req[p].step = "replied"
        BY <3>1 DEF Renew, RequestFailed, Replied
      <4>2. req[p] # Quiet
        BY <1>1, <4>1
      <4> QED
        BY <1>1, <4>2 DEF Asking
    <3>2. CASE PutRepo(p) \/ PushRun(p) \/ PushStates(p) \/ Save(p) \/ Unreadable(p)
      BY <3>2 DEF PutRepo, PushRun, PushStates, Save, Unreadable
    <3>3. CASE ListRuns(p) \/ RunPushed(p) \/ RepoDone(p)
      BY <3>3 DEF ListRuns, RunPushed, RepoDone, Answered
    <3> QED
      BY <3>1, <3>2, <3>3 DEF ClientStep
  <2> QED
    BY <1>1, <2>1 DEF Command, Idle, Steps
<1>3. c \in Command /\ c.repo \in RepoID /\ c.todo \subseteq RepoID /\ c.as \in User
      /\ c.user \in User /\ c.listed \in Checkpoint /\ c.loaded \in Checkpoint
      /\ c.pending \subseteq ID
  <2>1. c \in Command
    BY <1>1, <1>2, CommandGoesOn
  <2> QED
    BY <2>1 DEF Command
<1>4. ASSUME NEW new \in Command, NEW q \in Asked,
             sync' = [sync EXCEPT ![p] = new], req' = [req EXCEPT ![p] = q],
             new.step \in {"linking", "running", "stating"} \/ q = Quiet,
             q.step \notin {"waiting", "deleted"}, UNCHANGED outside
      PROVE  Typing'
  BY <1>1, <1>4, CommandMovesTyped DEF outside
<1>5. ASSUME NEW step \in {"linking", "running", "stating"}, NEW as \in User,
             NEW call \in Call, Send(p, step, as, call)
      PROVE  Typing'
  <2> DEFINE new == [c EXCEPT !.step = step, !.as = as, !.renewed = FALSE, !.repo = call.repo]
  <2>1. call.repo \in RepoID
    BY DEF Call
  <2>2. new \in Command /\ new.step = step
    <3>1. c \in Command /\ step \in Steps
      BY <1>3 DEF Steps
    <3>2. new \in Command
      BY <2>1, <3>1, CommandSends
    <3>3. "step" \in DOMAIN c
      BY <3>1 DEF Command
    <3> QED
      BY <3>2, <3>3
  <2>3. /\ sync' = [sync EXCEPT ![p] = new] /\ req' = [req EXCEPT ![p] = NewRequest(as, call)]
        /\ UNCHANGED outside
    BY <1>5 DEF Send
  <2>4. NewRequest(as, call) \in Asked /\ NewRequest(as, call).step = "sent"
    BY Requests DEF Asked, NewRequest
  <2> HIDE DEF new
  <2> QED
    BY <1>4, <2>2, <2>3, <2>4
<1>6. \A r \in RepoID, id \in ID : <<r, id>> \in Run /\ RunOf(r, id) \in Run \cup {NoRun}
  BY SyncAssumption DEF RunOf
<1>7. CASE PutRepo(p)
  <2>1. PICK r \in c.todo :
          Send(p, "linking", c.user,
               [op |-> "repo", repo |-> r, origin |-> Remote[r],
                lastRun |-> RunOf(r, c.listed[r])])
    BY <1>7 DEF PutRepo
  <2>2. r \in RepoID /\ c.listed[r] \in ID /\ Remote[r] \in Origin
    BY <1>3, <2>1, SyncAssumption DEF Checkpoint
  <2>3. RunOf(r, c.listed[r]) \in Run \cup {NoRun}
    BY <1>6, <2>2
  <2>4. [op |-> "repo", repo |-> r, origin |-> Remote[r],
         lastRun |-> RunOf(r, c.listed[r])] \in Call
    BY <2>2, <2>3 DEF Call
  <2> QED
    BY <1>3, <1>5, <2>1, <2>4
<1>8. CASE ListRuns(p)
  <2> DEFINE new == [c EXCEPT !.step = "pushing", !.pending = RunsToSync(c.repo, c.loaded[c.repo])]
  <2>1. RunsToSync(c.repo, c.loaded[c.repo]) \subseteq ID
    <3>1. history[c.repo].runs \in Seq(LocalRun)
      BY <1>3 DEF Typing, TypeOK
    <3>3. IDs(c.repo) \subseteq ID
      BY <3>1, IDsOfRuns DEF IDs
    <3> QED
      BY <3>3 DEF RunsToSync
  <2>2. new \in Command
    BY <1>3, <2>1, CommandPends
  <2>3. /\ sync' = [sync EXCEPT ![p] = new] /\ req' = [req EXCEPT ![p] = Quiet]
        /\ UNCHANGED outside
    BY <1>8 DEF ListRuns, Answered
  <2> HIDE DEF new
  <2> QED
    BY <1>1, <1>4, <2>2, <2>3
<1>9. CASE PushRun(p)
  <2> DEFINE call == [op |-> "run", repo |-> c.repo, run |-> <<c.repo, NextRun(p)>>]
  <2>1. Send(p, "running", c.as, call) /\ Readable(c.repo, NextRun(p))
    BY <1>9 DEF PushRun
  <2>2. NextRun(p) \in ID
    <3>1. history[c.repo].runs \in Seq(LocalRun)
      BY <1>3 DEF Typing, TypeOK
    <3> QED
      BY <2>1, <3>1, IDsOfRuns DEF Readable
  <2>3. call \in Call
    BY <1>3, <1>6, <2>2 DEF Call
  <2> HIDE DEF call
  <2> QED
    BY <1>3, <1>5, <2>1, <2>3
<1>10. CASE RunPushed(p)
  <2> DEFINE new == [c EXCEPT !.step = "pushing", !.pending = c.pending \ {NextRun(p)}]
  <2>1. new \in Command
    BY <1>3, CommandPends
  <2>2. /\ sync' = [sync EXCEPT ![p] = new] /\ req' = [req EXCEPT ![p] = Quiet]
        /\ UNCHANGED outside
    BY <1>10 DEF RunPushed, Answered
  <2> HIDE DEF new
  <2> QED
    BY <1>1, <1>4, <2>1, <2>2
<1>11. CASE PushStates(p)
  <2> DEFINE call == [op |-> "states", repo |-> c.repo, index |-> history[c.repo].index]
  <2>1. Send(p, "stating", c.as, call)
    BY <1>11 DEF PushStates
  <2>2. history[c.repo].index \in Index
    BY <1>3 DEF Typing, TypeOK
  <2>3. call \in Call
    BY <1>3, <2>2 DEF Call
  <2> HIDE DEF call
  <2> QED
    BY <1>3, <1>5, <2>1, <2>3
<1>12. CASE RepoDone(p)
  <2> DEFINE r == c.repo
             to == IF NewCheckpoint(p) # 0 THEN NewCheckpoint(p) ELSE c.loaded[r]
             loaded == [c.loaded EXCEPT ![r] = to]
             new == [c EXCEPT !.step = "next", !.todo = c.todo \ {r}, !.loaded = loaded]
  <2>1. loaded \in Checkpoint
    BY <1>3 DEF NewCheckpoint, Checkpoint
  <2>2. sync' = [sync EXCEPT ![p].step = "next", ![p].todo = @ \ {r}, ![p].loaded[r] = to]
        /\ req' = [req EXCEPT ![p] = Quiet] /\ UNCHANGED outside
    BY <1>12 DEF RepoDone, Answered
  <2> HIDE DEF to
  <2>3. sync' = [sync EXCEPT ![p] = new]
    BY <1>1, <2>2, ZenonT(40) DEF Command
  <2> HIDE DEF loaded
  <2>4. new \in Command
    BY <1>3, <2>1, CommandIsDone
  <2> HIDE DEF new
  <2> QED
    BY <1>1, <1>4, <2>2, <2>3, <2>4
<1>13. CASE Unreadable(p) \/ RequestFailed(p)
  <2> DEFINE new == [c EXCEPT !.step = "next", !.todo = c.todo \ {c.repo}]
  <2>1. GiveUp(p)
    BY <1>13 DEF Unreadable, RequestFailed
  <2>2. /\ sync' = [sync EXCEPT ![p] = new] /\ req' = [req EXCEPT ![p] = Quiet]
        /\ UNCHANGED outside
    BY <2>1 DEF GiveUp
  <2>3. new \in Command
    BY <1>3, CommandGivesUp
  <2> HIDE DEF new
  <2> QED
    BY <1>1, <1>4, <2>2, <2>3
<1>14. CASE Renew(p)
  <2> DEFINE u == account[MachineOf[p]]
             new == [c EXCEPT !.as = u, !.renewed = TRUE]
             q == NewRequest(u, req[p].call)
  <2>1. /\ sync' = [sync EXCEPT ![p] = new] /\ req' = [req EXCEPT ![p] = q]
        /\ UNCHANGED outside /\ req[p].step = "replied" /\ u # Nobody
    BY <1>14 DEF Renew, Replied, MayRenew, LoggedIn
  <2>2. u \in User
    BY <1>1, <2>1, SyncAssumption
  <2>3. req[p].call \in Call
    BY <1>1, <2>1, RequestCalls
  <2>4. q \in Asked /\ q.step = "sent"
    BY <2>2, <2>3, Requests DEF Asked, NewRequest
  <2>5. new \in Command /\ new.step = c.step
    BY <1>3, <2>2, CommandRenews DEF Command
  <2>6. c.step \in {"linking", "running", "stating"}
    BY <1>1, <2>1 DEF Asking, Quiet
  <2> HIDE DEF new, q
  <2> QED
    BY <1>4, <2>1, <2>4, <2>5, <2>6
<1>15. CASE Save(p)
  <2>1. /\ checkpoint' = [checkpoint EXCEPT ![MachineOf[p]] = c.loaded]
        /\ sync' = [sync EXCEPT ![p] = Idle] /\ req' = [req EXCEPT ![p] = Quiet]
        /\ UNCHANGED <<orgs, repos, links, local, account>>
    <3>1. req[p] = Quiet
      BY <1>1, <1>15 DEF Save, Asking
    <3> QED
      BY <1>1, <1>15, <3>1 DEF Save, serverVars
  <2>2. checkpoint' \in [Machine -> Checkpoint]
    BY <1>1, <1>3, <2>1
  <2> QED
    BY <1>1, <2>1, <2>2, CommandMovesTyped
<1> QED
  BY <1>7, <1>8, <1>9, <1>10, <1>11, <1>12, <1>13, <1>14, <1>15 DEF ClientStep

-----------------------------------------------------------------------------
(* What a step does to the local history of one repository.                *)
LEMMA RunRecorded ==
  ASSUME Typing, NEW r \in RepoID, Record(r)
  PROVE  /\ clock' = [clock EXCEPT ![HomeOf[r]] = clock[HomeOf[r]] + 1]
         /\ clock[HomeOf[r]] + 1 \in ID \ {0}
         /\ \A s \in RepoID \ {r} : history'[s] = history[s]
         /\ history'[r].runs =
              Append(history[r].runs, [id |-> clock[HomeOf[r]] + 1, readable |-> TRUE])
         /\ history' \in [RepoID -> [runs : Seq(LocalRun), index : Index]]
<1> DEFINE m == HomeOf[r]
           id == clock[m] + 1
<1>1. /\ history \in [RepoID -> [runs : Seq(LocalRun), index : Index]] /\ m \in Machine
      /\ clock \in [Machine -> ID] /\ clock[m] < Scans[m] /\ Scans[m] \in ID
  BY SyncAssumption DEF Typing, TypeOK, Record
<1>2. id \in ID \ {0}
  BY <1>1, SyncAssumption DEF ID
<1>3. PICK reported \in Reports[id] :
        history' = [history EXCEPT
             ![r].runs = Append(@, [id |-> id, readable |-> TRUE]),
             ![r].index = [fp \in Fingerprint |->
                             IF fp \in reported \/ @[fp] # Unseen
                             THEN <<r, id>> ELSE Unseen]]
  BY DEF Record
<1>4. /\ \A s \in RepoID \ {r} : history'[s] = history[s]
      /\ history'[r].runs = Append(history[r].runs, [id |-> id, readable |-> TRUE])
  BY <1>1, <1>3
<1>5. /\ history'[r].index \in Index
      /\ history'[r] = [runs |-> history'[r].runs, index |-> history'[r].index]
      /\ DOMAIN history' = RepoID
  <2> DEFINE index == [fp \in Fingerprint |->
                         IF fp \in reported \/ history[r].index[fp] # Unseen
                         THEN <<r, id>> ELSE Unseen]
  <2>1. history'[r].index = index
    BY <1>1, <1>3
  <2>2. <<r, id>> \in Stamp
    BY <1>2, SyncAssumption
  <2>3. index \in Index
    BY <2>2 DEF Index
  <2> QED
    BY <1>1, <1>3, <2>1, <2>3
<1>6. history'[r].runs \in Seq(LocalRun)
  <2>1. [id |-> id, readable |-> TRUE] \in LocalRun
    BY <1>2 DEF LocalRun
  <2> QED
    BY <1>1, <1>4, <2>1
<1>7. history'[r] \in [runs : Seq(LocalRun), index : Index]
  BY <1>5, <1>6
<1>8. ASSUME NEW s \in RepoID \ {r}
      PROVE  history'[s] \in [runs : Seq(LocalRun), index : Index]
  BY <1>1, <1>4
<1>9. history' = [s \in RepoID |-> history'[s]]
  BY <1>1, <1>3
<1>10. history' \in [RepoID -> [runs : Seq(LocalRun), index : Index]]
  BY <1>7, <1>8, <1>9
<1>11. clock' = [clock EXCEPT ![m] = id]
  BY DEF Record
<1> QED
  BY <1>2, <1>4, <1>10, <1>11

LEMMA RunsLost ==
  ASSUME Typing, NEW r \in RepoID, Prune(r) \/ Forget(r) \/ Damage(r)
  PROVE  /\ \A s \in RepoID \ {r} : history'[s] = history[s]
         /\ IDs(r)' \subseteq IDs(r)
         /\ history' \in [RepoID -> [runs : Seq(LocalRun), index : Index]]
<1>1. /\ history \in [RepoID -> [runs : Seq(LocalRun), index : Index]]
      /\ history[r].runs \in Seq(LocalRun) /\ history[r].index \in Index
      /\ NoIndex \in Index
  BY DEF Typing, TypeOK, NoIndex, Index
<1> DEFINE runs == history[r].runs
<1>2. ASSUME NEW new \in Seq(LocalRun), NEW kept \in [runs : Seq(LocalRun), index : Index],
             history' = [history EXCEPT ![r] = kept], kept.runs = new,
             \A i \in DOMAIN new : \E j \in DOMAIN runs : new[i].id = runs[j].id
      PROVE  /\ \A s \in RepoID \ {r} : history'[s] = history[s]
             /\ IDs(r)' \subseteq IDs(r)
             /\ history' \in [RepoID -> [runs : Seq(LocalRun), index : Index]]
  <2>1. history'[r].runs = new
    BY <1>1, <1>2
  <2>2. IDs(r)' \subseteq IDs(r)
    BY <1>2, <2>1 DEF IDs, ToSet
  <2>4. history' \in [RepoID -> [runs : Seq(LocalRun), index : Index]]
    BY <1>1, <1>2
  <2> QED
    BY <1>1, <1>2, <2>2, <2>4
<1>3. CASE Prune(r)
  <2> DEFINE kept == [history[r] EXCEPT !.runs = Tail(runs)]
  <2>1. history' = [history EXCEPT ![r] = kept] /\ Len(runs) > 1
    BY <1>3 DEF Prune
  <2>2. /\ Tail(runs) \in Seq(LocalRun) /\ Len(Tail(runs)) = Len(runs) - 1
        /\ Len(runs) \in Nat /\ \A i \in 1 .. Len(Tail(runs)) : Tail(runs)[i] = runs[i + 1]
    BY <1>1, <2>1
  <2>3. \A i \in DOMAIN Tail(runs) : i + 1 \in DOMAIN runs /\ Tail(runs)[i] = runs[i + 1]
    BY <1>1, <2>2
  <2>4. kept \in [runs : Seq(LocalRun), index : Index] /\ kept.runs = Tail(runs)
    BY <1>1, <2>2
  <2> HIDE DEF kept
  <2> QED
    BY <1>2, <2>1, <2>2, <2>3, <2>4
<1>4. CASE Forget(r)
  <2> DEFINE kept == [runs |-> <<>>, index |-> NoIndex]
  <2>1. history' = [history EXCEPT ![r] = kept]
    BY <1>4 DEF Forget
  <2>2. kept \in [runs : Seq(LocalRun), index : Index] /\ kept.runs = <<>>
    BY <1>1
  <2>3. <<>> \in Seq(LocalRun) /\ DOMAIN <<>> = {}
    OBVIOUS
  <2> HIDE DEF kept
  <2> QED
    BY <1>2, <2>1, <2>2, <2>3
<1>5. CASE Damage(r)
  <2>1. PICK i \in DOMAIN runs : history' = [history EXCEPT ![r].runs[i].readable = FALSE]
    BY <1>5 DEF Damage
  <2> DEFINE new == [runs EXCEPT ![i].readable = FALSE]
             kept == [history[r] EXCEPT !.runs = new]
  <2>2. history' = [history EXCEPT ![r] = kept]
    BY <1>1, <2>1
  <2>3. runs \in [1 .. Len(runs) -> LocalRun] /\ Len(runs) \in Nat
    BY <1>1
  <2>4. [runs[i] EXCEPT !.readable = FALSE] \in LocalRun
    BY <2>3 DEF LocalRun
  <2>5. /\ new \in [1 .. Len(runs) -> LocalRun]
        /\ \A j \in DOMAIN runs : new[j].id = runs[j].id
    BY <2>3, <2>4 DEF LocalRun
  <2> HIDE DEF new
  <2>6. new \in Seq(LocalRun) /\ DOMAIN new = DOMAIN runs
    BY <2>3, <2>5
  <2>7. kept \in [runs : Seq(LocalRun), index : Index] /\ kept.runs = new
    BY <1>1, <2>6
  <2> HIDE DEF kept
  <2> QED
    BY <1>2, <2>2, <2>5, <2>6, <2>7
<1> QED
  BY <1>3, <1>4, <1>5

(* A command begins.                                                       *)
LEMMA CommandBegins ==
  ASSUME Typing, NEW p \in Conn, Start(p)
  PROVE  \E new \in Command :
           /\ sync' = [sync EXCEPT ![p] = new] /\ new.step = "next"
           /\ new.loaded = checkpoint[MachineOf[p]]
           /\ \A r \in RepoID : new.listed[r] = 0 \/ new.listed[r] = LastID(r)
           /\ new.user = account[MachineOf[p]] /\ new.repo \in new.todo
           /\ \A r \in new.todo : HomeOf[r] = MachineOf[p]
<1> DEFINE m == MachineOf[p]
<1>1. PICK todo \in {Recorded(m)} \cup {{r} : r \in Recorded(m)} :
        /\ todo # {}
        /\ sync' = [sync EXCEPT ![p] =
             [step |-> "next", user |-> account[m], as |-> account[m],
              renewed |-> FALSE, todo |-> todo, repo |-> CHOOSE r \in todo : TRUE,
              listed |-> [r \in RepoID |-> IF r \in todo THEN LastID(r) ELSE 0],
              loaded |-> checkpoint[m], pending |-> {}]]
  BY DEF Start
<1> DEFINE r == CHOOSE r \in todo : TRUE
           listed == [s \in RepoID |-> IF s \in todo THEN LastID(s) ELSE 0]
<1>2. todo \subseteq RepoID /\ r \in todo /\ \A s \in todo : HomeOf[s] = m
  BY <1>1 DEF Recorded
<1>3. listed \in Checkpoint
  <2>1. ASSUME NEW s \in RepoID PROVE LastID(s) \in ID
    <3>1. history[s].runs \in Seq(LocalRun)
      BY DEF Typing, TypeOK
    <3>2. CASE history[s].runs = <<>>
      BY <3>2, SyncAssumption DEF LastID, ID
    <3>3. CASE history[s].runs # <<>>
      <4>1. Last(history[s].runs) \in ToSet(history[s].runs)
        BY <3>1, <3>3 DEF Last, ToSet
      <4> QED
        BY <3>1, <3>3, <4>1, IDsOfRuns DEF LastID
    <3> QED
      BY <3>2, <3>3
  <2>2. 0 \in ID
    BY SyncAssumption DEF ID
  <2> QED
    BY <2>1, <2>2 DEF Checkpoint
<1>4. account[m] \in User /\ checkpoint[m] \in Checkpoint
  BY SyncAssumption DEF Start, LoggedIn, Typing, TypeOK
<1> HIDE DEF r, listed
<1> DEFINE new == [step |-> "next", user |-> account[m], as |-> account[m],
                   renewed |-> FALSE, todo |-> todo, repo |-> r,
                   listed |-> listed, loaded |-> checkpoint[m], pending |-> {}]
<1>5. new \in Command
  BY <1>2, <1>3, <1>4, CommandStarts
<1>6. sync' = [sync EXCEPT ![p] = new]
  BY <1>1 DEF r, listed
<1>7. \A s \in RepoID : listed[s] = 0 \/ listed[s] = LastID(s)
  BY DEF listed
<1> QED
  BY <1>2, <1>5, <1>6, <1>7

LEMMA StepTyped == Typing /\ [Next]_vars => Typing'
<1> SUFFICES ASSUME Typing, [Next]_vars PROVE Typing'
  OBVIOUS
<1>1. /\ history \in [RepoID -> [runs : Seq(LocalRun), index : Index]]
      /\ clock \in [Machine -> ID] /\ account \in [Machine -> User \cup {Nobody}]
      /\ checkpoint \in [Machine -> Checkpoint] /\ begun \in [Conn -> Nat]
      /\ mishaps \in 0 .. MaxMishaps
      /\ sync \in [Conn -> {Idle} \cup Command] /\ req \in [Conn -> Asked]
  BY DEF Typing, TypeOK, ServerTypeOK, Asked
<1>2. CASE UNCHANGED vars
  BY <1>2 DEF vars, serverVars, Typing, TypeOK, ServerTypeOK, Asking
<1>3. ASSUME NEW r \in RepoID, Record(r), UNCHANGED bounds PROVE Typing'
  <2>1. clock' \in [Machine -> ID]
    BY <1>1, <1>3, RunRecorded
  <2> QED
    BY <1>1, <1>3, <2>1, RunRecorded, HistoryMovesTyped DEF Record, bounds
<1>4. ASSUME NEW p \in Conn, Start(p), UNCHANGED mishaps PROVE Typing'
  <2>1. begun' \in [Conn -> Nat] /\ UNCHANGED <<outside, req>> /\ sync[p].step = "idle"
    BY <1>1, <1>4 DEF Start
  <2>2. PICK new \in Command : sync' = [sync EXCEPT ![p] = new] /\ new.step = "next"
    BY <1>4, CommandBegins
  <2>3. req[p] = Quiet /\ Quiet \in Asked /\ Quiet.step = "none"
    BY <2>1 DEF Typing, Asking, Asked, Quiet
  <2>4. req' = [req EXCEPT ![p] = Quiet]
    BY <1>1, <2>1, <2>3
  <2> QED
    BY <1>1, <1>4, <2>1, <2>2, <2>3, <2>4, CommandMovesTyped DEF outside
<1>5. ASSUME NEW p \in Conn, Turn(p) PROVE Typing'
  BY <1>5, ClientStepTyped, ServerStepTyped DEF Turn
<1>6. ASSUME mishaps < MaxMishaps, mishaps' = mishaps + 1, Mishap, UNCHANGED begun
      PROVE  Typing'
  <2>1. mishaps' \in 0 .. MaxMishaps
    BY <1>1, <1>6, SyncAssumption
  <2>2. ASSUME NEW r \in RepoID, Prune(r) \/ Forget(r) \/ Damage(r) PROVE Typing'
    BY <1>1, <1>6, <2>1, <2>2, RunsLost, HistoryMovesTyped DEF Prune, Forget, Damage
  <2>3. ASSUME NEW m, NEW u \in User, Login(m, u) PROVE Typing'
    <3>1. account' \in [Machine -> User \cup {Nobody}]
      BY <1>1, <2>3 DEF Login
    <3> QED
      BY <1>1, <1>6, <2>1, <2>3, <3>1, HistoryMovesTyped DEF Login, local
  <2>4. ASSUME NEW m, Logout(m) PROVE Typing'
    <3>1. account' \in [Machine -> User \cup {Nobody}]
      BY <1>1, <2>4 DEF Logout
    <3> QED
      BY <1>1, <1>6, <2>1, <2>4, <3>1, HistoryMovesTyped DEF Logout, local
  <2>5. ASSUME NEW m, LoseCheckpoint(m) PROVE Typing'
    <3>1. NoCheckpoint \in Checkpoint
      BY SyncAssumption DEF NoCheckpoint, Checkpoint, ID
    <3>2. checkpoint' \in [Machine -> Checkpoint]
      BY <1>1, <2>5, <3>1 DEF LoseCheckpoint
    <3> QED
      BY <1>1, <1>6, <2>1, <2>5, <3>2, HistoryMovesTyped DEF LoseCheckpoint, local
  <2>6. ASSUME NEW p \in Conn, Crash(p) PROVE Typing'
    <3>1. Quiet \in Asked /\ Quiet.step = "none"
      BY DEF Asked, Quiet
    <3> QED
      BY <1>1, <1>6, <2>1, <2>6, <3>1, CommandMovesTyped DEF Crash, outside
  <2>7. ASSUME NEW p \in Conn, Unauthorized(p) \/ FailRequest(p),
               UNCHANGED <<local, account, checkpoint, sync>>
        PROVE  Typing'
    <3>1. req[p].step # "none" /\ UNCHANGED <<orgs, repos, links>>
      BY <2>7 DEF Unauthorized, FailRequest
    <3>2. req[p].call \in Call
      BY <1>1, <3>1, RequestCalls
    <3>3. PICK status \in {"unauthorized", "error"} :
            req' = [req EXCEPT ![p] = Answer(p, status)]
      BY <2>7 DEF Unauthorized, FailRequest
    <3>4. Answer(p, status) \in Asked /\ Answer(p, status).step = "replied"
      BY <3>2, Replies DEF Answer, Asked
    <3>5. sync[p].step \in {"linking", "running", "stating"}
      BY <3>1 DEF Typing, Asking, Quiet
    <3>6. sync' = [sync EXCEPT ![p] = sync[p]]
      BY <1>1, <2>7
    <3> QED
      BY <1>1, <1>6, <2>1, <2>7, <3>1, <3>3, <3>4, <3>5, <3>6, CommandMovesTyped
  <2> QED
    BY <1>6, <2>2, <2>3, <2>4, <2>5, <2>6, <2>7 DEF Mishap
<1> QED
  BY <1>2, <1>3, <1>4, <1>5, <1>6 DEF Next

(* Requests, rows, commands and the local history have their types.        *)
THEOREM Typed == Spec => []TypeOK
<1>1. Typing => TypeOK
  BY DEF Typing
<1> QED
  BY <1>1, InitTyped, StepTyped, PTL DEF Spec

-----------------------------------------------------------------------------
(* The organisation is created by one request of its user, which holds the *)
(* user's row meanwhile.                                                   *)
OneProvisions ==
  \A c \in Conn : req[c].step = "provisioning" =>
    /\ orgs[req[c].user] = 0
    /\ \A d \in Conn : req[d].step = "provisioning" /\ req[d].user = req[c].user => d = c

(* What requests look like after a step: those that are new, and those of  *)
(* others, which a step of one only makes pass over rows.                  *)
LEMMA OthersStay ==
  ASSUME Typing, NEW c \in Conn, ServerStep(c), NEW d \in Conn \ {c}
  PROVE  \/ req'[d] = req[d]
         \/ /\ Waits(d, req[c].row)
            /\ req'[d] = [req[d] EXCEPT !.gone = @ \ req[c].gone]
<1>1. req \in [Conn -> Asked]
  BY DEF Typing, TypeOK, ServerTypeOK, Asked
<1>2. CASE InsertStates(c)
  <2>1. CASE req' = [req EXCEPT ![c] = Answer(c, "error")]
    BY <1>1, <2>1
  <2>2. CASE req' = [e \in Conn |->
                      IF e = c THEN Answer(c, "ok")
                      ELSE IF Waits(e, req[c].row)
                      THEN [req[e] EXCEPT !.gone = @ \ req[c].gone] ELSE req[e]]
    BY <2>2
  <2> QED
    BY <1>2, <2>1, <2>2 DEF InsertStates
<1>4. CASE LinkMatch(c) \/ ResolveRepoLink(c)
  <2>1. PICK i : \/ req' = [req EXCEPT ![c] = Answer(c, "not found")]
                 \/ req' = [req EXCEPT ![c].step = "resolved", ![c].row = i]
    BY <1>4 DEF LinkMatch, ResolveRepoLink
  <2> QED
    BY <1>1, <2>1
<1>5. CASE EnsurePersonalOrg(c) \/ CreateOrg(c) \/ DeleteStates(c) \/ ResumeDelete(c)
  BY <1>1, <1>5 DEF EnsurePersonalOrg, CreateOrg, DeleteStates, ResumeDelete
<1>6. CASE LinkRepo(c) \/ PutRun(c)
  BY <1>1, <1>6 DEF LinkRepo, PutRun
<1> QED
  BY <1>2, <1>4, <1>5, <1>6 DEF ServerStep

LEMMA ClientAsks ==
  ASSUME Typing, NEW p \in Conn, ClientStep(p)
  PROVE  /\ \A d \in Conn \ {p} : req'[d] = req[d]
         /\ req'[p].step \in {"none", "sent"}
         /\ UNCHANGED <<orgs, repos, links, local>>
<1>1. req \in [Conn -> Asked] /\ sync \in [Conn -> {Idle} \cup Command] /\ Asking(p)
  BY DEF Typing, TypeOK, ServerTypeOK, Asked
<1>2. CASE Save(p)
  BY <1>1, <1>2 DEF Save, Asking, serverVars, Quiet
<1>3. CASE ~ Save(p)
  <2>1. UNCHANGED outside
    BY <1>3 DEF ClientStep, PutRepo, ListRuns, PushRun, RunPushed, PushStates,
       RepoDone, Unreadable, Renew, RequestFailed, Send, GiveUp
  <2>2. \/ req' = [req EXCEPT ![p] = Quiet]
        \/ \E u, call : req' = [req EXCEPT ![p] = NewRequest(u, call)]
    <3>1. CASE PutRepo(p)
      BY <3>1 DEF PutRepo, Send
    <3>2. CASE PushRun(p)
      BY <3>2 DEF PushRun, Send
    <3>3. CASE PushStates(p)
      BY <3>3 DEF PushStates, Send
    <3>4. CASE Renew(p)
      BY <3>4 DEF Renew
    <3>5. CASE ListRuns(p) \/ RunPushed(p) \/ RepoDone(p) \/ Unreadable(p) \/ RequestFailed(p)
      BY <3>5 DEF ListRuns, RunPushed, RepoDone, Unreadable, RequestFailed, Answered, GiveUp
    <3> QED
      BY <1>3, <3>1, <3>2, <3>3, <3>4, <3>5 DEF ClientStep
  <2>3. CASE req' = [req EXCEPT ![p] = Quiet]
    BY <1>1, <2>1, <2>3 DEF outside, Quiet
  <2>4. CASE \E u, call : req' = [req EXCEPT ![p] = NewRequest(u, call)]
    BY <1>1, <2>1, <2>4 DEF outside, NewRequest
  <2> QED
    BY <2>2, <2>3, <2>4
<1> QED
  BY <1>2, <1>3

(* Which steps are not the server's own, or the command's.                 *)
LEMMA OtherStepsAsk ==
  ASSUME Typing, [Next]_vars, ~ \E p \in Conn : Turn(p)
  PROVE  /\ UNCHANGED <<orgs, repos, links>>
         /\ \A d \in Conn : req'[d] = req[d] \/ req'[d].step \in {"none", "replied"}
<1>1. req \in [Conn -> Asked]
  BY DEF Typing, TypeOK, ServerTypeOK, Asked
<1>2. CASE \E r \in RepoID : Record(r) \/ Prune(r) \/ Forget(r) \/ Damage(r)
  BY <1>2 DEF Record, Prune, Forget, Damage, serverVars
<1>3. CASE \E m \in Eventful, u \in User : Login(m, u) \/ Logout(m) \/ LoseCheckpoint(m)
  BY <1>3 DEF Login, Logout, LoseCheckpoint, serverVars
<1>4. CASE \E p \in Conn : Start(p)
  BY <1>4 DEF Start, outside
<1>5. CASE \E p \in Conn : Crash(p) \/ Unauthorized(p) \/ FailRequest(p)
  BY <1>1, <1>5 DEF Crash, Unauthorized, FailRequest, outside, Answer, Quiet
<1>6. CASE UNCHANGED vars
  BY <1>6 DEF vars, serverVars
<1>7. CASE \E m \in Eventful : Logout(m) \/ LoseCheckpoint(m)
  BY <1>7 DEF Logout, LoseCheckpoint, serverVars
<1> QED
  BY <1>2, <1>3, <1>4, <1>5, <1>6, <1>7 DEF Next, Mishap

LEMMA WhoProvisions ==
  ASSUME Typing, [Next]_vars, NEW d \in Conn, req'[d].step = "provisioning"
  PROVE  /\ req'[d].user = req[d].user
         /\ \/ req[d].step = "provisioning"
            \/ /\ EnsurePersonalOrg(d) /\ orgs[req[d].user] = 0
               /\ \A c \in Conn \ {d} : req'[c] = req[c]
<1>1. req \in [Conn -> Asked]
  BY DEF Typing, TypeOK, ServerTypeOK, Asked
<1>2. CASE ~ \E p \in Conn : Turn(p)
  BY <1>2, OtherStepsAsk
<1>3. ASSUME NEW p \in Conn, ClientStep(p)
      PROVE  req'[d] = req[d]
  BY <1>3, ClientAsks
<1>4. ASSUME NEW c \in Conn \ {d}, ServerStep(c)
      PROVE  req'[d] = req[d]
  <2>1. CASE Waits(d, req[c].row) /\ req'[d] = [req[d] EXCEPT !.gone = @ \ req[c].gone]
    <3>1. req[d] \in Request /\ req[d].step = "waiting"
      BY <1>1, <2>1, RequestUnderway DEF Waits, Underway
    <3> QED
      BY <2>1, <3>1 DEF Request
  <2> QED
    BY <1>4, <2>1, OthersStay
<1>5. CASE ServerStep(d)
  <2>1. CASE EnsurePersonalOrg(d)
    <3>1. req[d] \in Request
      BY <1>1, <2>1, RequestUnderway DEF EnsurePersonalOrg, Underway
    <3>2. /\ req'[d].user = req[d].user
          /\ req'[d].step = IF orgs[req[d].user] = 0 THEN "provisioning" ELSE "handling"
          /\ \A c \in Conn \ {d} : req'[c] = req[c]
      BY <1>1, <2>1, <3>1 DEF EnsurePersonalOrg, Request
    <3> QED
      BY <2>1, <3>2
  <2>2. CASE ~ EnsurePersonalOrg(d)
    <3>1. CASE CreateOrg(d) \/ ResumeDelete(d)
      <4>1. req[d] \in Request
        BY <1>1, <3>1, RequestUnderway DEF CreateOrg, ResumeDelete, At, Underway
      <4> QED
        BY <1>1, <3>1, <4>1 DEF CreateOrg, ResumeDelete, Request
    <3>2. CASE LinkMatch(d) \/ ResolveRepoLink(d)
      <4>1. req[d] \in Request
        BY <1>1, <3>2, RequestUnderway DEF LinkMatch, ResolveRepoLink, At, Underway
      <4>2. PICK i : \/ req' = [req EXCEPT ![d] = Answer(d, "not found")]
                     \/ req' = [req EXCEPT ![d].step = "resolved", ![d].row = i]
        BY <3>2 DEF LinkMatch, ResolveRepoLink
      <4>3. CASE req' = [req EXCEPT ![d] = Answer(d, "not found")]
        BY <1>1, <4>3 DEF Answer
      <4>4. CASE req' = [req EXCEPT ![d].step = "resolved", ![d].row = i]
        BY <1>1, <4>1, <4>4 DEF Request
      <4> QED
        BY <4>2, <4>3, <4>4
    <3>3. CASE LinkRepo(d) \/ PutRun(d) \/ InsertStates(d)
      <4>1. req'[d].step = "replied"
        BY <1>1, <3>3 DEF LinkRepo, PutRun, InsertStates, Answer
      <4> QED
        BY <4>1
    <3>4. CASE DeleteStates(d)
      <4>1. req[d] \in Request
        BY <1>1, <3>4, RequestUnderway DEF DeleteStates, At, Underway
      <4>2. req'[d].step \in {"waiting", "deleted"}
        BY <1>1, <3>4, <4>1 DEF DeleteStates, Request
      <4> QED
        BY <4>2
    <3> QED
      BY <1>5, <2>2, <3>1, <3>2, <3>3, <3>4 DEF ServerStep
  <2> QED
    BY <2>1, <2>2
<1> QED
  BY <1>2, <1>3, <1>4, <1>5 DEF Turn

LEMMA OrgsStay ==
  Typing /\ [Next]_vars =>
    orgs' = orgs \/ \E c \in Conn :
      /\ CreateOrg(c) /\ orgs' = [orgs EXCEPT ![req[c].user] = @ + 1]
      /\ req'[c].step = "handling" /\ \A d \in Conn \ {c} : req'[d] = req[d]
<1> SUFFICES ASSUME Typing, [Next]_vars
             PROVE  orgs' = orgs \/ \E c \in Conn :
                      /\ CreateOrg(c) /\ orgs' = [orgs EXCEPT ![req[c].user] = @ + 1]
                      /\ req'[c].step = "handling" /\ \A d \in Conn \ {c} : req'[d] = req[d]
  OBVIOUS
<1>1. req \in [Conn -> Asked]
  BY DEF Typing, TypeOK, ServerTypeOK, Asked
<1>2. CASE ~ \E p \in Conn : Turn(p)
  BY <1>2, OtherStepsAsk
<1>3. ASSUME NEW p \in Conn, ClientStep(p) PROVE orgs' = orgs
  BY <1>3, ClientAsks
<1>4. ASSUME NEW c \in Conn, ServerStep(c), ~ CreateOrg(c) PROVE orgs' = orgs
  BY <1>4 DEF ServerStep, EnsurePersonalOrg, LinkMatch, LinkRepo, ResolveRepoLink,
     PutRun, DeleteStates, ResumeDelete, InsertStates
<1>5. ASSUME NEW c \in Conn, CreateOrg(c)
      PROVE  /\ orgs' = [orgs EXCEPT ![req[c].user] = @ + 1]
             /\ req'[c].step = "handling" /\ \A d \in Conn \ {c} : req'[d] = req[d]
  <2>1. req[c] \in Request
    BY <1>1, <1>5, RequestUnderway DEF CreateOrg, Underway
  <2> QED
    BY <1>1, <1>5, <2>1 DEF CreateOrg, Request
<1> QED
  BY <1>2, <1>3, <1>4, <1>5 DEF Turn

(* "creates the user row and a 1:1 personal org if needed": however many   *)
(* requests of a new user arrive at once, from however many machines, one  *)
(* organisation is created (UpsertUser's row lock).                        *)
THEOREM OneOrgEach == Spec => []OnePersonalOrg
<1>1. Init => OneProvisions /\ OnePersonalOrg
  BY DEF Init, InitServer, OneProvisions, OnePersonalOrg, Quiet
<1>2. Typing /\ OneProvisions /\ OnePersonalOrg /\ [Next]_vars => OnePersonalOrg'
  <2> SUFFICES ASSUME Typing, OneProvisions, OnePersonalOrg, [Next]_vars PROVE OnePersonalOrg'
    OBVIOUS
  <2>1. orgs \in [User -> Nat]
    BY DEF Typing, TypeOK, ServerTypeOK
  <2>2. CASE orgs' = orgs
    BY <2>2 DEF OnePersonalOrg
  <2>3. ASSUME NEW c \in Conn, CreateOrg(c), orgs' = [orgs EXCEPT ![req[c].user] = @ + 1]
        PROVE  OnePersonalOrg'
    <3>1. orgs[req[c].user] = 0
      BY <2>3 DEF CreateOrg, OneProvisions
    <3> QED
      BY <2>1, <2>3, <3>1 DEF OnePersonalOrg
  <2> QED
    BY <2>2, <2>3, OrgsStay
<1>3. Typing /\ OneProvisions /\ [Next]_vars => OneProvisions'
  <2> SUFFICES ASSUME Typing, OneProvisions, [Next]_vars, NEW c \in Conn,
                      req'[c].step = "provisioning"
               PROVE  /\ orgs'[req'[c].user] = 0
                      /\ \A d \in Conn : req'[d].step = "provisioning"
                                         /\ req'[d].user = req'[c].user => d = c
    BY DEF OneProvisions
  <2>1. orgs \in [User -> Nat]
    BY DEF Typing, TypeOK, ServerTypeOK
  <2>2. req'[c].user = req[c].user /\ orgs[req[c].user] = 0
    BY WhoProvisions DEF OneProvisions
  <2>3. ASSUME NEW d \in Conn \ {c}, req'[d].step = "provisioning", req'[d].user = req'[c].user
        PROVE  FALSE
    <3>1. req'[d].user = req[d].user
      BY <2>3, WhoProvisions
    <3>2. CASE req[c].step = "provisioning" /\ req[d].step = "provisioning"
      BY <2>2, <2>3, <3>1, <3>2 DEF OneProvisions
    <3>3. CASE EnsurePersonalOrg(c) /\ \A e \in Conn \ {c} : req'[e] = req[e]
      BY <2>2, <2>3, <3>1, <3>3 DEF EnsurePersonalOrg, UserLocked
    <3>4. CASE EnsurePersonalOrg(d) /\ \A e \in Conn \ {d} : req'[e] = req[e]
      BY <2>2, <2>3, <3>1, <3>4 DEF EnsurePersonalOrg, UserLocked
    <3> QED
      BY <2>3, <3>2, <3>3, <3>4, WhoProvisions
  <2>4. orgs'[req'[c].user] = 0
    <3>1. CASE orgs' = orgs
      BY <2>2, <3>1
    <3>2. ASSUME NEW d \in Conn, CreateOrg(d),
                 orgs' = [orgs EXCEPT ![req[d].user] = @ + 1],
                 req'[d].step = "handling", \A e \in Conn \ {d} : req'[e] = req[e]
          PROVE  orgs'[req'[c].user] = 0
      <4>1. d # c
        BY <3>2
      <4>2. req[d].user # req[c].user
        BY <3>2, <4>1 DEF CreateOrg, OneProvisions
      <4> QED
        BY <2>1, <2>2, <3>2, <4>2
    <3> QED
      BY <3>1, <3>2, OrgsStay
  <2> QED
    BY <2>3, <2>4
<1> QED
  BY <1>1, <1>2, <1>3, InitTyped, StepTyped, PTL DEF Spec

-----------------------------------------------------------------------------
(* Every id a machine knows of a repository is one its clock has given.    *)
Past(r, id) == id <= clock[HomeOf[r]]

AllPast ==
  \A r \in RepoID :
    /\ \A id \in IDs(r) : Past(r, id)
    /\ \A m \in Machine : Past(r, checkpoint[m][r])
    /\ \A p \in Conn : sync[p].step # "idle" =>
         Past(r, sync[p].listed[r]) /\ Past(r, sync[p].loaded[r])

Held(r, id) == \E i \in DOMAIN repos : <<r, id>> \in repos[i].runs

HeldUpTo(r, n) == \A id \in IDs(r) : id <= n => Held(r, id)

(* What a command has done for the repository it is at: what is neither    *)
(* held nor pending is not to be skipped later.                            *)
Pushing(p) ==
  LET r == sync[p].repo
      n == sync[p].listed[r]
  IN  /\ sync[p].step \in {"pushing", "running"} =>
           \A id \in IDs(r) : id <= n => Held(r, id) \/ id \in sync[p].pending
      /\ sync[p].step = "stating" => HeldUpTo(r, n)
      /\ sync[p].step = "running" =>
           /\ req[p].call.op = "run"
           /\ req[p].call.run = <<r, NextRun(p)>>
           /\ Replied(p, "ok") => Held(r, NextRun(p))

NothingSkipped ==
  /\ AllPast
  /\ \A r \in RepoID, m \in Machine : HeldUpTo(r, checkpoint[m][r])
  /\ \A p \in Conn : sync[p].step # "idle" =>
       Pushing(p) /\ \A r \in RepoID : HeldUpTo(r, sync[p].loaded[r])

-----------------------------------------------------------------------------
(* Numbers are numbers.                                                    *)
LEMMA Numbers ==
  ASSUME Typing
  PROVE  /\ \A r \in RepoID : /\ clock[HomeOf[r]] \in Nat
                              /\ \A id \in IDs(r) : id \in Nat \ {0}
                              /\ LastID(r) = 0 \/ LastID(r) \in IDs(r)
         /\ \A m \in Machine, r \in RepoID : checkpoint[m][r] \in Nat
         /\ \A p \in Conn, r \in RepoID : sync[p].step # "idle" =>
              sync[p].listed[r] \in Nat /\ sync[p].loaded[r] \in Nat
<1>1. ID \subseteq Nat
  BY SyncAssumption DEF ID
<1>2. ASSUME NEW r \in RepoID
      PROVE  /\ clock[HomeOf[r]] \in Nat
             /\ \A id \in IDs(r) : id \in Nat \ {0}
             /\ LastID(r) = 0 \/ LastID(r) \in IDs(r)
  <2>1. history[r].runs \in Seq(LocalRun) /\ clock[HomeOf[r]] \in ID
    BY SyncAssumption DEF Typing, TypeOK
  <2>2. \A id \in IDs(r) : id \in Nat \ {0}
    BY <1>1, <2>1, IDsOfRuns DEF IDs
  <2>3. CASE history[r].runs # <<>>
    <3>1. Last(history[r].runs) \in ToSet(history[r].runs)
      BY <2>1, <2>3 DEF Last, ToSet
    <3> QED
      BY <1>1, <2>1, <2>2, <2>3, <3>1 DEF LastID, IDs
  <2> QED
    BY <1>1, <2>1, <2>2, <2>3 DEF LastID
<1>3. \A m \in Machine, r \in RepoID : checkpoint[m][r] \in Nat
  BY <1>1 DEF Typing, TypeOK, Checkpoint
<1>4. ASSUME NEW p \in Conn, NEW r \in RepoID, sync[p].step # "idle"
      PROVE  sync[p].listed[r] \in Nat /\ sync[p].loaded[r] \in Nat
  <2>1. sync[p] \in Command
    BY <1>4 DEF Typing, TypeOK, Idle
  <2> QED
    BY <1>1, <2>1 DEF Command, Checkpoint
<1> QED
  BY <1>2, <1>3, <1>4

(* Runs that were uploaded stay, and PutRun holds the run it is given.     *)
LEMMA RunsStayHeld ==
  ASSUME Typing, [Next]_vars
  PROVE  \A i \in DOMAIN repos : i \in DOMAIN repos' /\ repos[i].runs \subseteq repos'[i].runs
<1>1. repos \in Seq(Repo) /\ DOMAIN repos = 1 .. Len(repos) /\ Len(repos) \in Nat
      /\ \A i \in DOMAIN repos : repos[i] \in Repo
  BY DEF Typing, TypeOK, ServerTypeOK
<1>2. CASE ~ \E p \in Conn : Turn(p)
  BY <1>2, OtherStepsAsk
<1>3. ASSUME NEW p \in Conn, ClientStep(p) PROVE repos' = repos
  BY <1>3, ClientAsks
<1>4. ASSUME NEW c \in Conn, ServerStep(c) 
      PROVE  \A i \in DOMAIN repos : i \in DOMAIN repos' /\ repos[i].runs \subseteq repos'[i].runs
  <2>1. CASE LinkRepo(c)
    <3> DEFINE found == req[c].row
               call == req[c].call
    <3>1. \/ repos' = repos
          \/ \E new : repos' = Append(repos, new)
          \/ repos' = [repos EXCEPT ![found].origin = call.origin, ![found].lastRun = call.lastRun]
      BY <2>1 DEF LinkRepo
    <3>2. CASE \E new : repos' = Append(repos, new)
      BY <1>1, <3>2
    <3>3. CASE repos' = [repos EXCEPT ![found].origin = call.origin, ![found].lastRun = call.lastRun]
      BY <1>1, <3>3 DEF Repo
    <3> QED
      BY <3>1, <3>2, <3>3
  <2>2. CASE PutRun(c)
    <3> DEFINE k == req[c].row
               run == req[c].call.run
    <3>1. repos' = [repos EXCEPT ![k].runs = @ \cup {run}, ![k].lastRun = run]
      BY <2>2 DEF PutRun
    <3> QED
      BY <1>1, <3>1 DEF Repo
  <2>3. CASE InsertStates(c)
    <3> DEFINE k == req[c].row
    <3>1. repos' = repos \/ \E new : repos' = [repos EXCEPT ![k].states = new]
      BY <2>3 DEF InsertStates
    <3>2. ASSUME NEW new, repos' = [repos EXCEPT ![k].states = new]
          PROVE  \A i \in DOMAIN repos : i \in DOMAIN repos' /\ repos[i].runs = repos'[i].runs
      BY <1>1, <3>2 DEF Repo
    <3> QED
      BY <3>1, <3>2
  <2>4. CASE ~ (LinkRepo(c) \/ PutRun(c) \/ InsertStates(c))
    BY <1>4, <2>4 DEF ServerStep, EnsurePersonalOrg, CreateOrg, LinkMatch, ResolveRepoLink,
       DeleteStates, ResumeDelete
  <2> QED
    BY <2>1, <2>2, <2>3, <2>4
<1> QED
  BY <1>2, <1>3, <1>4 DEF Turn

LEMMA HeldStays ==
  ASSUME Typing, [Next]_vars, NEW r, NEW id, Held(r, id) PROVE Held(r, id)'
BY RunsStayHeld DEF Held

LEMMA RunIsHeld ==
  ASSUME Typing, NEW c \in Conn, PutRun(c), NEW r, NEW id, req[c].call.run = <<r, id>>
  PROVE  Held(r, id)'
<1>1. repos \in Seq(Repo) /\ \A i \in DOMAIN repos : repos[i] \in Repo
  BY DEF Typing, TypeOK, ServerTypeOK
<1> DEFINE k == req[c].row
           run == req[c].call.run
<1>2. k \in DOMAIN repos /\ repos' = [repos EXCEPT ![k].runs = @ \cup {run}, ![k].lastRun = run]
  BY DEF PutRun, GetRepoByID, ReposOf
<1>3. k \in DOMAIN repos' /\ run \in repos'[k].runs
  BY <1>1, <1>2 DEF Repo
<1> QED
  BY <1>3 DEF Held

(* Runs get the ids the clock gives.                                       *)
LEMMA NewIDs ==
  ASSUME Typing, AllPast, [Next]_vars, NEW r \in RepoID
  PROVE  /\ clock'[HomeOf[r]] \in Nat /\ clock[HomeOf[r]] <= clock'[HomeOf[r]]
         /\ \A id \in IDs(r)' :
              /\ id \in Nat \ {0} /\ id <= clock'[HomeOf[r]]
              /\ id \in IDs(r) \/ id > clock[HomeOf[r]]
<1>1. /\ clock[HomeOf[r]] \in Nat /\ clock \in [Machine -> ID]
      /\ \A id \in IDs(r) : id \in Nat \ {0} /\ id <= clock[HomeOf[r]]
      /\ HomeOf[r] \in Machine
  <2>1. clock[HomeOf[r]] \in Nat /\ \A id \in IDs(r) : id \in Nat \ {0}
    BY Numbers
  <2>2. \A id \in IDs(r) : id <= clock[HomeOf[r]]
    BY DEF AllPast, Past
  <2> QED
    BY <2>1, <2>2, SyncAssumption DEF Typing, TypeOK
<1>2. CASE IDs(r)' \subseteq IDs(r) /\ clock' = clock
  BY <1>1, <1>2
<1>3. ASSUME NEW s \in RepoID, Record(s)
      PROVE  /\ clock'[HomeOf[r]] \in Nat /\ clock[HomeOf[r]] <= clock'[HomeOf[r]]
             /\ \A id \in IDs(r)' :
                  /\ id \in Nat \ {0} /\ id <= clock'[HomeOf[r]]
                  /\ id \in IDs(r) \/ id > clock[HomeOf[r]]
  <2>1. /\ clock' = [clock EXCEPT ![HomeOf[s]] = clock[HomeOf[s]] + 1]
        /\ \A q \in RepoID \ {s} : history'[q] = history[q]
        /\ history'[s].runs =
             Append(history[s].runs, [id |-> clock[HomeOf[s]] + 1, readable |-> TRUE])
    BY <1>3, RunRecorded
  <2>2. clock'[HomeOf[r]] \in Nat /\ clock[HomeOf[r]] <= clock'[HomeOf[r]]
    BY <1>1, <2>1
  <2>3. CASE r # s
    <3>1. IDs(r)' = IDs(r)
      BY <2>1, <2>3 DEF IDs
    <3> QED
      BY <1>1, <2>2, <3>1
  <2>4. CASE r = s
    <3>1. clock'[HomeOf[r]] = clock[HomeOf[r]] + 1
      BY <1>1, <2>1, <2>4
    <3>2. history[r].runs \in Seq(LocalRun)
      BY DEF Typing, TypeOK
    <3>3. IDs(r)' = IDs(r) \cup {clock[HomeOf[r]] + 1}
      <4> DEFINE runs == history[r].runs
                 new == [id |-> clock[HomeOf[r]] + 1, readable |-> TRUE]
      <4>1. history'[r].runs = Append(runs, new)
        BY <2>1, <2>4
      <4>2. ToSet(Append(runs, new)) = ToSet(runs) \cup {new}
        <5>1. /\ DOMAIN Append(runs, new) = DOMAIN runs \cup {Len(runs) + 1}
              /\ Append(runs, new)[Len(runs) + 1] = new
              /\ \A i \in DOMAIN runs : Append(runs, new)[i] = runs[i]
          BY <3>2
        <5> HIDE DEF new
        <5> QED
          BY <5>1 DEF ToSet
      <4>3. new.id = clock[HomeOf[r]] + 1
        OBVIOUS
      <4> HIDE DEF new
      <4> QED
        BY <4>1, <4>2, <4>3 DEF IDs
    <3> QED
      BY <1>1, <3>1, <3>3
  <2> QED
    BY <2>3, <2>4
<1>4. ASSUME NEW s \in RepoID, Prune(s) \/ Forget(s) \/ Damage(s)
      PROVE  IDs(r)' \subseteq IDs(r) /\ clock' = clock
  <2>1. clock' = clock
    BY <1>4 DEF Prune, Forget, Damage
  <2>2. CASE r = s
    BY <1>4, <2>1, <2>2, RunsLost
  <2>3. CASE r # s
    BY <1>4, <2>1, <2>3, RunsLost DEF IDs
  <2> QED
    BY <2>2, <2>3
<1>5. ASSUME UNCHANGED local PROVE IDs(r)' \subseteq IDs(r) /\ clock' = clock
  BY <1>5 DEF local, IDs
<1>6. \/ \E s \in RepoID : Record(s) \/ Prune(s) \/ Forget(s) \/ Damage(s)
      \/ UNCHANGED local
  <2>1. ASSUME NEW p \in Conn, ClientStep(p) PROVE UNCHANGED local
    BY <2>1, ClientAsks
  <2> QED
    BY <2>1 DEF Next, Turn, Mishap, Start, Login, Logout, LoseCheckpoint, Crash,
       outside, elsewhere, vars, local
<1> QED
  BY <1>2, <1>3, <1>4, <1>5, <1>6

-----------------------------------------------------------------------------
(* Whoever is not moved by a step keeps what it knows.                     *)
LEMMA CheckpointsStay ==
  ASSUME Typing, AllPast, [Next]_vars, NEW r \in RepoID, NEW n \in Nat, Past(r, n),
         HeldUpTo(r, n)
  PROVE  n <= clock'[HomeOf[r]] /\ \A id \in IDs(r)' : id <= n => Held(r, id)'
<1>1. /\ clock[HomeOf[r]] \in Nat /\ clock'[HomeOf[r]] \in Nat
      /\ clock[HomeOf[r]] <= clock'[HomeOf[r]]
  BY Numbers, NewIDs
<1>2. ASSUME NEW id \in IDs(r)', id <= n PROVE Held(r, id)'
  <2>1. id \in IDs(r) \/ id > clock[HomeOf[r]]
    BY NewIDs
  <2>2. CASE id \in IDs(r)
    BY <1>2, <2>2, HeldStays DEF HeldUpTo
  <2>3. CASE id \notin IDs(r)
    <3>1. id \in Nat
      BY NewIDs
    <3> QED
      BY <1>1, <1>2, <2>1, <2>3, <3>1 DEF Past
  <2> QED
    BY <2>2, <2>3
<1> QED
  BY <1>1, <1>2 DEF Past

LEMMA PushingStays ==
  ASSUME Typing, NothingSkipped, [Next]_vars, NEW p \in Conn, sync[p].step # "idle",
         sync'[p] = sync[p],
         sync[p].step = "running" =>
           /\ req'[p].call = req[p].call
           /\ Replied(p, "ok")' => Replied(p, "ok") \/ Held(sync[p].repo, NextRun(p))'
  PROVE  /\ Pushing(p)'
         /\ \A r \in RepoID : /\ HeldUpTo(r, sync[p].loaded[r])'
                              /\ Past(r, sync[p].listed[r])' /\ Past(r, sync[p].loaded[r])'
<1> DEFINE r == sync[p].repo
           n == sync[p].listed[r]
<1>1. /\ r \in RepoID /\ n \in Nat /\ n <= clock[HomeOf[r]]
      /\ clock[HomeOf[r]] \in Nat /\ AllPast /\ Pushing(p)
  <2>1. sync[p] \in Command
    BY DEF Typing, TypeOK, Idle
  <2>2. r \in RepoID
    BY <2>1 DEF Command
  <2> QED
    BY <2>2, Numbers DEF NothingSkipped, AllPast, Past
<1>2. ASSUME NEW s \in RepoID
      PROVE  /\ HeldUpTo(s, sync[p].loaded[s])'
             /\ Past(s, sync[p].listed[s])' /\ Past(s, sync[p].loaded[s])'
  <2>1. /\ sync[p].listed[s] \in Nat /\ sync[p].loaded[s] \in Nat
        /\ Past(s, sync[p].listed[s]) /\ Past(s, sync[p].loaded[s])
        /\ HeldUpTo(s, sync[p].loaded[s])
    BY Numbers DEF NothingSkipped, AllPast
  <2>2. /\ sync[p].loaded[s] <= clock'[HomeOf[s]]
        /\ \A id \in IDs(s)' : id <= sync[p].loaded[s] => Held(s, id)'
    BY <1>1, <2>1, CheckpointsStay
  <2>3. sync[p].listed[s] <= clock'[HomeOf[s]]
    <3>1. /\ clock[HomeOf[s]] \in Nat /\ clock'[HomeOf[s]] \in Nat
          /\ clock[HomeOf[s]] <= clock'[HomeOf[s]]
      BY <1>1, Numbers, NewIDs
    <3> QED
      BY <2>1, <3>1 DEF Past
  <2> QED
    BY <2>2, <2>3 DEF HeldUpTo, Past
<1>3. ASSUME sync[p].step \in {"pushing", "running"}, NEW id \in IDs(r)', id <= n
      PROVE  Held(r, id)' \/ id \in sync[p].pending
  <2>1. id \in IDs(r) \/ id > clock[HomeOf[r]]
    BY <1>1, NewIDs
  <2>2. id \in Nat
    BY <1>1, NewIDs
  <2>3. id \in IDs(r)
    BY <1>1, <1>3, <2>1, <2>2
  <2>4. Held(r, id) \/ id \in sync[p].pending
    BY <1>1, <1>3, <2>3 DEF Pushing
  <2> QED
    BY <2>4, HeldStays
<1>4. ASSUME sync[p].step = "stating", NEW id \in IDs(r)', id <= n PROVE Held(r, id)'
  BY <1>1, <1>4, CheckpointsStay DEF Pushing, Past
<1>5. ASSUME sync[p].step = "running"
      PROVE  /\ req'[p].call.op = "run" /\ req'[p].call.run = <<r, NextRun(p)>>
             /\ Replied(p, "ok")' => Held(r, NextRun(p))'
  <2>1. Replied(p, "ok") => Held(r, NextRun(p))
    BY <1>1, <1>5 DEF Pushing
  <2>2. Held(r, NextRun(p)) => Held(r, NextRun(p))'
    BY RunsStayHeld DEF Held, NextRun
  <2> QED
    BY <1>1, <1>5, <2>1, <2>2 DEF Pushing
<1>6. Pushing(p)'
  BY <1>3, <1>4, <1>5 DEF Pushing, HeldUpTo, NextRun
<1> QED
  BY <1>2, <1>6

(* So a step that moves one command, or none, has to be looked at there.   *)
LEMMA NothingSkippedStays ==
  ASSUME Typing, NothingSkipped, [Next]_vars, NEW P \in SUBSET Conn,
         \A m \in Machine : \/ checkpoint'[m] = checkpoint[m]
                           \/ \A r \in RepoID : checkpoint'[m][r] = 0
                           \/ \E p \in Conn : /\ sync[p].step # "idle"
                                              /\ checkpoint'[m] = sync[p].loaded,
         \A p \in Conn \ P : sync[p].step # "idle" =>
           /\ sync'[p] = sync[p]
           /\ sync[p].step = "running" =>
                /\ req'[p].call = req[p].call
                /\ Replied(p, "ok")' => Replied(p, "ok") \/ Held(sync[p].repo, NextRun(p))',
         \A p \in Conn \ P : sync[p].step = "idle" => sync'[p] = sync[p],
         \A p \in P : sync'[p].step # "idle" =>
           /\ Pushing(p)'
           /\ \A r \in RepoID : /\ HeldUpTo(r, sync[p].loaded[r])'
                                /\ Past(r, sync[p].listed[r])' /\ Past(r, sync[p].loaded[r])'
  PROVE  NothingSkipped'
<1>1. ASSUME NEW p \in Conn, sync'[p].step # "idle"
      PROVE  /\ Pushing(p)'
             /\ \A r \in RepoID : /\ HeldUpTo(r, sync[p].loaded[r])'
                                  /\ Past(r, sync[p].listed[r])' /\ Past(r, sync[p].loaded[r])'
  <2>1. CASE p \in P
    BY <1>1, <2>1
  <2>2. CASE p \notin P
    BY <1>1, <2>2, PushingStays
  <2> QED
    BY <2>1, <2>2
<1>2. ASSUME NEW m \in Machine, NEW r \in RepoID
      PROVE  HeldUpTo(r, checkpoint[m][r])' /\ Past(r, checkpoint[m][r])'
  <2>1. /\ AllPast /\ checkpoint[m][r] \in Nat /\ Past(r, checkpoint[m][r])
        /\ HeldUpTo(r, checkpoint[m][r])
    BY Numbers DEF NothingSkipped, AllPast
  <2>2. CASE checkpoint'[m] = checkpoint[m]
    BY <2>1, <2>2, CheckpointsStay DEF HeldUpTo, Past
  <2>3. CASE checkpoint'[m][r] = 0
    <3>1. \A id \in IDs(r)' : id \in Nat \ {0}
      BY <2>1, NewIDs
    <3>2. clock'[HomeOf[r]] \in Nat
      BY <2>1, NewIDs
    <3> QED
      BY <2>3, <3>1, <3>2 DEF HeldUpTo, Past
  <2>4. ASSUME NEW p \in Conn, sync[p].step # "idle", checkpoint'[m] = sync[p].loaded
        PROVE  HeldUpTo(r, checkpoint[m][r])' /\ Past(r, checkpoint[m][r])'
    <3>1. /\ sync[p].loaded[r] \in Nat /\ Past(r, sync[p].loaded[r])
          /\ HeldUpTo(r, sync[p].loaded[r])
      BY <2>4, Numbers DEF NothingSkipped, AllPast
    <3> QED
      BY <2>1, <2>4, <3>1, CheckpointsStay DEF HeldUpTo, Past
  <2> QED
    BY <2>2, <2>3, <2>4
<1>3. ASSUME NEW r \in RepoID, NEW id \in IDs(r)' PROVE Past(r, id)'
  BY NewIDs DEF NothingSkipped, Past
<1> QED
  BY <1>1, <1>2, <1>3 DEF NothingSkipped, AllPast

-----------------------------------------------------------------------------
(* What a command that is c after a step has to make true of the rest.     *)
Promising(c) ==
  /\ c.step \in {"pushing", "running"} =>
       \A id \in IDs(c.repo) : id <= c.listed[c.repo] => Held(c.repo, id) \/ id \in c.pending
  /\ c.step = "stating" => HeldUpTo(c.repo, c.listed[c.repo])
  /\ \A r \in RepoID : /\ HeldUpTo(r, c.loaded[r])
                       /\ Past(r, c.listed[r]) /\ Past(r, c.loaded[r])

LEMMA CommandMoves ==
  ASSUME Typing, NothingSkipped, [Next]_vars, NEW p \in Conn,
         NEW new, NEW q,
         sync' = [sync EXCEPT ![p] = new], req' = [req EXCEPT ![p] = q],
         UNCHANGED <<repos, local>>,
         \A m \in Machine : \/ checkpoint'[m] = checkpoint[m]
                           \/ \E d \in Conn : /\ sync[d].step # "idle"
                                              /\ checkpoint'[m] = sync[d].loaded,
         new.step # "idle" => Promising(new),
         new.step = "running" =>
           q.step = "sent" /\ q.call.op = "run" /\ q.call.run = <<new.repo, NextRun(p)'>>
  PROVE  NothingSkipped'
<1>1. /\ sync'[p] = new /\ req'[p] = q
      /\ \A d \in Conn \ {p} : sync'[d] = sync[d] /\ req'[d] = req[d]
  BY DEF Typing, TypeOK, ServerTypeOK
<1>2. /\ \A r : IDs(r)' = IDs(r)
      /\ \A r, id : Held(r, id)' <=> Held(r, id)
      /\ clock' = clock
  BY DEF local, IDs, Held
<1>3. ASSUME sync'[p].step # "idle"
      PROVE  /\ Pushing(p)'
             /\ \A r \in RepoID : /\ HeldUpTo(r, sync[p].loaded[r])'
                                  /\ Past(r, sync[p].listed[r])' /\ Past(r, sync[p].loaded[r])'
  <2>1. Promising(new)
    BY <1>1, <1>3
  <2>2. Pushing(p)'
    BY <1>1, <1>2, <2>1 DEF Promising, Pushing, HeldUpTo, Replied
  <2> QED
    BY <1>1, <1>2, <2>1, <2>2 DEF Promising, HeldUpTo, Past
<1>4. \A d \in Conn \ {p} :
        /\ sync'[d] = sync[d] /\ req'[d].call = req[d].call
        /\ Replied(d, "ok")' => Replied(d, "ok")
  BY <1>1 DEF Replied
<1> DEFINE P == {p}
<1>5. /\ P \in SUBSET Conn
      /\ \A d \in Conn \ P : sync[d].step # "idle" =>
           /\ sync'[d] = sync[d]
           /\ sync[d].step = "running" =>
                /\ req'[d].call = req[d].call
                /\ Replied(d, "ok")' => Replied(d, "ok") \/ Held(sync[d].repo, NextRun(d))'
      /\ \A d \in Conn \ P : sync[d].step = "idle" => sync'[d] = sync[d]
  BY <1>4
<1>6. \A d \in P : sync'[d].step # "idle" =>
        /\ Pushing(d)'
        /\ \A r \in RepoID : /\ HeldUpTo(r, sync[d].loaded[r])'
                             /\ Past(r, sync[d].listed[r])' /\ Past(r, sync[d].loaded[r])'
  BY <1>3
<1>7. \A m \in Machine : \/ checkpoint'[m] = checkpoint[m]
                        \/ \A r \in RepoID : checkpoint'[m][r] = 0
                        \/ \E d \in Conn : /\ sync[d].step # "idle"
                                           /\ checkpoint'[m] = sync[d].loaded
  OBVIOUS
<1> HIDE DEF P
<1> QED
  BY <1>5, <1>6, <1>7, NothingSkippedStays

(* Nor is anything skipped when no command moves.                          *)
LEMMA NoCommandMoves ==
  ASSUME Typing, NothingSkipped, [Next]_vars, sync' = sync,
         \A m \in Machine : \/ checkpoint'[m] = checkpoint[m]
                           \/ \A r \in RepoID : checkpoint'[m][r] = 0,
         \A d \in Conn : sync[d].step = "running" =>
           /\ req'[d].call = req[d].call
           /\ Replied(d, "ok")' => Replied(d, "ok") \/ Held(sync[d].repo, NextRun(d))'
  PROVE  NothingSkipped'
<1> DEFINE P == {}
<1>1. /\ P \in SUBSET Conn
      /\ \A d \in Conn \ P : sync[d].step # "idle" =>
           /\ sync'[d] = sync[d]
           /\ sync[d].step = "running" =>
                /\ req'[d].call = req[d].call
                /\ Replied(d, "ok")' => Replied(d, "ok") \/ Held(sync[d].repo, NextRun(d))'
      /\ \A d \in Conn \ P : sync[d].step = "idle" => sync'[d] = sync[d]
  OBVIOUS
<1>2. \A d \in P : sync'[d].step # "idle" =>
        /\ Pushing(d)'
        /\ \A r \in RepoID : /\ HeldUpTo(r, sync[d].loaded[r])'
                             /\ Past(r, sync[d].listed[r])' /\ Past(r, sync[d].loaded[r])'
  OBVIOUS
<1>3. \A m \in Machine : \/ checkpoint'[m] = checkpoint[m]
                        \/ \A r \in RepoID : checkpoint'[m][r] = 0
                        \/ \E d \in Conn : /\ sync[d].step # "idle"
                                           /\ checkpoint'[m] = sync[d].loaded
  OBVIOUS
<1> HIDE DEF P
<1> QED
  BY <1>1, <1>2, <1>3, NothingSkippedStays

-----------------------------------------------------------------------------
(* The server answers the push of a run when it holds the run.             *)
LEMMA RunIsAnswered ==
  ASSUME Typing, NEW c \in Conn, ServerStep(c), NEW d \in Conn,
         req[d].call.op = "run", req[d].step # "none"
  PROVE  /\ req'[d].call = req[d].call
         /\ \/ Replied(d, "ok")' => Replied(d, "ok")
            \/ PutRun(d)
<1>1. req \in [Conn -> Asked] /\ req[c] \in Asked /\ req[d] \in Asked
  BY DEF Typing, TypeOK, ServerTypeOK, Asked
<1>2. CASE d # c
  <2>1. CASE req'[d] = req[d]
    BY <2>1 DEF Replied
  <2>2. CASE Waits(d, req[c].row) /\ req'[d] = [req[d] EXCEPT !.gone = @ \ req[c].gone]
    <3>1. req[d] \in Request
      BY <1>1, <2>2, RequestUnderway DEF Waits, Underway
    <3>2. req'[d].call = req[d].call /\ req'[d].step = "waiting"
      BY <2>2, <3>1 DEF Request, Waits
    <3> QED
      BY <3>2 DEF Replied
  <2> QED
    BY <1>2, <2>1, <2>2, OthersStay
<1>3. CASE d = c
  <2>1. CASE EnsurePersonalOrg(c) \/ CreateOrg(c)
    <3>1. req[c] \in Request
      BY <1>1, <2>1, RequestUnderway DEF EnsurePersonalOrg, CreateOrg, Underway
    <3>2. PICK s \in {"provisioning", "handling"} : req' = [req EXCEPT ![c].step = s]
      BY <2>1 DEF EnsurePersonalOrg, CreateOrg
    <3>3. req'[c].call = req[c].call /\ req'[c].step = s
      BY <1>1, <3>1, <3>2 DEF Request
    <3> QED
      BY <1>3, <3>2, <3>3 DEF Replied
  <2>2. CASE ResolveRepoLink(c)
    <3>1. req[c] \in Request
      BY <1>1, <2>2, RequestUnderway DEF ResolveRepoLink, At, Underway
    <3>2. CASE req' = [req EXCEPT ![c] = Answer(c, "not found")]
      BY <1>1, <1>3, <3>2 DEF Answer, Replied
    <3>3. CASE \E i : req' = [req EXCEPT ![c].step = "resolved", ![c].row = i]
      <4>1. req'[c].call = req[c].call /\ req'[c].step = "resolved"
        BY <1>1, <3>1, <3>3 DEF Request
      <4> QED
        BY <1>3, <4>1 DEF Replied
    <3> QED
      BY <2>2, <3>2, <3>3 DEF ResolveRepoLink
  <2>3. CASE PutRun(c)
    <3>1. req'[c] = Answer(c, "ok")
      BY <1>1, <2>3 DEF PutRun
    <3> QED
      BY <1>3, <2>3, <3>1 DEF Answer
  <2>4. ~ (LinkMatch(c) \/ LinkRepo(c) \/ DeleteStates(c) \/ ResumeDelete(c) \/ InsertStates(c))
    BY <1>3 DEF LinkMatch, LinkRepo, DeleteStates, ResumeDelete, InsertStates, At
  <2> QED
    BY <2>1, <2>2, <2>3, <2>4 DEF ServerStep
<1> QED
  BY <1>2, <1>3

LEMMA ServerSkipsNothing ==
  ASSUME Typing, NothingSkipped, NEW c \in Conn, ServerStep(c), UNCHANGED elsewhere
  PROVE  NothingSkipped'
<1>1. [Next]_vars /\ sync' = sync /\ checkpoint' = checkpoint
  BY DEF Next, Turn, elsewhere
<1>2. ASSUME NEW d \in Conn, sync[d].step = "running"
      PROVE  /\ req'[d].call = req[d].call
             /\ Replied(d, "ok")' => Replied(d, "ok") \/ Held(sync[d].repo, NextRun(d))'
  <2>1. /\ req[d].call.op = "run"
        /\ req[d].call.run = <<sync[d].repo, NextRun(d)>>
    BY <1>2 DEF NothingSkipped, Pushing
  <2>2. CASE req[d].step = "none"
    <3>1. d # c
      BY <2>2 DEF ServerStep, EnsurePersonalOrg, CreateOrg, LinkMatch, LinkRepo, ResolveRepoLink,
         PutRun, DeleteStates, ResumeDelete, InsertStates, At
    <3>2. req'[d] = req[d]
      BY <2>2, <3>1, OthersStay DEF Waits
    <3> QED
      BY <3>2 DEF Replied
  <2>3. CASE PutRun(d) /\ req[d].step # "none"
    <3>1. Held(sync[d].repo, NextRun(d))'
      <4> DEFINE r == sync[d].repo
                 id == NextRun(d)
      <4>1. Held(r, id)'
        <5> HIDE DEF r, id
        <5>1. r' = r /\ id' = id
          BY <1>1 DEF r, id, NextRun
        <5>2. req[d].call.run = <<r, id>>
          BY <2>1 DEF r, id
        <5>3. \E i \in DOMAIN repos' : <<r, id>> \in repos'[i].runs
          BY <2>3, <5>2, RunIsHeld DEF Held
        <5> QED
          BY <5>1, <5>3 DEF Held
      <4> QED
        BY <4>1
    <3> QED
      BY <2>1, <2>3, <3>1, RunIsAnswered
  <2>4. CASE ~ PutRun(d) /\ req[d].step # "none"
    BY <2>1, <2>4, RunIsAnswered
  <2> QED
    BY <2>2, <2>3, <2>4
<1> QED
  BY <1>1, <1>2, NoCommandMoves

(* A command takes a run for uploaded when the server said that it holds it*)
(* and otherwise leaves the repository as it was.                          *)
LEMMA ClientSkipsNothing ==
  ASSUME Typing, NothingSkipped, NEW p \in Conn, ClientStep(p), UNCHANGED bounds
  PROVE  NothingSkipped'
<1> DEFINE c == sync[p]
<1>1. /\ [Next]_vars /\ req \in [Conn -> Asked] /\ sync \in [Conn -> {Idle} \cup Command]
      /\ Asking(p) /\ UNCHANGED <<repos, local>>
  BY ClientAsks DEF Next, Turn, Typing, TypeOK, ServerTypeOK, Asked
<1>2. c \in Command /\ c.step # "idle"
  <2>1. c.step # "idle"
    <3>1. CASE Renew(p) \/ RequestFailed(p)
      <4>1. req[p].step = "replied"
        BY <3>1 DEF Renew, RequestFailed, Replied
      <4>2. req[p] # Quiet
        BY <4>1 DEF Quiet
      <4> QED
        BY <1>1, <4>2 DEF Asking
    <3>2. CASE PutRepo(p) \/ PushRun(p) \/ PushStates(p) \/ Save(p) \/ Unreadable(p)
      BY <3>2 DEF PutRepo, PushRun, PushStates, Save, Unreadable
    <3>3. CASE ListRuns(p) \/ RunPushed(p) \/ RepoDone(p)
      BY <3>3 DEF ListRuns, RunPushed, RepoDone, Answered
    <3> QED
      BY <3>1, <3>2, <3>3 DEF ClientStep
  <2> QED
    BY <1>1, <2>1 DEF Idle
<1>3. /\ c.repo \in RepoID /\ c.listed \in Checkpoint /\ c.loaded \in Checkpoint
      /\ c.listed[c.repo] \in Nat
      /\ Pushing(p)
      /\ \A r \in RepoID : /\ HeldUpTo(r, c.loaded[r])
                           /\ Past(r, c.listed[r]) /\ Past(r, c.loaded[r])
  <2>1. c.repo \in RepoID /\ c.listed \in Checkpoint /\ c.loaded \in Checkpoint
    BY <1>2 DEF Command
  <2> QED
    BY <1>2, <2>1, Numbers DEF NothingSkipped, AllPast
<1>4. ASSUME NEW new, NEW q, sync' = [sync EXCEPT ![p] = new], req' = [req EXCEPT ![p] = q],
             checkpoint' = checkpoint, Promising(new), new.step # "running"
      PROVE  NothingSkipped'
  BY <1>1, <1>4, CommandMoves
<1>5. CASE PutRepo(p)
  <2>1. PICK r \in c.todo :
          Send(p, "linking", c.user, [op |-> "repo", repo |-> r, origin |-> Remote[r],
                                      lastRun |-> RunOf(r, c.listed[r])])
    BY <1>5 DEF PutRepo
  <2> DEFINE call == [op |-> "repo", repo |-> r, origin |-> Remote[r],
                      lastRun |-> RunOf(r, c.listed[r])]
             new == [c EXCEPT !.step = "linking", !.as = c.user, !.renewed = FALSE, !.repo = r]
             q == NewRequest(c.user, call)
  <2>2. /\ sync' = [sync EXCEPT ![p] = new] /\ req' = [req EXCEPT ![p] = q]
        /\ checkpoint' = checkpoint
    BY <2>1 DEF Send, outside
  <2>3. new.step = "linking" /\ new.listed = c.listed /\ new.loaded = c.loaded
    BY <1>2 DEF Command
  <2> HIDE DEF new, q
  <2>4. Promising(new)
    BY <1>3, <2>3 DEF Promising
  <2> QED
    BY <1>4, <2>2, <2>3, <2>4
<1>6. CASE ListRuns(p)
  <2> DEFINE new == [c EXCEPT !.step = "pushing", !.pending = RunsToSync(c.repo, c.loaded[c.repo])]
  <2>1. /\ sync' = [sync EXCEPT ![p] = new] /\ req' = [req EXCEPT ![p] = Quiet]
        /\ checkpoint' = checkpoint
    BY <1>6 DEF ListRuns, Answered, outside
  <2>2. /\ new.step = "pushing" /\ new.pending = RunsToSync(c.repo, c.loaded[c.repo])
        /\ new.repo = c.repo /\ new.listed = c.listed /\ new.loaded = c.loaded
    BY <1>2 DEF Command
  <2> HIDE DEF new
  <2>3. ASSUME NEW id \in IDs(c.repo) PROVE Held(c.repo, id) \/ id \in new.pending
    <3>1. id \in Nat /\ c.loaded[c.repo] \in Nat
      BY <1>2, <1>3, Numbers
    <3> QED
      BY <1>3, <2>2, <3>1 DEF RunsToSync, HeldUpTo
  <2>4. Promising(new)
    BY <1>3, <2>2, <2>3 DEF Promising
  <2> QED
    BY <1>4, <2>1, <2>2, <2>4
<1>7. CASE PushRun(p)
  <2> DEFINE call == [op |-> "run", repo |-> c.repo, run |-> <<c.repo, NextRun(p)>>]
             new == [c EXCEPT !.step = "running", !.as = c.as, !.renewed = FALSE,
                              !.repo = call.repo]
             q == NewRequest(c.as, call)
  <2>1. /\ sync' = [sync EXCEPT ![p] = new] /\ req' = [req EXCEPT ![p] = q]
        /\ checkpoint' = checkpoint /\ c.step = "pushing"
    BY <1>7 DEF PushRun, Send, outside
  <2>2. /\ new.step = "running" /\ new.pending = c.pending
        /\ new.repo = c.repo /\ new.listed = c.listed /\ new.loaded = c.loaded
    BY <1>2 DEF Command
  <2>3. q.step = "sent" /\ q.call.op = "run" /\ q.call.run = <<c.repo, NextRun(p)>>
    BY DEF NewRequest
  <2> HIDE DEF new, q
  <2>4. Promising(new)
    BY <1>3, <2>1, <2>2 DEF Promising, Pushing
  <2>5. NextRun(p)' = NextRun(p)
    BY <1>1, <2>1, <2>2 DEF NextRun
  <2> QED
    BY <1>1, <2>1, <2>2, <2>3, <2>4, <2>5, CommandMoves
<1>8. CASE RunPushed(p)
  <2> DEFINE new == [c EXCEPT !.step = "pushing", !.pending = c.pending \ {NextRun(p)}]
  <2>1. /\ sync' = [sync EXCEPT ![p] = new] /\ req' = [req EXCEPT ![p] = Quiet]
        /\ checkpoint' = checkpoint /\ c.step = "running" /\ Replied(p, "ok")
    BY <1>8 DEF RunPushed, Answered, outside, Replied
  <2>2. /\ new.step = "pushing" /\ new.pending = c.pending \ {NextRun(p)}
        /\ new.repo = c.repo /\ new.listed = c.listed /\ new.loaded = c.loaded
    BY <1>2 DEF Command
  <2> HIDE DEF new
  <2>3. Held(c.repo, NextRun(p))
    BY <1>3, <2>1 DEF Pushing
  <2>4. Promising(new)
    BY <1>3, <2>1, <2>2, <2>3 DEF Promising, Pushing
  <2> QED
    BY <1>4, <2>1, <2>2, <2>4
<1>9. CASE PushStates(p)
  <2> DEFINE call == [op |-> "states", repo |-> c.repo, index |-> history[c.repo].index]
             new == [c EXCEPT !.step = "stating", !.as = c.as, !.renewed = FALSE,
                              !.repo = call.repo]
             q == NewRequest(c.as, call)
  <2>1. /\ sync' = [sync EXCEPT ![p] = new] /\ req' = [req EXCEPT ![p] = q]
        /\ checkpoint' = checkpoint /\ c.step = "pushing" /\ c.pending = {}
    BY <1>9 DEF PushStates, Send, outside
  <2>2. /\ new.step = "stating" /\ new.repo = c.repo
        /\ new.listed = c.listed /\ new.loaded = c.loaded
    BY <1>2 DEF Command
  <2> HIDE DEF new, q
  <2>3. Promising(new)
    BY <1>3, <2>1, <2>2 DEF Promising, Pushing, HeldUpTo
  <2> QED
    BY <1>4, <2>1, <2>2, <2>3
<1>10. CASE RepoDone(p)
  <2> DEFINE r == c.repo
             to == IF NewCheckpoint(p) # 0 THEN NewCheckpoint(p) ELSE c.loaded[r]
             loaded == [c.loaded EXCEPT ![r] = to]
             new == [c EXCEPT !.step = "next", !.todo = c.todo \ {r}, !.loaded = loaded]
  <2>1. /\ sync' = [sync EXCEPT ![p].step = "next", ![p].todo = @ \ {r}, ![p].loaded[r] = to]
        /\ req' = [req EXCEPT ![p] = Quiet] /\ checkpoint' = checkpoint /\ c.step = "stating"
    BY <1>10 DEF RepoDone, Answered, outside
  <2>2. to \in {c.listed[r], c.loaded[r]}
    BY DEF NewCheckpoint
  <2> HIDE DEF to
  <2>3. sync' = [sync EXCEPT ![p] = new]
    BY <1>1, <1>2, <2>1 DEF Command
  <2>4. HeldUpTo(r, to) /\ Past(r, to)
    BY <1>3, <2>1, <2>2 DEF Pushing
  <2>5. \A s \in RepoID : HeldUpTo(s, loaded[s]) /\ Past(s, loaded[s])
    BY <1>3, <2>4 DEF Checkpoint
  <2> HIDE DEF loaded
  <2>6. new.step = "next" /\ new.listed = c.listed /\ new.loaded = loaded
    BY <1>2 DEF Command
  <2> HIDE DEF new
  <2>7. Promising(new)
    BY <1>3, <2>5, <2>6 DEF Promising
  <2> QED
    BY <1>4, <2>1, <2>3, <2>6, <2>7
<1>11. CASE Unreadable(p) \/ RequestFailed(p)
  <2> DEFINE new == [c EXCEPT !.step = "next", !.todo = c.todo \ {c.repo}]
  <2>1. GiveUp(p)
    BY <1>11 DEF Unreadable, RequestFailed
  <2>2. /\ sync' = [sync EXCEPT ![p] = new] /\ req' = [req EXCEPT ![p] = Quiet]
        /\ checkpoint' = checkpoint
    BY <2>1 DEF GiveUp, outside
  <2>3. new.step = "next" /\ new.listed = c.listed /\ new.loaded = c.loaded
    BY <1>2 DEF Command
  <2> HIDE DEF new
  <2>4. Promising(new)
    BY <1>3, <2>3 DEF Promising
  <2> QED
    BY <1>4, <2>2, <2>3, <2>4
<1>12. CASE Renew(p)
  <2> DEFINE u == account[MachineOf[p]]
             new == [c EXCEPT !.as = u, !.renewed = TRUE]
             q == NewRequest(u, req[p].call)
  <2>1. /\ sync' = [sync EXCEPT ![p] = new] /\ req' = [req EXCEPT ![p] = q]
        /\ checkpoint' = checkpoint
    BY <1>12 DEF Renew, outside
  <2>2. /\ new.step = c.step /\ new.repo = c.repo /\ new.pending = c.pending
        /\ new.listed = c.listed /\ new.loaded = c.loaded
    BY <1>2 DEF Command
  <2>3. q.step = "sent" /\ q.call = req[p].call
    BY DEF NewRequest
  <2> HIDE DEF new, q
  <2>4. Promising(new)
    BY <1>3, <2>2 DEF Promising, Pushing
  <2>5. NextRun(p)' = NextRun(p)
    BY <1>1, <2>1, <2>2 DEF NextRun
  <2>6. c.step = "running" => q.call.op = "run" /\ q.call.run = <<c.repo, NextRun(p)>>
    BY <1>3, <2>3 DEF Pushing
  <2> QED
    BY <1>1, <2>1, <2>2, <2>3, <2>4, <2>5, <2>6, CommandMoves
<1>13. CASE Save(p)
  <2>1. /\ checkpoint' = [checkpoint EXCEPT ![MachineOf[p]] = c.loaded]
        /\ sync' = [sync EXCEPT ![p] = Idle] /\ req' = [req EXCEPT ![p] = req[p]]
    BY <1>1, <1>13 DEF Save, serverVars
  <2>2. \A m \in Machine : \/ checkpoint'[m] = checkpoint[m]
                          \/ \E d \in Conn : /\ sync[d].step # "idle"
                                             /\ checkpoint'[m] = sync[d].loaded
    BY <1>2, <2>1 DEF Typing, TypeOK
  <2>3. Idle.step = "idle"
    BY DEF Idle
  <2> QED
    BY <1>1, <2>1, <2>2, <2>3, CommandMoves
<1> QED
  BY <1>5, <1>6, <1>7, <1>8, <1>9, <1>10, <1>11, <1>12, <1>13 DEF ClientStep

-----------------------------------------------------------------------------
(* Whatever else happens.                                                  *)
LEMMA StepSkipsNothing == Typing /\ NothingSkipped /\ [Next]_vars => NothingSkipped'
<1> SUFFICES ASSUME Typing, NothingSkipped, [Next]_vars PROVE NothingSkipped'
  OBVIOUS
<1>1. req \in [Conn -> Asked] /\ checkpoint \in [Machine -> Checkpoint]
  BY DEF Typing, TypeOK, ServerTypeOK, Asked
<1>2. CASE sync' = sync /\ req' = req /\ checkpoint' = checkpoint
  BY <1>2, NoCommandMoves DEF Replied
<1>3. ASSUME NEW m \in Machine, LoseCheckpoint(m) PROVE NothingSkipped'
  <2>1. /\ checkpoint' = [checkpoint EXCEPT ![m] = NoCheckpoint]
        /\ sync' = sync /\ req' = req
    BY <1>3 DEF LoseCheckpoint, serverVars
  <2>2. \A r \in RepoID : NoCheckpoint[r] = 0
    BY DEF NoCheckpoint
  <2>3. \A n \in Machine : \/ checkpoint'[n] = checkpoint[n]
                          \/ \A r \in RepoID : checkpoint'[n][r] = 0
    BY <1>1, <2>1, <2>2
  <2> QED
    BY <2>1, <2>3, NoCommandMoves DEF Replied
<1>4. ASSUME NEW p \in Conn, Unauthorized(p) \/ FailRequest(p),
             UNCHANGED <<local, account, checkpoint, sync>>
      PROVE  NothingSkipped'
  <2>1. PICK status \in {"unauthorized", "error"} : req' = [req EXCEPT ![p] = Answer(p, status)]
    BY <1>4 DEF Unauthorized, FailRequest
  <2>2. \A d \in Conn : req'[d].call = req[d].call /\ (Replied(d, "ok")' => Replied(d, "ok"))
    BY <1>1, <2>1 DEF Answer, Replied
  <2> QED
    BY <1>4, <2>2, NoCommandMoves
<1>5. ASSUME NEW p \in Conn, Start(p) PROVE NothingSkipped'
  <2>1. PICK new \in Command :
          /\ sync' = [sync EXCEPT ![p] = new] /\ new.step = "next"
          /\ new.loaded = checkpoint[MachineOf[p]]
          /\ \A r \in RepoID : new.listed[r] = 0 \/ new.listed[r] = LastID(r)
    BY <1>5, CommandBegins
  <2>2. /\ UNCHANGED <<repos, local>> /\ checkpoint' = checkpoint /\ req' = [req EXCEPT ![p] = req[p]]
    BY <1>1, <1>5 DEF Start, outside
  <2>3. MachineOf[p] \in Machine
    BY SyncAssumption
  <2>4. ASSUME NEW r \in RepoID PROVE Past(r, new.listed[r])
    <3>1. clock[HomeOf[r]] \in Nat /\ (LastID(r) = 0 \/ LastID(r) \in IDs(r))
      BY Numbers
    <3>2. LastID(r) = 0 \/ Past(r, LastID(r))
      BY <3>1 DEF NothingSkipped, AllPast
    <3> QED
      BY <2>1, <3>1, <3>2 DEF Past
  <2>5. Promising(new)
    BY <2>1, <2>3, <2>4 DEF Promising, NothingSkipped, AllPast
  <2> QED
    BY <2>1, <2>2, <2>5, CommandMoves
<1>6. ASSUME NEW p \in Conn, Crash(p) PROVE NothingSkipped'
  <2>1. /\ sync' = [sync EXCEPT ![p] = Idle] /\ req' = [req EXCEPT ![p] = Quiet]
        /\ UNCHANGED <<repos, local>> /\ checkpoint' = checkpoint
    BY <1>6 DEF Crash, outside
  <2>2. Idle.step = "idle"
    BY DEF Idle
  <2> QED
    BY <2>1, <2>2, CommandMoves
<1>7. ASSUME NEW r \in RepoID, Record(r) \/ Prune(r) \/ Forget(r) \/ Damage(r)
      PROVE  NothingSkipped'
  BY <1>2, <1>7 DEF Record, Prune, Forget, Damage, serverVars
<1>8. ASSUME NEW m \in Machine, (\E u \in User : Login(m, u)) \/ Logout(m) PROVE NothingSkipped'
  BY <1>2, <1>8 DEF Login, Logout, serverVars
<1>9. ASSUME NEW p \in Conn, Turn(p) PROVE NothingSkipped'
  BY <1>9, ServerSkipsNothing, ClientSkipsNothing DEF Turn
<1>10. CASE UNCHANGED vars
  BY <1>2, <1>10 DEF vars, serverVars
<1>11. CASE Mishap
  <2>1. CASE \E r \in RepoID : Prune(r) \/ Forget(r) \/ Damage(r)
    BY <1>7, <2>1
  <2>2. CASE \E m \in Machine : (\E u \in User : Login(m, u)) \/ Logout(m) \/ LoseCheckpoint(m)
    BY <1>3, <1>8, <2>2
  <2>3. CASE \E p \in Conn : \/ Crash(p)
                            \/ /\ Unauthorized(p) \/ FailRequest(p)
                               /\ UNCHANGED <<local, account, checkpoint, sync>>
    BY <1>4, <1>6, <2>3
  <2>4. ASSUME NEW m \in Eventful \ Machine,
               (\E u \in User : Login(m, u)) \/ Logout(m) \/ LoseCheckpoint(m)
        PROVE  NothingSkipped'
    <3>1. /\ sync' = sync /\ req' = req
          /\ \A n \in Machine : checkpoint'[n] = checkpoint[n]
      BY <1>1, <2>4 DEF Login, Logout, LoseCheckpoint, serverVars
    <3> QED
      BY <3>1, NoCommandMoves DEF Replied
  <2> QED
    BY <1>11, <2>1, <2>2, <2>3, <2>4 DEF Mishap
<1> QED
  BY <1>5, <1>7, <1>9, <1>10, <1>11 DEF Next

(* What a machine takes for uploaded, and so never sends again, the server *)
(* holds: whatever failed, crashed, was recorded, pruned or forgotten, and *)
(* in whichever order several processes of the machine saved.              *)
THEOREM UploadsAreHeld == Spec => []UploadedIsHeld
<1>1. Init => NothingSkipped
  <2> SUFFICES ASSUME Init PROVE NothingSkipped
    OBVIOUS
  <2>1. \A r \in RepoID : IDs(r) = {} /\ clock[HomeOf[r]] = 0
    BY SyncAssumption DEF Init, IDs, ToSet
  <2>2. \A m \in Machine, r \in RepoID : checkpoint[m][r] = 0
    BY DEF Init, NoCheckpoint
  <2>3. \A p \in Conn : sync[p].step = "idle"
    BY DEF Init, Idle
  <2> QED
    BY <2>1, <2>2, <2>3 DEF NothingSkipped, AllPast, HeldUpTo, Past
<1>2. NothingSkipped => UploadedIsHeld
  BY SyncAssumption DEF NothingSkipped, UploadedIsHeld, Uploaded, HeldUpTo, Held
<1> QED
  BY <1>1, <1>2, InitTyped, StepTyped, StepSkipsNothing, PTL DEF Spec

-----------------------------------------------------------------------------
(* What requests ask for: the command of a machine speaks of repositories  *)
(* of that machine, and of their own remote, runs and index.               *)
IsRunOf(run, r) == run = <<r, run[2]>>

IsIndexOf(index, r) ==
  \E id : \A fp \in Fingerprint : index[fp] \in {Unseen, <<r, id>>}

Truthful(call) ==
  LET r == call.repo
  IN  /\ call.op = "repo" =>
           /\ call.origin = Remote[r]
           /\ call.lastRun = NoRun \/ IsRunOf(call.lastRun, r)
      /\ call.op = "run" => IsRunOf(call.run, r)
      /\ call.op = "states" => IsIndexOf(call.index, r)

AsksTruly ==
  /\ \A r \in RepoID : IsIndexOf(history[r].index, r)
  /\ \A p \in Conn : sync[p].step # "idle" =>
       \A r \in sync[p].todo \cup {sync[p].repo} : HomeOf[r] = MachineOf[p]
  /\ \A p \in Conn : req[p].step # "none" =>
       Truthful(req[p].call) /\ HomeOf[req[p].call.repo] = MachineOf[p]

(* Where rows stand: a link leads to a row of its user and its remote, the *)
(* runs of a repository lie in rows of its remote, and a request that has  *)
(* found its row has found such a one.                                     *)
Leads(u, r, i) ==
  i \in DOMAIN repos /\ repos[i].org = u /\ repos[i].origin = Remote[r]

Resolved(c) ==
  req[c].step = "resolved" =>
    LET r == req[c].call.repo
        u == req[c].user
    IN  /\ req[c].call.op = "repo" => req[c].row = NoRow \/ Leads(u, r, req[c].row)
        /\ req[c].call.op = "run" => Leads(u, r, req[c].row) /\ links[u][r] # NoRow

LinksLead == \A u \in User, r \in RepoID : links[u][r] = NoRow \/ Leads(u, r, links[u][r])

RunsPlaced ==
  \A i \in DOMAIN repos, r \in RepoID, id \in ID : <<r, id>> \in repos[i].runs =>
    repos[i].origin = Remote[r] /\ links[repos[i].org][r] # NoRow

LastPlaced ==
  \A i \in DOMAIN repos : \/ repos[i].lastRun = NoRun
                          \/ \E r \in RepoID : IsRunOf(repos[i].lastRun, r)
                                               /\ repos[i].origin = Remote[r]

Placed == LinksLead /\ RunsPlaced /\ LastPlaced /\ \A c \in Conn : Resolved(c)

(* While a request replaces an index, what is stored of its repository is  *)
(* what it has deleted or waits for.                                       *)
TakesAll ==
  \A c \in Conn : req[c].step \in {"waiting", "deleted"} =>
    \A fp \in Stored(req[c].row) :
      repos[req[c].row].states[fp][1] = req[c].call.repo => fp \in req[c].gone

-----------------------------------------------------------------------------
(* A call is only ever made up by its client, and then stays as it is.     *)
LEMMA CallsStay ==
  ASSUME Typing, [Next]_vars, NEW d \in Conn, req'[d].step # "none",
         ~ (PutRepo(d) \/ PushRun(d) \/ PushStates(d))
  PROVE  req[d].step # "none" /\ req'[d].call = req[d].call
<1>1. req \in [Conn -> Asked]
  BY DEF Typing, TypeOK, ServerTypeOK, Asked
<1>2. CASE req'[d] = req[d]
  BY <1>2
<1>3. ASSUME NEW c \in Conn, ServerStep(c) PROVE req[d].step # "none" /\ req'[d].call = req[d].call
  <2>1. CASE c # d
    <3>1. CASE Waits(d, req[c].row) /\ req'[d] = [req[d] EXCEPT !.gone = @ \ req[c].gone]
      <4>1. req[d] \in Request /\ req[d].step = "waiting"
        BY <1>1, <3>1, RequestUnderway DEF Waits, Underway
      <4> QED
        BY <3>1, <4>1 DEF Request
    <3> QED
      BY <1>2, <1>3, <2>1, <3>1, OthersStay
  <2>2. CASE c = d
    <3>1. req[d].step \in Underway
      BY <1>3, <2>2 DEF ServerStep, EnsurePersonalOrg, CreateOrg, LinkMatch, LinkRepo,
         ResolveRepoLink, PutRun, DeleteStates, ResumeDelete, InsertStates, At, Underway
    <3>2. req[d] \in Request /\ req[d].step # "none"
      BY <1>1, <3>1, RequestUnderway DEF Underway
    <3>3. CASE LinkRepo(d) \/ PutRun(d) \/ InsertStates(d)
      <4>1. req'[d] = Answer(d, "ok") \/ req'[d] = Answer(d, "error")
        BY <1>1, <3>3 DEF LinkRepo, PutRun, InsertStates
      <4> QED
        BY <3>2, <4>1 DEF Answer
    <3>4. CASE EnsurePersonalOrg(d) \/ CreateOrg(d) \/ ResumeDelete(d)
      BY <1>1, <3>2, <3>4 DEF EnsurePersonalOrg, CreateOrg, ResumeDelete, Request
    <3>5. CASE LinkMatch(d) \/ ResolveRepoLink(d)
      <4>1. PICK i : \/ req' = [req EXCEPT ![d] = Answer(d, "not found")]
                     \/ req' = [req EXCEPT ![d].step = "resolved", ![d].row = i]
        BY <3>5 DEF LinkMatch, ResolveRepoLink
      <4>2. CASE req' = [req EXCEPT ![d] = Answer(d, "not found")]
        BY <1>1, <3>2, <4>2 DEF Answer
      <4>3. CASE req' = [req EXCEPT ![d].step = "resolved", ![d].row = i]
        BY <1>1, <3>2, <4>3 DEF Request
      <4> QED
        BY <4>1, <4>2, <4>3
    <3>6. CASE DeleteStates(d)
      <4>1. PICK s, gone : req' = [req EXCEPT ![d].step = s, ![d].gone = gone]
        BY <3>6 DEF DeleteStates
      <4> QED
        BY <1>1, <3>2, <4>1 DEF Request
    <3> QED
      BY <1>3, <2>2, <3>2, <3>3, <3>4, <3>5, <3>6 DEF ServerStep
  <2> QED
    BY <2>1, <2>2
<1>4. ASSUME NEW p \in Conn, ClientStep(p) PROVE req[d].step # "none" /\ req'[d].call = req[d].call
  <2>1. CASE p # d
    BY <1>2, <1>4, <2>1, ClientAsks
  <2>2. CASE p = d
    <3>1. CASE Renew(d)
      <4>1. req[d].step = "replied" /\ req'[d].call = req[d].call
        BY <1>1, <3>1 DEF Renew, Replied, NewRequest
      <4> QED
        BY <4>1
    <3>2. CASE Save(d)
      BY <1>2, <3>2 DEF Save, serverVars
    <3>3. CASE ListRuns(d) \/ RunPushed(d) \/ RepoDone(d) \/ Unreadable(d) \/ RequestFailed(d)
      <4>1. req'[d] = Quiet
        BY <1>1, <3>3 DEF ListRuns, RunPushed, RepoDone, Unreadable, RequestFailed, Answered, GiveUp
      <4> QED
        BY <4>1 DEF Quiet
    <3> QED
      BY <1>4, <2>2, <3>1, <3>2, <3>3 DEF ClientStep
  <2> QED
    BY <2>1, <2>2
<1>5. ASSUME NEW p \in Conn, Crash(p) \/ Unauthorized(p) \/ FailRequest(p)
      PROVE  req[d].step # "none" /\ req'[d].call = req[d].call
  <2>1. CASE p # d
    BY <1>1, <1>2, <1>5, <2>1 DEF Crash, Unauthorized, FailRequest
  <2>2. CASE p = d /\ Crash(d)
    BY <1>1, <2>2 DEF Crash, Quiet
  <2>3. CASE p = d /\ (Unauthorized(d) \/ FailRequest(d))
    BY <1>1, <2>3 DEF Unauthorized, FailRequest, Answer
  <2> QED
    BY <1>5, <2>1, <2>2, <2>3
<1>6. CASE req' = req
  BY <1>2, <1>6
<1>7. \/ \E p \in Conn : ServerStep(p) \/ ClientStep(p) \/ Crash(p) \/ Unauthorized(p) \/ FailRequest(p)
      \/ req' = req
  BY DEF Next, Turn, Mishap, Record, Prune, Forget, Damage, Login, Logout, LoseCheckpoint,
     Start, outside, vars, serverVars
<1> QED
  BY <1>3, <1>4, <1>5, <1>6, <1>7

(* A command stays with the repositories it began with.                    *)
LEMMA CommandsStay ==
  ASSUME Typing, [Next]_vars, NEW d \in Conn, sync'[d].step # "idle"
  PROVE  \/ /\ sync[d].step # "idle"
            /\ sync'[d].todo \cup {sync'[d].repo} \subseteq sync[d].todo \cup {sync[d].repo}
         \/ \A r \in sync'[d].todo \cup {sync'[d].repo} : HomeOf[r] = MachineOf[d]
<1> DEFINE Ours == sync[d].todo \cup {sync[d].repo}
           Stays == /\ sync[d].step # "idle"
                    /\ sync'[d].todo \cup {sync'[d].repo} \subseteq Ours
<1>1. sync \in [Conn -> {Idle} \cup Command] /\ req \in [Conn -> Asked]
  BY DEF Typing, TypeOK, ServerTypeOK, Asked
<1>2. CASE sync'[d] = sync[d]
  BY <1>2
<1>3. CASE Start(d)
  <2>1. PICK new \in Command :
          /\ sync' = [sync EXCEPT ![d] = new] /\ new.repo \in new.todo
          /\ \A r \in new.todo : HomeOf[r] = MachineOf[d]
    BY <1>3, CommandBegins
  <2> QED
    BY <1>1, <2>1
<1>4. CASE ClientStep(d)
  <2>1. CASE sync[d].step = "idle"
    <3>1. req[d] = Quiet
      BY <1>1, <2>1 DEF Typing, Asking
    <3> QED
      BY <1>4, <2>1, <3>1 DEF ClientStep, PutRepo, ListRuns, PushRun, RunPushed, PushStates,
         RepoDone, Unreadable, Renew, RequestFailed, Save, Answered, Replied, Quiet
  <2>2. CASE sync[d].step # "idle"
    <3>1. sync[d] \in Command
      BY <1>1, <2>2 DEF Idle
    <3>2. CASE PutRepo(d)
      <4>1. PICK r, u : r \in sync[d].todo /\ sync' =
              [sync EXCEPT ![d].step = "linking", ![d].as = u, ![d].renewed = FALSE, ![d].repo = r]
        BY <3>2 DEF PutRepo, Send
      <4> QED
        BY <1>1, <2>2, <3>1, <4>1 DEF Command
    <3>3. CASE PushRun(d) \/ PushStates(d)
      <4>1. PICK s, call : Send(d, s, sync[d].as, call) /\ call.repo = sync[d].repo
        <5>1. CASE PushRun(d)
          <6> DEFINE call == [op |-> "run", repo |-> sync[d].repo, run |-> <<sync[d].repo, NextRun(d)>>]
          <6>1. Send(d, "running", sync[d].as, call) /\ call.repo = sync[d].repo
            BY <5>1 DEF PushRun
          <6> HIDE DEF call
          <6> QED
            BY <6>1
        <5>2. CASE PushStates(d)
          <6> DEFINE call == [op |-> "states", repo |-> sync[d].repo,
                              index |-> history[sync[d].repo].index]
          <6>1. Send(d, "stating", sync[d].as, call) /\ call.repo = sync[d].repo
            BY <5>2 DEF PushStates
          <6> HIDE DEF call
          <6> QED
            BY <6>1
        <5> QED
          BY <3>3, <5>1, <5>2
      <4>2. sync' = [sync EXCEPT ![d].step = s, ![d].as = sync[d].as, ![d].renewed = FALSE,
                                 ![d].repo = sync[d].repo]
        BY <4>1 DEF Send
      <4> QED
        BY <1>1, <2>2, <3>1, <4>2 DEF Command
    <3>4. CASE ListRuns(d) \/ RunPushed(d)
      <4>1. PICK some : sync' = [sync EXCEPT ![d].step = "pushing", ![d].pending = some]
        BY <3>4 DEF ListRuns, RunPushed
      <4> QED
        BY <1>1, <2>2, <3>1, <4>1 DEF Command
    <3>5. CASE RepoDone(d)
      <4>1. PICK n : sync' = [sync EXCEPT ![d].step = "next", ![d].todo = @ \ {sync[d].repo},
                                          ![d].loaded[sync[d].repo] = n]
        BY <3>5 DEF RepoDone
      <4> QED
        BY <1>1, <2>2, <3>1, <4>1 DEF Command
    <3>6. CASE Unreadable(d) \/ RequestFailed(d)
      <4>1. sync' = [sync EXCEPT ![d].step = "next", ![d].todo = @ \ {sync[d].repo}]
        BY <3>6 DEF Unreadable, RequestFailed, GiveUp
      <4> QED
        BY <1>1, <2>2, <3>1, <4>1 DEF Command
    <3>7. CASE Renew(d)
      <4>1. PICK u : sync' = [sync EXCEPT ![d].as = u, ![d].renewed = TRUE]
        BY <3>7 DEF Renew
      <4> QED
        BY <1>1, <2>2, <3>1, <4>1 DEF Command
    <3>8. CASE Save(d)
      BY <1>1, <3>8 DEF Save, Idle
    <3> QED
      BY <1>4, <3>2, <3>3, <3>4, <3>5, <3>6, <3>7, <3>8 DEF ClientStep
  <2> QED
    BY <2>1, <2>2
<1>5. ASSUME NEW p \in Conn, p # d, Start(p) \/ ClientStep(p) \/ Crash(p) PROVE sync'[d] = sync[d]
  BY <1>1, <1>5 DEF Start, ClientStep, PutRepo, ListRuns, PushRun, RunPushed, PushStates,
     RepoDone, Unreadable, Renew, RequestFailed, Save, Send, GiveUp, Crash
<1>6. CASE Crash(d)
  BY <1>1, <1>6 DEF Crash, Idle
<1>7. \/ \E p \in Conn : Start(p) \/ ClientStep(p) \/ Crash(p)
      \/ sync' = sync
  BY DEF Next, Turn, Mishap, Record, Prune, Forget, Damage, Login, Logout, LoseCheckpoint,
     elsewhere, vars, serverVars
<1> QED
  BY <1>2, <1>3, <1>4, <1>5, <1>6, <1>7

LEMMA IndexesStay ==
  ASSUME Typing, [Next]_vars, NEW r \in RepoID, IsIndexOf(history[r].index, r)
  PROVE  IsIndexOf(history'[r].index, r)
<1>1. history \in [RepoID -> [runs : Seq(LocalRun), index : Index]]
  BY DEF Typing, TypeOK
<1>2. CASE history'[r] = history[r]
  BY <1>2
<1>3. ASSUME NEW s \in RepoID, Record(s) PROVE IsIndexOf(history'[r].index, r)
  <2> DEFINE id == clock[HomeOf[s]] + 1
  <2>1. PICK reported : history' = [history EXCEPT
             ![s].runs = Append(@, [id |-> id, readable |-> TRUE]),
             ![s].index = [fp \in Fingerprint |->
                             IF fp \in reported \/ @[fp] # Unseen THEN <<s, id>> ELSE Unseen]]
    BY <1>3 DEF Record
  <2> HIDE DEF id
  <2>2. CASE s = r
    <3>1. history'[r].index = [fp \in Fingerprint |->
            IF fp \in reported \/ history[r].index[fp] # Unseen THEN <<r, id>> ELSE Unseen]
      BY <1>1, <2>1, <2>2
    <3> QED
      BY <3>1 DEF IsIndexOf
  <2>3. CASE s # r
    BY <1>1, <1>2, <2>1, <2>3
  <2> QED
    BY <2>2, <2>3
<1>4. ASSUME NEW s \in RepoID, Prune(s) \/ Damage(s) PROVE IsIndexOf(history'[r].index, r)
  <2>1. \E new : history' = [history EXCEPT ![s].runs = new]
    <3>1. CASE Prune(s)
      BY <3>1 DEF Prune
    <3>2. CASE Damage(s)
      <4>1. PICK i \in DOMAIN history[s].runs :
              history' = [history EXCEPT ![s].runs[i].readable = FALSE]
        BY <3>2 DEF Damage
      <4> QED
        BY <1>1, <4>1
    <3> QED
      BY <1>4, <3>1, <3>2
  <2>2. history'[r].index = history[r].index
    BY <1>1, <2>1
  <2> QED
    BY <2>2
<1>5. ASSUME NEW s \in RepoID, Forget(s) PROVE IsIndexOf(history'[r].index, r)
  <2>1. history' = [history EXCEPT ![s] = [runs |-> <<>>, index |-> NoIndex]]
    BY <1>5 DEF Forget
  <2>2. CASE s = r
    <3>1. history'[r].index = NoIndex
      BY <1>1, <2>1, <2>2
    <3> QED
      BY <3>1 DEF IsIndexOf, NoIndex
  <2>3. CASE s # r
    BY <1>1, <1>2, <2>1, <2>3
  <2> QED
    BY <2>2, <2>3
<1>6. \/ \E s \in RepoID : Record(s) \/ Prune(s) \/ Forget(s) \/ Damage(s)
      \/ history' = history
  <2>1. ASSUME NEW p \in Conn, ClientStep(p) PROVE UNCHANGED local
    BY <2>1, ClientAsks
  <2> QED
    BY <2>1 DEF Next, Turn, Mishap, Start, Login, Logout, LoseCheckpoint, Crash,
       outside, elsewhere, vars, local
<1> QED
  BY <1>2, <1>3, <1>4, <1>5, <1>6

LEMMA AsksTrulyStays == Typing /\ AsksTruly /\ [Next]_vars => AsksTruly'
<1> SUFFICES ASSUME Typing, AsksTruly, [Next]_vars PROVE AsksTruly'
  OBVIOUS
<1>1. req \in [Conn -> Asked] /\ sync \in [Conn -> {Idle} \cup Command]
  BY DEF Typing, TypeOK, ServerTypeOK, Asked
<1>2. \A r \in RepoID : IsIndexOf(history'[r].index, r)
  BY IndexesStay DEF AsksTruly
<1>3. ASSUME NEW p \in Conn, sync'[p].step # "idle"
      PROVE  \A r \in sync'[p].todo \cup {sync'[p].repo} : HomeOf[r] = MachineOf[p]
  BY <1>3, CommandsStay DEF AsksTruly
<1>4. ASSUME NEW p \in Conn, req'[p].step # "none"
      PROVE  Truthful(req'[p].call) /\ HomeOf[req'[p].call.repo] = MachineOf[p]
  <2>1. CASE PutRepo(p)
    <3>1. PICK r \in sync[p].todo :
            Send(p, "linking", sync[p].user, [op |-> "repo", repo |-> r, origin |-> Remote[r],
                                              lastRun |-> RunOf(r, sync[p].listed[r])])
      BY <2>1 DEF PutRepo
    <3> DEFINE call == [op |-> "repo", repo |-> r, origin |-> Remote[r],
                        lastRun |-> RunOf(r, sync[p].listed[r])]
    <3>2. req'[p].call = call
      BY <1>1, <3>1 DEF Send, NewRequest
    <3>3. Truthful(call) /\ call.repo = r
      BY DEF Truthful, RunOf, IsRunOf
    <3>4. HomeOf[r] = MachineOf[p]
      BY <2>1, <3>1 DEF PutRepo, AsksTruly
    <3> QED
      BY <3>2, <3>3, <3>4
  <2>2. CASE PushRun(p)
    <3> DEFINE call == [op |-> "run", repo |-> sync[p].repo, run |-> <<sync[p].repo, NextRun(p)>>]
    <3>1. req'[p].call = call
      BY <1>1, <2>2 DEF PushRun, Send, NewRequest
    <3>2. Truthful(call) /\ call.repo = sync[p].repo
      BY DEF Truthful, IsRunOf
    <3>3. HomeOf[sync[p].repo] = MachineOf[p]
      BY <2>2 DEF PushRun, AsksTruly
    <3> QED
      BY <3>1, <3>2, <3>3
  <2>3. CASE PushStates(p)
    <3> DEFINE call == [op |-> "states", repo |-> sync[p].repo,
                        index |-> history[sync[p].repo].index]
    <3>1. req'[p].call = call
      BY <1>1, <2>3 DEF PushStates, Send, NewRequest
    <3>2. sync[p].step # "idle" /\ sync[p].repo \in RepoID
      BY <1>1, <2>3 DEF PushStates, Idle, Command
    <3>3. Truthful(call) /\ call.repo = sync[p].repo
      BY <3>2 DEF Truthful, AsksTruly
    <3>4. HomeOf[sync[p].repo] = MachineOf[p]
      BY <3>2 DEF AsksTruly
    <3> QED
      BY <3>1, <3>3, <3>4
  <2>4. CASE ~ (PutRepo(p) \/ PushRun(p) \/ PushStates(p))
    BY <1>4, <2>4, CallsStay DEF AsksTruly
  <2> QED
    BY <2>1, <2>2, <2>3, <2>4
<1> QED
  BY <1>2, <1>3, <1>4 DEF AsksTruly

LEMMA InitAsksTruly == Init => AsksTruly
<1> SUFFICES ASSUME Init PROVE AsksTruly
  OBVIOUS
<1>1. ASSUME NEW r \in RepoID PROVE IsIndexOf(history[r].index, r)
  <2>1. history[r].index = NoIndex
    BY DEF Init
  <2>2. \A fp \in Fingerprint : NoIndex[fp] \in {Unseen, <<r, 0>>}
    BY DEF NoIndex
  <2> QED
    BY <2>1, <2>2 DEF IsIndexOf
<1>2. \A p \in Conn : sync[p].step = "idle" /\ req[p].step = "none"
  BY DEF Init, InitServer, Quiet, Idle
<1> QED
  BY <1>1, <1>2 DEF AsksTruly

-----------------------------------------------------------------------------
(* What rows and links keep, once there.                                   *)
RowsStand ==
  /\ \A i \in DOMAIN repos : /\ i \in DOMAIN repos'
                             /\ repos'[i].org = repos[i].org
                             /\ repos'[i].origin = repos[i].origin
  /\ \A u \in User, r \in RepoID : links[u][r] # NoRow => links'[u][r] # NoRow

LEMMA LeadsStays ==
  ASSUME RowsStand, NEW u, NEW r, NEW i, Leads(u, r, i) PROVE Leads(u, r, i)'
BY DEF RowsStand, Leads

LEMMA ResolvedStays ==
  ASSUME RowsStand, NEW d \in Conn, req[d] \in Asked, Resolved(d),
         \/ req'[d] = req[d]
         \/ req'[d].step # "resolved"
  PROVE  Resolved(d)'
<1> SUFFICES ASSUME req'[d].step = "resolved" PROVE Resolved(d)'
  BY DEF Resolved
<1>1. req'[d] = req[d] /\ req[d] \in Request
  BY RequestUnderway DEF Underway
<1>2. req[d].user \in User /\ req[d].call.repo \in RepoID
  BY <1>1 DEF Request, Call
<1>3. /\ req[d].call.op = "repo" =>
           req[d].row = NoRow \/ Leads(req[d].user, req[d].call.repo, req[d].row)
      /\ req[d].call.op = "run" =>
           /\ Leads(req[d].user, req[d].call.repo, req[d].row)
           /\ links[req[d].user][req[d].call.repo] # NoRow
  BY <1>1 DEF Resolved
<1>4. links[req[d].user][req[d].call.repo] # NoRow
        => links'[req[d].user][req[d].call.repo] # NoRow
  BY <1>2 DEF RowsStand
<1>5. Leads(req[d].user, req[d].call.repo, req[d].row)
        => Leads(req[d].user, req[d].call.repo, req[d].row)'
  BY LeadsStays
<1> QED
  BY <1>1, <1>3, <1>4, <1>5 DEF Resolved

(* The runs of rows are rows' runs: what a step adds to none of them, or   *)
(* to one of them.                                                         *)
GetsRun(k, run) ==
  \A i \in DOMAIN repos' :
    \/ i \in DOMAIN repos /\ repos'[i].runs = repos[i].runs
    \/ i = k /\ i \in DOMAIN repos /\ repos'[i].runs = repos[i].runs \cup {run}
    \/ repos'[i].runs = {}

NamesRunOf(r) ==
  \A i \in DOMAIN repos' :
    \/ i \in DOMAIN repos /\ repos'[i].lastRun = repos[i].lastRun
    \/ repos'[i].lastRun = NoRun
    \/ IsRunOf(repos'[i].lastRun, r) /\ repos'[i].origin = Remote[r]

Fits(k, run, r) ==
  IsRunOf(run, r) /\ repos[k].origin = Remote[r] /\ links[repos[k].org][r] # NoRow

LEMMA RowsPlacedStay ==
  ASSUME RowsStand, Typing, RunsPlaced, LastPlaced,
         NEW k, NEW run, NEW s \in RepoID,
         \A i \in DOMAIN repos : repos[i].org \in User,
         GetsRun(k, run), NamesRunOf(s),
         k \in DOMAIN repos => Fits(k, run, s)
  PROVE  RunsPlaced' /\ LastPlaced'
<1>1. ASSUME NEW i \in DOMAIN repos', NEW r \in RepoID, NEW id \in ID, <<r, id>> \in repos'[i].runs
      PROVE  repos'[i].origin = Remote[r] /\ links'[repos'[i].org][r] # NoRow
  <2>1. i \in DOMAIN repos /\ repos'[i].org = repos[i].org /\ repos'[i].origin = repos[i].origin
        /\ repos[i].org \in User
    BY <1>1 DEF RowsStand, GetsRun
  <2>2. CASE <<r, id>> \in repos[i].runs
    BY <2>1, <2>2 DEF RunsPlaced, RowsStand
  <2>3. CASE i = k /\ <<r, id>> = run
    <3>1. IsRunOf(run, s) /\ repos[k].origin = Remote[s] /\ links[repos[k].org][s] # NoRow
      BY <2>1, <2>3 DEF Fits
    <3>2. s = r
      BY <2>3, <3>1 DEF IsRunOf
    <3> QED
      BY <2>1, <2>3, <3>1, <3>2 DEF RowsStand
  <2> QED
    BY <1>1, <2>2, <2>3 DEF GetsRun
<1>2. ASSUME NEW i \in DOMAIN repos'
      PROVE  \/ repos'[i].lastRun = NoRun
             \/ \E r \in RepoID : IsRunOf(repos'[i].lastRun, r) /\ repos'[i].origin = Remote[r]
  <2>1. CASE i \in DOMAIN repos /\ repos'[i].lastRun = repos[i].lastRun
    BY <2>1 DEF LastPlaced, RowsStand
  <2> QED
    BY <2>1 DEF NamesRunOf
<1>3. RunsPlaced'
  BY <1>1 DEF RunsPlaced
<1>4. LastPlaced'
  BY <1>2 DEF LastPlaced
<1> QED
  BY <1>3, <1>4

(* Steps that change neither rows nor links.                               *)
LEMMA NothingMovesPlaces ==
  ASSUME Placed, UNCHANGED <<repos, links>>, \A c \in Conn : Resolved(c)' PROVE Placed'
<1>1. LinksLead' /\ RunsPlaced' /\ LastPlaced'
  BY DEF Placed, LinksLead, RunsPlaced, LastPlaced, Leads
<1> QED
  BY <1>1 DEF Placed

LEMMA ServerKeepsPlaces ==
  ASSUME Typing, AsksTruly, Placed, NEW c \in Conn, ServerStep(c) PROVE Placed'
<1> DEFINE u == req[c].user
           call == req[c].call
           r == call.repo
<1>1. /\ req \in [Conn -> Asked] /\ links \in [User -> [RepoID -> 0 .. MaxRepos]]
      /\ repos \in Seq(Repo) /\ DOMAIN repos = 1 .. Len(repos) /\ Len(repos) \in Nat
      /\ \A i \in DOMAIN repos : repos[i] \in Repo
  BY DEF Typing, TypeOK, ServerTypeOK, Asked
<1>2. \A d \in Conn \ {c} : req'[d] = req[d] \/ req'[d].step # "resolved"
  <2>1. ASSUME NEW d \in Conn \ {c}, Waits(d, req[c].row),
               req'[d] = [req[d] EXCEPT !.gone = @ \ req[c].gone]
        PROVE  req'[d].step # "resolved"
    <3>1. req[d] \in Request /\ req[d].step = "waiting"
      BY <1>1, <2>1, RequestUnderway DEF Waits, Underway
    <3> QED
      BY <2>1, <3>1 DEF Request
  <2> QED
    BY <2>1, OthersStay
<1>3. /\ LinksLead /\ RunsPlaced /\ LastPlaced /\ \A d \in Conn : Resolved(d)
      /\ \A i \in DOMAIN repos : repos[i].org \in User
  BY <1>1 DEF Placed, Repo
<1>4. req[c] \in Request /\ u \in User /\ r \in RepoID /\ Truthful(call)
  <2>1. req[c].step \in Underway
    BY DEF ServerStep, EnsurePersonalOrg, CreateOrg, LinkMatch, LinkRepo,
       ResolveRepoLink, PutRun, DeleteStates, ResumeDelete, InsertStates, At, Underway
  <2>2. req[c] \in Request /\ req[c].step # "none"
    BY <1>1, <2>1, RequestUnderway DEF Underway
  <2> QED
    BY <2>2 DEF Request, Call, AsksTruly
<1>5. ASSUME RowsStand, Resolved(c)' PROVE \A d \in Conn : Resolved(d)'
  <2>1. ASSUME NEW d \in Conn \ {c} PROVE Resolved(d)'
    BY <1>1, <1>2, <1>3, <1>5, <2>1, ResolvedStays
  <2> QED
    BY <1>5, <2>1
<1>6. UNCHANGED <<repos, links>> => RowsStand
  BY DEF RowsStand
<1>7. ASSUME req'[c].step # "resolved" PROVE Resolved(c)'
  BY <1>7 DEF Resolved
<1>8. CASE EnsurePersonalOrg(c) \/ CreateOrg(c) \/ DeleteStates(c) \/ ResumeDelete(c)
  <2>1. UNCHANGED <<repos, links>>
    BY <1>8 DEF EnsurePersonalOrg, CreateOrg, DeleteStates, ResumeDelete
  <2>2. req'[c].step # "resolved"
    BY <1>1, <1>4, <1>8 DEF EnsurePersonalOrg, CreateOrg, DeleteStates, ResumeDelete, Request
  <2> QED
    BY <1>5, <1>6, <1>7, <2>1, <2>2, NothingMovesPlaces
<1>9. CASE LinkMatch(c)
  <2>1. UNCHANGED <<repos, links>> /\ call.op = "repo"
    BY <1>9 DEF LinkMatch, At
  <2>2. PICK i \in {NoRow} \cup GetRepoByOrigin(u, call.origin) :
          req' = [req EXCEPT ![c].step = "resolved", ![c].row = i]
    BY <1>9 DEF LinkMatch
  <2>3. /\ req'[c].user = u /\ req'[c].call = call /\ req'[c].row = i
    BY <1>1, <1>4, <2>2 DEF Request
  <2>4. i = NoRow \/ Leads(u, r, i)
    BY <1>4, <2>1, <2>2 DEF Truthful, GetRepoByOrigin, ReposOf, Leads
  <2>5. Resolved(c)'
    BY <1>6, <2>1, <2>3, <2>4, LeadsStays DEF Resolved
  <2> QED
    BY <1>5, <1>6, <2>1, <2>5, NothingMovesPlaces
<1>10. CASE ResolveRepoLink(c)
  <2>1. UNCHANGED <<repos, links>> /\ call.op # "repo"
    BY <1>10 DEF ResolveRepoLink, At
  <2>2. CASE req' = [req EXCEPT ![c] = Answer(c, "not found")]
    <3>1. req'[c].step # "resolved"
      BY <1>1, <2>2 DEF Answer
    <3> QED
      BY <1>5, <1>6, <1>7, <2>1, <3>1, NothingMovesPlaces
  <2>3. ASSUME NEW i \in GetRepoLinkByExternal(u, r),
               req' = [req EXCEPT ![c].step = "resolved", ![c].row = i]
        PROVE  Placed'
    <3>1. req'[c].user = u /\ req'[c].call = call /\ req'[c].row = i
      BY <1>1, <1>4, <2>3 DEF Request
    <3>2. i = links[u][r] /\ i \in DOMAIN repos
      BY <2>3 DEF GetRepoLinkByExternal, GetRepoByID, ReposOf
    <3>3. i # NoRow
      BY <1>1, <3>2 DEF NoRow
    <3>4. Leads(u, r, i)
      BY <1>3, <1>4, <3>2, <3>3 DEF LinksLead
    <3>5. Resolved(c)'
      BY <1>6, <2>1, <3>1, <3>2, <3>3, <3>4, LeadsStays DEF Resolved
    <3> QED
      BY <1>5, <1>6, <2>1, <3>5, NothingMovesPlaces
  <2> QED
    BY <1>10, <2>2, <2>3 DEF ResolveRepoLink
<1>11. CASE LinkRepo(c)
  <2> DEFINE found == req[c].row
             row == IF found # NoRow THEN found ELSE Len(repos) + 1
             new == [org |-> u, origin |-> call.origin, lastRun |-> call.lastRun,
                     runs |-> {}, states |-> NoIndex]
  <2>1. /\ req[c].step = "resolved" /\ call.op = "repo" /\ call.origin = Remote[r]
        /\ found = NoRow \/ Leads(u, r, found)
    BY <1>3, <1>4, <1>11 DEF LinkRepo, At, Resolved, Truthful
  <2>2. call.lastRun = NoRun \/ IsRunOf(call.lastRun, r)
    BY <1>4, <2>1 DEF Truthful
  <2>3. req'[c].step # "resolved"
    BY <1>1, <1>11 DEF LinkRepo, Answer
  <2>4. CASE row > MaxRepos
    <3>1. UNCHANGED <<repos, links>>
      BY <1>11, <2>4 DEF LinkRepo
    <3> QED
      BY <1>5, <1>6, <1>7, <2>3, <3>1, NothingMovesPlaces
  <2>5. CASE ~ (row > MaxRepos)
    <3>1. /\ links' = [links EXCEPT ![u][r] = row]
          /\ repos' = IF found = NoRow THEN Append(repos, new)
                      ELSE [repos EXCEPT ![found].origin = call.origin,
                                         ![found].lastRun = call.lastRun]
      BY <1>11, <2>5 DEF LinkRepo
    <3>2. /\ row \in DOMAIN repos' /\ row # NoRow
          /\ repos'[row].org = u /\ repos'[row].origin = Remote[r]
          /\ repos'[row].lastRun = call.lastRun
          /\ row \in DOMAIN repos => repos'[row].runs = repos[row].runs
          /\ row \notin DOMAIN repos => repos'[row].runs = {}
          /\ row \in DOMAIN repos => repos[row].org = u /\ repos[row].origin = Remote[r]
          /\ \A i \in DOMAIN repos : i \in DOMAIN repos'
          /\ \A i \in DOMAIN repos' : i = row \/ (i \in DOMAIN repos /\ repos'[i] = repos[i])
      <4>1. CASE found = NoRow
        <5>1. repos' = Append(repos, new) /\ row = Len(repos) + 1
          BY <3>1, <4>1
        <5>2. /\ DOMAIN repos' = DOMAIN repos \cup {row}
              /\ repos'[row] = new /\ row \notin DOMAIN repos /\ row # NoRow
              /\ \A i \in DOMAIN repos : repos'[i] = repos[i]
          BY <1>1, <5>1 DEF NoRow
        <5> QED
          BY <2>1, <5>2
      <4>2. CASE found # NoRow
        <5>1. /\ row = found /\ found \in DOMAIN repos
              /\ repos[found].org = u /\ repos[found].origin = Remote[r]
          BY <2>1, <4>2 DEF Leads
        <5>2. repos' = [repos EXCEPT ![found].origin = call.origin, ![found].lastRun = call.lastRun]
          BY <3>1, <4>2
        <5>3. /\ repos'[found].org = u /\ repos'[found].origin = Remote[r]
              /\ repos'[found].lastRun = call.lastRun /\ repos'[found].runs = repos[found].runs
          BY <1>1, <2>1, <5>1, <5>2 DEF Repo
        <5>4. /\ DOMAIN repos' = DOMAIN repos
              /\ \A i \in DOMAIN repos : i # found => repos'[i] = repos[i]
          BY <1>1, <5>2
        <5> QED
          BY <4>2, <5>1, <5>3, <5>4
      <4> QED
        BY <4>1, <4>2
    <3> HIDE DEF row, new
    <3>3. \A v \in User, s \in RepoID :
            links'[v][s] = IF v = u /\ s = r THEN row ELSE links[v][s]
      BY <1>1, <3>1
    <3>4. RowsStand
      BY <3>2, <3>3 DEF RowsStand
    <3>5. LinksLead'
      <4>1. ASSUME NEW v \in User, NEW s \in RepoID
            PROVE  links'[v][s] = NoRow \/ Leads(v, s, links[v][s])'
        <5>1. CASE v = u /\ s = r
          BY <3>2, <3>3, <5>1 DEF Leads
        <5>2. CASE ~ (v = u /\ s = r)
          <6>1. links'[v][s] = links[v][s]
            BY <3>3, <5>2
          <6>2. links[v][s] = NoRow \/ Leads(v, s, links[v][s])
            BY <1>3 DEF LinksLead
          <6> QED
            BY <3>4, <6>1, <6>2 DEF RowsStand, Leads
        <5> QED
          BY <5>1, <5>2
      <4> QED
        BY <4>1 DEF LinksLead, Leads
    <3>6. GetsRun(NoRow, NoRun)
      BY <3>2 DEF GetsRun
    <3>7. NamesRunOf(r)
      BY <1>4, <2>2, <3>2 DEF NamesRunOf
    <3>8. RunsPlaced' /\ LastPlaced'
      <4>1. NoRow \notin DOMAIN repos
        BY <1>1 DEF NoRow
      <4> QED
        BY <1>3, <1>4, <3>4, <3>6, <3>7, <4>1, RowsPlacedStay
    <3> QED
      BY <1>5, <1>7, <2>3, <3>4, <3>5, <3>8 DEF Placed
  <2> QED
    BY <2>4, <2>5
<1>12. CASE PutRun(c) \/ InsertStates(c)
  <2> DEFINE k == req[c].row
  <2>1. links' = links /\ req'[c].step # "resolved"
    <3>1. req'[c] = Answer(c, "ok") \/ req'[c] = Answer(c, "error")
      BY <1>1, <1>12 DEF PutRun, InsertStates
    <3> QED
      BY <1>12, <3>1 DEF PutRun, InsertStates, Answer
  <2>2. /\ DOMAIN repos' = DOMAIN repos
        /\ \A i \in DOMAIN repos : /\ repos'[i].org = repos[i].org
                                   /\ repos'[i].origin = repos[i].origin
                                   /\ \/ /\ repos'[i].runs = repos[i].runs
                                         /\ repos'[i].lastRun = repos[i].lastRun
                                      \/ /\ i = k /\ PutRun(c)
                                         /\ repos'[i].runs = repos[i].runs \cup {call.run}
                                         /\ repos'[i].lastRun = call.run
    <3>1. CASE PutRun(c)
      <4>1. repos' = [repos EXCEPT ![k].runs = @ \cup {call.run}, ![k].lastRun = call.run]
        BY <3>1 DEF PutRun
      <4> HIDE DEF call, k
      <4> QED
        BY <1>1, <3>1, <4>1 DEF Repo
    <3>2. CASE InsertStates(c)
      <4>1. repos' = repos \/ \E new : repos' = [repos EXCEPT ![k].states = new]
        BY <3>2 DEF InsertStates
      <4> HIDE DEF call, k
      <4>2. ASSUME NEW new, repos' = [repos EXCEPT ![k].states = new]
            PROVE  /\ DOMAIN repos' = DOMAIN repos
                   /\ \A i \in DOMAIN repos :
                        /\ repos'[i].org = repos[i].org /\ repos'[i].origin = repos[i].origin
                        /\ repos'[i].runs = repos[i].runs /\ repos'[i].lastRun = repos[i].lastRun
        BY <1>1, <4>2 DEF Repo
      <4> QED
        BY <4>1, <4>2
    <3> QED
      BY <1>12, <3>1, <3>2
  <2>3. RowsStand
    BY <2>1, <2>2 DEF RowsStand
  <2>4. LinksLead'
    BY <1>3, <2>1, <2>2 DEF LinksLead, Leads
  <2>5. CASE PutRun(c)
    <3>1. /\ IsRunOf(call.run, r) /\ k \in DOMAIN repos /\ repos[k].org = u
          /\ repos[k].origin = Remote[r] /\ links[u][r] # NoRow
      BY <1>3, <1>4, <2>5 DEF PutRun, At, Resolved, Truthful, Leads
    <3> HIDE DEF call, k
    <3>2. NamesRunOf(r)
      BY <1>4, <2>2, <3>1 DEF NamesRunOf
    <3>3. GetsRun(k, call.run)
      BY <2>2 DEF GetsRun
    <3>4. Fits(k, call.run, r)
      BY <3>1 DEF Fits
    <3> HIDE DEF r
    <3>5. RunsPlaced' /\ LastPlaced'
      BY <1>3, <1>4, <2>3, <3>2, <3>3, <3>4, RowsPlacedStay
    <3> QED
      BY <1>5, <1>7, <2>1, <2>3, <2>4, <3>5 DEF Placed
  <2>6. CASE ~ PutRun(c)
    <3>1. RunsPlaced' /\ LastPlaced'
      BY <1>3, <2>1, <2>2, <2>6 DEF RunsPlaced, LastPlaced
    <3> QED
      BY <1>5, <1>7, <2>1, <2>3, <2>4, <3>1 DEF Placed
  <2> QED
    BY <2>5, <2>6
<1> QED
  BY <1>8, <1>9, <1>10, <1>11, <1>12 DEF ServerStep

LEMMA PlacedStays == Typing /\ AsksTruly /\ Placed /\ [Next]_vars => Placed'
<1> SUFFICES ASSUME Typing, AsksTruly, Placed, [Next]_vars PROVE Placed'
  OBVIOUS
<1>1. CASE \E c \in Conn : ServerStep(c)
  BY <1>1, ServerKeepsPlaces
<1>2. CASE ~ \E c \in Conn : ServerStep(c)
  <2>1. /\ UNCHANGED <<repos, links>>
        /\ \A d \in Conn : req'[d] = req[d] \/ req'[d].step # "resolved"
    <3>1. CASE \E p \in Conn : ClientStep(p)
      BY <3>1, ClientAsks
    <3>2. CASE ~ \E p \in Conn : Turn(p)
      BY <3>2, OtherStepsAsk
    <3> QED
      BY <1>2, <3>1, <3>2 DEF Turn
  <2>2. RowsStand /\ req \in [Conn -> Asked] /\ \A d \in Conn : Resolved(d)
    BY <2>1 DEF RowsStand, Typing, TypeOK, ServerTypeOK, Asked, Placed
  <2>3. \A d \in Conn : Resolved(d)'
    BY <2>1, <2>2, ResolvedStays
  <2> QED
    BY <2>1, <2>3, NothingMovesPlaces
<1> QED
  BY <1>1, <1>2

LEMMA InitPlaced == Init => Placed
BY DEF Init, InitServer, Placed, LinksLead, RunsPlaced, LastPlaced, Resolved, Quiet, NoRow

-----------------------------------------------------------------------------
(* With one account, rows of one remote are one row, or are excepted.      *)
OneAccount == \E u : User = {u}

LEMMA RowsAreRepos ==
  ASSUME Typing PROVE \A i \in DOMAIN repos : repos[i] \in Repo /\ repos[i].org \in User
<1>1. repos \in Seq(Repo) /\ \A i \in DOMAIN repos : repos[i] \in Repo
  BY DEF Typing, TypeOK, ServerTypeOK
<1> QED
  BY <1>1 DEF Repo

LEMMA OneRow ==
  ASSUME Typing, NEW u, NEW r, ~ (Cardinality(Rows(u, r)) > 1),
         NEW i \in Rows(u, r), NEW j \in Rows(u, r)
  PROVE  i = j
<1>1. Rows(u, r) \subseteq 1 .. Len(repos) /\ Len(repos) \in Nat
  <2>1. DOMAIN repos = 1 .. Len(repos) /\ Len(repos) \in Nat
    BY DEF Typing, TypeOK, ServerTypeOK
  <2> QED
    BY <2>1 DEF Rows, GetRepoByOrigin, ReposOf
<1>2. IsFiniteSet(Rows(u, r))
  <2>1. IsFiniteSet(1 .. Len(repos))
    BY <1>1, FS_Interval
  <2> QED
    BY <1>1, <2>1, FS_Subset
<1>3. SUFFICES ASSUME i # j PROVE FALSE
  OBVIOUS
<1>4. Cardinality({i}) = 1 /\ IsFiniteSet({i})
  BY FS_Singleton
<1>5. Cardinality({i} \cup {j}) = 2
  BY <1>3, <1>4, FS_AddElement
<1>6. {i} \cup {j} \subseteq Rows(u, r)
  OBVIOUS
<1>7. 2 <= Cardinality(Rows(u, r)) /\ Cardinality(Rows(u, r)) \in Nat
  BY <1>2, <1>5, <1>6, FS_Subset, FS_CardinalityType
<1> QED
  BY <1>7

(* Where what was uploaded lies.                                           *)
LEMMA UploadedInRow ==
  ASSUME Typing, Placed, UploadedIsHeld, NEW u, User = {u}, NEW r \in RepoID,
         Remote[r] # "", ~ (Cardinality(Rows(u, r)) > 1),
         NEW i \in Rows(u, r), NEW id \in Uploaded(r)
  PROVE  <<r, id>> \in repos[i].runs /\ links[u][r] = i
<1>1. id \in ID
  <2>1. history[r].runs \in Seq(LocalRun)
    BY DEF Typing, TypeOK
  <2> QED
    BY <2>1, IDsOfRuns DEF Uploaded, IDs
<1>2. PICK j \in DOMAIN repos : <<r, id>> \in repos[j].runs
  BY DEF UploadedIsHeld
<1>3. repos[j].origin = Remote[r] /\ links[repos[j].org][r] # NoRow
  BY <1>1, <1>2 DEF Placed, RunsPlaced
<1>4. repos[j].org = u
  BY <1>2, RowsAreRepos
<1>5. Leads(u, r, links[u][r])
  BY <1>3, <1>4 DEF Placed, LinksLead
<1>6. j \in Rows(u, r) /\ links[u][r] \in Rows(u, r)
  BY <1>3, <1>4, <1>5 DEF Leads, Rows, GetRepoByOrigin, ReposOf
<1>7. j = i /\ links[u][r] = i
  BY <1>6, OneRow
<1> QED
  BY <1>2, <1>7

LEMMA PlacesHold == Spec => [](Typing /\ Placed /\ UploadedIsHeld)
<1>1. Typing /\ AsksTruly /\ Placed /\ [Next]_vars => AsksTruly' /\ Placed'
  BY AsksTrulyStays, PlacedStays
<1> QED
  BY <1>1, InitTyped, StepTyped, InitAsksTruly, InitPlaced, UploadsAreHeld, PTL DEF Spec

(* "Already-uploaded runs are skipped": with one account, every run that   *)
(* its machine takes for uploaded is held, and is shown under the row the  *)
(* repository is linked to.  (After a login to another account it is not:  *)
(* the checkpoint knows of no accounts.)                                   *)
THEOREM UploadsAreThere == ASSUME OneAccount PROVE Spec => []UploadedIsThere
<1>1. Typing /\ Placed /\ UploadedIsHeld => UploadedIsThere
  <2> SUFFICES ASSUME Typing, Placed, UploadedIsHeld PROVE UploadedIsShown
    BY DEF UploadedIsThere
  <2> PICK u : User = {u}
    BY DEF OneAccount
  <2> SUFFICES ASSUME NEW r \in RepoID, Remote[r] # "", ~ (Cardinality(Rows(u, r)) > 1),
                      NEW id \in Uploaded(r)
               PROVE  <<r, id>> \in ListRunsByRepo(u, links[u][r])
    BY DEF UploadedIsShown
  <2>1. PICK j \in DOMAIN repos : <<r, id>> \in repos[j].runs
    BY DEF UploadedIsHeld
  <2>2. id \in ID
    <3>1. history[r].runs \in Seq(LocalRun)
      BY DEF Typing, TypeOK
    <3> QED
      BY <3>1, IDsOfRuns DEF Uploaded, IDs
  <2>3. repos[j].origin = Remote[r] /\ repos[j].org = u
    BY <2>1, <2>2, RowsAreRepos DEF Placed, RunsPlaced
  <2>4. j \in Rows(u, r)
    BY <2>3 DEF Rows, GetRepoByOrigin, ReposOf
  <2>5. links[u][r] = j
    BY <2>4, UploadedInRow
  <2> QED
    BY <2>1, <2>3, <2>5 DEF ListRunsByRepo, ReposOf
<1> QED
  BY <1>1, PlacesHold, PTL

(* The link to the newest run of a row is dead only until the sync that set*)
(* it is repeated, or when its machine has forgotten the run.              *)
THEOREM LatestRunsOpen ==
  ASSUME OneAccount, \A r \in RepoID : Remote[r] # ""
  PROVE  Spec => []LatestRunOpens
<1>1. Typing /\ Placed /\ UploadedIsHeld => LatestRunOpens
  <2> SUFFICES ASSUME Typing, Placed, UploadedIsHeld PROVE LatestRunOpens
    OBVIOUS
  <2> PICK u : User = {u}
    BY DEF OneAccount
  <2> SUFFICES ASSUME NEW i \in ReposOf(u), repos[i].lastRun # NoRun,
                      repos[i].lastRun[2] \in Uploaded(repos[i].lastRun[1]),
                      ~ (Cardinality(Rows(u, repos[i].lastRun[1])) > 1)
               PROVE  Summary(u, i).latest # {}
    BY DEF LatestRunOpens
  <2>1. i \in DOMAIN repos /\ repos[i].org = u
    BY DEF ReposOf
  <2>2. PICK r \in RepoID : IsRunOf(repos[i].lastRun, r) /\ repos[i].origin = Remote[r]
    BY <2>1 DEF Placed, LastPlaced
  <2> DEFINE id == repos[i].lastRun[2]
  <2>3. repos[i].lastRun = <<r, id>> /\ repos[i].lastRun[1] = r
    <3>1. repos[i].lastRun = <<r, id>>
      BY <2>2 DEF IsRunOf
    <3> DEFINE run == repos[i].lastRun
    <3>2. run = <<r, id>>
      BY <3>1
    <3> HIDE DEF run, id
    <3>3. run[1] = r
      BY <3>2
    <3> QED
      BY <3>1, <3>3 DEF run
  <2> HIDE DEF id
  <2>4. i \in Rows(u, r) /\ id \in Uploaded(r) /\ Remote[r] # "" /\ ~ (Cardinality(Rows(u, r)) > 1)
    BY <2>1, <2>2, <2>3 DEF id, Rows, GetRepoByOrigin, ReposOf
  <2>5. <<r, id>> \in repos[i].runs
    BY <2>4, UploadedInRow
  <2>6. i \in GetRun(u, i, repos[i].lastRun)
    BY <2>1, <2>3, <2>5 DEF GetRun
  <2> QED
    BY <2>6 DEF Summary
<1> QED
  BY <1>1, PlacesHold, PTL

-----------------------------------------------------------------------------
(* Steps that are not of PutStates leave what it has taken, and what rows  *)
(* store.                                                                  *)
Takes(d) == req[d].step \in {"waiting", "deleted"}

LEMMA StoredStays ==
  ASSUME Typing, [Next]_vars, ~ \E c \in Conn : DeleteStates(c) \/ InsertStates(c)
  PROVE  /\ \A i \in DOMAIN repos' : \/ i \in DOMAIN repos /\ repos'[i].states = repos[i].states
                                     \/ i \notin DOMAIN repos /\ repos'[i].states = NoIndex
         /\ \A d \in Conn : Takes(d)' =>
              /\ Takes(d) /\ req'[d].row = req[d].row
              /\ req'[d].call = req[d].call /\ req'[d].gone = req[d].gone
<1>1. /\ req \in [Conn -> Asked] /\ repos \in Seq(Repo)
      /\ DOMAIN repos = 1 .. Len(repos) /\ Len(repos) \in Nat
      /\ \A i \in DOMAIN repos : repos[i] \in Repo
  BY DEF Typing, TypeOK, ServerTypeOK, Asked
<1>2. CASE repos' = repos /\ \A d \in Conn : req'[d] = req[d] \/ ~ Takes(d)'
  BY <1>2 DEF Takes
<1>3. ASSUME NEW c \in Conn, ServerStep(c)
      PROVE  /\ \A d \in Conn \ {c} : req'[d] = req[d]
             /\ Takes(c)' => ResumeDelete(c)
  <2>1. req[c].step \in Underway
    BY <1>3 DEF ServerStep, EnsurePersonalOrg, CreateOrg, LinkMatch, LinkRepo,
       ResolveRepoLink, PutRun, DeleteStates, ResumeDelete, InsertStates, At, Underway
  <2>2. req[c] \in Request
    BY <1>1, <2>1, RequestUnderway
  <2>3. ~ DeleteStates(c) /\ ~ InsertStates(c)
    OBVIOUS
  <2>4. CASE EnsurePersonalOrg(c) \/ CreateOrg(c)
    BY <1>1, <2>2, <2>4 DEF EnsurePersonalOrg, CreateOrg, Request, Takes
  <2>5. CASE LinkRepo(c) \/ PutRun(c)
    <3>1. req' = [req EXCEPT ![c] = Answer(c, "ok")] \/ req' = [req EXCEPT ![c] = Answer(c, "error")]
      BY <2>5 DEF LinkRepo, PutRun
    <3> QED
      BY <1>1, <3>1 DEF Answer, Takes
  <2>6. CASE LinkMatch(c) \/ ResolveRepoLink(c)
    <3>1. PICK i : \/ req' = [req EXCEPT ![c] = Answer(c, "not found")]
                   \/ req' = [req EXCEPT ![c].step = "resolved", ![c].row = i]
      BY <2>6 DEF LinkMatch, ResolveRepoLink
    <3>2. CASE req' = [req EXCEPT ![c] = Answer(c, "not found")]
      BY <1>1, <3>2 DEF Answer, Takes
    <3>3. CASE req' = [req EXCEPT ![c].step = "resolved", ![c].row = i]
      BY <1>1, <2>2, <3>3 DEF Request, Takes
    <3> QED
      BY <3>1, <3>2, <3>3
  <2>7. CASE ResumeDelete(c)
    BY <1>1, <2>7 DEF ResumeDelete
  <2> QED
    BY <1>3, <2>3, <2>4, <2>5, <2>6, <2>7 DEF ServerStep
<1>4. ASSUME NEW c \in Conn, ServerStep(c), Takes(c)'
      PROVE  /\ Takes(c) /\ req'[c].row = req[c].row
             /\ req'[c].call = req[c].call /\ req'[c].gone = req[c].gone
  <2>1. ResumeDelete(c)
    BY <1>3, <1>4
  <2>2. req[c] \in Request
    BY <1>1, <2>1, RequestUnderway DEF ResumeDelete, At, Underway
  <2> QED
    BY <1>1, <2>1, <2>2 DEF ResumeDelete, At, Request, Takes
<1>5. ASSUME NEW c \in Conn, ServerStep(c)
      PROVE  \A i \in DOMAIN repos' : \/ i \in DOMAIN repos /\ repos'[i].states = repos[i].states
                                      \/ i \notin DOMAIN repos /\ repos'[i].states = NoIndex
  <2>1. CASE repos' = repos
    BY <2>1
  <2>2. CASE LinkRepo(c)
    <3> DEFINE found == req[c].row
               new == [org |-> req[c].user, origin |-> req[c].call.origin,
                       lastRun |-> req[c].call.lastRun, runs |-> {}, states |-> NoIndex]
    <3>1. \/ repos' = repos
          \/ repos' = Append(repos, new)
          \/ \E o, l : repos' = [repos EXCEPT ![found].origin = o, ![found].lastRun = l]
      BY <2>2 DEF LinkRepo
    <3>2. CASE repos' = Append(repos, new)
      <4>1. new.states = NoIndex
        OBVIOUS
      <4> HIDE DEF new
      <4> QED
        BY <1>1, <3>2, <4>1
    <3>3. ASSUME NEW o, NEW l, repos' = [repos EXCEPT ![found].origin = o, ![found].lastRun = l]
          PROVE  DOMAIN repos' = DOMAIN repos
                 /\ \A i \in DOMAIN repos : repos'[i].states = repos[i].states
      <4> HIDE DEF found
      <4> QED
        BY <1>1, <3>3 DEF Repo
    <3> QED
      BY <2>1, <3>1, <3>2, <3>3
  <2>3. CASE PutRun(c)
    <3> DEFINE k == req[c].row
               run == req[c].call.run
    <3>1. repos' = [repos EXCEPT ![k].runs = @ \cup {run}, ![k].lastRun = run]
      BY <2>3 DEF PutRun
    <3> HIDE DEF k, run
    <3> QED
      BY <1>1, <3>1 DEF Repo
  <2>4. CASE ~ (LinkRepo(c) \/ PutRun(c))
    BY <1>5, <2>1, <2>4 DEF ServerStep, EnsurePersonalOrg, CreateOrg, LinkMatch, ResolveRepoLink,
       ResumeDelete
  <2> QED
    BY <2>2, <2>3, <2>4
<1>6. CASE \E p \in Conn : ClientStep(p)
  <2>1. repos' = repos /\ \A d \in Conn : req'[d] = req[d] \/ req'[d].step \in {"none", "sent"}
    BY <1>6, ClientAsks
  <2> QED
    BY <1>2, <2>1 DEF Takes
<1>7. CASE ~ \E p \in Conn : Turn(p)
  <2>1. repos' = repos /\ \A d \in Conn : req'[d] = req[d] \/ req'[d].step \in {"none", "replied"}
    BY <1>7, OtherStepsAsk
  <2> QED
    BY <1>2, <2>1 DEF Takes
<1>8. CASE \E c \in Conn : ServerStep(c)
  <2>1. PICK c \in Conn : ServerStep(c)
    BY <1>8
  <2>2. ASSUME NEW d \in Conn, Takes(d)'
        PROVE  /\ Takes(d) /\ req'[d].row = req[d].row
               /\ req'[d].call = req[d].call /\ req'[d].gone = req[d].gone
    <3>1. CASE d = c
      BY <1>4, <2>1, <2>2, <3>1
    <3>2. CASE d # c
      BY <1>3, <2>1, <2>2, <3>2 DEF Takes
    <3> QED
      BY <3>1, <3>2
  <2> QED
    BY <1>5, <2>1, <2>2
<1> QED
  BY <1>6, <1>7, <1>8 DEF Turn

OneSyncPerMachine == \A p, q \in Conn : MachineOf[p] = MachineOf[q] => p = q

LEMMA DeleteTakesAll ==
  ASSUME Typing, TakesAll, NEW c \in Conn, DeleteStates(c) PROVE TakesAll'
<1>1. req \in [Conn -> Asked]
  BY DEF Typing, TypeOK, ServerTypeOK, Asked
<1>2. req[c] \in Request
  BY <1>1, RequestUnderway DEF DeleteStates, At, Underway
<1>3. /\ req'[c].row = req[c].row /\ req'[c].gone = Stored(req[c].row) /\ repos' = repos
      /\ \A d \in Conn \ {c} : req'[d] = req[d]
  BY <1>1, <1>2 DEF DeleteStates, Request
<1> QED
  BY <1>3 DEF TakesAll, Stored

LEMMA InsertKeepsOneRun ==
  ASSUME OneSyncPerMachine, Typing, AsksTruly, TakesAll, IndexIsOfOneRun,
         NEW c \in Conn, InsertStates(c)
  PROVE  TakesAll' /\ IndexIsOfOneRun'
<1> DEFINE i == req[c].row
           new == req[c].call.index
           gone == req[c].gone
           r == req[c].call.repo
           old == repos[i].states
<1>1. /\ req \in [Conn -> Asked] /\ repos \in Seq(Repo)
      /\ \A k \in DOMAIN repos : repos[k] \in Repo
  BY DEF Typing, TypeOK, ServerTypeOK, Asked
<1>2. /\ req[c] \in Request /\ i \in DOMAIN repos /\ req[c].step = "deleted"
      /\ req[c].call.op = "states" /\ req[c].step # "none"
  BY <1>1, RequestUnderway DEF InsertStates, At, Underway, Typing, Asking
<1>3. CASE req' = [req EXCEPT ![c] = Answer(c, "error")] /\ repos' = repos
  <2>1. req'[c].step = "replied" /\ \A d \in Conn \ {c} : req'[d] = req[d]
    BY <1>1, <1>3 DEF Answer
  <2> QED
    BY <1>3, <2>1 DEF TakesAll, Stored, IndexIsOfOneRun
<1>4. CASE /\ repos' = [repos EXCEPT ![i].states = ReplacedIndex(@, gone, new)]
           /\ req' = [d \in Conn |->
                        IF d = c THEN Answer(c, "ok")
                        ELSE IF Waits(d, i) THEN [req[d] EXCEPT !.gone = @ \ gone] ELSE req[d]]
  <2>1. PICK id : \A fp \in Fingerprint : new[fp] \in {Unseen, <<r, id>>}
    BY <1>2 DEF AsksTruly, Truthful, IsIndexOf
  <2>2. /\ DOMAIN repos' = DOMAIN repos
        /\ \A k \in DOMAIN repos : k # i => repos'[k] = repos[k]
        /\ repos'[i].states = [fp \in Fingerprint |->
             IF new[fp] # Unseen THEN new[fp] ELSE IF fp \in gone THEN Unseen ELSE old[fp]]
    <3> HIDE DEF i, new, gone
    <3> QED
      BY <1>1, <1>2, <1>4 DEF Repo, ReplacedIndex
  <2>3. ASSUME NEW fp \in Fingerprint, repos'[i].states[fp] # Unseen
        PROVE  \/ repos'[i].states[fp] = <<r, id>>
               \/ /\ repos'[i].states[fp] = old[fp] /\ fp \in Stored(i) /\ fp \notin gone
                  /\ old[fp][1] # r
    <3>1. CASE new[fp] # Unseen
      BY <2>1, <2>2, <2>3, <3>1
    <3>2. CASE new[fp] = Unseen
      <4>1. repos'[i].states[fp] = old[fp] /\ fp \notin gone /\ old[fp] # Unseen
        BY <2>2, <2>3, <3>2
      <4> QED
        BY <1>2, <4>1 DEF Stored, TakesAll
    <3> QED
      BY <3>1, <3>2
  <2>4. <<r, id>>[1] = r
    OBVIOUS
  <2>5. ASSUME NEW f \in Fingerprint, NEW g \in Fingerprint,
               repos'[i].states[f] # Unseen, repos'[i].states[g] # Unseen,
               repos'[i].states[f][1] = repos'[i].states[g][1]
        PROVE  repos'[i].states[f] = repos'[i].states[g]
    <3>1. CASE repos'[i].states[f] = <<r, id>> /\ repos'[i].states[g] = <<r, id>>
      BY <3>1
    <3>2. CASE /\ repos'[i].states[f] = old[f] /\ f \in Stored(i)
               /\ repos'[i].states[g] = old[g] /\ g \in Stored(i)
      BY <1>2, <2>5, <3>2 DEF IndexIsOfOneRun
    <3> QED
      BY <2>3, <2>4, <2>5, <3>1, <3>2
  <2>6. IndexIsOfOneRun'
    <3> SUFFICES ASSUME NEW k \in DOMAIN repos', NEW f \in Fingerprint, NEW g \in Fingerprint,
                        repos'[k].states[f] # Unseen, repos'[k].states[g] # Unseen,
                        repos'[k].states[f][1] = repos'[k].states[g][1]
                 PROVE  repos'[k].states[f] = repos'[k].states[g]
      BY DEF IndexIsOfOneRun, Stored
    <3>1. CASE k = i
      BY <2>5, <3>1
    <3>2. CASE k # i
      <4>1. repos'[k] = repos[k] /\ f \in Stored(k) /\ g \in Stored(k) /\ k \in DOMAIN repos
        BY <2>2, <3>2 DEF Stored
      <4> QED
        BY <4>1 DEF IndexIsOfOneRun
    <3> QED
      BY <3>1, <3>2
  <2>7. ASSUME NEW d \in Conn, req'[d].step \in {"waiting", "deleted"},
               NEW fp \in Fingerprint, repos'[req'[d].row].states[fp] # Unseen,
               repos'[req'[d].row].states[fp][1] = req'[d].call.repo
        PROVE  fp \in req'[d].gone
    <3>1. d # c
      BY <1>4, <2>7 DEF Answer
    <3>2. /\ Takes(d) /\ req'[d].row = req[d].row /\ req'[d].call = req[d].call
          /\ req'[d].gone = req[d].gone \/ (req[d].row = i /\ req'[d].gone = req[d].gone \ gone)
          /\ req[d].row \in DOMAIN repos /\ req[d].step # "none"
      <4>1. CASE Waits(d, i)
        <5>1. req[d] \in Request /\ req[d].row = i
          BY <1>1, <4>1, RequestUnderway DEF Waits, Underway
        <5>2. req'[d] = [req[d] EXCEPT !.gone = @ \ gone]
          BY <1>4, <3>1, <4>1
        <5> HIDE DEF i, gone
        <5> QED
          BY <1>2, <4>1, <5>1, <5>2 DEF Request, Waits, Takes
      <4>2. CASE ~ Waits(d, i)
        <5>1. req'[d] = req[d]
          BY <1>4, <3>1, <4>2
        <5> QED
          BY <2>7, <5>1 DEF Takes, Typing, Asking
      <4> QED
        BY <4>1, <4>2
    <3>3. CASE req[d].row # i
      <4>1. fp \in Stored(req[d].row)
        BY <2>2, <2>7, <3>2, <3>3 DEF Stored
      <4> QED
        <5>1. repos[req[d].row].states[fp][1] = req[d].call.repo
          BY <2>2, <2>7, <3>2, <3>3
        <5>2. fp \in req[d].gone
          BY <3>2, <4>1, <5>1 DEF TakesAll, Takes
        <5> QED
          BY <3>2, <3>3, <5>2
    <3>4. CASE req[d].row = i
      <4>1. HomeOf[r] = MachineOf[c] /\ HomeOf[req[d].call.repo] = MachineOf[d]
        BY <1>2, <3>2 DEF AsksTruly
      <4>2. req[d].call.repo # r
        BY <3>1, <4>1 DEF OneSyncPerMachine
      <4>3. repos'[i].states[fp] = old[fp] /\ fp \in Stored(i) /\ fp \notin gone
        BY <2>3, <2>4, <2>7, <3>2, <3>4, <4>2
      <4>4. fp \in req[d].gone
        BY <2>7, <3>2, <3>4, <4>3 DEF TakesAll, Takes
      <4> QED
        BY <3>2, <4>3, <4>4
    <3> QED
      BY <3>3, <3>4
  <2>8. TakesAll'
    BY <2>7 DEF TakesAll, Stored
  <2> QED
    BY <2>6, <2>8
<1> QED
  BY <1>3, <1>4 DEF InsertStates

(* "PutStates replaces the lifecycle index for a repo wholesale": what a   *)
(* row stores of a machine's index is of one state of it, as long as a     *)
(* machine syncs one command at a time.                                    *)
THEOREM IndexesAreOfOneRun == ASSUME OneSyncPerMachine PROVE Spec => []IndexIsOfOneRun
<1>1. Init => TakesAll /\ IndexIsOfOneRun
  BY DEF Init, InitServer, TakesAll, IndexIsOfOneRun, Quiet
<1>2. Typing /\ AsksTruly /\ TakesAll /\ IndexIsOfOneRun /\ [Next]_vars
        => TakesAll' /\ IndexIsOfOneRun'
  <2> SUFFICES ASSUME Typing, AsksTruly, TakesAll, IndexIsOfOneRun, [Next]_vars
               PROVE  TakesAll' /\ IndexIsOfOneRun'
    OBVIOUS
  <2>1. ASSUME NEW c \in Conn, DeleteStates(c) PROVE TakesAll' /\ IndexIsOfOneRun'
    <3>1. repos' = repos
      BY <2>1 DEF DeleteStates
    <3> QED
      BY <2>1, <3>1, DeleteTakesAll DEF IndexIsOfOneRun, Stored
  <2>2. ASSUME NEW c \in Conn, InsertStates(c) PROVE TakesAll' /\ IndexIsOfOneRun'
    BY <2>2, InsertKeepsOneRun
  <2>3. CASE ~ \E c \in Conn : DeleteStates(c) \/ InsertStates(c)
    <3>1. /\ \A i \in DOMAIN repos' : \/ i \in DOMAIN repos /\ repos'[i].states = repos[i].states
                                      \/ i \notin DOMAIN repos /\ repos'[i].states = NoIndex
          /\ \A d \in Conn : Takes(d)' =>
               /\ Takes(d) /\ req'[d].row = req[d].row
               /\ req'[d].call = req[d].call /\ req'[d].gone = req[d].gone
      BY <2>3, StoredStays
    <3>2. ASSUME NEW i \in DOMAIN repos', NEW fp \in Fingerprint, repos'[i].states[fp] # Unseen
          PROVE  i \in DOMAIN repos /\ repos'[i].states = repos[i].states /\ fp \in Stored(i)
      BY <3>1, <3>2 DEF NoIndex, Stored
    <3>3. IndexIsOfOneRun'
      BY <3>2 DEF IndexIsOfOneRun, Stored
    <3>4. ASSUME NEW d \in Conn, Takes(d)' PROVE req[d].row \in DOMAIN repos'
      BY <3>1, <3>4, RunsStayHeld DEF Typing, Asking, Takes
    <3>5. TakesAll'
      BY <3>1, <3>2, <3>4 DEF TakesAll, Takes, Stored
    <3> QED
      BY <3>3, <3>5
  <2> QED
    BY <2>1, <2>2, <2>3
<1> QED
  BY <1>1, <1>2, InitTyped, StepTyped, InitAsksTruly, AsksTrulyStays, PTL DEF Spec
=============================================================================
