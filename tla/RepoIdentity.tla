---------------------------- MODULE RepoIdentity ----------------------------
(***************************************************************************)
(* Which repository a scan is recorded in (internal/history/identity.go,   *)
(* and Put, detectMove, identify and RepoByPath of the SQLite store), as   *)
(* checkouts are cloned, moved and removed while scans are being recorded. *)
(*                                                                         *)
(* A RepoID is a hash of the canonical path of the work tree, so here the  *)
(* path itself stands for the id it hashes to.  What the runs and findings *)
(* of a repository are is the business of HistoryStore.                    *)
(***************************************************************************)
EXTENDS FiniteSets

CONSTANTS
  Path,       \* canonical paths of work-tree roots
  Checkout,   \* checkouts there may be
  Origin,     \* normalized git remotes
  Remote,     \* Remote[k]: that of checkout k, "" for none
  Caller,     \* those calling Put at the same time
  Moves,      \* whether checkouts are moved to another path
  Reuse       \* whether a path may be occupied by one checkout after another

Nowhere == "nowhere"     \* where a checkout not cloned yet is
Gone == "gone"           \* and one that has been removed

ASSUME IdentityAssumption ==
  /\ IsFiniteSet(Path)
  /\ Remote \in [Checkout -> Origin \cup {""}]
  /\ Moves \in BOOLEAN
  /\ Reuse \in BOOLEAN
  /\ {Nowhere, Gone} \cap Path = {}

VARIABLES
  at,      \* where each checkout is
  taken,   \* the paths that have been occupied
  repos,   \* the repos rows by the path their id hashes
  put      \* the Put each caller is in, between its choice of a
           \* repository and its transaction

vars == <<at, taken, repos, put>>

(* scans is a ghost: which checkouts the runs are of, and where each was.  *)
Unknown == [known |-> FALSE, path |-> Nowhere, former |-> {}, origin |-> "",
            scans |-> {}]

Repo ==
  [known : BOOLEAN, path : Path \cup {Nowhere}, former : SUBSET Path,
   origin : Origin \cup {""}, scans : SUBSET (Checkout \X Path)]

NoPut == [busy |-> FALSE]

Put == [busy : {TRUE}, checkout : Checkout, root : Path, id : Path]

Live(k) == at[k] \in Path

Exists(p) == \E k \in Checkout : at[k] = p

-----------------------------------------------------------------------------
(* Faulty variant: any remote will do.                                     *)
SameOriginOrNot(origin, r) == origin # ""

SameOrigin(origin, r) == origin # "" /\ repos[r].origin = origin

LeftFrom(root, r) == repos[r].path # root /\ ~ Exists(repos[r].path)

(* detectMove: a directory without history of its own adopts that of the   *)
(* only repository with its remote that is no longer where it was scanned. *)
Moved(root, origin) ==
  {r \in Path \ {root} : repos[r].known /\ SameOrigin(origin, r) /\ LeftFrom(root, r)}

PutTarget(root, origin) ==
  LET from == Moved(root, origin)
  IN  IF ~ repos[root].known /\ Cardinality(from) = 1
      THEN CHOOSE r \in from : TRUE
      ELSE root

(* Faulty variant: only the directory's own id is looked up.               *)
RepoByPathOfID(p) == {r \in {p} : repos[r].known}

(* RepoByPath: the repository of the directory's own id or, listing the    *)
(* others in no particular order, one that is or was scanned there.        *)
RepoByPath(p) ==
  IF repos[p].known THEN {p}
  ELSE {r \in Path : repos[r].known /\ p \in {repos[r].path} \cup repos[r].former}

(* Faulty variant: a new repository has moved too.                         *)
FormerPathsAlways(repo, root) == repo.former \cup {repo.path}

FormerPaths(repo, root) ==
  IF repo.path \in {root, Nowhere} THEN repo.former
  ELSE repo.former \cup {repo.path}

(* identify, and the run that is recorded with it.                         *)
Identify(repo, root, k) ==
  [known |-> TRUE,
   path |-> root,
   former |-> FormerPaths(repo, root),
   origin |-> IF Remote[k] # "" THEN Remote[k] ELSE repo.origin,
   scans |-> repo.scans \cup {<<k, root>>}]

-----------------------------------------------------------------------------
Init ==
  /\ at = [k \in Checkout |-> Nowhere]
  /\ taken = {}
  /\ repos = [p \in Path |-> Unknown]
  /\ put = [c \in Caller |-> NoPut]

Vacant(p) == ~ Exists(p) /\ (Reuse \/ p \notin taken)

Settle(k, p) ==
  /\ Vacant(p)
  /\ at' = [at EXCEPT ![k] = p]
  /\ taken' = taken \cup {p}
  /\ UNCHANGED <<repos, put>>

Clone(k, p) == at[k] = Nowhere /\ Settle(k, p)

Move(k, p) == Moves /\ Live(k) /\ Settle(k, p)

Remove(k) ==
  /\ Live(k)
  /\ at' = [at EXCEPT ![k] = Gone]
  /\ UNCHANGED <<taken, repos, put>>

(* Put chooses the repository before it takes the lock, let alone opens    *)
(* its transaction.                                                        *)
PutResolve(c, k) ==
  /\ ~ put[c].busy
  /\ Live(k)
  /\ put' = [put EXCEPT ![c] = [busy |-> TRUE, checkout |-> k, root |-> at[k],
                                id |-> PutTarget(at[k], Remote[k])]]
  /\ UNCHANGED <<at, taken, repos>>

PutRecord(c) ==
  /\ put[c].busy
  /\ repos' = [repos EXCEPT ![put[c].id] =
                  Identify(@, put[c].root, put[c].checkout)]
  /\ put' = [put EXCEPT ![c] = NoPut]
  /\ UNCHANGED <<at, taken>>

(* The transaction fails or is refused, or the caller dies.                *)
PutFail(c) ==
  /\ put[c].busy
  /\ put' = [put EXCEPT ![c] = NoPut]
  /\ UNCHANGED <<at, taken, repos>>

Forget(r) ==
  /\ repos[r].known
  /\ repos' = [repos EXCEPT ![r] = Unknown]
  /\ UNCHANGED <<at, taken, put>>

Next ==
  \/ \E k \in Checkout, p \in Path : Clone(k, p) \/ Move(k, p)
  \/ \E k \in Checkout : Remove(k)
  \/ \E c \in Caller, k \in Checkout : PutResolve(c, k)
  \/ \E c \in Caller : PutRecord(c) \/ PutFail(c)
  \/ \E r \in Path : Forget(r)

Spec == Init /\ [][Next]_vars

-----------------------------------------------------------------------------
TypeOK ==
  /\ at \in [Checkout -> Path \cup {Nowhere, Gone}]
  /\ taken \subseteq Path
  /\ repos \in [Path -> Repo]
  /\ put \in [Caller -> Put \cup {NoPut}]

(* Origin is "a move-detection hint, nothing more": as long as no path is  *)
(* used twice, a history never holds the scans of checkouts of different   *)
(* remotes, nor of two checkouts without one, however moves, removals and  *)
(* concurrent scans interleave.                                            *)
RemotesApart ==
  \A r \in Path : \A s, t \in repos[r].scans :
    s[1] = t[1] \/ (Remote[s[1]] = Remote[t[1]] /\ Remote[s[1]] # "")

(* The checkouts with a part in the history of id r: they are or were at   *)
(* the path r, or their scans are, or are about to be, recorded under it.  *)
Users(r) ==
  {k \in Checkout :
     \/ at[k] = r
     \/ \E q \in Path : <<k, r>> \in repos[q].scans \/ <<k, q>> \in repos[r].scans
     \/ \E c \in Caller : /\ put[c].busy /\ put[c].checkout = k
                         /\ r \in {put[c].root, put[c].id}}

(* The users of an id share a remote, unless there is only one of them; it *)
(* is the origin on record; and an id in use is that of a path no newcomer *)
(* can settle at.                                                          *)
UsersShareRemote ==
  \A r \in Path : \A j, k \in Users(r) :
    j = k \/ (Remote[j] = Remote[k] /\ Remote[j] # "")

OriginIsTheirs ==
  \A r \in Path : \A k \in Users(r) :
    repos[r].known => Remote[k] = repos[r].origin

BlankUntilKnown == \A r \in Path : repos[r].known \/ repos[r].origin = ""

UsedIsTaken ==
  \A r \in Path : repos[r].known \/ Users(r) # {} => r \in taken

(* Inductive, and stronger than RemotesApart.                              *)
UsersAlike ==
  UsersShareRemote /\ OriginIsTheirs /\ BlankUntilKnown /\ UsedIsTaken

(* A recorded scan stays within reach: RepoByPath of the directory it was  *)
(* taken in, also after the checkout has moved on, answers with a history  *)
(* that holds a scan of that checkout there.  (Of two scans that overlap a *)
(* move between them, the later one can end up out of reach.)              *)
HistoryIsFound ==
  \A r \in Path : \A s \in repos[r].scans :
    /\ RepoByPath(s[2]) # {}
    /\ \A found \in RepoByPath(s[2]) : s \in repos[found].scans

(* RepoID: "Two live checkouts of one repository [...] genuinely have      *)
(* different findings": no history holds the scans of two checkouts that   *)
(* both exist.                                                             *)
LiveCheckoutsApart ==
  \A r \in Path : \A s, t \in repos[r].scans :
    Live(s[1]) /\ Live(t[1]) => s[1] = t[1]

(* Store: RepoByPath resolves a directory "the same way [Put] would":      *)
(* where it finds a history, Put would record the next scan in it.         *)
ResolvesAlike ==
  \A k \in Checkout :
    Live(k) /\ RepoByPath(at[k]) # {}
      => PutTarget(at[k], Remote[k]) \in RepoByPath(at[k])
=============================================================================
