------------------------- MODULE RepoIdentityProofs -------------------------
(***************************************************************************)
(* Proofs about RepoIdentity: its types; that histories of different       *)
(* remotes are never mixed while no path is used twice; and that what was  *)
(* recorded is found again.                                                *)
(***************************************************************************)
EXTENDS RepoIdentity, FiniteSetTheorems, TLAPS

(* The repository a Put chooses is that of its own directory, or a known   *)
(* one of the same, nonempty remote.                                       *)
LEMMA PutTargetShape ==
  ASSUME NEW root \in Path, NEW origin
  PROVE  /\ PutTarget(root, origin) \in Path
         /\ PutTarget(root, origin) # root =>
              /\ repos[PutTarget(root, origin)].known
              /\ repos[PutTarget(root, origin)].origin = origin
              /\ origin # ""
<1>1. CASE ~ repos[root].known /\ Cardinality(Moved(root, origin)) = 1
  <2>1. Moved(root, origin) # {}
    <3>1. Cardinality({}) = 0
      BY FS_EmptySet
    <3> QED BY <3>1, <1>1, SMT
  <2>2. (CHOOSE r \in Moved(root, origin) : TRUE) \in Moved(root, origin)
    BY <2>1
  <2>3. PutTarget(root, origin) \in Moved(root, origin)
    BY <2>2, <1>1 DEF PutTarget
  <2> QED BY <2>3 DEF Moved, SameOrigin
<1>2. CASE ~ (~ repos[root].known /\ Cardinality(Moved(root, origin)) = 1)
  BY <1>2 DEF PutTarget
<1> QED BY <1>1, <1>2

LEMMA IdentifyType ==
  ASSUME NEW repo \in Repo, NEW root \in Path, NEW k \in Checkout
  PROVE  Identify(repo, root, k) \in Repo
<1>1. FormerPaths(repo, root) \in SUBSET Path
  BY DEF FormerPaths, Repo
<1>2. (IF Remote[k] # "" THEN Remote[k] ELSE repo.origin) \in Origin \cup {""}
  BY IdentityAssumption DEF Repo
<1>3. repo.scans \cup {<<k, root>>} \in SUBSET (Checkout \X Path)
  <2>1. repo.scans \in SUBSET (Checkout \X Path)
    BY DEF Repo
  <2>2. <<k, root>> \in Checkout \X Path
    OBVIOUS
  <2> QED BY <2>1, <2>2
<1>4. root \in Path \cup {Nowhere}
  OBVIOUS
<1> QED BY <1>1, <1>2, <1>3, <1>4 DEF Identify, Repo

LEMMA InitTyped == Init => TypeOK
<1>1. Unknown \in Repo
  BY DEF Unknown, Repo
<1> QED BY <1>1 DEF Init, TypeOK

LEMMA StepTyped == TypeOK /\ [Next]_vars => TypeOK'
<1> SUFFICES ASSUME TypeOK, [Next]_vars PROVE TypeOK'
  OBVIOUS
<1> USE IdentityAssumption
<1>1. ASSUME NEW k \in Checkout, NEW p \in Path, Settle(k, p) PROVE TypeOK'
  BY <1>1 DEF Settle, TypeOK
<1>2. ASSUME NEW k \in Checkout, Remove(k) PROVE TypeOK'
  BY <1>2 DEF Remove, TypeOK
<1>3. ASSUME NEW c \in Caller, NEW k \in Checkout, PutResolve(c, k) PROVE TypeOK'
  <2>1. at[k] \in Path /\ PutTarget(at[k], Remote[k]) \in Path
    BY <1>3, PutTargetShape DEF PutResolve, Live
  <2> QED BY <1>3, <2>1 DEF PutResolve, TypeOK, Put
<1>4. ASSUME NEW c \in Caller, PutRecord(c) PROVE TypeOK'
  <2>1. put[c] \in Put
    <3>1. put[c] \in Put \cup {NoPut} /\ put[c].busy
      BY <1>4 DEF PutRecord, TypeOK
    <3>2. ~ NoPut.busy
      BY DEF NoPut
    <3> QED BY <3>1, <3>2
  <2>2. /\ repos[put[c].id] \in Repo /\ put[c].root \in Path
        /\ put[c].checkout \in Checkout /\ Remote[put[c].checkout] \in Origin \cup {""}
    BY <2>1 DEF TypeOK, Put
  <2>3. Identify(repos[put[c].id], put[c].root, put[c].checkout) \in Repo
    BY <2>2, IdentifyType
  <2> QED BY <1>4, <2>3 DEF PutRecord, TypeOK
<1>5. ASSUME NEW c \in Caller, PutFail(c) PROVE TypeOK'
  BY <1>5 DEF PutFail, TypeOK
<1>6. ASSUME NEW r \in Path, Forget(r) PROVE TypeOK'
  <2>1. Unknown \in Repo
    BY DEF Unknown, Repo
  <2> QED BY <1>6, <2>1 DEF Forget, TypeOK
<1>7. CASE UNCHANGED vars
  BY <1>7 DEF vars, TypeOK
<1> QED BY <1>1, <1>2, <1>3, <1>4, <1>5, <1>6, <1>7 DEF Next, Clone, Move

(* Every value the store and the environment hold stays of its type.       *)
THEOREM Typed == Spec => []TypeOK
BY InitTyped, StepTyped, PTL DEF Spec

-----------------------------------------------------------------------------
(* A step that changes neither the repositories nor the taken paths, nor   *)
(* makes anyone a user of an id, keeps UsersAlike.                         *)
LEMMA NoNewUser ==
  ASSUME UsersAlike, UNCHANGED <<taken, repos>>,
         \A r \in Path : Users(r)' \subseteq Users(r)
  PROVE  UsersAlike'
BY DEF UsersAlike, UsersShareRemote, OriginIsTheirs, BlankUntilKnown, UsedIsTaken

LEMMA InitAlike == Init => UsersAlike
<1> SUFFICES ASSUME Init PROVE UsersAlike
  OBVIOUS
<1>1. \A r \in Path : repos[r].scans = {} /\ repos[r].origin = "" /\ ~ repos[r].known
  BY DEF Init, Unknown
<1>2. \A c \in Caller : ~ put[c].busy
  BY DEF Init, NoPut
<1>3. \A r \in Path : Users(r) = {}
  BY <1>1, <1>2, IdentityAssumption DEF Init, Users
<1> QED BY <1>1, <1>3 
       DEF UsersAlike, UsersShareRemote, OriginIsTheirs, BlankUntilKnown, UsedIsTaken

(* A path that is settled had no user.                                     *)
LEMMA SettleAlike ==
  ASSUME ~ Reuse, TypeOK, UsersAlike, NEW k \in Checkout, NEW p \in Path, Settle(k, p)
  PROVE  UsersAlike'
<1>1. p \notin taken /\ UNCHANGED <<repos, put>> /\ taken' = taken \cup {p}
  BY DEF Settle, Vacant
<1>2. \A r \in Path \ {p} : Users(r)' \subseteq Users(r)
  BY DEF Settle, Users, TypeOK
<1>3. Users(p)' \subseteq Users(p) \cup {k}
  BY DEF Settle, Users, TypeOK
<1>4. Users(p) = {} /\ ~ repos[p].known
  BY <1>1 DEF UsersAlike, UsedIsTaken
<1>5. UsersShareRemote'
  <2>1. \A i, j \in Users(p)' : i = j
    BY <1>3, <1>4
  <2>2. \A r \in Path \ {p} : \A i, j \in Users(r)' :
          i = j \/ (Remote[i] = Remote[j] /\ Remote[i] # "")
    BY <1>2 DEF UsersAlike, UsersShareRemote
  <2> QED BY <2>1, <2>2 DEF UsersShareRemote
<1>6. OriginIsTheirs'
  BY <1>1, <1>2, <1>4 DEF UsersAlike, OriginIsTheirs
<1>7. UsedIsTaken'
  BY <1>1, <1>2, <1>4 DEF UsersAlike, UsedIsTaken
<1>8. BlankUntilKnown'
  BY <1>1 DEF UsersAlike, BlankUntilKnown
<1> QED BY <1>5, <1>6, <1>7, <1>8 DEF UsersAlike

(* Who adopts a history has the remote on its record.                      *)
LEMMA ResolveAlike ==
  ASSUME TypeOK, UsersAlike, NEW c \in Caller, NEW k \in Checkout, PutResolve(c, k)
  PROVE  UsersAlike'
<1>1. at[k] \in Path /\ k \in Users(at[k])
  BY DEF PutResolve, Live, Users
<1> PICK id : id = PutTarget(at[k], Remote[k])
  OBVIOUS
<1>2. id \in Path /\ (id # at[k] => repos[id].known /\ repos[id].origin = Remote[k]
                                    /\ Remote[k] # "")
  BY <1>1, PutTargetShape
<1>3. UNCHANGED <<at, repos, taken>>
  BY DEF PutResolve
<1>4. put' = [put EXCEPT ![c] = [busy |-> TRUE, checkout |-> k, root |-> at[k], id |-> id]]
  BY DEF PutResolve
<1>5. \A r \in Path : Users(r)' \subseteq Users(r) \cup {k}
  BY <1>3, <1>4 DEF Users, TypeOK
<1>6. \A r \in Path \ {id} : Users(r)' \subseteq Users(r)
  BY <1>1, <1>3, <1>4 DEF Users, TypeOK
<1>7. CASE id = at[k]
  <2>1. \A r \in Path : Users(r)' \subseteq Users(r)
    BY <1>1, <1>5, <1>6, <1>7
  <2> QED BY <1>3, <2>1, NoNewUser
<1>8. CASE id # at[k]
  <2>1. repos[id].known /\ repos[id].origin = Remote[k] /\ Remote[k] # ""
    BY <1>2, <1>8
  <2>2. id \in taken
    BY <1>2, <2>1 DEF UsersAlike, UsedIsTaken
  <2>3. \A j \in Users(id)' : Remote[j] = Remote[k]
    <3>1. \A j \in Users(id) : Remote[j] = repos[id].origin
      BY <1>2, <2>1 DEF UsersAlike, OriginIsTheirs
    <3>2. Users(id)' \subseteq Users(id) \cup {k}
      BY <1>2, <1>5
    <3> QED BY <2>1, <3>1, <3>2
  <2>4. UsersShareRemote'
    <3>1. \A r \in Path \ {id} : \A i, j \in Users(r)' :
            i = j \/ (Remote[i] = Remote[j] /\ Remote[i] # "")
      BY <1>6 DEF UsersAlike, UsersShareRemote
    <3>2. \A i, j \in Users(id)' : Remote[i] = Remote[j] /\ Remote[i] # ""
      BY <2>1, <2>3
    <3> QED BY <3>1, <3>2 DEF UsersShareRemote
  <2>5. OriginIsTheirs'
    BY <1>3, <1>6, <2>1, <2>3 DEF UsersAlike, OriginIsTheirs
  <2>6. UsedIsTaken'
    BY <1>3, <1>6, <2>2 DEF UsersAlike, UsedIsTaken
  <2>7. BlankUntilKnown'
    BY <1>3 DEF UsersAlike, BlankUntilKnown
  <2> QED BY <2>4, <2>5, <2>6, <2>7 DEF UsersAlike
<1> QED BY <1>7, <1>8

(* The origin recorded is that of the users of the id.                     *)
LEMMA RecordAlike ==
  ASSUME TypeOK, UsersAlike, NEW c \in Caller, PutRecord(c)
  PROVE  UsersAlike'
<1>1. PICK k \in Checkout, id \in Path, root \in Path :
        put[c] = [busy |-> TRUE, checkout |-> k, root |-> root, id |-> id]
  <2>1. put[c] \in Put \cup {NoPut} /\ put[c].busy
    BY DEF PutRecord, TypeOK
  <2>2. put[c] \in Put
    BY <2>1 DEF NoPut
  <2> QED BY <2>2 DEF Put
<1>2. k \in Users(id) /\ k \in Users(root)
  BY <1>1 DEF Users
<1>3. UNCHANGED <<at, taken>> /\ put' = [put EXCEPT ![c] = NoPut]
  BY DEF PutRecord
<1>4. repos' = [repos EXCEPT ![id] = Identify(repos[id], root, k)]
  BY <1>1 DEF PutRecord
<1>5. \A r \in Path \ {id} : repos'[r] = repos[r]
  BY <1>4 DEF TypeOK
<1>6. /\ repos'[id].known
      /\ repos'[id].origin = IF Remote[k] # "" THEN Remote[k] ELSE repos[id].origin
      /\ repos'[id].scans = repos[id].scans \cup {<<k, root>>}
  BY <1>4 DEF TypeOK, Identify
<1>7. \A r \in Path : Users(r)' \subseteq Users(r)
  <2> SUFFICES ASSUME NEW r \in Path, NEW j \in Users(r)' PROVE j \in Users(r)
    OBVIOUS
  <2>1. j \in Checkout
    BY DEF Users
  <2>2. CASE at'[j] = r
    BY <2>1, <2>2, <1>3 DEF Users
  <2>3. CASE \E q \in Path : <<j, r>> \in repos'[q].scans
    <3>1. PICK q \in Path : <<j, r>> \in repos'[q].scans
      BY <2>3
    <3>2. <<j, r>> \in repos[q].scans \/ (j = k /\ r = root)
      <4>1. CASE q = id
        BY <3>1, <4>1, <1>6
      <4>2. CASE q # id
        BY <3>1, <4>2, <1>5
      <4> QED BY <4>1, <4>2
    <3> QED BY <3>2, <2>1, <1>2 DEF Users
  <2>4. CASE \E q \in Path : <<j, q>> \in repos'[r].scans
    <3>1. PICK q \in Path : <<j, q>> \in repos'[r].scans
      BY <2>4
    <3>2. <<j, q>> \in repos[r].scans \/ (j = k /\ r = id)
      <4>1. CASE r = id
        BY <3>1, <4>1, <1>6
      <4>2. CASE r # id
        BY <3>1, <4>2, <1>5
      <4> QED BY <4>1, <4>2
    <3> QED BY <3>2, <2>1, <1>2 DEF Users
  <2>5. CASE \E d \in Caller : put'[d].busy /\ put'[d].checkout = j
                               /\ r \in {put'[d].root, put'[d].id}
    <3>1. PICK d \in Caller : put'[d].busy /\ put'[d].checkout = j
                              /\ r \in {put'[d].root, put'[d].id}
      BY <2>5
    <3>2. put'[d] = put[d]
      BY <3>1, <1>3 DEF TypeOK, NoPut
    <3> QED BY <3>1, <3>2, <2>1 DEF Users
  <2> QED BY <2>2, <2>3, <2>4, <2>5 DEF Users
<1>8. \A j \in Users(id) : Remote[j] = repos'[id].origin
  <2>1. CASE repos[id].known
    BY <2>1, <1>2, <1>6 DEF UsersAlike, OriginIsTheirs
  <2>2. CASE ~ repos[id].known
    <3>1. repos[id].origin = "" /\ repos'[id].origin = Remote[k]
      BY <2>2, <1>6 DEF UsersAlike, BlankUntilKnown
    <3>2. \A j \in Users(id) : j = k \/ Remote[j] = Remote[k]
      BY <1>2 DEF UsersAlike, UsersShareRemote
    <3> QED BY <3>1, <3>2
  <2> QED BY <2>1, <2>2
<1>9. UsersShareRemote'
  BY <1>7 DEF UsersAlike, UsersShareRemote
<1>10. OriginIsTheirs'
  BY <1>5, <1>7, <1>8 DEF UsersAlike, OriginIsTheirs
<1>11. UsedIsTaken'
  BY <1>2, <1>3, <1>5, <1>7 DEF UsersAlike, UsedIsTaken
<1>12. BlankUntilKnown'
  BY <1>5, <1>6 DEF UsersAlike, BlankUntilKnown
<1> QED BY <1>9, <1>10, <1>11, <1>12 DEF UsersAlike

LEMMA ForgetAlike ==
  ASSUME TypeOK, UsersAlike, NEW r \in Path, Forget(r)
  PROVE  UsersAlike'
<1>1. UNCHANGED <<at, taken, put>> /\ \A q \in Path \ {r} : repos'[q] = repos[q]
  BY DEF Forget, TypeOK
<1>2. repos'[r].scans = {} /\ repos'[r].origin = "" /\ ~ repos'[r].known
  BY DEF Forget, TypeOK, Unknown
<1>3. \A q \in Path : Users(q)' \subseteq Users(q)
  BY <1>1, <1>2 DEF Users
<1>4. UsersShareRemote'
  BY <1>3 DEF UsersAlike, UsersShareRemote
<1>5. OriginIsTheirs'
  <2> SUFFICES ASSUME NEW q \in Path, NEW k \in Users(q)', repos'[q].known
               PROVE  Remote[k] = repos'[q].origin
    BY DEF OriginIsTheirs
  <2>1. k \in Users(q) /\ q # r /\ repos'[q] = repos[q]
    BY <1>1, <1>2, <1>3
  <2> QED
    BY <2>1 DEF UsersAlike, OriginIsTheirs
<1>6. UsedIsTaken'
  BY <1>1, <1>2, <1>3 DEF UsersAlike, UsedIsTaken
<1>7. BlankUntilKnown'
  BY <1>1, <1>2 DEF UsersAlike, BlankUntilKnown
<1> QED BY <1>4, <1>5, <1>6, <1>7 DEF UsersAlike

LEMMA StepAlike ==
  ASSUME ~ Reuse, TypeOK, UsersAlike, [Next]_vars
  PROVE  UsersAlike'
<1>1. ASSUME NEW k \in Checkout, Remove(k) PROVE UsersAlike'
  <2>1. \A r \in Path : Users(r)' \subseteq Users(r)
    BY <1>1, IdentityAssumption DEF Remove, Users, TypeOK
  <2> QED BY <1>1, <2>1, NoNewUser DEF Remove
<1>2. ASSUME NEW c \in Caller, PutFail(c) PROVE UsersAlike'
  <2>1. \A r \in Path : Users(r)' \subseteq Users(r)
    BY <1>2 DEF PutFail, Users, TypeOK, NoPut
  <2> QED BY <1>2, <2>1, NoNewUser DEF PutFail
<1>3. CASE UNCHANGED vars
  <2>1. \A r \in Path : Users(r)' = Users(r)
    BY <1>3 DEF vars, Users
  <2> QED BY <1>3, <2>1, NoNewUser DEF vars
<1> QED BY <1>1, <1>2, <1>3, SettleAlike, ResolveAlike, RecordAlike, ForgetAlike
        DEF Next, Clone, Move

LEMMA AlikeIsApart == TypeOK /\ UsersAlike => RemotesApart
<1> SUFFICES ASSUME TypeOK, UsersAlike, NEW r \in Path,
                    NEW s \in repos[r].scans, NEW t \in repos[r].scans
             PROVE  s[1] = t[1] \/ (Remote[s[1]] = Remote[t[1]] /\ Remote[s[1]] # "")
  BY DEF RemotesApart
<1>1. s \in Checkout \X Path /\ t \in Checkout \X Path
  BY DEF TypeOK, Repo
<1>2. s[1] \in Users(r) /\ t[1] \in Users(r)
  BY <1>1 DEF Users
<1> QED BY <1>2 DEF UsersAlike, UsersShareRemote

(* While no path is used twice, no history ever mixes the scans of         *)
(* checkouts of different remotes, whatever adoption by remote and         *)
(* concurrent scans do: RemotesApart, by the invariant UsersAlike.         *)
THEOREM RemotesStayApart == ASSUME ~ Reuse PROVE Spec => []RemotesApart
<1>1. TypeOK /\ UsersAlike /\ [Next]_vars => (TypeOK /\ UsersAlike)'
  BY StepAlike, StepTyped
<1> QED BY <1>1, InitTyped, InitAlike, AlikeIsApart, PTL DEF Spec

-----------------------------------------------------------------------------
(* Why a history is found.  The paths on record of a repository are those  *)
(* its scans were taken at.                                                *)
Recorded(r) ==
  /\ ~ repos[r].known => repos[r] = Unknown
  /\ repos[r].known =>
       {repos[r].path} \cup repos[r].former = {s[2] : s \in repos[r].scans}

(* The scans of a path, and the one under way, are of one checkout.        *)
OccupiedBy(p) ==
  {k \in Checkout :
     \/ at[k] = p
     \/ \E r \in Path : <<k, p>> \in repos[r].scans
     \/ \E c \in Caller : put[c].busy /\ put[c].checkout = k /\ put[c].root = p}

OneOccupant(p) == \A j, k \in OccupiedBy(p) : j = k

(* Of the directories of a history none exists but the last on record, and *)
(* not that of its id unless it is the last; if one of the others has a    *)
(* history of its own, then both are at home in that directory.            *)
Attached(r) ==
  /\ repos[r].known /\ repos[r].path # r => ~ Exists(r)
  /\ \A s \in repos[r].scans :
       /\ Exists(s[2]) => repos[r].path = s[2]
       /\ s[2] # r /\ repos[s[2]].known => repos[r].path = s[2] /\ repos[s[2]].path = s[2]

(* What the choice of a repository is still worth when it is recorded.     *)
AtHome(p) ==
  /\ repos[p].known => repos[p].path = p
  /\ \A r \in Path : \A s \in repos[r].scans : s[2] = p => repos[r].path = p

Adopting(p, r) ==
  /\ ~ repos[p].known /\ ~ Exists(r)
  /\ \A s \in repos[r].scans : ~ Exists(s[2]) /\ (s[2] = r \/ ~ repos[s[2]].known)
  /\ \A q \in Path \ {r} : \A s \in repos[q].scans : s[2] # r

Chosen(c) ==
  put[c].busy => IF put[c].id = put[c].root THEN AtHome(put[c].root)
                 ELSE Adopting(put[c].root, put[c].id)

WithinReach ==
  /\ \A p \in Path : Recorded(p) /\ OneOccupant(p) /\ Attached(p)
  /\ \A c \in Caller : Chosen(c)

LEMMA ScanShape ==
  ASSUME TypeOK, NEW r \in Path, NEW s \in repos[r].scans
  PROVE  s[1] \in Checkout /\ s[2] \in Path /\ s = <<s[1], s[2]>>
<1>1. s \in Checkout \X Path
  BY DEF TypeOK, Repo
<1> QED BY <1>1

(* Who scanned a directory occupied it, and uses both ids.                 *)
LEMMA ScansUse ==
  ASSUME TypeOK, NEW r \in Path, NEW s \in repos[r].scans
  PROVE  s[1] \in OccupiedBy(s[2]) /\ s[1] \in Users(r) /\ s[1] \in Users(s[2])
BY ScanShape DEF OccupiedBy, Users

LEMMA ScanKnown ==
  ASSUME WithinReach, NEW r \in Path, NEW s \in repos[r].scans
  PROVE  repos[r].known
<1>1. ~ repos[r].known => repos[r] = Unknown
  BY DEF WithinReach, Recorded
<1>2. Unknown.scans = {}
  BY DEF Unknown
<1> QED BY <1>1, <1>2

LEMMA PutShape ==
  ASSUME TypeOK, NEW c \in Caller, put[c].busy
  PROVE  \E k \in Checkout, id \in Path, root \in Path :
           put[c] = [busy |-> TRUE, checkout |-> k, root |-> root, id |-> id]
<1>1. put[c] \in Put
  BY DEF TypeOK, NoPut
<1> QED BY <1>1 DEF Put

(* RepoByPath can only answer with histories of the path's one occupant.   *)
LEMMA ReachIsFound == TypeOK /\ WithinReach => HistoryIsFound
<1> SUFFICES ASSUME TypeOK, WithinReach, NEW r \in Path, NEW s \in repos[r].scans
             PROVE  /\ RepoByPath(s[2]) # {}
                    /\ \A found \in RepoByPath(s[2]) : s \in repos[found].scans
  BY DEF HistoryIsFound
<1> PICK q \in Path : q = s[2]
  BY ScanShape
<1>1. q \in Path /\ s[1] \in OccupiedBy(q)
  BY ScanShape, ScansUse
<1>2. repos[r].known
  BY ScanKnown
<1>3. ASSUME NEW f \in Path, NEW t \in repos[f].scans, t[2] = q PROVE t = s
  <2>1. t[1] \in OccupiedBy(q)
    BY <1>3, ScansUse
  <2>2. t[1] = s[1]
    BY <2>1, <1>1 DEF WithinReach, OneOccupant
  <2> QED BY <2>2, <1>3, ScanShape
<1>4. ASSUME NEW f \in Path, repos[f].known, q \in {repos[f].path} \cup repos[f].former
      PROVE  s \in repos[f].scans
  <2>1. q \in {t[2] : t \in repos[f].scans}
    BY <1>4 DEF WithinReach, Recorded
  <2>2. PICK t \in repos[f].scans : t[2] = q
    BY <2>1
  <2> QED BY <2>2, <1>3
<1>5. CASE repos[q].known
  <2>1. RepoByPath(q) = {q}
    BY <1>5 DEF RepoByPath
  <2>2. CASE q = r
    BY <2>1, <2>2
  <2>3. CASE q # r
    <3>1. repos[q].path = q
      BY <1>1, <1>5, <2>3 DEF WithinReach, Attached
    <3>2. s \in repos[q].scans
      BY <1>1, <1>4, <1>5, <3>1
    <3> QED BY <2>1, <3>2
  <2> QED BY <2>2, <2>3
<1>6. CASE ~ repos[q].known
  <2>1. RepoByPath(q) =
          {f \in Path : repos[f].known /\ q \in {repos[f].path} \cup repos[f].former}
    BY <1>6 DEF RepoByPath
  <2>2. q \in {repos[r].path} \cup repos[r].former
    BY <1>2 DEF WithinReach, Recorded
  <2> QED BY <1>2, <1>4, <2>1, <2>2
<1> QED BY <1>5, <1>6

LEMMA InitWithin == Init => WithinReach
<1> SUFFICES ASSUME Init PROVE WithinReach
  OBVIOUS
<1>1. \A r \in Path : repos[r] = Unknown /\ repos[r].scans = {} /\ ~ repos[r].known
  BY DEF Init, Unknown
<1>2. \A c \in Caller : ~ put[c].busy
  BY DEF Init, NoPut
<1>3. \A p \in Path : OccupiedBy(p) = {}
  BY <1>1, <1>2, IdentityAssumption DEF Init, OccupiedBy
<1> QED BY <1>1, <1>2, <1>3
       DEF WithinReach, Recorded, OneOccupant, Attached, Chosen

(* A directory that is settled is none of those any scan was taken in, nor *)
(* one whose id is in use.                                                 *)
LEMMA SettleWithin ==
  ASSUME ~ Reuse, TypeOK, UsersAlike, WithinReach,
         NEW k \in Checkout, NEW p \in Path, Settle(k, p)
  PROVE  WithinReach'
<1>1. p \notin taken /\ UNCHANGED <<repos, put>>
  BY DEF Settle, Vacant
<1>2. ~ repos[p].known /\ Users(p) = {}
  BY <1>1 DEF UsersAlike, UsedIsTaken
<1>3. \A q \in Path : Exists(q)' => Exists(q) \/ q = p
  BY DEF Settle, Exists, TypeOK
<1>4. ASSUME NEW r \in Path, NEW s \in repos[r].scans
      PROVE  s[2] # p /\ s[2] \in Path
  BY <1>2, ScansUse, ScanShape
<1>5. \A q \in Path : OccupiedBy(q) \subseteq Users(q)
  BY DEF OccupiedBy, Users
<1>6. \A q \in Path \ {p} : OccupiedBy(q)' \subseteq OccupiedBy(q)
  BY DEF Settle, OccupiedBy, TypeOK
<1>7. OccupiedBy(p)' \subseteq OccupiedBy(p) \cup {k}
  BY DEF Settle, OccupiedBy, TypeOK
<1>8. \A q \in Path : OneOccupant(q)'
  BY <1>2, <1>5, <1>6, <1>7 DEF WithinReach, OneOccupant
<1>9. \A r \in Path : Recorded(r)'
  BY <1>1 DEF WithinReach, Recorded
<1>10. \A r \in Path : Attached(r)'
  <2> SUFFICES ASSUME NEW r \in Path PROVE Attached(r)'
    OBVIOUS
  <2>1. Attached(r)
    BY DEF WithinReach
  <2>2. repos[r].known => r # p
    BY <1>2
  <2> QED BY <1>1, <1>3, <1>4, <2>1, <2>2 DEF Attached
<1>11. \A c \in Caller : Chosen(c)'
  <2> SUFFICES ASSUME NEW c \in Caller, put[c].busy PROVE Chosen(c)'
    BY <1>1 DEF Chosen
  <2>1. PICK j \in Checkout, id \in Path, root \in Path :
          put[c] = [busy |-> TRUE, checkout |-> j, root |-> root, id |-> id]
    BY PutShape
  <2>2. put'[c].busy /\ put'[c].id = id /\ put'[c].root = root
    BY <1>1, <2>1
  <2>3. j \in Users(id)
    BY <2>1 DEF Users
  <2>4. IF id = root THEN AtHome(root) ELSE Adopting(root, id)
    BY <2>1 DEF WithinReach, Chosen
  <2>5. AtHome(root) => AtHome(root)'
    BY <1>1 DEF AtHome
  <2>6. Adopting(root, id) => Adopting(root, id)'
    BY <1>1, <1>2, <1>3, <1>4, <2>3 DEF Adopting
  <2> QED BY <2>2, <2>4, <2>5, <2>6 DEF Chosen
<1> QED BY <1>8, <1>9, <1>10, <1>11 DEF WithinReach

(* A step that changes no repository, and after which no more directories  *)
(* exist and nobody new occupies one, keeps all but the choices.           *)
LEMMA NothingRecorded ==
  ASSUME WithinReach, UNCHANGED repos,
         \A p \in Path : OccupiedBy(p)' \subseteq OccupiedBy(p),
         \A p \in Path : Exists(p)' => Exists(p),
         TypeOK
  PROVE  /\ \A p \in Path : (Recorded(p) /\ OneOccupant(p) /\ Attached(p))'
         /\ \A p \in Path : AtHome(p) => AtHome(p)'
         /\ \A p, r \in Path : Adopting(p, r) => Adopting(p, r)'
<1>1. \A p \in Path : Recorded(p)'
  BY DEF WithinReach, Recorded
<1>2. \A p \in Path : OneOccupant(p)'
  BY DEF WithinReach, OneOccupant
<1>3. \A r \in Path : \A s \in repos[r].scans : s[2] \in Path
  BY ScanShape
<1>4. \A p \in Path : Attached(p)'
  BY <1>3 DEF WithinReach, Attached
<1>5. \A p \in Path : AtHome(p) => AtHome(p)'
  BY DEF AtHome
<1>6. \A p, r \in Path : Adopting(p, r) => Adopting(p, r)'
  BY <1>3 DEF Adopting
<1> QED BY <1>1, <1>2, <1>4, <1>5, <1>6

LEMMA RemoveWithin ==
  ASSUME TypeOK, WithinReach, NEW k \in Checkout, Remove(k)
  PROVE  WithinReach'
<1>1. UNCHANGED <<repos, put>>
  BY DEF Remove
<1>2. \A p \in Path : OccupiedBy(p)' \subseteq OccupiedBy(p)
  BY IdentityAssumption DEF Remove, OccupiedBy, TypeOK
<1>3. \A p \in Path : Exists(p)' => Exists(p)
  BY IdentityAssumption DEF Remove, Exists, TypeOK
<1>4. \A c \in Caller : Chosen(c)'
  <2> SUFFICES ASSUME NEW c \in Caller, put[c].busy PROVE Chosen(c)'
    BY <1>1 DEF Chosen
  <2>1. put[c].id \in Path /\ put[c].root \in Path
    <3>1. PICK j \in Checkout, id \in Path, root \in Path :
            put[c] = [busy |-> TRUE, checkout |-> j, root |-> root, id |-> id]
      BY PutShape
    <3> QED BY <3>1
  <2>2. IF put[c].id = put[c].root THEN AtHome(put[c].root)
        ELSE Adopting(put[c].root, put[c].id)
    BY DEF WithinReach, Chosen
  <2>3. IF put[c].id = put[c].root THEN AtHome(put[c].root)'
        ELSE Adopting(put[c].root, put[c].id)'
    BY <1>1, <1>2, <1>3, <2>1, <2>2, NothingRecorded
  <2> QED BY <1>1, <2>3 DEF Chosen, AtHome, Adopting
<1> QED BY <1>1, <1>2, <1>3, <1>4, NothingRecorded DEF WithinReach

(* The directory exists, so no history but those at home there has a scan  *)
(* taken in it; and of the history that is adopted no directory exists,    *)
(* for any other with a part in it would have been found moved as well.    *)
LEMMA ResolveWithin ==
  ASSUME \A c, d \in Caller : c = d, TypeOK, UsersAlike, WithinReach,
         NEW c \in Caller, NEW k \in Checkout, PutResolve(c, k)
  PROVE  WithinReach'
<1> PICK root \in Path : root = at[k]
  BY DEF PutResolve, Live
<1> PICK id : id = PutTarget(root, Remote[k])
  OBVIOUS
<1>1. UNCHANGED <<at, repos, taken>> /\ id \in Path
  BY PutTargetShape DEF PutResolve
<1>2. put' = [put EXCEPT ![c] = [busy |-> TRUE, checkout |-> k, root |-> root, id |-> id]]
  BY DEF PutResolve
<1>3. Exists(root)
  BY DEF Exists
<1>4. \A p \in Path : OccupiedBy(p)' \subseteq OccupiedBy(p)
  BY <1>1, <1>2 DEF OccupiedBy, TypeOK
<1>5. \A p \in Path : Exists(p)' => Exists(p)
  BY <1>1 DEF Exists
<1>6. CASE id = root
  <2>1. AtHome(root)
    BY <1>3 DEF WithinReach, Attached, AtHome
  <2>2. AtHome(root)'
    BY <2>1, <1>1 DEF AtHome
  <2>3. put'[c].id = root /\ put'[c].root = root
    BY <1>2, <1>6 DEF TypeOK
  <2>4. Chosen(c)'
    BY <2>2, <2>3 DEF Chosen, AtHome
  <2> QED BY <1>1, <1>4, <1>5, <2>4, NothingRecorded DEF WithinReach
<1>7. CASE id # root
  <2> DEFINE from == Moved(root, Remote[k])
  <2>1. ~ repos[root].known /\ Cardinality(from) = 1
    BY <1>7 DEF PutTarget
  <2>2. id \in from /\ from = {id}
    <3>1. PICK x : from = {x}
      <4>1. IsFiniteSet(from)
        BY IdentityAssumption, FS_Subset DEF Moved
      <4> QED BY <2>1, <4>1, FS_Singleton
    <3>2. (CHOOSE r \in from : TRUE) \in from
      BY <3>1
    <3>3. id \in from
      BY <2>1, <3>2 DEF PutTarget
    <3> QED BY <3>1, <3>3
  <2>3. /\ repos[id].known /\ Remote[k] # "" /\ repos[id].origin = Remote[k]
        /\ repos[id].path # root /\ ~ Exists(repos[id].path)
    BY <2>2 DEF Moved, SameOrigin, LeftFrom
  <2>4. ~ Exists(id)
    BY <1>1, <2>3 DEF WithinReach, Attached
  <2>5. \A s \in repos[id].scans : ~ Exists(s[2])
    BY <1>1, <2>3 DEF WithinReach, Attached
  <2>6. ASSUME NEW q \in Path, NEW r \in Path, NEW s \in repos[r].scans, q # root,
               {q, id} = {r, s[2]}, repos[q].known, repos[q].path # root,
               ~ Exists(repos[q].path)
        PROVE  q = id
    <3>1. s[1] \in Users(q) /\ s[1] \in Users(id)
      BY <2>6, ScansUse
    <3>2. Remote[s[1]] = repos[q].origin /\ Remote[s[1]] = repos[id].origin
      BY <3>1, <1>1, <2>3, <2>6 DEF UsersAlike, OriginIsTheirs
    <3>3. q \in from
      BY <2>3, <2>6, <3>2 DEF Moved, SameOrigin, LeftFrom
    <3> QED BY <3>3, <2>2
  <2>7. \A s \in repos[id].scans : s[2] = id \/ ~ repos[s[2]].known
    <3> SUFFICES ASSUME NEW s \in repos[id].scans, s[2] # id, repos[s[2]].known
                 PROVE  FALSE
      OBVIOUS
    <3>1. s[2] \in Path /\ ~ Exists(s[2]) /\ s[2] # root
      BY <1>1, <1>3, <2>5, ScanShape
    <3>2. repos[s[2]].path = s[2]
      BY <1>1, <3>1 DEF WithinReach, Attached
    <3> QED BY <1>1, <2>6, <3>1, <3>2
  <2>8. \A q \in Path \ {id} : \A s \in repos[q].scans : s[2] # id
    <3> SUFFICES ASSUME NEW q \in Path \ {id}, NEW s \in repos[q].scans, s[2] = id
                 PROVE  FALSE
      OBVIOUS
    <3>1. repos[q].path = id
      BY <2>3 DEF WithinReach, Attached
    <3>2. repos[q].known /\ q # root
      BY <2>1, ScanKnown
    <3> QED BY <1>1, <1>7, <2>4, <2>6, <3>1, <3>2
  <2>9. Adopting(root, id)'
    BY <1>1, <2>1, <2>4, <2>5, <2>7, <2>8 DEF Adopting, Exists
  <2>10. put'[c].id = id /\ put'[c].root = root
    BY <1>2 DEF TypeOK
  <2>11. Chosen(c)'
    BY <1>7, <2>9, <2>10 DEF Chosen, Adopting, Exists
  <2> QED BY <1>1, <1>4, <1>5, <2>11, NothingRecorded DEF WithinReach
<1> QED BY <1>6, <1>7

(* The directory becomes the last on record of the history, and none of    *)
(* the others was ever scanned there but for histories at home there.      *)
LEMMA RecordWithin ==
  ASSUME \A c, d \in Caller : c = d, TypeOK, WithinReach,
         NEW c \in Caller, PutRecord(c)
  PROVE  WithinReach'
<1>1. PICK k \in Checkout, id \in Path, root \in Path :
        put[c] = [busy |-> TRUE, checkout |-> k, root |-> root, id |-> id]
  BY PutShape DEF PutRecord
<1>2. UNCHANGED <<at, taken>> /\ put' = [put EXCEPT ![c] = NoPut]
  BY DEF PutRecord
<1>3. repos' = [repos EXCEPT ![id] = Identify(repos[id], root, k)]
  BY <1>1 DEF PutRecord
<1>4. \A r \in Path \ {id} : repos'[r] = repos[r]
  BY <1>3 DEF TypeOK
<1>5. /\ repos'[id].known /\ repos'[id].path = root
      /\ repos'[id].former = FormerPaths(repos[id], root)
      /\ repos'[id].scans = repos[id].scans \cup {<<k, root>>}
  BY <1>3 DEF TypeOK, Identify
<1>6. \A d \in Caller : ~ put'[d].busy
  BY <1>2 DEF TypeOK, NoPut
<1>7. \A p \in Path : Exists(p)' = Exists(p)
  BY <1>2 DEF Exists
<1>8. \A p \in Path : OccupiedBy(p)' \subseteq OccupiedBy(p)
  <2> SUFFICES ASSUME NEW p \in Path, NEW j \in OccupiedBy(p)' PROVE j \in OccupiedBy(p)
    OBVIOUS
  <2>1. j \in Checkout /\ (at[j] = p \/ \E r \in Path : <<j, p>> \in repos'[r].scans)
    BY <1>2, <1>6 DEF OccupiedBy
  <2>2. ASSUME NEW r \in Path, <<j, p>> \in repos'[r].scans
        PROVE  <<j, p>> \in repos[r].scans \/ (j = k /\ p = root)
    BY <2>2, <1>4, <1>5
  <2>3. k \in OccupiedBy(root)
    BY <1>1 DEF OccupiedBy
  <2> QED BY <2>1, <2>2, <2>3 DEF OccupiedBy
<1>9. \A p \in Path : OneOccupant(p)'
  BY <1>8 DEF WithinReach, OneOccupant
<1>10. \A r \in Path : Recorded(r)'
  <2>1. \A r \in Path \ {id} : Recorded(r)'
    BY <1>4 DEF WithinReach, Recorded
  <2>2. {root} \cup repos'[id].former = {s[2] : s \in repos'[id].scans}
    <3>1. {s[2] : s \in repos'[id].scans} = {s[2] : s \in repos[id].scans} \cup {root}
      <4>1. <<k, root>>[2] = root
        OBVIOUS
      <4> QED BY <1>5, <4>1, Zenon
    <3>2. CASE repos[id].known
      <4>1. {repos[id].path} \cup repos[id].former = {s[2] : s \in repos[id].scans}
        BY <3>2 DEF WithinReach, Recorded
      <4>2. repos[id].path \in Path
        <5>1. PICK s \in repos[id].scans : s[2] = repos[id].path
          BY <4>1
        <5> QED BY <5>1, ScanShape
      <4>3. repos[id].path # Nowhere
        BY <4>2, IdentityAssumption
      <4>4. {root} \cup repos'[id].former
              = {repos[id].path} \cup repos[id].former \cup {root}
        BY <1>5, <4>3 DEF FormerPaths
      <4> QED BY <3>1, <4>1, <4>4
    <3>3. CASE ~ repos[id].known
      <4>1. repos[id] = Unknown
        BY <3>3 DEF WithinReach, Recorded
      <4>2. Unknown.path = Nowhere /\ Unknown.former = {} /\ Unknown.scans = {}
        BY DEF Unknown
      <4> QED BY <1>5, <3>1, <4>1, <4>2 DEF FormerPaths
    <3> QED BY <3>2, <3>3
  <2>3. Recorded(id)'
    BY <1>5, <2>2 DEF Recorded
  <2> QED BY <2>1, <2>3
<1>11. \A r \in Path : \A s \in repos[r].scans : s[2] \in Path
  BY ScanShape
<1>12. <<k, root>>[2] = root
  OBVIOUS
<1>13. CASE id = root
  <2>1. AtHome(root)
    BY <1>1, <1>13 DEF WithinReach, Chosen
  <2>2. Attached(root)'
    <3>1. \A s \in repos[root].scans : repos[root].path = root
      BY <2>1, ScanKnown DEF AtHome
    <3>2. ASSUME NEW s \in repos'[root].scans
          PROVE  s[2] = root \/ (~ Exists(s[2])' /\ ~ repos'[s[2]].known)
      <4>1. CASE s = <<k, root>>
        BY <4>1, <1>12
      <4>2. CASE s \in repos[root].scans
        <5>1. /\ Exists(s[2]) => root = s[2]
              /\ s[2] # root /\ repos[s[2]].known => root = s[2]
          BY <4>2, <3>1 DEF WithinReach, Attached
        <5> QED BY <4>2, <5>1, <1>4, <1>7, <1>11, <1>13
      <4> QED BY <3>2, <1>5, <1>13, <4>1, <4>2
    <3> QED BY <3>2, <1>5, <1>13 DEF Attached
  <2>3. ASSUME NEW r \in Path \ {root} PROVE Attached(r)'
    <3>1. Attached(r) /\ repos'[r] = repos[r]
      BY <1>4, <1>13 DEF WithinReach
    <3>2. \A s \in repos[r].scans : s[2] = root => repos[r].path = root
      BY <2>1 DEF AtHome
    <3> QED BY <1>4, <1>5, <1>7, <1>11, <1>13, <3>1, <3>2 DEF Attached
  <2> QED BY <1>6, <1>9, <1>10, <2>2, <2>3 DEF WithinReach, Chosen
<1>14. CASE id # root
  <2>1. Adopting(root, id)
    BY <1>1, <1>14 DEF WithinReach, Chosen
  <2>2. Attached(id)'
    <3>1. ASSUME NEW s \in repos'[id].scans
          PROVE  (Exists(s[2])' => root = s[2])
                 /\ (s[2] # id => ~ repos'[s[2]].known)
      <4>1. CASE s = <<k, root>>
        BY <4>1, <1>4, <1>12, <1>14, <2>1 DEF Adopting
      <4>2. CASE s \in repos[id].scans
        BY <4>2, <1>4, <1>7, <1>11, <2>1 DEF Adopting
      <4> QED BY <1>5, <4>1, <4>2
    <3> QED BY <3>1, <1>5, <1>7, <2>1 DEF Attached, Adopting
  <2>3. ASSUME NEW r \in Path \ {id} PROVE Attached(r)'
    <3>1. Attached(r) /\ repos'[r] = repos[r]
      BY <1>4 DEF WithinReach
    <3>2. \A s \in repos[r].scans : s[2] # id
      BY <2>1 DEF Adopting
    <3> QED BY <1>4, <1>7, <1>11, <3>1, <3>2 DEF Attached
  <2> QED BY <1>6, <1>9, <1>10, <2>2, <2>3 DEF WithinReach, Chosen
<1> QED BY <1>13, <1>14

LEMMA ForgetWithin ==
  ASSUME TypeOK, WithinReach, NEW f \in Path, Forget(f)
  PROVE  WithinReach'
<1>1. UNCHANGED <<at, put>> /\ \A q \in Path \ {f} : repos'[q] = repos[q]
  BY DEF Forget, TypeOK
<1>2. repos'[f] = Unknown /\ repos'[f].scans = {} /\ ~ repos'[f].known
  BY DEF Forget, TypeOK, Unknown
<1>3. \A p \in Path : Exists(p)' = Exists(p)
  BY <1>1 DEF Exists
<1>4. \A r \in Path : \A s \in repos'[r].scans :
        r # f /\ s \in repos[r].scans /\ s[2] \in Path
  BY <1>1, <1>2, ScanShape
<1>5. \A r \in Path : repos'[r].known => r # f /\ repos[r].known
  BY <1>1, <1>2
<1>6. \A p \in Path : OccupiedBy(p)' \subseteq OccupiedBy(p)
  BY <1>1, <1>4 DEF OccupiedBy
<1>7. \A p \in Path : OneOccupant(p)'
  BY <1>6 DEF WithinReach, OneOccupant
<1>8. \A r \in Path : Recorded(r)'
  BY <1>1, <1>2 DEF WithinReach, Recorded
<1>9. \A r \in Path : Attached(r)'
  BY <1>1, <1>3, <1>4, <1>5 DEF WithinReach, Attached
<1>10. \A c \in Caller : Chosen(c)'
  <2> SUFFICES ASSUME NEW c \in Caller, put[c].busy PROVE Chosen(c)'
    BY <1>1 DEF Chosen
  <2>1. PICK j \in Checkout, id \in Path, root \in Path :
          put[c] = [busy |-> TRUE, checkout |-> j, root |-> root, id |-> id]
    BY PutShape
  <2>2. put'[c].busy /\ put'[c].id = id /\ put'[c].root = root
    BY <1>1, <2>1
  <2>3. IF id = root THEN AtHome(root) ELSE Adopting(root, id)
    BY <2>1 DEF WithinReach, Chosen
  <2>4. AtHome(root) => AtHome(root)'
    BY <1>1, <1>4, <1>5 DEF AtHome
  <2>5. Adopting(root, id) => Adopting(root, id)'
    BY <1>1, <1>3, <1>4, <1>5 DEF Adopting
  <2> QED BY <2>2, <2>3, <2>4, <2>5 DEF Chosen
<1> QED BY <1>7, <1>8, <1>9, <1>10 DEF WithinReach

LEMMA StepWithin ==
  ASSUME ~ Reuse, \A c, d \in Caller : c = d, TypeOK, UsersAlike, WithinReach,
         [Next]_vars
  PROVE  WithinReach'
<1>1. ASSUME NEW c \in Caller, PutFail(c) PROVE WithinReach'
  <2>1. UNCHANGED <<at, repos>> /\ \A d \in Caller : ~ put'[d].busy
    BY <1>1 DEF PutFail, TypeOK, NoPut
  <2>2. \A p \in Path : OccupiedBy(p)' \subseteq OccupiedBy(p)
    BY <2>1 DEF OccupiedBy
  <2>3. \A p \in Path : Exists(p)' = Exists(p)
    BY <2>1 DEF Exists
  <2> QED BY <2>1, <2>2, <2>3, NothingRecorded DEF WithinReach, Chosen
<1>2. CASE UNCHANGED vars
  BY <1>2 DEF vars, WithinReach, Recorded, OneOccupant, OccupiedBy, Attached, Exists,
              Chosen, AtHome, Adopting
<1> QED BY <1>1, <1>2, SettleWithin, RemoveWithin, ResolveWithin, RecordWithin,
           ForgetWithin
        DEF Next, Clone, Move

(* Where no path is used twice and one scan is recorded at a time, what    *)
(* was recorded stays within reach, wherever the checkouts have moved and  *)
(* whatever histories were adopted or forgotten: RepoByPath of the scanned *)
(* directory answers with a history that holds the scan (HistoryIsFound).  *)
THEOREM HistoriesAreFound ==
  ASSUME ~ Reuse, \A c, d \in Caller : c = d
  PROVE  Spec => []HistoryIsFound
<1>1. TypeOK /\ UsersAlike /\ WithinReach /\ [Next]_vars
        => (TypeOK /\ UsersAlike /\ WithinReach)'
  BY StepAlike, StepTyped, StepWithin
<1> QED BY <1>1, InitTyped, InitAlike, InitWithin, ReachIsFound, PTL DEF Spec
=============================================================================
