------------------------------- MODULE MCSync -------------------------------
(* Small instances of Sync for TLC: two machines with a checkout each of   *)
(* one repository, or one machine with a repository that has no remote.    *)
EXTENDS Sync, TLC

CONSTANTS a, b

PerMachine == "p" :> a @@ "q" :> b

Homes == "here" :> a @@ "there" :> b

Shared == "here" :> "origin" @@ "there" :> "origin"

OneMachine == "p" :> a

OneHome == "here" :> a

OneRemote == "here" :> "origin"

NoRemote == "here" :> ""

OneEach == a :> 1 @@ b :> 1

TwoAndOne == a :> 2 @@ b :> 1

TwoScans == a :> 2

TwoSyncsAndOne == "p" :> 2 @@ "q" :> 1

OneSyncEach == "p" :> 1 @@ "q" :> 1

TwoSyncs == "p" :> 2

XOnly == <<{{"x"}}, {{"x"}}>>

XThenY == <<{{"x"}}, {{"y"}}>>

RunIDs == RepoID \X ID
=============================================================================
