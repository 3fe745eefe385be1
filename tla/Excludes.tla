------------------------------ MODULE Excludes ------------------------------
(* What is not worth scanning (internal/scan/exclude.go, cli/config.go):   *)
(* which paths the exclusions match, how they are composed from the        *)
(* defaults, the configuration file and --exclude, and what each tool      *)
(* makes of the flags they are translated to.                              *)
(*                                                                         *)
(* A pattern matches one segment.  What a tool does with a flag is what    *)
(* the comments beside its translator say, and is external to pindrop.     *)
EXTENDS Naturals, Sequences, Lists

CONSTANTS
  Wild,       \* the patterns with one of * ? [
  Classed,    \* those of them with a character class
  Expands     \* Expands[w]: the segments pattern w matches besides itself

ASSUME ExcludesAssumption == Classed \subseteq Wild

Nothing == [dirs |-> {}, files |-> {}]

(* One of each kind: a cache, dependencies, an environment, build output,  *)
(* a glob; and a file glob.                                                *)
DefaultExcludes ==
  [dirs |-> {".git", "node_modules", "env", "build", "*.egg-info"},
   files |-> {"*.min.js"}]

-----------------------------------------------------------------------------
(* Composition.                                                            *)

(* ParsePatterns: "dir:NAME" and "NAME/" are directories, "file:NAME" a    *)
(* file, and else a glob is a file and a name a directory.                 *)
IsDir(u) == u.form \in {"dir:", "/"} \/ (u.form = "" /\ u.name \notin Wild)

ParsePatterns(user) ==
  [dirs |-> {u.name : u \in {v \in user : IsDir(v)}},
   files |-> {u.name : u \in {v \in user : ~ IsDir(v)}}]

Merge(e, other) == [dirs |-> e.dirs \cup other.dirs, files |-> e.files \cup other.files]

ResolveExcludes(config, replaceDefaults, user) ==
  Merge(Merge(IF replaceDefaults THEN Nothing ELSE DefaultExcludes, config),
        ParsePatterns(user))

-----------------------------------------------------------------------------
(* Matching.                                                               *)

Glob(pattern, segment) ==
  segment = pattern \/ (pattern \in Wild /\ segment \in Expands[pattern])

Above(p) == 1 .. Len(p) - 1

InDir(dirs, p) == \E i \in Above(p), d \in dirs : Glob(d, p[i])

IsFile(files, p) == \E f \in files : Glob(f, p[Len(p)])

(* What cannot be placed inside the tree is never excluded.                *)
Match(e, p) ==
  /\ p # <<>> /\ p[1] \notin {"/", ".."}
  /\ InDir(e.dirs, p) \/ IsFile(e.files, p)

Filter(e, findings) ==
  Picked(findings, {i \in DOMAIN findings : ~ Match(e, findings[i].path)})

-----------------------------------------------------------------------------
(* What the tools skip by themselves.                                      *)

LicenseSourceDirs == {"node_modules", "vendor", ".yarn"}

(* TrivyArgs: a bare form matches at the root, a "**/" form below it.      *)
TrivyArgs(e, p) ==
  \/ Len(p) > 1 /\ \E d \in e.dirs : Glob(d, p[1])
  \/ \E i \in Above(p) \ {1}, d \in e.dirs : Glob(d, p[i])
  \/ IsFile(e.files, p)

(* skipArgs: the license scanner has to read some directories.             *)
SkipArgs(e, licenses, p) ==
  TrivyArgs(IF licenses THEN [e EXCEPT !.dirs = @ \ LicenseSourceDirs] ELSE e, p)

OSVArgs(e, p) == InDir(e.dirs, p)

(* Faulty variant: the directories are given without their slash.          *)
OpengrepArgsBare(e, p) == \E i \in DOMAIN p, d \in e.dirs \cup e.files : Glob(d, p[i])

(* gitignore syntax: "NAME/" is a directory, "NAME" a file or a directory. *)
OpengrepArgs(e, p) == InDir(e.dirs, p) \/ \E i \in DOMAIN p, f \in e.files : Glob(f, p[i])

(* globToRegexp quotes a class, which then matches nothing but itself.     *)
GlobToRegexp(pattern, segment) ==
  segment = pattern \/ (pattern \in Wild \ Classed /\ segment \in Expands[pattern])

(* Regular expressions matched against the whole path.                     *)
TruffleHogPatterns(e, p) ==
  \/ \E i \in Above(p), d \in e.dirs : GlobToRegexp(d, p[i])
  \/ \E f \in e.files : GlobToRegexp(f, p[Len(p)])

(* Lockfiles, for the secret scanner only.                                 *)
SecretNoiseExcludes == {"package-lock.json", "yarn.lock", "go.sum"}
=============================================================================
