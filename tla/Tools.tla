------------------------------- MODULE Tools -------------------------------
(* The scanner binaries pindrop installs, and pindrop itself: processes    *)
(* that run setup, accept a scan's offer to install what is missing, run   *)
(* uninstall or update, at the same time, with no lock; they fail, are     *)
(* cancelled, or die.  What was installed is recorded per tool, whatever   *)
(* directory it went to, in one file of pindrop's home.                    *)
(*                                                                         *)
(* A build of a tool is the version of the pindrop that pins it.  The      *)
(* user's own copies are there from the start.                             *)
EXTENDS Naturals, FiniteSets

CONSTANTS
  Process,
  Tool,
  Dir,
  Managed,      \* the directory of Dir that pindrop manages
  PathDirs,     \* the directories of Dir that are on the PATH
  MaxVersion,   \* bound: versions of pindrop
  MaxCommands,  \* bound: commands ever run
  MaxOwn        \* bound: the user's own copies

ASSUME ToolsAssumption ==
  /\ Managed \in Dir /\ PathDirs \subseteq Dir
  /\ MaxVersion \in Nat \ {0}
  /\ MaxCommands \in Nat

VARIABLES
  exe,          \* the version of the pindrop executable
  bin,          \* bin[d][t] is what is at t in directory d
  record,       \* record[t] is the version that installed.json says
  temps,        \* the downloads in progress, or left behind, in each directory
  proc,         \* proc[p] is the command of process p
  begun,        \* how many commands were begun
  put,          \* put[t]: the directories pindrop has ever installed t into
  upset         \* the tools some command was interrupted, failed or
                \* overlapped at

vars == <<exe, bin, record, temps, proc, begun, put, upset>>

history == <<begun, put, upset>>

None == 0

Version == 1 .. MaxVersion

Users == MaxVersion + 1

Unverified == MaxVersion + 2

Record == [Tool -> Version \cup {None}]

NoRecord == [t \in Tool |-> None]

NoTool == "none"

(* have is what a download produced.                                       *)
Command ==
  [step : {"idle", "planned", "installing", "fetching", "fetched",
           "removing", "updating"},
   kind : {"setup", "offer", "uninstall", "update"},
   dir : Dir, force : BOOLEAN, version : Version, rec : Record,
   todo : SUBSET Tool, tool : Tool \cup {NoTool}, have : Version \cup {Unverified},
   installed : BOOLEAN, failed : BOOLEAN]   \* some tool was, some tool did

Idle ==
  [step |-> "idle", kind |-> "setup", dir |-> Managed, force |-> FALSE, version |-> 1,
   rec |-> NoRecord, todo |-> {}, tool |-> NoTool, have |-> Unverified,
   installed |-> FALSE, failed |-> FALSE]

Init ==
  /\ exe = 1
  /\ \E own \in SUBSET (Dir \X Tool) :
       /\ Cardinality(own) <= MaxOwn
       /\ bin = [d \in Dir |-> [t \in Tool |-> IF <<d, t>> \in own THEN Users ELSE None]]
  /\ record = NoRecord
  /\ temps = {}
  /\ proc = [p \in Process |-> Idle]
  /\ begun = 0
  /\ put = [t \in Tool |-> {}]
  /\ upset = {}

Busy(p) == proc[p].step # "idle"

At(p, step) == proc[p].step = step

Going(p, step) == proc' = [proc EXCEPT ![p].step = step]

(* A command ends, or never gets to do anything.                           *)
Over(p) == proc' = [proc EXCEPT ![p] = Idle]

-----------------------------------------------------------------------------
(* toolpath: PATH first, then the managed directory.                       *)
Found(t) == {d \in Dir : bin[d][t] # None}

Lookup(t) ==
  IF Found(t) \cap PathDirs # {} THEN Found(t) \cap PathDirs
  ELSE Found(t) \cap {Managed}

Status(t, d, rec, v) ==
  CASE bin[d][t] = None -> "missing"
    [] bin[d][t] # None /\ rec[t] = None -> "foreign"
    [] bin[d][t] # None /\ rec[t] \notin {None, v} -> "outdated"
    [] OTHER -> "installed"

(* Faulty variant: what is there and not recorded is replaced, too.        *)
ToInstallAnyway(t, d, rec, v, force) ==
  force \/ Status(t, d, rec, v) \in {"missing", "outdated", "foreign"}

(* classify.                                                               *)
ToInstall(t, d, rec, v, force) ==
  force \/ Status(t, d, rec, v) \in {"missing", "outdated"}

-----------------------------------------------------------------------------
(* Commands begin.                                                         *)

Begin(p, new) ==
  /\ ~ Busy(p)
  /\ begun < MaxCommands
  /\ begun' = begun + 1
  /\ proc' = [proc EXCEPT ![p] = new]
  /\ upset' = IF \E q \in Process : Busy(q) THEN Tool ELSE upset
  /\ UNCHANGED <<exe, bin, record, temps, put>>

(* runSetup up to the confirmation: the record and what is installed.  With*)
(* nothing to do it ends.                                                  *)
Setup(p) ==
  \E only \in SUBSET Tool \ {{}}, d \in Dir, force \in BOOLEAN :
    LET todo == {t \in only : ToInstall(t, d, record, exe, force)}
    IN  /\ todo # {}
        /\ Begin(p, [Idle EXCEPT !.step = "planned", !.kind = "setup", !.dir = d,
                       !.force = force, !.version = exe, !.rec = record, !.todo = todo])

(* A scan that did not find some of its scanners offers to install them.   *)
Offer(p) ==
  LET missing == {t \in Tool : Lookup(t) = {}}
  IN  /\ missing # {}
      /\ Begin(p, [Idle EXCEPT !.step = "planned", !.kind = "offer",
                     !.version = exe, !.todo = missing])

(* runUninstall: what is recorded, and nothing else.                       *)
Uninstall(p) ==
  Begin(p, [Idle EXCEPT !.step = "planned", !.kind = "uninstall",
              !.todo = {t \in Tool : record[t] # None}])

(* A newer release of pindrop is there.                                    *)
Update(p) ==
  /\ exe < MaxVersion
  /\ Begin(p, [Idle EXCEPT !.step = "planned", !.kind = "update", !.version = exe + 1])

(* The user says no, or there is nobody to ask.                            *)
Decline(p) ==
  /\ At(p, "planned")
  /\ Over(p)
  /\ UNCHANGED <<exe, bin, record, temps, history>>

(* The user agrees.  installNow reads the record only now; CleanTemp clears*)
(* the directory of every download, whoever is at it.                      *)
Agree(p) ==
  /\ At(p, "planned")
  /\ CASE proc[p].kind = "setup" -> Going(p, "installing")
       [] proc[p].kind = "offer" ->
            proc' = [proc EXCEPT ![p].step = "installing", ![p].rec = record]
       [] proc[p].kind = "uninstall" -> Going(p, "removing")
       [] proc[p].kind = "update" -> Going(p, "updating")
  /\ temps' = IF proc[p].kind \in {"setup", "offer"}
              THEN {f \in temps : f[1] # proc[p].dir} ELSE temps
  /\ UNCHANGED <<exe, bin, record, history>>

-----------------------------------------------------------------------------
(* Install, tool by tool; that they go in the manifest's order makes no    *)
(* difference.                                                             *)

(* Faulty variant: the name of a download is that of its tool.             *)
FileOfTool(p, t) == <<proc[p].dir, t>>

File(p, t) == <<proc[p].dir, t, p>>

Download(p) ==
  /\ At(p, "installing")
  /\ \E t \in proc[p].todo :
       /\ proc' = [proc EXCEPT ![p].step = "fetching", ![p].tool = t,
                               ![p].todo = @ \ {t}]
       /\ temps' = temps \cup {File(p, t)}
  /\ UNCHANGED <<exe, bin, record, history>>

(* The asset's digest is the pinned one, or not.                           *)
Downloaded(p) ==
  /\ At(p, "fetching")
  /\ \E have \in {proc[p].version, Unverified} :
       proc' = [proc EXCEPT ![p].step = "fetched", ![p].have = have]
  /\ UNCHANGED <<exe, bin, record, temps, history>>

(* Faulty variant: the digest is not compared.                             *)
VerifiedNot(p) == TRUE

Verified(p) == proc[p].have # Unverified

(* Verified, made executable, and renamed to its place.                    *)
Finalize(p) ==
  LET t == proc[p].tool
      d == proc[p].dir
  IN  /\ At(p, "fetched")
      /\ Verified(p)
      /\ File(p, t) \in temps
      /\ temps' = temps \ {File(p, t)}
      /\ bin' = [bin EXCEPT ![d][t] = proc[p].have]
      /\ proc' = [proc EXCEPT ![p] =
           [@ EXCEPT !.step = "installing", !.installed = TRUE,
                     !.rec[t] = proc[p].version, !.tool = NoTool, !.have = Unverified]]
      /\ put' = [put EXCEPT ![t] = @ \cup {d}]
      /\ UNCHANGED <<exe, record, begun, upset>>

(* Install fails: the download broke off, does not verify, or is gone.     *)
(* setup forgets the tool, whatever is still installed of it.              *)
InstallFails(p) ==
  LET t == proc[p].tool
  IN  /\ \/ At(p, "fetching")
         \/ At(p, "fetched") /\ (~ Verified(p) \/ File(p, t) \notin temps)
      /\ temps' = temps \ {File(p, t)}
      /\ proc' = [proc EXCEPT ![p] =
           [@ EXCEPT !.step = "installing", !.failed = TRUE,
                     !.rec[t] = IF proc[p].kind = "setup" THEN None ELSE proc[p].rec[t],
                     !.tool = NoTool, !.have = Unverified]]
      /\ upset' = upset \cup {t}
      /\ UNCHANGED <<exe, bin, record, begun, put>>

(* What this command installed and did not record.                         *)
Unrecorded(p) == IF proc[p].installed THEN Tool ELSE {}

(* The command is cancelled during a download: it returns without a record.*)
Cancel(p) ==
  /\ At(p, "fetching")
  /\ temps' = temps \ {File(p, proc[p].tool)}
  /\ upset' = upset \cup Unrecorded(p)
  /\ Over(p)
  /\ UNCHANGED <<exe, bin, record, begun, put>>

(* Faulty variant: nothing is saved after a failure.                       *)
SavedOnSuccess(p) == IF proc[p].failed THEN record ELSE proc[p].rec

Saved(p) == proc[p].rec

(* setup saves its record in any case, an offer if it installed something. *)
SaveRecord(p) ==
  /\ At(p, "installing")
  /\ proc[p].todo = {}
  /\ record' = IF proc[p].kind = "setup" \/ proc[p].installed THEN Saved(p) ELSE record
  /\ Over(p)
  /\ UNCHANGED <<exe, bin, temps, history>>

(* That the record was not saved is a warning.                             *)
SaveFails(p) ==
  /\ At(p, "installing")
  /\ proc[p].todo = {}
  /\ upset' = Tool
  /\ Over(p)
  /\ UNCHANGED <<exe, bin, record, temps, begun, put>>

-----------------------------------------------------------------------------
Remove(p) ==
  /\ At(p, "removing")
  /\ \E t \in proc[p].todo :
       /\ bin' = [bin EXCEPT ![Managed][t] = None]
       /\ proc' = [proc EXCEPT ![p].todo = @ \ {t}]
  /\ UNCHANGED <<exe, record, temps, history>>

RecordRemoved == NoRecord

RemoveRecord(p) ==
  /\ At(p, "removing")
  /\ proc[p].todo = {}
  /\ record' = RecordRemoved
  /\ Over(p)
  /\ UNCHANGED <<exe, bin, temps, history>>

(* A binary cannot be removed: the rest and the record stay.               *)
RemoveFails(p) ==
  /\ At(p, "removing")
  /\ proc[p].todo # {}
  /\ upset' = Tool
  /\ Over(p)
  /\ UNCHANGED <<exe, bin, record, temps, begun, put>>

(* Apply: the new executable is renamed over the one that runs, or the     *)
(* download fails and nothing changes.                                     *)
Apply(p) ==
  /\ At(p, "updating")
  /\ exe' \in {exe, proc[p].version}
  /\ Over(p)
  /\ UNCHANGED <<bin, record, temps, history>>

(* The process dies; its temporary file stays.                             *)
Crash(p) ==
  /\ Busy(p)
  /\ upset' = IF At(p, "removing") THEN Tool ELSE upset \cup Unrecorded(p)
  /\ Over(p)
  /\ UNCHANGED <<exe, bin, record, temps, begun, put>>

Next ==
  \E p \in Process :
    \/ Setup(p) \/ Offer(p) \/ Uninstall(p) \/ Update(p)
    \/ Decline(p) \/ Agree(p)
    \/ Download(p) \/ Downloaded(p) \/ Finalize(p) \/ InstallFails(p)
    \/ Cancel(p) \/ SaveRecord(p) \/ SaveFails(p)
    \/ Remove(p) \/ RemoveRecord(p) \/ RemoveFails(p)
    \/ Apply(p) \/ Crash(p)

Spec == Init /\ [][Next]_vars

-----------------------------------------------------------------------------
TypeOK ==
  /\ exe \in Version
  /\ bin \in [Dir -> [Tool -> {None, Users, Unverified} \cup Version]]
  /\ record \in Record
  /\ temps \subseteq Dir \X Tool \X Process
  /\ proc \in [Process -> Command]
  /\ begun \in 0 .. MaxCommands
  /\ put \in [Tool -> SUBSET Dir]
  /\ upset \subseteq Tool

(* "Either the old binary or the new one is at that path, never a partial  *)
(* download": nothing unverified is where scanners are looked for, whatever*)
(* fails, dies, or cleans up behind whom.                                  *)
OnlyVerified == \A d \in Dir, t \in Tool : bin[d][t] # Unverified

Quiet == \A p \in Process : ~ Busy(p)

(* A build that pindrop installed where it manages is taken for somebody   *)
(* else's, and never updated again without --force, only after a command   *)
(* failed, died or was cancelled at it, or two commands overlapped.        *)
ForeignIsExplained ==
  Quiet => \A t \in Tool \ upset : bin[Managed][t] \in Version => record[t] # None

(* What the record says is installed in the managed directory, unless the  *)
(* tool was put into another one as well, or a command was interrupted.    *)
RecordIsHonest ==
  Quiet => \A t \in Tool \ upset :
    record[t] # None /\ put[t] = {Managed} => bin[Managed][t] = record[t]

(* The record and the directory are written one after the other and by     *)
(* several commands: they agree, in both directions, once all are over.    *)
RecordAgrees == ForeignIsExplained /\ RecordIsHonest

(* "Never silently replace a binary Pindrop did not put there": the user's *)
(* own copy is replaced or removed only with --force, or by a command that *)
(* began before or when the record listed the tool because pindrop put it  *)
(* into another directory.                                                 *)
UserCopyKept ==
  [][\A d \in Dir, t \in Tool :
       bin[d][t] = Users /\ bin'[d][t] # Users =>
         \/ put[t] \ {d} # {}
         \/ \E p \in Process : proc[p].force /\ proc[p].dir = d]_vars
=============================================================================
