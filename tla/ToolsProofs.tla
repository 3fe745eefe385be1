----------------------------- MODULE ToolsProofs -----------------------------
(* Theorems about the installed tools, for any number of processes, tools, *)
(* directories and versions, whatever fails, dies or overlaps.             *)
EXTENDS Tools, TLAPS

-----------------------------------------------------------------------------
(* What a command is about to do goes with how far it got: only setup and  *)
(* offers install, only uninstall removes; a download is of some tool, and *)
(* what it yields is the build that was asked for, or nothing verified.    *)
Orderly(p) ==
  /\ proc[p].step \in {"installing", "fetching", "fetched"}
       => proc[p].kind \in {"setup", "offer"}
  /\ proc[p].step = "removing" => proc[p].kind = "uninstall"
  /\ proc[p].step \in {"fetching", "fetched"} => proc[p].tool \in Tool
  /\ proc[p].step = "fetched" => proc[p].have \in {proc[p].version, Unverified}

Typing == TypeOK /\ \A p \in Process : Orderly(p)

LEMMA IdleType == Idle \in Command
BY ToolsAssumption DEF Idle, Command, Record, NoRecord, None, NoTool, Version, Unverified

LEMMA InitTyped == Init => Typing
<1> SUFFICES ASSUME Init PROVE Typing
  OBVIOUS
<1>1. proc \in [Process -> Command] /\ \A p \in Process : Orderly(p)
  BY IdleType DEF Init, Orderly, Idle
<1>2. bin \in [Dir -> [Tool -> {None, Users, Unverified} \cup Version]]
  BY DEF Init
<1> QED
  BY <1>1, <1>2, ToolsAssumption
     DEF Init, Typing, TypeOK, Record, NoRecord, None, Version

(* A command that begins is well formed, and so is the step it takes.      *)
LEMMA BeginTyped ==
  ASSUME Typing, NEW p \in Process, NEW new \in Command, new.step = "planned",
         Begin(p, new)
  PROVE  Typing'
BY ToolsAssumption DEF Begin, Typing, TypeOK, Orderly, Busy

LEMMA OverTyped ==
  ASSUME Typing, NEW p \in Process, Over(p)
  PROVE  proc' \in [Process -> Command] /\ \A q \in Process : Orderly(q)'
BY IdleType DEF Over, Typing, TypeOK, Orderly, Idle

LEMMA SetupTyped ==
  ASSUME Typing, NEW p \in Process, Setup(p)
  PROVE  Typing'
<1>1. PICK only \in SUBSET Tool \ {{}}, d \in Dir, force \in BOOLEAN :
        LET todo == {t \in only : ToInstall(t, d, record, exe, force)}
        IN  Begin(p, [Idle EXCEPT !.step = "planned", !.kind = "setup", !.dir = d,
                        !.force = force, !.version = exe, !.rec = record, !.todo = todo])
  BY DEF Setup
<1> DEFINE todo == {t \in only : ToInstall(t, d, record, exe, force)}
           new == [Idle EXCEPT !.step = "planned", !.kind = "setup", !.dir = d,
                     !.force = force, !.version = exe, !.rec = record, !.todo = todo]
<1>2. todo \in SUBSET Tool
  OBVIOUS
<1> HIDE DEF todo
<1>3. new \in Command /\ new.step = "planned"
  BY <1>2, IdleType DEF Command, Idle, Typing, TypeOK
<1> QED
  BY <1>1, <1>3, BeginTyped DEF todo

LEMMA OfferTyped ==
  ASSUME Typing, NEW p \in Process, Offer(p)
  PROVE  Typing'
<1> DEFINE missing == {t \in Tool : Lookup(t) = {}}
           new == [Idle EXCEPT !.step = "planned", !.kind = "offer",
                     !.version = exe, !.todo = missing]
<1>1. Begin(p, new)
  BY DEF Offer
<1>2. missing \in SUBSET Tool
  OBVIOUS
<1> HIDE DEF missing
<1>3. new \in Command /\ new.step = "planned"
  BY <1>2, IdleType DEF Command, Idle, Typing, TypeOK
<1> QED
  BY <1>1, <1>3, BeginTyped

LEMMA UninstallTyped ==
  ASSUME Typing, NEW p \in Process, Uninstall(p)
  PROVE  Typing'
<1> DEFINE listed == {t \in Tool : record[t] # None}
           new == [Idle EXCEPT !.step = "planned", !.kind = "uninstall", !.todo = listed]
<1>1. Begin(p, new)
  BY DEF Uninstall
<1>2. listed \in SUBSET Tool
  OBVIOUS
<1> HIDE DEF listed
<1>3. new \in Command /\ new.step = "planned"
  BY <1>2, IdleType DEF Command, Idle
<1> QED
  BY <1>1, <1>3, BeginTyped

LEMMA UpdateTyped ==
  ASSUME Typing, NEW p \in Process, Update(p)
  PROVE  Typing'
<1> DEFINE new == [Idle EXCEPT !.step = "planned", !.kind = "update", !.version = exe + 1]
<1>1. Begin(p, new) /\ exe + 1 \in Version
  BY ToolsAssumption DEF Update, Typing, TypeOK, Version
<1>2. new \in Command /\ new.step = "planned"
  BY <1>1, IdleType DEF Command, Idle
<1> QED
  BY <1>1, <1>2, BeginTyped

(* How the steps change a command: each result is one.                     *)
LEMMA CommandGoesOn ==
  ASSUME NEW c \in Command,
         NEW step \in {"installing", "removing", "updating"}, NEW rec \in Record
  PROVE  [c EXCEPT !.step = step, !.rec = rec] \in Command
BY DEF Command

LEMMA CommandHas ==
  ASSUME NEW c \in Command, NEW have \in {c.version, Unverified}
  PROVE  [c EXCEPT !.step = "fetched", !.have = have] \in Command
BY DEF Command

LEMMA CommandDrops ==
  ASSUME NEW c \in Command, NEW t
  PROVE  [c EXCEPT !.todo = @ \ {t}] \in Command
BY DEF Command

LEMMA CommandFails ==
  ASSUME NEW c \in Command, NEW t \in Tool
  PROVE  [c EXCEPT !.step = "installing", !.failed = TRUE,
                   !.rec[t] = IF c.kind = "setup" THEN None ELSE c.rec[t],
                   !.tool = NoTool, !.have = Unverified] \in Command
<1> DEFINE rec == [c.rec EXCEPT ![t] = IF c.kind = "setup" THEN None ELSE c.rec[t]]
<1>1. rec \in Record
  BY DEF Command, Record
<1> HIDE DEF rec
<1>2. [c EXCEPT !.step = "installing", !.failed = TRUE, !.rec = rec,
                !.tool = NoTool, !.have = Unverified] \in Command
  BY <1>1 DEF Command
<1> QED
  BY <1>2 DEF rec

LEMMA CommandInstalls ==
  ASSUME NEW c \in Command, NEW t \in Tool
  PROVE  [c EXCEPT !.step = "installing", !.installed = TRUE, !.rec[t] = c.version,
                   !.tool = NoTool, !.have = Unverified] \in Command
<1> DEFINE rec == [c.rec EXCEPT ![t] = c.version]
<1>1. rec \in Record
  BY DEF Command, Record
<1> HIDE DEF rec
<1>2. [c EXCEPT !.step = "installing", !.installed = TRUE, !.rec = rec,
                !.tool = NoTool, !.have = Unverified] \in Command
  BY <1>1 DEF Command
<1> QED
  BY <1>2 DEF rec

LEMMA StepTyped == Typing /\ [Next]_vars => Typing'
<1> SUFFICES ASSUME Typing, [Next]_vars PROVE Typing'
  OBVIOUS
<1> USE ToolsAssumption DEF Typing, TypeOK
<1>1. CASE UNCHANGED vars
  BY <1>1 DEF vars, Orderly
<1>2. ASSUME NEW p \in Process, Decline(p) PROVE Typing'
  BY <1>2, OverTyped DEF Decline, history
<1>3. ASSUME NEW p \in Process, Agree(p) PROVE Typing'
  <2>1. PICK step \in {"installing", "removing", "updating"}, rec \in Record :
          /\ proc' = [proc EXCEPT ![p] = [proc[p] EXCEPT !.step = step, !.rec = rec]]
          /\ step = "installing" => proc[p].kind \in {"setup", "offer"}
          /\ step = "removing" => proc[p].kind = "uninstall"
    <3>1. proc[p] \in Command
      OBVIOUS
    <3>2. proc[p].kind \in {"setup", "offer", "uninstall", "update"}
          /\ proc[p].rec \in Record
          /\ \A step : [proc[p] EXCEPT !.step = step]
                        = [proc[p] EXCEPT !.step = step, !.rec = proc[p].rec]
      BY <3>1 DEF Command
    <3> QED
      BY <1>3, <3>2 DEF Agree, Going
  <2>2. [proc[p] EXCEPT !.step = step, !.rec = rec] \in Command
    BY CommandGoesOn
  <2>3. \A q \in Process : Orderly(q)'
    BY <2>1 DEF Command, Orderly
  <2> QED
    BY <1>3, <2>1, <2>2, <2>3 DEF Agree, history
<1>4. ASSUME NEW p \in Process, Download(p) PROVE Typing'
  BY <1>4 DEF Download, At, File, history, Command, Orderly
<1>5. ASSUME NEW p \in Process, Downloaded(p) PROVE Typing'
  <2>1. proc' \in [Process -> Command]
    <3>1. PICK have \in {proc[p].version, Unverified} :
            proc' = [proc EXCEPT ![p] = [proc[p] EXCEPT !.step = "fetched", !.have = have]]
      BY <1>5 DEF Downloaded
    <3>2. [proc[p] EXCEPT !.step = "fetched", !.have = have] \in Command
      BY CommandHas
    <3> QED
      BY <3>1, <3>2
  <2>2. \A q \in Process : Orderly(q)'
    BY <1>5 DEF Downloaded, At, Command, Orderly
  <2> QED
    BY <1>5, <2>1, <2>2 DEF Downloaded, history
<1>6. ASSUME NEW p \in Process, Finalize(p) PROVE Typing'
  <2>1. proc' \in [Process -> Command]
    BY <1>6, CommandInstalls DEF Finalize, At, Orderly
  <2>2. bin' \in [Dir -> [Tool -> {None, Users, Unverified} \cup Version]]
    BY <1>6 DEF Finalize, At, Command, Orderly
  <2>3. \A q \in Process : Orderly(q)'
    BY <1>6 DEF Finalize, At, Orderly, Command
  <2>4. temps' \subseteq Dir \X Tool \X Process /\ put' \in [Tool -> SUBSET Dir]
    BY <1>6 DEF Finalize, At, Orderly, Command
  <2> QED
    BY <1>6, <2>1, <2>2, <2>3, <2>4 DEF Finalize
<1>7. ASSUME NEW p \in Process, InstallFails(p) PROVE Typing'
  <2>1. proc' \in [Process -> Command]
    <3> DEFINE c == proc[p]
               t == c.tool
               new == [c EXCEPT !.step = "installing", !.failed = TRUE,
                         !.rec[t] = IF c.kind = "setup" THEN None ELSE c.rec[t],
                         !.tool = NoTool, !.have = Unverified]
    <3>1. proc' = [proc EXCEPT ![p] = new]
      BY <1>7 DEF InstallFails
    <3>2. c \in Command /\ t \in Tool
      BY <1>7 DEF InstallFails, At, Orderly
    <3> HIDE DEF c, t
    <3>3. new \in Command
      BY <3>2, CommandFails
    <3> QED
      BY <3>1, <3>3
  <2>2. \A q \in Process : Orderly(q)'
    BY <1>7 DEF InstallFails, At, Command, Orderly
  <2>3. upset' \subseteq Tool
    BY <1>7 DEF InstallFails, At, Orderly
  <2> QED
    BY <1>7, <2>1, <2>2, <2>3 DEF InstallFails
<1>8. ASSUME NEW p \in Process, Cancel(p) PROVE Typing'
  BY <1>8, OverTyped DEF Cancel, Unrecorded
<1>9. ASSUME NEW p \in Process, SaveRecord(p) PROVE Typing'
  <2>1. record' \in Record
    BY <1>9 DEF SaveRecord, Saved, Command
  <2> QED
    BY <1>9, <2>1, OverTyped DEF SaveRecord, history
<1>10. ASSUME NEW p \in Process, SaveFails(p) PROVE Typing'
  BY <1>10, OverTyped DEF SaveFails
<1>11. ASSUME NEW p \in Process, Remove(p) PROVE Typing'
  <2>1. proc' \in [Process -> Command]
    <3>1. PICK t : proc' = [proc EXCEPT ![p] = [proc[p] EXCEPT !.todo = @ \ {t}]]
      BY <1>11 DEF Remove
    <3>2. [proc[p] EXCEPT !.todo = @ \ {t}] \in Command
      BY CommandDrops
    <3> QED
      BY <3>1, <3>2
  <2>2. \A q \in Process : Orderly(q)'
    BY <1>11 DEF Remove, At, Command, Orderly
  <2>3. bin' \in [Dir -> [Tool -> {None, Users, Unverified} \cup Version]]
    BY <1>11 DEF Remove, Command
  <2> QED
    BY <1>11, <2>1, <2>2, <2>3 DEF Remove, history
<1>12. ASSUME NEW p \in Process, RemoveRecord(p) PROVE Typing'
  BY <1>12, OverTyped DEF RemoveRecord, RecordRemoved, NoRecord, Record, history
<1>13. ASSUME NEW p \in Process, RemoveFails(p) PROVE Typing'
  BY <1>13, OverTyped DEF RemoveFails
<1>14. ASSUME NEW p \in Process, Apply(p) PROVE Typing'
  <2>1. exe' \in Version
    BY <1>14 DEF Apply, Command
  <2> QED
    BY <1>14, <2>1, OverTyped DEF Apply, history
<1>15. ASSUME NEW p \in Process, Crash(p) PROVE Typing'
  BY <1>15, OverTyped DEF Crash, Unrecorded
<1> QED
  BY <1>1, <1>2, <1>3, <1>4, <1>5, <1>6, <1>7, <1>8, <1>9, <1>10, <1>11, <1>12,
     <1>13, <1>14, <1>15, SetupTyped, OfferTyped, UninstallTyped, UpdateTyped DEF Next

(* The state of the machine and of every command is well typed.            *)
THEOREM Typed == Spec => []TypeOK
<1>1. Typing => TypeOK
  BY DEF Typing
<1> QED
  BY <1>1, InitTyped, StepTyped, PTL DEF Spec

(* "Never a partial download": nothing unverified is ever where scanners   *)
(* are looked for.                                                         *)
THEOREM NothingUnverified == Spec => []OnlyVerified
<1>1. Init => OnlyVerified
  <2>1. Users # Unverified /\ None # Unverified
    BY ToolsAssumption DEF Users, Unverified, None
  <2>2. ASSUME Init, NEW d \in Dir, NEW t \in Tool PROVE bin[d][t] \in {Users, None}
    BY <2>2 DEF Init
  <2> QED
    BY <2>1, <2>2 DEF OnlyVerified
<1>2. Typing /\ OnlyVerified /\ [Next]_vars => OnlyVerified'
  <2> SUFFICES ASSUME Typing, OnlyVerified, [Next]_vars PROVE OnlyVerified'
    OBVIOUS
  <2> USE DEF OnlyVerified
  <2>1. CASE UNCHANGED bin
    BY <2>1
  <2>2. ASSUME NEW p \in Process, Finalize(p) PROVE OnlyVerified'
    <3>1. proc[p].have # Unverified
      BY <2>2 DEF Finalize, Verified
    <3>2. bin' = [bin EXCEPT ![proc[p].dir][proc[p].tool] = proc[p].have]
      BY <2>2 DEF Finalize
    <3> QED
      BY <3>1, <3>2 DEF Typing, TypeOK
  <2>3. ASSUME NEW p \in Process, Remove(p) PROVE OnlyVerified'
    BY <2>3, ToolsAssumption DEF Remove, Typing, TypeOK, None, Unverified
  <2> QED
    BY <2>1, <2>2, <2>3
       DEF Next, vars, Setup, Offer, Uninstall, Update, Begin, Decline, Agree, Download,
           Downloaded, InstallFails, Cancel, SaveRecord, SaveFails, RemoveRecord,
           RemoveFails, Apply, Crash
<1> QED
  BY <1>1, <1>2, InitTyped, StepTyped, PTL DEF Spec

-----------------------------------------------------------------------------
(* The user's copies.  What is recorded, or taken for recorded by a        *)
(* command, pindrop has put somewhere; a copy of the user's is not where   *)
(* pindrop ever put that tool; and a command that is going to replace one  *)
(* was forced to, or found the tool recorded.                              *)
Pending(p) ==
  IF proc[p].step \in {"fetching", "fetched"}
  THEN proc[p].todo \cup {proc[p].tool} ELSE proc[p].todo

Spares(p) ==
  /\ \A t \in Tool : proc[p].rec[t] # None => put[t] # {}
  /\ proc[p].kind = "uninstall" => \A t \in proc[p].todo : put[t] # {}
  /\ proc[p].kind \in {"setup", "offer"} =>
       \A t \in Pending(p) :
         bin[proc[p].dir][t] = Users => proc[p].force \/ put[t] # {}

CopiesKnown ==
  /\ \A d \in Dir, t \in Tool : bin[d][t] = Users => d \notin put[t]
  /\ \A t \in Tool : record[t] # None => put[t] # {}
  /\ \A p \in Process : Spares(p)

(* A copy of the user's never comes back, and what pindrop put somewhere   *)
(* stays known.                                                            *)
LEMMA UsersLeave ==
  ASSUME Typing, [Next]_vars
  PROVE  /\ \A d \in Dir, t \in Tool : bin'[d][t] = Users => bin[d][t] = Users
         /\ \A t \in Tool : put[t] \subseteq put'[t]
<1> USE DEF Typing, TypeOK
<1>1. CASE UNCHANGED <<bin, put>>
  BY <1>1
<1>2. ASSUME NEW p \in Process, Finalize(p)
      PROVE  /\ \A d \in Dir, t \in Tool : bin'[d][t] = Users => bin[d][t] = Users
             /\ \A t \in Tool : put[t] \subseteq put'[t]
  <2>1. proc[p].have # Users
    BY <1>2, ToolsAssumption DEF Finalize, Verified, Command, Version, Users, Unverified
  <2> QED
    BY <1>2, <2>1 DEF Finalize
<1>3. ASSUME NEW p \in Process, Remove(p)
      PROVE  /\ \A d \in Dir, t \in Tool : bin'[d][t] = Users => bin[d][t] = Users
             /\ \A t \in Tool : put[t] \subseteq put'[t]
  <2>1. None # Users
    BY ToolsAssumption DEF Users, None
  <2> QED
    BY <1>3, <2>1 DEF Remove, history
<1> QED
  BY <1>1, <1>2, <1>3
     DEF Next, vars, history, Setup, Offer, Uninstall, Update, Begin, Decline, Agree,
         Download, Downloaded, InstallFails, Cancel, SaveRecord, SaveFails, RemoveRecord,
         RemoveFails, Apply, Crash

LEMMA SparesStays ==
  ASSUME Typing, [Next]_vars, NEW p \in Process, Spares(p), proc'[p] = proc[p]
  PROVE  Spares(p)'
<1>1. Pending(p)' = Pending(p) /\ Pending(p) \subseteq Tool
  BY DEF Pending, Typing, TypeOK, Command, Orderly
<1>2. proc[p].dir \in Dir /\ proc[p].todo \subseteq Tool
  BY DEF Typing, TypeOK, Command
<1> QED
  BY <1>1, <1>2, UsersLeave DEF Spares

(* So does a command that goes on without taking on more.                  *)
LEMMA SparesGoesOn ==
  ASSUME Typing, [Next]_vars, NEW p \in Process, Spares(p),
         proc'[p].kind = proc[p].kind, proc'[p].dir = proc[p].dir,
         proc'[p].force = proc[p].force, proc'[p].todo \subseteq proc[p].todo,
         Pending(p)' \subseteq Pending(p),
         \A t \in Tool : proc'[p].rec[t] # None => put'[t] # {}
  PROVE  Spares(p)'
<1>1. proc[p].dir \in Dir /\ proc[p].todo \subseteq Tool /\ Pending(p) \subseteq Tool
  BY DEF Pending, Typing, TypeOK, Command, Orderly
<1> QED
  BY <1>1, UsersLeave DEF Spares

LEMMA IdleSpares ==
  ASSUME NEW p \in Process, proc'[p] = Idle
  PROVE  Spares(p)'
BY DEF Spares, Idle, Pending, NoRecord, None

(* What begins spares what it should.                                      *)
LEMMA BeginSpares ==
  ASSUME Typing, CopiesKnown, NEW p \in Process,
         Setup(p) \/ Offer(p) \/ Uninstall(p) \/ Update(p)
  PROVE  /\ Spares(p)'
         /\ \A q \in Process \ {p} : proc'[q] = proc[q]
         /\ UNCHANGED <<bin, record, put>>
<1> USE DEF Typing, TypeOK
<1>1. CASE Setup(p)
  <2>1. PICK only \in SUBSET Tool \ {{}}, d \in Dir, force \in BOOLEAN :
          LET todo == {t \in only : ToInstall(t, d, record, exe, force)}
          IN  Begin(p, [Idle EXCEPT !.step = "planned", !.kind = "setup", !.dir = d,
                          !.force = force, !.version = exe, !.rec = record, !.todo = todo])
    BY <1>1 DEF Setup
  <2> DEFINE todo == {t \in only : ToInstall(t, d, record, exe, force)}
  <2>2. ASSUME NEW t \in todo, bin[d][t] = Users
        PROVE  force \/ put[t] # {}
    <3>1. t \in Tool /\ (force \/ Status(t, d, record, exe) \in {"missing", "outdated"})
      BY DEF ToInstall
    <3>2. bin[d][t] # None
      BY <2>2, ToolsAssumption DEF Users, None
    <3> QED
      BY <3>1, <3>2 DEF Status, CopiesKnown
  <2> HIDE DEF todo
  <2>3. /\ proc'[p] = [Idle EXCEPT !.step = "planned", !.kind = "setup", !.dir = d,
                         !.force = force, !.version = exe, !.rec = record, !.todo = todo]
        /\ \A q \in Process \ {p} : proc'[q] = proc[q]
        /\ UNCHANGED <<bin, record, put>>
    BY <2>1 DEF Begin, todo
  <2>4. Pending(p)' = todo
    BY <2>3 DEF Pending, Idle
  <2> QED
    BY <2>2, <2>3, <2>4 DEF Spares, Idle, CopiesKnown
<1>2. CASE Offer(p)
  <2> DEFINE missing == {t \in Tool : Lookup(t) = {}}
  <2>1. /\ proc'[p] = [Idle EXCEPT !.step = "planned", !.kind = "offer",
                          !.version = exe, !.todo = missing]
        /\ \A q \in Process \ {p} : proc'[q] = proc[q]
        /\ UNCHANGED <<bin, record, put>>
    BY <1>2 DEF Offer, Begin
  <2>2. \A t \in missing : bin[Managed][t] = None
    BY ToolsAssumption DEF Lookup, Found
  <2> HIDE DEF missing
  <2>3. Pending(p)' = missing
    BY <2>1 DEF Pending, Idle
  <2>4. None # Users
    BY ToolsAssumption DEF Users, None
  <2> QED
    BY <2>1, <2>2, <2>3, <2>4 DEF Spares, Idle, CopiesKnown, NoRecord
<1>3. CASE Uninstall(p)
  <2>1. /\ proc'[p] = [Idle EXCEPT !.step = "planned", !.kind = "uninstall",
                          !.todo = {t \in Tool : record[t] # None}]
        /\ \A q \in Process \ {p} : proc'[q] = proc[q]
        /\ UNCHANGED <<bin, record, put>>
    BY <1>3 DEF Uninstall, Begin
  <2> QED
    BY <2>1 DEF Spares, Idle, CopiesKnown, NoRecord
<1>4. CASE Update(p)
  <2>1. /\ proc'[p] = [Idle EXCEPT !.step = "planned", !.kind = "update",
                          !.version = exe + 1]
        /\ \A q \in Process \ {p} : proc'[q] = proc[q]
        /\ UNCHANGED <<bin, record, put>>
    BY <1>4 DEF Update, Begin
  <2> QED
    BY <2>1 DEF Spares, Idle, NoRecord
<1> QED
  BY <1>1, <1>2, <1>3, <1>4

LEMMA CopiesStayKnown == Typing /\ CopiesKnown /\ [Next]_vars => CopiesKnown'
<1> SUFFICES ASSUME Typing, CopiesKnown, [Next]_vars PROVE CopiesKnown'
  OBVIOUS
<1> USE DEF Typing, TypeOK
<1> DEFINE Kept == /\ \A d \in Dir, t \in Tool : bin'[d][t] = Users => d \notin put'[t]
                   /\ \A t \in Tool : record'[t] # None => put'[t] # {}
<1>1. ASSUME Kept, NEW p \in Process, Spares(p)',
             \A q \in Process \ {p} : proc'[q] = proc[q]
      PROVE  CopiesKnown'
  BY <1>1, SparesStays DEF CopiesKnown
<1>2. UNCHANGED <<bin, record, put>> => Kept
  BY DEF CopiesKnown
<1>3. CASE UNCHANGED vars
  BY <1>2, <1>3, SparesStays DEF vars, CopiesKnown
<1>4. ASSUME NEW p \in Process, Over(p), UNCHANGED <<bin, record, put>>
      PROVE  CopiesKnown'
  BY <1>1, <1>2, <1>4, IdleSpares DEF Over
<1>5. ASSUME NEW p \in Process, Setup(p) \/ Offer(p) \/ Uninstall(p) \/ Update(p)
      PROVE  CopiesKnown'
  BY <1>1, <1>2, <1>5, BeginSpares
<1>6. ASSUME NEW p \in Process, Agree(p) PROVE CopiesKnown'
  <2>1. UNCHANGED <<bin, record, put>> /\ \A q \in Process \ {p} : proc'[q] = proc[q]
    BY <1>6 DEF Agree, Going, history, Command
  <2>2. /\ proc'[p].kind = proc[p].kind /\ proc'[p].todo = proc[p].todo
        /\ proc'[p].dir = proc[p].dir /\ proc'[p].force = proc[p].force
        /\ proc'[p].rec \in {proc[p].rec, record}
        /\ proc[p].step = "planned"
        /\ proc'[p].step \in {"installing", "removing", "updating"}
    <3>1. proc[p].kind \in {"setup", "offer", "uninstall", "update"}
      BY DEF Command
    <3>2. proc[p].step = "planned"
      BY <1>6 DEF Agree, At
    <3>3. PICK step \in {"installing", "removing", "updating"} :
            \/ proc' = [proc EXCEPT ![p].step = step]
            \/ proc' = [proc EXCEPT ![p].step = step, ![p].rec = record]
      BY <1>6, <3>1 DEF Agree, Going
    <3> QED
      BY <3>2, <3>3 DEF Command
  <2>3. Pending(p) = proc[p].todo /\ Pending(p)' = proc[p].todo
    BY <2>2 DEF Pending
  <2>4. \A t \in Tool : proc'[p].rec[t] # None => put'[t] # {}
    BY <2>1, <2>2 DEF CopiesKnown, Spares
  <2>5. Spares(p)
    BY DEF CopiesKnown
  <2>6. Spares(p)'
    BY <2>2, <2>3, <2>4, <2>5, SparesGoesOn
  <2> QED
    BY <1>1, <1>2, <2>1, <2>6
<1>7. ASSUME NEW p \in Process, Download(p) PROVE CopiesKnown'
  <2>1. UNCHANGED <<bin, record, put>> /\ \A q \in Process \ {p} : proc'[q] = proc[q]
    BY <1>7 DEF Download, history
  <2>2. PICK t \in proc[p].todo :
          proc' = [proc EXCEPT ![p].step = "fetching", ![p].tool = t, ![p].todo = @ \ {t}]
    BY <1>7 DEF Download
  <2>3. proc[p].step = "installing"
    BY <1>7 DEF Download, At
  <2>4. /\ proc'[p].kind = proc[p].kind /\ proc'[p].todo = proc[p].todo \ {t}
        /\ proc'[p].dir = proc[p].dir /\ proc'[p].force = proc[p].force
        /\ proc'[p].rec = proc[p].rec /\ proc'[p].step = "fetching" /\ proc'[p].tool = t
    BY <2>2 DEF Command
  <2>5. Pending(p)' = Pending(p)
    BY <2>3, <2>4 DEF Pending
  <2>6. \A u \in Tool : proc'[p].rec[u] # None => put'[u] # {}
    BY <2>1, <2>4 DEF CopiesKnown, Spares
  <2>7. Spares(p)
    BY DEF CopiesKnown
  <2>8. Spares(p)'
    BY <2>4, <2>5, <2>6, <2>7, SparesGoesOn
  <2> QED
    BY <1>1, <1>2, <2>1, <2>8
<1>8. ASSUME NEW p \in Process, Downloaded(p) PROVE CopiesKnown'
  <2>1. UNCHANGED <<bin, record, put>> /\ \A q \in Process \ {p} : proc'[q] = proc[q]
    BY <1>8 DEF Downloaded, history
  <2>2. /\ proc'[p].kind = proc[p].kind /\ proc'[p].todo = proc[p].todo
        /\ proc'[p].dir = proc[p].dir /\ proc'[p].force = proc[p].force
        /\ proc'[p].rec = proc[p].rec /\ proc'[p].step = "fetched"
        /\ proc'[p].tool = proc[p].tool /\ proc[p].step = "fetching"
    BY <1>8 DEF Downloaded, At, Command
  <2>3. Pending(p)' = Pending(p)
    BY <2>2 DEF Pending
  <2>4. \A t \in Tool : proc'[p].rec[t] # None => put'[t] # {}
    BY <2>1, <2>2 DEF CopiesKnown, Spares
  <2>5. Spares(p)
    BY DEF CopiesKnown
  <2>6. Spares(p)'
    BY <2>2, <2>3, <2>4, <2>5, SparesGoesOn
  <2> QED
    BY <1>1, <1>2, <2>1, <2>6
<1>9. ASSUME NEW p \in Process, Finalize(p) PROVE CopiesKnown'
  <2> DEFINE d == proc[p].dir
             t == proc[p].tool
  <2>1. /\ d \in Dir /\ t \in Tool
        /\ put' = [put EXCEPT ![t] = @ \cup {d}] /\ UNCHANGED record
        /\ bin' = [bin EXCEPT ![d][t] = proc[p].have] /\ proc[p].have \in Version
        /\ proc[p].step = "fetched"
    BY <1>9 DEF Finalize, At, Orderly, Command, Verified
  <2>2. /\ proc'[p].kind = proc[p].kind /\ proc'[p].todo = proc[p].todo
        /\ proc'[p].dir = d /\ proc'[p].force = proc[p].force
        /\ proc'[p].rec = [proc[p].rec EXCEPT ![t] = proc[p].version]
        /\ proc'[p].step = "installing"
        /\ \A q \in Process \ {p} : proc'[q] = proc[q]
    BY <1>9 DEF Finalize, Command
  <2>3. Kept
    <3>1. \A v \in Version : v # Users
      BY ToolsAssumption DEF Version, Users
    <3> QED
      BY <2>1, <3>1 DEF CopiesKnown
  <2>4. Pending(p)' \subseteq Pending(p) /\ Pending(p) \subseteq Tool
    BY <2>1, <2>2 DEF Pending, Command
  <2>5. proc[p].rec \in Record /\ proc[p].todo \subseteq Tool
    BY DEF Command
  <2>6. \A u \in Tool : proc'[p].rec[u] # None => put'[u] # {}
    <3>1. \A u \in Tool \ {t} : proc'[p].rec[u] = proc[p].rec[u] /\ put'[u] = put[u]
      BY <2>1, <2>2, <2>5 DEF Record
    <3>2. put'[t] # {}
      BY <2>1
    <3> QED
      BY <3>1, <3>2 DEF CopiesKnown, Spares
  <2>7. Spares(p)
    BY DEF CopiesKnown
  <2>8. Spares(p)'
    BY <2>2, <2>4, <2>6, <2>7, SparesGoesOn
  <2> QED
    BY <1>1, <2>2, <2>3, <2>8
<1>10. ASSUME NEW p \in Process, InstallFails(p) PROVE CopiesKnown'
  <2> DEFINE t == proc[p].tool
  <2>1. UNCHANGED <<bin, record, put>> /\ \A q \in Process \ {p} : proc'[q] = proc[q]
    BY <1>10 DEF InstallFails
  <2>2. /\ proc'[p].kind = proc[p].kind /\ proc'[p].todo = proc[p].todo
        /\ proc'[p].dir = proc[p].dir /\ proc'[p].force = proc[p].force
        /\ proc'[p].rec = [proc[p].rec EXCEPT
              ![t] = IF proc[p].kind = "setup" THEN None ELSE proc[p].rec[t]]
        /\ proc'[p].step = "installing"
    BY <1>10 DEF InstallFails, Command
  <2>3. Pending(p)' \subseteq Pending(p)
    BY <2>2 DEF Pending
  <2>4. proc[p].rec \in Record
    BY DEF Command
  <2>5. \A u \in Tool : proc'[p].rec[u] # None => proc[p].rec[u] # None
    BY <2>2, <2>4 DEF Record
  <2>6. \A u \in Tool : proc'[p].rec[u] # None => put'[u] # {}
    BY <2>1, <2>5 DEF CopiesKnown, Spares
  <2>7. Spares(p)
    BY DEF CopiesKnown
  <2>8. Spares(p)'
    BY <2>2, <2>3, <2>6, <2>7, SparesGoesOn
  <2> QED
    BY <1>1, <1>2, <2>1, <2>8
<1>11. ASSUME NEW p \in Process, SaveRecord(p) PROVE CopiesKnown'
  <2>1. UNCHANGED <<bin, put>> /\ record' \in {record, proc[p].rec} /\ Over(p)
    BY <1>11 DEF SaveRecord, Saved, history
  <2>2. Kept
    BY <2>1 DEF CopiesKnown, Spares
  <2> QED
    BY <1>1, <2>1, <2>2, IdleSpares DEF Over
<1>12. ASSUME NEW p \in Process, Remove(p) PROVE CopiesKnown'
  <2>1. /\ UNCHANGED <<record, put>> /\ \A q \in Process \ {p} : proc'[q] = proc[q]
        /\ proc[p].step = "removing"
    BY <1>12 DEF Remove, history, At
  <2>2. /\ proc'[p].kind = proc[p].kind /\ proc'[p].dir = proc[p].dir
        /\ proc'[p].force = proc[p].force /\ proc'[p].todo \subseteq proc[p].todo
        /\ proc'[p].rec = proc[p].rec /\ proc'[p].step = proc[p].step
    BY <1>12 DEF Remove, Command
  <2>3. Kept
    BY <2>1, UsersLeave DEF CopiesKnown
  <2>4. Pending(p)' \subseteq Pending(p)
    BY <2>1, <2>2 DEF Pending
  <2>5. \A t \in Tool : proc'[p].rec[t] # None => put'[t] # {}
    BY <2>1, <2>2 DEF CopiesKnown, Spares
  <2>6. Spares(p)
    BY DEF CopiesKnown
  <2>7. Spares(p)'
    BY <2>2, <2>4, <2>5, <2>6, SparesGoesOn
  <2> QED
    BY <1>1, <2>1, <2>3, <2>7
<1>13. ASSUME NEW p \in Process, RemoveRecord(p) PROVE CopiesKnown'
  <2>1. UNCHANGED <<bin, put>> /\ record' = NoRecord /\ Over(p)
    BY <1>13 DEF RemoveRecord, RecordRemoved, history
  <2>2. Kept
    BY <2>1 DEF CopiesKnown, NoRecord
  <2> QED
    BY <1>1, <2>1, <2>2, IdleSpares DEF Over
<1> QED
  BY <1>3, <1>4, <1>5, <1>6, <1>7, <1>8, <1>9, <1>10, <1>11, <1>12, <1>13
     DEF Next, Decline, Cancel, SaveFails, RemoveFails, Apply, Crash, history

(* "Never silently replace a binary Pindrop did not put there".            *)
THEOREM UsersCopiesAreKept == Spec => UserCopyKept
<1>1. Init => CopiesKnown
  <2> SUFFICES ASSUME Init PROVE CopiesKnown
    OBVIOUS
  <2>1. \A p \in Process : Spares(p)
    BY DEF Init, Spares, Idle, Pending, NoRecord, None
  <2> QED
    BY <2>1 DEF Init, CopiesKnown, NoRecord
<1>2. ASSUME Typing, CopiesKnown, [Next]_vars,
             NEW d \in Dir, NEW t \in Tool, bin[d][t] = Users, bin'[d][t] # Users
      PROVE  \/ put[t] \ {d} # {}
             \/ \E p \in Process : proc[p].force /\ proc[p].dir = d
  <2> USE DEF Typing, TypeOK
  <2>1. ASSUME NEW p \in Process, Finalize(p)
        PROVE  put[t] # {} \/ (proc[p].force /\ proc[p].dir = d)
    <3>1. d = proc[p].dir /\ t = proc[p].tool /\ proc[p].step = "fetched"
      <4>1. bin' = [bin EXCEPT ![proc[p].dir][proc[p].tool] = proc[p].have]
        BY <2>1 DEF Finalize
      <4> QED
        BY <1>2, <2>1, <4>1 DEF Finalize, At
    <3>2. t \in Pending(p) /\ proc[p].kind \in {"setup", "offer"}
      BY <1>2, <3>1 DEF Pending, Orderly
    <3> QED
      BY <1>2, <3>1, <3>2 DEF CopiesKnown, Spares
  <2>2. ASSUME NEW p \in Process, Remove(p) PROVE put[t] # {}
    <3>1. t \in proc[p].todo /\ proc[p].kind = "uninstall"
      BY <1>2, <2>2 DEF Remove, At, Orderly
    <3> QED
      BY <1>2, <3>1 DEF CopiesKnown, Spares
  <2>3. (\E p \in Process : Finalize(p) \/ Remove(p)) \/ UNCHANGED bin
    BY <1>2 DEF Next, vars, history, Setup, Offer, Uninstall, Update, Begin, Decline,
         Agree, Download, Downloaded, InstallFails, Cancel, SaveRecord, SaveFails,
         RemoveRecord, RemoveFails, Apply, Crash
  <2>4. d \notin put[t]
    BY <1>2 DEF CopiesKnown
  <2> QED
    BY <1>2, <2>1, <2>2, <2>3, <2>4
<1>3. Typing /\ CopiesKnown /\ [Next]_vars =>
        [\A d \in Dir, t \in Tool :
           bin[d][t] = Users /\ bin'[d][t] # Users =>
             \/ put[t] \ {d} # {}
             \/ \E p \in Process : proc[p].force /\ proc[p].dir = d]_vars
  BY <1>2
<1> QED
  BY <1>1, <1>3, InitTyped, StepTyped, CopiesStayKnown, PTL DEF Spec, UserCopyKept

-----------------------------------------------------------------------------
(* The record and the directory.  A tool at which nothing was upset was    *)
(* never worked at by two commands at once, and the one command underway   *)
(* has, at each of its steps, the record that goes with the directory, or  *)
(* has not yet changed either, or has still to remove what it found.       *)
Agrees(t, rec) ==
  /\ bin[Managed][t] \in Version => rec[t] # None
  /\ rec[t] # None /\ put[t] = {Managed} => bin[Managed][t] = rec[t]

Alone == \A p, q \in Process : Busy(p) /\ Busy(q) /\ p # q => upset = Tool

Knows(p, t) ==
  /\ proc[p].step \in {"planned", "updating"} => Agrees(t, record) /\ ~ proc[p].installed
  /\ proc[p].step = "planned" /\ proc[p].kind = "setup" => proc[p].rec[t] = record[t]
  /\ proc[p].step \in {"installing", "fetching", "fetched"} =>
       /\ Agrees(t, proc[p].rec)
       /\ ~ proc[p].installed => Agrees(t, record)
  /\ Busy(p) /\ proc[p].kind = "uninstall" =>
       (bin[Managed][t] \in Version => t \in proc[p].todo)

RecordKept ==
  /\ Alone
  /\ \A t \in Tool \ upset :
       /\ Quiet => Agrees(t, record)
       /\ \A p \in Process : Knows(p, t)

(* Two commands never get to overlap without every tool being upset.       *)
LEMMA UpsetGrows ==
  ASSUME Typing, [Next]_vars
  PROVE  upset \subseteq upset'
<1>1. upset \subseteq Tool
  BY DEF Typing, TypeOK
<1>2. ASSUME NEW p \in Process, Setup(p) \/ Offer(p) \/ Uninstall(p) \/ Update(p)
      PROVE  upset \subseteq upset'
  <2>1. upset' = upset \/ upset' = Tool
    BY <1>2 DEF Setup, Offer, Uninstall, Update, Begin
  <2> QED
    BY <1>1, <2>1
<1>3. ASSUME NEW p \in Process,
             Finalize(p) \/ InstallFails(p) \/ Cancel(p) \/ SaveFails(p) \/ RemoveFails(p)
               \/ Crash(p)
      PROVE  upset \subseteq upset'
  BY <1>1, <1>3 DEF Finalize, InstallFails, Cancel, SaveFails, RemoveFails, Crash
<1>4. ASSUME NEW p \in Process,
             Decline(p) \/ Agree(p) \/ Download(p) \/ Downloaded(p) \/ SaveRecord(p)
               \/ Remove(p) \/ RemoveRecord(p) \/ Apply(p)
      PROVE  upset \subseteq upset'
  BY <1>4 DEF Decline, Agree, Download, Downloaded, SaveRecord, Remove, RemoveRecord, Apply,
              history
<1> QED
  BY <1>2, <1>3, <1>4 DEF Next, vars

LEMMA OnlyBusyOnes ==
  ASSUME Typing, Alone, [Next]_vars, NEW p \in Process, Busy(p),
         \A q \in Process \ {p} : proc'[q] = proc[q]
  PROVE  Alone' /\ \A q \in Process \ {p} : Busy(q) => upset' = Tool
<1>1. upset \subseteq upset' /\ upset' \subseteq Tool
  BY UpsetGrows, StepTyped DEF Typing, TypeOK
<1> QED
  BY <1>1 DEF Alone, Busy

(* So one may look at the command that takes a step, and at the tools at   *)
(* which nothing is upset.                                                 *)
LEMMA LookAtOne ==
  ASSUME Typing, RecordKept, [Next]_vars, NEW p \in Process,
         \A q \in Process \ {p} : proc'[q] = proc[q],
         Alone', \A q \in Process \ {p} : Busy(q) => upset' = Tool,
         \A t \in Tool \ upset' : Knows(p, t)' /\ (~ Busy(p)' => Agrees(t, record)')
  PROVE  RecordKept'
<1> SUFFICES ASSUME NEW t \in Tool \ upset'
             PROVE  /\ Quiet' => Agrees(t, record)'
                    /\ \A q \in Process : Knows(q, t)'
  BY DEF RecordKept
<1>1. \A q \in Process \ {p} : proc'[q].step = "idle"
  BY DEF Busy
<1>2. \A q \in Process \ {p} : Knows(q, t)'
  BY <1>1 DEF Knows, Busy
<1>3. Quiet' => ~ Busy(p)'
  BY DEF Quiet
<1> QED
  BY <1>2, <1>3

LEMMA BeginKeepsRecord ==
  ASSUME Typing, RecordKept, [Next]_vars, NEW p \in Process, NEW new, Begin(p, new),
         new.step = "planned", ~ new.installed,
         new.kind = "setup" => new.rec = record,
         new.kind = "uninstall" => new.todo = {t \in Tool : record[t] # None}
  PROVE  RecordKept'
<1>1. /\ ~ Busy(p)
      /\ proc' = [proc EXCEPT ![p] = new]
      /\ upset' = IF \E q \in Process : Busy(q) THEN Tool ELSE upset
      /\ UNCHANGED <<exe, bin, record, temps, put>>
  BY DEF Begin
<1>2. proc'[p] = new /\ \A q \in Process \ {p} : proc'[q] = proc[q]
  BY <1>1 DEF Typing, TypeOK
<1>3. \A q \in Process \ {p} : Busy(q) => upset' = Tool
  BY <1>1
<1>4. Alone'
  BY <1>2, <1>3 DEF Alone, Busy
<1>5. ASSUME NEW t \in Tool \ upset' PROVE Knows(p, t)' /\ Busy(p)'
  <2>1. Quiet /\ t \notin upset
    BY <1>1 DEF Quiet
  <2>2. Agrees(t, record) /\ Agrees(t, record)'
    BY <1>1, <2>1 DEF RecordKept, Agrees
  <2> QED
    BY <1>1, <1>2, <2>2 DEF Knows, Busy, Agrees
<1> QED
  BY <1>2, <1>3, <1>4, <1>5, LookAtOne

(* A command that ends, if it leaves what it had not upset in agreement.   *)
LEMMA OverKeepsRecord ==
  ASSUME Typing, RecordKept, [Next]_vars, NEW p \in Process, Busy(p), Over(p),
         \A t \in Tool \ upset' : Agrees(t, record)'
  PROVE  RecordKept'
<1>1. proc'[p] = Idle /\ \A q \in Process \ {p} : proc'[q] = proc[q]
  BY DEF Over, Typing, TypeOK
<1>2. \A t \in Tool : Knows(p, t)'
  BY <1>1 DEF Knows, Idle, Busy
<1>3. Alone' /\ \A q \in Process \ {p} : Busy(q) => upset' = Tool
  BY <1>1, OnlyBusyOnes DEF RecordKept
<1> QED
  BY <1>1, <1>2, <1>3, LookAtOne

(* And one that goes on.                                                   *)
LEMMA GoingOnKeepsRecord ==
  ASSUME Typing, RecordKept, [Next]_vars, NEW p \in Process, Busy(p), proc'[p].step # "idle",
         \A q \in Process \ {p} : proc'[q] = proc[q],
         \A t \in Tool \ upset' : Knows(p, t)'
  PROVE  RecordKept'
<1>1. Alone' /\ \A q \in Process \ {p} : Busy(q) => upset' = Tool
  BY OnlyBusyOnes DEF RecordKept
<1>2. Busy(p)'
  BY DEF Busy
<1> QED
  BY <1>1, <1>2, LookAtOne

LEMMA BeginningsKeepRecord ==
  ASSUME Typing, RecordKept, [Next]_vars, NEW p \in Process,
         Setup(p) \/ Offer(p) \/ Uninstall(p) \/ Update(p)
  PROVE  RecordKept'
<1>1. CASE Setup(p)
  <2>1. PICK only \in SUBSET Tool \ {{}}, d \in Dir, force \in BOOLEAN :
          LET todo == {t \in only : ToInstall(t, d, record, exe, force)}
          IN  Begin(p, [Idle EXCEPT !.step = "planned", !.kind = "setup", !.dir = d,
                          !.force = force, !.version = exe, !.rec = record, !.todo = todo])
    BY <1>1 DEF Setup
  <2> DEFINE todo == {t \in only : ToInstall(t, d, record, exe, force)}
             new == [Idle EXCEPT !.step = "planned", !.kind = "setup", !.dir = d,
                       !.force = force, !.version = exe, !.rec = record, !.todo = todo]
  <2>2. Begin(p, new)
    BY <2>1
  <2> HIDE DEF todo
  <2>3. new.step = "planned" /\ ~ new.installed /\ new.kind = "setup" /\ new.rec = record
    BY DEF Idle
  <2> HIDE DEF new
  <2> QED
    BY <2>2, <2>3, BeginKeepsRecord
<1>2. CASE Offer(p)
  <2> DEFINE missing == {t \in Tool : Lookup(t) = {}}
             new == [Idle EXCEPT !.step = "planned", !.kind = "offer",
                       !.version = exe, !.todo = missing]
  <2>1. Begin(p, new)
    BY <1>2 DEF Offer
  <2> HIDE DEF missing
  <2>2. new.step = "planned" /\ ~ new.installed /\ new.kind = "offer"
    BY DEF Idle
  <2> HIDE DEF new
  <2> QED
    BY <2>1, <2>2, BeginKeepsRecord
<1>3. CASE Uninstall(p)
  <2> DEFINE listed == {t \in Tool : record[t] # None}
             new == [Idle EXCEPT !.step = "planned", !.kind = "uninstall", !.todo = listed]
  <2>1. Begin(p, new)
    BY <1>3 DEF Uninstall
  <2> HIDE DEF listed
  <2>2. new.step = "planned" /\ ~ new.installed /\ new.kind = "uninstall" /\ new.todo = listed
    BY DEF Idle
  <2> HIDE DEF new
  <2> QED
    BY <2>1, <2>2, BeginKeepsRecord DEF listed
<1>4. CASE Update(p)
  <2> DEFINE new == [Idle EXCEPT !.step = "planned", !.kind = "update", !.version = exe + 1]
  <2>1. Begin(p, new)
    BY <1>4 DEF Update
  <2>2. new.step = "planned" /\ ~ new.installed /\ new.kind = "update"
    BY DEF Idle
  <2> HIDE DEF new
  <2> QED
    BY <2>1, <2>2, BeginKeepsRecord
<1> QED
  BY <1>1, <1>2, <1>3, <1>4

LEMMA RecordStaysKept == Typing /\ RecordKept /\ [Next]_vars => RecordKept'
<1> SUFFICES ASSUME Typing, RecordKept, [Next]_vars PROVE RecordKept'
  OBVIOUS
<1> USE DEF Typing, TypeOK
<1>1. /\ \A p \in Process, t \in Tool \ upset' : Knows(p, t)
      /\ upset \subseteq upset' /\ upset' \subseteq Tool
  BY UpsetGrows, StepTyped DEF RecordKept
<1>2. CASE UNCHANGED vars
  BY <1>2 DEF vars, RecordKept, Alone, Busy, Quiet, Knows, Agrees
<1>3. ASSUME NEW p \in Process, At(p, "planned") \/ At(p, "updating"), Over(p),
             UNCHANGED <<bin, record, put>>
      PROVE  RecordKept'
  <2>1. \A t \in Tool \ upset' : Agrees(t, record)'
    BY <1>1, <1>3 DEF Knows, At, Agrees
  <2> QED
    BY <1>3, <2>1, OverKeepsRecord DEF At, Busy
<1>4. ASSUME NEW p \in Process, Busy(p), Over(p), upset' = Tool PROVE RecordKept'
  BY <1>4, OverKeepsRecord
<1>5. ASSUME NEW p \in Process, At(p, "installing") \/ At(p, "fetching") \/ At(p, "fetched"),
             ~ proc[p].installed, Over(p), UNCHANGED <<bin, record, put>>
      PROVE  RecordKept'
  <2>1. \A t \in Tool \ upset' : Agrees(t, record)'
    BY <1>1, <1>5 DEF Knows, At, Agrees
  <2> QED
    BY <1>5, <2>1, OverKeepsRecord DEF At, Busy
<1>6. ASSUME NEW p \in Process, Agree(p) PROVE RecordKept'
  <2>1. /\ UNCHANGED <<bin, record, put, upset>> /\ proc[p].step = "planned"
        /\ \A q \in Process \ {p} : proc'[q] = proc[q]
    BY <1>6 DEF Agree, Going, At, history, Command
  <2>2. /\ proc'[p].kind = proc[p].kind /\ proc'[p].todo = proc[p].todo
        /\ proc'[p].installed = proc[p].installed
        /\ \/ /\ proc[p].kind \in {"setup", "offer"} /\ proc'[p].step = "installing"
              /\ proc'[p].rec = IF proc[p].kind = "setup" THEN proc[p].rec ELSE record
           \/ proc[p].kind = "uninstall" /\ proc'[p].step = "removing"
           \/ proc[p].kind = "update" /\ proc'[p].step = "updating"
    <3>1. proc[p].kind \in {"setup", "offer", "uninstall", "update"}
      BY DEF Command
    <3>2. \/ proc[p].kind = "setup" /\ Going(p, "installing")
          \/ /\ proc[p].kind = "offer"
             /\ proc' = [proc EXCEPT ![p].step = "installing", ![p].rec = record]
          \/ proc[p].kind = "uninstall" /\ Going(p, "removing")
          \/ proc[p].kind = "update" /\ Going(p, "updating")
      BY <1>6, <3>1 DEF Agree
    <3> QED
      BY <3>2 DEF Going, Command
  <2>3. ASSUME NEW t \in Tool \ upset' PROVE Knows(p, t)'
    <3>1. /\ Agrees(t, record) /\ ~ proc[p].installed
          /\ proc[p].kind = "setup" => proc[p].rec[t] = record[t]
          /\ proc[p].kind = "uninstall" =>
               (bin[Managed][t] \in Version => t \in proc[p].todo)
      BY <1>1, <2>1 DEF Knows, Busy
    <3>2. proc'[p].step = "installing" => proc'[p].rec[t] = record[t]
      BY <2>2, <3>1
    <3> QED
      BY <2>1, <2>2, <3>1, <3>2 DEF Knows, Busy, Agrees
  <2> QED
    BY <2>1, <2>2, <2>3, GoingOnKeepsRecord DEF Busy
<1>7. ASSUME NEW p \in Process, Download(p) \/ Downloaded(p) PROVE RecordKept'
  <2>1. /\ UNCHANGED <<bin, record, put, upset>> /\ proc[p].step \in {"installing", "fetching"}
        /\ \A q \in Process \ {p} : proc'[q] = proc[q]
    BY <1>7 DEF Download, Downloaded, At, history
  <2>2. /\ proc'[p].kind = proc[p].kind /\ proc'[p].rec = proc[p].rec
        /\ proc'[p].installed = proc[p].installed
        /\ proc'[p].step \in {"fetching", "fetched"}
    <3>1. CASE Download(p)
      <4>1. PICK t : proc' = [proc EXCEPT ![p].step = "fetching", ![p].tool = t,
                                          ![p].todo = @ \ {t}]
        BY <3>1 DEF Download
      <4> QED
        BY <4>1 DEF Command
    <3>2. CASE Downloaded(p)
      <4>1. PICK have : proc' = [proc EXCEPT ![p].step = "fetched", ![p].have = have]
        BY <3>2 DEF Downloaded
      <4> QED
        BY <4>1 DEF Command
    <3> QED
      BY <1>7, <3>1, <3>2
  <2>3. ASSUME NEW t \in Tool \ upset' PROVE Knows(p, t)'
    <3>1. Knows(p, t) /\ proc[p].kind # "uninstall"
      BY <1>1, <2>1 DEF Orderly
    <3> QED
      BY <2>1, <2>2, <3>1 DEF Knows, Agrees
  <2> QED
    BY <2>1, <2>2, <2>3, GoingOnKeepsRecord DEF Busy
<1>8. ASSUME NEW p \in Process, Finalize(p) PROVE RecordKept'
  <2> DEFINE d == proc[p].dir
             u == proc[p].tool
  <2>1. /\ d \in Dir /\ u \in Tool /\ proc[p].version \in Version
        /\ put' = [put EXCEPT ![u] = @ \cup {d}] /\ UNCHANGED <<record, upset>>
        /\ bin' = [bin EXCEPT ![d][u] = proc[p].version]
        /\ proc[p].step = "fetched" /\ proc[p].rec \in Record
    BY <1>8 DEF Finalize, At, Orderly, Command, Verified
  <2>2. /\ proc'[p].kind = proc[p].kind /\ proc'[p].installed
        /\ proc'[p].rec = [proc[p].rec EXCEPT ![u] = proc[p].version]
        /\ proc'[p].step = "installing"
        /\ \A q \in Process \ {p} : proc'[q] = proc[q]
    BY <1>8 DEF Finalize, Command
  <2>3. ASSUME NEW t \in Tool \ upset' PROVE Knows(p, t)'
    <3>1. Agrees(t, proc[p].rec) /\ proc[p].kind # "uninstall"
      BY <1>1, <2>1 DEF Knows, Orderly
    <3>2. CASE t = u
      <4>1. proc'[p].rec[t] = proc[p].version /\ proc[p].version # None
        BY <2>1, <2>2, <3>2, ToolsAssumption DEF Record, Version, None
      <4>2. put'[t] = {Managed} => bin'[Managed][t] = proc[p].version
        BY <2>1, <3>2
      <4> QED
        BY <2>2, <3>1, <4>1, <4>2 DEF Knows, Agrees
    <3>3. CASE t # u
      <4>1. proc'[p].rec[t] = proc[p].rec[t] /\ put'[t] = put[t]
        BY <2>1, <2>2, <3>3 DEF Record
      <4>2. bin'[Managed][t] = bin[Managed][t]
        BY <2>1, <3>3, ToolsAssumption
      <4> QED
        BY <2>2, <3>1, <4>1, <4>2 DEF Knows, Agrees
    <3> QED
      BY <3>2, <3>3
  <2> QED
    BY <2>1, <2>2, <2>3, GoingOnKeepsRecord DEF Busy
<1>9. ASSUME NEW p \in Process, InstallFails(p) PROVE RecordKept'
  <2> DEFINE u == proc[p].tool
  <2>1. /\ UNCHANGED <<bin, record, put>> /\ u \in upset'
        /\ proc[p].step \in {"fetching", "fetched"}
        /\ \A q \in Process \ {p} : proc'[q] = proc[q]
    BY <1>9 DEF InstallFails, At
  <2>2. /\ proc'[p].kind = proc[p].kind /\ proc'[p].installed = proc[p].installed
        /\ proc'[p].rec = [proc[p].rec EXCEPT
              ![u] = IF proc[p].kind = "setup" THEN None ELSE proc[p].rec[u]]
        /\ proc'[p].step = "installing"
    BY <1>9 DEF InstallFails, Command
  <2>3. ASSUME NEW t \in Tool \ upset' PROVE Knows(p, t)'
    <3>1. Knows(p, t) /\ proc[p].kind # "uninstall" /\ proc[p].rec \in Record
      BY <1>1, <2>1 DEF Orderly, Command
    <3>2. proc'[p].rec[t] = proc[p].rec[t]
      BY <2>1, <2>2, <3>1 DEF Record
    <3> QED
      BY <2>1, <2>2, <3>1, <3>2 DEF Knows, Agrees
  <2> QED
    BY <2>1, <2>2, <2>3, GoingOnKeepsRecord DEF Busy
<1>10. ASSUME NEW p \in Process, Cancel(p) PROVE RecordKept'
  BY <1>4, <1>5, <1>10 DEF Cancel, Unrecorded, At, Busy
<1>11. ASSUME NEW p \in Process, SaveRecord(p) PROVE RecordKept'
  <2>1. /\ proc[p].step = "installing" /\ Over(p) /\ UNCHANGED <<bin, put, upset>>
        /\ record' = IF proc[p].kind = "setup" \/ proc[p].installed
                     THEN proc[p].rec ELSE record
    BY <1>11 DEF SaveRecord, Saved, At, history
  <2>2. \A t \in Tool \ upset' : Agrees(t, record)'
    BY <1>1, <2>1 DEF Knows, Agrees
  <2> QED
    BY <2>1, <2>2, OverKeepsRecord DEF Busy
<1>12. ASSUME NEW p \in Process, SaveFails(p) \/ RemoveFails(p) PROVE RecordKept'
  BY <1>4, <1>12 DEF SaveFails, RemoveFails, At, Busy
<1>13. ASSUME NEW p \in Process, Remove(p) PROVE RecordKept'
  <2>1. PICK u \in proc[p].todo :
          /\ bin' = [bin EXCEPT ![Managed][u] = None]
          /\ proc' = [proc EXCEPT ![p].todo = @ \ {u}]
    BY <1>13 DEF Remove
  <2>2. /\ UNCHANGED <<record, put, upset>> /\ proc[p].step = "removing"
        /\ u \in Tool
        /\ \A q \in Process \ {p} : proc'[q] = proc[q]
    BY <1>13, <2>1 DEF Remove, history, At, Command
  <2>3. /\ proc'[p].kind = proc[p].kind /\ proc'[p].todo = proc[p].todo \ {u}
        /\ proc'[p].step = "removing" /\ proc[p].kind = "uninstall"
    BY <2>1, <2>2 DEF Command, Orderly
  <2>4. ASSUME NEW t \in Tool \ upset' PROVE Knows(p, t)'
    <3>1. bin[Managed][t] \in Version => t \in proc[p].todo
      BY <1>1, <2>2, <2>3 DEF Knows, Busy
    <3>2. bin'[Managed][t] = IF t = u THEN None ELSE bin[Managed][t]
      BY <2>1, <2>2, ToolsAssumption
    <3>3. None \notin Version
      BY ToolsAssumption DEF None, Version
    <3> QED
      BY <2>3, <3>1, <3>2, <3>3 DEF Knows
  <2> QED
    BY <2>2, <2>3, <2>4, GoingOnKeepsRecord DEF Busy
<1>14. ASSUME NEW p \in Process, RemoveRecord(p) PROVE RecordKept'
  <2>1. /\ proc[p].step = "removing" /\ Over(p) /\ UNCHANGED <<bin, put, upset>>
        /\ record' = NoRecord /\ proc[p].todo = {}
    BY <1>14 DEF RemoveRecord, RecordRemoved, At, history
  <2>2. \A t \in Tool \ upset' : bin'[Managed][t] \notin Version
    BY <1>1, <2>1 DEF Knows, Orderly, Busy
  <2>3. \A t \in Tool \ upset' : Agrees(t, record)'
    BY <2>1, <2>2 DEF Agrees, NoRecord
  <2> QED
    BY <2>1, <2>3, OverKeepsRecord DEF Busy
<1>15. ASSUME NEW p \in Process, Crash(p) PROVE RecordKept'
  <2>1. proc[p].step \in {"planned", "installing", "fetching", "fetched", "removing", "updating"}
    BY <1>15 DEF Crash, Busy, Command
  <2>2. CASE upset' = Tool
    BY <1>4, <1>15, <2>2 DEF Crash
  <2>3. CASE upset' # Tool
    <3>1. proc[p].step # "removing" /\ ~ proc[p].installed
      BY <1>15, <2>3 DEF Crash, At, Unrecorded
    <3> QED
      BY <1>3, <1>5, <1>15, <2>1, <3>1 DEF Crash, At
  <2> QED
    BY <2>2, <2>3
<1> QED
  BY <1>2, <1>3, <1>6, <1>7, <1>8, <1>9, <1>10, <1>11, <1>12, <1>13, <1>14, <1>15,
     BeginningsKeepRecord
     DEF Next, Decline, Apply, history

(* Once all commands are over, the record and the managed directory agree  *)
(* about every tool at which nothing failed, died or overlapped.           *)
THEOREM RecordsAgree == Spec => []RecordAgrees
<1>1. Init => RecordKept
  <2> SUFFICES ASSUME Init PROVE RecordKept
    OBVIOUS
  <2>1. \A p \in Process : proc[p].step = "idle"
    BY DEF Init, Idle
  <2>2. \A t \in Tool : bin[Managed][t] \notin Version /\ record[t] = None
    <3>1. \A t \in Tool : bin[Managed][t] \in {Users, None}
      BY ToolsAssumption DEF Init
    <3>2. Users \notin Version /\ None \notin Version
      BY ToolsAssumption DEF Users, None, Version
    <3> QED
      BY <3>1, <3>2 DEF Init, NoRecord
  <2> QED
    BY <2>1, <2>2 DEF RecordKept, Alone, Busy, Knows, Agrees
<1>2. RecordKept => RecordAgrees
  BY DEF RecordKept, RecordAgrees, ForeignIsExplained, RecordIsHonest, Agrees
<1> QED
  BY <1>1, <1>2, InitTyped, StepTyped, RecordStaysKept, PTL DEF Spec
=============================================================================
