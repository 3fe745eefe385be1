----------------------------- MODULE EngineProofs -----------------------------
(* Theorems about scan after scan of one tree, for any trees, machines,    *)
(* command lines and registries: tools that fail, their files, what a      *)
(* reader of the report gets, and what the report says of what the tools   *)
(* told.  The last needs what conversion, filters, merging and sorting do  *)
(* to lists of any length, which is proved first, by induction over sets   *)
(* of numbers.                                                             *)
EXTENDS Engine, FiniteSetTheorems, SequenceTheorems, WellFoundedInduction, TLAPS

Phases == {"idle", "queued", "running", "hung", "ended", "done", "failed"}

-----------------------------------------------------------------------------
(* A tool that failed is one.                                              *)

(* How a process that has ended can have ended.                            *)
Crash(s, e) == e.fate = "crashed" /\ e.code \in CrashCodes(s)

Kills(e) == e.fate = "killed" /\ e.code = Killed

Unclear(e) == e.fate = "garbled" /\ e.form = "garbled"

Worked(e) == e.fate \in {"fine", "partial"}

Explained(s, e) == Worked(e) \/ Crash(s, e) \/ Kills(e) \/ Unclear(e)

Fates ==
  /\ phase \in [Tools -> Phases]
  /\ DOMAIN ended = Tools
  /\ DOMAIN result = Tools
  /\ \A s \in Tools : At(s, "ended") => Explained(s, ended[s])
  /\ \A s \in Tools : At(s, "done") => Worked(ended[s])

(* Whatever a crash, a signal or an output that does not parse leaves, the *)
(* adapters' exit codes and decoders do not take for a result.             *)
LEMMA OnlyWorkedIsTaken ==
  ASSUME NEW s \in Tools, NEW e, NEW past \in BOOLEAN,
         Explained(s, e), Completed(s, e.code, past), Decodes(s, e.form)
  PROVE  Worked(e)
<1>1. e.code = 0 \/ ResultExit(s, e.code)
  BY DEF Completed
<1>2. CASE Crash(s, e)
  <2>1. e.code \in CrashCodes(s)
    BY <1>2 DEF Crash
  <2>2. CASE s = "trivy"
    BY <1>1, <2>1, <2>2 DEF CrashCodes, ResultExit, Killed, TrivyResult
  <2>3. CASE s = "osv"
    BY <1>1, <2>1, <2>3 DEF CrashCodes, ResultExit, Killed, OSVResult
  <2>4. CASE s = "opengrep"
    BY <1>1, <2>1, <2>4 DEF CrashCodes, ResultExit, Killed, OpengrepResult
  <2>5. CASE s = "trufflehog"
    BY <1>1, <2>1, <2>5 DEF CrashCodes, ResultExit, Killed, TruffleHogResult
  <2> QED
    BY <2>2, <2>3, <2>4, <2>5 DEF Tools
<1>3. CASE Kills(e)
  <2>1. e.code = 0 - 1
    BY <1>3 DEF Kills, Killed
  <2>2. CASE s = "trivy"
    BY <1>1, <2>1, <2>2 DEF ResultExit, TrivyResult
  <2>3. CASE s = "osv"
    BY <1>1, <2>1, <2>3 DEF ResultExit, OSVResult
  <2>4. CASE s = "opengrep"
    BY <1>1, <2>1, <2>4 DEF ResultExit, OpengrepResult
  <2>5. CASE s = "trufflehog"
    BY <1>1, <2>1, <2>5 DEF ResultExit, TruffleHogResult
  <2> QED
    BY <2>2, <2>3, <2>4, <2>5 DEF Tools
<1>4. CASE Unclear(e)
  BY <1>4 DEF Unclear, Decodes
<1> QED
  BY <1>2, <1>3, <1>4 DEF Explained

LEMMA FatesStart == Init => Fates
BY DEF Init, Fates, At, Phases

(* What a tool that finishes or fails leaves is explained.                 *)
LEMMA EndsExplained ==
  ASSUME NEW s \in Tools, NEW how,
         \/ how = Fine(s)
         \/ how \in Crashed(s) \cup {Garbled} \cup (IF s = "opengrep" THEN {Partial} ELSE {})
         \/ how = [fate |-> "killed", code |-> Killed, form |-> "records"]
  PROVE  Explained(s, how)
<1>1. CASE how = Fine(s)
  BY <1>1 DEF Explained, Worked, Fine
<1>2. CASE how \in Crashed(s)
  BY <1>2 DEF Explained, Crash, Crashed
<1>3. CASE how = Garbled
  BY <1>3 DEF Explained, Unclear, Garbled
<1>4. CASE how = Partial
  BY <1>4 DEF Explained, Worked, Partial
<1>5. CASE how = [fate |-> "killed", code |-> Killed, form |-> "records"]
  BY <1>5 DEF Explained, Kills
<1> QED
  BY <1>1, <1>2, <1>3, <1>4, <1>5

(* The step of a tool that ends.                                           *)
LEMMA EndKeepsFates ==
  ASSUME Fates, NEW s \in Tools, NEW how, Explained(s, how), End(s, how)
  PROVE  Fates'
<1>1. phase' = [phase EXCEPT ![s] = "ended"] /\ ended' = [ended EXCEPT ![s] = how]
      /\ result' = result
  BY DEF End, Going
<1>2. DOMAIN ended = Tools /\ phase \in [Tools -> Phases]
  BY DEF Fates
<1>3. ended'[s] = how /\ DOMAIN ended' = Tools
  BY <1>1, <1>2
<1>4. \A t \in Tools \ {s} : ended'[t] = ended[t] /\ phase'[t] = phase[t]
  BY <1>1, <1>2
<1>5. phase' \in [Tools -> Phases] /\ phase'[s] = "ended"
  BY <1>1, <1>2 DEF Phases
<1>6. ASSUME NEW t \in Tools, phase'[t] = "ended" PROVE Explained(t, ended'[t])
  <2>1. CASE t = s
    BY <2>1, <1>3
  <2>2. CASE t # s
    BY <2>2, <1>4, <1>6 DEF Fates, At
  <2> QED
    BY <2>1, <2>2
<1>7. ASSUME NEW t \in Tools, phase'[t] = "done" PROVE Worked(ended'[t])
  BY <1>4, <1>5, <1>7 DEF Fates, At
<1>8. DOMAIN result' = Tools
  BY <1>1 DEF Fates
<1> QED
  BY <1>3, <1>5, <1>6, <1>7, <1>8 DEF Fates, At

(* The steps of one tool that leave how its process ended.                 *)
LEMMA ReturnKeepsFates ==
  ASSUME Fates, NEW s \in Tools, Return(s)
  PROVE  Fates'
<1> DEFINE good == Completed(s, ended[s].code, s \in late) /\ Decodes(s, ended[s].form)
<1>1. /\ At(s, "ended") /\ ended' = ended
      /\ phase' = [phase EXCEPT ![s] = IF good THEN "done" ELSE "failed"]
      /\ DOMAIN result' = Tools
  BY DEF Return, Going, Fates
<1>2. good => Worked(ended[s])
  <2>1. Explained(s, ended[s]) /\ (s \in late) \in BOOLEAN
    BY <1>1 DEF Fates
  <2> QED
    BY <2>1, OnlyWorkedIsTaken
<1> HIDE DEF good
<1>3. phase \in [Tools -> Phases]
  BY DEF Fates
<1>4. phase' \in [Tools -> Phases] /\ phase'[s] = (IF good THEN "done" ELSE "failed")
      /\ \A t \in Tools \ {s} : phase'[t] = phase[t]
  BY <1>1, <1>3 DEF Phases
<1>5. ASSUME NEW t \in Tools, phase'[t] = "done" PROVE Worked(ended'[t])
  BY <1>1, <1>2, <1>4, <1>5 DEF Fates, At
<1>6. ASSUME NEW t \in Tools, phase'[t] = "ended" PROVE Explained(t, ended'[t])
  BY <1>1, <1>4, <1>6 DEF Fates, At
<1> QED
  BY <1>1, <1>4, <1>5, <1>6 DEF Fates, At

LEMMA FatesHold == Fates /\ [Next]_vars => Fates'
<1> SUFFICES ASSUME Fates, [Next]_vars PROVE Fates'
  OBVIOUS
<1>1. CASE Start
  <2>1. DOMAIN ended' = Tools /\ DOMAIN result' = Tools /\ phase' \in [Tools -> {"queued", "idle"}]
    BY <1>1 DEF Start
  <2> QED
    BY <2>1 DEF Fates, At, Phases
<1>2. CASE \E s \in Tools : Begin(s) \/ Hang(s)
  <2>1. PICK s \in Tools : Begin(s) \/ Hang(s)
    BY <1>2
  <2>2. \E p \in {"running", "hung"} : phase' = [phase EXCEPT ![s] = p]
    BY <2>1 DEF Begin, Hang, Going
  <2>3. ended' = ended /\ result' = result
    BY <2>1 DEF Begin, Hang
  <2> QED
    BY <2>2, <2>3 DEF Fates, At, Phases
<1>3. CASE \E s \in Tools : Stillborn(s)
  <2>1. PICK s \in Tools : Stillborn(s)
    BY <1>3
  <2>2. phase' = [phase EXCEPT ![s] = "failed"] /\ DOMAIN ended' = Tools /\ result' = result
        /\ \A t \in Tools \ {s} : ended'[t] = ended[t]
    BY <2>1 DEF Stillborn, Going, Fates
  <2> QED
    BY <2>2 DEF Fates, At, Phases
<1>4. CASE \E s \in Tools : Finish(s) \/ Fail(s) \/ Kill(s)
  <2>1. PICK s \in Tools : Finish(s) \/ Fail(s) \/ Kill(s)
    BY <1>4
  <2>2. CASE Finish(s)
    BY <2>2, EndsExplained, EndKeepsFates DEF Finish
  <2>3. CASE Fail(s)
    <3>1. PICK how \in Crashed(s) \cup {Garbled} \cup (IF s = "opengrep" THEN {Partial} ELSE {}) :
            End(s, how)
      BY <2>3 DEF Fail
    <3>2. Explained(s, how)
      BY EndsExplained
    <3> QED
      BY <3>1, <3>2, EndKeepsFates
  <2>4. CASE Kill(s)
    BY <2>4, EndsExplained, EndKeepsFates DEF Kill
  <2> QED
    BY <2>1, <2>2, <2>3, <2>4
<1>5. CASE \E s \in Tools : Deadline(s)
  BY <1>5 DEF Deadline, Fates, At
<1>6. CASE \E s \in Tools : Return(s)
  BY <1>6, ReturnKeepsFates
<1>7. CASE Report \/ GiveUp
  <2>1. phase' = [s \in Tools |-> "idle"] /\ ended' = ended /\ result' = result
    BY <1>7 DEF Report, GiveUp
  <2> QED
    BY <2>1 DEF Fates, At, Phases
<1>8. CASE Write \/ UNCHANGED vars
  BY <1>8 DEF Write, vars, Fates, At
<1> QED
  BY <1>1, <1>2, <1>3, <1>4, <1>5, <1>6, <1>7, <1>8 DEF Next, Onward, ToolStep

(* A tool that crashed, was killed or could not be understood is never     *)
(* taken for one that found nothing, whatever its exit code, its output    *)
(* and its deadline: run.go's "one scanner failing does not discard the    *)
(* others" rests on it.                                                    *)
THEOREM NeverSilent == Spec => []FailureIsNeverSilent
<1>1. Fates => FailureIsNeverSilent
  BY DEF Fates, FailureIsNeverSilent, Worked
<1> QED
  BY <1>1, FatesStart, FatesHold, PTL DEF Spec

-----------------------------------------------------------------------------
(* The files a tool is given.                                              *)

Held ==
  /\ phase \in [Tools -> Phases]
  /\ temp = {s \in Given : phase[s] \in {"running", "hung", "ended"}}

LEMMA HeldHolds == Held /\ [Next]_vars => Held'
<1> SUFFICES ASSUME Held, [Next]_vars PROVE Held'
  OBVIOUS
<1> USE DEF Held, At
<1>1. CASE Start
  <2>1. \A s \in Tools : phase[s] = "idle"
    BY <1>1 DEF Start, Underway
  <2>2. Given \subseteq Tools
    BY DEF Given, Tools
  <2>3. temp' = {} /\ phase' \in [Tools -> {"queued", "idle"}]
    BY <1>1, <2>1, <2>2 DEF Start
  <2> QED
    BY <2>2, <2>3 DEF Phases
<1>2. CASE \E s \in Tools : Begin(s)
  <2>1. PICK s \in Tools : Begin(s)
    BY <1>2
  <2>2. phase' = [phase EXCEPT ![s] = "running"] /\ temp' = temp \cup ({s} \cap Given)
    BY <2>1 DEF Begin, Going
  <2> QED
    BY <2>2 DEF Phases, Given, Tools
<1>3. CASE \E s \in Tools : Stillborn(s)
  <2>1. PICK s \in Tools : Stillborn(s)
    BY <1>3
  <2>2. phase[s] = "queued" /\ phase' = [phase EXCEPT ![s] = "failed"] /\ temp' = temp
    BY <2>1 DEF Stillborn, Going
  <2> QED
    BY <2>2 DEF Phases, Given, Tools
<1>4. CASE \E s \in Tools : Hang(s) \/ Finish(s) \/ Fail(s) \/ Kill(s)
  <2>1. PICK s \in Tools : Hang(s) \/ Finish(s) \/ Fail(s) \/ Kill(s)
    BY <1>4
  <2>2. phase[s] \in {"running", "hung"} /\ temp' = temp
        /\ \E p \in {"hung", "ended"} : phase' = [phase EXCEPT ![s] = p]
    BY <2>1 DEF Hang, Finish, Fail, Kill, End, Going
  <2> QED
    BY <2>2 DEF Phases, Given, Tools
<1>5. CASE \E s \in Tools : Return(s)
  <2>1. PICK s \in Tools : Return(s)
    BY <1>5
  <2>2. temp' = temp \ {s} /\ \E p \in {"done", "failed"} : phase' = [phase EXCEPT ![s] = p]
    BY <2>1 DEF Return, Going
  <2> QED
    BY <2>2 DEF Phases, Given, Tools
<1>6. CASE \E s \in Tools : Deadline(s)
  BY <1>6 DEF Deadline
<1>7. CASE Report \/ GiveUp
  <2>1. \A s \in Tools : phase[s] \in {"idle", "done", "failed"}
    BY <1>7 DEF Report, GiveUp
  <2>2. phase' = [s \in Tools |-> "idle"] /\ temp' = temp
    BY <1>7 DEF Report, GiveUp
  <2> QED
    BY <2>1, <2>2 DEF Phases, Given, Tools
<1>8. CASE Write \/ UNCHANGED vars
  BY <1>8 DEF Write, vars
<1> QED
  BY <1>1, <1>2, <1>3, <1>4, <1>5, <1>6, <1>7, <1>8 DEF Next, Onward, ToolStep

(* A tool never runs without its files and none are left when the scan is  *)
(* over, whether the tools finish, fail, hang or are killed: what          *)
(* exclude.go and rules.go write of the files that must outlive cmd.Wait.  *)
THEOREM FilesOutliveTools == Spec => []TempOutlivesTool
<1>1. Init => Held
  BY DEF Init, Held, Phases, Given, Tools
<1>2. Held => TempOutlivesTool
  <2> SUFFICES ASSUME Held PROVE TempOutlivesTool
    OBVIOUS
  <2>1. Given \subseteq Tools
    BY DEF Given, Tools
  <2> QED
    BY <2>1 DEF Held, TempOutlivesTool, Underway, At
<1> QED
  BY <1>1, <1>2, HeldHolds, PTL DEF Spec

-----------------------------------------------------------------------------
(* What a reader gets.                                                     *)

(* What Report adds to what was told, in one record.                       *)
Told(by, shown) == [by |-> by, shown |-> shown]

LEMMA ReportTells ==
  ASSUME Report
  PROVE  LET shown == Findings(FilterBySeverity(Collected, setup.min))
         IN  /\ told' = told \cup {Told([s \in Done |-> Output(s)], shown)}
             /\ outcome'.shown = shown
             /\ \E t \in told' : t.shown = outcome'.shown
<1> DEFINE shown == Findings(FilterBySeverity(Collected, setup.min))
           by == [s \in Done |-> Output(s)]
<1>1. \E recorded, exit :
        /\ outcome' = [by |-> by, recorded |-> recorded, shown |-> shown, exit |-> exit]
        /\ told' = told \cup {Told(by, shown)}
  BY Zenon DEF Report, Told
<1> HIDE DEF shown, by
<1>2. told' = told \cup {Told(by, shown)} /\ outcome'.shown = shown
  BY <1>1
<1>3. Told(by, shown) \in told' /\ Told(by, shown).shown = outcome'.shown
  BY <1>2 DEF Told
<1> QED
  BY <1>2, <1>3 DEF shown, by

WasShown(findings) == \E t \in told : t.shown = findings

(* The file is torn only between the two steps of the end of a scan.       *)
Readable ==
  /\ file.state = "torn" => ~ Underway /\ WasShown(outcome.shown)
  /\ file.state = "whole" =>
       file.version = SchemaVersion + 1 \/ WasShown(file.findings)

LEMMA ReadableHolds == Readable /\ [Next]_vars => Readable'
<1> SUFFICES ASSUME Readable, [Next]_vars PROVE Readable'
  OBVIOUS
<1> USE DEF Readable, WasShown
<1>1. CASE Start
  <2>1. file.state # "torn" /\ file' = file /\ told' = told
    BY <1>1 DEF Start
  <2> QED
    BY <2>1
<1>2. CASE \E s \in Tools : ToolStep(s)
  <2>1. PICK s \in Tools : ToolStep(s)
    BY <1>2
  <2>2. ~ At(s, "idle")
    BY <2>1 DEF ToolStep, Begin, Stillborn, Hang, Finish, Fail, Deadline, Kill, Return, At
  <2>3. file' = file /\ told' = told
    BY <2>1 DEF ToolStep, Begin, Stillborn, Hang, Finish, Fail, Deadline, Kill, Return, End
  <2> QED
    BY <2>2, <2>3 DEF Underway
<1>3. CASE Report
  <2>1. \E t \in told' : t.shown = outcome'.shown
    BY <1>3, ReportTells
  <2>2. file' = [state |-> "torn", version |-> 0, findings |-> <<>>]
        /\ phase' = [s \in Tools |-> "idle"]
    BY <1>3 DEF Report
  <2> QED
    BY <2>1, <2>2 DEF Underway, At
<1>4. CASE Write
  BY <1>4 DEF Write
<1>5. CASE GiveUp
  BY <1>5 DEF GiveUp
<1>6. CASE UNCHANGED vars
  BY <1>6 DEF vars, Underway, At
<1> QED
  BY <1>1, <1>2, <1>3, <1>4, <1>5, <1>6 DEF Next, Onward

(* Whoever reads the report file while scans truncate and write it gets    *)
(* what some scan showed, or an error: source.go never serves a part.      *)
THEOREM ReadersGetWholeReports == Spec => []ReadsAreWhole
<1>1. Init => Readable
  <2> SUFFICES ASSUME Init PROVE Readable
    OBVIOUS
  <2>1. CASE file = NoFile
    BY <2>1 DEF Readable, NoFile
  <2>2. CASE file = [NoFile EXCEPT !.state = "whole", !.version = SchemaVersion + 1]
    BY <2>2 DEF Readable, NoFile
  <2> QED
    BY <2>1, <2>2 DEF Init
<1>2. Readable => ReadsAreWhole
  BY DEF Readable, ReadsAreWhole, Document, Unreadable, SchemaVersion, WasShown
<1> QED
  BY <1>1, <1>2, ReadableHolds, PTL DEF Spec

-----------------------------------------------------------------------------
(* What a report depends on.                                               *)

(* The result of a tool, of what it wrote.                                 *)
Returned(s, output) == Filter(Excluded[case], Convert(s, setup.root, setup.verify, output))

ResultOf(s, by) == IF s \in DOMAIN by THEN Returned(s, by[s]) ELSE <<>>

(* The report, of what each of the tools that worked wrote.                *)
ShownFor(by) ==
  Findings(FilterBySeverity(Slots([s \in Tools |-> ResultOf(s, by)], DOMAIN by), setup.min))

(* While a scan is under way each slot holds what its tool returned, or    *)
(* nothing; what was told was shown as ShownFor has it.                    *)
Slotted ==
  /\ phase \in [Tools -> Phases]
  /\ DOMAIN ended = Tools
  /\ result = [s \in Tools |-> result[s]]
  /\ Underway => \A s \in Tools :
       result[s] = IF At(s, "done") THEN Returned(s, Output(s)) ELSE <<>>
  /\ \A t \in told : t.shown = ShownFor(t.by)

(* What Returned, Output and ShownFor are made of does not change.         *)
LEMMA SameCase ==
  ASSUME case' = case
  PROVE  /\ \A s, output : Returned(s, output)' = Returned(s, output)
         /\ \A by : ShownFor(by)' = ShownFor(by)
         /\ \A s : Reported(s)' = Reported(s)
BY DEF Returned, ShownFor, ResultOf, setup, Reported

(* A step of a scan that is under way, which changes how one tool stands.  *)
LEMMA OtherSlots ==
  ASSUME Slotted, Underway, case' = case, told' = told, NEW s \in Tools,
         phase' \in [Tools -> Phases], DOMAIN ended' = Tools,
         result' = [t \in Tools |-> result'[t]],
         \A t \in Tools \ {s} :
           phase'[t] = phase[t] /\ ended'[t] = ended[t] /\ result'[t] = result[t],
         result'[s] = IF phase'[s] = "done" THEN Returned(s, Output(s))' ELSE <<>>
  PROVE  Slotted'
<1>1. \A t \in Tools \ {s} : Output(t)' = Output(t)
  BY SameCase DEF Output
<1>2. ASSUME NEW t \in Tools \ {s}
      PROVE  result'[t] = IF phase'[t] = "done" THEN Returned(t, Output(t))' ELSE <<>>
  <2>1. result[t] = IF phase[t] = "done" THEN Returned(t, Output(t)) ELSE <<>>
    BY DEF Slotted, At
  <2>2. Returned(t, Output(t))' = Returned(t, Output(t))
    BY <1>1 DEF Returned, setup
  <2> QED
    BY <2>1, <2>2
<1>3. \A t \in Tools :
        result'[t] = IF phase'[t] = "done" THEN Returned(t, Output(t))' ELSE <<>>
  BY <1>2
<1>4. \A t \in told' : t.shown = ShownFor(t.by)'
  BY SameCase DEF Slotted
<1> QED
  BY <1>3, <1>4 DEF Slotted, At

LEMMA ReportKeepsSlots ==
  ASSUME Slotted, Report
  PROVE  Slotted'
<1> DEFINE by == [s \in Done |-> Output(s)]
           shown == Findings(FilterBySeverity(Collected, setup.min))
<1>1. DOMAIN by = Done /\ Done \subseteq Tools
  BY DEF Done
<1>2. Underway
  BY DEF Report
<1>3. ASSUME NEW s \in Tools PROVE result[s] = ResultOf(s, by)
  <2>1. CASE s \in Done
    BY <1>2, <2>1 DEF Slotted, ResultOf, Done
  <2>2. CASE s \notin Done
    BY <1>2, <2>2 DEF Slotted, ResultOf, Done
  <2> QED
    BY <2>1, <2>2
<1>4. result = [s \in Tools |-> ResultOf(s, by)]
  BY <1>3 DEF Slotted
<1>5. shown = ShownFor(by)
  BY <1>1, <1>4 DEF ShownFor, Collected
<1>6. told' = told \cup {Told(by, shown)}
  BY ReportTells
<1>7. /\ case' = case /\ ended' = ended /\ result' = result
      /\ phase' = [s \in Tools |-> "idle"]
  BY DEF Report
<1> HIDE DEF by, shown
<1>8. ASSUME NEW t \in told' PROVE t.shown = ShownFor(t.by)'
  <2>1. CASE t \in told
    BY <1>7, <2>1, SameCase DEF Slotted
  <2>2. CASE t = Told(by, shown)
    BY <1>5, <1>7, <2>2, SameCase DEF Told
  <2> QED
    BY <1>6, <2>1, <2>2
<1>9. ~ Underway'
  BY <1>7 DEF Underway, At
<1> QED
  BY <1>7, <1>8, <1>9 DEF Slotted, Phases

LEMMA SlottedHolds == Slotted /\ [Next]_vars => Slotted'
<1> SUFFICES ASSUME Slotted, [Next]_vars PROVE Slotted'
  OBVIOUS
<1>1. CASE Start
  <2>1. /\ case' = case /\ told' = told /\ DOMAIN ended' = Tools
        /\ result' = [s \in Tools |-> <<>>] /\ phase' \in [Tools -> {"queued", "idle"}]
    BY <1>1 DEF Start
  <2>2. \A t \in told' : t.shown = ShownFor(t.by)'
    BY <2>1, SameCase DEF Slotted
  <2> QED
    BY <2>1, <2>2 DEF Slotted, At, Phases
<1>2. CASE \E s \in Tools : Begin(s) \/ Stillborn(s) \/ Hang(s) \/ Finish(s) \/ Fail(s) \/ Kill(s)
  <2>1. PICK s \in Tools :
          Begin(s) \/ Stillborn(s) \/ Hang(s) \/ Finish(s) \/ Fail(s) \/ Kill(s)
    BY <1>2
  <2>2. /\ phase[s] \notin {"idle", "done"}
        /\ \E p \in {"running", "hung", "ended", "failed"} : phase' = [phase EXCEPT ![s] = p]
        /\ case' = case /\ told' = told /\ result' = result
    BY <2>1 DEF Begin, Stillborn, Hang, Finish, Fail, Kill, End, Going, At
  <2>3. DOMAIN ended' = Tools /\ \A t \in Tools \ {s} : ended'[t] = ended[t]
    <3>1. CASE Begin(s) \/ Hang(s)
      BY <3>1 DEF Begin, Hang, Slotted
    <3>2. CASE Stillborn(s)
      BY <3>2 DEF Stillborn, Slotted
    <3>3. CASE Finish(s) \/ Fail(s) \/ Kill(s)
      <4>1. \E how : ended' = [ended EXCEPT ![s] = how]
        BY <3>3 DEF Finish, Fail, Kill, End
      <4> QED
        BY <4>1 DEF Slotted
    <3> QED
      BY <2>1, <3>1, <3>2, <3>3
  <2>4. phase' \in [Tools -> Phases] /\ phase'[s] # "done"
        /\ \A t \in Tools \ {s} : phase'[t] = phase[t]
    BY <2>2 DEF Slotted, Phases
  <2>5. Underway /\ result[s] = <<>>
    BY <2>2 DEF Slotted, Underway, At
  <2> QED
    BY <2>2, <2>3, <2>4, <2>5, OtherSlots DEF Slotted
<1>3. CASE \E s \in Tools : Deadline(s)
  <2>1. PICK s \in Tools : Deadline(s)
    BY <1>3
  <2>2. /\ case' = case /\ told' = told /\ phase' = phase /\ ended' = ended /\ result' = result
        /\ Underway /\ ~ At(s, "done")
    BY <2>1 DEF Deadline, Underway, At
  <2> QED
    BY <2>2, OtherSlots DEF Slotted, At
<1>4. CASE \E s \in Tools : Return(s)
  <2>1. PICK s \in Tools : Return(s)
    BY <1>4
  <2> DEFINE good == Completed(s, ended[s].code, s \in late) /\ Decodes(s, ended[s].form)
             slot == IF good THEN Returned(s, Output(s)) ELSE result[s]
  <2>2. /\ At(s, "ended") /\ case' = case /\ told' = told /\ ended' = ended
        /\ phase' = [phase EXCEPT ![s] = IF good THEN "done" ELSE "failed"]
        /\ result' = [result EXCEPT ![s] = slot]
    BY <2>1 DEF Return, Going, Returned
  <2>3. Returned(s, Output(s))' = Returned(s, Output(s))
    BY <2>2 DEF Returned, Output, setup, Reported
  <2>4. Underway /\ result[s] = <<>>
    BY <2>2 DEF Slotted, Underway, At
  <2> HIDE DEF good
  <2>5. /\ phase' \in [Tools -> Phases] /\ phase'[s] = IF good THEN "done" ELSE "failed"
        /\ \A t \in Tools \ {s} : phase'[t] = phase[t]
    BY <2>2 DEF Slotted, Phases
  <2> HIDE DEF slot
  <2>6. /\ result' = [t \in Tools |-> result'[t]] /\ result'[s] = slot
        /\ \A t \in Tools \ {s} : result'[t] = result[t]
    BY <2>2 DEF Slotted
  <2>7. slot = IF phase'[s] = "done" THEN Returned(s, Output(s))' ELSE <<>>
    BY <2>3, <2>4, <2>5 DEF slot
  <2> QED
    BY <2>2, <2>4, <2>5, <2>6, <2>7, OtherSlots DEF Slotted
<1>5. CASE Report
  BY <1>5, ReportKeepsSlots
<1>6. CASE GiveUp
  <2>1. /\ case' = case /\ told' = told /\ ended' = ended /\ result' = result
        /\ phase' = [s \in Tools |-> "idle"]
    BY <1>6 DEF GiveUp
  <2>2. ~ Underway'
    BY <2>1 DEF Underway, At
  <2>3. \A t \in told' : t.shown = ShownFor(t.by)'
    BY <2>1, SameCase DEF Slotted
  <2> QED
    BY <2>1, <2>2, <2>3 DEF Slotted, Phases
<1>7. CASE Write \/ UNCHANGED vars
  <2>1. UNCHANGED <<case, told, ended, result, phase>>
    BY <1>7 DEF Write, vars
  <2>2. \A t \in told' : t.shown = ShownFor(t.by)'
    BY <2>1, SameCase DEF Slotted
  <2>3. \A s \in Tools : Returned(s, Output(s))' = Returned(s, Output(s))
    BY <2>1 DEF Returned, Output, setup, Reported
  <2> QED
    BY <2>1, <2>2, <2>3 DEF Slotted, Underway, At
<1> QED
  BY <1>1, <1>2, <1>3, <1>4, <1>5, <1>6, <1>7 DEF Next, Onward, ToolStep

(* The slots are empty at first.                                           *)
LEMMA SlottedStart == Init => Slotted
<1> SUFFICES ASSUME Init PROVE Slotted
  OBVIOUS
<1>1. /\ phase = [s \in Tools |-> "idle"] /\ DOMAIN ended = Tools
      /\ result = [s \in Tools |-> <<>>] /\ told = {}
  BY DEF Init
<1> QED
  BY <1>1 DEF Slotted, Underway, At, Phases

(* Two scans that were told the same by the same tools show the same       *)
(* report, in whatever order the tools start, end and overlap: run.go's    *)
(* "identical scans render identically".                                   *)
THEOREM SameReports == Spec => []SameScanSameReport
<1>1. Init => Slotted
  BY SlottedStart
<1>2. Slotted => SameScanSameReport
  BY DEF Slotted, SameScanSameReport
<1> QED
  BY <1>1, <1>2, SlottedHolds, PTL DEF Spec

-----------------------------------------------------------------------------
(* Numbers, and lists that a loop goes through.                            *)

(* The order of the numbers, as a set of pairs, is well-founded.           *)
LEMMA LessIsWellFounded == IsWellFoundedOn({p \in Nat \X Nat : p[1] < p[2]}, Nat)
BY NatLessThanWellFounded DEF OpToRel

(* A set of numbers that is not empty has a least one.                     *)
LEMMA LeastElement ==
  ASSUME NEW S \in SUBSET Nat, S # {}
  PROVE  \E m \in S : \A n \in S : m <= n
<1> DEFINE less == {p \in Nat \X Nat : p[1] < p[2]}
<1>1. IsWellFoundedOn(less, Nat)
  BY LessIsWellFounded
<1>2. PICK m \in S : \A n \in S : ~ (<<n, m>> \in less)
  <2> HIDE DEF less
  <2> QED
    BY <1>1, WFMin
<1>3. ASSUME NEW n \in S PROVE m <= n
  <2>1. n < m => <<n, m>> \in less
    OBVIOUS
  <2> QED
    BY <1>2, <2>1
<1> QED
  BY <1>3

(* Induction, as a fact about sets of numbers.                             *)
LEMMA Induction ==
  ASSUME NEW n \in Nat, NEW S, 0 \in S,
         \A k \in 0 .. n - 1 : k \in S => k + 1 \in S
  PROVE  \A k \in 0 .. n : k \in S
<1> SUFFICES ASSUME {k \in 0 .. n : k \notin S} # {} PROVE FALSE
  OBVIOUS
<1> DEFINE rest == {k \in 0 .. n : k \notin S}
<1>1. PICK m \in rest : \A k \in rest : m <= k
  <2>1. rest \in SUBSET Nat /\ rest # {}
    OBVIOUS
  <2> HIDE DEF rest
  <2> QED
    BY <2>1, LeastElement
<1>2. m # 0 /\ m - 1 \in 0 .. n - 1 /\ m - 1 \notin rest
  BY <1>1
<1>3. (m - 1) + 1 \in S
  BY <1>2
<1> QED
  BY <1>1, <1>3

(* A loop whose step is a function: it has its values one after another.   *)
Steps(n, V) == [V \X (1 .. n) -> V]

(* F has the values the loop's variable takes.                             *)
Loop(n, V, base, step, F) ==
  /\ F \in [0 .. n -> V]
  /\ F[0] = base
  /\ \A k \in 1 .. n : F[k] = step[<<F[k - 1], k>>]

(* A loop has such values: what a recursive function over 0 .. n chooses   *)
(* is there.                                                               *)
LEMMA Looped ==
  ASSUME NEW n \in Nat, NEW V, NEW base \in V, NEW step \in Steps(n, V)
  PROVE  \E F : Loop(n, V, base, step, F)
<1> USE DEF Steps
<1> DEFINE Is(F, m) == F[0] = base /\ \A k \in 1 .. m : F[k] = step[<<F[k - 1], k>>]
           S == {m \in 0 .. n : \E F \in [0 .. m -> V] : Is(F, m)}
<1>1. 0 \in S
  <2> DEFINE F == [k \in 0 .. 0 |-> base]
  <2>1. F \in [0 .. 0 -> V] /\ F[0] = base
    OBVIOUS
  <2> HIDE DEF F
  <2>2. Is(F, 0)
    BY <2>1
  <2> QED
    BY <2>1, <2>2
<1>2. ASSUME NEW m \in 0 .. n - 1, m \in S
      PROVE  m + 1 \in S
  <2>1. PICK F \in [0 .. m -> V] : Is(F, m)
    BY <1>2
  <2> DEFINE G == [k \in 0 .. m + 1 |-> IF k = m + 1 THEN step[<<F[m], k>>] ELSE F[k]]
  <2>2. G \in [0 .. m + 1 -> V]
    BY <2>1
  <2>3. \A k \in 0 .. m : G[k] = F[k]
    OBVIOUS
  <2>4. G[m + 1] = step[<<G[m], m + 1>>]
    OBVIOUS
  <2> HIDE DEF G
  <2>5. \A k \in 1 .. m : G[k] = step[<<G[k - 1], k>>]
    BY <2>1, <2>3
  <2>6. G[0] = base
    BY <2>1, <2>3
  <2>7. Is(G, m + 1)
    <3>1. ASSUME NEW k \in 1 .. m + 1
          PROVE  G[k] = step[<<G[k - 1], k>>]
      <4>1. CASE k \in 1 .. m
        BY <2>5, <4>1
      <4>2. CASE k = m + 1
        <5>1. k - 1 = m
          BY <4>2
        <5> QED
          BY <2>4, <4>2, <5>1
      <4> QED
        BY <4>1, <4>2
    <3> QED
      BY <2>6, <3>1
  <2> QED
    BY <2>2, <2>7
<1> HIDE DEF S
<1>3. n \in S
  BY <1>1, <1>2, Induction
<1> QED
  BY <1>3 DEF S, Loop

(* Only is what it is taken from.                                          *)
LEMMA OnlyOne == \A x : Only({x}) = x
BY DEF Only

(* What Picked goes through.                                               *)
Picks(T, s, I, F) ==
  /\ F \in [0 .. Len(s) -> Seq(T)]
  /\ F[0] = <<>>
  /\ \A k \in 1 .. Len(s) :
       F[k] = IF k \in I THEN Append(F[k - 1], s[k]) ELSE F[k - 1]
  /\ Picked(s, I) = F[Len(s)]

(* There are such values.                                                  *)
LEMMA PickedSteps ==
  ASSUME NEW T, NEW s \in Seq(T), NEW I
  PROVE  \E F : Picks(T, s, I, F)
<1> DEFINE n == Len(s)
           V == Seq(T)
           then(q, k) == IF k \in I THEN Append(q, s[k]) ELSE q
           step == [x \in V \X (1 .. n) |-> then(x[1], x[2])]
           next(F) == [k \in 0 .. n |-> IF k = 0 THEN <<>> ELSE then(F[k - 1], k)]
           G == CHOOSE F : F = next(F)
<1>1. n \in Nat /\ \A q \in V, k \in 1 .. n : then(q, k) \in V
  OBVIOUS
<1>2. Picked(s, I) = G[n]
  BY DEF Picked
<1>b. <<>> \in V
  OBVIOUS
<1> HIDE DEF n, V, then
<1>3. step \in Steps(n, V)
  BY <1>1 DEF Steps
<1>4. \A q \in V, k \in 1 .. n : step[<<q, k>>] = then(q, k)
  OBVIOUS
<1>5. PICK F \in [0 .. n -> V] :
        F[0] = <<>> /\ \A k \in 1 .. n : F[k] = step[<<F[k - 1], k>>]
  <2> DEFINE base == <<>>
  <2>1. base \in V
    BY <1>b
  <2> HIDE DEF step, base
  <2>2. \E F : Loop(n, V, base, step, F)
    BY <1>1, <1>3, <2>1, Looped
  <2> QED
    BY <2>2 DEF base, Loop
<1> HIDE DEF step
<1>6. ASSUME NEW k \in 1 .. n PROVE F[k] = then(F[k - 1], k)
  <2>1. k - 1 \in 0 .. n
    BY <1>1
  <2>2. F[k - 1] \in V
    BY <1>5, <2>1
  <2> QED
    BY <1>4, <1>5, <2>2
<1>7. F = next(F)
  BY <1>1, <1>5, <1>6
<1>8. G = next(G)
  <2> HIDE DEF next
  <2> QED
    BY <1>7
<1> HIDE DEF G
<1>9. G[0] = <<>> /\ \A k \in 1 .. n : G[k] = then(G[k - 1], k)
  BY <1>1, <1>8
<1>10. \A k \in 0 .. n : G[k] \in V
  <2> DEFINE S == {k \in 0 .. n : G[k] \in V}
  <2>1. 0 \in S
    BY <1>1, <1>b, <1>9
  <2>3. ASSUME NEW k \in 0 .. n - 1, k \in S PROVE k + 1 \in S
    <3>1. k + 1 \in 1 .. n /\ (k + 1) - 1 = k /\ G[k] \in V
      BY <1>1, <2>3
    <3>2. G[k + 1] = then(G[k], k + 1)
      BY <1>9, <3>1
    <3> QED
      BY <1>1, <3>1, <3>2
  <2> HIDE DEF S
  <2>2. \A k \in 0 .. n : k \in S
    BY <1>1, <2>1, <2>3, Induction
  <2> QED
    BY <2>2 DEF S
<1>11. G \in [0 .. n -> V]
  BY <1>8, <1>10
<1> QED
  BY <1>2, <1>9, <1>11 DEF n, V, then, Picks

(* Appending adds one element.                                             *)
LEMMA AppendSet ==
  ASSUME NEW T, NEW q \in Seq(T), NEW x \in T
  PROVE  InSeq(Append(q, x)) = InSeq(q) \cup {x}
<1>1. /\ Append(q, x) \in Seq(T) /\ DOMAIN Append(q, x) = 1 .. Len(q) + 1
      /\ Len(q) \in Nat /\ DOMAIN q = 1 .. Len(q)
  OBVIOUS
<1>2. \A i \in 1 .. Len(q) : Append(q, x)[i] = q[i]
  OBVIOUS
<1>3. Append(q, x)[Len(q) + 1] = x
  OBVIOUS
<1>4. InSeq(Append(q, x)) \subseteq InSeq(q) \cup {x}
  BY <1>1, <1>2, <1>3 DEF InSeq
<1>5. x \in InSeq(Append(q, x))
  BY <1>1, <1>3 DEF InSeq
<1>6. \A i \in DOMAIN q : q[i] \in InSeq(Append(q, x))
  BY <1>1, <1>2 DEF InSeq
<1> QED
  BY <1>4, <1>5, <1>6 DEF InSeq

(* What is picked are the elements at those indices.                       *)
LEMMA PickedSet ==
  ASSUME NEW T, NEW s \in Seq(T), NEW I
  PROVE  /\ Picked(s, I) \in Seq(T)
         /\ InSeq(Picked(s, I)) = {s[i] : i \in I \cap DOMAIN s}
<1> DEFINE n == Len(s)
<1>p. PICK F : Picks(T, s, I, F)
  BY PickedSteps
<1>1. /\ F \in [0 .. n -> Seq(T)]
      /\ F[0] = <<>>
      /\ \A k \in 1 .. n : F[k] = IF k \in I THEN Append(F[k - 1], s[k]) ELSE F[k - 1]
      /\ Picked(s, I) = F[n]
  BY <1>p DEF Picks
<1>2. n \in Nat /\ DOMAIN s = 1 .. n /\ \A k \in 1 .. n : s[k] \in T
  OBVIOUS
<1> DEFINE S == {k \in 0 .. n : InSeq(F[k]) = {s[i] : i \in I \cap 1 .. k}}
<1>3. 0 \in S
  BY <1>1, <1>2 DEF InSeq
<1>4. ASSUME NEW k \in 0 .. n - 1, k \in S
      PROVE  k + 1 \in S
  <2>a. k \in 0 .. n /\ k + 1 \in 1 .. n
    BY <1>2
  <2>b. F[k] \in Seq(T)
    BY <1>1, <2>a, Zenon
  <2>c. s[k + 1] \in T
    BY <1>2, <2>a, Zenon
  <2>1. F[k] \in Seq(T) /\ k + 1 \in 1 .. n /\ s[k + 1] \in T
    BY <2>a, <2>b, <2>c, Zenon
  <2>2. F[k + 1] = IF k + 1 \in I THEN Append(F[k], s[k + 1]) ELSE F[k]
    BY <1>1, <2>1
  <2>3. \A i : i \in 1 .. k + 1 <=> i \in 1 .. k \/ i = k + 1
    BY <2>1
  <2>4. CASE k + 1 \in I
    <3>1. InSeq(F[k + 1]) = {s[i] : i \in I \cap 1 .. k} \cup {s[k + 1]}
      BY <1>4, <2>1, <2>2, <2>4, AppendSet
    <3> QED
      BY <2>1, <2>3, <2>4, <3>1
  <2>5. CASE k + 1 \notin I
    BY <1>4, <2>1, <2>2, <2>3, <2>5
  <2> QED
    BY <2>4, <2>5
<1> HIDE DEF S, n
<1>5. n \in S
  <2>1. \A k \in 0 .. n : k \in S
    BY <1>2, <1>3, <1>4, Induction
  <2> QED
    BY <1>2, <2>1
<1> QED
  BY <1>1, <1>2, <1>5 DEF S

-----------------------------------------------------------------------------
(* Flattening.                                                             *)

(* What FlattenSeq goes through.                                           *)
Flattens(T, seqs, F) ==
  /\ F \in [1 .. Len(seqs) -> Seq(T)]
  /\ F[1] = seqs[1]
  /\ \A k \in 2 .. Len(seqs) : F[k] = F[k - 1] \o seqs[k]
  /\ FlattenSeq(seqs) = F[Len(seqs)]

(* There are such values, too.                                             *)
LEMMA FlattenSteps ==
  ASSUME NEW T, NEW seqs \in Seq(Seq(T)), Len(seqs) # 0
  PROVE  \E F : Flattens(T, seqs, F)
<1> DEFINE n == Len(seqs)
           V == Seq(T)
           step == [x \in V \X (1 .. n) |-> x[1] \o seqs[x[2]]]
           next(F) == [k \in 1 .. n |-> IF k = 1 THEN seqs[k] ELSE F[k - 1] \o seqs[k]]
           G == CHOOSE F : F = next(F)
           base == <<>>
<1>1. n \in Nat /\ n # 0 /\ \A k \in 1 .. n : seqs[k] \in V
  OBVIOUS
<1>2. FlattenSeq(seqs) = G[n]
  BY DEF FlattenSeq
<1>3. base \in V /\ \A q \in V, k \in 1 .. n : q \o seqs[k] \in V /\ base \o seqs[k] = seqs[k]
  OBVIOUS
<1> HIDE DEF n, V, base
<1>4. step \in Steps(n, V)
  BY <1>3 DEF Steps
<1>5. \A q \in V, k \in 1 .. n : step[<<q, k>>] = q \o seqs[k]
  OBVIOUS
<1>6. PICK H : Loop(n, V, base, step, H)
  <2> HIDE DEF step
  <2> QED
    BY <1>1, <1>3, <1>4, Looped
<1> HIDE DEF step
<1>7. H \in [0 .. n -> V] /\ H[0] = base /\ \A k \in 1 .. n : H[k] = step[<<H[k - 1], k>>]
  BY <1>6 DEF Loop
<1>8. ASSUME NEW k \in 1 .. n PROVE H[k] = H[k - 1] \o seqs[k]
  <2>1. k - 1 \in 0 .. n
    BY <1>1
  <2>2. H[k - 1] \in V
    BY <1>7, <2>1
  <2> QED
    BY <1>5, <1>7, <2>2
<1> DEFINE F == [k \in 1 .. n |-> H[k]]
<1>9. F = next(F)
  <2>1. ASSUME NEW k \in 1 .. n
        PROVE  H[k] = IF k = 1 THEN seqs[k] ELSE F[k - 1] \o seqs[k]
    <3>1. CASE k = 1
      <4>1. k - 1 = 0 /\ H[0] = base
        BY <1>7, <3>1
      <4>2. H[k] = base \o seqs[k]
        BY <1>8, <4>1
      <4> QED
        BY <1>3, <3>1, <4>2
    <3>2. CASE k # 1
      <4>1. k - 1 \in 1 .. n
        BY <1>1, <3>2
      <4> QED
        BY <1>8, <3>2, <4>1
    <3> QED
      BY <3>1, <3>2
  <2> QED
    BY <2>1
<1>10. G = next(G)
  <2> HIDE DEF next, F
  <2> QED
    BY <1>9
<1> HIDE DEF G, F
<1>11. G[1] = seqs[1] /\ \A k \in 2 .. n : G[k] = G[k - 1] \o seqs[k]
  <2>1. \A k \in 1 .. n : G[k] = IF k = 1 THEN seqs[k] ELSE G[k - 1] \o seqs[k]
    BY <1>10
  <2>2. 1 \in 1 .. n /\ \A k \in 2 .. n : k \in 1 .. n /\ k # 1
    BY <1>1
  <2> QED
    BY <2>1, <2>2
<1>12. \A k \in 0 .. n : k # 0 => G[k] \in V
  <2> DEFINE S == {k \in 0 .. n : k # 0 => G[k] \in V}
  <2>1. 0 \in S
    BY <1>1
  <2>2. ASSUME NEW k \in 0 .. n - 1, k \in S PROVE k + 1 \in S
    <3>1. k + 1 \in 1 .. n /\ (k + 1) - 1 = k
      BY <1>1
    <3>2. CASE k = 0
      BY <1>1, <1>11, <3>1, <3>2
    <3>3. CASE k # 0
      <4>1. G[k] \in V /\ k + 1 \in 2 .. n
        BY <2>2, <3>1, <3>3
      <4>2. G[k + 1] = G[k] \o seqs[k + 1]
        BY <1>11, <3>1, <4>1
      <4>3. G[k + 1] \in V
        BY <1>3, <3>1, <4>1, <4>2
      <4> QED
        BY <3>1, <4>3
    <3> QED
      BY <3>2, <3>3
  <2> HIDE DEF S
  <2>3. \A k \in 0 .. n : k \in S
    BY <1>1, <2>1, <2>2, Induction
  <2> QED
    BY <2>3 DEF S
<1>13. G \in [1 .. n -> V]
  <2>1. \A k \in 1 .. n : G[k] \in V
    BY <1>1, <1>12
  <2>2. G = [k \in 1 .. n |-> G[k]]
    BY <1>10
  <2> QED
    BY <2>1, <2>2
<1> QED
  BY <1>2, <1>11, <1>13 DEF n, V, Flattens

(* Two lists have, one after the other, what either has.                   *)
LEMMA ConcatSet ==
  ASSUME NEW T, NEW q \in Seq(T), NEW r \in Seq(T)
  PROVE  InSeq(q \o r) = InSeq(q) \cup InSeq(r)
<1>1. /\ q \o r \in Seq(T) /\ DOMAIN (q \o r) = 1 .. Len(q) + Len(r)
      /\ Len(q) \in Nat /\ DOMAIN q = 1 .. Len(q)
      /\ Len(r) \in Nat /\ DOMAIN r = 1 .. Len(r)
  OBVIOUS
<1>2. \A i \in 1 .. Len(q) : (q \o r)[i] = q[i]
  OBVIOUS
<1>3. \A i \in 1 .. Len(r) : (q \o r)[Len(q) + i] = r[i]
  OBVIOUS
<1>4. ASSUME NEW x \in InSeq(q \o r) PROVE x \in InSeq(q) \cup InSeq(r)
  <2>1. PICK i \in 1 .. Len(q) + Len(r) : x = (q \o r)[i]
    BY <1>1 DEF InSeq
  <2>2. CASE i <= Len(q)
    BY <1>1, <1>2, <2>1, <2>2 DEF InSeq
  <2>3. CASE i > Len(q)
    <3>1. i - Len(q) \in 1 .. Len(r) /\ Len(q) + (i - Len(q)) = i
      BY <1>1, <2>3
    <3> QED
      BY <1>1, <1>3, <2>1, <3>1 DEF InSeq
  <2> QED
    BY <1>1, <2>2, <2>3
<1>5. ASSUME NEW x \in InSeq(q) PROVE x \in InSeq(q \o r)
  BY <1>1, <1>2 DEF InSeq
<1>6. ASSUME NEW x \in InSeq(r) PROVE x \in InSeq(q \o r)
  <2>1. PICK i \in 1 .. Len(r) : x = r[i]
    BY <1>1 DEF InSeq
  <2>2. Len(q) + i \in DOMAIN (q \o r)
    BY <1>1
  <2> QED
    BY <1>3, <2>1, <2>2 DEF InSeq
<1> QED
  BY <1>4, <1>5, <1>6

(* Flattening loses nothing and adds nothing.                              *)
LEMMA Flattened ==
  ASSUME NEW T, NEW seqs \in Seq(Seq(T))
  PROVE  /\ FlattenSeq(seqs) \in Seq(T)
         /\ InSeq(FlattenSeq(seqs)) = UNION {InSeq(seqs[i]) : i \in DOMAIN seqs}
<1> DEFINE n == Len(seqs)
<1>1. n \in Nat /\ DOMAIN seqs = 1 .. n /\ \A k \in 1 .. n : seqs[k] \in Seq(T)
  OBVIOUS
<1>2. CASE Len(seqs) = 0
  <2>1. seqs = <<>>
    BY <1>2
  <2>2. FlattenSeq(seqs) = <<>>
    BY <1>2, <2>1 DEF FlattenSeq
  <2> QED
    BY <1>1, <1>2, <2>2 DEF InSeq
<1>3. CASE Len(seqs) # 0
  <2>1. PICK F : Flattens(T, seqs, F)
    BY <1>3, FlattenSteps
  <2>2. /\ F \in [1 .. n -> Seq(T)] /\ F[1] = seqs[1]
        /\ \A k \in 2 .. n : F[k] = F[k - 1] \o seqs[k]
        /\ FlattenSeq(seqs) = F[n]
    BY <2>1 DEF Flattens
  <2> DEFINE S == {k \in 0 .. n : k # 0 => InSeq(F[k]) = UNION {InSeq(seqs[i]) : i \in 1 .. k}}
  <2>3. 0 \in S
    BY <1>1
  <2> HIDE DEF n
  <2>4. ASSUME NEW k \in 0 .. n - 1, k \in S
        PROVE  k + 1 \in S
    <3>1. k + 1 \in 1 .. n /\ (k + 1) - 1 = k /\ k + 1 # 0
      BY <1>1
    <3>2. \A i : i \in 1 .. k + 1 <=> i \in 1 .. k \/ i = k + 1
      BY <3>1
    <3>3. CASE k = 0
      <4>1. F[k + 1] = seqs[k + 1]
        BY <2>2, <3>3
      <4>2. \A i : i \in 1 .. k + 1 <=> i = k + 1
        BY <3>1, <3>3
      <4> QED
        BY <3>1, <4>1, <4>2
    <3>4. CASE k # 0
      <4>0. k \in 1 .. n /\ k + 1 \in 2 .. n
        BY <1>1, <3>4
      <4>1. F[k] \in Seq(T) /\ seqs[k + 1] \in Seq(T) /\ F[k + 1] = F[k] \o seqs[k + 1]
        BY <1>1, <2>2, <3>1, <4>0
      <4>2. InSeq(F[k + 1]) = InSeq(F[k]) \cup InSeq(seqs[k + 1])
        BY <4>1, ConcatSet
      <4>3. InSeq(F[k]) = UNION {InSeq(seqs[i]) : i \in 1 .. k}
        BY <2>4, <3>4
      <4>4. InSeq(F[k + 1]) = UNION {InSeq(seqs[i]) : i \in 1 .. k + 1}
        BY <3>2, <4>2, <4>3
      <4> QED
        BY <3>1, <4>4
    <3> QED
      BY <3>3, <3>4
  <2> HIDE DEF S
  <2>6. \A k \in 0 .. n : k \in S
    BY <1>1, <2>3, <2>4, Induction
  <2>5. n \in S
    BY <1>1, <2>6
  <2>7. InSeq(F[n]) = UNION {InSeq(seqs[i]) : i \in 1 .. n}
    BY <1>3, <2>5 DEF S, n
  <2>9. n # 0
    BY <1>3 DEF n
  <2>8. F[n] \in Seq(T)
    <3>1. n \in 1 .. n
      BY <1>1, <2>9
    <3> QED
      BY <2>2, <3>1
  <2> QED
    BY <1>1, <2>2, <2>7, <2>8
<1> QED
  BY <1>2, <1>3

-----------------------------------------------------------------------------
(* Identity.                                                               *)

(* A finding as the adapters make it and merging leaves it.                *)
(* The provers know no string to be in STRING.                             *)
Text == STRING \cup {""}

(* The packages and snippets of records and findings.                      *)
Packages == [ecosystem : Text, name : Text, version : Text]

Snippets == [tokens : Text, layout : Text]

(* What is about a package and not about a place in a file.                *)
Dependencies == {"vulnerability", "license"}

(* What a finding is identified by, and the identities there are.          *)
Identified ==
  [category : Categories, ruleID : Nat, aliases : SUBSET Nat, path : Paths,
   snippet : Snippets, package : Packages]

Prints == {Fingerprint(b) : b \in Identified}

(* Findings that have one, and those that have their own.                  *)
FoundType ==
  [fingerprint : Prints, scanner : Tools, scanners : SUBSET Tools, ruleID : Nat,
   aliases : SUBSET Nat, category : Categories, severity : Severity, path : Paths,
   line : Int, snippet : Snippets, package : Packages, fixedIn : Text]

Found == {f \in FoundType : f.fingerprint = Fingerprint(f)}

(* The tuples that DependencyIdentity puts together.                       *)
LEMMA Joined ==
  \A x, y, z, u, v : /\ <<x, y, z>> \o <<>> = <<x, y, z>>
                     /\ <<x, y, z>> \o <<u, v>> = <<x, y, z, u, v>>
<1> SUFFICES ASSUME NEW x, NEW y, NEW z, NEW u, NEW v
             PROVE  /\ <<x, y, z>> \o <<>> = <<x, y, z>>
                    /\ <<x, y, z>> \o <<u, v>> = <<x, y, z, u, v>>
  OBVIOUS
<1> DEFINE V == {x, y, z, u, v}
           s == <<x, y, z>>
           t == <<u, v>>
           w == <<x, y, z, u, v>>
<1>1. s \in Seq(V) /\ t \in Seq(V) /\ w \in Seq(V)
  OBVIOUS
<1>2. Len(s) = 3 /\ Len(t) = 2 /\ Len(w) = 5
  OBVIOUS
<1>3. /\ w[1] = s[1] /\ w[2] = s[2] /\ w[3] = s[3] /\ w[4] = t[1] /\ w[5] = t[2]
  OBVIOUS
<1> HIDE DEF V, s, t, w
<1>4. s \o <<>> = s
  BY <1>1
<1>5. s \o t = w
  <2>1. /\ s \o t \in Seq(V) /\ Len(s \o t) = Len(s) + Len(t)
        /\ \A i \in 1 .. Len(s) + Len(t) :
             (s \o t)[i] = IF i <= Len(s) THEN s[i] ELSE t[i - Len(s)]
    BY <1>1, ConcatProperties
  <2>2. Len(s \o t) = 5 /\ \A i \in 1 .. 5 : (s \o t)[i] = IF i <= 3 THEN s[i] ELSE t[i - 3]
    BY <1>2, <2>1
  <2>3. ASSUME NEW i \in 1 .. 5 PROVE (s \o t)[i] = w[i]
    <3>1. i \in {1, 2, 3, 4, 5}
      OBVIOUS
    <3>2. 4 - 3 = 1 /\ 5 - 3 = 2
      OBVIOUS
    <3> QED
      BY <1>3, <2>2, <3>1, <3>2
  <2> QED
    BY <1>1, <1>2, <2>1, <2>2, <2>3, SeqEqual
<1> QED
  BY <1>4, <1>5 DEF s, t, w

(* The advisory that a finding is about.                                   *)
CanonicalOf(f) == CanonicalAdvisoryID(f.ruleID, f.aliases)

(* The fingerprint of a finding about a package.                           *)
LEMMA DependencyPrint ==
  ASSUME NEW f, f.category \in Dependencies
  PROVE  Fingerprint(f) =
           IF f.package = NoPackage THEN <<"pkg", CanonicalOf(f), NormalizePath(f.path)>>
           ELSE <<"pkg", CanonicalOf(f), NormalizePath(f.path),
                  CanonicalEcosystem(f.package.ecosystem), f.package.name>>
<1>1. Fingerprint(f) = <<"pkg", CanonicalOf(f), NormalizePath(f.path)>>
    \o (IF f.package = NoPackage THEN <<>>
        ELSE <<CanonicalEcosystem(f.package.ecosystem), f.package.name>>)
  BY DEF Fingerprint, Dependencies, DependencyIdentity, CanonicalOf
<1> DEFINE c == CanonicalOf(f)
           p == NormalizePath(f.path)
           e == CanonicalEcosystem(f.package.ecosystem)
           m == f.package.name
<1> HIDE DEF c, p, e, m
<1>2. Fingerprint(f) = <<"pkg", c, p>> \o (IF f.package = NoPackage THEN <<>> ELSE <<e, m>>)
  BY <1>1 DEF c, p, e, m
<1>3. Fingerprint(f) = IF f.package = NoPackage THEN <<"pkg", c, p>> ELSE <<"pkg", c, p, e, m>>
  <2>1. /\ <<"pkg", c, p>> \o <<>> = <<"pkg", c, p>>
        /\ <<"pkg", c, p>> \o <<e, m>> = <<"pkg", c, p, e, m>>
    BY Joined
  <2>2. CASE f.package = NoPackage
    BY <1>2, <2>1, <2>2, Zenon
  <2>3. CASE f.package # NoPackage
    BY <1>2, <2>1, <2>3, Zenon
  <2> QED
    BY <2>2, <2>3
<1> QED
  BY <1>3 DEF c, p, e, m

(* The fingerprint of a finding at a place in a file.                      *)
LEMMA LocationPrint ==
  ASSUME NEW f, f.category \notin Dependencies
  PROVE  Fingerprint(f) = <<"loc", f.ruleID, NormalizePath(f.path), f.snippet.tokens>>
BY DEF Fingerprint, LocationIdentity, NormalizeSnippet, Dependencies

(* No fingerprint is the one of a finding that has none yet.               *)
LEMMA Named == Unnamed \notin Prints
<1> SUFFICES ASSUME NEW b \in Identified PROVE Fingerprint(b) # <<>>
  BY DEF Prints, Unnamed
<1>1. CASE b.category \in Dependencies
  BY <1>1, DependencyPrint
<1>2. CASE b.category \notin Dependencies
  BY <1>2, LocationPrint
<1> QED
  BY <1>1, <1>2

(* What findings with one fingerprint have in common.                      *)
LEMMA SamePrint ==
  ASSUME NEW a, NEW b, Fingerprint(a) = Fingerprint(b)
  PROVE  /\ a.category \in Dependencies <=> b.category \in Dependencies
         /\ a.category \in Dependencies =>
              /\ CanonicalOf(a) = CanonicalOf(b)
              /\ NormalizePath(a.path) = NormalizePath(b.path)
              /\ a.package = NoPackage <=> b.package = NoPackage
         /\ a.category \notin Dependencies =>
              /\ a.ruleID = b.ruleID
              /\ NormalizePath(a.path) = NormalizePath(b.path)
              /\ a.snippet.tokens = b.snippet.tokens
<1>1. CASE a.category \in Dependencies /\ b.category \in Dependencies
  BY <1>1, DependencyPrint
<1>2. CASE a.category \notin Dependencies /\ b.category \notin Dependencies
  BY <1>2, LocationPrint
<1>3. CASE a.category \in Dependencies /\ b.category \notin Dependencies
  BY <1>3, DependencyPrint, LocationPrint
<1>4. CASE a.category \notin Dependencies /\ b.category \in Dependencies
  BY <1>4, DependencyPrint, LocationPrint
<1> QED
  BY <1>1, <1>2, <1>3, <1>4

(* The least CVE of a finding and its aliases.                             *)
LEMMA Canonical ==
  ASSUME NEW id \in Nat, NEW aliases \in SUBSET Nat
  PROVE  LET cves == ({id} \cup aliases) \cap CVE
             c == CanonicalAdvisoryID(id, aliases)
         IN  /\ c \in Nat
             /\ cves = {} => c = id /\ c \notin CVE
             /\ cves # {} => c \in cves /\ \A other \in cves : c <= other
<1> DEFINE cves == ({id} \cup aliases) \cap CVE
<1>1. CASE cves = {}
  BY <1>1 DEF CanonicalAdvisoryID
<1>2. CASE cves # {}
  <2>1. cves \in SUBSET Nat
    OBVIOUS
  <2>2. CanonicalAdvisoryID(id, aliases) = CHOOSE c \in cves : \A other \in cves : c <= other
    BY <1>2 DEF CanonicalAdvisoryID
  <2> HIDE DEF cves
  <2>3. \E c \in cves : \A other \in cves : c <= other
    BY <1>2, <2>1, LeastElement
  <2>4. /\ CanonicalAdvisoryID(id, aliases) \in cves
        /\ \A other \in cves : CanonicalAdvisoryID(id, aliases) <= other
    BY <2>2, <2>3
  <2> QED
    BY <1>2, <2>1, <2>4 DEF cves
<1> QED
  BY <1>1, <1>2

(* Two names of one advisory, put together, are a name of it.              *)
LEMMA CanonicalOfBoth ==
  ASSUME NEW x \in Nat, NEW X \in SUBSET Nat, NEW y \in Nat, NEW Y \in SUBSET Nat,
         CanonicalAdvisoryID(x, X) = CanonicalAdvisoryID(y, Y)
  PROVE  CanonicalAdvisoryID(x, X \cup Y \cup ({y} \ {x})) = CanonicalAdvisoryID(x, X)
<1> DEFINE A == X \cup Y \cup ({y} \ {x})
           cx == ({x} \cup X) \cap CVE
           cy == ({y} \cup Y) \cap CVE
           ca == ({x} \cup A) \cap CVE
           c == CanonicalAdvisoryID(x, X)
           d == CanonicalAdvisoryID(x, A)
<1>1. ca = cx \cup cy /\ A \in SUBSET Nat
  OBVIOUS
<1>2. /\ c \in Nat
      /\ cx = {} => c = x /\ c \notin CVE
      /\ cx # {} => c \in cx /\ \A other \in cx : c <= other
  BY Canonical
<1>3. /\ cy = {} => c = y /\ c \notin CVE
      /\ cy # {} => c \in cy /\ \A other \in cy : c <= other
  BY Canonical
<1>4. /\ d \in Nat
      /\ ca = {} => d = x
      /\ ca # {} => d \in ca /\ \A other \in ca : d <= other
  BY <1>1, Canonical
<1>5. cx \subseteq CVE /\ cy \subseteq CVE /\ ca \in SUBSET Nat
  BY <1>1
<1> HIDE DEF A, cx, cy, ca, c, d
<1>6. d = c
  BY <1>1, <1>2, <1>3, <1>4, <1>5
<1> QED
  BY <1>6 DEF A, c, d

-----------------------------------------------------------------------------
(* Merging.                                                                *)

(* The fields of what two findings are merged into.                        *)
LEMMA MergeFields ==
  ASSUME NEW a \in FoundType, NEW b \in FoundType
  PROVE  LET m == MergeFinding(a, b) IN
         /\ m \in FoundType
         /\ m.fingerprint = a.fingerprint /\ m.category = a.category
         /\ m.ruleID = a.ruleID /\ m.path = a.path
         /\ m.scanners = a.scanners \cup {b.scanner}
         /\ m.aliases = a.aliases \cup b.aliases \cup ({b.ruleID} \ {a.ruleID})
         /\ m.severity = IF b.severity > a.severity THEN b.severity ELSE a.severity
         /\ m.snippet = IF a.snippet = NoSnippet THEN b.snippet ELSE a.snippet
         /\ m.package = IF a.package = NoPackage THEN b.package ELSE a.package
<1> DEFINE m == MergeFinding(a, b)
           severity == IF b.severity > a.severity THEN b.severity ELSE a.severity
           line == IF a.line = 0 THEN b.line ELSE a.line
           snippet == IF a.snippet = NoSnippet THEN b.snippet ELSE a.snippet
           package == IF a.package = NoPackage THEN b.package ELSE a.package
           fixedIn == IF a.fixedIn = "" THEN b.fixedIn ELSE a.fixedIn
           scanners == a.scanners \cup {b.scanner}
           aliases == a.aliases \cup b.aliases \cup ({b.ruleID} \ {a.ruleID})
<1>1. m = [a EXCEPT !.scanners = scanners, !.severity = severity, !.line = line,
                    !.snippet = snippet, !.package = package, !.fixedIn = fixedIn,
                    !.aliases = aliases]
  BY DEF MergeFinding, Filled
<1>2. /\ severity \in Severity /\ line \in Int /\ snippet \in Snippets
      /\ package \in Packages /\ fixedIn \in Text
      /\ scanners \in SUBSET Tools /\ aliases \in SUBSET Nat
  <2>1. a.severity \in Severity /\ b.severity \in Severity /\ a.line \in Int /\ b.line \in Int
    BY DEF FoundType
  <2>2. a.snippet \in Snippets /\ b.snippet \in Snippets /\ a.package \in Packages
        /\ b.package \in Packages /\ a.fixedIn \in Text /\ b.fixedIn \in Text
    BY DEF FoundType
  <2>3. a.scanners \in SUBSET Tools /\ b.scanner \in Tools /\ a.aliases \in SUBSET Nat
        /\ b.aliases \in SUBSET Nat /\ b.ruleID \in Nat
    BY DEF FoundType
  <2> QED
    BY <2>1, <2>2, <2>3
<1> HIDE DEF m, severity, line, snippet, package, fixedIn, scanners, aliases
<1>3. m \in FoundType
  BY <1>1, <1>2 DEF FoundType
<1>4. /\ m.fingerprint = a.fingerprint /\ m.category = a.category
      /\ m.ruleID = a.ruleID /\ m.path = a.path /\ m.scanners = scanners
      /\ m.aliases = aliases /\ m.severity = severity /\ m.snippet = snippet
      /\ m.package = package
  BY <1>1 DEF FoundType
<1> QED
  BY <1>3, <1>4 DEF m, severity, snippet, package, scanners, aliases

(* Merging leaves a finding its identity.                                  *)
LEMMA MergeKeepsPrint ==
  ASSUME NEW a \in Found, NEW b \in Found, a.fingerprint = b.fingerprint
  PROVE  MergeFinding(a, b) \in Found
<1> DEFINE m == MergeFinding(a, b)
<1>1. a \in FoundType /\ b \in FoundType /\ a.fingerprint = Fingerprint(a)
      /\ Fingerprint(a) = Fingerprint(b)
  BY DEF Found
<1>2. /\ m \in FoundType
      /\ m.fingerprint = a.fingerprint /\ m.category = a.category
      /\ m.ruleID = a.ruleID /\ m.path = a.path
      /\ m.aliases = a.aliases \cup b.aliases \cup ({b.ruleID} \ {a.ruleID})
      /\ m.snippet = IF a.snippet = NoSnippet THEN b.snippet ELSE a.snippet
      /\ m.package = IF a.package = NoPackage THEN b.package ELSE a.package
  BY <1>1, MergeFields
<1> HIDE DEF m
<1>3. Fingerprint(m) = Fingerprint(a)
  <2>1. CASE a.category \in Dependencies
    <3>1. CanonicalOf(a) = CanonicalOf(b) /\ (a.package = NoPackage <=> b.package = NoPackage)
      BY <1>1, <2>1, SamePrint
    <3>2. CanonicalOf(m) = CanonicalOf(a)
      <4>1. /\ a.ruleID \in Nat /\ a.aliases \in SUBSET Nat
            /\ b.ruleID \in Nat /\ b.aliases \in SUBSET Nat
        BY <1>1 DEF FoundType
      <4> QED
        BY <1>2, <3>1, <4>1, CanonicalOfBoth DEF CanonicalOf
    <3>3. m.package = a.package
      BY <1>2, <3>1
    <3> QED
      BY <1>2, <2>1, <3>2, <3>3, DependencyPrint
  <2>2. CASE a.category \notin Dependencies
    <3>1. a.snippet.tokens = b.snippet.tokens
      BY <1>1, <2>2, SamePrint
    <3>2. m.snippet.tokens = a.snippet.tokens
      BY <1>2, <3>1
    <3> QED
      BY <1>2, <2>2, <3>2, LocationPrint
  <2> QED
    BY <2>1, <2>2
<1> QED
  BY <1>1, <1>2, <1>3 DEF Found, m

(* g stands for the findings G.                                            *)
MergedOf(g, G) ==
  /\ g.scanners = {f.scanner : f \in G}
  /\ g.severity \in {f.severity : f \in G}
  /\ \A f \in G : f.severity <= g.severity
  /\ \E f \in G : /\ g.path = f.path /\ g.category = f.category
                  /\ g.category \in Dependencies => g.package = f.package

(* The findings of H that have the fingerprint of g.                       *)
Like(H, g) == {h \in H : h.fingerprint = g.fingerprint}

(* No two findings of a list have one fingerprint.                         *)
Apart(q) == \A i, j \in DOMAIN q : q[i].fingerprint = q[j].fingerprint => i = j

(* The fingerprints of a set of findings.                                  *)
PrintsOf(H) == {h.fingerprint : h \in H}

(* The list q has the findings H, merged by fingerprint.                   *)
Merges(q, H) ==
  /\ q \in Seq(Found)
  /\ Apart(q)
  /\ PrintsOf(InSeq(q)) = PrintsOf(H)
  /\ \A g \in InSeq(q) : MergedOf(g, Like(H, g))

(* What stands for H stands, with one more merged into it, for H and that  *)
(* one.                                                                    *)
LEMMA MergedStep ==
  ASSUME NEW H \in SUBSET Found, NEW g \in Found, NEW f \in Found,
         MergedOf(g, H), f.fingerprint = g.fingerprint
  PROVE  MergedOf(MergeFinding(g, f), H \cup {f})
<1> DEFINE m == MergeFinding(g, f)
<1>1. g \in FoundType /\ f \in FoundType /\ Fingerprint(g) = Fingerprint(f)
  BY DEF Found
<1>2. /\ m.category = g.category /\ m.path = g.path
      /\ m.scanners = g.scanners \cup {f.scanner}
      /\ m.severity = IF f.severity > g.severity THEN f.severity ELSE g.severity
      /\ m.package = IF g.package = NoPackage THEN f.package ELSE g.package
  BY <1>1, MergeFields
<1>3. /\ g.severity \in Int /\ f.severity \in Int
      /\ \A h \in H : h.severity \in Int
  BY <1>1 DEF FoundType, Found, Severity
<1>4. g.category \in Dependencies => m.package = g.package
  <2>1. g.category \in Dependencies => (g.package = NoPackage <=> f.package = NoPackage)
    BY <1>1, SamePrint
  <2> QED
    BY <1>2, <2>1
<1> HIDE DEF m
<1>5. m.scanners = {h.scanner : h \in H \cup {f}}
  BY <1>2 DEF MergedOf
<1>6. m.severity \in {h.severity : h \in H \cup {f}}
  BY <1>2 DEF MergedOf
<1>7. \A h \in H \cup {f} : h.severity <= m.severity
  BY <1>2, <1>3 DEF MergedOf
<1>8. \E h \in H \cup {f} : /\ m.path = h.path /\ m.category = h.category
                            /\ m.category \in Dependencies => m.package = h.package
  BY <1>2, <1>4 DEF MergedOf
<1> QED
  BY <1>5, <1>6, <1>7, <1>8 DEF MergedOf, m

(* A finding with a new fingerprint is added.                              *)
LEMMA TakeNew ==
  ASSUME NEW q, NEW H \in SUBSET Found, NEW f \in Found, Merges(q, H),
         f.fingerprint \notin PrintsOf(H)
  PROVE  Merges(Take(q, f), H \cup {f})
<1> DEFINE index == {i \in DOMAIN q : q[i].fingerprint = f.fingerprint}
           h == [f EXCEPT !.scanners = {f.scanner}]
           n == Len(q)
           t == Append(q, h)
<1>1. q \in Seq(Found) /\ Apart(q) /\ PrintsOf(InSeq(q)) = PrintsOf(H)
      /\ \A g \in InSeq(q) : MergedOf(g, Like(H, g))
  BY DEF Merges
<1>2. index = {}
  BY <1>1 DEF PrintsOf, InSeq
<1>3. f \in FoundType /\ f.fingerprint = Fingerprint(f)
  BY DEF Found
<1>4. f.fingerprint # Unnamed
  BY <1>3, Named DEF FoundType
<1>5. Take(q, f) = t
  BY <1>2, <1>4 DEF Take
<1>6. /\ h \in FoundType /\ h.fingerprint = f.fingerprint /\ h.category = f.category
      /\ h.ruleID = f.ruleID /\ h.aliases = f.aliases /\ h.path = f.path
      /\ h.snippet = f.snippet /\ h.package = f.package /\ h.severity = f.severity
      /\ h.scanners = {f.scanner}
  BY <1>3 DEF FoundType
<1> HIDE DEF index, h
<1>7. h \in Found
  <2>1. Fingerprint(h) = Fingerprint(f)
    BY <1>6 DEF Fingerprint, DependencyIdentity, LocationIdentity
  <2> QED
    BY <1>3, <1>6, <2>1 DEF Found
<1>8. /\ n \in Nat /\ DOMAIN q = 1 .. n /\ t \in Seq(Found) /\ DOMAIN t = 1 .. n + 1
      /\ \A i \in 1 .. n : t[i] = q[i]
      /\ t[n + 1] = h
  BY <1>1, <1>7
<1>9. InSeq(t) = InSeq(q) \cup {h}
  BY <1>1, <1>7, AppendSet
<1>10. \A g \in InSeq(q) : g.fingerprint # f.fingerprint
  BY <1>1 DEF PrintsOf
<1> HIDE DEF n, t
<1>11. Apart(t)
  <2> SUFFICES ASSUME NEW i \in 1 .. n + 1, NEW j \in 1 .. n + 1,
                      t[i].fingerprint = t[j].fingerprint
               PROVE  i = j
    BY <1>8 DEF Apart
  <2>1. \A k \in 1 .. n : t[k].fingerprint # f.fingerprint
    BY <1>8, <1>10 DEF InSeq
  <2>2. CASE i \in 1 .. n /\ j \in 1 .. n
    BY <1>1, <1>8, <2>2 DEF Apart
  <2>3. CASE i = n + 1 /\ j \in 1 .. n
    BY <1>6, <1>8, <2>1, <2>3
  <2>4. CASE i \in 1 .. n /\ j = n + 1
    BY <1>6, <1>8, <2>1, <2>4
  <2>5. CASE i = n + 1 /\ j = n + 1
    BY <2>5
  <2> QED
    BY <1>8, <2>2, <2>3, <2>4, <2>5
<1>12. PrintsOf(InSeq(t)) = PrintsOf(H \cup {f})
  <2>1. \A X, x : PrintsOf(X \cup {x}) = PrintsOf(X) \cup {x.fingerprint}
    BY DEF PrintsOf
  <2>2. PrintsOf(InSeq(t)) = PrintsOf(InSeq(q)) \cup {h.fingerprint}
    BY <1>9, <2>1
  <2>3. PrintsOf(H \cup {f}) = PrintsOf(H) \cup {f.fingerprint}
    BY <2>1
  <2> QED
    BY <1>1, <1>6, <2>2, <2>3
<1>13. ASSUME NEW g \in InSeq(t) PROVE MergedOf(g, Like(H \cup {f}, g))
  <2>1. CASE g \in InSeq(q)
    <3>1. Like(H \cup {f}, g) = Like(H, g)
      BY <1>10, <2>1 DEF Like
    <3> QED
      BY <1>1, <2>1, <3>1
  <2>2. CASE g = h
    <3>1. Like(H \cup {f}, g) = {f}
      BY <1>6, <2>2 DEF Like, PrintsOf
    <3>2. f.severity <= f.severity
      BY <1>3 DEF FoundType, Severity
    <3>3. MergedOf(h, {f})
      BY <1>6, <3>2 DEF MergedOf
    <3> QED
      BY <2>2, <3>1, <3>3
  <2> QED
    BY <1>9, <2>1, <2>2
<1> QED
  BY <1>5, <1>8, <1>11, <1>12, <1>13 DEF Merges

(* A finding with a known one is merged into its place.                    *)
LEMMA TakeKnown ==
  ASSUME NEW q, NEW H \in SUBSET Found, NEW f \in Found, Merges(q, H),
         f.fingerprint \in PrintsOf(H)
  PROVE  Merges(Take(q, f), H \cup {f})
<1> DEFINE index == {i \in DOMAIN q : q[i].fingerprint = f.fingerprint}
<1>1. q \in Seq(Found) /\ Apart(q) /\ PrintsOf(InSeq(q)) = PrintsOf(H)
      /\ \A g \in InSeq(q) : MergedOf(g, Like(H, g))
  BY DEF Merges
<1>2. PICK k \in DOMAIN q : q[k].fingerprint = f.fingerprint
  BY <1>1 DEF PrintsOf, InSeq
<1>3. index = {k}
  BY <1>1, <1>2 DEF Apart
<1>4. f.fingerprint # Unnamed
  BY Named DEF Found, FoundType
<1> DEFINE m == MergeFinding(q[k], f)
           t == [q EXCEPT ![k] = m]
<1>5. Take(q, f) = t
  BY <1>2, <1>3, <1>4, OnlyOne DEF Take
<1>6. q[k] \in Found /\ q[k] \in InSeq(q)
  BY <1>1, <1>2 DEF InSeq
<1>7. m \in Found /\ m.fingerprint = f.fingerprint
  <2>1. m \in Found
    BY <1>2, <1>6, MergeKeepsPrint
  <2>2. m.fingerprint = q[k].fingerprint
    BY <1>6, MergeFields DEF Found
  <2> QED
    BY <1>2, <2>1, <2>2
<1>8. MergedOf(m, Like(H, q[k]) \cup {f})
  <2>1. Like(H, q[k]) \in SUBSET Found
    BY DEF Like
  <2>2. MergedOf(q[k], Like(H, q[k]))
    BY <1>1, <1>6
  <2> QED
    BY <1>2, <1>6, <2>1, <2>2, MergedStep
<1> HIDE DEF index, m
<1>9. /\ t \in Seq(Found) /\ DOMAIN t = DOMAIN q /\ t[k] = m
      /\ \A i \in DOMAIN q \ {k} : t[i] = q[i]
  BY <1>1, <1>2, <1>7
<1> HIDE DEF t
<1>10. \A i \in DOMAIN q : t[i].fingerprint = q[i].fingerprint
  BY <1>2, <1>7, <1>9
<1>11. Apart(t)
  BY <1>1, <1>9, <1>10 DEF Apart
<1>12. PrintsOf(InSeq(t)) = PrintsOf(H \cup {f})
  <2>1. PrintsOf(InSeq(t)) = PrintsOf(InSeq(q))
    BY <1>9, <1>10 DEF PrintsOf, InSeq
  <2>2. PrintsOf(H \cup {f}) = PrintsOf(H)
    BY DEF PrintsOf
  <2> QED
    BY <1>1, <2>1, <2>2
<1>13. ASSUME NEW g \in InSeq(t) PROVE MergedOf(g, Like(H \cup {f}, g))
  <2>1. PICK i \in DOMAIN q : g = t[i]
    BY <1>9 DEF InSeq
  <2>2. CASE i = k
    <3>1. Like(H \cup {f}, g) = Like(H, q[k]) \cup {f}
      BY <1>2, <1>7, <1>9, <2>1, <2>2 DEF Like
    <3> QED
      BY <1>8, <1>9, <2>1, <2>2, <3>1
  <2>3. CASE i # k
    <3>1. g = q[i] /\ g \in InSeq(q) /\ g.fingerprint # f.fingerprint
      BY <1>1, <1>2, <1>9, <2>1, <2>3 DEF Apart, InSeq
    <3>2. Like(H \cup {f}, g) = Like(H, g)
      BY <3>1 DEF Like
    <3> QED
      BY <1>1, <3>1, <3>2
  <2> QED
    BY <2>2, <2>3
<1> QED
  BY <1>5, <1>9, <1>11, <1>12, <1>13 DEF Merges

(* The findings up to the k-th.                                            *)
UpTo(q, k) == {q[i] : i \in 1 .. k}

(* The next finding, added to those before it.                             *)
LEMMA OneMore ==
  ASSUME NEW q, NEW k \in Nat
  PROVE  UpTo(q, k + 1) = UpTo(q, k) \cup {q[k + 1]}
<1>1. \A i : i \in 1 .. k + 1 <=> i \in 1 .. k \/ i = k + 1
  OBVIOUS
<1> QED
  BY <1>1 DEF UpTo

(* Dedup loses no problem that a tool found, and tells each one once.      *)
LEMMA Dedups ==
  ASSUME NEW findings \in Seq(Found)
  PROVE  Merges(Dedup(findings), InSeq(findings))
<1> DEFINE n == Len(findings)
           V == Seq(Found)
           next(F) == [k \in 0 .. n |->
                         IF k = 0 THEN <<>>
                         ELSE Only({Take(q, f) : q \in {F[k - 1]}, f \in {findings[k]}})]
           G == CHOOSE F : F = next(F)
           then(q, k) == Take(q, findings[k])
           step == [x \in V \X (1 .. n) |->
                      IF then(x[1], x[2]) \in V THEN then(x[1], x[2]) ELSE <<>>]
           base == <<>>
<1>1. n \in Nat /\ DOMAIN findings = 1 .. n /\ \A k \in 1 .. n : findings[k] \in Found
  OBVIOUS
<1>2. Dedup(findings) = G[n]
  BY DEF Dedup
<1>3. base \in V
  OBVIOUS
<1>4. \A F : next(F) = [k \in 0 .. n |-> IF k = 0 THEN base ELSE then(F[k - 1], k)]
  <2>1. ASSUME NEW p, NEW g PROVE Only({Take(q, f) : q \in {p}, f \in {g}}) = Take(p, g)
    <3> DEFINE X == {Take(q, f) : q \in {p}, f \in {g}}
    <3>1. X = {Take(p, g)}
      OBVIOUS
    <3> HIDE DEF X
    <3>2. Only(X) = Take(p, g)
      BY <3>1, OnlyOne
    <3> QED
      BY <3>2 DEF X
  <2> QED
    BY <2>1
<1> HIDE DEF n, V, then, base, next
<1>5. step \in Steps(n, V)
  BY <1>3 DEF Steps, base
<1>6. PICK H : Loop(n, V, base, step, H)
  <2> HIDE DEF step
  <2> QED
    BY <1>1, <1>3, <1>5, Looped
<1>7. H \in [0 .. n -> V] /\ H[0] = base /\ \A k \in 1 .. n : H[k] = step[<<H[k - 1], k>>]
  BY <1>6 DEF Loop
<1> DEFINE S == {k \in 0 .. n : /\ Merges(H[k], UpTo(findings, k))
                                /\ k # 0 => H[k] = then(H[k - 1], k)}
<1>8. 0 \in S
  <2>1. UpTo(findings, 0) = {} /\ InSeq(<<>>) = {}
    BY DEF UpTo, InSeq
  <2>2. Merges(<<>>, {})
    BY <2>1 DEF Merges, Apart, PrintsOf
  <2> QED
    BY <1>1, <1>7, <2>1, <2>2 DEF base
<1>9. ASSUME NEW k \in 0 .. n - 1, k \in S
      PROVE  k + 1 \in S
  <2>1. /\ k \in Nat /\ k \in 0 .. n /\ k + 1 \in 1 .. n /\ (k + 1) - 1 = k /\ k + 1 \in 0 .. n
    BY <1>1
  <2>2. H[k] \in V /\ H[k + 1] = step[<<H[k], k + 1>>] /\ Merges(H[k], UpTo(findings, k))
    BY <1>7, <1>9, <2>1
  <2>3. findings[k + 1] \in Found /\ UpTo(findings, k) \in SUBSET Found
    BY <1>1, <2>1 DEF UpTo
  <2>4. Merges(then(H[k], k + 1), UpTo(findings, k + 1))
    <3>1. UpTo(findings, k + 1) = UpTo(findings, k) \cup {findings[k + 1]}
      BY <2>1, OneMore
    <3> QED
      BY <2>2, <2>3, <3>1, TakeNew, TakeKnown DEF then
  <2>5. then(H[k], k + 1) \in V
    BY <2>4 DEF Merges, V
  <2>6. H[k + 1] = then(H[k], k + 1)
    BY <2>1, <2>2, <2>5
  <2> QED
    BY <2>1, <2>4, <2>6
<1> HIDE DEF S, step
<1>10. \A k \in 0 .. n : k \in S
  BY <1>1, <1>8, <1>9, Induction
<1>11. H = next(H)
  <2>1. \A k \in 0 .. n : H[k] = IF k = 0 THEN base ELSE then(H[k - 1], k)
    BY <1>7, <1>10 DEF S
  <2> QED
    BY <1>4, <1>7, <2>1
<1>12. G = next(G)
  BY <1>11
<1> HIDE DEF G
<1> DEFINE E == {k \in 0 .. n : G[k] = H[k]}
<1>13. \A k \in 0 .. n : k \in E
  <2>0. \A k \in 0 .. n : G[k] = IF k = 0 THEN base ELSE then(G[k - 1], k)
    BY <1>4, <1>12
  <2>1. 0 \in E
    BY <1>1, <1>7, <2>0
  <2>2. ASSUME NEW k \in 0 .. n - 1, k \in E
        PROVE  k + 1 \in E
    <3>1. k + 1 \in 0 .. n /\ (k + 1) - 1 = k /\ k + 1 # 0
      BY <1>1
    <3>2. G[k + 1] = then(G[k], k + 1) /\ H[k + 1] = then(H[k], k + 1) /\ G[k] = H[k]
      BY <1>10, <2>0, <2>2, <3>1 DEF S
    <3> QED
      BY <3>1, <3>2
  <2> HIDE DEF E
  <2> QED
    BY <1>1, <2>1, <2>2, Induction
<1>14. G[n] = H[n] /\ Merges(H[n], UpTo(findings, n))
  BY <1>1, <1>10, <1>13 DEF S
<1>15. UpTo(findings, n) = InSeq(findings)
  BY <1>1 DEF UpTo, InSeq
<1> QED
  BY <1>2, <1>14, <1>15

-----------------------------------------------------------------------------
(* The order of a report.                                                  *)

(* Segments are in the order of their ranks, which are apart.              *)
LEMMA Ranks ==
  /\ \A x \in InSeq(Alphabet) : SegmentRank(x) \in Int
  /\ \A x, y \in InSeq(Alphabet) : SegmentRank(x) = SegmentRank(y) => x = y
<1>1. \A x \in InSeq(Alphabet) :
        SegmentRank(x) \in DOMAIN Alphabet /\ Alphabet[SegmentRank(x)] = x
  BY DEF InSeq, SegmentRank
<1>2. DOMAIN Alphabet \subseteq Int
  BY FindingsAssumption
<1> QED
  BY <1>1, <1>2

(* q has, up to the i-th segment, the segments of p.                       *)
Begins(p, q, i) == \A j \in 1 .. i - 1 : j \in DOMAIN p /\ p[j] = q[j]

(* It is at the i-th segment that p is before q.                           *)
Decides(p, q, i) ==
  /\ i \in DOMAIN q /\ Begins(p, q, i)
  /\ i \in DOMAIN p => SegmentRank(p[i]) < SegmentRank(q[i])

(* PathBefore has one segment that decides.                                *)
LEMMA Before == \A p, q : PathBefore(p, q) <=> \E i : Decides(p, q, i)
BY DEF PathBefore, Decides, Begins

(* The segments of a path have ranks.                                      *)
LEMMA PathFields ==
  ASSUME NEW p \in Paths
  PROVE  /\ Len(p) \in Nat /\ DOMAIN p = 1 .. Len(p)
         /\ \A i \in DOMAIN p : SegmentRank(p[i]) \in Int
         /\ \A i \in DOMAIN p : p[i] \in InSeq(Alphabet)
<1>1. p \in Seq(InSeq(Alphabet))
  BY DEF Paths
<1> QED
  BY <1>1, Ranks

(* Of two paths one comes first, at most.                                  *)
LEMMA PathAsymmetric ==
  ASSUME NEW p \in Paths, NEW q \in Paths, PathBefore(p, q), PathBefore(q, p)
  PROVE  FALSE
<1>1. PICK i : Decides(p, q, i)
  BY Before
<1>2. PICK k : Decides(q, p, k)
  BY Before
<1>3. i \in Nat /\ k \in Nat /\ i >= 1 /\ k >= 1
  BY <1>1, <1>2, PathFields DEF Decides
<1>4. CASE i < k
  <2>1. i \in 1 .. k - 1
    BY <1>3, <1>4
  <2>2. i \in DOMAIN q /\ q[i] = p[i]
    BY <1>2, <2>1 DEF Decides, Begins
  <2>3. i \in DOMAIN p
    BY <1>2, <1>3, <1>4, PathFields DEF Decides
  <2> QED
    BY <1>1, <2>2, <2>3, PathFields DEF Decides
<1>5. CASE k < i
  <2>1. k \in 1 .. i - 1
    BY <1>3, <1>5
  <2>2. k \in DOMAIN p /\ p[k] = q[k]
    BY <1>1, <2>1 DEF Decides, Begins
  <2>3. k \in DOMAIN q
    BY <1>1, <1>3, <1>5, PathFields DEF Decides
  <2> QED
    BY <1>2, <2>2, <2>3, PathFields DEF Decides
<1>6. CASE i = k
  BY <1>1, <1>2, <1>6, PathFields DEF Decides
<1> QED
  BY <1>3, <1>4, <1>5, <1>6

(* The first place where two paths part.                                   *)
LEMMA Parting ==
  ASSUME NEW p \in Paths, NEW q \in Paths, NEW n \in Nat,
         ~ \A j \in 1 .. n : j \in DOMAIN p /\ p[j] = q[j]
  PROVE  \E m \in 1 .. n : Begins(p, q, m) /\ ~ (m \in DOMAIN p /\ p[m] = q[m])
<1> DEFINE S == {j \in 1 .. n : ~ (j \in DOMAIN p /\ p[j] = q[j])}
<1>1. S \in SUBSET Nat /\ S # {}
  OBVIOUS
<1>2. PICK m \in S : \A j \in S : m <= j
  <2> HIDE DEF S
  <2> QED
    BY <1>1, LeastElement
<1>3. ASSUME NEW j \in 1 .. m - 1 PROVE j \in DOMAIN p /\ p[j] = q[j]
  BY <1>2
<1> QED
  BY <1>2, <1>3 DEF Begins

(* And at least one does, unless they are one path.                        *)
LEMMA PathTotal ==
  ASSUME NEW p \in Paths, NEW q \in Paths, p # q
  PROVE  PathBefore(p, q) \/ PathBefore(q, p)
<1> DEFINE n == Len(q)
<1>1. n \in Nat /\ DOMAIN q = 1 .. n /\ Len(p) \in Nat /\ DOMAIN p = 1 .. Len(p)
  BY PathFields
<1>2. CASE \A j \in 1 .. n : j \in DOMAIN p /\ p[j] = q[j]
  <2>1. Len(p) # n
    <3> SUFFICES ASSUME Len(p) = n PROVE FALSE
      OBVIOUS
    <3>1. p \in Seq(InSeq(Alphabet)) /\ q \in Seq(InSeq(Alphabet))
      BY DEF Paths
    <3> QED
      BY <1>2, <3>1, SeqEqual
  <2>2. ~ Len(p) < n
    <3> SUFFICES ASSUME Len(p) < n PROVE FALSE
      OBVIOUS
    <3>1. n \in 1 .. n /\ n \notin DOMAIN p
      BY <1>1
    <3> QED
      BY <1>2, <3>1
  <2>3. n + 1 \in DOMAIN p /\ n + 1 \notin DOMAIN q
    <3> DEFINE m == Len(p)
    <3>1. n \in Nat /\ m \in Nat /\ m # n /\ ~ m < n
      BY <1>1, <2>1, <2>2
    <3> HIDE DEF n, m
    <3>2. n + 1 \in 1 .. m /\ n + 1 \notin 1 .. n
      BY <3>1
    <3> QED
      BY <1>1, <3>2 DEF m
  <2>4. (n + 1) - 1 = n
    BY <1>1
  <2>5. Begins(q, p, n + 1)
    BY <1>1, <1>2, <2>4 DEF Begins
  <2>6. Decides(q, p, n + 1)
    BY <2>3, <2>5 DEF Decides
  <2> QED
    BY <2>6, Before
<1>3. CASE ~ \A j \in 1 .. n : j \in DOMAIN p /\ p[j] = q[j]
  <2>1. PICK m \in 1 .. n : Begins(p, q, m) /\ ~ (m \in DOMAIN p /\ p[m] = q[m])
    BY <1>1, <1>3, Parting
  <2>2. m \in DOMAIN q
    BY <1>1
  <2>3. CASE m \notin DOMAIN p
    BY <2>1, <2>2, <2>3, Before DEF Decides
  <2>4. CASE m \in DOMAIN p
    <3>1. p[m] \in InSeq(Alphabet) /\ q[m] \in InSeq(Alphabet) /\ p[m] # q[m]
      BY <2>1, <2>2, <2>4, PathFields
    <3>2. SegmentRank(p[m]) < SegmentRank(q[m]) \/ SegmentRank(q[m]) < SegmentRank(p[m])
      BY <3>1, Ranks
    <3>3. Begins(q, p, m)
      <4>1. \A j \in 1 .. m - 1 : j \in DOMAIN q
        BY <1>1
      <4> QED
        BY <2>1, <4>1 DEF Begins
    <3> QED
      BY <2>1, <2>2, <2>4, <3>2, <3>3, Before DEF Decides
  <2> QED
    BY <2>3, <2>4
<1> QED
  BY <1>2, <1>3

(* Of two paths in order, no third is both after the second and before the *)
(* first.                                                                  *)
LEMMA PathBetween ==
  ASSUME NEW p \in Paths, NEW q \in Paths, NEW r \in Paths, PathBefore(p, r)
  PROVE  PathBefore(p, q) \/ PathBefore(q, r)
<1>1. PICK i : Decides(p, r, i)
  BY Before
<1>2. i \in DOMAIN r /\ i \in Nat /\ i - 1 \in Nat
      /\ \A j \in 1 .. i - 1 : j \in DOMAIN r /\ j \in DOMAIN p /\ p[j] = r[j]
  <2>1. i \in 1 .. Len(r) /\ Len(r) \in Nat /\ DOMAIN r = 1 .. Len(r)
    BY <1>1, PathFields DEF Decides
  <2>2. \A j \in 1 .. i - 1 : j \in DOMAIN p /\ p[j] = r[j]
    BY <1>1 DEF Decides, Begins
  <2> QED
    BY <2>1, <2>2
<1>3. CASE \A j \in 1 .. i - 1 : j \in DOMAIN q /\ q[j] = r[j]
  <2>1. Begins(q, r, i) /\ Begins(p, q, i)
    BY <1>2, <1>3 DEF Begins
  <2>2. CASE i \notin DOMAIN q
    BY <1>2, <2>1, <2>2, Before DEF Decides
  <2>3. CASE i \in DOMAIN q
    <3>1. SegmentRank(q[i]) \in Int /\ SegmentRank(r[i]) \in Int
          /\ (i \in DOMAIN p => SegmentRank(p[i]) \in Int)
      BY <1>2, <2>3, PathFields
    <3>2. CASE SegmentRank(q[i]) < SegmentRank(r[i])
      BY <1>2, <2>1, <3>2, Before DEF Decides
    <3>3. CASE ~ SegmentRank(q[i]) < SegmentRank(r[i])
      <4>1. i \in DOMAIN p => SegmentRank(p[i]) < SegmentRank(q[i])
        BY <1>1, <3>1, <3>3 DEF Decides
      <4> QED
        BY <2>1, <2>3, <4>1, Before DEF Decides
    <3> QED
      BY <3>2, <3>3
  <2> QED
    BY <2>2, <2>3
<1>4. CASE ~ \A j \in 1 .. i - 1 : j \in DOMAIN q /\ q[j] = r[j]
  <2>1. PICK m \in 1 .. i - 1 : Begins(q, r, m) /\ ~ (m \in DOMAIN q /\ q[m] = r[m])
    BY <1>2, <1>4, Parting
  <2>2. m \in DOMAIN r /\ m \in DOMAIN p /\ p[m] = r[m]
    BY <1>2
  <2>3. CASE m \notin DOMAIN q
    BY <2>1, <2>2, <2>3, Before DEF Decides
  <2>4. CASE m \in DOMAIN q
    <3>1. q[m] \in InSeq(Alphabet) /\ r[m] \in InSeq(Alphabet) /\ q[m] # r[m]
      BY <2>1, <2>2, <2>4, PathFields
    <3>2. SegmentRank(q[m]) < SegmentRank(r[m]) \/ SegmentRank(r[m]) < SegmentRank(q[m])
      BY <3>1, Ranks
    <3>3. Begins(p, q, m)
      <4>1. \A j \in 1 .. m - 1 : j \in 1 .. i - 1
        BY <1>2
      <4> QED
        BY <1>2, <2>1, <4>1 DEF Begins
    <3> QED
      BY <2>1, <2>2, <2>4, <3>2, <3>3, Before DEF Decides
  <2> QED
    BY <2>3, <2>4
<1> QED
  BY <1>3, <1>4

-----------------------------------------------------------------------------
(* The fields a report is sorted by.                                       *)
LEMMA FoundFields ==
  ASSUME NEW f \in Found
  PROVE  f.severity \in Int /\ f.path \in Paths /\ f.line \in Int /\ f.ruleID \in Int
BY DEF Found, FoundType, Severity

(* Of two findings one is shown first, at most.                            *)
LEMMA ShownAsymmetric ==
  ASSUME NEW a \in Found, NEW b \in Found, ShownBefore(a, b)
  PROVE  ~ ShownBefore(b, a)
<1>1. /\ a.severity \in Int /\ a.path \in Paths /\ a.line \in Int /\ a.ruleID \in Int
      /\ b.severity \in Int /\ b.path \in Paths /\ b.line \in Int /\ b.ruleID \in Int
  BY FoundFields
<1>2. ~ (PathBefore(a.path, b.path) /\ PathBefore(b.path, a.path))
  BY <1>1, PathAsymmetric
<1> QED
  BY <1>1, <1>2 DEF ShownBefore

(* Of two findings in order, no third is both after the second and before  *)
(* the first.                                                              *)
LEMMA ShownBetween ==
  ASSUME NEW a \in Found, NEW b \in Found, NEW c \in Found, ShownBefore(a, c)
  PROVE  ShownBefore(a, b) \/ ShownBefore(b, c)
<1>1. /\ a.severity \in Int /\ a.path \in Paths /\ a.line \in Int /\ a.ruleID \in Int
      /\ b.severity \in Int /\ b.path \in Paths /\ b.line \in Int /\ b.ruleID \in Int
      /\ c.severity \in Int /\ c.path \in Paths /\ c.line \in Int /\ c.ruleID \in Int
  BY FoundFields
<1>2. CASE a.severity # c.severity
  BY <1>1, <1>2 DEF ShownBefore
<1>3. CASE a.severity = c.severity /\ b.severity # a.severity
  BY <1>1, <1>3 DEF ShownBefore
<1>4. CASE a.severity = c.severity /\ b.severity = a.severity /\ a.path # c.path
  <2>1. PathBefore(a.path, c.path)
    BY <1>4 DEF ShownBefore
  <2>2. PathBefore(a.path, b.path) \/ PathBefore(b.path, c.path)
    BY <1>1, <2>1, PathBetween
  <2>3. ~ PathBefore(c.path, c.path) /\ ~ PathBefore(a.path, a.path)
    BY <1>1, PathAsymmetric
  <2> QED
    BY <1>4, <2>1, <2>2, <2>3 DEF ShownBefore
<1>5. CASE a.severity = c.severity /\ b.severity = a.severity /\ a.path = c.path /\ b.path # a.path
  <2>1. PathBefore(a.path, b.path) \/ PathBefore(b.path, a.path)
    BY <1>1, <1>5, PathTotal
  <2> QED
    BY <1>5, <2>1 DEF ShownBefore
<1>6. CASE a.severity = c.severity /\ b.severity = a.severity /\ a.path = c.path /\ b.path = a.path
  BY <1>1, <1>6 DEF ShownBefore
<1> QED
  BY <1>2, <1>3, <1>4, <1>5, <1>6

(* What is closed upward in 1 .. n is its upper end.                       *)
LEMMA UpperEnd ==
  ASSUME NEW n \in Nat, NEW A \in SUBSET (1 .. n),
         \A i \in A, j \in 1 .. n : i < j => j \in A
  PROVE  /\ n - Cardinality(A) \in 0 .. n
         /\ \A i \in 1 .. n : i \in A <=> n - Cardinality(A) < i
<1>1. CASE A = {}
  <2>1. Cardinality(A) = 0
    BY <1>1, FS_EmptySet
  <2> QED
    BY <1>1, <2>1
<1>2. CASE A # {}
  <2>1. A \in SUBSET Nat
    OBVIOUS
  <2>2. PICK m \in A : \A i \in A : m <= i
    BY <1>2, <2>1, LeastElement
  <2>4. m \in 1 .. n
    BY <2>2
  <2>7. ASSUME NEW j \in m .. n PROVE j \in A
    <3>1. j \in 1 .. n /\ (j = m \/ m < j)
      BY <2>4
    <3> QED
      BY <2>2, <3>1
  <2>3. A = m .. n
    <3>1. \A j \in A : j \in m .. n
      BY <2>2, <2>4
    <3> QED
      BY <2>7, <3>1
  <2>5. Cardinality(m .. n) = IF m > n THEN 0 ELSE n - m + 1
    BY <2>4, FS_Interval
  <2>6. Cardinality(A) = n - m + 1
    BY <2>3, <2>4, <2>5
  <2> QED
    BY <2>3, <2>4, <2>6
<1> QED
  BY <1>1, <1>2

(* f put into q after the n-th.                                            *)
Inserted(q, f, n) == SubSeq(q, 1, n) \o <<f>> \o SubSeq(q, n + 1, Len(q))

(* Putting f behind the n-th leaves the others in their order around it.   *)
LEMMA Insertion ==
  ASSUME NEW T, NEW q \in Seq(T), NEW f \in T, NEW n \in 0 .. Len(q)
  PROVE  LET t == Inserted(q, f, n) IN
         /\ t \in Seq(T)
         /\ DOMAIN t = 1 .. Len(q) + 1
         /\ \A i \in 1 .. n : t[i] = q[i]
         /\ t[n + 1] = f
         /\ \A i \in n + 2 .. Len(q) + 1 : t[i] = q[i - 1]
<1> DEFINE L == Len(q)
           a == SubSeq(q, 1, n)
           b == <<f>>
           c == SubSeq(q, n + 1, L)
           ab == a \o b
           t == ab \o c
<1>1. L \in Nat /\ DOMAIN q = 1 .. L /\ n \in Nat /\ n <= L /\ \A i \in 1 .. L : q[i] \in T
  OBVIOUS
<1>2. /\ a \in Seq(T) /\ Len(a) = n
      /\ \A i \in 1 .. n : a[i] = q[i]
  <2>1. \A i \in 1 .. n : q[i] \in T
    BY <1>1
  <2>2. /\ a \in Seq(T) /\ Len(a) = (IF 1 <= n THEN n - 1 + 1 ELSE 0)
        /\ \A i \in 1 .. n - 1 + 1 : a[i] = q[1 + i - 1]
    BY <1>1, <2>1, SubSeqProperties
  <2>3. n - 1 + 1 = n /\ \A i \in 1 .. n : 1 + i - 1 = i
    BY <1>1
  <2>4. Len(a) = n
    BY <1>1, <2>2, <2>3
  <2>5. ASSUME NEW i \in 1 .. n PROVE a[i] = q[i]
    <3>1. a[i] = q[1 + i - 1] /\ 1 + i - 1 = i
      BY <2>2, <2>3
    <3> QED
      BY <3>1
  <2> QED
    BY <2>2, <2>4, <2>5
<1>3. b \in Seq(T) /\ Len(b) = 1 /\ b[1] = f
  OBVIOUS
<1>4. /\ c \in Seq(T) /\ Len(c) = L - n
      /\ \A i \in 1 .. L - n : c[i] = q[n + i]
  <2>1. \A i \in n + 1 .. L : q[i] \in T
    BY <1>1
  <2>2. /\ c \in Seq(T) /\ Len(c) = (IF n + 1 <= L THEN L - (n + 1) + 1 ELSE 0)
        /\ \A i \in 1 .. L - (n + 1) + 1 : c[i] = q[n + 1 + i - 1]
    <3>1. n + 1 \in Int /\ L \in Int
      BY <1>1
    <3> HIDE DEF L
    <3> QED
      BY <2>1, <3>1, SubSeqProperties
  <2> HIDE DEF L, c
  <2>3. L - (n + 1) + 1 = L - n /\ \A i \in 1 .. L - n : n + 1 + i - 1 = n + i
    BY <1>1
  <2>4. Len(c) = L - n
    BY <1>1, <2>2, <2>3
  <2>5. ASSUME NEW i \in 1 .. L - n PROVE c[i] = q[n + i]
    <3>1. c[i] = q[n + 1 + i - 1] /\ n + 1 + i - 1 = n + i
      BY <2>2, <2>3
    <3> QED
      BY <3>1
  <2> QED
    BY <2>2, <2>4, <2>5
<1> HIDE DEF L, a, b, c
<1>5. /\ ab \in Seq(T) /\ Len(ab) = n + 1
      /\ \A i \in 1 .. n : ab[i] = q[i]
      /\ ab[n + 1] = f
  <2>1. /\ ab \in Seq(T) /\ Len(ab) = Len(a) + Len(b)
        /\ \A i \in 1 .. Len(a) + Len(b) :
             ab[i] = IF i <= Len(a) THEN a[i] ELSE b[i - Len(a)]
    BY <1>2, <1>3, ConcatProperties
  <2>2. Len(a) = n /\ Len(b) = 1 /\ b[1] = f
    BY <1>2, <1>3
  <2> HIDE DEF ab
  <2>3. \A i \in 1 .. n + 1 : ab[i] = IF i <= n THEN a[i] ELSE b[i - n]
    BY <2>1, <2>2
  <2>4. ASSUME NEW i \in 1 .. n PROVE ab[i] = q[i]
    BY <1>1, <1>2, <2>3
  <2>5. ab[n + 1] = f
    <3>1. n + 1 \in 1 .. n + 1 /\ ~ (n + 1 <= n) /\ (n + 1) - n = 1
      BY <1>1
    <3> QED
      BY <2>2, <2>3, <3>1
  <2> QED
    BY <2>1, <2>2, <2>4, <2>5
<1> HIDE DEF ab
<1>6. /\ t \in Seq(T) /\ Len(t) = L + 1
      /\ \A i \in 1 .. L + 1 : t[i] = IF i <= n + 1 THEN ab[i] ELSE c[i - (n + 1)]
  <2>1. /\ t \in Seq(T) /\ Len(t) = Len(ab) + Len(c)
        /\ \A i \in 1 .. Len(ab) + Len(c) :
             t[i] = IF i <= Len(ab) THEN ab[i] ELSE c[i - Len(ab)]
    BY <1>4, <1>5, ConcatProperties
  <2> HIDE DEF t
  <2>2. Len(ab) = n + 1 /\ Len(c) = L - n /\ Len(ab) + Len(c) = L + 1
    BY <1>1, <1>4, <1>5
  <2> QED
    BY <2>1, <2>2
<1>7. Inserted(q, f, n) = t
  BY DEF Inserted, L, a, b, c, ab
<1> HIDE DEF t
<1>8. DOMAIN t = 1 .. L + 1
  BY <1>6
<1>9. ASSUME NEW i \in 1 .. n PROVE t[i] = q[i]
  BY <1>1, <1>5, <1>6
<1>10. t[n + 1] = f
  BY <1>1, <1>5, <1>6
<1>11. ASSUME NEW i \in n + 2 .. L + 1 PROVE t[i] = q[i - 1]
  <2>1. /\ i \in 1 .. L + 1 /\ ~ (i <= n + 1) /\ i - (n + 1) \in 1 .. L - n
        /\ n + (i - (n + 1)) = i - 1
    BY <1>1
  <2>2. t[i] = c[i - (n + 1)]
    BY <1>6, <2>1
  <2> QED
    BY <1>4, <2>1, <2>2
<1> QED
  BY <1>6, <1>7, <1>8, <1>9, <1>10, <1>11 DEF L

(* A list in the order of a report.                                        *)
InOrder(q) == \A i, j \in DOMAIN q : i < j => ~ ShownBefore(q[j], q[i])

(* A finding put into its place.                                           *)
LEMMA PlacedRight ==
  ASSUME NEW q \in Seq(Found), InOrder(q), NEW f \in Found
  PROVE  LET t == Placed(q, f) IN
         /\ t \in Seq(Found) /\ InOrder(t) /\ InSeq(t) = InSeq(q) \cup {f}
         /\ Apart(q) /\ f.fingerprint \notin PrintsOf(InSeq(q)) => Apart(t)
<1> DEFINE L == Len(q)
           after == {i \in DOMAIN q : ShownBefore(f, q[i])}
           n == L - Cardinality(after)
           t == Placed(q, f)
<1>1. L \in Nat /\ DOMAIN q = 1 .. L /\ \A i \in 1 .. L : q[i] \in Found
  OBVIOUS
<1>2. n \in 0 .. L /\ \A i \in 1 .. L : ShownBefore(f, q[i]) <=> n < i
  <2>1. after \in SUBSET (1 .. L)
    BY <1>1
  <2>2. ASSUME NEW i \in after, NEW j \in 1 .. L, i < j
        PROVE  j \in after
    <3>1. ~ ShownBefore(q[j], q[i]) /\ ShownBefore(f, q[i])
      BY <1>1, <2>2 DEF InOrder
    <3>2. q[i] \in Found /\ q[j] \in Found
      BY <1>1
    <3>3. ShownBefore(f, q[j])
      BY <3>1, <3>2, ShownBetween
    <3> QED
      BY <1>1, <3>3
  <2>3. \A i \in 1 .. L : i \in after <=> ShownBefore(f, q[i])
    BY <1>1
  <2> HIDE DEF after, L
  <2> QED
    BY <1>1, <2>1, <2>2, <2>3, UpperEnd
<1>3. t = Inserted(q, f, n)
  BY DEF Placed, Inserted
<1> HIDE DEF n, t
<1>4. /\ t \in Seq(Found) /\ DOMAIN t = 1 .. L + 1
      /\ \A i \in 1 .. n : t[i] = q[i]
      /\ t[n + 1] = f
      /\ \A i \in n + 2 .. L + 1 : t[i] = q[i - 1]
  <2> DEFINE u == Inserted(q, f, n)
  <2>1. n \in 0 .. Len(q)
    BY <1>2
  <2>2. /\ u \in Seq(Found) /\ DOMAIN u = 1 .. Len(q) + 1
        /\ \A i \in 1 .. n : u[i] = q[i]
        /\ u[n + 1] = f
        /\ \A i \in n + 2 .. Len(q) + 1 : u[i] = q[i - 1]
    BY <2>1, Insertion
  <2> QED
    BY <1>3, <2>2
<1> HIDE DEF L
<1> DEFINE from(i) == IF i <= n THEN i ELSE i - 1
<1>5. ASSUME NEW i \in 1 .. L + 1, i # n + 1
      PROVE  from(i) \in 1 .. L /\ t[i] = q[from(i)]
  <2>1. CASE i <= n
    BY <1>1, <1>2, <1>4, <2>1
  <2>2. CASE ~ i <= n
    <3>1. i \in n + 2 .. L + 1 /\ i - 1 \in 1 .. L
      BY <1>1, <1>2, <1>5, <2>2
    <3> QED
      BY <1>4, <2>2, <3>1
  <2> QED
    BY <2>1, <2>2
<1>6. InOrder(t)
  <2> SUFFICES ASSUME NEW i \in 1 .. L + 1, NEW j \in 1 .. L + 1, i < j
               PROVE  ~ ShownBefore(t[j], t[i])
    BY <1>4 DEF InOrder
  <2>1. CASE i # n + 1 /\ j # n + 1
    <3>1. from(i) < from(j)
      BY <1>1, <1>2, <2>1
    <3> QED
      BY <1>1, <1>5, <2>1, <3>1 DEF InOrder
  <2>2. CASE i = n + 1
    <3>1. from(j) \in 1 .. L /\ t[j] = q[from(j)] /\ n < from(j)
      BY <1>1, <1>2, <1>5, <2>2
    <3>2. ShownBefore(f, q[from(j)])
      BY <1>2, <3>1
    <3> QED
      BY <1>1, <1>4, <2>2, <3>1, <3>2, ShownAsymmetric
  <2>3. CASE j = n + 1
    <3>1. from(i) \in 1 .. L /\ t[i] = q[from(i)] /\ ~ n < from(i)
      BY <1>1, <1>2, <1>5, <2>3
    <3> QED
      BY <1>2, <1>4, <2>3, <3>1
  <2> QED
    BY <2>1, <2>2, <2>3
<1>7. InSeq(t) = InSeq(q) \cup {f}
  <2>1. ASSUME NEW x \in InSeq(t) PROVE x \in InSeq(q) \cup {f}
    <3>1. PICK i \in 1 .. L + 1 : x = t[i]
      BY <1>4 DEF InSeq
    <3> QED
      BY <1>1, <1>4, <1>5, <3>1 DEF InSeq
  <2>2. ASSUME NEW x \in InSeq(q) PROVE x \in InSeq(t)
    <3>1. PICK i \in 1 .. L : x = q[i]
      BY <1>1 DEF InSeq
    <3>2. CASE i <= n
      <4>1. i \in DOMAIN t /\ t[i] = q[i]
        BY <1>1, <1>2, <1>4, <3>2
      <4> QED
        BY <3>1, <4>1 DEF InSeq
    <3>3. CASE ~ i <= n
      <4>1. i + 1 \in n + 2 .. L + 1 /\ (i + 1) - 1 = i /\ i + 1 \in DOMAIN t
        BY <1>1, <1>2, <1>4, <3>3
      <4>2. t[i + 1] = q[i]
        BY <1>4, <4>1
      <4> QED
        BY <3>1, <4>1, <4>2 DEF InSeq
    <3> QED
      BY <3>2, <3>3
  <2>3. f \in InSeq(t)
    <3>1. n + 1 \in DOMAIN t
      BY <1>1, <1>2, <1>4
    <3> QED
      BY <1>4, <3>1 DEF InSeq
  <2> QED
    BY <2>1, <2>2, <2>3
<1>8. ASSUME Apart(q), f.fingerprint \notin PrintsOf(InSeq(q))
      PROVE  Apart(t)
  <2> SUFFICES ASSUME NEW i \in 1 .. L + 1, NEW j \in 1 .. L + 1,
                      t[i].fingerprint = t[j].fingerprint
               PROVE  i = j
    BY <1>4 DEF Apart
  <2>1. \A k \in 1 .. L : q[k].fingerprint # f.fingerprint
    BY <1>1, <1>8 DEF PrintsOf, InSeq
  <2>2. CASE i # n + 1 /\ j # n + 1
    <3>1. from(i) = from(j)
      BY <1>1, <1>5, <1>8, <2>2 DEF Apart
    <3> QED
      BY <1>1, <1>2, <2>2, <3>1
  <2>3. CASE i = n + 1 /\ j # n + 1
    BY <1>4, <1>5, <2>1, <2>3
  <2>4. CASE i # n + 1 /\ j = n + 1
    BY <1>4, <1>5, <2>1, <2>4
  <2> QED
    BY <2>2, <2>3, <2>4
<1> QED
  BY <1>4, <1>6, <1>7, <1>8 DEF t

(* The list q has the findings H once each, in order.                      *)
Sorts(q, H) == q \in Seq(Found) /\ Apart(q) /\ InOrder(q) /\ InSeq(q) = H

(* Sorting keeps what there is, and puts it in order.                      *)
LEMMA Sorting ==
  ASSUME NEW findings \in Seq(Found), Apart(findings)
  PROVE  Sorts(Sorted(findings), InSeq(findings))
<1> DEFINE n == Len(findings)
           V == Seq(Found)
           next(F) == [k \in 0 .. n |->
                         IF k = 0 THEN <<>>
                         ELSE Only({Placed(q, f) : q \in {F[k - 1]}, f \in {findings[k]}})]
           G == CHOOSE F : F = next(F)
           then(q, k) == Placed(q, findings[k])
           step == [x \in V \X (1 .. n) |->
                      IF then(x[1], x[2]) \in V THEN then(x[1], x[2]) ELSE <<>>]
           base == <<>>
<1>1. n \in Nat /\ DOMAIN findings = 1 .. n /\ \A k \in 1 .. n : findings[k] \in Found
  OBVIOUS
<1>2. Sorted(findings) = G[n]
  BY DEF Sorted
<1>3. base \in V
  OBVIOUS
<1>4. \A F : next(F) = [k \in 0 .. n |-> IF k = 0 THEN base ELSE then(F[k - 1], k)]
  <2>1. ASSUME NEW p, NEW g PROVE Only({Placed(q, f) : q \in {p}, f \in {g}}) = Placed(p, g)
    <3> DEFINE X == {Placed(q, f) : q \in {p}, f \in {g}}
    <3>1. X = {Placed(p, g)}
      OBVIOUS
    <3> HIDE DEF X
    <3>2. Only(X) = Placed(p, g)
      BY <3>1, OnlyOne
    <3> QED
      BY <3>2 DEF X
  <2> QED
    BY <2>1
<1> HIDE DEF n, V, then, base, next
<1>5. step \in Steps(n, V)
  BY <1>3 DEF Steps, base
<1>6. PICK H : Loop(n, V, base, step, H)
  <2> HIDE DEF step
  <2> QED
    BY <1>1, <1>3, <1>5, Looped
<1>7. H \in [0 .. n -> V] /\ H[0] = base /\ \A k \in 1 .. n : H[k] = step[<<H[k - 1], k>>]
  BY <1>6 DEF Loop
<1> DEFINE S == {k \in 0 .. n : /\ Sorts(H[k], UpTo(findings, k))
                                /\ k # 0 => H[k] = then(H[k - 1], k)}
<1>8. 0 \in S
  <2>1. UpTo(findings, 0) = {} /\ InSeq(<<>>) = {}
    BY DEF UpTo, InSeq
  <2>2. Sorts(<<>>, {})
    BY <2>1 DEF Sorts, Apart, InOrder
  <2> QED
    BY <1>1, <1>7, <2>1, <2>2 DEF base
<1>9. ASSUME NEW k \in 0 .. n - 1, k \in S
      PROVE  k + 1 \in S
  <2>1. /\ k \in Nat /\ k \in 0 .. n /\ k + 1 \in 1 .. n /\ (k + 1) - 1 = k /\ k + 1 \in 0 .. n
    BY <1>1
  <2>2. H[k] \in V /\ H[k + 1] = step[<<H[k], k + 1>>] /\ Sorts(H[k], UpTo(findings, k))
    BY <1>7, <1>9, <2>1
  <2>3. findings[k + 1] \in Found /\ UpTo(findings, k) \in SUBSET Found
    BY <1>1, <2>1 DEF UpTo
  <2>4. Sorts(then(H[k], k + 1), UpTo(findings, k + 1))
    <3>1. UpTo(findings, k + 1) = UpTo(findings, k) \cup {findings[k + 1]}
      BY <2>1, OneMore
    <3>2. findings[k + 1].fingerprint \notin PrintsOf(UpTo(findings, k))
      <4>1. \A i \in 1 .. k : i \in 1 .. n /\ i # k + 1
        BY <1>1, <2>1
      <4> QED
        BY <1>1, <2>1, <4>1 DEF Apart, PrintsOf, UpTo
    <3> QED
      BY <2>2, <2>3, <3>1, <3>2, PlacedRight DEF then, Sorts
  <2>5. then(H[k], k + 1) \in V
    BY <2>4 DEF Sorts, V
  <2>6. H[k + 1] = then(H[k], k + 1)
    BY <2>1, <2>2, <2>5
  <2> QED
    BY <2>1, <2>4, <2>6
<1> HIDE DEF S, step
<1>10. \A k \in 0 .. n : k \in S
  BY <1>1, <1>8, <1>9, Induction
<1>11. H = next(H)
  <2>1. \A k \in 0 .. n : H[k] = IF k = 0 THEN base ELSE then(H[k - 1], k)
    BY <1>7, <1>10 DEF S
  <2> QED
    BY <1>4, <1>7, <2>1
<1>12. G = next(G)
  BY <1>11
<1> HIDE DEF G
<1> DEFINE E == {k \in 0 .. n : G[k] = H[k]}
<1>13. \A k \in 0 .. n : k \in E
  <2>0. \A k \in 0 .. n : G[k] = IF k = 0 THEN base ELSE then(G[k - 1], k)
    BY <1>4, <1>12
  <2>1. 0 \in E
    BY <1>1, <1>7, <2>0
  <2>2. ASSUME NEW k \in 0 .. n - 1, k \in E
        PROVE  k + 1 \in E
    <3>1. k + 1 \in 0 .. n /\ (k + 1) - 1 = k /\ k + 1 # 0
      BY <1>1
    <3>2. G[k + 1] = then(G[k], k + 1) /\ H[k + 1] = then(H[k], k + 1) /\ G[k] = H[k]
      BY <1>10, <2>0, <2>2, <3>1 DEF S
    <3> QED
      BY <3>1, <3>2
  <2> HIDE DEF E
  <2> QED
    BY <1>1, <2>1, <2>2, Induction
<1>14. G[n] = H[n] /\ Sorts(H[n], UpTo(findings, n))
  BY <1>1, <1>10, <1>13 DEF S
<1>15. UpTo(findings, n) = InSeq(findings)
  BY <1>1 DEF UpTo, InSeq
<1> QED
  BY <1>2, <1>14, <1>15

(* What a report is, of the findings of the tools: each fingerprint once,  *)
(* merged from all that have it, the greater severity first.               *)
Reports(shown, H) ==
  /\ shown \in Seq(Found)
  /\ \A i, j \in DOMAIN shown :
       i < j => /\ shown[i].fingerprint # shown[j].fingerprint
                /\ shown[i].severity >= shown[j].severity
  /\ PrintsOf(InSeq(shown)) = PrintsOf(H)
  /\ \A g \in InSeq(shown) : MergedOf(g, Like(H, g))

(* The findings in all the slots.                                          *)
All(results) == UNION {InSeq(results[i]) : i \in DOMAIN results}

(* Findings makes a report of the slots of the tools.                      *)
LEMMA Reporting ==
  ASSUME NEW results \in Seq(Seq(Found))
  PROVE  Reports(Findings(results), All(results))
<1> DEFINE flat == FlattenSeq(results)
           merged == Dedup(flat)
           shown == Sorted(merged)
<1>1. flat \in Seq(Found) /\ InSeq(flat) = All(results)
  BY Flattened DEF All
<1> HIDE DEF flat
<1>2. Merges(merged, All(results))
  BY <1>1, Dedups
<1>3. Sorts(shown, InSeq(merged))
  BY <1>2, Sorting DEF Merges
<1>4. Findings(results) = shown
  BY DEF Findings, flat
<1> HIDE DEF merged, shown
<1>5. /\ shown \in Seq(Found) /\ PrintsOf(InSeq(shown)) = PrintsOf(All(results))
      /\ \A g \in InSeq(shown) : MergedOf(g, Like(All(results), g))
  BY <1>2, <1>3 DEF Merges, Sorts
<1>6. ASSUME NEW i \in DOMAIN shown, NEW j \in DOMAIN shown, i < j
      PROVE  /\ shown[i].fingerprint # shown[j].fingerprint
             /\ shown[i].severity >= shown[j].severity
  <2>1. DOMAIN shown \subseteq Int /\ shown[i] \in Found /\ shown[j] \in Found
    BY <1>5
  <2>2. i # j
    BY <1>6, <2>1
  <2>3. shown[i].fingerprint # shown[j].fingerprint
    BY <1>3, <2>2 DEF Sorts, Apart
  <2>4. ~ ShownBefore(shown[j], shown[i])
    BY <1>3, <1>6 DEF Sorts, InOrder
  <2>5. shown[i].severity \in Int /\ shown[j].severity \in Int
    BY <2>1, FoundFields
  <2>6. shown[i].severity >= shown[j].severity
    BY <2>4, <2>5 DEF ShownBefore
  <2> QED
    BY <2>3, <2>6
<1> QED
  BY <1>4, <1>5, <1>6 DEF Reports

-----------------------------------------------------------------------------
(* What the adapters make of records.                                      *)

(* A finding before it has its fingerprint.                                *)
Bare ==
  [fingerprint : {Unnamed}, scanner : Tools, scanners : SUBSET Tools, ruleID : Nat,
   aliases : SUBSET Nat, category : Categories, severity : Severity, path : Paths,
   line : Int, snippet : Snippets, package : Packages, fixedIn : Text]

(* What a record may hold.                                                 *)
LEMMA RecordFields ==
  ASSUME NEW s, NEW r, RecordOf(s, r)
  PROVE  /\ r.rule \in Nat /\ r.aliases \in SUBSET Nat /\ r.category \in Kinds(s)
         /\ r.path \in Paths /\ r.path # <<>> /\ r.path[1] \notin {"/", ".."}
         /\ r.line \in Int /\ r.fixedIn \in Text
         /\ r.snippet \in Snippets /\ r.package \in Packages
BY DEF RecordOf, Text, Snippets, Packages

(* What all adapters begin with has the record's category and path.        *)
LEMMA Fields ==
  ASSUME NEW s \in Tools, NEW r, RecordOf(s, r)
  PROVE  LET f == Finding(s, r) IN
         /\ f \in Bare
         /\ f.scanner = s /\ f.category = r.category /\ f.path = r.path
<1>1. r.category \in Categories
  BY RecordFields DEF Kinds, Tools, Categories
<1>2. {} \in SUBSET Tools /\ {} \in SUBSET Nat /\ 0 \in Severity /\ 0 \in Int /\ "" \in Text
  BY DEF Severity, Text
<1>3. NoSnippet \in Snippets /\ NoPackage \in Packages
  BY DEF NoSnippet, Snippets, NoPackage, Packages, Text
<1>4. r.rule \in Nat /\ r.path \in Paths
  BY RecordFields
<1> QED
  BY <1>1, <1>2, <1>3, <1>4 DEF Finding, Bare

(* Whatever a tool's grade, there is a severity for it.                    *)
LEMMA Severities ==
  \A x, v : /\ TrivySeverity(x) \in Severity /\ OSVSeverity(x) \in Severity
            /\ OpengrepSeverity(x) \in Severity /\ TruffleHogSeverity(x, v) \in Severity
<1> SUFFICES ASSUME NEW x, NEW v
             PROVE  /\ TrivySeverity(x) \in Severity /\ OSVSeverity(x) \in Severity
                    /\ OpengrepSeverity(x) \in Severity /\ TruffleHogSeverity(x, v) \in Severity
  OBVIOUS
<1>1. TrivySeverity(x) \in Severity
  BY DEF TrivySeverity, Severity
<1>2. OSVSeverity(x) \in Severity
  BY DEF OSVSeverity, Severity
<1>3. OpengrepSeverity(x) \in Severity
  BY DEF OpengrepSeverity, Severity
<1>4. TruffleHogSeverity(x, v) \in Severity
  BY DEF TruffleHogSeverity, Severity
<1> QED
  BY <1>1, <1>2, <1>3, <1>4

(* What a tool makes of one of its records, but for the fingerprint.       *)
FindingBy(s, root, verify, r) ==
  CASE s = "trivy" -> TrivyFinding(r)
    [] s = "osv" -> OSVFinding(root, r)
    [] s = "opengrep" -> OpengrepFinding(root, r)
    [] s = "trufflehog" -> TruffleHogFinding(root, verify, r)

(* The finding is at the record's path, below the root or relative to it.  *)
PlacedIn(root, f, r) == f.path = r.path \/ f.path = root \o r.path

(* The finding says what the record does.                                  *)
Tells(s, root, r, f) ==
  /\ f.scanner = s /\ f.category = r.category /\ PlacedIn(root, f, r)
  /\ r.category = "vulnerability" => f.package = r.package

(* What a relative path is made of.                                        *)
LEMMA RootPaths ==
  ASSUME NEW p \in Paths, NEW root \in Paths
  PROVE  RelativePath(root, p) \in Paths /\ RelativePath(root, p) \in {p, root \o p}
<1>1. root \o p \in Paths
  BY ConcatProperties DEF Paths
<1> QED
  BY <1>1 DEF RelativePath

(* Each of the four adapters tells what the record says.                   *)
LEMMA TrivyTells ==
  ASSUME NEW r, RecordOf("trivy", r), NEW root \in Paths
  PROVE  TrivyFinding(r) \in Bare /\ Tells("trivy", root, r, TrivyFinding(r))
<1> DEFINE e == Finding("trivy", r)
           v == TrivySeverity(r.grade)
           f == [e EXCEPT !.severity = v]
           g == TrivyFinding(r)
           unversioned == [r.package EXCEPT !.version = ""]
<1>1. e \in Bare /\ e.scanner = "trivy" /\ e.category = r.category /\ e.path = r.path
  BY Fields DEF Tools
<1>2. v \in Severity
  BY Severities
<1>3. /\ r.line \in Int /\ r.snippet \in Snippets
      /\ r.package \in Packages /\ r.fixedIn \in Text
  BY RecordFields
<1>4. unversioned \in Packages
  BY <1>3 DEF Packages, Text
<1>5. g = CASE r.category = "vulnerability" ->
                 [f EXCEPT !.package = r.package, !.fixedIn = r.fixedIn]
            [] r.category = "license" -> [f EXCEPT !.package = unversioned]
            [] OTHER -> [f EXCEPT !.line = r.line, !.snippet = r.snippet]
  BY DEF TrivyFinding
<1> HIDE DEF e, v, g, unversioned
<1>6. f \in Bare /\ f.scanner = "trivy" /\ f.category = r.category /\ f.path = r.path
  BY <1>1, <1>2 DEF Bare
<1> HIDE DEF f
<1>7. CASE r.category = "vulnerability"
  <2>1. g = [f EXCEPT !.package = r.package, !.fixedIn = r.fixedIn]
    BY <1>5, <1>7
  <2>2. /\ g \in Bare /\ g.scanner = "trivy" /\ g.category = r.category /\ g.path = r.path
        /\ g.package = r.package
    BY <1>3, <1>6, <2>1 DEF Bare
  <2> QED
    BY <2>2 DEF Tells, PlacedIn, g
<1>8. CASE r.category = "license"
  <2>1. g = [f EXCEPT !.package = unversioned]
    BY <1>5, <1>8
  <2>2. g \in Bare /\ g.scanner = "trivy" /\ g.category = r.category /\ g.path = r.path
    BY <1>4, <1>6, <2>1 DEF Bare
  <2> QED
    BY <1>8, <2>2 DEF Tells, PlacedIn, g
<1>9. CASE r.category \notin {"vulnerability", "license"}
  <2>1. g = [f EXCEPT !.line = r.line, !.snippet = r.snippet]
    BY <1>5, <1>9
  <2>2. g \in Bare /\ g.scanner = "trivy" /\ g.category = r.category /\ g.path = r.path
    BY <1>3, <1>6, <2>1 DEF Bare
  <2> QED
    BY <1>9, <2>2 DEF Tells, PlacedIn, g
<1> QED
  BY <1>7, <1>8, <1>9

LEMMA OSVTells ==
  ASSUME NEW r, RecordOf("osv", r), NEW root \in Paths
  PROVE  OSVFinding(root, r) \in Bare /\ Tells("osv", root, r, OSVFinding(root, r))
<1> DEFINE e == Finding("osv", r)
           v == OSVSeverity(r.grade)
           p == RelativePath(root, r.path)
           g == OSVFinding(root, r)
<1>1. e \in Bare /\ e.scanner = "osv" /\ e.category = r.category
  BY Fields DEF Tools
<1>2. v \in Severity
  BY Severities
<1>3. /\ r.aliases \in SUBSET Nat /\ r.package \in Packages /\ r.fixedIn \in Text
      /\ r.path \in Paths
  BY RecordFields
<1>4. p \in Paths /\ p \in {r.path, root \o r.path}
  BY <1>3, RootPaths
<1>5. g = [e EXCEPT !.aliases = r.aliases, !.severity = v, !.path = p,
                    !.package = r.package, !.fixedIn = r.fixedIn]
  BY DEF OSVFinding
<1> HIDE DEF e, v, p, g
<1>6. /\ g \in Bare /\ g.scanner = "osv" /\ g.category = r.category /\ g.path = p
      /\ g.package = r.package
  BY <1>1, <1>2, <1>3, <1>4, <1>5 DEF Bare
<1> QED
  BY <1>4, <1>6 DEF Tells, PlacedIn, g

LEMMA OpengrepTells ==
  ASSUME NEW r, RecordOf("opengrep", r), NEW root \in Paths
  PROVE  /\ OpengrepFinding(root, r) \in Bare
         /\ Tells("opengrep", root, r, OpengrepFinding(root, r))
<1> DEFINE e == Finding("opengrep", r)
           v == OpengrepSeverity(r.grade)
           p == RelativePath(root, r.path)
           g == OpengrepFinding(root, r)
<1>1. e \in Bare /\ e.scanner = "opengrep" /\ e.category = r.category
  BY Fields DEF Tools
<1>2. v \in Severity
  BY Severities
<1>3. r.line \in Int /\ r.snippet \in Snippets /\ r.path \in Paths
      /\ r.category # "vulnerability"
  BY RecordFields DEF Kinds
<1>4. p \in Paths /\ p \in {r.path, root \o r.path}
  BY <1>3, RootPaths
<1>5. g = [e EXCEPT !.severity = v, !.path = p, !.line = r.line, !.snippet = r.snippet]
  BY DEF OpengrepFinding
<1> HIDE DEF e, v, p, g
<1>6. g \in Bare /\ g.scanner = "opengrep" /\ g.category = r.category /\ g.path = p
  BY <1>1, <1>2, <1>3, <1>4, <1>5 DEF Bare
<1> QED
  BY <1>3, <1>4, <1>6 DEF Tells, PlacedIn, g

LEMMA TruffleHogTells ==
  ASSUME NEW r, RecordOf("trufflehog", r), NEW root \in Paths, NEW verify
  PROVE  /\ TruffleHogFinding(root, verify, r) \in Bare
         /\ Tells("trufflehog", root, r, TruffleHogFinding(root, verify, r))
<1> DEFINE e == Finding("trufflehog", r)
           v == TruffleHogSeverity(r.grade, verify)
           p == Relative(root, r.path)
           x == [tokens |-> r.snippet.tokens, layout |-> ""]
           g == TruffleHogFinding(root, verify, r)
<1>1. e \in Bare /\ e.scanner = "trufflehog" /\ e.category = r.category
  BY Fields DEF Tools
<1>2. v \in Severity
  BY Severities
<1>3. r.line \in Int /\ r.snippet \in Snippets /\ r.path \in Paths
      /\ r.category # "vulnerability"
  BY RecordFields DEF Kinds
<1>4. p = r.path /\ x \in Snippets
  BY <1>3 DEF Relative, Snippets, Text
<1>5. g = [e EXCEPT !.severity = v, !.path = p, !.line = r.line, !.snippet = x]
  BY DEF TruffleHogFinding
<1> HIDE DEF e, v, p, x, g
<1>6. g \in Bare /\ g.scanner = "trufflehog" /\ g.category = r.category /\ g.path = p
  BY <1>1, <1>2, <1>3, <1>4, <1>5 DEF Bare
<1> QED
  BY <1>3, <1>4, <1>6 DEF Tells, PlacedIn, g

(* What an adapter makes of a record is a finding with an identity.        *)
LEMMA Converted ==
  ASSUME NEW s \in Tools, NEW r, RecordOf(s, r), NEW root \in Paths, NEW verify
  PROVE  /\ FindingOf(s, root, verify, r) \in Found
         /\ Tells(s, root, r, FindingOf(s, root, verify, r))
<1> DEFINE f == FindingBy(s, root, verify, r)
           p == Fingerprint(f)
           g == [f EXCEPT !.fingerprint = p]
<1>1. f \in Bare /\ Tells(s, root, r, f)
  <2>1. CASE s = "trivy"
    BY <2>1, TrivyTells DEF FindingBy
  <2>2. CASE s = "osv"
    BY <2>2, OSVTells DEF FindingBy
  <2>3. CASE s = "opengrep"
    BY <2>3, OpengrepTells DEF FindingBy
  <2>4. CASE s = "trufflehog"
    BY <2>4, TruffleHogTells DEF FindingBy
  <2> QED
    BY <2>1, <2>2, <2>3, <2>4 DEF Tools
<1>2. FindingOf(s, root, verify, r) = g
  BY DEF FindingOf, FindingBy
<1> HIDE DEF f
<1>3. p \in Prints
  <2> DEFINE b == [category |-> f.category, ruleID |-> f.ruleID, aliases |-> f.aliases,
                   path |-> f.path, snippet |-> f.snippet, package |-> f.package]
  <2>1. b \in Identified
    BY <1>1 DEF Bare, Identified
  <2>2. Fingerprint(b) = p
    BY DEF Fingerprint, DependencyIdentity, LocationIdentity
  <2> HIDE DEF b, p
  <2> QED
    BY <2>1, <2>2 DEF Prints
<1> HIDE DEF p
<1>4. /\ g \in FoundType /\ g.fingerprint = p /\ g.scanner = f.scanner
      /\ g.category = f.category /\ g.ruleID = f.ruleID /\ g.aliases = f.aliases
      /\ g.path = f.path /\ g.snippet = f.snippet /\ g.package = f.package
  BY <1>1, <1>3 DEF Bare, FoundType
<1> HIDE DEF g
<1>5. Fingerprint(g) = p
  BY <1>4 DEF Fingerprint, DependencyIdentity, LocationIdentity, p
<1>6. g \in Found
  BY <1>4, <1>5 DEF Found
<1>7. Tells(s, root, r, g)
  BY <1>1, <1>4 DEF Tells, PlacedIn
<1> QED
  BY <1>2, <1>6, <1>7

-----------------------------------------------------------------------------
(* What the tools told, and what becomes of it.                            *)

(* The records a tool may have written of this tree.                       *)
RecordsBy(s) == InSeq(setup.reports[s])

(* What a scan may be told: lists of such records.                         *)
MayTell(by) ==
  /\ DOMAIN by \subseteq Tools
  /\ \A s \in DOMAIN by : by[s] \in Seq(RecordsBy(s))

(* What the tools told that is not excluded, as a set.                     *)
WorthOf(s, output) ==
  {f \in {FindingOf(s, setup.root, setup.verify, r) :
            r \in {q \in InSeq(output) : Actionable(s, q)}} :
     ~ Match(Excluded[case], f.path)}

(* And that by all the tools.                                              *)
AllTold(by) == UNION {WorthOf(s, by[s]) : s \in DOMAIN by}

(* What CasesAssumption says of the tree at hand.                          *)
LEMMA CaseFields ==
  ASSUME case \in DOMAIN Cases
  PROVE  /\ setup.root \in Paths /\ setup.root # <<>> /\ setup.root[1] = "/"
         /\ setup.min \in Int /\ setup.failOn \in Int
         /\ \A s \in Tools :
              /\ setup.reports[s] \in Seq(RecordsBy(s))
              /\ \A r \in RecordsBy(s) : RecordOf(s, r)
BY CasesAssumption DEF setup, RecordsBy

(* Conversion and the exclusions, in a list, leave what they leave in the  *)
(* set.                                                                    *)
LEMMA ReturnedFindings ==
  ASSUME case \in DOMAIN Cases, NEW s \in Tools, NEW output \in Seq(RecordsBy(s))
  PROVE  /\ Returned(s, output) \in Seq(Found)
         /\ InSeq(Returned(s, output)) = WorthOf(s, output)
<1> DEFINE of(r) == FindingOf(s, setup.root, setup.verify, r)
           all == [i \in DOMAIN output |-> of(output[i])]
           fit == {i \in DOMAIN output : Actionable(s, output[i])}
           found == Picked(all, fit)
           kept == {i \in DOMAIN found : ~ Match(Excluded[case], found[i].path)}
<1>1. \A r \in RecordsBy(s) : of(r) \in Found
  <2> SUFFICES ASSUME NEW r \in RecordsBy(s) PROVE of(r) \in Found
    OBVIOUS
  <2>1. RecordOf(s, r) /\ setup.root \in Paths
    BY CaseFields
  <2> QED
    BY <2>1, Converted
<1> HIDE DEF of
<1>2. /\ Len(output) \in Nat /\ DOMAIN output = 1 .. Len(output)
      /\ \A i \in DOMAIN output : output[i] \in RecordsBy(s)
  OBVIOUS
<1>3. all \in Seq(Found) /\ DOMAIN all = DOMAIN output
  <2>1. all = [i \in 1 .. Len(output) |-> of(output[i])]
    BY <1>2
  <2>2. \A i \in 1 .. Len(output) : of(output[i]) \in Found
    BY <1>1, <1>2
  <2> DEFINE n == Len(output)
  <2> HIDE DEF n
  <2>3. n \in Nat /\ all = [i \in 1 .. n |-> of(output[i])]
        /\ \A i \in 1 .. n : of(output[i]) \in Found
    BY <1>2, <2>1, <2>2 DEF n
  <2> HIDE DEF all
  <2>4. all \in Seq(Found)
    BY <2>3
  <2>5. DOMAIN all = 1 .. n
    BY <2>3
  <2> QED
    BY <1>2, <2>4, <2>5 DEF n
<1>4. found \in Seq(Found) /\ InSeq(found) = {all[i] : i \in fit \cap DOMAIN all}
  <2> HIDE DEF all, fit
  <2> QED
    BY <1>3, PickedSet
<1>5. InSeq(found) = {of(r) : r \in {q \in InSeq(output) : Actionable(s, q)}}
  <2>1. \A i \in fit : i \in DOMAIN all /\ all[i] = of(output[i])
    BY <1>3
  <2> HIDE DEF all
  <2>2. {all[i] : i \in fit \cap DOMAIN all} = {of(output[i]) : i \in fit}
    BY <2>1
  <2>3. {of(output[i]) : i \in fit} = {of(r) : r \in {q \in InSeq(output) : Actionable(s, q)}}
    BY DEF InSeq
  <2> QED
    BY <1>4, <2>2, <2>3
<1>6. Returned(s, output) = Picked(found, kept)
  BY DEF Returned, Filter, Convert, of
<1> HIDE DEF found, all, fit
<1>7. /\ Picked(found, kept) \in Seq(Found)
      /\ InSeq(Picked(found, kept)) = {found[i] : i \in kept \cap DOMAIN found}
  <2> HIDE DEF kept
  <2> QED
    BY <1>4, PickedSet
<1>8. {found[i] : i \in kept \cap DOMAIN found} =
        {f \in InSeq(found) : ~ Match(Excluded[case], f.path)}
  BY DEF InSeq
<1>9. {f \in InSeq(found) : ~ Match(Excluded[case], f.path)} = WorthOf(s, output)
  BY <1>5 DEF WorthOf, of
<1> QED
  BY <1>6, <1>7, <1>8, <1>9

(* The slots of the tools that worked.                                     *)
SlotsOf(by) == Slots([s \in Tools |-> ResultOf(s, by)], DOMAIN by)

(* The slots of the tools that worked have what was told and nothing else. *)
LEMMA SlotsFindings ==
  ASSUME case \in DOMAIN Cases, NEW by, MayTell(by)
  PROVE  SlotsOf(by) \in Seq(Seq(Found)) /\ All(SlotsOf(by)) = AllTold(by)
<1> DEFINE results == [s \in Tools |-> ResultOf(s, by)]
           n == Len(Registry)
           slots == [i \in DOMAIN Registry |-> results[Registry[i]]]
           worked == {i \in DOMAIN Registry : Registry[i] \in DOMAIN by}
<1>1. ASSUME NEW s \in Tools
      PROVE  /\ ResultOf(s, by) \in Seq(Found)
             /\ s \in DOMAIN by => InSeq(ResultOf(s, by)) = WorthOf(s, by[s])
  <2>1. CASE s \in DOMAIN by
    <3>1. by[s] \in Seq(RecordsBy(s)) /\ ResultOf(s, by) = Returned(s, by[s])
      BY <2>1 DEF MayTell, ResultOf
    <3> QED
      BY <3>1, ReturnedFindings
  <2>2. CASE s \notin DOMAIN by
    BY <2>2 DEF ResultOf
  <2> QED
    BY <2>1, <2>2
<1>2. n \in Nat /\ DOMAIN Registry = 1 .. n /\ \A i \in 1 .. n : Registry[i] \in Tools
  BY RegistryAssumption
<1>3. \A s \in Tools : results[s] = ResultOf(s, by)
  OBVIOUS
<1> HIDE DEF results, n
<1>4. slots \in Seq(Seq(Found)) /\ DOMAIN slots = DOMAIN Registry
  <2>1. slots = [i \in 1 .. n |-> results[Registry[i]]]
    BY <1>2
  <2>2. \A i \in 1 .. n : results[Registry[i]] \in Seq(Found)
    BY <1>1, <1>2, <1>3
  <2> DEFINE V == Seq(Found)
  <2>3. \A i \in 1 .. n : results[Registry[i]] \in V
    BY <2>2
  <2> HIDE DEF slots, V
  <2>4. slots \in Seq(V)
    BY <1>2, <2>1, <2>3
  <2>5. DOMAIN slots = 1 .. n
    BY <2>1
  <2> QED
    BY <1>2, <2>4, <2>5 DEF V
<1>5. \A i \in DOMAIN Registry : slots[i] = results[Registry[i]]
  OBVIOUS
<1>6. SlotsOf(by) = Picked(slots, worked)
  BY DEF SlotsOf, Slots, results
<1> HIDE DEF slots
<1>7. /\ Picked(slots, worked) \in Seq(Seq(Found))
      /\ InSeq(Picked(slots, worked)) = {slots[i] : i \in worked \cap DOMAIN slots}
  <2> DEFINE V == Seq(Found)
  <2>1. slots \in Seq(V)
    BY <1>4
  <2> HIDE DEF worked, V
  <2>2. /\ Picked(slots, worked) \in Seq(V)
        /\ InSeq(Picked(slots, worked)) = {slots[i] : i \in worked \cap DOMAIN slots}
    BY <2>1, PickedSet
  <2> QED
    BY <2>2 DEF V
<1>8. {slots[i] : i \in worked \cap DOMAIN slots} = {ResultOf(s, by) : s \in DOMAIN by}
  <2>1. \A i \in worked : i \in DOMAIN slots /\ slots[i] = ResultOf(Registry[i], by)
                          /\ Registry[i] \in DOMAIN by
    BY <1>2, <1>3, <1>4, <1>5
  <2>2. \A s \in DOMAIN by : \E i \in worked : Registry[i] = s
    BY RegistryAssumption DEF MayTell, InSeq
  <2> HIDE DEF worked
  <2> QED
    BY <2>1, <2>2
<1>9. All(SlotsOf(by)) = UNION {InSeq(x) : x \in InSeq(SlotsOf(by))}
  BY DEF All, InSeq
<1>10. All(SlotsOf(by)) = UNION {InSeq(ResultOf(s, by)) : s \in DOMAIN by}
  BY <1>6, <1>7, <1>8, <1>9
<1>11. \A s \in DOMAIN by : InSeq(ResultOf(s, by)) = WorthOf(s, by[s])
  BY <1>1 DEF MayTell
<1>12. UNION {InSeq(ResultOf(s, by)) : s \in DOMAIN by} = AllTold(by)
  BY <1>11 DEF AllTold
<1> QED
  BY <1>6, <1>7, <1>10, <1>12

(* FilterBySeverity keeps of a set of findings what is severe enough.      *)
LEMMA FilteredFindings ==
  ASSUME NEW results \in Seq(Seq(Found)), NEW min
  PROVE  /\ FilterBySeverity(results, min) \in Seq(Seq(Found))
         /\ All(FilterBySeverity(results, min)) = {f \in All(results) : f.severity >= min}
<1> DEFINE V == Seq(Found)
           n == Len(results)
           above(q) == Picked(q, {k \in DOMAIN q : q[k].severity >= min})
           kept == FilterBySeverity(results, min)
<1>1. n \in Nat /\ DOMAIN results = 1 .. n /\ \A i \in 1 .. n : results[i] \in V
  OBVIOUS
<1>2. ASSUME NEW q \in V
      PROVE  above(q) \in V /\ InSeq(above(q)) = {f \in InSeq(q) : f.severity >= min}
  <2> DEFINE I == {k \in DOMAIN q : q[k].severity >= min}
  <2>1. {q[k] : k \in I \cap DOMAIN q} = {f \in InSeq(q) : f.severity >= min}
    BY DEF InSeq
  <2> HIDE DEF I
  <2>2. Picked(q, I) \in V /\ InSeq(Picked(q, I)) = {q[k] : k \in I \cap DOMAIN q}
    BY <1>2, PickedSet
  <2> QED
    BY <2>1, <2>2 DEF I
<1>3. kept = [i \in 1 .. n |-> above(results[i])]
  BY <1>1 DEF FilterBySeverity
<1> HIDE DEF V, n, above, kept
<1>4. kept \in Seq(V) /\ DOMAIN kept = 1 .. n /\ \A i \in 1 .. n : kept[i] = above(results[i])
  <2>1. \A i \in 1 .. n : above(results[i]) \in V
    BY <1>1, <1>2
  <2> QED
    BY <1>1, <1>3, <2>1
<1>5. \A i \in 1 .. n : InSeq(kept[i]) = {f \in InSeq(results[i]) : f.severity >= min}
  BY <1>1, <1>2, <1>4
<1>6. All(kept) = {f \in All(results) : f.severity >= min}
  BY <1>1, <1>4, <1>5 DEF All
<1> QED
  BY <1>4, <1>6 DEF V, kept

(* The slots that are shown, of a scan that was told by.                   *)
KeptFor(by) == FilterBySeverity(SlotsOf(by), setup.min)

(* What it records.                                                        *)
RecordedFor(by) == Findings(SlotsOf(by))

(* How it exits.                                                           *)
ExitFor(by) == IF ExceedsThreshold(KeptFor(by), setup.failOn) THEN "threshold" ELSE "ok"

(* A scan that is not over, or that no tool worked in.                     *)
Silent(o) ==
  o.by = <<>> /\ o.recorded = <<>> /\ o.shown = <<>> /\ o.exit \in {"none", "error"}

(* A scan that is.                                                         *)
Answers(o) ==
  /\ MayTell(o.by)
  /\ o.shown = ShownFor(o.by) /\ o.recorded = RecordedFor(o.by) /\ o.exit = ExitFor(o.by)

(* What the last scan recorded, showed and exited with is what its tools   *)
(* told makes of it.                                                       *)
Accounted ==
  /\ Slotted
  /\ case \in DOMAIN Cases
  /\ Silent(outcome) \/ Answers(outcome)

(* What a tool wrote are records of the tree.                              *)
LEMMA OutputTyped ==
  ASSUME case \in DOMAIN Cases, NEW s \in Tools
  PROVE  Output(s) \in Seq(RecordsBy(s))
<1> DEFINE all == Cases[case].reports[s]
           T == RecordsBy(s)
           skips(r) == Skipped(s, Excluded[case], Cases[case].licenses, Cases[case].root, r.path)
           kept == {i \in DOMAIN all : ~ skips(all[i])}
<1>1. all \in Seq(T)
  BY CaseFields DEF setup
<1>2. Reported(s) = Picked(all, kept)
  <2>1. Reported(s) = ReportedIn(case, s)
    BY DEF Reported, ReportedIf
  <2>2. ReportedIn(case, s) = Picked(all, kept)
    BY Zenon DEF ReportedIn
  <2> QED
    BY <2>1, <2>2
<1> HIDE DEF all, T, kept
<1>3. Reported(s) \in Seq(T)
  BY <1>1, <1>2, PickedSet
<1>4. Reported(s) # <<>> => Tail(Reported(s)) \in Seq(T)
  BY <1>3, HeadTailProperties
<1>5. <<>> \in Seq(T)
  OBVIOUS
<1>6. Output(s) \in {<<>>, Tail(Reported(s)), Reported(s)}
      /\ (Output(s) = Tail(Reported(s)) => Reported(s) # <<>> \/ Output(s) \in {<<>>, Reported(s)})
  BY DEF Output
<1> QED
  BY <1>3, <1>4, <1>5, <1>6 DEF T

(* Once every tool has returned, Report makes of the slots what the tools  *)
(* told makes.                                                             *)
LEMMA ReportAnswers ==
  ASSUME Accounted, Report
  PROVE  Answers(outcome')
<1> DEFINE by == [s \in Done |-> Output(s)]
           kept == FilterBySeverity(Collected, setup.min)
           exit == IF ExceedsThreshold(kept, setup.failOn) THEN "threshold" ELSE "ok"
<1>1. DOMAIN by = Done /\ Done \subseteq Tools /\ \A s \in Done : by[s] = Output(s)
  BY DEF Done
<1>2. Underway /\ Slotted /\ case \in DOMAIN Cases
  BY DEF Report, Accounted
<1>3. outcome' = [by |-> by, recorded |-> Recorded(Collected), shown |-> Findings(kept),
                  exit |-> exit]
  BY Zenon DEF Report
<1>4. MayTell(by)
  <2>1. \A s \in Done : Output(s) \in Seq(RecordsBy(s))
    BY <1>1, <1>2, OutputTyped
  <2> HIDE DEF by
  <2> QED
    BY <1>1, <2>1 DEF MayTell
<1>5. ASSUME NEW s \in Tools PROVE result[s] = ResultOf(s, by)
  <2>1. CASE s \in Done
    BY <1>2, <2>1 DEF Slotted, ResultOf, Done
  <2>2. CASE s \notin Done
    BY <1>2, <2>2 DEF Slotted, ResultOf, Done
  <2> QED
    BY <2>1, <2>2
<1>6. result = [s \in Tools |-> ResultOf(s, by)]
  BY <1>2, <1>5 DEF Slotted
<1>7. Collected = SlotsOf(by)
  BY <1>1, <1>6 DEF Collected, SlotsOf
<1> HIDE DEF by
<1>8. kept = KeptFor(by)
  BY <1>7 DEF KeptFor
<1>9. Findings(kept) = ShownFor(by)
  BY <1>8 DEF KeptFor, ShownFor, SlotsOf
<1>10. Recorded(Collected) = RecordedFor(by)
  BY <1>7 DEF Recorded, RecordedFor
<1>11. exit = ExitFor(by)
  BY <1>8 DEF ExitFor
<1> HIDE DEF kept, exit
<1>12. /\ outcome'.by = by /\ outcome'.shown = ShownFor(by)
       /\ outcome'.recorded = RecordedFor(by) /\ outcome'.exit = ExitFor(by)
  BY <1>3, <1>9, <1>10, <1>11
<1> QED
  BY <1>4, <1>12 DEF Answers

(* What Answers is made of does not change.                                *)
LEMMA SameAnswers ==
  ASSUME case' = case
  PROVE  \A o : Answers(o)' = Answers(o)
BY DEF Answers, MayTell, RecordsBy, ShownFor, RecordedFor, ExitFor, KeptFor, SlotsOf,
       ResultOf, Returned, setup

(* Accounted is kept by every step.                                        *)
LEMMA AccountedHolds == Accounted /\ [Next]_vars => Accounted'
<1> SUFFICES ASSUME Accounted, [Next]_vars PROVE Accounted'
  OBVIOUS
<1>1. Slotted'
  BY SlottedHolds DEF Accounted
<1>2. case' = case
  BY DEF Next, Onward, ToolStep, Start, Begin, Stillborn, Hang, Finish, Fail, End, Deadline,
         Kill, Return, Report, Write, GiveUp, vars
<1>3. CASE Start
  BY <1>1, <1>2, <1>3 DEF Start, NoOutcome, Accounted, Silent
<1>4. CASE (\E s \in Tools : ToolStep(s)) \/ Write \/ UNCHANGED vars
  <2>1. outcome' = outcome
    BY <1>4 DEF ToolStep, Begin, Stillborn, Hang, Finish, Fail, End, Deadline,
         Kill, Return, Write, vars
  <2> QED
    BY <1>1, <1>2, <2>1, SameAnswers DEF Accounted, Silent
<1>5. CASE Report
  <2>1. Answers(outcome')
    BY <1>5, ReportAnswers
  <2>2. Answers(outcome)'
    BY <1>2, <2>1
      DEF Answers, MayTell, RecordsBy, ShownFor, RecordedFor, ExitFor, KeptFor, SlotsOf,
          ResultOf, Returned, setup
  <2> QED
    BY <1>1, <1>2, <2>2 DEF Accounted
<1>6. CASE GiveUp
  <2>1. outcome' = [NoOutcome EXCEPT !.exit = "error"]
    BY <1>6 DEF GiveUp
  <2>2. Silent(outcome')
    BY <2>1 DEF Silent, NoOutcome
  <2> QED
    BY <1>1, <1>2, <2>2 DEF Accounted, Silent
<1> QED
  BY <1>3, <1>4, <1>5, <1>6 DEF Next, Onward

(* No scan was, at first.                                                  *)
LEMMA AccountedStart == Init => Accounted
BY SlottedStart DEF Init, Accounted, Silent, NoOutcome

(* What Answers makes of the report and of the record.                     *)
LEMMA AnswersReport ==
  ASSUME case \in DOMAIN Cases, NEW o, Answers(o)
  PROVE  LET kept == {f \in AllTold(o.by) : f.severity >= setup.min} IN
         /\ Reports(o.recorded, AllTold(o.by))
         /\ Reports(o.shown, kept)
         /\ o.exit \in {"ok", "threshold"}
         /\ o.exit = "threshold" <=> \E f \in kept : f.severity >= setup.failOn
         /\ AllTold(o.by) \in SUBSET Found
<1> DEFINE by == o.by
           slots == SlotsOf(by)
           kept == KeptFor(by)
<1>1. MayTell(by) /\ o.shown = ShownFor(by) /\ o.recorded = RecordedFor(by) /\ o.exit = ExitFor(by)
  BY DEF Answers
<1> HIDE DEF by
<1>2. slots \in Seq(Seq(Found)) /\ All(slots) = AllTold(by)
  BY <1>1, SlotsFindings
<1> HIDE DEF slots
<1>3. /\ kept \in Seq(Seq(Found))
      /\ All(kept) = {f \in AllTold(by) : f.severity >= setup.min}
  BY <1>2, FilteredFindings DEF KeptFor, slots
<1>4. o.recorded = Findings(slots) /\ o.shown = Findings(kept)
  BY <1>1 DEF RecordedFor, ShownFor, KeptFor, SlotsOf, slots
<1>5. /\ o.exit \in {"ok", "threshold"}
      /\ o.exit = "threshold" <=> ExceedsThreshold(kept, setup.failOn)
  BY <1>1 DEF ExitFor
<1> HIDE DEF kept
<1>6. ExceedsThreshold(kept, setup.failOn) <=> \E f \in All(kept) : f.severity >= setup.failOn
  BY DEF ExceedsThreshold, All, InSeq
<1>7. Reports(o.recorded, AllTold(by)) /\ Reports(o.shown, All(kept))
  BY <1>2, <1>3, <1>4, Reporting
<1>8. AllTold(by) \in SUBSET Found
  <2> SUFFICES ASSUME NEW f \in All(slots) PROVE f \in Found
    BY <1>2
  <2>1. PICK i \in DOMAIN slots : f \in InSeq(slots[i])
    BY DEF All
  <2>2. slots[i] \in Seq(Found)
    BY <1>2
  <2> QED
    BY <2>1, <2>2 DEF InSeq
<1> QED
  BY <1>3, <1>5, <1>6, <1>7, <1>8 DEF by

-----------------------------------------------------------------------------
(* The report, the record and the exit.                                    *)

(* What is worth showing, as MayTell and AllTold have it.                  *)
LEMMA WorthIsTold ==
  Worth = {f \in AllTold(outcome.by) : f.severity >= setup.min}
<1>1. AllTold(outcome.by) =
        {f \in UNION {{FindingOf(s, setup.root, setup.verify, r) :
                         r \in {q \in InSeq(outcome.by[s]) : Actionable(s, q)}} :
                       s \in DOMAIN outcome.by} : ~ Match(Excluded[case], f.path)}
  BY DEF AllTold, WorthOf
<1> QED
  BY <1>1 DEF Worth

(* Without a report there is nothing to say.                               *)
LEMMA SilentIsEmpty ==
  ASSUME Silent(outcome)
  PROVE  /\ InSeq(outcome.shown) = {} /\ InSeq(outcome.recorded) = {}
         /\ DOMAIN outcome.shown = {} /\ DOMAIN outcome.by = {} /\ Worth = {}
<1>1. outcome.by = <<>> /\ outcome.recorded = <<>> /\ outcome.shown = <<>>
  BY DEF Silent
<1>2. DOMAIN outcome.by = {} /\ DOMAIN outcome.shown = {} /\ DOMAIN outcome.recorded = {}
  BY <1>1
<1>3. InSeq(outcome.shown) = {} /\ InSeq(outcome.recorded) = {}
  BY <1>2 DEF InSeq
<1>4. Worth = {}
  BY <1>2 DEF Worth
<1> QED
  BY <1>2, <1>3, <1>4

(* A scan that is accounted for shows what it was told.                    *)
LEMMA AccountedShows == Accounted => ShownIsWhatWasTold
<1> SUFFICES ASSUME Accounted PROVE ShownIsWhatWasTold
  OBVIOUS
<1>1. CASE Silent(outcome)
  BY <1>1, SilentIsEmpty DEF ShownIsWhatWasTold
<1>2. CASE Answers(outcome)
  <2> DEFINE shown == outcome.shown
             by == outcome.by
  <2>1. Reports(shown, Worth) /\ AllTold(by) \in SUBSET Found
    BY <1>2, AnswersReport, WorthIsTold DEF Accounted
  <2> HIDE DEF shown, by
  <2>2. /\ shown \in Seq(Found)
        /\ \A i, j \in DOMAIN shown :
             i < j => /\ shown[i].fingerprint # shown[j].fingerprint
                      /\ shown[i].severity >= shown[j].severity
        /\ PrintsOf(InSeq(shown)) = PrintsOf(Worth)
        /\ \A g \in InSeq(shown) : MergedOf(g, Like(Worth, g))
    BY <2>1 DEF Reports
  <2>3. {g.fingerprint : g \in InSeq(shown)} = {f.fingerprint : f \in Worth}
    BY <2>2 DEF PrintsOf
  <2>4. ASSUME NEW g \in InSeq(shown)
        PROVE  \A group \in {{f \in Worth : f.fingerprint = g.fingerprint}} :
                 /\ g.scanners = {f.scanner : f \in group}
                 /\ g.severity \in {f.severity : f \in group}
                 /\ \A f \in group : f.severity <= g.severity
                 /\ Fingerprint(g) = g.fingerprint
    <3>1. MergedOf(g, Like(Worth, g))
      BY <2>2
    <3>2. g \in Found
      BY <2>2 DEF InSeq
    <3>3. Like(Worth, g) = {f \in Worth : f.fingerprint = g.fingerprint}
      BY DEF Like
    <3> QED
      BY <3>1, <3>2, <3>3 DEF MergedOf, Found
  <2> QED
    BY <2>2, <2>3, <2>4 DEF ShownIsWhatWasTold, shown
<1> QED
  BY <1>1, <1>2 DEF Accounted

(* Each report has every problem that some tool told of, once, with the    *)
(* greatest severity and all the tools that gave it, and nothing else, the *)
(* greater severity first: nothing is lost or doubled in Convert, Filter,  *)
(* FilterBySeverity, Dedup and the sort of run.go, however long their      *)
(* lists.                                                                  *)
THEOREM ReportIsWhatWasTold == Spec => []ShownIsWhatWasTold
<1>1. Init => Accounted
  BY AccountedStart
<1>2. Accounted /\ [Next]_vars => Accounted'
  BY AccountedHolds
<1>3. Accounted => ShownIsWhatWasTold
  BY AccountedShows
<1> QED
  BY <1>1, <1>2, <1>3, PTL DEF Spec

(* More tools agree on what more tools told.                               *)
LEMMA MoreAgree ==
  ASSUME NEW f \in Found, NEW g \in Found, f.scanners \subseteq g.scanners
  PROVE  Agreement(f) <= Agreement(g)
<1> DEFINE S == f.scanners
           T == g.scanners
<1>1. T \subseteq Tools /\ S \subseteq T
  BY DEF Found, FoundType
<1>2. IsFiniteSet(Tools)
  <2>1. IsFiniteSet({"trivy"})
    BY FS_Singleton
  <2>2. IsFiniteSet({"trivy"} \cup {"osv"})
    BY <2>1, FS_AddElement
  <2>3. IsFiniteSet({"trivy"} \cup {"osv"} \cup {"opengrep"})
    BY <2>2, FS_AddElement
  <2>4. IsFiniteSet({"trivy"} \cup {"osv"} \cup {"opengrep"} \cup {"trufflehog"})
    BY <2>3, FS_AddElement
  <2>5. Tools = {"trivy"} \cup {"osv"} \cup {"opengrep"} \cup {"trufflehog"}
    BY DEF Tools
  <2> QED
    BY <2>4, <2>5
<1>3. IsFiniteSet(T) /\ IsFiniteSet(S) /\ Cardinality(S) <= Cardinality(T)
  <2> HIDE DEF S, T
  <2>1. IsFiniteSet(T)
    BY <1>1, <1>2, FS_Subset
  <2> QED
    BY <1>1, <2>1, FS_Subset
<1>4. Cardinality(S) \in Nat /\ Cardinality(T) \in Nat
  BY <1>3, FS_CardinalityType
<1>5. T # {} => Cardinality(T) >= 1
  <2> HIDE DEF T
  <2>1. T # {} => Cardinality(T) # 0
    BY <1>3, FS_EmptySet
  <2> QED
    BY <1>4, <2>1
<1> HIDE DEF S, T
<1>6. (IF S = {} THEN 1 ELSE Cardinality(S)) <= (IF T = {} THEN 1 ELSE Cardinality(T))
  BY <1>3, <1>4, <1>5 DEF S, T
<1> QED
  BY <1>6 DEF Agreement, S, T

(* Of one set of findings two reports are made, one of those at a severity *)
(* or above: what this one shows the other has, with the same severity.    *)
LEMMA KeptIsRecorded ==
  ASSUME NEW findings \in SUBSET Found, NEW min \in Int, NEW shown, NEW recorded,
         Reports(recorded, findings), Reports(shown, {f \in findings : f.severity >= min})
  PROVE  /\ \A f \in InSeq(shown) : \E g \in InSeq(recorded) :
              /\ g.fingerprint = f.fingerprint /\ g.severity = f.severity
              /\ f.scanners \subseteq g.scanners /\ Agreement(f) <= Agreement(g)
         /\ \A g \in InSeq(recorded) :
              g.severity >= min => g.fingerprint \in {f.fingerprint : f \in InSeq(shown)}
<1> DEFINE kept == {f \in findings : f.severity >= min}
<1>1. /\ PrintsOf(InSeq(shown)) = PrintsOf(kept) /\ shown \in Seq(Found)
      /\ \A f \in InSeq(shown) : MergedOf(f, Like(kept, f))
      /\ PrintsOf(InSeq(recorded)) = PrintsOf(findings) /\ recorded \in Seq(Found)
      /\ \A g \in InSeq(recorded) : MergedOf(g, Like(findings, g))
  BY DEF Reports
<1>2. \A f \in findings : f.severity \in Int
  BY FoundFields
<1>3. InSeq(shown) \subseteq Found /\ InSeq(recorded) \subseteq Found
  BY <1>1 DEF InSeq
<1>4. ASSUME NEW f \in InSeq(shown)
      PROVE  \E g \in InSeq(recorded) :
              /\ g.fingerprint = f.fingerprint /\ g.severity = f.severity
              /\ f.scanners \subseteq g.scanners /\ Agreement(f) <= Agreement(g)
  <2>1. f.fingerprint \in PrintsOf(kept)
    BY <1>1 DEF PrintsOf
  <2>2. f.fingerprint \in PrintsOf(findings)
    BY <2>1 DEF PrintsOf
  <2>3. PICK g \in InSeq(recorded) : g.fingerprint = f.fingerprint
    <3>1. f.fingerprint \in PrintsOf(InSeq(recorded))
      BY <1>1, <2>2
    <3> QED
      BY <3>1 DEF PrintsOf
  <2>4. MergedOf(f, Like(kept, f)) /\ MergedOf(g, Like(findings, g))
    BY <1>1
  <2>5. Like(kept, f) \subseteq Like(findings, g)
    BY <2>3 DEF Like
  <2>6. f.scanners \subseteq g.scanners
    BY <2>4, <2>5 DEF MergedOf
  <2>7. f.severity = g.severity
    <3>1. PICK h \in Like(findings, g) : h.severity = g.severity
      BY <2>4 DEF MergedOf
    <3>2. PICK k \in Like(kept, f) : k.severity = f.severity
      BY <2>4 DEF MergedOf
    <3>3. h \in findings /\ k \in findings /\ k.severity >= min
      BY <3>1, <3>2 DEF Like
    <3>4. k.severity <= g.severity
      BY <2>4, <2>5 DEF MergedOf
    <3>5. h.severity >= min
      BY <1>2, <3>1, <3>3, <3>4
    <3>6. h \in Like(kept, f)
      BY <2>3, <3>1, <3>5 DEF Like
    <3>7. h.severity <= f.severity
      BY <2>4, <3>6 DEF MergedOf
    <3> QED
      BY <1>2, <3>1, <3>2, <3>3, <3>4, <3>7
  <2>8. Agreement(f) <= Agreement(g)
    BY <1>3, <2>6, MoreAgree
  <2> QED
    BY <2>3, <2>6, <2>7, <2>8
<1>5. ASSUME NEW g \in InSeq(recorded), g.severity >= min
      PROVE  g.fingerprint \in {f.fingerprint : f \in InSeq(shown)}
  <2>1. MergedOf(g, Like(findings, g))
    BY <1>1
  <2>2. PICK h \in Like(findings, g) : h.severity = g.severity
    BY <2>1 DEF MergedOf
  <2>3. h \in kept /\ h.fingerprint = g.fingerprint
    BY <1>5, <2>2 DEF Like
  <2> QED
    BY <1>1, <2>3 DEF PrintsOf
<1> QED
  BY <1>4, <1>5

(* Some finding of a tool reaches a threshold exactly when one in the      *)
(* report does.                                                            *)
LEMMA ExitIsShown ==
  ASSUME NEW kept \in SUBSET Found, NEW threshold \in Int, NEW shown, Reports(shown, kept)
  PROVE  (\E f \in kept : f.severity >= threshold)
           <=> \E g \in InSeq(shown) : g.severity >= threshold
<1>1. /\ PrintsOf(InSeq(shown)) = PrintsOf(kept)
      /\ \A g \in InSeq(shown) : MergedOf(g, Like(kept, g))
      /\ InSeq(shown) \subseteq Found
  BY DEF Reports, InSeq
<1>2. \A f \in Found : f.severity \in Int
  BY FoundFields
<1>3. ASSUME NEW f \in kept, f.severity >= threshold
      PROVE  \E g \in InSeq(shown) : g.severity >= threshold
  <2>1. PICK g \in InSeq(shown) : g.fingerprint = f.fingerprint
    BY <1>1 DEF PrintsOf
  <2>2. f \in Like(kept, g)
    BY <2>1 DEF Like
  <2>3. f.severity <= g.severity
    BY <1>1, <2>2 DEF MergedOf
  <2>4. f.severity \in Int /\ g.severity \in Int
    BY <1>1, <1>2
  <2> QED
    BY <1>3, <2>3, <2>4
<1>4. ASSUME NEW g \in InSeq(shown), g.severity >= threshold
      PROVE  \E f \in kept : f.severity >= threshold
  <2>1. PICK f \in Like(kept, g) : g.severity = f.severity
    BY <1>1 DEF MergedOf
  <2> QED
    BY <1>4, <2>1 DEF Like
<1> QED
  BY <1>3, <1>4

(* A scan that is accounted for agrees with itself.                        *)
LEMMA AccountedAgrees == Accounted => OutcomeAgrees
<1> SUFFICES ASSUME Accounted PROVE OutcomeAgrees
  OBVIOUS
<1>1. CASE Silent(outcome)
  BY <1>1, SilentIsEmpty DEF OutcomeAgrees, ShownIsRecorded, FailOnAgreesWithReport, Silent
<1>2. CASE Answers(outcome)
  <2> DEFINE all == AllTold(outcome.by)
             kept == {f \in all : f.severity >= setup.min}
  <2>1. /\ Reports(outcome.recorded, all) /\ Reports(outcome.shown, kept)
        /\ outcome.exit = "threshold" <=> \E f \in kept : f.severity >= setup.failOn
        /\ all \in SUBSET Found
    BY <1>2, AnswersReport DEF Accounted
  <2>2. setup.min \in Int /\ setup.failOn \in Int
    BY CaseFields DEF Accounted
  <2> HIDE DEF all
  <2>3. ShownIsRecorded
    BY <2>1, <2>2, KeptIsRecorded DEF ShownIsRecorded
  <2>4. FailOnAgreesWithReport
    <3>1. kept \in SUBSET Found
      BY <2>1
    <3> HIDE DEF kept
    <3> QED
      BY <2>1, <2>2, <3>1, ExitIsShown DEF FailOnAgreesWithReport
  <2> QED
    BY <2>3, <2>4 DEF OutcomeAgrees
<1> QED
  BY <1>1, <1>2 DEF Accounted

(* What is shown is recorded with the same severity, what is recorded at   *)
(* --min-severity is shown, and --fail-on fails the command exactly when   *)
(* the report shows such a finding: cli/scan.go takes the three from one   *)
(* list at three stages.                                                   *)
THEOREM OutcomeIsOne == Spec => []OutcomeAgrees
<1>1. Init => Accounted
  BY AccountedStart
<1>2. Accounted /\ [Next]_vars => Accounted'
  BY AccountedHolds
<1>3. Accounted => OutcomeAgrees
  BY AccountedAgrees
<1> QED
  BY <1>1, <1>2, <1>3, PTL DEF Spec

-----------------------------------------------------------------------------
(* Identity in another checkout.                                           *)

(* What the adapters make of a record does not depend on the root, but for *)
(* a path that two of them think is outside of it.                         *)
LEMMA RootDoesNotMatter ==
  ASSUME NEW s \in Tools, NEW r, NEW root, NEW other, NEW verify,
         ~ (s \in {"osv", "opengrep"} /\ r.path[1] \in Dotted)
  PROVE  FindingOf(s, root, verify, r) = FindingOf(s, other, verify, r)
<1>1. CASE s = "trivy"
  BY <1>1 DEF FindingOf
<1>2. CASE s = "osv"
  <2>1. RelativePath(root, r.path) = RelativePath(other, r.path)
    BY <1>2 DEF RelativePath
  <2>2. OSVFinding(root, r) = OSVFinding(other, r)
    BY <2>1, Zenon DEF OSVFinding
  <2> QED
    BY <1>2, <2>2 DEF FindingOf
<1>3. CASE s = "opengrep"
  <2>1. RelativePath(root, r.path) = RelativePath(other, r.path)
    BY <1>3 DEF RelativePath
  <2>2. OpengrepFinding(root, r) = OpengrepFinding(other, r)
    BY <2>1, Zenon DEF OpengrepFinding
  <2> QED
    BY <1>3, <2>2 DEF FindingOf
<1>4. CASE s = "trufflehog"
  <2>1. TruffleHogFinding(root, verify, r) = TruffleHogFinding(other, verify, r)
    BY DEF TruffleHogFinding, Relative
  <2> QED
    BY <1>4, <2>1 DEF FindingOf
<1> QED
  BY <1>1, <1>2, <1>3, <1>4 DEF Tools

(* What may be told is a record of a tool.                                 *)
LEMMA ReportedBy ==
  ASSUME NEW c \in DOMAIN Cases, NEW x \in ReportsOf(c)
  PROVE  x.tool \in Tools /\ x.record \in InSeq(Cases[c].reports[x.tool])
<1>1. PICK s \in Tools : x \in [tool : {s}, record : InSeq(Cases[c].reports[s])]
  BY DEF ReportsOf
<1> QED
  BY <1>1

(* No record of the tree is identified by where the tree is.               *)
LEMMA NothingMoves == case \in DOMAIN Cases => IdentityIsPortable
<1> SUFFICES ASSUME case \in DOMAIN Cases, NEW x \in Moved[case] PROVE FALSE
  BY DEF IdentityIsPortable
<1> DEFINE print(root) == FindingOf(x.tool, root, Cases[case].verify, x.record).fingerprint
<1>1. /\ x \in ReportsOf(case)
      /\ print(Cases[case].root) # print(OtherRoot)
      /\ ~ (x.tool \in {"osv", "opengrep"} /\ x.record.path[1] \in Dotted)
  BY DEF Moved
<1>2. x.tool \in Tools
  BY <1>1, ReportedBy
<1> QED
  BY <1>1, <1>2, RootDoesNotMatter

(* The tree stays the same.                                                *)
LEMMA CaseHolds == (case \in DOMAIN Cases) /\ [Next]_vars => (case \in DOMAIN Cases)'
BY DEF Next, Onward, ToolStep, Start, Begin, Stillborn, Hang, Finish, Fail, End, Deadline,
       Kill, Return, Report, Write, GiveUp, vars

(* No adapter makes the root part of a fingerprint, except of what osv and *)
(* opengrep take for a path outside of it.                                 *)
THEOREM PortableIdentity == Spec => []IdentityIsPortable
<1>1. Init => case \in DOMAIN Cases
  BY DEF Init
<1>2. (case \in DOMAIN Cases) /\ [Next]_vars => (case \in DOMAIN Cases)'
  BY CaseHolds
<1>3. case \in DOMAIN Cases => IdentityIsPortable
  BY NothingMoves
<1> QED
  BY <1>1, <1>2, <1>3, PTL DEF Spec

-----------------------------------------------------------------------------
(* Exclusions.                                                             *)

(* TruffleHog's patterns match no more than the exclusions' do.            *)
LEMMA Globbed ==
  ASSUME NEW pattern, NEW segment, GlobToRegexp(pattern, segment)
  PROVE  Glob(pattern, segment)
BY DEF GlobToRegexp, Glob

(* What the flags of a tool make it skip of a path inside the tree.        *)
LEMMA TrivySkips ==
  ASSUME NEW e, NEW licenses, NEW p \in Paths, p # <<>>,
         e = [dirs |-> e.dirs, files |-> e.files], SkipArgs(e, licenses, p)
  PROVE  InDir(e.dirs, p) \/ IsFile(e.files, p)
<1> DEFINE given == IF licenses THEN [e EXCEPT !.dirs = @ \ LicenseSourceDirs] ELSE e
<1>1. given.dirs \subseteq e.dirs /\ given.files = e.files
  OBVIOUS
<1>2. TrivyArgs(given, p)
  BY DEF SkipArgs
<1> HIDE DEF given
<1>3. Len(p) \in Nat
  BY PathFields
<1>4. CASE Len(p) > 1 /\ \E d \in given.dirs : Glob(d, p[1])
  <2>1. 1 \in Above(p)
    BY <1>3, <1>4 DEF Above
  <2> QED
    BY <1>1, <1>4, <2>1 DEF InDir
<1>5. CASE \E i \in Above(p) \ {1}, d \in given.dirs : Glob(d, p[i])
  BY <1>1, <1>5 DEF InDir
<1>6. CASE IsFile(given.files, p)
  BY <1>1, <1>6
<1> QED
  BY <1>2, <1>4, <1>5, <1>6 DEF TrivyArgs

(* Opengrep knows files from directories only by a slash.                  *)
LEMMA OpengrepSkips ==
  ASSUME NEW e, NEW p \in Paths, p # <<>>, OpengrepArgs(e, p)
  PROVE  InDir(e.dirs, p) \/ IsFile(e.files, p) \/ InDir(e.files, p)
<1>1. CASE InDir(e.dirs, p)
  BY <1>1
<1>2. CASE \E i \in DOMAIN p, f \in e.files : Glob(f, p[i])
  <2>1. PICK i \in DOMAIN p, f \in e.files : Glob(f, p[i])
    BY <1>2
  <2>2. Len(p) \in Nat /\ i \in 1 .. Len(p)
    BY PathFields
  <2>3. CASE i = Len(p)
    BY <2>1, <2>3 DEF IsFile
  <2>4. CASE i # Len(p)
    <3>1. i \in Above(p)
      BY <2>2, <2>4 DEF Above
    <3> QED
      BY <2>1, <3>1 DEF InDir
  <2> QED
    BY <2>3, <2>4
<1> QED
  BY <1>1, <1>2 DEF OpengrepArgs

(* Where the elements of a concatenation are.                              *)
LEMMA Following ==
  ASSUME NEW T, NEW a \in Seq(T), NEW b \in Seq(T)
  PROVE  /\ Len(a \o b) = Len(a) + Len(b)
         /\ \A i \in 1 .. Len(a) + Len(b) :
              (a \o b)[i] = IF i <= Len(a) THEN a[i] ELSE b[i - Len(a)]
BY ConcatProperties

(* A list of some elements is one of more.                                 *)
LEMMA Wider ==
  ASSUME NEW S, NEW T, \A x \in S : x \in T, NEW q \in Seq(S)
  PROVE  q \in Seq(T)
OBVIOUS

(* TruffleHog's patterns meet the root as well as the path.                *)
LEMMA TruffleHogSkips ==
  ASSUME NEW e, NEW root \in Paths, NEW p \in Paths, p # <<>>, TruffleHogPatterns(e, root \o p)
  PROVE  InDir(e.dirs, p) \/ IsFile(e.files, p) \/ InDir(e.dirs, root \o <<"">>)
<1> DEFINE q == root \o p
           t == root \o <<"">>
           n == Len(root)
           m == Len(p)
<1>1. n \in Nat /\ m \in Nat /\ m >= 1
  <2>1. m # 0
    BY EmptySeq DEF Paths
  <2> QED
    BY <2>1, PathFields
<1>2. /\ Len(q) = n + m
      /\ \A i \in 1 .. n + m : q[i] = IF i <= n THEN root[i] ELSE p[i - n]
  <2> DEFINE T == InSeq(Alphabet)
  <2>1. root \in Seq(T) /\ p \in Seq(T)
    BY DEF Paths
  <2> HIDE DEF T
  <2> QED
    BY <2>1, Following
<1>3. /\ Len(t) = n + 1
      /\ \A i \in 1 .. n : t[i] = root[i]
  <2> DEFINE T == InSeq(Alphabet) \cup {""}
             z == <<"">>
  <2>1. root \in Seq(T)
    <3> DEFINE S == InSeq(Alphabet)
    <3>1. root \in Seq(S) /\ \A x \in S : x \in T
      BY DEF Paths
    <3> HIDE DEF S, T
    <3> QED
      BY <3>1, Wider
  <2>2. z \in Seq(T) /\ Len(z) = 1
    <3>1. "" \in T
      OBVIOUS
    <3>2. \A X : \A x \in X : <<x>> \in Seq(X) /\ Len(<<x>>) = 1
      OBVIOUS
    <3> QED
      BY <3>1, <3>2
  <2>3. t = root \o z
    OBVIOUS
  <2> HIDE DEF T, z, t
  <2>4. /\ Len(root \o z) = n + 1
        /\ \A i \in 1 .. n + 1 : (root \o z)[i] = IF i <= n THEN root[i] ELSE z[i - n]
    BY <2>1, <2>2, Following
  <2> HIDE DEF n
  <2>5. \A i \in 1 .. n : i \in 1 .. n + 1 /\ i <= n
    BY <1>1
  <2> QED
    BY <2>3, <2>4, <2>5
<1>4. TruffleHogPatterns(e, q)
  OBVIOUS
<1> HIDE DEF q, t, n, m
<1>5. CASE \E i \in Above(q), d \in e.dirs : GlobToRegexp(d, q[i])
  <2>1. PICK i \in Above(q), d \in e.dirs : Glob(d, q[i])
    BY <1>5, Globbed
  <2>2. i \in 1 .. n + m - 1
    BY <1>1, <1>2, <2>1 DEF Above
  <2>3. CASE i <= n
    <3>1. i \in Above(t) /\ q[i] = t[i]
      BY <1>1, <1>2, <1>3, <2>2, <2>3 DEF Above
    <3>2. InDir(e.dirs, t)
      BY <2>1, <3>1 DEF InDir
    <3> QED
      BY <3>2 DEF t
  <2>4. CASE ~ (i <= n)
    <3>1. i - n \in Above(p) /\ q[i] = p[i - n]
      BY <1>1, <1>2, <2>2, <2>4 DEF Above, m
    <3> QED
      BY <2>1, <3>1 DEF InDir
  <2> QED
    BY <2>3, <2>4
<1>6. CASE \E f \in e.files : GlobToRegexp(f, q[Len(q)])
  <2>1. q[Len(q)] = p[m]
    BY <1>1, <1>2
  <2> QED
    BY <1>6, <2>1, Globbed DEF IsFile, m
<1> QED
  BY <1>4, <1>5, <1>6 DEF TruffleHogPatterns

(* Exclusions are directories and files.                                   *)
LEMMA Resolved ==
  ASSUME NEW c \in DOMAIN Cases
  PROVE  Excluded[c] = [dirs |-> Excluded[c].dirs, files |-> Excluded[c].files]
<1>1. Excluded[c] = ResolveExcludes(Cases[c].config, Cases[c].replace, Cases[c].user)
  BY DEF Excluded
<1>2. \A a, b : Merge(a, b) = [dirs |-> Merge(a, b).dirs, files |-> Merge(a, b).files]
  BY DEF Merge
<1> QED
  BY <1>1, <1>2 DEF ResolveExcludes

(* What a tool skips the exclusions match, or it is one that it is known   *)
(* to skip.                                                                *)
LEMMA SkipsExplained ==
  ASSUME NEW c \in DOMAIN Cases, NEW s \in Tools, NEW r \in InSeq(Cases[c].reports[s]),
         Skipped(s, Excluded[c], Cases[c].licenses, Cases[c].root, r.path)
  PROVE  Match(Excluded[c], r.path) \/ KnownToSkip(c, s, r.path)
<1> DEFINE e == Excluded[c]
           p == r.path
           root == Cases[c].root
           licenses == Cases[c].licenses
<1>1. root \in Paths /\ RecordOf(s, r)
  BY CasesAssumption
<1>2. p \in Paths /\ p # <<>> /\ p[1] \notin {"/", ".."}
  BY <1>1, RecordFields
<1>3. InDir(e.dirs, p) \/ IsFile(e.files, p) => Match(e, p)
  BY <1>2 DEF Match
<1>4. e = [dirs |-> e.dirs, files |-> e.files]
  BY Resolved
<1>5. Skipped(s, e, licenses, root, p)
  OBVIOUS
<1>6. /\ s = "trufflehog" /\ p[Len(p)] \in SecretNoiseExcludes => KnownToSkip(c, s, p)
      /\ s = "trufflehog" /\ InDir(e.dirs, root \o <<"">>) => KnownToSkip(c, s, p)
      /\ s = "opengrep" /\ InDir(e.files, p) => KnownToSkip(c, s, p)
  BY DEF KnownToSkip
<1> HIDE DEF e, p, root, licenses
<1>7. CASE s = "trivy"
  <2>1. SkipArgs(e, licenses, p)
    BY <1>5, <1>7 DEF Skipped
  <2> QED
    BY <1>2, <1>3, <1>4, <2>1, TrivySkips DEF e, p
<1>8. CASE s = "osv"
  <2>1. OSVArgs(e, p)
    BY <1>5, <1>8 DEF Skipped
  <2> QED
    BY <1>3, <2>1 DEF OSVArgs, e, p
<1>9. CASE s = "opengrep"
  <2>1. OpengrepArgs(e, p)
    BY <1>5, <1>9 DEF Skipped
  <2> QED
    BY <1>2, <1>3, <1>6, <1>9, <2>1, OpengrepSkips DEF e, p
<1>10. CASE s = "trufflehog"
  <2>1. TruffleHogPatterns(e, root \o p) \/ p[Len(p)] \in SecretNoiseExcludes
    BY <1>5, <1>10 DEF Skipped
  <2>2. InDir(e.dirs, p) \/ IsFile(e.files, p) \/ InDir(e.dirs, root \o <<"">>)
        \/ p[Len(p)] \in SecretNoiseExcludes
    BY <1>1, <1>2, <2>1, TruffleHogSkips
  <2> QED
    BY <1>3, <1>6, <1>10, <2>2 DEF e, p
<1> QED
  BY <1>7, <1>8, <1>9, <1>10 DEF Tools

(* No tool skips anything unexplained in any tree.                         *)
LEMMA CaseExplains == case \in DOMAIN Cases => SkipsAreExplained
<1> SUFFICES ASSUME case \in DOMAIN Cases, NEW x \in SkippedUnexplained[case] PROVE FALSE
  BY DEF SkipsAreExplained
<1>1. /\ x \in ReportsOf(case)
      /\ \E s \in {x.tool}, p \in {x.record.path} :
           /\ Skipped(s, Excluded[case], Cases[case].licenses, Cases[case].root, p)
           /\ ~ Match(Excluded[case], p) /\ ~ KnownToSkip(case, s, p)
  BY DEF SkippedUnexplained
<1>2. x.tool \in Tools /\ x.record \in InSeq(Cases[case].reports[x.tool])
  BY <1>1, ReportedBy
<1> QED
  BY <1>1, <1>2, SkipsExplained

(* What a report shows was told by some tool, and has its path.            *)
LEMMA ShownKeepsPath ==
  ASSUME NEW H, NEW shown, Reports(shown, H), NEW f \in InSeq(shown)
  PROVE  \E h \in Like(H, f) :
           /\ f.path = h.path /\ f.category = h.category
           /\ f.category \in Dependencies => f.package = h.package
BY DEF Reports, MergedOf

(* A scan that is accounted for has nothing excluded.                      *)
LEMMA AccountedExcludes == Accounted => NothingExcluded
<1> SUFFICES ASSUME Accounted, NEW f \in InSeq(outcome.shown) \cup InSeq(outcome.recorded)
             PROVE  ~ Match(Excluded[case], f.path)
  BY DEF NothingExcluded
<1>1. CASE Silent(outcome)
  BY <1>1, SilentIsEmpty
<1>2. CASE Answers(outcome)
  <2> DEFINE all == AllTold(outcome.by)
             kept == {h \in all : h.severity >= setup.min}
  <2>1. Reports(outcome.recorded, all) /\ Reports(outcome.shown, kept)
    BY <1>2, AnswersReport DEF Accounted
  <2>2. \A h \in all : ~ Match(Excluded[case], h.path)
    BY DEF AllTold, WorthOf
  <2> HIDE DEF all
  <2>3. \E h \in all : f.path = h.path
    <3>1. CASE f \in InSeq(outcome.shown)
      BY <2>1, <3>1, ShownKeepsPath DEF Like
    <3>2. CASE f \in InSeq(outcome.recorded)
      BY <2>1, <3>2, ShownKeepsPath DEF Like
    <3> QED
      BY <3>1, <3>2
  <2> QED
    BY <2>2, <2>3
<1> QED
  BY <1>1, <1>2 DEF Accounted

(* No tool's flags make it skip what the exclusions keep, except what it   *)
(* is known to skip, and nothing the exclusions match is shown or          *)
(* recorded: exclude.go's translators and Match.                           *)
THEOREM ExclusionsAreOne == Spec => []ExclusionsAgree
<1>1. Init => Accounted
  BY AccountedStart
<1>2. Accounted /\ [Next]_vars => Accounted'
  BY AccountedHolds
<1>3. Accounted => ExclusionsAgree
  BY CaseExplains, AccountedExcludes DEF ExclusionsAgree, Accounted
<1> QED
  BY <1>1, <1>2, <1>3, PTL DEF Spec

-----------------------------------------------------------------------------
(* One issue, once.                                                        *)

(* What is shown as a vulnerability is one that some tool told.            *)
LEMMA ShownIsOfARecord ==
  ASSUME Accounted, Answers(outcome), NEW f \in InSeq(outcome.shown),
         f.category = "vulnerability"
  PROVE  \E s \in Tools : \E r \in RecordsBy(s) :
           /\ RecordOf(s, r) /\ r.category = "vulnerability"
           /\ PlacedIn(setup.root, f, r) /\ f.package = r.package
<1> DEFINE all == AllTold(outcome.by)
           kept == {h \in all : h.severity >= setup.min}
<1>1. Reports(outcome.shown, kept) /\ MayTell(outcome.by)
  BY AnswersReport DEF Accounted, Answers
<1>2. \A h \in all : \E s \in DOMAIN outcome.by : h \in WorthOf(s, outcome.by[s])
  BY DEF AllTold
<1> HIDE DEF all
<1>3. PICK h \in all : f.path = h.path /\ f.category = h.category /\ f.package = h.package
  BY <1>1, ShownKeepsPath DEF Like, Dependencies
<1>4. PICK s \in DOMAIN outcome.by : h \in WorthOf(s, outcome.by[s])
  BY <1>2
<1>5. s \in Tools /\ outcome.by[s] \in Seq(RecordsBy(s))
  BY <1>1 DEF MayTell
<1>6. PICK r \in InSeq(outcome.by[s]) : h = FindingOf(s, setup.root, setup.verify, r)
  BY <1>4 DEF WorthOf
<1>7. r \in RecordsBy(s)
  BY <1>5, <1>6 DEF InSeq
<1>8. RecordOf(s, r) /\ setup.root \in Paths
  BY <1>5, <1>7, CaseFields DEF Accounted
<1>9. Tells(s, setup.root, r, h)
  BY <1>5, <1>6, <1>8, Converted
<1>10. r.category = "vulnerability" /\ h.package = r.package
  BY <1>3, <1>9 DEF Tells
<1>11. PlacedIn(setup.root, f, r)
  BY <1>3, <1>9 DEF Tells, PlacedIn
<1> QED
  BY <1>3, <1>5, <1>7, <1>8, <1>10, <1>11

(* Lists that begin alike and are alike go on alike.                       *)
LEMMA Cancelled ==
  ASSUME NEW T, NEW a \in Seq(T), NEW p \in Seq(T), NEW q \in Seq(T), a \o p = a \o q
  PROVE  p = q
<1> DEFINE n == Len(a)
           l == Len(p)
           m == Len(q)
<1>1. n \in Nat /\ l \in Nat /\ m \in Nat
  OBVIOUS
<1>2. /\ Len(a \o p) = n + l
      /\ \A i \in 1 .. n + l : (a \o p)[i] = IF i <= n THEN a[i] ELSE p[i - n]
  BY Following
<1>3. /\ Len(a \o q) = n + m
      /\ \A i \in 1 .. n + m : (a \o q)[i] = IF i <= n THEN a[i] ELSE q[i - n]
  BY Following
<1>4. l = m
  BY <1>1, <1>2, <1>3
<1>5. ASSUME NEW i \in 1 .. l PROVE p[i] = q[i]
  <2> HIDE DEF n, l, m
  <2>1. n + i \in 1 .. n + l /\ ~ (n + i <= n) /\ (n + i) - n = i
    BY <1>1
  <2>2. (a \o p)[n + i] = p[i]
    BY <1>2, <2>1
  <2>3. (a \o q)[n + i] = q[i]
    BY <1>3, <1>4, <2>1
  <2> QED
    BY <2>2, <2>3
<1> QED
  BY <1>4, <1>5, SeqEqual

(* A path from the root of the machine, and one inside the tree at root    *)
(* that a finding at x is at.                                              *)
Absolute(root) == root \in Paths /\ root # <<>> /\ root[1] = "/"

LeadsTo(root, x, p) ==
  /\ p \in Paths /\ p # <<>> /\ p[1] # "/"
  /\ x = p \/ x = root \o p

(* A path below the root is absolute and one relative to it is not, so     *)
(* where a finding is tells where its record is.                           *)
LEMMA SameRecordPath ==
  ASSUME NEW root, NEW x, NEW p, NEW q,
         Absolute(root), LeadsTo(root, x, p), LeadsTo(root, x, q)
  PROVE  p = q
<1> USE DEF Absolute, LeadsTo
<1> DEFINE T == InSeq(Alphabet)
<1>1. root \in Seq(T) /\ p \in Seq(T) /\ q \in Seq(T)
  BY DEF Paths
<1> HIDE DEF T
<1>2. ASSUME NEW y \in Seq(T) PROVE (root \o y)[1] = "/"
  <2>1. Len(root) \in Nat /\ Len(root) # 0 /\ Len(y) \in Nat
    BY <1>1, EmptySeq
  <2>2. \A i \in 1 .. Len(root) + Len(y) :
          (root \o y)[i] = IF i <= Len(root) THEN root[i] ELSE y[i - Len(root)]
    BY <1>1, Following
  <2>3. 1 \in 1 .. Len(root) + Len(y) /\ 1 <= Len(root)
    BY <2>1
  <2> QED
    BY <2>2, <2>3
<1>3. CASE x = p /\ x = q
  BY <1>3
<1>4. CASE x = root \o p /\ x = root \o q
  BY <1>1, <1>4, Cancelled
<1>5. CASE x = p /\ x = root \o q
  BY <1>1, <1>2, <1>5
<1>6. CASE x = root \o p /\ x = q
  BY <1>1, <1>2, <1>6
<1> QED
  BY <1>3, <1>4, <1>5, <1>6

(* A scan that is accounted for shows an issue once.                       *)
LEMMA AccountedOnce == Accounted => OneIssueOnce
<1> DEFINE cves(h) == ({h.ruleID} \cup h.aliases) \cap CVE
<1> SUFFICES ASSUME Accounted, NEW f \in InSeq(outcome.shown), NEW g \in InSeq(outcome.shown),
                    f.category = "vulnerability", g.category = "vulnerability",
                    f.path = g.path, f.package.name = g.package.name,
                    NEW id \in CVE, cves(f) = {id}, cves(g) = {id}
             PROVE  f = g
  BY DEF OneIssueOnce
<1>1. CASE Silent(outcome)
  BY <1>1, SilentIsEmpty
<1>2. CASE Answers(outcome)
  <2>1. case \in DOMAIN Cases
    BY DEF Accounted
  <2>2. PICK kept : Reports(outcome.shown, kept)
    BY <1>2, <2>1, AnswersReport
  <2>3. f \in Found /\ g \in Found
    BY <2>2 DEF Reports, InSeq
  <2>4. PICK s \in Tools : \E r \in RecordsBy(s) :
           /\ RecordOf(s, r) /\ r.category = "vulnerability"
           /\ PlacedIn(setup.root, f, r) /\ f.package = r.package
    BY <1>2, ShownIsOfARecord
  <2>5. PICK r \in RecordsBy(s) :
           /\ RecordOf(s, r) /\ r.category = "vulnerability"
           /\ PlacedIn(setup.root, f, r) /\ f.package = r.package
    BY <2>4
  <2>6. PICK t \in Tools : \E q \in RecordsBy(t) :
           /\ RecordOf(t, q) /\ q.category = "vulnerability"
           /\ PlacedIn(setup.root, g, q) /\ g.package = q.package
    BY <1>2, ShownIsOfARecord
  <2>7. PICK q \in RecordsBy(t) :
           /\ RecordOf(t, q) /\ q.category = "vulnerability"
           /\ PlacedIn(setup.root, g, q) /\ g.package = q.package
    BY <2>6
  <2>8. r.path = q.path
    <3>1. Absolute(setup.root)
      BY <2>1, CaseFields DEF Absolute
    <3>2. LeadsTo(setup.root, f.path, r.path)
      BY <2>5, RecordFields DEF LeadsTo, PlacedIn
    <3>3. LeadsTo(setup.root, f.path, q.path)
      BY <2>7, RecordFields DEF LeadsTo, PlacedIn
    <3> QED
      BY <3>1, <3>2, <3>3, SameRecordPath
  <2>9. /\ r.package.name # "" /\ q.package.name # ""
        /\ CanonicalEcosystem(r.package.ecosystem) = CanonicalEcosystem(q.package.ecosystem)
    <3>1. r \in InSeq(Cases[case].reports[s]) /\ q \in InSeq(Cases[case].reports[t])
      BY DEF RecordsBy, setup
    <3>2. /\ r.category = "vulnerability" /\ q.category = "vulnerability"
          /\ r.path = q.path /\ r.package.name = q.package.name
      BY <2>5, <2>7, <2>8
    <3> QED
      BY <2>1, <3>1, <3>2, EcosystemAssumption, Zenon
  <2>10. f.package # NoPackage /\ g.package # NoPackage
    <3>1. NoPackage.name = ""
      BY DEF NoPackage
    <3> QED
      BY <2>5, <2>7, <2>9, <3>1
  <2>11. CanonicalOf(f) = id /\ CanonicalOf(g) = id
    <3>1. /\ f.ruleID \in Nat /\ f.aliases \in SUBSET Nat
          /\ g.ruleID \in Nat /\ g.aliases \in SUBSET Nat
      BY <2>3 DEF Found, FoundType
    <3>2. CanonicalOf(f) \in cves(f)
      BY <3>1, Canonical DEF CanonicalOf
    <3>3. CanonicalOf(g) \in cves(g)
      BY <3>1, Canonical DEF CanonicalOf
    <3> QED
      BY <3>2, <3>3
  <2>12. Fingerprint(f) = Fingerprint(g)
    <3>1. f.category \in Dependencies /\ g.category \in Dependencies
      BY DEF Dependencies
    <3>2. f.package.name = g.package.name
          /\ CanonicalEcosystem(f.package.ecosystem) = CanonicalEcosystem(g.package.ecosystem)
      BY <2>5, <2>7, <2>9
    <3>3. Fingerprint(f) = <<"pkg", CanonicalOf(f), NormalizePath(f.path),
                             CanonicalEcosystem(f.package.ecosystem), f.package.name>>
      BY <2>10, <3>1, DependencyPrint
    <3>4. Fingerprint(g) = <<"pkg", CanonicalOf(g), NormalizePath(g.path),
                             CanonicalEcosystem(g.package.ecosystem), g.package.name>>
      BY <2>10, <3>1, DependencyPrint
    <3> QED
      BY <2>11, <3>2, <3>3, <3>4
  <2>13. f.fingerprint = g.fingerprint
    BY <2>3, <2>12 DEF Found
  <2>14. PICK i \in DOMAIN outcome.shown, j \in DOMAIN outcome.shown :
           f = outcome.shown[i] /\ g = outcome.shown[j]
    BY DEF InSeq
  <2>15. i \in Int /\ j \in Int /\ ~ (i < j) /\ ~ (j < i)
    BY <2>2, <2>13, <2>14 DEF Reports
  <2> QED
    BY <2>14, <2>15
<1> QED
  BY <1>1, <1>2 DEF Accounted

(* Two findings of a report are never of one package in one manifest and   *)
(* of one CVE alone, whatever the tools call the advisory and the          *)
(* ecosystem: canonical.go's "two tools describing one problem produce one *)
(* fingerprint".                                                           *)
THEOREM OneIssueIsOne == Spec => []OneIssueOnce
<1>1. Init => Accounted
  BY AccountedStart
<1>2. Accounted /\ [Next]_vars => Accounted'
  BY AccountedHolds
<1>3. Accounted => OneIssueOnce
  BY AccountedOnce
<1> QED
  BY <1>1, <1>2, <1>3, PTL DEF Spec

-----------------------------------------------------------------------------
(* Order.                                                                  *)

(* dedup.go's "Input order does not affect the output", of what the        *)
(* history, the threshold and the user go by: the problems, how severe     *)
(* they are and which tools agree on them are the same in whatever order   *)
(* and by however many slots the same findings are merged.                 *)
THEOREM OrderIsImmaterial ==
  ASSUME NEW a \in Seq(Seq(Found)), NEW b \in Seq(Seq(Found)), All(a) = All(b)
  PROVE  \A f \in InSeq(Findings(a)) : \E g \in InSeq(Findings(b)) :
           g.fingerprint = f.fingerprint /\ g.severity = f.severity /\ g.scanners = f.scanners
<1> DEFINE H == All(a)
           x == Findings(a)
           y == Findings(b)
<1>1. Reports(x, H) /\ Reports(y, H)
  BY Reporting
<1>2. \A f \in All(a) : f \in Found
  <2> SUFFICES ASSUME NEW f \in All(a) PROVE f \in Found
    OBVIOUS
  <2>1. PICK i \in DOMAIN a : f \in InSeq(a[i])
    BY DEF All
  <2>2. a[i] \in Seq(Found)
    OBVIOUS
  <2> QED
    BY <2>1, <2>2 DEF InSeq
<1>3. \A f \in H : f.severity \in Int
  BY <1>2, FoundFields
<1> HIDE DEF H, x, y
<1> SUFFICES ASSUME NEW f \in InSeq(x)
             PROVE  \E g \in InSeq(y) : /\ g.fingerprint = f.fingerprint
                                        /\ g.severity = f.severity /\ g.scanners = f.scanners
  BY DEF x, y
<1>4. f.fingerprint \in PrintsOf(InSeq(y))
  <2>1. f.fingerprint \in PrintsOf(InSeq(x))
    BY DEF PrintsOf
  <2> QED
    BY <1>1, <2>1 DEF Reports
<1>5. PICK g \in InSeq(y) : g.fingerprint = f.fingerprint
  BY <1>4 DEF PrintsOf
<1>6. Like(H, f) = Like(H, g)
  BY <1>5 DEF Like
<1>7. MergedOf(f, Like(H, f)) /\ MergedOf(g, Like(H, f))
  BY <1>1, <1>6 DEF Reports
<1>8. f.scanners = g.scanners
  BY <1>7 DEF MergedOf
<1>9. f.severity = g.severity
  <2>1. PICK h \in Like(H, f) : h.severity = f.severity
    BY <1>7 DEF MergedOf
  <2>2. PICK k \in Like(H, f) : k.severity = g.severity
    BY <1>7 DEF MergedOf
  <2>3. h.severity \in Int /\ k.severity \in Int
    BY <1>3 DEF Like
  <2>4. h.severity <= g.severity /\ k.severity <= f.severity
    BY <1>7 DEF MergedOf
  <2> QED
    BY <2>1, <2>2, <2>3, <2>4
<1> QED
  BY <1>5, <1>8, <1>9

-----------------------------------------------------------------------------
(* Types.                                                                  *)

(* What TypeOK says but for the findings.                                  *)
Shapes ==
  /\ phase \in [Tools -> Phases]
  /\ late \subseteq Tools
  /\ temp \subseteq Given
  /\ outcome.exit \in {"none", "ok", "threshold", "error"}
  /\ file.state \in {"absent", "torn", "whole"}
  /\ scans \in 0 .. MaxScans

(* Shapes is kept from the start, by the steps of tools and by the others. *)
LEMMA ShapesStart == Init => Shapes
<1> SUFFICES ASSUME Init PROVE Shapes
  OBVIOUS
<1>1. phase = [s \in Tools |-> "idle"] /\ late = {} /\ temp = {} /\ scans = 0
      /\ outcome = NoOutcome
      /\ file \in {NoFile, [NoFile EXCEPT !.state = "whole", !.version = SchemaVersion + 1]}
  BY DEF Init
<1>2. phase \in [Tools -> Phases] /\ scans \in 0 .. MaxScans
  BY <1>1, BoundsAssumption DEF Phases
<1>3. file.state \in {"absent", "torn", "whole"}
  <2>1. NoFile.state = "absent"
        /\ [NoFile EXCEPT !.state = "whole", !.version = SchemaVersion + 1].state = "whole"
    BY DEF NoFile
  <2> QED
    BY <1>1, <2>1
<1> QED
  BY <1>1, <1>2, <1>3 DEF Shapes, NoOutcome

LEMMA ToolKeepsShapes ==
  ASSUME Shapes, NEW s \in Tools, ToolStep(s)
  PROVE  Shapes'
<1>1. UNCHANGED <<outcome, file, scans>>
  BY DEF ToolStep, Begin, Stillborn, Hang, Finish, Fail, End, Deadline, Kill, Return
<1>2. \/ UNCHANGED phase
      \/ \E p \in Phases : phase' = [phase EXCEPT ![s] = p]
  BY DEF ToolStep, Begin, Stillborn, Hang, Finish, Fail, End, Deadline, Kill, Return, Going,
         Phases
<1>3. phase' \in [Tools -> Phases]
  BY <1>2 DEF Shapes
<1>4. late' \subseteq late \cup {s} /\ temp' \subseteq temp \cup ({s} \cap Given)
  BY DEF ToolStep, Begin, Stillborn, Hang, Finish, Fail, End, Deadline, Kill, Return
<1> QED
  BY <1>1, <1>3, <1>4 DEF Shapes

LEMMA ShapesHold == Shapes /\ [Next]_vars => Shapes'
<1> SUFFICES ASSUME Shapes, [Next]_vars PROVE Shapes'
  OBVIOUS
<1>1. CASE Start
  <2>1. phase' \in [Tools -> Phases]
    BY <1>1 DEF Start, Phases
  <2>2. scans' \in 0 .. MaxScans
    BY <1>1, BoundsAssumption DEF Start, Shapes
  <2>3. late' = {} /\ temp' = temp /\ outcome' = NoOutcome /\ file' = file
    BY <1>1 DEF Start
  <2> QED
    BY <2>1, <2>2, <2>3 DEF Shapes, NoOutcome
<1>2. ASSUME NEW s \in Tools, ToolStep(s) PROVE Shapes'
  BY <1>2, ToolKeepsShapes
<1>3. CASE Report
  <2>1. phase' \in [Tools -> Phases]
    BY <1>3 DEF Report, Phases
  <2>2. outcome'.exit \in {"ok", "threshold"}
    BY <1>3 DEF Report
  <2>3. file'.state = "torn" /\ UNCHANGED <<late, temp, scans>>
    BY <1>3 DEF Report
  <2> QED
    BY <2>1, <2>2, <2>3 DEF Shapes
<1>4. CASE Write
  BY <1>4 DEF Write, Shapes
<1>5. CASE GiveUp
  <2>1. phase' \in [Tools -> Phases]
    BY <1>5 DEF GiveUp, Phases
  <2>2. outcome'.exit = "error"
    BY <1>5 DEF GiveUp, NoOutcome
  <2>3. UNCHANGED <<late, temp, scans, file>>
    BY <1>5 DEF GiveUp
  <2> QED
    BY <2>1, <2>2, <2>3 DEF Shapes
<1>6. CASE UNCHANGED vars
  BY <1>6 DEF vars, Shapes
<1> QED
  BY <1>1, <1>2, <1>3, <1>4, <1>5, <1>6 DEF Next, Onward

(* With the findings as Accounted has them, this is TypeOK.                *)
LEMMA AccountedIsTyped == Accounted /\ Shapes => TypeOK
<1> SUFFICES ASSUME Accounted, Shapes PROVE TypeOK
  OBVIOUS
<1>1. ASSUME NEW f \in InSeq(outcome.recorded)
      PROVE  f.severity \in Severity /\ f.category \in Categories
  <2>1. CASE Silent(outcome)
    BY <2>1, SilentIsEmpty
  <2>2. CASE Answers(outcome)
    <3>1. PICK H : Reports(outcome.recorded, H)
      BY <2>2, AnswersReport DEF Accounted
    <3>2. f \in Found
      BY <3>1 DEF Reports, InSeq
    <3> QED
      BY <3>2 DEF Found, FoundType
  <2> QED
    BY <2>1, <2>2 DEF Accounted
<1> QED
  BY <1>1 DEF Accounted, Shapes, TypeOK, Phases

(* The types of Engine, those of the recorded findings among them.         *)
THEOREM Typed == Spec => []TypeOK
<1>1. Init => Accounted /\ Shapes
  BY AccountedStart, ShapesStart
<1>2. Accounted /\ Shapes /\ [Next]_vars => (Accounted /\ Shapes)'
  BY AccountedHolds, ShapesHold
<1>3. Accounted /\ Shapes => TypeOK
  BY AccountedIsTyped
<1> QED
  BY <1>1, <1>2, <1>3, PTL DEF Spec
=============================================================================
