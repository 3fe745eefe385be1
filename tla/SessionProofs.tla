--------------------------- MODULE SessionProofs ---------------------------
(* The login session, for any number of processes, users and tokens: a     *)
(* dead token in the file is always explained by who renewed it, and the   *)
(* file is what was said last, for the reasons given.                      *)
EXTENDS Session, TLAPS

(* How far a command got: no token before there is one to load or to save, *)
(* tokens that were issued, and counts of a past that really is past.      *)
Sound(c) ==
  /\ c.loaded \in DOMAIN owner \cup {Missing}
  /\ c.got \in DOMAIN owner \cup {Missing}
  /\ c.step = "saving" => c.got # Missing
  /\ c.step = "renewing" => c.loaded # Missing
  /\ c.step \notin {"renewing", "saving", "done", "failed"} => c.loaded = Missing
  /\ c.step \notin {"closing", "saving", "done", "failed"} => c.got = Missing
  /\ c.since <= Len(said) /\ c.wrote <= Len(said)
  /\ \A k \in {"code", "error"} : c.blocked[k] <= c.calls

Issued == file \in Token => file \in DOMAIN owner

Typing == TypeOK /\ Issued /\ \A p \in Process : Sound(cmd[p])

(* One command goes on, and the others keep what they know.                *)
LEMMA GoesOnTyped ==
  ASSUME Typing, NEW p \in Process,
         \A q \in Process \ {p} : cmd'[q] = cmd[q],
         cmd' \in [Process -> Command], Sound(cmd[p])',
         file' \in Token \cup {Missing, Damaged}, Issued',
         owner' \in Seq(User), Len(owner') <= MaxTokens, Len(owner) <= Len(owner'),
         accepted' \subseteq DOMAIN owner',
         said' \in Seq(User \cup {NoUser}), Len(said) <= Len(said')
  PROVE  Typing'
<1>1. ASSUME NEW q \in Process \ {p} PROVE Sound(cmd[q])'
  <2>1. DOMAIN owner \subseteq DOMAIN owner'
    BY DEF Typing, TypeOK
  <2>2. cmd'[q] = cmd[q] /\ Sound(cmd[q]) /\ cmd[q] \in Command
    BY DEF Typing, TypeOK
  <2>3. cmd[q].since \in Nat /\ cmd[q].wrote \in Nat
    BY <2>2 DEF Command
  <2>4. Len(said) \in Nat /\ Len(said') \in Nat
    BY DEF Typing, TypeOK
  <2> QED
    BY <2>1, <2>2, <2>3, <2>4 DEF Sound
<1>2. TypeOK'
  BY DEF TypeOK
<1> QED
  BY <1>1, <1>2 DEF Typing

(* As most steps do, which do nothing but that.                            *)
LEMMA AloneTyped ==
  ASSUME Typing, NEW p \in Process, NEW new, new \in Command, Sound(new),
         cmd' = [cmd EXCEPT ![p] = new], UNCHANGED <<file, owner, accepted, said>>
  PROVE  Typing'
<1>1. /\ cmd' \in [Process -> Command] /\ cmd'[p] = new
      /\ \A q \in Process \ {p} : cmd'[q] = cmd[q]
  BY DEF Typing, TypeOK
<1>2. Sound(cmd[p])'
  BY <1>1 DEF Sound
<1>3. Issued' /\ TypeOK /\ Len(owner) \in Nat /\ Len(said) \in Nat
  BY DEF Typing, Issued, TypeOK
<1> QED
  BY <1>1, <1>2, <1>3, GoesOnTyped DEF TypeOK

LEMMA CommandEndsTyped ==
  ASSUME NEW c \in Command, NEW s \in Step
  PROVE  [c EXCEPT !.step = s] \in Command
BY DEF Command

LEMMA CommandLoads ==
  ASSUME NEW c \in Command, NEW t \in Token, NEW n \in Nat
  PROVE  [c EXCEPT !.step = "renewing", !.loaded = t, !.since = n] \in Command
BY DEF Command, Step

LEMMA CommandGets ==
  ASSUME NEW c \in Command, NEW t \in Token, NEW s \in Step
  PROVE  [c EXCEPT !.step = s, !.got = t] \in Command
BY DEF Command

LEMMA CommandWrites ==
  ASSUME NEW c \in Command, NEW n \in Nat
  PROVE  [c EXCEPT !.step = "done", !.wrote = n] \in Command
BY DEF Command, Step

LEMMA CommandExpires ==
  ASSUME NEW c \in Command
  PROVE  [c EXCEPT !.expired = TRUE] \in Command
BY DEF Command

(* What the browser sent, and what was taken of it.                        *)
LEMMA CommandWaits ==
  ASSUME NEW c \in Command, NEW k \in {"code", "error"}, NEW n \in 0 .. MaxCallbacks,
         NEW s \in Step, NEW i \in 0 .. 1, NEW j \in 0 .. 1, NEW m \in 0 .. MaxCallbacks
  PROVE  [c EXCEPT !.step = s, !.codes = i, !.errs = j, !.calls = m,
                   !.blocked[k] = n] \in Command
BY DEF Command

LEMMA NoCommandTyped == NoCommand \in Command
BY SessionAssumption DEF NoCommand, Command, Step, Missing

-----------------------------------------------------------------------------
LEMMA InitTyped == Init => Typing
<1> SUFFICES ASSUME Init PROVE Typing
  OBVIOUS
<1>1. cmd \in [Process -> Command] /\ \A p \in Process : cmd[p] = NoCommand
  BY NoCommandTyped DEF Init
<1>2. owner \in Seq(User) /\ Len(owner) <= MaxTokens /\ Issued
      /\ file \in Token \cup {Missing, Damaged}
  <2>1. CASE file \in {Missing, Damaged} /\ owner = <<>>
    BY <2>1, SessionAssumption DEF Token, Damaged, Missing, Issued
  <2>2. CASE file = 1 /\ owner \in {<<u>> : u \in User}
    <3>1. PICK u \in User : owner = <<u>>
      BY <2>2
    <3> QED
      BY <2>2, <3>1, SessionAssumption DEF Token, Damaged, Missing, Issued
  <2> QED
    BY <2>1, <2>2 DEF Init
<1>3. ASSUME NEW p \in Process PROVE Sound(cmd[p])
  BY <1>1, <1>2, SessionAssumption DEF Sound, NoCommand, Init, Missing
<1> QED
  BY <1>1, <1>2, <1>3 DEF Typing, TypeOK, Init

-----------------------------------------------------------------------------
LEMMA StepTyped == Typing /\ [Next]_vars => Typing'
<1> SUFFICES ASSUME Typing, [Next]_vars PROVE Typing'
  OBVIOUS
<1>1. /\ \A p \in Process : cmd[p] \in Command /\ Sound(cmd[p])
      /\ cmd \in [Process -> Command]
      /\ Len(said) \in Nat /\ Len(owner) \in Nat /\ DOMAIN owner = 1 .. Len(owner)
  BY DEF Typing, TypeOK
<1>2. ASSUME NEW p \in Process, Load(p) PROVE Typing'
  <2> DEFINE new == [cmd[p] EXCEPT !.step = "renewing", !.loaded = file,
                                   !.since = Len(said)]
  <2>1. /\ cmd' = [cmd EXCEPT ![p] = new] /\ file \in Token /\ At(p, "idle")
        /\ UNCHANGED <<file, owner, accepted, said>>
    BY <1>2 DEF Load, Loads
  <2>2. new \in Command
    BY <1>1, <2>1, CommandLoads
  <2>3. file \in DOMAIN owner /\ file # Missing
    BY <2>1 DEF Typing, Issued, Token, Missing
  <2>4. Sound(new)
    <3>1. Sound(cmd[p]) /\ cmd[p] \in Command
      BY <1>1
    <3>2. /\ new.loaded = file /\ new.got = cmd[p].got /\ new.step = "renewing"
          /\ new.since = Len(said) /\ new.wrote = cmd[p].wrote
          /\ new.blocked = cmd[p].blocked /\ new.calls = cmd[p].calls
      BY <3>1 DEF Command
    <3> HIDE DEF new
    <3> QED
      BY <1>1, <2>1, <2>3, <3>1, <3>2 DEF Sound, At
  <2> QED
    BY <2>1, <2>2, <2>4, AloneTyped
<1>3. ASSUME NEW p \in Process,
             NEW s \in Step, NEW from \in Step, At(p, from), End(p, s),
             \/ from = "idle" /\ s \in {"clearing", "browsing"}
             \/ from = "verifying" /\ s = "closing"
             \/ s = "failed",
             UNCHANGED <<file, owner, accepted, said>>
      PROVE  Typing'
  <2> DEFINE new == [cmd[p] EXCEPT !.step = s]
  <2>1. cmd' = [cmd EXCEPT ![p] = new]
    BY <1>3 DEF End
  <2>2. new \in Command
    BY <1>1, CommandEndsTyped
  <2>3. Sound(new)
    BY <1>1, <1>3 DEF Sound, At, Command
  <2> QED
    BY <1>3, <2>1, <2>2, <2>3, AloneTyped
<1>4. ASSUME NEW p \in Process, Refresh(p) PROVE Typing'
  <2>1. PICK t \in DOMAIN owner' :
          /\ cmd' = [cmd EXCEPT ![p] = [cmd[p] EXCEPT !.step = "saving", !.got = t]]
          /\ owner' \in Seq(User) /\ Len(owner') <= MaxTokens /\ Len(owner) <= Len(owner')
          /\ accepted' \subseteq DOMAIN owner'
    <3>1. At(p, "renewing") /\ cmd[p].loaded \in DOMAIN owner
      BY <1>1, <1>4 DEF Refresh, Sound, At
    <3>2. CASE Renewed(p, cmd[p].loaded) /\ UNCHANGED <<owner, accepted>>
      <4>1. owner \in Seq(User) /\ Len(owner) <= MaxTokens /\ accepted \subseteq DOMAIN owner
        BY DEF Typing, TypeOK
      <4>2. cmd' = [cmd EXCEPT ![p] = [cmd[p] EXCEPT !.step = "saving", !.got = cmd[p].loaded]]
        BY <3>2 DEF Renewed
      <4>3. owner' = owner /\ accepted' = accepted
        BY <3>2
      <4>4. Len(owner') <= MaxTokens /\ Len(owner) <= Len(owner')
        BY <1>1, <4>1, <4>3
      <4> QED
        BY <3>1, <4>1, <4>2, <4>3, <4>4
    <3>3. CASE /\ New \in Token /\ Renewed(p, New)
               /\ owner' = Append(owner, owner[cmd[p].loaded])
               /\ accepted' = (accepted \ {cmd[p].loaded}) \cup {New}
      <4>1. owner \in Seq(User) /\ owner[cmd[p].loaded] \in User
        BY <3>1 DEF Typing, TypeOK
      <4>2. /\ owner' \in Seq(User) /\ Len(owner') = New /\ New <= MaxTokens
            /\ DOMAIN owner' = 1 .. New /\ Len(owner) <= New
        BY <1>1, <3>3, <4>1, SessionAssumption DEF New, Token
      <4>3. New \in DOMAIN owner' /\ accepted' \subseteq DOMAIN owner'
        BY <1>1, <3>3, <4>2 DEF New, Typing, TypeOK
      <4>4. cmd' = [cmd EXCEPT ![p] = [cmd[p] EXCEPT !.step = "saving", !.got = New]]
        BY <3>3 DEF Renewed
      <4>5. Len(owner') <= MaxTokens
        BY <4>2
      <4> HIDE DEF New
      <4> QED
        BY <4>2, <4>3, <4>4, <4>5
    <3> QED
      BY <1>4, <3>2, <3>3 DEF Refresh
  <2>2. /\ UNCHANGED <<file, said>> /\ DOMAIN owner' = 1 .. Len(owner')
        /\ At(p, "renewing") /\ Len(owner') \in Nat
    BY <1>4, <2>1 DEF Refresh
  <2>3. t \in Token /\ t # Missing /\ DOMAIN owner \subseteq DOMAIN owner'
    BY <1>1, <2>1, <2>2, SessionAssumption DEF Token, Missing
  <2>4. [cmd[p] EXCEPT !.step = "saving", !.got = t] \in Command
    BY <1>1, <2>3, CommandGets DEF Step
  <2>5. cmd' \in [Process -> Command] /\ \A q \in Process \ {p} : cmd'[q] = cmd[q]
    BY <1>1, <2>1, <2>4
  <2>6. cmd'[p] = [cmd[p] EXCEPT !.step = "saving", !.got = t]
    BY <1>1, <2>1
  <2>7. Sound(cmd[p])'
    BY <1>1, <2>1, <2>2, <2>3, <2>6 DEF Sound, At, Command
  <2>8. Issued' /\ TypeOK
    BY <2>2, <2>3 DEF Issued, Typing
  <2> QED
    BY <1>1, <2>1, <2>2, <2>5, <2>7, <2>8, GoesOnTyped DEF TypeOK
<1>5. ASSUME NEW p \in Process, Save(p) PROVE Typing'
  <2> DEFINE new == [cmd[p] EXCEPT !.step = "done", !.wrote = Len(said')]
  <2>1. /\ cmd' = [cmd EXCEPT ![p] = new] /\ At(p, "saving") /\ file' = cmd[p].got
        /\ UNCHANGED <<owner, accepted>>
    BY <1>5 DEF Save, Saved
  <2>2. cmd[p].got \in DOMAIN owner
    BY <1>1, <2>1 DEF Sound, At
  <2>3. /\ said' \in Seq(User \cup {NoUser}) /\ Len(said') \in Nat
        /\ Len(said) <= Len(said')
    <3>1. owner[cmd[p].got] \in User /\ said \in Seq(User \cup {NoUser})
      BY <2>2 DEF Typing, TypeOK
    <3> QED
      BY <1>1, <1>5, <3>1 DEF Save, Saved
  <2>4. new \in Command
    BY <1>1, <2>3, CommandWrites
  <2> HIDE DEF new
  <2>5. /\ cmd' \in [Process -> Command] /\ cmd'[p] = new
        /\ \A q \in Process \ {p} : cmd'[q] = cmd[q]
    BY <1>1, <2>1, <2>4
  <2>6. Sound(cmd[p])'
    BY <1>1, <2>1, <2>3, <2>5 DEF new, Sound, At, Command
  <2>7. Issued' /\ file' \in Token
    BY <1>1, <2>1, <2>2, SessionAssumption DEF Issued, Typing, TypeOK, Token
  <2>8. /\ owner' \in Seq(User) /\ Len(owner') <= MaxTokens /\ Len(owner) <= Len(owner')
        /\ accepted' \subseteq DOMAIN owner'
    BY <1>1, <2>1 DEF Typing, TypeOK
  <2> QED
    BY <2>3, <2>5, <2>6, <2>7, <2>8, GoesOnTyped
<1>6. ASSUME NEW p \in Process, Clear(p) PROVE Typing'
  <2>1. /\ cmd' = [cmd EXCEPT ![p] = [cmd[p] EXCEPT !.step = "done"]] /\ At(p, "clearing")
        /\ file' = Missing /\ UNCHANGED <<owner, accepted>> /\ said' = Append(said, NoUser)
    BY <1>6 DEF Clear, End, ClearedFile
  <2>2. said' \in Seq(User \cup {NoUser}) /\ Len(said') \in Nat /\ Len(said) <= Len(said')
    BY <1>1, <2>1 DEF Typing, TypeOK
  <2>3. [cmd[p] EXCEPT !.step = "done"] \in Command
    BY <1>1, CommandEndsTyped DEF Step
  <2>4. /\ cmd' \in [Process -> Command] /\ cmd'[p] = [cmd[p] EXCEPT !.step = "done"]
        /\ \A q \in Process \ {p} : cmd'[q] = cmd[q]
    BY <1>1, <2>1, <2>3
  <2>5. Sound(cmd[p])'
    <3>1. cmd[p] \in Command /\ Sound(cmd[p]) /\ cmd[p].step = "clearing"
      BY <1>1, <2>1 DEF At
    <3>2. /\ cmd[p].loaded = Missing /\ cmd[p].got = Missing
          /\ \A k \in {"code", "error"} : cmd[p].blocked[k] <= cmd[p].calls
      BY <3>1 DEF Sound
    <3>3. cmd[p].since <= Len(said') /\ cmd[p].wrote <= Len(said')
      BY <1>1, <2>2, <3>1 DEF Sound, Command
    <3>4. cmd'[p] = [cmd[p] EXCEPT !.step = "done"] /\ owner' = owner
      BY <2>1, <2>4
    <3> QED
      BY <3>1, <3>2, <3>3, <3>4 DEF Sound, Command
  <2>6. Issued'
    BY <2>1 DEF Issued, Token, Missing
  <2>7. /\ owner' \in Seq(User) /\ Len(owner') <= MaxTokens /\ Len(owner) <= Len(owner')
        /\ accepted' \subseteq DOMAIN owner'
    BY <1>1, <2>1 DEF Typing, TypeOK
  <2>8. file' \in Token \cup {Missing, Damaged}
    BY <2>1
  <2> QED
    BY <2>2, <2>4, <2>5, <2>6, <2>7, <2>8, GoesOnTyped
<1>7. ASSUME NEW p \in Process, Callback(p) PROVE Typing'
  <2>1. PICK k \in {"code", "error"}, i \in 0 .. 1, j \in 0 .. 1, n \in Nat :
          /\ cmd' = [cmd EXCEPT ![p] = [cmd[p] EXCEPT !.step = cmd[p].step,
                        !.calls = cmd[p].calls + 1, !.codes = i, !.errs = j,
                        !.blocked[k] = n]]
          /\ n <= cmd[p].blocked[k] + 1
    <3>1. /\ cmd[p].codes \in 0 .. 1 /\ cmd[p].errs \in 0 .. 1
          /\ cmd[p].blocked["code"] \in Nat /\ cmd[p].blocked["error"] \in Nat
      BY <1>1, SessionAssumption DEF Command
    <3>2. CASE cmd' = [cmd EXCEPT ![p].calls = @ + 1, ![p].codes = 1,
                                  ![p].blocked["code"] = @ + cmd[p].codes]
      <4>1. cmd' = [cmd EXCEPT ![p] = [cmd[p] EXCEPT !.step = cmd[p].step,
                      !.calls = cmd[p].calls + 1, !.codes = 1, !.errs = cmd[p].errs,
                      !.blocked["code"] = cmd[p].blocked["code"] + cmd[p].codes]]
        BY <1>1, <3>2, ZenonT(40) DEF Command
      <4>2. /\ cmd[p].blocked["code"] + cmd[p].codes \in Nat
            /\ cmd[p].blocked["code"] + cmd[p].codes <= cmd[p].blocked["code"] + 1
            /\ 1 \in 0 .. 1
        BY <3>1
      <4> QED
        BY <3>1, <4>1, <4>2
    <3>3. CASE cmd' = [cmd EXCEPT ![p].calls = @ + 1, ![p].errs = 1,
                                  ![p].blocked["error"] = @ + cmd[p].errs]
      <4>1. cmd' = [cmd EXCEPT ![p] = [cmd[p] EXCEPT !.step = cmd[p].step,
                      !.calls = cmd[p].calls + 1, !.codes = cmd[p].codes, !.errs = 1,
                      !.blocked["error"] = cmd[p].blocked["error"] + cmd[p].errs]]
        BY <1>1, <3>3 DEF Command
      <4>2. /\ cmd[p].blocked["error"] + cmd[p].errs \in Nat
            /\ cmd[p].blocked["error"] + cmd[p].errs <= cmd[p].blocked["error"] + 1
            /\ 1 \in 0 .. 1
        BY <3>1
      <4> QED
        BY <3>1, <4>1, <4>2
    <3> QED
      BY <1>7, <3>2, <3>3 DEF Callback
  <2>2. Serving(p) /\ cmd[p].calls < MaxCallbacks /\ UNCHANGED <<file, owner, accepted, said>>
    BY <1>7 DEF Callback
  <2>3. /\ cmd[p].calls \in Nat /\ \A x \in {"code", "error"} : cmd[p].blocked[x] \in Nat
        /\ \A x \in {"code", "error"} : cmd[p].blocked[x] <= cmd[p].calls
        /\ cmd[p].step \in Step
    BY <1>1, SessionAssumption DEF Command, Sound
  <2>4. n \in 0 .. MaxCallbacks /\ cmd[p].calls + 1 \in 0 .. MaxCallbacks
        /\ n <= cmd[p].calls + 1
    BY <2>1, <2>2, <2>3, SessionAssumption
  <2> DEFINE new == [cmd[p] EXCEPT !.step = cmd[p].step, !.codes = i, !.errs = j,
                       !.calls = cmd[p].calls + 1, !.blocked[k] = n]
  <2>5. new \in Command
    BY <1>1, <2>1, <2>3, <2>4, CommandWaits
  <2>6. cmd' = [cmd EXCEPT ![p] = new]
    BY <1>1, <2>1 DEF Command
  <2>7. Sound(new)
    <3>1. \A x \in {"code", "error"} : new.blocked[x] <= new.calls
      BY <1>1, <2>3, <2>4 DEF Command
    <3>2. Sound(cmd[p]) /\ cmd[p] \in Command
      BY <1>1
    <3>3. /\ new.loaded = cmd[p].loaded /\ new.got = cmd[p].got /\ new.step = cmd[p].step
          /\ new.since = cmd[p].since /\ new.wrote = cmd[p].wrote
      BY <3>2 DEF Command
    <3> HIDE DEF new
    <3> QED
      BY <3>1, <3>2, <3>3 DEF Sound
  <2> QED
    BY <2>2, <2>5, <2>6, <2>7, AloneTyped
<1>8. ASSUME NEW p \in Process, Timeout(p) PROVE Typing'
  <2> DEFINE new == [cmd[p] EXCEPT !.expired = TRUE]
  <2>1. cmd' = [cmd EXCEPT ![p] = new] /\ UNCHANGED <<file, owner, accepted, said>>
    BY <1>8 DEF Timeout
  <2>2. new \in Command
    BY <1>1, CommandExpires
  <2>3. Sound(new)
    BY <1>1 DEF Sound, Command
  <2> QED
    BY <2>1, <2>2, <2>3, AloneTyped
<1>9. ASSUME NEW p \in Process, TakeError(p) \/ TakeCode(p) PROVE Typing'
  <2>1. PICK k \in {"code", "error"}, i \in 0 .. 1, n \in Nat, s \in {"closing", "verifying"} :
          /\ cmd' = [cmd EXCEPT ![p] = [cmd[p] EXCEPT !.step = s, !.codes = i,
                        !.errs = cmd[p].errs, !.calls = cmd[p].calls, !.blocked[k] = n]]
          /\ n <= cmd[p].blocked[k]
    <3>1. /\ cmd[p].codes \in 0 .. 1
          /\ cmd[p].blocked["code"] \in Nat /\ cmd[p].blocked["error"] \in Nat
      BY <1>1, SessionAssumption DEF Command
    <3>2. CASE TakeError(p)
      <4> DEFINE w == cmd[p].blocked["error"]
                 n == IF cmd[p].errs = 1 /\ w > 0 THEN w - 1 ELSE w
      <4>1. n \in Nat /\ n <= w
        BY <3>1
      <4>2. cmd' = [cmd EXCEPT ![p].step = "closing", ![p].blocked["error"] = n]
        BY <3>2 DEF TakeError
      <4> HIDE DEF n
      <4>3. cmd' = [cmd EXCEPT ![p] = [cmd[p] EXCEPT !.step = "closing", !.codes = cmd[p].codes,
                        !.errs = cmd[p].errs, !.calls = cmd[p].calls, !.blocked["error"] = n]]
        BY <1>1, <4>2 DEF Command
      <4> QED
        BY <3>1, <4>1, <4>3
    <3>3. CASE TakeCode(p)
      <4> DEFINE w == cmd[p].blocked["code"]
                 i == IF w > 0 THEN 1 ELSE 0
                 n == IF w > 0 THEN w - 1 ELSE 0
      <4>1. n \in Nat /\ n <= w /\ i \in 0 .. 1
        BY <3>1
      <4>2. cmd' = [cmd EXCEPT ![p].step = "verifying", ![p].codes = i,
                               ![p].blocked["code"] = n]
        BY <3>3 DEF TakeCode
      <4> HIDE DEF n, i
      <4>3. cmd' = [cmd EXCEPT ![p] = [cmd[p] EXCEPT !.step = "verifying", !.codes = i,
                        !.errs = cmd[p].errs, !.calls = cmd[p].calls, !.blocked["code"] = n]]
        BY <1>1, <4>2 DEF Command
      <4> QED
        BY <3>1, <4>1, <4>3
    <3> QED
      BY <1>9, <3>2, <3>3
  <2>2. At(p, "browsing") /\ UNCHANGED <<file, owner, accepted, said>>
    BY <1>9 DEF TakeError, TakeCode
  <2>3. /\ cmd[p].calls \in 0 .. MaxCallbacks /\ cmd[p].errs \in 0 .. 1
        /\ \A x \in {"code", "error"} : cmd[p].blocked[x] \in 0 .. MaxCallbacks
        /\ \A x \in {"code", "error"} : cmd[p].blocked[x] <= cmd[p].calls
    BY <1>1 DEF Command, Sound
  <2>4. n \in 0 .. MaxCallbacks /\ n <= cmd[p].calls /\ s \in Step
    BY <2>1, <2>3, SessionAssumption DEF Step
  <2> DEFINE new == [cmd[p] EXCEPT !.step = s, !.codes = i, !.errs = cmd[p].errs,
                       !.calls = cmd[p].calls, !.blocked[k] = n]
  <2>5. new \in Command
    BY <1>1, <2>1, <2>3, <2>4, CommandWaits
  <2>6. cmd' = [cmd EXCEPT ![p] = new]
    BY <2>1
  <2>7. Sound(new)
    <3>1. \A x \in {"code", "error"} : new.blocked[x] <= new.calls
      BY <1>1, <2>3, <2>4 DEF Command
    <3>2. Sound(cmd[p]) /\ cmd[p] \in Command
      BY <1>1
    <3>3. /\ new.loaded = cmd[p].loaded /\ new.got = cmd[p].got /\ new.step = s
          /\ new.since = cmd[p].since /\ new.wrote = cmd[p].wrote
      BY <3>2 DEF Command
    <3> HIDE DEF new
    <3> QED
      BY <2>1, <2>2, <3>1, <3>2, <3>3 DEF Sound, At
  <2> QED
    BY <2>2, <2>5, <2>6, <2>7, AloneTyped
<1>10. ASSUME NEW p \in Process, Exchange(p) PROVE Typing'
  <2>1. PICK u \in User : owner' = Append(owner, u)
    BY <1>10 DEF Exchange
  <2>2. /\ cmd' = [cmd EXCEPT ![p] = [cmd[p] EXCEPT !.step = "closing", !.got = New]]
        /\ At(p, "verifying") /\ New \in Token /\ accepted' = accepted \cup {New}
        /\ UNCHANGED <<file, said>>
    BY <1>10 DEF Exchange
  <2>3. /\ owner' \in Seq(User) /\ Len(owner') = New /\ New <= MaxTokens
        /\ DOMAIN owner' = 1 .. New /\ Len(owner) <= New
    BY <1>1, <2>1, <2>2, SessionAssumption DEF New, Token, Typing, TypeOK
  <2>4. /\ New \in DOMAIN owner' /\ accepted' \subseteq DOMAIN owner'
        /\ DOMAIN owner \subseteq DOMAIN owner'
    BY <1>1, <2>2, <2>3 DEF New, Typing, TypeOK
  <2>5. [cmd[p] EXCEPT !.step = "closing", !.got = New] \in Command
    BY <1>1, <2>2, CommandGets DEF Step
  <2>6. /\ cmd' \in [Process -> Command]
        /\ cmd'[p] = [cmd[p] EXCEPT !.step = "closing", !.got = New]
        /\ \A q \in Process \ {p} : cmd'[q] = cmd[q]
    BY <1>1, <2>2, <2>5
  <2>7. Sound(cmd[p])'
    BY <1>1, <2>2, <2>4, <2>6 DEF Sound, At, Command
  <2>8. Issued'
    BY <2>2, <2>4 DEF Issued, Typing
  <2> QED
    BY <1>1, <2>2, <2>3, <2>4, <2>6, <2>7, <2>8, GoesOnTyped DEF Typing, TypeOK
<1>11. ASSUME NEW p \in Process, Close(p) \/ Crash(p) PROVE Typing'
  <2> DEFINE s == IF cmd[p].got = Missing THEN "failed" ELSE "saving"
             closed == [NoCommand EXCEPT !.step = s, !.got = cmd[p].got]
             crashed == [NoCommand EXCEPT !.step = "failed", !.loaded = cmd[p].loaded,
                                          !.got = cmd[p].got]
  <2>1. UNCHANGED <<file, owner, accepted, said>>
    BY <1>11 DEF Close, Crash
  <2>2. /\ cmd[p] \in Command /\ cmd[p].loaded \in DOMAIN owner \cup {Missing}
        /\ cmd[p].got \in DOMAIN owner \cup {Missing}
    BY <1>1 DEF Sound
  <2>3. CASE Close(p)
    <3>1. cmd' = [cmd EXCEPT ![p] = closed]
      BY <2>3 DEF Close
    <3>2. closed \in Command
      BY <2>2, NoCommandTyped DEF Command, Step
    <3>3. Sound(closed)
      BY <1>1, <2>2 DEF Sound, NoCommand
    <3> QED
      BY <2>1, <3>1, <3>2, <3>3, AloneTyped
  <2>4. CASE Crash(p)
    <3>1. cmd' = [cmd EXCEPT ![p] = crashed]
      BY <2>4 DEF Crash
    <3>2. crashed \in Command
      BY <2>2, NoCommandTyped DEF Command, Step
    <3>3. Sound(crashed)
      BY <1>1, <2>2 DEF Sound, NoCommand
    <3> QED
      BY <2>1, <3>1, <3>2, <3>3, AloneTyped
  <2> QED
    BY <1>11, <2>3, <2>4
<1>12. ASSUME UNCHANGED vars PROVE Typing'
  BY <1>12 DEF vars, Typing, TypeOK, Issued, Sound
<1>13. ASSUME NEW p \in Process,
              RefreshFails(p) \/ SaveFails(p) \/ Logout(p) \/ Login(p) \/ ExchangeFails(p)
       PROVE  Typing'
  <2>1. PICK from \in Step, s \in Step :
          /\ At(p, from) /\ End(p, s) /\ UNCHANGED <<file, owner, accepted, said>>
          /\ \/ from = "idle" /\ s \in {"clearing", "browsing"}
             \/ from = "verifying" /\ s = "closing"
             \/ s = "failed"
    BY <1>13 DEF RefreshFails, SaveFails, Logout, Login, ExchangeFails, Step
  <2> QED
    BY <1>3, <2>1
<1> QED
  BY <1>2, <1>4, <1>5, <1>6, <1>7, <1>8, <1>9, <1>10, <1>11, <1>12, <1>13
     DEF Next, CommandStep, LoginStep

(* Tokens are ones that were issued, and a process holds no more requests  *)
(* of the browser than it got.                                             *)
THEOREM Typed == Spec => []TypeOK
<1>1. Typing => TypeOK
  BY DEF Typing
<1> QED
  BY <1>1, InitTyped, StepTyped, PTL DEF Spec

-----------------------------------------------------------------------------
(* A token is refused only after somebody was given another one for it,    *)
(* who never goes back.                                                    *)
Replaces(p, t) ==
  /\ cmd[p].loaded = t /\ cmd[p].got \notin {t, Missing}
  /\ cmd[p].step \in {"saving", "failed", "done"}

Replaced == \A t \in DOMAIN owner \ accepted : \E p \in Process : Replaces(p, t)

(* The token in the file is that of a command that is done, once one is.   *)
SavedBySomeone ==
  file \in Token =>
    \/ \E q \in Process : cmd[q].step = "done" /\ cmd[q].got = file
    \/ \A q \in Process : cmd[q].step # "done"

DeadTokensKnown == Replaced /\ SavedBySomeone

(* Whose the file may be by what was said, as LastWordHolds has it; and    *)
(* what a renewal that loaded it since the last word may make of it.       *)
Late(q) ==
  /\ cmd[q].step = "done" /\ ~ IsLogin(q) /\ cmd[q].got # Missing
  /\ cmd[q].since < cmd[q].wrote /\ cmd[q].wrote = Len(said)

Words ==
  {u \in User \cup {NoUser} :
     \/ said = <<>>
     \/ u = said[Len(said)]
     \/ \E q \in Process : Late(q) /\ u = owner[cmd[q].got]}

SameUser(p) ==
  cmd[p].loaded # Missing /\ cmd[p].got # Missing =>
    owner[cmd[p].got] = owner[cmd[p].loaded]

Current(p) ==
  /\ cmd[p].step \in {"renewing", "saving"}
  /\ cmd[p].loaded # Missing
  /\ cmd[p].since = Len(said)

WordsKept ==
  /\ FileUser \in Words
  /\ \A p \in Process : SameUser(p)
  /\ \A p \in Process : Current(p) => owner[cmd[p].loaded] \in Words

-----------------------------------------------------------------------------
(* A command that is about to save, or is over, keeps what it has.         *)
Settled(p) == cmd[p].step \in {"saving", "failed", "done"}

(* What a step of one command does to it, as far as tokens go.             *)
LEMMA OneMoves ==
  ASSUME Typing, NEW p \in Process,
         Load(p) \/ Logout(p) \/ Login(p) \/ CommandStep(p) \/ LoginStep(p)
           \/ Callback(p) \/ Crash(p)
  PROVE  /\ \A q \in Process \ {p} : cmd'[q] = cmd[q]
         /\ cmd[p].step \notin {"failed", "done"}
         /\ cmd[p].step = "saving" =>
              /\ cmd'[p].loaded = cmd[p].loaded /\ cmd'[p].got = cmd[p].got
              /\ cmd'[p].step \in {"failed", "done"}
         /\ cmd'[p].step = "done" => Save(p) \/ Clear(p)
<1>1. cmd \in [Process -> Command] /\ cmd[p] \in Command
  BY DEF Typing, TypeOK
<1>2. \A q \in Process \ {p} : cmd'[q] = cmd[q]
  BY <1>1 DEF Load, Logout, Login, CommandStep, LoginStep, Callback, Crash, Refresh,
       RefreshFails, Save, SaveFails, Clear, Timeout, TakeError, TakeCode, Exchange,
       ExchangeFails, Close, Renewed, End
<1>3. cmd[p].step \notin {"failed", "done"}
  BY <1>1 DEF Load, Logout, Login, CommandStep, LoginStep, Callback, Crash, Refresh,
       RefreshFails, Save, SaveFails, Clear, Timeout, TakeError, TakeCode, Exchange,
       ExchangeFails, Close, At, Serving, Over
<1>4. ASSUME cmd[p].step = "saving"
      PROVE  /\ cmd'[p].loaded = cmd[p].loaded /\ cmd'[p].got = cmd[p].got
             /\ cmd'[p].step \in {"failed", "done"}
  <2>1. Save(p) \/ SaveFails(p) \/ Crash(p)
    BY <1>4 DEF Load, Logout, Login, CommandStep, LoginStep, Callback, Refresh,
       RefreshFails, Clear, Timeout, TakeError, TakeCode, Exchange,
       ExchangeFails, Close, At, Serving
  <2>2. CASE Save(p)
    BY <1>1, <2>2 DEF Save, Command
  <2>3. CASE SaveFails(p)
    BY <1>1, <2>3 DEF SaveFails, End, Command
  <2>4. CASE Crash(p)
    BY <1>1, <2>4 DEF Crash, NoCommand
  <2> QED
    BY <2>1, <2>2, <2>3, <2>4
<1>5. ASSUME ~ Save(p), ~ Clear(p) PROVE cmd'[p].step # "done"
  <2>1. CASE Load(p) \/ Refresh(p)
    BY <1>1, <2>1 DEF Load, Refresh, Renewed, Command
  <2>2. CASE Logout(p) \/ Login(p) \/ RefreshFails(p) \/ SaveFails(p) \/ ExchangeFails(p)
    BY <1>1, <2>2 DEF Logout, Login, RefreshFails, SaveFails, ExchangeFails, End, Command
  <2>3. CASE Callback(p) \/ Timeout(p)
    BY <1>1, <1>3, <2>3 DEF Callback, Timeout, Command
  <2>4. CASE TakeError(p) \/ TakeCode(p) \/ Exchange(p)
    BY <1>1, <2>4 DEF TakeError, TakeCode, Exchange, Command
  <2>5. CASE Close(p)
    <3>1. cmd'[p].step = IF cmd[p].got = Missing THEN "failed" ELSE "saving"
      BY <1>1, <2>5 DEF Close, NoCommand
    <3> QED
      BY <3>1
  <2>6. CASE Crash(p)
    <3>1. cmd'[p].step = "failed"
      BY <1>1, <2>6 DEF Crash, NoCommand
    <3> QED
      BY <3>1
  <2> QED
    BY <1>5, <2>1, <2>2, <2>3, <2>4, <2>5, <2>6 DEF CommandStep, LoginStep
<1> QED
  BY <1>2, <1>3, <1>4, <1>5

LEMMA SettledStays ==
  Typing /\ [Next]_vars =>
    \A q \in Process : Settled(q) =>
      /\ Settled(q)'
      /\ cmd'[q].loaded = cmd[q].loaded /\ cmd'[q].got = cmd[q].got
      /\ cmd[q].step = "done" => cmd'[q] = cmd[q]
<1> SUFFICES ASSUME Typing, [Next]_vars, NEW q \in Process, Settled(q)
             PROVE  /\ Settled(q)'
                    /\ cmd'[q].loaded = cmd[q].loaded /\ cmd'[q].got = cmd[q].got
                    /\ cmd[q].step = "done" => cmd'[q] = cmd[q]
  OBVIOUS
<1>1. CASE UNCHANGED vars
  BY <1>1 DEF vars, Settled
<1>2. ASSUME NEW p \in Process,
             \/ Load(p) \/ Logout(p) \/ Login(p)
             \/ CommandStep(p) \/ LoginStep(p) \/ Callback(p) \/ Crash(p)
      PROVE  /\ Settled(q)'
             /\ cmd'[q].loaded = cmd[q].loaded /\ cmd'[q].got = cmd[q].got
             /\ cmd[q].step = "done" => cmd'[q] = cmd[q]
  BY <1>2, OneMoves DEF Settled
<1> QED
  BY <1>1, <1>2 DEF Next

LEMMA OwnerStays ==
  Typing /\ [Next]_vars =>
    /\ DOMAIN owner \subseteq DOMAIN owner'
    /\ \A t \in DOMAIN owner : owner'[t] = owner[t]
<1> SUFFICES ASSUME Typing, [Next]_vars
             PROVE  /\ DOMAIN owner \subseteq DOMAIN owner'
                    /\ \A t \in DOMAIN owner : owner'[t] = owner[t]
  OBVIOUS
<1>1. CASE UNCHANGED owner
  BY <1>1
<1>2. CASE \E u \in User : owner' = Append(owner, u)
  BY <1>2 DEF Typing, TypeOK
<1>3. owner' = owner \/ \E u \in User : owner' = Append(owner, u)
  <2>1. ASSUME NEW p \in Process, Refresh(p)
        PROVE  owner' = owner \/ \E u \in User : owner' = Append(owner, u)
    <3>1. cmd[p].loaded \in DOMAIN owner
      BY <2>1 DEF Refresh, Typing, Sound, At
    <3>2. owner[cmd[p].loaded] \in User
      BY <3>1 DEF Typing, TypeOK
    <3> QED
      BY <2>1, <3>2 DEF Refresh
  <2>2. ASSUME NEW p \in Process, Exchange(p)
        PROVE  \E u \in User : owner' = Append(owner, u)
    BY <2>2 DEF Exchange
  <2> QED
    BY <2>1, <2>2 DEF Next, vars, Load, Logout, Login, CommandStep, LoginStep, Callback,
         Crash, RefreshFails, Save, SaveFails, Clear, Timeout, TakeError, TakeCode,
         ExchangeFails, Close
<1> QED
  BY <1>1, <1>2, <1>3

(* Who changes the file, and who says something.                           *)
LEMMA WhoWrites ==
  [Next]_vars /\ ~ UNCHANGED <<file, said>> => \E p \in Process : Save(p) \/ Clear(p)
BY DEF Next, vars, Load, Logout, Login, CommandStep, LoginStep, Callback, Crash, Refresh,
       RefreshFails, SaveFails, Timeout, TakeError, TakeCode, Exchange, ExchangeFails, Close

-----------------------------------------------------------------------------
(* A token that is no longer accepted was replaced by the command that had *)
(* it renewed.                                                             *)
LEMMA ReplacedStays == Typing /\ Replaced /\ [Next]_vars => Replaced'
<1> SUFFICES ASSUME Typing, Replaced, [Next]_vars, NEW t \in DOMAIN owner' \ accepted'
             PROVE  \E p \in Process : Replaces(p, t)'
  BY DEF Replaced
<1>1. CASE t \in DOMAIN owner \ accepted
  <2>1. PICK p \in Process : Replaces(p, t)
    BY <1>1 DEF Replaced
  <2> QED
    BY <2>1, SettledStays DEF Replaces, Settled
<1>2. CASE t \notin DOMAIN owner \ accepted
  <2>1. owner \in Seq(User) /\ DOMAIN owner = 1 .. Len(owner) /\ Len(owner) \in Nat
    BY DEF Typing, TypeOK
  <2>2. owner' # owner \/ accepted' # accepted
    BY <1>2
  <2>3. PICK p \in Process : Refresh(p) \/ Exchange(p)
    BY <2>2 DEF Next, vars, Load, Logout, Login, CommandStep, LoginStep, Callback,
         Crash, RefreshFails, Save, SaveFails, Clear, Timeout, TakeError, TakeCode,
         ExchangeFails, Close
  <2>4. PICK u \in User : owner' = Append(owner, u)
    <3>1. CASE Exchange(p)
      BY <3>1 DEF Exchange
    <3>2. CASE Refresh(p)
      <4>1. cmd[p].loaded \in DOMAIN owner
        BY <3>2 DEF Refresh, Typing, Sound, At
      <4>2. owner[cmd[p].loaded] \in User
        BY <4>1 DEF Typing, TypeOK
      <4> QED
        BY <2>2, <3>2, <4>2 DEF Refresh
    <3> QED
      BY <2>3, <3>1, <3>2
  <2>5. DOMAIN owner' = DOMAIN owner \cup {New} /\ New \notin DOMAIN owner
    BY <2>1, <2>4 DEF New
  <2>6. New \in accepted'
    <3>1. owner' # owner
      BY <2>5
    <3> QED
      BY <2>3, <3>1 DEF Refresh, Exchange
  <2>7. t \in accepted /\ t \notin accepted' /\ t \in DOMAIN owner
    BY <1>2, <2>5, <2>6
  <2>8. /\ Refresh(p) /\ t = cmd[p].loaded /\ Renewed(p, New)
    BY <2>3, <2>7 DEF Refresh, Exchange
  <2>9. /\ cmd'[p].loaded = t /\ cmd'[p].got = New /\ cmd'[p].step = "saving"
    BY <2>8 DEF Renewed, Typing, TypeOK, Command
  <2>10. New # Missing
    BY <2>1 DEF New, Missing
  <2> QED
    BY <2>5, <2>7, <2>9, <2>10 DEF Replaces
<1> QED
  BY <1>1, <1>2

LEMMA SavedBySomeoneStays ==
  Typing /\ SavedBySomeone /\ [Next]_vars => SavedBySomeone'
<1> SUFFICES ASSUME Typing, SavedBySomeone, [Next]_vars, file' \in Token
             PROVE  \/ \E q \in Process : cmd'[q].step = "done" /\ cmd'[q].got = file'
                    \/ \A q \in Process : cmd'[q].step # "done"
  BY DEF SavedBySomeone
<1>1. CASE \E p \in Process : Save(p)
  <2>1. PICK p \in Process : Save(p)
    BY <1>1
  <2> QED
    BY <2>1 DEF Save, Saved, Typing, TypeOK, Command
<1>2. CASE \E p \in Process : Clear(p)
  BY <1>2 DEF Clear, ClearedFile, Missing, Token
<1>3. CASE ~ \E p \in Process : Save(p) \/ Clear(p)
  <2>1. file' = file
    BY <1>3, WhoWrites
  <2>2. ASSUME NEW q \in Process, cmd'[q].step = "done" PROVE cmd[q].step = "done"
    <3>1. CASE UNCHANGED vars
      BY <2>2, <3>1 DEF vars
    <3>2. ASSUME NEW p \in Process,
                 \/ Load(p) \/ Logout(p) \/ Login(p)
                 \/ CommandStep(p) \/ LoginStep(p) \/ Callback(p) \/ Crash(p)
          PROVE  cmd[q].step = "done"
      BY <1>3, <2>2, <3>2, OneMoves
    <3> QED
      BY <3>1, <3>2 DEF Next
  <2> QED
    BY <2>1, <2>2, SettledStays DEF SavedBySomeone, Settled
<1> QED
  BY <1>1, <1>2, <1>3

(* "The returned Credentials must be saved even when only the access token *)
(* changed" (auth.TokenProvider): a token in the file that is refused is   *)
(* explained by a renewal that has still to be saved or never was, or that *)
(* was saved and then overwritten by one that had kept the old token.      *)
THEOREM DeadTokensExplained == Spec => []DeadTokenIsExplained
<1>1. Init => DeadTokensKnown
  BY DEF Init, DeadTokensKnown, Replaced, SavedBySomeone, NoCommand
<1>2. Typing /\ DeadTokensKnown /\ [Next]_vars => DeadTokensKnown'
  BY ReplacedStays, SavedBySomeoneStays DEF DeadTokensKnown
<1>3. Typing /\ DeadTokensKnown => DeadTokenIsExplained
  <2> SUFFICES ASSUME Typing, DeadTokensKnown, file \in Token \ accepted
               PROVE  DeadTokenIsExplained
    BY DEF DeadTokenIsExplained
  <2>1. file \in DOMAIN owner \ accepted
    BY DEF Typing, Issued
  <2>2. PICK p \in Process : Replaces(p, file)
    BY <2>1 DEF DeadTokensKnown, Replaced
  <2>3. CASE cmd[p].step \in {"saving", "failed"}
    BY <2>2, <2>3 DEF DeadTokenIsExplained, Replaces
  <2>4. CASE cmd[p].step = "done"
    <3>1. PICK q \in Process : cmd[q].step = "done" /\ cmd[q].got = file
      BY <2>4 DEF DeadTokensKnown, SavedBySomeone
    <3>2. q # p
      BY <2>2, <3>1 DEF Replaces
    <3> QED
      BY <2>2, <3>1, <3>2 DEF DeadTokenIsExplained, Replaces
  <2> QED
    BY <2>2, <2>3, <2>4 DEF Replaces
<1> QED
  BY <1>1, <1>2, <1>3, InitTyped, StepTyped, PTL DEF Spec

-----------------------------------------------------------------------------
(* Until something new is said, whose the file may be only grows.          *)
LEMMA WordsGrow ==
  Typing /\ [Next]_vars /\ said' = said => Words \subseteq Words'
<1> SUFFICES ASSUME Typing, [Next]_vars, said' = said, NEW u \in Words PROVE u \in Words'
  OBVIOUS
<1>1. CASE said = <<>> \/ u = said[Len(said)]
  BY <1>1 DEF Words
<1>2. ASSUME NEW q \in Process, Late(q), u = owner[cmd[q].got] PROVE u \in Words'
  <2>1. cmd'[q] = cmd[q]
    BY <1>2, SettledStays DEF Late, Settled
  <2>2. cmd[q].got \in DOMAIN owner
    BY <1>2 DEF Typing, Sound, Late
  <2>3. owner'[cmd'[q].got] = u
    BY <1>2, <2>1, <2>2, OwnerStays
  <2>4. Late(q)'
    BY <1>2, <2>1 DEF Late, IsLogin
  <2> QED
    BY <2>3, <2>4 DEF Words
<1> QED
  BY <1>1, <1>2 DEF Words

LEMMA SameUserStays ==
  ASSUME Typing, [Next]_vars, NEW q \in Process, SameUser(q) PROVE SameUser(q)'
<1>1. CASE cmd'[q].loaded = cmd[q].loaded /\ cmd'[q].got = cmd[q].got
  BY <1>1, OwnerStays DEF SameUser, Typing, Sound
<1>2. CASE Refresh(q)
  <2>1. cmd[q].loaded \in DOMAIN owner /\ cmd[q] \in Command /\ owner \in Seq(User)
    BY <1>2 DEF Refresh, Typing, TypeOK, Sound, At
  <2>2. CASE Renewed(q, cmd[q].loaded) /\ UNCHANGED owner
    <3>1. cmd'[q].loaded = cmd[q].loaded /\ cmd'[q].got = cmd[q].loaded
      BY <2>1, <2>2 DEF Renewed, Typing, TypeOK, Command
    <3> QED
      BY <3>1 DEF SameUser
  <2>3. CASE Renewed(q, New) /\ owner' = Append(owner, owner[cmd[q].loaded])
    <3>1. cmd'[q].loaded = cmd[q].loaded /\ cmd'[q].got = New
      BY <2>1, <2>3 DEF Renewed, Typing, TypeOK, Command
    <3>2. owner'[New] = owner[cmd[q].loaded] /\ owner'[cmd[q].loaded] = owner[cmd[q].loaded]
      BY <2>1, <2>3 DEF New
    <3> QED
      BY <3>1, <3>2 DEF SameUser
  <2> QED
    BY <1>2, <2>2, <2>3 DEF Refresh
<1>3. \/ cmd'[q].loaded = cmd[q].loaded /\ cmd'[q].got = cmd[q].got
      \/ Refresh(q)
      \/ cmd'[q].loaded = Missing \/ cmd'[q].got = Missing
  <2>1. cmd[q] \in Command /\ Sound(cmd[q]) /\ cmd \in [Process -> Command]
    BY DEF Typing, TypeOK
  <2>2. CASE UNCHANGED vars
    BY <2>2 DEF vars
  <2>3. ASSUME NEW p \in Process \ {q},
               \/ Load(p) \/ Logout(p) \/ Login(p)
               \/ CommandStep(p) \/ LoginStep(p) \/ Callback(p) \/ Crash(p)
        PROVE  cmd'[q] = cmd[q]
    BY <2>3, OneMoves
  <2>4. CASE Load(q)
    BY <2>1, <2>4 DEF Load, At, Command, Sound
  <2>5. CASE Exchange(q)
    BY <2>1, <2>5 DEF Exchange, At, Command, Sound
  <2>6. CASE Close(q) \/ Crash(q)
    <3>1. CASE Close(q)
      BY <2>1, <3>1 DEF Close, NoCommand
    <3>2. CASE Crash(q)
      BY <2>1, <3>2 DEF Crash, NoCommand
    <3> QED
      BY <2>6, <3>1, <3>2
  <2>7. CASE Logout(q) \/ Login(q) \/ RefreshFails(q) \/ SaveFails(q) \/ ExchangeFails(q)
               \/ Clear(q) \/ Save(q)
    BY <2>1, <2>7 DEF Logout, Login, RefreshFails, SaveFails, ExchangeFails, Clear, Save,
         End, Command
  <2>8. CASE Callback(q) \/ Timeout(q) \/ TakeError(q) \/ TakeCode(q)
    BY <2>1, <2>8 DEF Callback, Timeout, TakeError, TakeCode, Command
  <2>9. CASE \/ Load(q) \/ Logout(q) \/ Login(q)
             \/ CommandStep(q) \/ LoginStep(q) \/ Callback(q) \/ Crash(q)
    BY <2>4, <2>5, <2>6, <2>7, <2>8, <2>9 DEF CommandStep, LoginStep
  <2> QED
    BY <2>2, <2>3, <2>9 DEF Next
<1> QED
  BY <1>1, <1>2, <1>3 DEF SameUser

LEMMA CurrentStays ==
  ASSUME Typing, [Next]_vars, WordsKept, said' = said, NEW q \in Process, Current(q)'
  PROVE  owner'[cmd'[q].loaded] \in Words'
<1>1. cmd[q] \in Command /\ Sound(cmd[q]) /\ cmd \in [Process -> Command]
  BY DEF Typing, TypeOK
<1>2. CASE Load(q)
  <2>1. cmd'[q].loaded = file /\ file \in Token
    BY <1>1, <1>2 DEF Load, Loads, Command
  <2>2. file \in DOMAIN owner /\ FileUser = owner[file]
    BY <2>1 DEF Typing, Issued, FileUser
  <2> QED
    BY <2>1, <2>2, OwnerStays, WordsGrow DEF WordsKept
<1>3. CASE Current(q) /\ cmd'[q].loaded = cmd[q].loaded
  <2>1. cmd[q].loaded \in DOMAIN owner
    BY <1>1, <1>3 DEF Sound, Current
  <2> QED
    BY <1>3, <2>1, OwnerStays, WordsGrow DEF WordsKept
<1>4. Load(q) \/ (Current(q) /\ cmd'[q].loaded = cmd[q].loaded)
  <2>1. CASE UNCHANGED vars
    BY <2>1 DEF vars, Current
  <2>2. ASSUME NEW p \in Process \ {q},
               \/ Load(p) \/ Logout(p) \/ Login(p)
               \/ CommandStep(p) \/ LoginStep(p) \/ Callback(p) \/ Crash(p)
        PROVE  cmd'[q] = cmd[q]
    BY <2>2, OneMoves
  <2>3. ASSUME \/ Load(q) \/ Logout(q) \/ Login(q)
               \/ CommandStep(q) \/ LoginStep(q) \/ Callback(q) \/ Crash(q)
        PROVE  Load(q) \/ Refresh(q)
    <3>1. CASE Clear(q) \/ Save(q)
      BY <1>1, <3>1 DEF Clear, Save, End, Command, Current
    <3>2. CASE Logout(q) \/ Login(q) \/ RefreshFails(q) \/ SaveFails(q) \/ ExchangeFails(q)
      BY <1>1, <3>2 DEF Logout, Login, RefreshFails, SaveFails, ExchangeFails, End, Command,
           Current
    <3>3. CASE Callback(q) \/ Timeout(q)
      BY <1>1, <3>3 DEF Callback, Timeout, Serving, At, Command, Current
    <3>4. CASE TakeError(q) \/ TakeCode(q) \/ Exchange(q)
      BY <1>1, <3>4 DEF TakeError, TakeCode, Exchange, Command, Current
    <3>5. CASE Close(q)
      BY <1>1, <3>5 DEF Close, NoCommand, Current
    <3>6. CASE Crash(q)
      BY <1>1, <3>6 DEF Crash, NoCommand, Current
    <3> QED
      BY <2>3, <3>1, <3>2, <3>3, <3>4, <3>5, <3>6 DEF CommandStep, LoginStep
  <2>4. CASE Refresh(q)
    <3>1. \E t : Renewed(q, t)
      BY <2>4 DEF Refresh
    <3>2. cmd'[q].loaded = cmd[q].loaded /\ cmd'[q].since = cmd[q].since
      BY <1>1, <3>1 DEF Renewed, Command
    <3> QED
      BY <2>4, <3>2 DEF Refresh, At, Current
  <2> QED
    BY <2>1, <2>2, <2>3, <2>4 DEF Next, Current
<1> QED
  BY <1>2, <1>3, <1>4

LEMMA WordsStayKept == Typing /\ WordsKept /\ [Next]_vars => WordsKept'
<1> SUFFICES ASSUME Typing, WordsKept, [Next]_vars PROVE WordsKept'
  OBVIOUS
<1>1. \A q \in Process : SameUser(q)'
  BY SameUserStays DEF WordsKept
<1>2. said \in Seq(User \cup {NoUser}) /\ Len(said) \in Nat /\ cmd \in [Process -> Command]
  BY DEF Typing, TypeOK
<1>3. CASE ~ \E p \in Process : Save(p) \/ Clear(p)
  <2>1. UNCHANGED <<file, said>>
    BY <1>3, WhoWrites
  <2>2. FileUser' = FileUser
    BY <2>1, OwnerStays DEF FileUser, Typing, Issued
  <2> QED
    BY <1>1, <2>1, <2>2, WordsGrow, CurrentStays DEF WordsKept
<1>4. ASSUME NEW p \in Process, NEW u \in User \cup {NoUser},
             Save(p) \/ Clear(p), said' = Append(said, u), FileUser' = u
      PROVE  WordsKept'
  <2>1. Len(said') = Len(said) + 1 /\ said'[Len(said')] = u
    BY <1>2, <1>4
  <2>2. FileUser' \in Words'
    BY <1>4, <2>1 DEF Words
  <2>3. ASSUME NEW q \in Process PROVE ~ Current(q)'
    <3>1. CASE q = p
      BY <1>2, <1>4, <3>1 DEF Save, Clear, End, Current, Command
    <3>2. CASE q # p
      <4>1. cmd'[q] = cmd[q]
        BY <1>4, <3>2, OneMoves DEF CommandStep
      <4>2. cmd[q].since <= Len(said) /\ cmd[q].since \in Nat
        BY <1>2 DEF Typing, Sound, Command
      <4> QED
        BY <1>2, <2>1, <4>1, <4>2 DEF Current
    <3> QED
      BY <3>1, <3>2
  <2> QED
    BY <1>1, <2>2, <2>3 DEF WordsKept
<1>5. ASSUME NEW p \in Process, Clear(p) PROVE WordsKept'
  <2>1. said' = Append(said, NoUser) /\ FileUser' = NoUser
    BY <1>5 DEF Clear, ClearedFile, FileUser, Token, Missing
  <2> QED
    BY <1>4, <1>5, <2>1
<1>6. ASSUME NEW p \in Process, Save(p) PROVE WordsKept'
  <2>1. /\ cmd[p].got \in DOMAIN owner /\ cmd[p].got # Missing /\ cmd[p].step = "saving"
        /\ owner[cmd[p].got] \in User
        /\ cmd[p].loaded \in DOMAIN owner \cup {Missing}
        /\ cmd[p].since <= Len(said) /\ cmd[p].since \in Nat /\ cmd[p].got \in Token
    <3>1. At(p, "saving") /\ Sound(cmd[p]) /\ cmd[p] \in Command /\ owner \in Seq(User)
      BY <1>6 DEF Save, Typing, TypeOK
    <3>2. cmd[p].got \in DOMAIN owner /\ cmd[p].got # Missing
      BY <3>1 DEF At, Sound
    <3> QED
      BY <3>1, <3>2 DEF At, Sound, Command
  <2>2. FileUser' = owner[cmd[p].got]
    BY <1>6, <2>1 DEF Save, Saved, FileUser
  <2>3. CASE IsLogin(p)
    <3>1. said' = Append(said, owner[cmd[p].got])
      BY <1>6, <2>3 DEF Save, Saved
    <3> QED
      BY <1>4, <1>6, <2>1, <2>2, <3>1
  <2>4. CASE ~ IsLogin(p)
    <3>1. said' = said
      BY <1>6, <2>4 DEF Save
    <3>2. FileUser' \in Words'
      <4>1. CASE cmd[p].since = Len(said)
        <5>1. Current(p)
          BY <2>1, <2>4, <4>1 DEF Current, IsLogin
        <5>2. owner[cmd[p].got] = owner[cmd[p].loaded]
          BY <2>1, <2>4 DEF WordsKept, SameUser, IsLogin
        <5> QED
          BY <2>2, <3>1, <5>1, <5>2, WordsGrow DEF WordsKept
      <4>2. CASE cmd[p].since < Len(said)
        <5>1. /\ cmd'[p].step = "done" /\ cmd'[p].wrote = Len(said')
              /\ cmd'[p].since = cmd[p].since /\ cmd'[p].got = cmd[p].got
              /\ cmd'[p].loaded = cmd[p].loaded
          BY <1>2, <1>6 DEF Save, Command
        <5>2. Late(p)'
          BY <2>1, <2>4, <3>1, <4>2, <5>1 DEF Late, IsLogin
        <5>3. owner'[cmd'[p].got] = owner[cmd[p].got]
          BY <2>1, <5>1, OwnerStays
        <5> QED
          BY <2>1, <2>2, <5>2, <5>3 DEF Words
      <4> QED
        BY <1>2, <2>1, <4>1, <4>2
    <3> QED
      BY <1>1, <3>1, <3>2, CurrentStays DEF WordsKept
  <2> QED
    BY <2>3, <2>4
<1> QED
  BY <1>3, <1>5, <1>6

(* After "Logged in as" or "Logged out of" the file is what was said last, *)
(* unless a command that had loaded the session before that wrote it back  *)
(* afterwards (AccessToken's Load, Refresh, Save, with no lock).           *)
THEOREM LastWordsHold == Spec => []LastWordHolds
<1>1. Init => WordsKept
  <2> SUFFICES ASSUME Init PROVE WordsKept
    OBVIOUS
  <2>1. FileUser \in Words
    <3>1. CASE file \in {Missing, Damaged} /\ owner = <<>>
      BY <3>1, SessionAssumption DEF Init, FileUser, Words, Token, Missing, Damaged
    <3>2. CASE file = 1 /\ owner \in {<<u>> : u \in User}
      BY <3>2, SessionAssumption DEF Init, FileUser, Words, Token
    <3> QED
      BY <3>1, <3>2 DEF Init
  <2>2. \A p \in Process : cmd[p] = NoCommand
    BY DEF Init
  <2> QED
    BY <2>1, <2>2 DEF WordsKept, SameUser, Current, NoCommand
<1>2. WordsKept => LastWordHolds
  BY DEF WordsKept, Words, Late, LastWordHolds
<1> QED
  BY <1>1, <1>2, InitTyped, StepTyped, WordsStayKept, PTL DEF Spec
=============================================================================
