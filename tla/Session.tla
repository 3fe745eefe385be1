------------------------------ MODULE Session ------------------------------
(* The login session of a machine: ~/.pindrop/credentials.json, shared by  *)
(* every pindrop process with no lock.  login asks a browser for a code    *)
(* through a local callback server and saves the token it exchanges it     *)
(* for; every command that talks to the API loads the token, has it        *)
(* renewed, and saves the token it got; logout removes the file.           *)
(*                                                                         *)
(* GoTrue, which issues the tokens, is modelled by what the CLI tells of   *)
(* it: it may issue a new token at a renewal, and then accept the old one  *)
(* no longer.  A process runs one command.                                 *)
EXTENDS Naturals, Sequences, FiniteSets

CONSTANTS
  Process,
  User,
  MaxTokens,    \* bound: tokens ever issued
  Browsing,     \* bound: the processes that may log in
  MaxCallbacks  \* bound: requests a callback server gets

ASSUME SessionAssumption == MaxTokens \in Nat \ {0} /\ MaxCallbacks \in Nat

VARIABLES
  file,         \* the credentials file
  owner,        \* owner[t] is the user token t was issued to
  accepted,     \* the tokens that can be renewed
  cmd,          \* cmd[p] is the command of p and how far it got
  said          \* what logins and logouts reported done, in order

vars == <<file, owner, accepted, cmd, said>>

Missing == 0

Token == 1 .. MaxTokens

Damaged == MaxTokens + 1

NoUser == "nobody"

Step == {"idle", "renewing", "clearing", "browsing", "verifying", "closing",
         "saving", "done", "failed"}

Over == {"done", "failed"}

(* loaded is the token a command found, got the one it will save, since and*)
(* wrote are how much had been said when it loaded and when it saved.      *)
(* codes and errs are the channels of the callback server, blocked the     *)
(* handlers waiting to send on one of them, expired the login's timeout.   *)
Command ==
  [step : Step, loaded : Token \cup {Missing}, got : Token \cup {Missing},
   since : Nat, wrote : Nat,
   codes : 0 .. 1, errs : 0 .. 1, calls : 0 .. MaxCallbacks,
   blocked : [{"code", "error"} -> 0 .. MaxCallbacks], expired : BOOLEAN]

NoCommand ==
  [step |-> "idle", loaded |-> Missing, got |-> Missing, since |-> 0, wrote |-> 0,
   codes |-> 0, errs |-> 0, calls |-> 0,
   blocked |-> [k \in {"code", "error"} |-> 0], expired |-> FALSE]

(* No session, a file that does not decode, or a session.                  *)
Init ==
  /\ \/ file \in {Missing, Damaged} /\ owner = <<>>
     \/ file = 1 /\ owner \in {<<u>> : u \in User}
  /\ accepted = DOMAIN owner
  /\ cmd = [p \in Process |-> NoCommand]
  /\ said = owner

At(p, step) == cmd[p].step = step

End(p, how) == cmd' = [cmd EXCEPT ![p].step = how]

(* Load: a file that does not decode or has no token is an error of its own*)
Loads == file \in Token

(* GoTrue issues a token.                                                  *)
New == Len(owner) + 1

-----------------------------------------------------------------------------
(* AccessToken: Load, then Refresh, then Save.                             *)
Load(p) ==
  /\ At(p, "idle")
  /\ Loads
  /\ cmd' = [cmd EXCEPT ![p].step = "renewing", ![p].loaded = file,
                        ![p].since = Len(said)]
  /\ UNCHANGED <<file, owner, accepted, said>>

Renewed(p, t) == cmd' = [cmd EXCEPT ![p].step = "saving", ![p].got = t]

(* The same token again, or a new one instead of it.                       *)
Refresh(p) ==
  LET t == cmd[p].loaded
  IN  /\ At(p, "renewing")
      /\ t \in accepted
      /\ \/ Renewed(p, t) /\ UNCHANGED <<owner, accepted>>
         \/ /\ New \in Token
            /\ owner' = Append(owner, owner[t])
            /\ accepted' = (accepted \ {t}) \cup {New}
            /\ Renewed(p, New)
      /\ UNCHANGED <<file, said>>

(* No answer, or the token is refused: the file stays as it is.            *)
RefreshFails(p) ==
  /\ At(p, "renewing")
  /\ End(p, "failed")
  /\ UNCHANGED <<file, owner, accepted, said>>

IsLogin(p) == cmd[p].loaded = Missing

(* Faulty variant: the credentials that were loaded are saved.             *)
SavedWithoutRotation(p) == IF IsLogin(p) THEN cmd[p].got ELSE cmd[p].loaded

Saved(p) == cmd[p].got

(* The file is replaced in one rename.                                     *)
Save(p) ==
  /\ At(p, "saving")
  /\ file' = Saved(p)
  /\ said' = IF IsLogin(p) THEN Append(said, owner[Saved(p)]) ELSE said
  /\ cmd' = [cmd EXCEPT ![p].step = "done", ![p].wrote = Len(said')]
  /\ UNCHANGED <<owner, accepted>>

SaveFails(p) ==
  /\ At(p, "saving")
  /\ End(p, "failed")
  /\ UNCHANGED <<file, owner, accepted, said>>

-----------------------------------------------------------------------------
(* logout: nothing to do without a session, and nothing done to a file that*)
(* does not decode.                                                        *)
Logout(p) ==
  /\ At(p, "idle")
  /\ Loads
  /\ End(p, "clearing")
  /\ UNCHANGED <<file, owner, accepted, said>>

(* Faulty variant: the file is left behind.                                *)
LeftFile == file

ClearedFile == Missing

Clear(p) ==
  /\ At(p, "clearing")
  /\ file' = ClearedFile
  /\ said' = Append(said, NoUser)
  /\ End(p, "done")
  /\ UNCHANGED <<owner, accepted>>

-----------------------------------------------------------------------------
(* login: with --force, or after it was confirmed, over a session; never   *)
(* over a file that does not decode.  The callback server starts.          *)
Login(p) ==
  /\ At(p, "idle")
  /\ p \in Browsing
  /\ Loads \/ file = Missing
  /\ End(p, "browsing")
  /\ UNCHANGED <<file, owner, accepted, said>>

Serving(p) == cmd[p].step \in {"browsing", "verifying"} /\ ~ cmd[p].expired

(* A request with a code gets its page and then sends the code; one with an*)
(* error, or without a code, sends the error first.  Each channel holds one*)
(* message, and the handler of a second one blocks.                        *)
Callback(p) ==
  /\ Serving(p)
  /\ cmd[p].calls < MaxCallbacks
  /\ \/ cmd' = [cmd EXCEPT ![p].calls = @ + 1, ![p].codes = 1,
                           ![p].blocked["code"] = @ + cmd[p].codes]
     \/ cmd' = [cmd EXCEPT ![p].calls = @ + 1, ![p].errs = 1,
                           ![p].blocked["error"] = @ + cmd[p].errs]
  /\ UNCHANGED <<file, owner, accepted, said>>

(* Login's context runs out after two minutes.                             *)
Timeout(p) ==
  /\ At(p, "browsing") \/ At(p, "verifying")
  /\ ~ cmd[p].expired
  /\ cmd' = [cmd EXCEPT ![p].expired = TRUE]
  /\ UNCHANGED <<file, owner, accepted, said>>

(* The select: any of the three that is ready.                             *)
TakeError(p) ==
  /\ At(p, "browsing")
  /\ cmd[p].expired \/ cmd[p].errs = 1
  /\ LET waiting == cmd[p].blocked["error"]
     IN  cmd' = [cmd EXCEPT ![p].step = "closing",
                   ![p].blocked["error"] =
                     IF cmd[p].errs = 1 /\ waiting > 0 THEN waiting - 1 ELSE waiting]
  /\ UNCHANGED <<file, owner, accepted, said>>

(* The handler that waited to send its code sends it.                      *)
TakeCode(p) ==
  /\ At(p, "browsing")
  /\ cmd[p].codes = 1
  /\ LET waiting == cmd[p].blocked["code"]
     IN  cmd' = [cmd EXCEPT ![p].step = "verifying",
                   ![p].codes = IF waiting > 0 THEN 1 ELSE 0,
                   ![p].blocked["code"] = IF waiting > 0 THEN waiting - 1 ELSE 0]
  /\ UNCHANGED <<file, owner, accepted, said>>

Exchange(p) ==
  /\ At(p, "verifying")
  /\ ~ cmd[p].expired
  /\ New \in Token
  /\ \E u \in User : owner' = Append(owner, u)
  /\ accepted' = accepted \cup {New}
  /\ cmd' = [cmd EXCEPT ![p].step = "closing", ![p].got = New]
  /\ UNCHANGED <<file, said>>

ExchangeFails(p) ==
  /\ At(p, "verifying")
  /\ End(p, "closing")
  /\ UNCHANGED <<file, owner, accepted, said>>

(* Faulty variant: the server is shut down with no limit of time.          *)
ShutdownWhenQuiet(p) == \A k \in {"code", "error"} : cmd[p].blocked[k] = 0

(* Shutdown waits for the handlers, but for two seconds at most.           *)
ShutdownReturns(p) == TRUE

(* cleanup, before Login returns: with credentials or an error.            *)
Close(p) ==
  /\ At(p, "closing")
  /\ ShutdownReturns(p)
  /\ cmd' = [cmd EXCEPT ![p] =
       [NoCommand EXCEPT !.step = IF cmd[p].got = Missing THEN "failed" ELSE "saving",
                         !.got = cmd[p].got]]
  /\ UNCHANGED <<file, owner, accepted, said>>

(* A process dies; what it got and did not save stays with it.             *)
Crash(p) ==
  /\ cmd[p].step \notin Over \cup {"idle"}
  /\ cmd' = [cmd EXCEPT ![p] = [NoCommand EXCEPT !.step = "failed",
                               !.loaded = cmd[p].loaded, !.got = cmd[p].got]]
  /\ UNCHANGED <<file, owner, accepted, said>>

LoginStep(p) ==
  \/ Timeout(p) \/ TakeError(p) \/ TakeCode(p)
  \/ Exchange(p) \/ ExchangeFails(p) \/ Close(p)

CommandStep(p) ==
  Refresh(p) \/ RefreshFails(p) \/ Save(p) \/ SaveFails(p) \/ Clear(p)

Next ==
  \E p \in Process :
    \/ Load(p) \/ Logout(p) \/ Login(p)
    \/ CommandStep(p) \/ LoginStep(p)
    \/ Callback(p) \/ Crash(p)

(* A command goes on; the browser and the user need not.                   *)
Fairness == \A p \in Process : WF_vars(CommandStep(p) \/ LoginStep(p))

Spec == Init /\ [][Next]_vars /\ Fairness

-----------------------------------------------------------------------------
TypeOK ==
  /\ file \in Token \cup {Missing, Damaged}
  /\ owner \in Seq(User) /\ Len(owner) <= MaxTokens
  /\ accepted \subseteq DOMAIN owner
  /\ cmd \in [Process -> Command]
  /\ said \in Seq(User \cup {NoUser})

(* "The returned Credentials must be saved even when only the access token *)
(* changed": the file holds a token that is refused only while, or after,  *)
(* the process that renewed it still had to save the new one, or when two  *)
(* renewals of it overlapped and the one that kept it was saved last.      *)
DeadTokenIsExplained ==
  file \in Token \ accepted =>
    \E p \in Process :
      /\ cmd[p].loaded = file /\ cmd[p].got \notin {file, Missing}
      /\ \/ cmd[p].step \in {"saving", "failed"}
         \/ \E q \in Process \ {p} : cmd[q].got = file /\ cmd[q].step = "done"

FileUser == IF file \in Token THEN owner[file] ELSE NoUser

(* After "Logged in as" or "Logged out of" the file is what was said, also *)
(* when other commands renew the token, unless a command that had loaded   *)
(* the session before saved it afterwards.                                 *)
LastWordHolds ==
  \/ said = <<>>
  \/ FileUser = said[Len(said)]
  \/ \E p \in Process :
       /\ cmd[p].step = "done" /\ ~ IsLogin(p)
       /\ cmd[p].since < cmd[p].wrote /\ cmd[p].wrote = Len(said)
       /\ FileUser = owner[cmd[p].got]

(* Whatever the browser does, or does not do, a command comes to its end.  *)
CommandEnds ==
  \A p \in Process :
    cmd[p].step # "idle" ~> cmd[p].step \in Over
=============================================================================
