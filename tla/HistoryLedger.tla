---------------------------- MODULE HistoryLedger ----------------------------
(***************************************************************************)
(* What the history of one repository promises, with no store behind it:   *)
(* a ledger of scans that only grows, except that its oldest entries may   *)
(* be retired and an entry's report may be lost, and a lifecycle index     *)
(* that is at every moment what the ledger says by HistoryRules.           *)
(***************************************************************************)
EXTENDS HistoryRules

VARIABLES
  ledger,   \* the scans, oldest first
  index     \* the lifecycle index

vars == <<ledger, index>>

Entry ==
  [id : RunID, scope : Scope, ran : SUBSET Scanner,
   found : [Fingerprint -> SUBSET Scanner], counted : BOOLEAN]

-----------------------------------------------------------------------------
Init ==
  /\ ledger = <<>>
  /\ index = EmptyIndex

(* A scan is recorded whole, with an id after every id in the ledger.      *)
Record(e) ==
  /\ e.counted
  /\ e.id > NewestID(ledger)
  /\ ledger' = Append(ledger, e)
  /\ IndexOf(ledger', index')

(* The first n entries are retired, never the newest, and entries whose    *)
(* report is lost stop counting.                                           *)
Retire(n) ==
  /\ n \in 0 .. Len(ledger) - 1
  /\ Len(ledger') = Len(ledger) - n
  /\ \A i \in DOMAIN ledger' :
       /\ ledger'[i].counted => ledger[i + n].counted
       /\ ledger'[i] = [ledger[i + n] EXCEPT !.counted = ledger'[i].counted]
  /\ IndexOf(ledger', index')

Forget ==
  /\ ledger' = <<>>
  /\ index' = EmptyIndex

Next ==
  \/ ledger' # <<>> /\ Record(ledger'[Len(ledger')])
  \/ \E n \in 0 .. Len(ledger) - 1 : Retire(n)
  \/ Forget

Spec == Init /\ [][Next]_vars
=============================================================================
