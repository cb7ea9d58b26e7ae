--------------------------- MODULE FindingLedger ---------------------------
(***************************************************************************)
(* What an engagement's findings promise a reader, whatever the sessions    *)
(* behind them do: a numbered list of distinct issues that only grows, the  *)
(* evidence for each issue, which only grows, and a status that only a      *)
(* human changes.  A scan adds its issues and its evidence in one step.     *)
(***************************************************************************)
EXTENDS Lifecycle, Naturals, Sequences

CONSTANTS Scans, Keys

VARIABLES
  ledger,   \* issue number -> dedup key
  refs,     \* evidence references: which scan's draft speaks for which key
  status,   \* key -> status; "new" for a key not in the ledger
  triaged   \* keys a human has triaged at least once

ledgerVars == <<ledger, refs, status, triaged>>

Issues(l) == {l[n] : n \in 1..Len(l)}

Init ==
  /\ ledger = <<>>
  /\ refs = {}
  /\ status = [k \in Keys |-> "new"]
  /\ triaged = {}

\* A scan records what it found: new issues get the next numbers, each with
\* evidence of this scan, and issues already there may get more of it.
Record(s) ==
  /\ Len(ledger) <= Len(ledger')
  /\ \A n \in 1..Len(ledger) : ledger'[n] = ledger[n]
  /\ \A m, n \in 1..Len(ledger') : ledger'[m] = ledger'[n] => m = n
  /\ refs \subseteq refs'
  /\ \A r \in refs' \ refs : r.scan = s /\ r.key \in Issues(ledger')
  /\ \A n \in Len(ledger)+1..Len(ledger') :
        \E r \in refs' : r.scan = s /\ r.key = ledger'[n]
  /\ UNCHANGED <<status, triaged>>

\* A human rules on an issue.  Nothing is confirmed that was never triaged,
\* and nothing becomes new again.
Judge(k) ==
  /\ k \in Issues(ledger)
  /\ \E to \in FindingStatus \ {"new"} :
       /\ to = "validated" => k \in triaged
       /\ status' = [status EXCEPT ![k] = to]
       /\ triaged' = IF to = "triaged" THEN triaged \cup {k} ELSE triaged
  /\ UNCHANGED <<ledger, refs>>

Next == (\E s \in Scans : Record(s)) \/ (\E k \in Keys : Judge(k))

Spec == Init /\ [][Next]_ledgerVars

=============================================================================
