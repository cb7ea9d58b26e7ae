------------------------------ MODULE ScanRun ------------------------------
(***************************************************************************)
(* A scan from its request to its answer (api/engagements.py,               *)
(* scan_engagement; services/scan_runner.py): load the credential if asked   *)
(* to, probe (ScanProbe), persist what was captured (ScanPersist) - while    *)
(* operators change the credential (Credentials) and the process may be      *)
(* restarted with another secret.  Scans probe one after the other here;     *)
(* their probes share nothing but the credential.  They persist at the same  *)
(* time.                                                                   *)
(***************************************************************************)
EXTENDS ScanProbe, Credentials

CONSTANTS Scans, NoScan

ASSUME NoScanAssumption == NoScan \notin Scans

\* A stored credential is named by the request that stored it.
ASSUME StoredAuthAssumption ==
  /\ Requests \subseteq AuthCredential
  /\ {Anonymous, Unreadable} \cap Requests = {}
  /\ NoAuth \notin AuthCredential
  /\ \A e \in Engagements, a \in Requests \cup {NoAuth} :
       /\ {"mode", "scope_allow", "scope_deny", "targets", "auth"} \subseteq DOMAIN e
       /\ [e EXCEPT !.auth = a] \in Engagements

VARIABLES
  probing,     \* the scan that probes, what it was asked and what it loaded
  answer,      \* of the scan requests that ended before they persisted
  persist_pc, persist_captured, attempt, next, by_key, high_water, allocated, raised, appended,
  findings, evidence, events, scans

storeVars == <<persist_pc, persist_captured, attempt, next, by_key, high_water, allocated, raised,
               appended, findings, evidence, events, scans>>
runVars   == <<vars, credVars, probing, answer, storeVars>>

\* One draft per page that sets off a rule: the URL is its dedup key.
Draft(target) == [key |-> target, severity |-> 0]

Store == INSTANCE ScanPersist WITH
  Keys        <- Urls,
  MaxSeverity <- 0,
  MAX_PERSIST_ATTEMPTS <- 3,
  Captures    <- {<<>>} \cup {<<Draft(u)>> : u \in Urls}
                 \cup {<<Draft(u), Draft(v)>> : u, v \in Urls},
  FkEnforced  <- FALSE,
  pc          <- persist_pc,
  captured    <- persist_captured

NotProbing == [scan |-> NoScan, authenticated |-> FALSE, auth |-> NoAuth]

RunInit ==
  /\ Init
  /\ engagement.auth = NoAuth
  /\ CredInit
  /\ Store!StoreInit
  /\ Store!ScanInit
  /\ probing = NotProbing
  /\ answer = [s \in Scans |-> "none"]

-----------------------------------------------------------------------------
\* Variant: a credential that cannot be read is no credential.
StartScan_anonymous(s, authenticated) ==
  /\ probing = NotProbing
  /\ answer[s] = "none"
  /\ LET auth == IF authenticated THEN load_auth ELSE Anonymous
     IN  IF authenticated /\ auth = Anonymous
         THEN /\ answer' = [answer EXCEPT ![s] = "400"]
              /\ UNCHANGED <<vars, probing>>
         ELSE /\ answer' = [answer EXCEPT ![s] = "under way"]
              /\ probing' = [scan |-> s, authenticated |-> authenticated,
                             auth |-> IF auth \in {Anonymous, Unreadable} THEN NoAuth ELSE auth]
              /\ engagement' = [engagement EXCEPT !.auth = probing'.auth]
              /\ policy' = ScanPolicy(engagement')
              /\ UNCHANGED <<phase, callVars, outcome, wire, adapter, safe_mode, pc, index,
                             handshake, scanned, skipped, captured>>
  /\ UNCHANGED <<credVars, storeVars>>

\* scan_engagement up to the safety gate: 400 if there is no credential to
\* load, 500 if the one there cannot be decrypted.
StartScan(s, authenticated) ==
  /\ probing = NotProbing
  /\ answer[s] = "none"
  /\ LET auth == IF authenticated THEN load_auth ELSE Anonymous
     IN  IF authenticated /\ auth \in {Anonymous, Unreadable}
         THEN /\ answer' = [answer EXCEPT ![s] = IF auth = Anonymous THEN "400" ELSE "500"]
              /\ UNCHANGED <<vars, probing>>
         ELSE /\ answer' = [answer EXCEPT ![s] = "under way"]
              /\ probing' = [scan |-> s, authenticated |-> authenticated,
                             auth |-> IF auth = Anonymous THEN NoAuth ELSE auth]
              /\ engagement' = [engagement EXCEPT !.auth = probing'.auth]
              /\ policy' = ScanPolicy(engagement')
              /\ UNCHANGED <<phase, callVars, outcome, wire, adapter, safe_mode, pc, index,
                             handshake, scanned, skipped, captured>>
  /\ UNCHANGED <<credVars, storeVars>>

ProbeStep ==
  /\ probing # NotProbing
  /\ Next
  /\ UNCHANGED <<credVars, probing, answer, storeVars>>

\* The locals of the probe phase are gone.
ProbeOver ==
  /\ probing' = NotProbing
  /\ engagement' = [engagement EXCEPT !.auth = NoAuth]
  /\ policy' = ScanPolicy(engagement')
  /\ End
  /\ pc' = "gate"
  /\ index' = 1
  /\ handshake' = FALSE
  /\ scanned' = 0
  /\ skipped' = 0
  /\ captured' = <<>>
  /\ wire' = {}
  /\ UNCHANGED <<adapter, safe_mode>>

\* The gate refused the scan (403), or a probe raised (500).
ProbeEnds ==
  /\ probing # NotProbing
  /\ pc \in {"not_permitted", "failed"}
  /\ answer' = [answer EXCEPT ![probing.scan] = IF pc = "failed" THEN "500" ELSE "403"]
  /\ ProbeOver
  /\ UNCHANGED <<credVars, storeVars>>

\* _persist_scan is called with what the probes captured.
HandOver ==
  /\ probing # NotProbing
  /\ pc = "persist"
  /\ Store!BeginPersist(probing.scan, [n \in DOMAIN captured |-> Draft(captured[n].target)])
  /\ ProbeOver
  /\ UNCHANGED <<credVars, answer>>

\* A draft becomes a row by being encrypted: without a secret that raises, and
\* nothing of the scan is stored.
SealFails(s) ==
  /\ secret = NoSecret
  /\ Store!HasDraft(s)
  /\ Store!Abort(s)

PersistStep(s) ==
  /\ \/ Store!ReadFindings(s)
     \/ secret # NoSecret /\ (Store!Collapse(s) \/ Store!Create(s))
     \/ SealFails(s)
     \/ Store!Commit(s)
     \/ Store!Retry(s)
     \/ Store!GiveUp(s)
  /\ UNCHANGED <<vars, credVars, probing, answer>>

\* The client goes away while its scan is under way.
ScanDies(s) ==
  /\ \/ /\ probing.scan = s
        /\ answer' = [answer EXCEPT ![s] = "gone"]
        /\ ProbeOver
        /\ UNCHANGED storeVars
     \/ Store!Abort(s) /\ UNCHANGED <<vars, probing, answer>>
  /\ UNCHANGED credVars

\* Everything under way in the process goes with it.
Restart(new) ==
  /\ RestartRequests(new)
  /\ IF probing = NotProbing THEN UNCHANGED <<vars, probing, answer>>
     ELSE answer' = [answer EXCEPT ![probing.scan] = "gone"] /\ ProbeOver
  /\ persist_pc' = [s \in Scans |-> IF persist_pc[s] \in Store!InFlight THEN "aborted"
                                    ELSE persist_pc[s]]
  /\ UNCHANGED <<persist_captured, attempt, next, by_key, high_water, allocated, raised,
                 appended, findings, evidence, events, scans>>

RunNext ==
  \/ \E s \in Scans : \/ \E authenticated \in BOOLEAN : StartScan(s, authenticated)
                      \/ PersistStep(s)
                      \/ ScanDies(s)
  \/ ProbeStep
  \/ ProbeEnds
  \/ HandOver
  \/ CredentialNext /\ UNCHANGED <<vars, probing, answer, storeVars>>
  \/ \E new \in Secrets \cup {NoSecret} : Restart(new)

\* The event loop runs every request; a server answers or times out.
RunFairness ==
  /\ WF_runVars(ProbeStep \/ ProbeEnds \/ HandOver)
  /\ \A s \in Scans : WF_runVars(PersistStep(s))
  /\ \A r \in Requests :
       WF_runVars(CredentialStep(r) /\ UNCHANGED <<vars, probing, answer, storeVars>>)

RunSpec == RunInit /\ [][RunNext]_runVars /\ RunFairness

-----------------------------------------------------------------------------
\* An authenticated scan presents, in every request it makes, the credential
\* that was stored when it started, also when that one is replaced or deleted
\* meanwhile, and never goes on without it: not after a restart that made it
\* unreadable, not on a later hop.  A scan that was not asked to presents none,
\* and a TLS handshake, which is no request, has nothing to present.
ScanIsAsAsked ==
  probing # NotProbing =>
    /\ probing.authenticated <=> probing.auth # NoAuth
    /\ \A w \in wire : \/ w.credential = probing.auth
                       \/ w.credential = NoAuth /\ adapter.name = "tls"

\* What is stored names a page the engagement's scope covers, whatever the
\* servers redirected to and whatever scans were lost on the way: no finding
\* is ever held against a host that is private, denied or not asked for.  As in
\* EgressInScope, private are IP literals and not what a name resolves to.
FindingsInScope ==
  \A i \in DOMAIN findings :
    LET host == findings[i].key.host.host
        Covers(rule) == rule.spelled.host = host \/ \E n \in 1..Len(host)-1 :
                          SubSeq(host, n+1, Len(host)) = rule.spelled.host
    IN  /\ host \notin DangerousHosts
        /\ \A rule \in engagement.scope_deny : ~ Covers(rule)
        /\ \E rule \in engagement.scope_allow :
             Covers(rule) /\ (rule.wildcard \/ rule.spelled.host = host)

\* Every request is answered: no scan waits for a credential request nor a
\* credential request for another for ever, though replacements lock the row.
RequestsAnswered ==
  /\ \A r \in Requests : (request[r].at \in InProgress) ~> (request[r].at = "answered")
  /\ \A s \in Scans : (answer[s] = "under way") ~>
                        (answer[s] # "under way" \/ persist_pc[s] \in Store!Finished)

=============================================================================
