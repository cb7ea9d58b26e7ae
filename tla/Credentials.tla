---------------------------- MODULE Credentials ----------------------------
(***************************************************************************)
(* The credential of an engagement (api/engagements.py, services/           *)
(* credentials.py, models/tables.py): operators set, replace and delete it  *)
(* in requests that overlap, each in a session of its own, READ COMMITTED.  *)
(* A unique constraint keeps one row per engagement.  A replacement deletes  *)
(* the row it found, which locks it, and inserts its own before it commits.  *)
(*                                                                         *)
(* A row's primary key (uuid4) is the request that made it, and it stands   *)
(* for the header the row becomes; sealed is the secret it is encrypted     *)
(* under.  The secret is read once per process (get_settings).              *)
(***************************************************************************)
EXTENDS Naturals, FiniteSets

CONSTANTS
  Requests,      \* set and delete requests
  Secrets,       \* values of SECRET_KEY
  NoSecret,      \* a production process without one
  NoRow,
  MaxRestarts    \* bound: how often the process is restarted

ASSUME NoSecretAssumption    == NoSecret \notin Secrets
ASSUME NoRowAssumption       == NoRow \notin Requests
ASSUME MaxRestartsAssumption == MaxRestarts \in Nat

VARIABLES
  credential,   \* the engagement's rows of the credential table
  request,      \* the credential requests
  secret,       \* of the process that runs
  restarts

credVars == <<credential, request, secret, restarts>>

Credential == [id : Requests, sealed : Secrets]

InProgress == {"flush", "commit", "refresh"}

\* found is the row the request read; sealed the secret it encrypted under.
CredentialRequest ==
  [op : {"none", "set", "delete"}, at : {"idle", "answered"} \cup InProgress,
   found : Requests \cup {NoRow}, sealed : Secrets \cup {NoSecret},
   status : {"none", "201", "204", "400", "404", "500", "gone"}]

NotBegun == [op |-> "none", at |-> "idle", found |-> NoRow, sealed |-> NoSecret, status |-> "none"]

CredTypeOK ==
  /\ credential \subseteq Credential
  /\ request \in [Requests -> CredentialRequest]
  /\ secret \in Secrets \cup {NoSecret}
  /\ restarts \in 0..MaxRestarts

\* Some requests may be over: the one that set the credential, if there is
\* one, under whatever the secret was then, and some that found none to delete.
CredInit ==
  /\ credential \in {{}} \cup {{c} : c \in Credential}
  /\ \E over \in SUBSET Requests :
       /\ {c.id : c \in credential} \subseteq over
       /\ request = [r \in Requests |->
            IF r \notin over THEN NotBegun
            ELSE IF \E c \in credential : c.id = r
            THEN [NotBegun EXCEPT !.op = "set", !.at = "answered", !.status = "201",
                                  !.sealed = (CHOOSE c \in credential : TRUE).sealed]
            ELSE [NotBegun EXCEPT !.op = "delete", !.at = "answered", !.status = "404"]]
  /\ secret \in Secrets \cup {NoSecret}
  /\ restarts = 0

-----------------------------------------------------------------------------
\* The id of the engagement's row, NoRow without one.
get_credential == IF credential = {} THEN NoRow ELSE (CHOOSE c \in credential : TRUE).id

Stored(id) == \E c \in credential : c.id = id

\* The request has deleted the row it found and not committed: others that
\* touch the row wait.
Holds(r, id) == request[r].op = "set" /\ request[r].at = "commit" /\ request[r].found = id

Locked(r, id) == \E q \in Requests \ {r} : Stored(id) /\ Holds(q, id)

Answered(r, status) ==
  request' = [request EXCEPT ![r].at = "answered", ![r].status = status]

\* set_engagement_credential up to its lookup: refuse what is not usable (a
\* custom header without a name), encrypt - which fails without a secret -
\* and read the row that is there.
BeginSet(r, usable) ==
  /\ request[r] = NotBegun
  /\ request' = [request EXCEPT ![r] =
       CASE ~ usable ->
              [NotBegun EXCEPT !.op = "set", !.at = "answered", !.status = "400"]
         [] usable /\ secret = NoSecret ->
              [NotBegun EXCEPT !.op = "set", !.at = "answered", !.status = "500"]
         [] OTHER ->
              [op |-> "set", at |-> IF get_credential = NoRow THEN "commit" ELSE "flush",
               found |-> get_credential, sealed |-> secret, status |-> "none"]]
  /\ UNCHANGED <<credential, secret, restarts>>

\* Variant: the delete is committed by itself.
FlushDelete_committed(r) ==
  /\ request[r].op = "set"
  /\ request[r].at = "flush"
  /\ ~ Locked(r, request[r].found)
  /\ request' = [request EXCEPT ![r].at = "commit"]
  /\ credential' = {c \in credential : c.id # request[r].found}
  /\ UNCHANGED <<secret, restarts>>

\* Variant: the lookup took a share lock, and the delete waits for the others'.
FlushDelete_share_locked(r) ==
  /\ request[r].op = "set"
  /\ request[r].at = "flush"
  /\ ~ \E q \in Requests \ {r} : request[q].at \in InProgress /\ request[q].found = request[r].found
  /\ request' = [request EXCEPT ![r].at = "commit"]
  /\ UNCHANGED <<credential, secret, restarts>>

\* The delete of the row found, flushed ahead of the insert.  It waits for the
\* row; a row that is gone by then is not missed.
FlushDelete(r) ==
  /\ request[r].op = "set"
  /\ request[r].at = "flush"
  /\ ~ Locked(r, request[r].found)
  /\ request' = [request EXCEPT ![r].at = "commit"]
  /\ UNCHANGED <<credential, secret, restarts>>

\* Variant: the delete is left to the commit's flush, where inserts go first.
Met_unflushed(r) == credential

\* The rows the insert meets: the row deleted by this session is not there.
Met(r) == {c \in credential : c.id # request[r].found}

\* The insert and the commit.  uq_credential_engagement refuses a second row,
\* and waits to know whether a row another session deleted stays: the answer
\* is then 500, and what was deleted is back.
CommitSet(r) ==
  /\ request[r].op = "set"
  /\ request[r].at = "commit"
  /\ \A c \in Met(r) : ~ Locked(r, c.id)
  /\ IF Met(r) # {}
     THEN /\ Answered(r, "500")
          /\ UNCHANGED credential
     ELSE /\ request' = [request EXCEPT ![r].at = "refresh"]
          /\ credential' = {[id |-> r, sealed |-> request[r].sealed]}
  /\ UNCHANGED <<secret, restarts>>

\* session.refresh fails if the row it stored has been replaced already.
RefreshSet(r) ==
  /\ request[r].op = "set"
  /\ request[r].at = "refresh"
  /\ Answered(r, IF Stored(r) THEN "201" ELSE "500")
  /\ UNCHANGED <<credential, secret, restarts>>

\* delete_engagement_credential up to its commit.
BeginDelete(r) ==
  /\ request[r] = NotBegun
  /\ request' = [request EXCEPT ![r] =
       IF get_credential = NoRow
       THEN [NotBegun EXCEPT !.op = "delete", !.at = "answered", !.status = "404"]
       ELSE [NotBegun EXCEPT !.op = "delete", !.at = "commit", !.found = get_credential]]
  /\ UNCHANGED <<credential, secret, restarts>>

\* Its commit.  Another request may have replaced the row meanwhile, and the
\* new one stays.
CommitDelete(r) ==
  /\ request[r].op = "delete"
  /\ request[r].at = "commit"
  /\ ~ Locked(r, request[r].found)
  /\ credential' = {c \in credential : c.id # request[r].found}
  /\ Answered(r, "204")
  /\ UNCHANGED <<secret, restarts>>

\* The client is gone before the commit: the transaction is rolled back.
Die(r) ==
  /\ request[r].at \in InProgress
  /\ Answered(r, "gone")
  /\ UNCHANGED <<credential, secret, restarts>>

\* The process is started anew, perhaps with another secret: what was under
\* way is lost.
RestartRequests(new) ==
  /\ restarts < MaxRestarts
  /\ restarts' = restarts + 1
  /\ secret' = new
  /\ request' = [r \in Requests |->
                   IF request[r].at \in InProgress
                   THEN [request[r] EXCEPT !.at = "answered", !.status = "gone"]
                   ELSE request[r]]
  /\ UNCHANGED credential

\* What a request does by itself, once begun.
CredentialStep(r) == FlushDelete(r) \/ CommitSet(r) \/ RefreshSet(r) \/ CommitDelete(r)

CredentialNext ==
  \E r \in Requests :
    \/ \E usable \in BOOLEAN : BeginSet(r, usable)
    \/ BeginDelete(r)
    \/ CredentialStep(r)
    \/ Die(r)

-----------------------------------------------------------------------------
\* What a scan that asks for the credential gets: load_auth.

Anonymous  == "anonymous"
Unreadable == "unreadable"

load_auth ==
  IF credential = {} THEN Anonymous
  ELSE LET row == CHOOSE c \in credential : TRUE
       IN  IF row.sealed = secret THEN row.id ELSE Unreadable

-----------------------------------------------------------------------------
\* Safety and liveness.

\* A scan that reads the table at any moment of a replacement finds the old
\* credential or the new one, never none: a row leaves only by the commit of a
\* request that had read that very row, and, unless the request was to delete
\* it, its successor is there in the same step.
ReplacedNotRemoved ==
  [][\A c \in credential \ credential' :
       \E r \in Requests :
         /\ request[r].found = c.id
         /\ request[r].at = "commit" /\ request'[r].at # "commit"
         /\ request[r].op = "set" => \E n \in credential' : n.id = r]_credVars

\* Answers mean what they say, whoever raced with whom: at a 201 the new row
\* is there, after a 201 or a 204 the row the request had found is gone for
\* good, and a set that got as far as its commit or its refresh is answered 500
\* there only if another request changed the table after its lookup - operators
\* who take turns never are.  (Without a secret a set is answered 500 at its
\* beginning, whoever else is there.)
AnswersAreTrue ==
  [][\A r \in Requests :
       LET q       == request'[r]
           answers == request[r].at # "answered"
       IN  /\ answers /\ q.status = "201" => Stored(r)'
           /\ q.status \in {"201", "204"} => ~ \E c \in credential' : c.id = q.found
           /\ answers /\ q.status = "500" /\ request[r].at = "commit" =>
                {c.id : c \in credential} # {q.found} \ {NoRow}
           /\ answers /\ q.status = "500" /\ request[r].at = "refresh" => ~ Stored(r)]_credVars

=============================================================================
